------------------------------ MODULE PinLockout ------------------------------
(***************************************************************************)
(* PIN entry against one vault: the coroutine UnlockVaultWithPIN.execute   *)
(* over RedisPINAttemptTracker.  Every Redis command is awaited, so any    *)
(* other request runs between two of them; one action is one command and   *)
(* the straight-line code that follows its reply.                          *)
(*                                                                         *)
(* The counter key pin_attempts:<vault> is `attempts' (0: no such key) and *)
(* `ttl', its remaining life in clock ticks (NoTTL: it never expires).     *)
(***************************************************************************)
EXTENDS Naturals, FiniteSets

CONSTANTS
  Requests,      \* concurrent calls of the unlock endpoints
  Pins,          \* well-formed PINs
  Malformed,     \* any text that PIN() refuses
  NoPin,         \* a vault row whose pin_hash is NULL
  NoVault,       \* no vault row
  MaxAttempts,   \* max_attempts of the tracker
  LockoutTicks,  \* lockout_seconds, in clock ticks
  MaxFaults      \* bound: Redis commands that fail

ASSUME PinAssumption ==
  /\ IsFiniteSet(Requests)
  /\ MaxAttempts \in Nat \ {0}
  /\ LockoutTicks \in Nat \ {0}
  /\ MaxFaults \in Nat

VARIABLES
  stored,    \* the vault's PIN as the database holds it
  attempts,  \* value of the counter key
  ttl,       \* its time to live
  req,       \* each request's coroutine frame
  faults     \* Redis commands that have failed

vars == <<stored, attempts, ttl, req, faults>>

NoTTL == 0
Awaits == {"check", "incr", "expire", "ttl", "lock", "clear"}
Hashes == Pins \cup {NoPin, NoVault}

\* The await a request is suspended at, whether the PIN it was given is well
\* formed and fits the hash it has read, and what its INCR returned.
Frame == [at : Awaits \cup {"idle"}, matches : BOOLEAN, count : Nat]

Idle == [at |-> "idle", matches |-> FALSE, count |-> 0]

TypeOK ==
  /\ stored \in Hashes
  /\ attempts \in Nat
  /\ ttl \in 0..LockoutTicks
  /\ req \in [Requests -> Frame]
  /\ faults \in 0..MaxFaults

Locked == attempts >= MaxAttempts

\* Request r is next suspended at `await', or has ended when that is "idle".
Goto(r, await) ==
  req' = [req EXCEPT ![r] = IF await = "idle" THEN Idle ELSE [@ EXCEPT !.at = await]]

Init ==
  /\ stored \in Pins \cup {NoPin}
  /\ attempts = 0
  /\ ttl = NoTTL
  /\ req = [r \in Requests |-> Idle]
  /\ faults = 0

\* Mutants of the definitions below, for testing the properties: one failure too
\* many before lockout, no lockout, a lockout that each refused request
\* prolongs, no repair of a missing expiry, an expiry added to what is left.
LateLockout(r) ==
  /\ req[r].at = "check"
  /\ Goto(r, IF attempts > MaxAttempts THEN "idle" ELSE IF req[r].matches THEN "clear" ELSE "incr")
  /\ UNCHANGED <<stored, attempts, ttl, faults>>

CheckPinFirst(r) ==
  /\ req[r].at = "check"
  /\ Goto(r, IF req[r].matches THEN "clear" ELSE IF Locked THEN "idle" ELSE "incr")
  /\ UNCHANGED <<stored, attempts, ttl, faults>>

ProlongLockout(r) ==
  /\ req[r].at = "check"
  /\ Goto(r, IF Locked THEN "lock" ELSE IF req[r].matches THEN "clear" ELSE "incr")
  /\ UNCHANGED <<stored, attempts, ttl, faults>>

NoRepair(r) ==
  /\ req[r].at = "ttl"
  /\ Goto(r, IF req[r].count >= MaxAttempts THEN "lock" ELSE "idle")
  /\ UNCHANGED <<stored, attempts, ttl, faults>>

AddExpiry == ttl' = IF attempts > 0 THEN ttl + LockoutTicks ELSE ttl

-----------------------------------------------------------------------------
\* A missing vault (404) or one without a PIN (409) ends the request at once.
Refuse(r) ==
  /\ req[r].at = "idle"
  /\ stored \in {NoPin, NoVault}
  /\ UNCHANGED vars

\* execute up to its first await: the vault's row is read once, here.
Begin(r, entered) ==
  /\ req[r].at = "idle"
  /\ stored \notin {NoPin, NoVault}
  /\ req' = [req EXCEPT ![r] = [Idle EXCEPT !.at = "check", !.matches = entered = stored]]
  /\ UNCHANGED <<stored, attempts, ttl, faults>>

\* is_locked_out (GET), then PIN() and hasher.verify on the values read above.
CheckLockout(r) ==
  /\ req[r].at = "check"
  /\ Goto(r, IF Locked THEN "idle" ELSE IF req[r].matches THEN "clear" ELSE "incr")
  /\ UNCHANGED <<stored, attempts, ttl, faults>>

\* register_failure: INCR creates the key without an expiry.
Incr(r) ==
  /\ req[r].at = "incr"
  /\ attempts' = attempts + 1
  /\ req' = [req EXCEPT ![r].count = attempts + 1,
                        ![r].at = IF attempts = 0 THEN "expire" ELSE "ttl"]
  /\ UNCHANGED <<stored, ttl, faults>>

\* Where register_failure goes once it has seen to the expiry.
AfterExpiry(r) == IF req[r].count >= MaxAttempts THEN "lock" ELSE "idle"

\* EXPIRE does nothing on a key that is gone.
SetExpiry == ttl' = IF attempts > 0 THEN LockoutTicks ELSE ttl

\* TTL: -1 (the key has no expiry) is repaired with an EXPIRE.
ReadTTL(r) ==
  /\ req[r].at = "ttl"
  /\ Goto(r, IF attempts > 0 /\ ttl = NoTTL THEN "expire" ELSE AfterExpiry(r))
  /\ UNCHANGED <<stored, attempts, ttl, faults>>

Expire(r) ==
  /\ req[r].at = "expire"
  /\ SetExpiry
  /\ Goto(r, AfterExpiry(r))
  /\ UNCHANGED <<stored, attempts, faults>>

\* The failure that reached the limit starts the lockout window over.
ExpireLockout(r) ==
  /\ req[r].at = "lock"
  /\ SetExpiry
  /\ Goto(r, "idle")
  /\ UNCHANGED <<stored, attempts, faults>>

\* register_success (DEL); the unlock command that follows is best effort.
Clear(r) ==
  /\ req[r].at = "clear"
  /\ attempts' = 0
  /\ ttl' = NoTTL
  /\ Goto(r, "idle")
  /\ UNCHANGED <<stored, faults>>

\* The awaited command raises: the exception leaves execute and the request
\* ends with a 500, whatever register_failure had still to do.
Fault(r) ==
  /\ req[r].at \in Awaits
  /\ faults < MaxFaults
  /\ faults' = faults + 1
  /\ Goto(r, "idle")
  /\ UNCHANGED <<stored, attempts, ttl>>

\* SetVaultPIN, RemoveVaultPIN, ResetVault and DeleteVault, by other requests;
\* none of them touches the counter.
ChangeVault(new) ==
  /\ stored # NoVault
  /\ stored' = new
  /\ UNCHANGED <<attempts, ttl, req, faults>>

\* Redis' clock; a key whose time is up is gone.
Tick ==
  /\ ttl # NoTTL
  /\ ttl' = ttl - 1
  /\ attempts' = IF ttl = 1 THEN 0 ELSE attempts
  /\ UNCHANGED <<stored, req, faults>>

Step(r) ==
  \/ CheckLockout(r)
  \/ Incr(r)
  \/ ReadTTL(r)
  \/ Expire(r)
  \/ ExpireLockout(r)
  \/ Clear(r)

Next ==
  \/ \E r \in Requests :
       \/ Refuse(r)
       \/ \E entered \in Pins \cup {Malformed} : Begin(r, entered)
       \/ Step(r)
       \/ Fault(r)
  \/ \E new \in Hashes : ChangeVault(new)
  \/ Tick

Spec == Init /\ [][Next]_vars

\* The event loop resumes every coroutine whose reply has come, and Redis' clock
\* runs; nothing makes a client send a request.
Fairness == WF_vars(Tick) /\ \A r \in Requests : WF_vars(Step(r))

FairSpec == Spec /\ Fairness

-----------------------------------------------------------------------------
\* Wrong guesses that are past the lockout check and not yet counted.
Uncounted == {r \in Requests : req[r].at = "incr"}

\* Requests that have counted a failure and have not yet seen to the expiry.
Expiring == {r \in Requests : req[r].at \in {"expire", "ttl"}}

\* Requests past the lockout check.
Admitted == {r \in Requests : req[r].at \notin {"idle", "check"}}

\* The lockout check and the INCR are two commands, so concurrent requests can
\* pass the check together; however they interleave, one window never sees more
\* wrong guesses than MaxAttempts - 1 and one for each request in flight.
AttemptBudget ==
  attempts + Cardinality(Uncounted) <= MaxAttempts - 1 + Cardinality(Requests)

\* INCR and EXPIRE are two commands, so a failure between them leaves a counter
\* that never expires.  The TTL = -1 repair bounds what that can do: a counter
\* without an expiry has counted at most the failed commands and the requests
\* that are about to repair it, so below MaxAttempts faults no vault stays
\* locked for want of an expiry.
UnexpiringCounter ==
  attempts > 0 /\ ttl = NoTTL => attempts <= faults + Cardinality(Expiring)

\* While the vault is locked out nobody is let past the check, so the requests
\* that can still clear the counter or prolong the lockout only get fewer.
LockoutDrains ==
  [][Locked /\ Locked' => Admitted' \subseteq Admitted]_vars

\* A lockout ends, however many requests keep coming while it lasts, as long as
\* fewer than MaxAttempts commands have failed between INCR and EXPIRE.
LockoutEnds == Locked ~> ~Locked
=============================================================================
