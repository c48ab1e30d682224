# A TLA+ model of the SmartVault backend

SmartVault is a FastAPI service between physical vaults (ESP32 devices), their
owners' apps, PostgreSQL and Redis, with a terminal console for administrators.
These modules model the parts of it whose correctness depends on the order in which
requests, device messages, Redis commands, SQL statements and the console's loads
interleave; TLC checks them on small instances, and TLAPS proves every invariant, box
property and refinement that the runs check for every instance. `PROJECT.json` maps each
definition to the source lines it models.

Paths below are under `src/app/`, unless they begin with `src/` or are the console's
(`src/smartvault_admin_tui`).

## How the program runs

One uvicorn process (`Dockerfile.prod`) with one asyncio event loop. Coroutines
are interrupted only where they await something that suspends: a Redis command,
a WebSocket send, receive or close, a sleep. Synchronous use cases that an
endpoint calls through `run_in_threadpool` run in worker threads, beside the loop
and beside each other; synchronous use cases that a coroutine calls directly
block the loop while they run. SQLAlchemy sessions neither autocommit nor
autoflush, PostgreSQL runs at READ COMMITTED, and the repositories keep no ORM
object between calls, so each repository call reads the row again. This decides
what one action is: one Redis command, one SQL statement, or the code from one
await to the next.

## Inventory

| Component | State | Operations | Interacts with | Hard behaviour | Correct when | Model |
|---|---|---|---|---|---|---|
| PIN entry and lockout (`application/use_cases/unlock_vault_with_pin.py`, `infrastructure/security/pin_attempt_tracker.py`) | Redis counter `pin_attempts:<vault>` and its TTL; the vault's `pin_hash` | check lockout, count a failure, repair the expiry, clear | both unlock endpoints; PIN changes; `send_to_vault` | GET then INCR, INCR then EXPIRE, a success that clears what others counted | guesses per window are bounded; a lockout holds and ends | `PinLockout` |
| Device connections (`infrastructure/messaging/websocket_manager.py`, vault side; `websocket/vault_socket.py`) | `vault_connections`, `connection_metadata`, `last_heartbeat` | connect, disconnect, heartbeat, send, monitor round | device endpoint, every use case that sends a command | old and new handlers of one vault overlap; state used after an await | the dictionaries name live handlers only; silent and lost vaults go offline | `ConnectionRegistry`, `DevicePresence` |
| User connections and subscriptions (`websocket_manager.py`, user side) | `user_connections`, `vault_subscriptions` | connect, disconnect, subscribe, broadcast, send to a user | device connections, biometrics | a list that changes while it is iterated over; several devices of one user | no entry outlives its handlers; nobody is told twice; who is missed is bounded | `UserRooms` |
| Vault lifecycle (`provision_vault`, `register_device`, `process_vault_state_update`, `set_vault_pin`, `remove_vault_pin`, `reset_vault`, `delete_vault`, `sqlalchemy_vault_repository`) | table `vaults` | register, report state, set/remove PIN, reset, delete | provisioning tokens, members, device connections | copies of a row saved after another thread has changed it; deletion under way | ownership only through registration; deletion is final | `VaultLifecycle` |
| Provisioning tokens (`generate_provisioning_token`, `infrastructure/cache/provisioning_token_store.py`) | Redis `prov:<token>` | SET NX EX, GET, DEL | registration | GET … commit … DEL, crash in between | a used token goes | `VaultLifecycle` |
| Membership and access (`add_vault_member`, `remove_vault_member`, `check_vault_access`, `vault_role`, `send_unlock_command`, `api/v1/access.py`, `api/v1/vaults.py`) | table `vault_authorizations` | add, change role, remove, check, list, unlock | lifecycle (owner), biometrics | check then act; concurrent additions; members who outlive an owner | roles come from owners of this vault; nobody is served without a right; errors only in a race | `VaultAccess` |
| Biometrics (`api/v1/biometrics.py`, `enroll_biometrics`, `enroll_face`, `verify_face`, `delete_face`) | `biometric_enrollments`, `face_encodings` | enrol, verify, delete, unlock | the unlock request of `VaultAccess` | select then insert; a row deleted before it is updated | duplicates bounded; errors only in a race | `Biometrics` |
| OTP, signup tickets, password reset (`otp_ticket_service`, `password_reset_service`, `create_user`, `reset_password`) | Redis `otp:`, `signup_ticket:`, `pwd_reset:`; table `users` | issue, verify, consume, create a user, set a password | e-mail | script, GETDEL or GET/DEL; consumed before the work is done; commands that are run again | a secret lets one request go on, and that request gets what it is for | `Accounts`, `OneTimeSecret` |
| E-mail (`email_service`, `email_notification_service`, `email_metrics`) | counters of the day | send, count | OTP and reset requests | the counting fails within the `try` of the sending | the answer and the counters tell what became of the e-mail | `Accounts` |
| Refresh tokens and sessions (`refresh_token_store`, `session_metrics`) | Redis `refresh:<token>` | create, rotate, revoke, revoke all of a user | login, logout, admin | SCAN while tokens rotate; overlapping refreshes | one live token per session; what was there when a revocation began is gone when it ends | `Sessions` |
| Rate limiter (`infrastructure/security/rate_limiter.py`) | Redis `rate_limit:<key>` | `allow_request` | login and other endpoints | INCR then EXPIRE, INCR counted twice | who is refused is let in again | `Sessions` |
| Activity log and reports (`log_activity`, `infrastructure/db/queries/*`, `api/internal/*`) | table `access_logs`; nothing of their own | insert, delete; overview, alerts, activity, summary, trends | vaults, users, members | several SELECTs make one report | figures of one report fit together; figures computed twice agree | `Reports`, `Trends` |
| Admin console (`src/smartvault_admin_tui`) and API keys (`api/internal/ops/api_keys.py`) | loads in progress, what is shown; table `api_keys` | load, refresh, choose, create and revoke a key, revoke sessions | the admin API | overlapping and cancelled loads, lost answers | a quiet screen shows an answer, the right one if loads did not overlap | `Console` |
| Push notifications and device tokens, PIN value object, health, Prometheus counters, settings, scripts, migrations | device tokens; counters | - | - | - | - | not modelled |

## Modules

| Module | What it is |
|---|---|
| `PinLockout` | the unlock coroutine and the tracker, one Redis command per action |
| `DevicePresence` | abstract: what the backend may assume of a vault's presence |
| `ConnectionRegistry` | the vault side of WebSocketManager and the device endpoint, one await per action |
| `UserRooms` | its user side, one awaited send per action |
| `VaultLifecycle` | table `vaults` and the provisioning tokens, one statement or command per action |
| `VaultAccess` | table `vault_authorizations` and the requests that read and change it, one statement per action |
| `Biometrics` | extends `VaultAccess`: enrolments, faces and the unlocking after a biometric check |
| `OneTimeSecret` | abstract: a secret lets one request go on each time it is issued |
| `Accounts` | one-time passwords, tickets, reset tokens, e-mails and users, one command, statement or call per action |
| `Sessions` | refresh tokens, their revocation and the rate limit of logins, one Redis command per action |
| `Sums` | the sum of a function over a finite set, which reports and trends count with |
| `Reports` | the reports as sequences of SELECTs while rows change; the severity of alerts |
| `Trends` | the daily series as pure functions |
| `Console` | a screen of the admin console and the API keys behind it |
| `PinLockoutProofs`, `ConnectionRegistryProofs`, `VaultLifecycleProofs`, `UserRoomsProofs`, `AccountsProofs`, `SessionsProofs` | the theorems on the module of that name |
| `VaultAccessProofs` | those on `VaultAccess` and `Biometrics` |
| `AdminProofs` | those on `Reports`, `Trends` and `Console`, the lemmas on sums, and the composition of `MCAdmin` |
| `MC*` | the instances and the documents' statements that TLC checks |

`Biometrics` composes with `VaultAccess` (its unlock goes on as a request there),
`ConnectionRegistry` implements `DevicePresence` and `Accounts` implements
`OneTimeSecret`. `VaultAccess` sees of the lifecycle only what it commits to the
vault's row: `Register`, `ResetVault`, `SaveOutdated` and `DeleteVault` are the
effects of `VaultLifecycle`'s operations, and `SaveOutdated` allows no more than
its theorem `OwnersHold` does (an outdated save writes an owner of this vault).

Each module that has properties also holds, before the definitions they replace,
the mutants named in `PROJECT.json`: the definition with a plausible bug in it,
with which TLC must find the property violated.

### PinLockout

`attempts` and `ttl` are the Redis key and its remaining life (0 ticks: no
expiry), `stored` is the vault's PIN in the database, `req[r]` the coroutine
frame of request `r`: the command it awaits, whether the PIN it was given fits the
hash it read before its first await, and what its INCR returned. `Begin` is
`execute` up to the first await; `CheckLockout`, `Incr`, `ReadTTL`, `Expire`,
`ExpireLockout` and `Clear` are each one reply and what follows it. `Fault` is any
awaited command that raises. `ChangeVault` stands for the use cases that change or
remove the PIN or the vault: none of them touches the counter. A request is a slot
that is used again and again, so `Requests` bounds concurrency, not history.

- `AttemptBudget`: GET and INCR are two commands, so the documented limit can be
  exceeded; by no more than one guess for each concurrent request.
- `UnexpiringCounter`: what a failure between INCR and EXPIRE can leave behind,
  given the repair (`ttl == -1`).
- `LockoutDrains`: nobody gets past the check while the vault stays locked out, so
  the requests that can still clear or prolong the lockout only get fewer.
- `LockoutEnds`: the lockout is over some time, under weak fairness of each
  request's next step (the loop resumes a coroutine whose reply has come) and of
  Redis' clock. No fairness is assumed of clients.

### ConnectionRegistry

One vault: entries of different vaults do not interact. `handler[w]` is where the
endpoint's coroutine for connection `w` is; `closed` and `gone` tell that the
server has closed it and that its peer is gone. `connect_vault` suspends only when
it closes an older connection, so it is `ConnectFirst`, or `ConnectOver` and
`CloseReturns`. The close can raise: at once, when the server has closed the
connection before, and on return, when the peer is gone; both leave the endpoint
outside its `try`. `Send`, `SendReturns` and `SendRaises` are `send_to_vault`, whose
`except` block looks the registry up again. `MonitorWakes` and `MonitorDrops` are
the two halves of a monitor round, split at the broadcast. The ONLINE broadcast at
the end of `connect_vault` only reads other state and is merged with the step that
registers. `self.redis` is never set in this program, so those branches are dead.

- `RegistryServed`, `MetadataServed`, `BeatServed`: no dictionary speaks of a
  connection whose handler has ended.
- `LostConnectionLeaves`, `StaleLeaves`: liveness of clean-up. A heartbeat that has
  timed out is renewed, or the vault goes offline, or one of the connections that
  were served at that time ends. The third case is not the vault going offline: that
  handler's `disconnect_vault` deletes the entry the connections share, and another
  one may stay registered without a heartbeat (the run `silent_vault`). Fairness: the
  loop resumes what can run (`CloseReturns`, `End`, the sender), the monitor's sleep
  ends and time passes. The device is not assumed to do anything.
- `ImplementsPresence`: refinement of `DevicePresence` with `present` mapped to the
  registry entry and `used` to the connections that have been served or have ended.

### VaultLifecycle

`rows[h]` is the row of device `h` in table `vaults` (columns id, owner, status,
PIN), `tokens[t]` the user a provisioning token was made for. `op[o]` is an
operation in progress and the statement it executes next. Registrations and state
updates block the event loop between their statements (`loop`), everything else
runs in worker threads. `SqlAlchemyVaultRepository.update` reads the row again and
assigns every column of the caller's copy; SQLAlchemy writes those that differ from
what it has just read: `Reread` computes this set, `Update` writes it. `create` and
`update` refresh the row after the commit, which fails if it has been deleted
meanwhile (`Refresh`). A device may report any status, and `StateUpdate` saves it
(`Reported` is any set of statuses). A request that its first statement refuses changes
nothing and is no action. `Fault` is any statement or command of an operation that
raises, the DEL of the token included: the transaction is rolled back and the request
ends. `Crash` loses everything in progress; rows and Redis stay. Neither is limited in
number. `uses`, `kept`, `redeemed`, `opened` and `stale` are history variables.

- `OwnerRegistered`: whatever outdated copies are saved, a vault belongs to a user
  whose token this very vault was registered with. (The code does let a late save
  give a re-registered vault back to its former owner; it never crosses over to
  another vault of the device.)
- `OwnerChangesAfterOpening`: a write that is not outdated changes the owner only of a
  vault that awaits provisioning, and only once the owner's reset or the device's own
  report PROVISIONING has opened this very vault (`opened`). Outdated copies may close
  it and make it await provisioning again, but never without an opening.
- `UsedTokenGoes`: a token that has registered a vault that still exists is redeemable
  only until that registration has deleted it, or if this very registration was broken
  off between its commit and the DEL (`kept`), by a crash, a failing refresh or the
  failing DEL itself (`register_device.py:73`).
- `DeletedStaysDeleted`: no write brings a deleted vault back.

### UserRooms

`rooms[u]` is the list of user u's connections and `subs[v]` the users subscribed to
a vault; `handler[c]` and `lost` are as in `ConnectionRegistry`. `caster[k]` is the
frame of a coroutine that sends: to the subscribers of a vault, over a copy of the
set, or to one user, over the live list. All run on one loop, so that between two
awaited sends nothing else moves (`Suspended`). `send_to_user` iterates over the
list itself: its place is an index, and what is removed before it moves the rest up.
An emptied list is deleted from the dictionary, and the iterator keeps the old one
(`listed`). `EndOfList`, one `CleanUp` for each connection that raised and `Leave` are
the end of `send_to_user`; no other coroutine runs between them. A connection is in a
list once at most (an endpoint registers it once), so that the order of the dead does
not matter.

- `RoomsServed`: disconnect_user runs from the endpoint and from every sender that
  met a dead connection, in any order; no list entry is left for a handler that has
  ended, and no subscription for a user without a handler that could end it. (All of
  a user's subscriptions go when the first of several connections ends: the code
  does so on purpose of its data structure, no document says otherwise.)
- `DeliveryBounded`: a changing list may make the loop skip connections, one at most
  for each that was removed, and it never sends to one twice.

### VaultAccess and Biometrics

One device; `vault` is its row, `roles` its members' rows, `req[r]` the statement a
request executes next. `Begin`, `SelectVault` and `CheckRole` are the SELECTs of
CheckVaultAccess, alone or after that of SendUnlockCommand; `Serve` and
`SendCommand` are what was asked for. `Add`, `Lookup`, `Insert`, `UpdateRole` and
`Refresh` are AddVaultMember, `Remove` and `DeleteRole` RemoveVaultMember; `Manages`
is their check of the actor, which nobody but the owner passes. In
`Biometrics`, `bio[r]` is the frame of a biometric request in the same slot, which
`Unlock` turns into an unlock request. History: `owned` (who has owned the current
vault), `may` (requests that have had their right at some moment), `crossed` and
`raced` (requests during which another one changed what they look at).

- `GrantedByOwner`: a role was granted by somebody who owned this very vault, also
  when the vault changed hands or was deleted and registered again during the
  request. The members of a former owner do stay. This is the use cases' rule; the
  documents let an ADMIN grant roles too (see the disagreements below).
- `ServedHadAccess`: vault, ownership and role are read by separate statements, and
  never at once with the use; still no request gets its right from rows of two
  different moments or two different vaults. A member who is removed between the
  check and the use is still served.
- `FailsOnConflict`, `FaceFailsOnConflict`: the errors that nobody catches need a race.
- `ListAgreesWithCheck`: the list's outer join and the check resolve the same role,
  and the list's fallback to VIEWER never applies.
- `EnrolmentsBounded`: without a unique constraint, duplicates are limited to the
  requests that overlapped.

### Accounts and OneTimeSecret

`redis[k]` is the e-mail address a key is for. What the server allows and the e-mail
backend are fixed by the deployment, so both are chosen once. `TakeAtomic` is the
script or GETDEL, `TakeGet` and `TakeDel` the fallback, `TakeInVain` a command that
redis-py runs again after a late answer: the secret is gone and nobody got it.
`Fault` is the command, statement or call a request has come to raising (the SETEX of
the ticket, an error of the database while the user is inserted or the password set),
`Crash` the end of the process; neither is limited in number. `uses`, `paid` and `lost`
are history.

- `UsesBounded`: once in one command; in the fallback at most once for each request
  in progress, even if a new secret was issued between GET and DEL.
- `RedeemedPaysOff`: a secret that was taken has paid off, or a request is on its way
  with it (about to store the ticket, to insert the user or to set the password, not
  just in progress), or it was lost with the request that took it: by a crash, or
  because a command or statement of that request failed after the taking. The code
  does lose secrets this way, without any crash; that it loses none in another is what
  the property says, after faults as before them.
- `MailAnswered`: the counting is inside the `try` of the sending, and guarded.
- `ImplementsOneTimeSecret`: refinement, for the secrets that are taken in one
  command, with `redeemable` mapped to the keys present.

### Sessions

A session is a line of refresh tokens; `line[t]` (history) is its first. `Incr`,
`SetExpiry`, `Verify` and `Store` are a login, `Rotate` and `Store` a refresh,
`Scan*` the revocation of a user: SCAN promises no more than to return, some time,
each key that is there from its beginning to its end. `RotateInVain` and `IncrTwice`
are commands run again after a late answer, `Abort` a request that dies.

- `OneTokenPerSession`: overlapping refreshes with one token never make two sessions.
- `RevocationSweeps`: what is left after a revocation was stored after it began. That
  is less than the endpoint says ("will need to re-authenticate on all devices"): a
  refresh that has taken its old token before the scan stores the new one later.
- `BlockedRecovers`: a client over the limit is let in again, under fairness of
  EXPIRE (a request that is not aborted goes on) and of the window's end. With a late
  answer or an aborted request it does not hold, and the property says so.

### Reports and Trends

`rows` counts the rows the SELECTs tell apart, by kind and age; `Called` is the order
of the functions and SELECTs of each endpoint, `Select` runs the next one. Rows are
inserted, changed and deleted between SELECTs, and grow older between functions (each
reads the clock once). A vault that is deleted takes its members and its log along,
whichever of these it has (`Owned`). A reset is two commits: `ResetVault` saves the vault,
`DeleteLog` deletes its log, or fails, which is only logged (`DeleteLogFails`).

- `CountsNested`: a wider window is counted after the narrower one, so it never shows
  less, unless a log is deleted meanwhile; with no change all figures fit.
- `FiguresAgree` (in `MCAdmin`) is `SeverityAgrees`: the alerts endpoint and the
  summary, each with its own code, come to the same status and number of alerts for
  all counts up to past the highest threshold; and `SeriesFilled`: every series has
  its window's days and counts its rows, also when the SELECT runs after midnight. It
  shows no change only for a window of one day or one without rows: rows after an empty
  first half count as growth. Read backwards, a decline shows as growth, and growth as a
  decline where the halves are equally long; in an odd window the second half has a day
  more, and both a series and its reverse may show growth.

### Console

`loads[l]` is the load_data started by `l` (mount, refresh, call_later, a button's
handler) and the GET it awaits; the first three kinds overlap freely, a new refresh
cancels the last. `shown` is what was rendered last, `view` what is visible,
`request` the POST or DELETE of a button and `keys` the server's table. `own` and
`clean` are history.

- `QuietMeansAnswered`: whatever overlapped, was cancelled or failed, a screen with
  nothing under way does not stay at "Loading…".
- `OwnChangesShown`: it then shows the operator's last choice and every change the
  console was told of, unless loads overlapped (the older answer may come last).

## Runs

| Run | Instance | Distinct states | Shows |
|---|---|---|---|
| `pin_lockout` | 3 requests, 1 PIN, 3 attempts, 2 ticks, 2 failing commands | 306,918 | all properties of `PinLockout` hold |
| `pin_attempts` | 2 requests, 2 attempts | - | "Maximum 5 attempts per 15 minutes per vault" (Docs/SECURITY.md) is exceeded by overlapping requests |
| `connection_registry` | 3 connections, 1 sender | 48,047 | all properties of `ConnectionRegistry` hold |
| `silent_vault` | 2 connections | - | a silent vault can stay online: its heartbeat entry was deleted by another connection's handler |
| `one_connection` | 2 connections | - | the monitor drops a connection without closing it, and the device connects again |
| `vault_lifecycle` | 1 device, 2 operations, 2 users, 1 token, 1 PIN, 2 vaults, reports LOCKED and PROVISIONING, any number of crashes and failing statements | 293,468 | all properties of `VaultLifecycle` hold |
| `token_reuse` | 2 devices, 2 operations | - | "one-time use only" (Docs/PROVISIONING.md) fails for overlapping registrations |
| `state_update` | 1 device, 2 operations | - | a state update writes back the PIN it has read |
| `vault_access` | 2 requests, 2 users of whom 1 enrols, roles ADMIN and VIEWER, 2 vaults | 1,022,691 | all properties of `VaultAccess` and `Biometrics` hold |
| `accounts` | 2 requests, 1 address, 2 tickets, 1 reset token, 3 servers, 4 e-mail services, any number of crashes and failing commands | 1,420,360 | all properties of `Accounts` hold, the refinement included |
| `user_rooms` | 2 users with 2 connections each, 1 vault, 2 senders | 1,900,702 | all properties of `UserRooms` hold |
| `admin` | sessions: 2 users, 3 tokens, 2 requests, limit 1, 1 slip; reports: 3 rows, 2 changes; trends: 4 days; console: 1 key, 2 choices, 1 waiting callback | 915,960 | all properties of `Sessions`, `Reports`, `Trends` and `Console` hold |

Why these bounds: in `PinLockout` three requests let two act between the check and
the count of a third, `MaxFaults` = `MaxAttempts` - 1 is the most for which
`LockoutEnds` can hold (with `MaxAttempts` failures between INCR and EXPIRE the
vault is locked for good; the theorem `ExpiryHolds` says why not sooner), and two
ticks tell a renewed expiry from an old one. In `ConnectionRegistry` three
connections let one be registered while a second closes and a third is opened.
In `VaultLifecycle` two operations are every pair of reader and writer; two vaults
of one device are needed for a copy of the deleted one to meet its successor, and
two users for a change of owner. The reports LOCKED and PROVISIONING are what the
guards tell apart. In `VaultAccess` and `Biometrics` likewise; the
roles ADMIN and VIEWER, one of which may unlock, are what the checks tell apart. In
`Accounts` two
requests race for one secret, and two tickets are needed for a second one of the same
address. In `UserRooms` two
connections of a user are the least for which the iterator skips one, and two
senders for which one cleans up what the other iterates over. In `Sessions` three
tokens are two sessions with one in rotation; `MaxCount` lets one request exceed the
limit, `MaxSlips` is one late answer or abort. In `Reports` three rows make every
pair of nested figures differ, two changes fall before, between and after two
SELECTs, one reset is between its commits at a time; `MaxShown` is above every threshold. In `Trends` windows of one to four days
have halves of equal and of different length, and the middle day. In `Console` one
key passes through all its states, and two choices are an old and a new one; every
screen is an initial state.

The run `admin` checks three parts that share no state side by side: `part` is
chosen at the beginning, and a behaviour is one of that part. The runs `vault_lifecycle`, `vault_access`,
`accounts` and `user_rooms` use symmetry (invariants and box properties only).
`vault_lifecycle` leaves the history of vaults that are deleted out of the fingerprint
(VIEW): an id is never used again, and no action and no property looks at that history.
No run replaces a definition. `user_rooms` and `admin` may stop: connections are opened
once, and counts are bounded.

Disagreements with documents that have no run of their own, because they need no
interleaving or because the properties above state exactly what does hold:

- A vault is taken over without a reset. `provision_vault.py:33` says "Re-provision
  in-place: vault was reset, same device re-registering" and `register_device.py:70`
  tells a device with a vault to "reset the vault first"; but the code asks for the
  status PROVISIONING only, which `process_vault_state_update.py:61` accepts from a
  device's report (`vault_socket.py:197`). After such a report a registration with any
  user's token makes that user the owner, with the members the vault has. What does
  hold is `OwnerChangesAfterOpening`.
- An ADMIN manages nobody. `vault_role.py:11` and `:29-39` (`can_manage_members`) and
  `src/Docs/SECURITY.md:166` and `:184-186` let an ADMIN add and remove members; the
  checks in `add_vault_member.py` and `remove_vault_member.py` let the owner only, and
  `can_manage_members` has no caller there. `Manages` is what the code does, and
  `GrantedByOwner` holds because of it.
- A session outlives its revocation. `ops/sessions.py:91` says "The user will need to
  re-authenticate on all devices"; a refresh that is between its GETDEL and its SETEX
  during the SCAN (`session_metrics.py:136`) has no token to be found, stores the new
  one, and the session goes on. `RevocationSweeps` says what a revocation does reach.
- Growth out of nothing. `business_trends.py:40` says `change_pct` is "None if no prior
  data", likewise `business/trends.py:88` and the console (`screens/trends.py:52`);
  `business_trends.py:108-109` answers +100.0 for an empty first half and a second half
  with rows. `SeriesFilled` states the code's rule.
- Growth of a steady series. `business/trends.py:88` calls a positive `change_pct`
  growth: the same number of rows on each of seven days shows +33.3 %, because the
  second half of an odd window has a day more (`business_trends.py:103`).
- `security_metrics.py:99` says a lockout is recorded when the limit is reached; each
  attempt refused during a lockout is logged as one too.
- `ops/audit.py:65` says `create_audit_log()` records each sensitive operation; nothing
  calls it.
- `api_keys.py:263` of the console warns when no row is selected: the cursor's row is
  never negative, and an empty table ends the console (`RevokeNothing`).
- The console's tables add their columns again on each render, and clearing a table
  puts its cursor back: a refresh between a look and a click revokes another row.
- `rate_limit_metrics.py:72` leaves out counters without an expiry, the very ones
  that never end.
- `sqlalchemy_user_repository.py:85` flushes a changed profile, and nothing commits it.
- A plain API key is shown once, in the answer to its creation: if that answer is lost
  (`ReplyLost`), the key is there and nobody knows it.
- `PIN` accepts characters such as superscript digits (`isdigit`) that `int` refuses
  with a ValueError, which is answered as an internal error.

## Proofs

`PinLockoutProofs` (for all finite sets of requests, all PINs, limits and times):
`TypeCorrect`; `BudgetHolds`, where the counter and the requests past the check
are related step by step with the library's facts on cardinalities (the bound is
inductive as soon as "admitted while not locked" is known); `ExpiryHolds`, that
what an unexpiring counter has counted is paid for by a failure or by a request
about to repair it; `DrainHolds`, that no step admits a request while the vault
stays locked out. Assumption: `PinAssumption`.

`ConnectionRegistryProofs` (for all sets of connections and senders): `TypeCorrect`;
`DictionariesHold`, the conjunction of the three invariants on the dictionaries,
which is inductive with the types only as a whole (an entry leaves the registry in
the step that ends its handler), and its three parts; `PresenceImplemented`, that
each step is a step of `DevicePresence` or a stutter. Assumption:
`SocketAssumption`.

`VaultLifecycleProofs` (for all devices, users, tokens and PINs, and any number of
operations in progress), in four layers, each inductive given the ones before it:

- `TypesHold`: `TypeOK` with what an operation's frame holds at each statement (it
  knows its device; only registrations provision, insert, refresh and consume, and
  they know their user and token) and with every row's id issued. `TypeCorrect`
  follows, and `DeletedHolds`: ids enter the table by an INSERT only, because
  `Update` keeps the id of the row it finds.
- `OwnersHold`: `OwnerRegistered` is not inductive, since `Update` writes an owner
  out of a copy. `OwnersTraced` adds that the copy of every operation about to save
  was registered too (`Registered`), or is the registration's own; since no
  registration is forgotten, a copy that was fine stays fine however outdated it
  gets.
- `ChangesHold`, whatever devices report: `CopiesCurrent` says that a copy no other
  operation has outdated has its row's owner, and that a registration in place finds
  its row still awaiting provisioning. Every write outdates the other copies of its
  row (`WritersOutdate`), so only the reads establish anything. `OpenedFirst` says that
  a vault awaits provisioning only once it was opened, and that a copy which would
  make it do so opens it or was made of an opened one (`OpenedHolds`); since no opening
  is forgotten (`CopiesStayOpened`), an outdated copy does no harm.
- `TokensHold`: `UsedTokenGoes` needs `IdsAtHome`, that an id is found under one
  device only and that a registration which reads its row again looks there;
  otherwise a refresh that does not find its row could leave the vault under another
  device and its token undeleted. A registration broken off after its commit enters
  `kept` in the step that breaks it off, which is all that faults and crashes add.

Assumption: `LifecycleAssumption`.

`VaultAccessProofs` (for all users, roles, finite sets of requests and numbers of
vaults): `GrantsHold` needs to know of the requests that one which
adds a member found its user the owner of the vault it still holds the id of; a row is
then either the old one or inserted by such a request (`RoleSteps`). `AccessHolds` ties
each statement of a check to `may`, which a request enters at a moment when vault, owner
and role agree. `FailuresHold` and `FaceFailuresHold` are about what a request that no
other one has crossed still finds as it left it (`Undisturbed`, `FaceUndisturbed`); the
lemmas on steps list how each action can cross one. `EnrolmentsHold` counts the rows of a
user together with the requests about to insert one: the sum only grows where there is no
row, and there it is a number of requests. `BioImplementsAccess` carries the theorems on
`VaultAccess` over to the composition with the biometric requests. Assumptions:
`AccessAssumption`, and for biometrics `EnrollersAssumption`, which says that there are
finitely many requests at a time.

`AccountsProofs` (for all keys, e-mail addresses, services and finite sets of requests):
`TypesHold` with what a frame holds at each command (`WellFormed`), which is all that
`MailHolds` needs. `UsesHold`: `UsesBounded` is inductive once a secret still in Redis
is known to be unused, and once the requests between GET and DEL are counted with the
uses, the sum being bounded by the requests. `RedeemedPays`, for any number of crashes
and failing commands: a request that is broken off after a taking moves its secret to
`lost` in that step. It needs in addition
`ResetsForUsers`: a reset token is for a user that exists, so that setting the password
cannot fail for want of one. `OneTimeImplemented` maps each step to one of
`OneTimeSecret`. Assumption: `AccountsAssumption`.

`SessionsProofs` (for all people, tokens, requests and limits): `OneTokenHolds` from
`OneHolder`: a session is held by one token or by one request about to store the next,
and a refresh passes it on in the step that takes the old token. `RevocationHolds` from
`Sweeping`: while the scan runs, a token of its user is still due, being deleted, or
stored since the scan began. Assumption: `SessionsAssumption`.

`UserRoomsProofs` (for all users, vaults, senders and finite sets of connections):
`RoomsHold`: the lists and the subscriptions name served connections, and every list has
no duplicates. `DeliveryHolds` from `Iterating`: a sender has told exactly as many
connections as it has come past, nobody behind its place, and whom it began with is in
the list or has been removed; a list that loses one connection moves at most one past the
sender (`RemovalKeeps`), and the bound follows by counting. Assumption: `RoomsAssumption`.

`AdminProofs`:

- Sums: the fold of the community modules takes an arbitrary element first, so a lemma on
  each property of a sum (of zeros, without an element, of a larger function, with one
  value changed, over two disjoint sets, with the arguments renamed) is proved by
  induction on the size of the set. `SetInduction` is that induction over a set of
  numbers: it needs no operator as a parameter, and follows from the well-foundedness
  of `<`.
- `CountsHold` (for any number of rows and changes): between its SELECT and that of the
  inner window, an outer window has at least as many rows as it was counted with
  (`Nested`); rows are only inserted and grow older across functions, not within one.
  The exception is a vault or a log deleted meanwhile, after which the hour's failures
  may have been more than the day's are.
- `SeverityAlwaysAgrees` and `SeriesAlwaysFilled` hold for all counts and days; they are
  about `Reports`' and `Trends`' operators, not about a behaviour.
- `AnswersHold` and `OwnChangesHold` (for all keys, options and numbers of callbacks) from
  `ConsoleInv`: a screen that shows "Loading..." has a load in progress; a load that is
  alone is for the last choice; and keys never go back (`NotBefore`), so that what was
  read after an answer shows at least what the answer said.
- `AdminImplements`: a behaviour of `MCAdmin` is one of each part, which gives the run's
  invariants in the composition (`AdminTypesHold`, `FiguresHold`, `AdminPartsHold`).

Assumptions: `ReportsAssumption`, `TrendsAssumption`, `ConsoleAssumption`.

The finiteness of requests, connections and the like is that of a process's memory: it
is needed only where a bound is a number of them.

Only model-checked:

- the liveness properties (`LockoutEnds`, `LostConnectionLeaves`, `StaleLeaves`,
  `BlockedRecovers`): liveness under fairness and ENABLED are outside what the provers
  do;
- the violations of the documents' statements, which are single behaviours.

## Plan

Every invariant, box property and refinement of the runs is proved. What is left, most
important first:

1. Action properties that the proofs already imply and no run states yet: in `Sessions`
   a token once taken is not stored again for the same session; in `VaultAccess` a role
   changes only by a request of an owner.
2. An abstract specification of a vault's owner (registered, reset, handed over,
   deleted) that `VaultLifecycle` implements and that `VaultAccess` could be given in
   place of `Register`, `ResetVault`, `SaveOutdated` and `DeleteVault`.
3. The safety half of the liveness arguments: from each state in which a counter is
   locked, what the fair actions decrease (as `DrainHolds` does for requests).

## Not modelled

- Contents and wording of messages and e-mails, hashing, JWTs and signatures, the
  comparison of faces, logging, metrics and layout: no property is about them.
- Push notifications and device tokens: one row per request and a provider's API.
- The PIN value object: a predicate on six characters without state.
- Health checks, the diagnostics, rate-limit and e-mail figures, and the paged logs of
  one vault: single reads. The console's loads of them are in `Console`.
- The device: what it does with commands, their expiry and their nonce is firmware.
- A Redis command of `PinLockout` that is run again after a late answer: an INCR that
  counts twice makes a lockout come sooner, and is outside of that model's faults.
- Seed and simulation scripts, migrations, dashboards, settings and start-up.
- Behaviour that needs no interleaving to see, such as `create_task` in a worker thread
  in `reset_vault` and `delete_vault`, is listed under "hazards" in `PROJECT.json`.
