-------------------------------- MODULE Sessions --------------------------------
(***************************************************************************)
(* Logging in, refreshing and ending sessions.  A session is a line of     *)
(* refresh tokens, each a key refresh:<token> of Redis that holds the user *)
(* and is consumed when the next one is issued; an administrator ends all  *)
(* sessions of a user with a SCAN over those keys.  Logins of one client   *)
(* are counted by RateLimiter under one key with a fixed window.           *)
(*                                                                         *)
(* An action is one Redis command or the check of a password.  The scan    *)
(* runs in a worker thread and the limiter awaits its commands; the token  *)
(* store blocks the event loop of one process, but what it says of itself  *)
(* does not depend on that: all requests interleave between the commands.  *)
(* redis-py runs a command again when its answer is late, so that an INCR  *)
(* or a GETDEL may take effect twice.                                      *)
(* Tokens are random: a name is drawn again only when nothing is left of   *)
(* the one it was.                                                         *)
(***************************************************************************)
EXTENDS Naturals, FiniteSets

CONSTANTS
  People,
  Tokens,    \* bound: refresh tokens at once
  Calls,     \* bound: requests in progress at once
  Limit,     \* RATE_LIMIT_LOGIN_REQ_PER_MIN
  MaxCount,  \* bound: logins counted in one window
  MaxSlips,  \* bound: late answers and crashes
  NoOne

ASSUME SessionsAssumption ==
  /\ Limit \in Nat \ {0}
  /\ MaxCount \in Nat /\ MaxSlips \in Nat
  /\ NoOne \notin People \cup Tokens

VARIABLES
  refresh,  \* refresh:<token> keys: the user of each
  count,    \* rate_limit:login_req:<ip>
  window,   \* whether that key has an expiry
  call,     \* the requests' local state
  sweep,    \* revoke_user_sessions
  slips,
  line,     \* history: the first token of the session that a live token belongs to
  fresh     \* history: the live tokens stored since the scan began

sessionsVars == <<refresh, count, window, call, sweep, slips, line, fresh>>

Call == [at : {"idle", "expire", "verify", "store"}, user : People \cup {NoOne},
         first : Tokens \cup {NoOne}]

NoCall == [at |-> "idle", user |-> NoOne, first |-> NoOne]

\* `due' are the user's keys that have been there since the scan began and that it has not
\* returned yet, `key' the one that it has returned and found to be the user's.
Sweep == [at : {"off", "scan", "done"}, user : People \cup {NoOne}, due : SUBSET Tokens,
          key : Tokens \cup {NoOne}]

NoSweep == [at |-> "off", user |-> NoOne, due |-> {}, key |-> NoOne]

Live == {t \in Tokens : refresh[t] # NoOne}

SessionsTypeOK ==
  /\ refresh \in [Tokens -> People \cup {NoOne}]
  /\ count \in 0..(MaxCount + 1)
  /\ window \in BOOLEAN
  /\ call \in [Calls -> Call]
  /\ sweep \in Sweep
  /\ slips \in 0..MaxSlips
  /\ line \in [Tokens -> Tokens \cup {NoOne}]
  /\ fresh \subseteq Live
  /\ \A t \in Tokens : line[t] = NoOne <=> t \notin Live

SessionsInit ==
  /\ refresh = [t \in Tokens |-> NoOne]
  /\ count = 0
  /\ window = FALSE
  /\ call = [r \in Calls |-> NoCall]
  /\ sweep = NoSweep
  /\ slips = 0
  /\ line = [t \in Tokens |-> NoOne]
  /\ fresh = {}

\* A name that token_urlsafe may draw.
Drawable(t) ==
  /\ t \notin Live \cup {sweep.key}
  /\ \A s \in Live : line[s] # t
  /\ \A r \in Calls : call[r].first # t

Slip == slips < MaxSlips /\ slips' = slips + 1

\* INCR has returned n to request r, a login of user u.
Counted(r, u, n) ==
  /\ count' = n
  /\ call' = [call EXCEPT ![r] =
       IF n > Limit THEN NoCall
       ELSE [at |-> IF n = 1 THEN "expire" ELSE "verify", user |-> u, first |-> NoOne]]

\* GETDEL, DEL or the time to live removes the key of t.
Remove(t) ==
  /\ refresh' = [refresh EXCEPT ![t] = NoOne]
  /\ line' = [line EXCEPT ![t] = NoOne]
  /\ fresh' = fresh \ {t}
  /\ sweep' = [sweep EXCEPT !.due = @ \ {t}]

\* SETEX of the next token of the session of r.
Add(r, t) ==
  /\ refresh' = [refresh EXCEPT ![t] = call[r].user]
  /\ line' = [line EXCEPT ![t] = IF call[r].first = NoOne THEN t ELSE call[r].first]
  /\ fresh' = IF sweep.at = "off" THEN fresh ELSE fresh \cup {t}

\* The token of r's session is gone, and its user known.
Rotating(r, t) ==
  /\ Remove(t)
  /\ call' = [call EXCEPT ![r] = [at |-> "store", user |-> refresh[t], first |-> line[t]]]

\* Mutants of the operators below, for testing the properties: EXPIRE is sent only if
\* the count is still one, the old token is read and left, the scan ends with its first
\* page, and a request keeps its user once it is done.
ExpireFirst(r) ==
  /\ call[r].at = "expire"
  /\ window' = (window \/ count = 1)
  /\ call' = [call EXCEPT ![r].at = "verify"]
  /\ UNCHANGED <<refresh, count, sweep, slips, line, fresh>>

PeekToken(r, t) ==
  /\ call[r].at = "idle"
  /\ t \in Live
  /\ call' = [call EXCEPT ![r] = [at |-> "store", user |-> refresh[t], first |-> line[t]]]
  /\ UNCHANGED <<refresh, count, window, sweep, slips, line, fresh>>

OnePage ==
  /\ sweep.at = "scan"
  /\ sweep.key = NoOne
  /\ sweep' = [sweep EXCEPT !.at = "done", !.due = {}]
  /\ UNCHANGED <<refresh, count, window, call, slips, line, fresh>>

StoreNoOne(r, t) ==
  /\ call[r].at = "store"
  /\ Drawable(t)
  /\ Add(r, t)
  /\ call' = [call EXCEPT ![r] = [at |-> "idle", user |-> call[r].user]]
  /\ UNCHANGED <<count, window, sweep, slips>>

-----------------------------------------------------------------------------
\* A login: allow_request counts it.
Incr(r, u) ==
  /\ call[r].at = "idle"
  /\ count < MaxCount
  /\ Counted(r, u, count + 1)
  /\ UNCHANGED <<refresh, window, sweep, slips, line, fresh>>

\* The answer to INCR is late, and redis-py sends it again.
IncrTwice(r, u) ==
  /\ call[r].at = "idle"
  /\ count < MaxCount
  /\ Slip
  /\ Counted(r, u, count + 2)
  /\ UNCHANGED <<refresh, window, sweep, line, fresh>>

\* EXPIRE, of a key that may be gone.
SetExpiry(r) ==
  /\ call[r].at = "expire"
  /\ window' = (count > 0)
  /\ call' = [call EXCEPT ![r].at = "verify"]
  /\ UNCHANGED <<refresh, count, sweep, slips, line, fresh>>

WindowEnds ==
  /\ window
  /\ window' = FALSE
  /\ count' = 0
  /\ UNCHANGED <<refresh, call, sweep, slips, line, fresh>>

\* AuthenticateUser: the password is right, or 401.
Verify(r) ==
  /\ call[r].at = "verify"
  /\ \/ call' = [call EXCEPT ![r].at = "store"]
     \/ call' = [call EXCEPT ![r] = NoCall]
  /\ UNCHANGED <<refresh, count, window, sweep, slips, line, fresh>>

\* create_token: SETEX of a new token, the first of a session or the next.
Store(r, t) ==
  /\ call[r].at = "store"
  /\ Drawable(t)
  /\ Add(r, t)
  /\ call' = [call EXCEPT ![r] = NoCall]
  /\ UNCHANGED <<count, window, sweep, slips>>

\* rotate_token: GETDEL of the old token.
Rotate(r, t) ==
  /\ call[r].at = "idle"
  /\ t \in Live
  /\ Rotating(r, t)
  /\ UNCHANGED <<count, window, slips>>

\* The answer to GETDEL is late: sent again it finds nothing, and the client gets 401.
RotateInVain(t) ==
  /\ t \in Live
  /\ Slip
  /\ Remove(t)
  /\ UNCHANGED <<count, window, call>>

\* Logout, and the time to live of a token.
Revoke(t) ==
  /\ t \in Live
  /\ Remove(t)
  /\ UNCHANGED <<count, window, call, slips>>

\* The process dies, or a Redis command or the database fails for good.
Abort(r) ==
  /\ call[r].at # "idle"
  /\ Slip
  /\ call' = [call EXCEPT ![r] = NoCall]
  /\ UNCHANGED <<refresh, count, window, sweep, line, fresh>>

-----------------------------------------------------------------------------
\* revoke_user_sessions: SCAN returns each key that is there from its beginning to its
\* end, and may return others, or one twice.
ScanBegins(u) ==
  /\ sweep.at = "off"
  /\ sweep' = [at |-> "scan", user |-> u, due |-> {t \in Live : refresh[t] = u}, key |-> NoOne]
  /\ fresh' = {}
  /\ UNCHANGED <<refresh, count, window, call, slips, line>>

\* GET of a key the scan has returned.
ScanReads(t) ==
  /\ sweep.at = "scan"
  /\ sweep.key = NoOne
  /\ sweep' = [sweep EXCEPT !.due = @ \ {t},
                            !.key = IF refresh[t] = sweep.user THEN t ELSE NoOne]
  /\ UNCHANGED <<refresh, count, window, call, slips, line, fresh>>

ScanDeletes ==
  /\ sweep.at = "scan"
  /\ sweep.key # NoOne
  /\ refresh' = [refresh EXCEPT ![sweep.key] = NoOne]
  /\ line' = [line EXCEPT ![sweep.key] = NoOne]
  /\ fresh' = fresh \ {sweep.key}
  /\ sweep' = [sweep EXCEPT !.key = NoOne]
  /\ UNCHANGED <<count, window, call, slips>>

\* The cursor is back at zero.
ScanEnds ==
  /\ sweep.at = "scan"
  /\ sweep.key = NoOne
  /\ sweep.due = {}
  /\ sweep' = [sweep EXCEPT !.at = "done"]
  /\ UNCHANGED <<refresh, count, window, call, slips, line, fresh>>

\* The administrator has the answer, or the scan fails.
ScanLeaves ==
  /\ \/ sweep.at = "done" /\ UNCHANGED slips
     \/ sweep.at = "scan" /\ Slip
  /\ sweep' = NoSweep
  /\ fresh' = {}
  /\ UNCHANGED <<refresh, count, window, call, line>>

SessionsNext ==
  \/ \E r \in Calls :
       \/ \E u \in People : Incr(r, u) \/ IncrTwice(r, u)
       \/ SetExpiry(r) \/ Verify(r) \/ Abort(r)
       \/ \E t \in Tokens : Store(r, t) \/ Rotate(r, t)
  \/ \E t \in Tokens : RotateInVain(t) \/ Revoke(t) \/ ScanReads(t)
  \/ \E u \in People : ScanBegins(u)
  \/ WindowEnds \/ ScanDeletes \/ ScanEnds \/ ScanLeaves

SessionsSpec == SessionsInit /\ [][SessionsNext]_sessionsVars

\* A request that is not aborted sends its EXPIRE, and time passes.
SessionsFairness ==
  /\ \A r \in Calls : WF_sessionsVars(SetExpiry(r))
  /\ WF_sessionsVars(WindowEnds)

-----------------------------------------------------------------------------
\* rotate_token, "This prevents race conditions and ensures one-time use": a session
\* has one token at most, counting the one that is about to be stored, whatever
\* refreshes with the same token overlap.
OneTokenPerSession ==
  \A s \in Tokens :
    Cardinality({t \in Live : line[t] = s}) +
      Cardinality({r \in Calls : call[r].at = "store" /\ call[r].first = s}) <= 1

\* When the scan has answered, every token of the user that is left was stored after
\* the scan began.  (A session whose rotation was under way goes on with such a token.)
RevocationSweeps ==
  sweep.at = "done" => \A t \in Live : refresh[t] = sweep.user => t \in fresh

\* A client that is over the limit is let in again, as long as no answer was late and
\* no request was aborted: the window gets its expiry whatever requests overlap.
BlockedRecovers == (count > Limit /\ slips = 0) ~> (count = 0 \/ slips > 0)
=============================================================================
