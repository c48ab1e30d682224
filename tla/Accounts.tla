------------------------------- MODULE Accounts --------------------------------
(***************************************************************************)
(* Signing up and resetting a password: one-time passwords, signup tickets *)
(* and reset tokens in Redis, the e-mails that carry them, and the users   *)
(* they lead to.  A request is a sequence of Redis commands, SQL           *)
(* statements and calls of the e-mail provider; one action is one of them, *)
(* and those of other requests come in between.  A request that its first  *)
(* command refuses (a wrong code, another user's ticket, a key that has    *)
(* expired) changes nothing and is no action.                              *)
(*                                                                         *)
(* OTPTicketService and PasswordResetService take a secret with a script   *)
(* (EVAL); where the server refuses scripts, the reset token is taken with *)
(* GETDEL if there is one, and the others with GET, a comparison and DEL.  *)
(* The code of an OTP is not modelled: its key holds the current one.      *)
(* Tickets and reset tokens are random: a name is drawn again only when    *)
(* nothing is left of the one it was.                                      *)
(***************************************************************************)
EXTENDS Naturals, FiniteSets

CONSTANTS
  Reqs,         \* bound: requests in progress at once
  Emails,
  Tickets,      \* bound: signup tickets at once
  ResetTokens,  \* bound: password reset tokens at once
  Servers,      \* "eval", "getdel", "plain": what the Redis server allows
  Backends,     \* "resend", "emailjs", "smtp", "dev": EMAIL_BACKEND
  None

ASSUME AccountsAssumption ==
  /\ Servers \subseteq {"eval", "getdel", "plain"}
  /\ Backends \subseteq {"resend", "emailjs", "smtp", "dev"}
  /\ IsFiniteSet(Reqs)
  /\ Emails \cap Tickets = {} /\ (Emails \cup Tickets) \cap ResetTokens = {}
  /\ None \notin Emails \cup Tickets \cup ResetTokens

VARIABLES
  server,   \* fixed by the deployment
  backend,  \* fixed by the deployment
  redis,    \* otp:, signup_ticket: and pwd_reset: keys: the e-mail address each is for
  users,    \* the e-mail addresses that have a row in users
  req,      \* the requests' local state
  uses,     \* history: the requests each key has let go on since it was issued
  paid,     \* history: the keys whose request has got what it is for since
  lost      \* history: the keys whose request was broken off after it took them

deployment == <<server, backend>>

vars == <<server, backend, redis, users, req, uses, paid, lost>>

Keys == Emails \cup Tickets \cup ResetTokens

\* `at' is the command a request is about to execute, `key' the secret it has issued
\* or taken, `mail' what became of its e-mail and `counts' the counters it raised.
Frame == [at : {"idle", "send", "incr", "expire", "answer", "refuse",
                "del", "setex", "select", "insert", "apply"},
          key : Keys \cup {None}, email : Emails \cup {None},
          mail : {"none", "sent", "skipped", "failed"}, counts : SUBSET {"sent", "failed"}]

Idle == [at |-> "idle", key |-> None, email |-> None, mail |-> "none", counts |-> {}]

TypeOK ==
  /\ server \in Servers
  /\ backend \in Backends
  /\ redis \in [Keys -> Emails \cup {None}]
  /\ users \subseteq Emails
  /\ req \in [Reqs -> Frame]
  /\ uses \in [Keys -> Nat]
  /\ paid \subseteq Keys
  /\ lost \subseteq Keys

Init ==
  /\ server \in Servers
  /\ backend \in Backends
  /\ redis = [k \in Keys |-> None]
  /\ users = {}
  /\ req = [r \in Reqs |-> Idle]
  /\ uses = [k \in Keys |-> 0]
  /\ paid = {}
  /\ lost = {}

Become(r, f) == req' = [req EXCEPT ![r] = f]

Goto(r, at) == Become(r, [req[r] EXCEPT !.at = at])

Finish(r) == Become(r, Idle)

\* SETEX: the key is for e, for the time to live of its kind.
SetEx(k, e) ==
  /\ redis' = [redis EXCEPT ![k] = e]
  /\ uses' = [uses EXCEPT ![k] = 0]
  /\ lost' = lost \ {k}

\* A name that token_urlsafe may draw.
Fresh(k) == redis[k] = None /\ \A r \in Reqs : req[r].key # k

\* Whether a secret is taken in one command.
Atomic(k) == server = "eval" \/ (server = "getdel" /\ k \in ResetTokens)

\* Request r has taken the secret k, which was for e: the OTP earns a ticket, the
\* ticket an account and the reset token a new password.
Taken(r, k, e) ==
  /\ uses' = [uses EXCEPT ![k] = @ + 1]
  /\ Become(r, [Idle EXCEPT !.at = IF k \in Emails THEN "setex"
                                   ELSE IF k \in Tickets THEN "select" ELSE "apply",
                            !.key = k, !.email = e])

\* The key of r, if it has one, has got its user an account.
Signed(r) == paid' = IF req[r].key = None THEN paid ELSE paid \cup {req[r].key}

\* Mutants of the operators below, for testing the properties: taking a secret leaves
\* it, the ticket of somebody who has an account is given back, the verified OTP earns
\* no ticket, a counter that cannot be raised makes the e-mail fail, and an outcome
\* that nothing expects.
PeekAtomic(r, k) ==
  /\ req[r].at = "idle"
  /\ redis[k] # None
  /\ Atomic(k)
  /\ Taken(r, k, redis[k])
  /\ UNCHANGED <<deployment, redis, users, paid, lost>>

ReturnTicket(r) ==
  /\ req[r].at = "select"
  /\ IF req[r].email \in users
       THEN /\ Finish(r)
            /\ Signed(r)
            /\ redis' = [redis EXCEPT ![req[r].key] = req[r].email]
       ELSE Goto(r, "insert") /\ UNCHANGED <<redis, paid>>
  /\ UNCHANGED <<deployment, users, uses, lost>>

ForgetTicket(r, t) ==
  /\ req[r].at = "setex"
  /\ Finish(r)
  /\ UNCHANGED <<deployment, redis, users, uses, paid, lost>>

CountOrFail(r) ==
  /\ req[r].at = "incr"
  /\ \/ Become(r, [req[r] EXCEPT !.at = "expire",
                                 !.counts = @ \cup {IF req[r].mail = "failed" THEN "failed" ELSE "sent"}])
     \/ Goto(r, "refuse")
  /\ UNCHANGED <<deployment, redis, users, uses, paid, lost>>

SMTPUnknown(k) == {"sent", "unknown"}

-----------------------------------------------------------------------------
\* What each e-mail service does with a secret: the provider takes it or the call
\* raises; EmailJS has no template for reset tokens and the one for development
\* only writes a log.
Resend(k) == {"sent", "failed"}
EmailJS(k) == IF k \in ResetTokens THEN {"skipped"} ELSE {"sent", "failed"}
Dev(k) == {"skipped"}
SMTP(k) == {"sent", "failed"}

Outcomes(k) ==
  CASE backend = "resend" -> Resend(k)
    [] backend = "emailjs" -> EmailJS(k)
    [] backend = "smtp" -> SMTP(k)
    [] OTHER -> Dev(k)

\* request_otp: a new code replaces the one before.
IssueOTP(r, e) ==
  /\ req[r].at = "idle"
  /\ SetEx(e, e)
  /\ paid' = paid \ {e}
  /\ Become(r, [Idle EXCEPT !.at = "send", !.key = e])
  /\ UNCHANGED <<deployment, users>>

\* RequestPasswordReset, for a user that exists; otherwise nothing happens.
IssueResetToken(r, t, e) ==
  /\ req[r].at = "idle"
  /\ e \in users
  /\ Fresh(t)
  /\ SetEx(t, e)
  /\ paid' = paid \ {t}
  /\ Become(r, [Idle EXCEPT !.at = "send", !.key = t])
  /\ UNCHANGED <<deployment, users>>

\* EmailNotificationService awaits the e-mail service and remembers its exception.
Send(r) ==
  /\ req[r].at = "send"
  /\ \E mail \in Outcomes(req[r].key) : Become(r, [req[r] EXCEPT !.at = "incr", !.mail = mail])
  /\ UNCHANGED <<deployment, redis, users, uses, paid, lost>>

Answered(r) == IF req[r].mail = "failed" THEN "refuse" ELSE "answer"

\* increment_email_sent or increment_email_failed: INCR of the day's counter; an
\* error is logged and changes nothing (_safe_callback).
Count(r) ==
  LET counter == IF req[r].mail = "failed" THEN "failed" ELSE "sent" IN
  /\ req[r].at = "incr"
  /\ \/ Become(r, [req[r] EXCEPT !.at = "expire", !.counts = @ \cup {counter}])
     \/ Goto(r, Answered(r))
  /\ UNCHANGED <<deployment, redis, users, uses, paid, lost>>

\* EXPIRE of the counter; an error changes nothing either.
ExpireCounter(r) ==
  /\ req[r].at = "expire"
  /\ Goto(r, Answered(r))
  /\ UNCHANGED <<deployment, redis, users, uses, paid, lost>>

\* The request is answered: 204, or 503 (OTP) and 500 (reset) for a lost e-mail.
Answer(r) ==
  /\ req[r].at \in {"answer", "refuse"}
  /\ Finish(r)
  /\ UNCHANGED <<deployment, redis, users, uses, paid, lost>>

-----------------------------------------------------------------------------
\* _consume_otp_value, _consume_ticket_value and consume_token, with what belongs to
\* the secret: GET, compare and GETDEL in a script, or GETDEL alone.
TakeAtomic(r, k) ==
  /\ req[r].at = "idle"
  /\ redis[k] # None
  /\ Atomic(k)
  /\ redis' = [redis EXCEPT ![k] = None]
  /\ Taken(r, k, redis[k])
  /\ UNCHANGED <<deployment, users, paid, lost>>

\* The client runs a command again when its answer does not come (retry_on_timeout):
\* the secret has gone by then, and the request is refused.
TakeInVain(k) ==
  /\ redis[k] # None
  /\ Atomic(k)
  /\ redis' = [redis EXCEPT ![k] = None]
  /\ UNCHANGED <<deployment, users, req, uses, paid, lost>>

\* The fallback: GET and compare,
TakeGet(r, k) ==
  /\ req[r].at = "idle"
  /\ redis[k] # None
  /\ ~Atomic(k)
  /\ Become(r, [Idle EXCEPT !.at = "del", !.key = k, !.email = redis[k]])
  /\ UNCHANGED <<deployment, redis, users, uses, paid, lost>>

\* then DEL, whatever the key holds by then.
TakeDel(r) ==
  LET k == req[r].key IN
  /\ req[r].at = "del"
  /\ redis' = [redis EXCEPT ![k] = None]
  /\ Taken(r, k, req[r].email)
  /\ UNCHANGED <<deployment, users, paid, lost>>

\* verify_otp_and_issue_ticket: the ticket is for the e-mail address of the OTP.
IssueTicket(r, t) ==
  /\ req[r].at = "setex"
  /\ Fresh(t)
  /\ SetEx(t, req[r].email)
  /\ paid' = (paid \cup {req[r].key}) \ {t}
  /\ Finish(r)
  /\ UNCHANGED <<deployment, users>>

\* POST /users, without a ticket: CreateUser's SELECT finds nobody.
Create(r, e) ==
  /\ req[r].at = "idle"
  /\ e \notin users
  /\ Become(r, [Idle EXCEPT !.at = "insert", !.email = e])
  /\ UNCHANGED <<deployment, redis, users, uses, paid, lost>>

\* CreateUser for a ticket: SELECT; somebody who has an account gets 409.
SelectUser(r) ==
  /\ req[r].at = "select"
  /\ IF req[r].email \in users THEN Finish(r) /\ Signed(r)
                               ELSE Goto(r, "insert") /\ UNCHANGED paid
  /\ UNCHANGED <<deployment, redis, users, uses, lost>>

\* INSERT; a second row for the address violates the unique constraint: 409.
InsertUser(r) ==
  /\ req[r].at = "insert"
  /\ users' = users \cup {req[r].email}
  /\ Finish(r)
  /\ Signed(r)
  /\ UNCHANGED <<deployment, redis, uses, lost>>

\* ConfirmPasswordReset: SELECT, UPDATE and COMMIT run without awaiting.
Apply(r) ==
  /\ req[r].at = "apply"
  /\ paid' = IF req[r].email \in users THEN paid \cup {req[r].key} ELSE paid
  /\ Finish(r)
  /\ UNCHANGED <<deployment, redis, users, uses, lost>>

Expire(k) ==
  /\ redis[k] # None
  /\ redis' = [redis EXCEPT ![k] = None]
  /\ UNCHANGED <<deployment, users, req, uses, paid, lost>>

\* What the request that has taken a secret has yet to do for it.
Underway == {"setex", "select", "insert", "apply"}

Broken(S) == {req[r].key : r \in {s \in S : req[s].at \in Underway}} \ {None}

\* A Redis command or a statement raises what nothing catches: the request ends
\* with a 500, and the secret that it has taken is not given back.  (A DEL or a
\* COMMIT that went through before it raised leaves what Expire, InsertUser or
\* Apply leaves.)
Fault(r) ==
  /\ req[r].at \in Underway \cup {"del"}
  /\ Finish(r)
  /\ lost' = lost \cup Broken({r})
  /\ UNCHANGED <<deployment, redis, users, uses, paid>>

\* The process dies: the requests are gone, Redis and the users stay.
Crash ==
  /\ req' = [r \in Reqs |-> Idle]
  /\ lost' = lost \cup Broken(Reqs)
  /\ UNCHANGED <<deployment, redis, users, uses, paid>>

Next ==
  \/ \E r \in Reqs :
       \/ \E e \in Emails : \/ IssueOTP(r, e)
                            \/ Create(r, e)
                            \/ \E t \in ResetTokens : IssueResetToken(r, t, e)
       \/ \E k \in Keys : TakeAtomic(r, k) \/ TakeGet(r, k)
       \/ \E t \in Tickets : IssueTicket(r, t)
       \/ Send(r)
       \/ Count(r)
       \/ ExpireCounter(r)
       \/ Answer(r)
       \/ TakeDel(r)
       \/ SelectUser(r)
       \/ InsertUser(r)
       \/ Apply(r)
       \/ Fault(r)
  \/ \E k \in Keys : TakeInVain(k) \/ Expire(k)
  \/ Crash

Spec == Init /\ [][Next]_vars

-----------------------------------------------------------------------------
\* A secret lets one request go on; where it is compared and deleted in separate
\* commands, at most the requests that were in progress together, even if a new
\* one was issued between the comparison and the deletion.
UsesBounded == \A k \in Keys : uses[k] <= IF Atomic(k) THEN 1 ELSE Cardinality(Reqs)

\* A secret that was taken is lost only with the request that took it, by a crash or
\* a failing command between the two: otherwise the OTP has earned its ticket, the
\* ticket's address has an account and the reset token's user a new password, or a
\* request is on its way there.
RedeemedPaysOff ==
  \A k \in Keys : uses[k] > 0 =>
    \/ k \in paid \cup lost
    \/ \E r \in Reqs : req[r].key = k /\ req[r].at \in Underway

\* What is told of an e-mail is what became of it, whatever fails while it is
\* counted: a request is refused only for an e-mail that was not sent, and no
\* e-mail is counted both as sent and as failed.
MailAnswered ==
  \A r \in Reqs : /\ req[r].at = "answer" => req[r].mail # "failed" /\ "failed" \notin req[r].counts
                  /\ req[r].at = "refuse" => req[r].mail = "failed" /\ "sent" \notin req[r].counts

\* The secrets that are taken in one command, as the abstract module sees them.
OneTime == INSTANCE OneTimeSecret WITH
  redeemable <- {k \in Keys : redis[k] # None /\ Atomic(k)},
  granted <- [k \in Keys |-> IF Atomic(k) THEN uses[k] ELSE 0]

\* Where the server has scripts, or GETDEL for the reset token, the services keep
\* the promise of a one-time secret, retried commands and crashes included.
ImplementsOneTimeSecret == OneTime!SecretSpec
=============================================================================
