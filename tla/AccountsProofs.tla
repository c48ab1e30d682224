----------------------------- MODULE AccountsProofs -----------------------------
(***************************************************************************)
(* Proofs about Accounts, for any addresses, tickets and reset tokens, any *)
(* number of requests, and any Redis server and e-mail service.            *)
(***************************************************************************)
EXTENDS Accounts, FiniteSetTheorems, TLAPS

\* What a request knows, by where it is: the secret whose e-mail it sends, what became
\* of that e-mail, the secret it has taken, and whom it is for.
WellFormed(f) ==
  /\ f \in Frame
  /\ f.at \in {"send", "incr", "expire", "answer", "refuse"} => f.key \in Keys
  /\ f.at \in {"send", "incr"} => f.counts = {}
  /\ f.at = "expire" => f.counts = {IF f.mail = "failed" THEN "failed" ELSE "sent"}
  /\ f.at = "answer" => f.mail # "failed" /\ "failed" \notin f.counts
  /\ f.at = "refuse" => f.mail = "failed" /\ "sent" \notin f.counts
  /\ f.at = "del" => f.key \in Keys /\ ~Atomic(f.key)
  /\ f.at = "setex" => f.key \in Emails
  /\ f.at = "select" => f.key \in Tickets
  /\ f.at = "apply" => f.key \in ResetTokens
  /\ f.at \in {"del", "setex", "select", "insert", "apply"} => f.email \in Emails

\* The same of all requests.
ReqsTyped ==
  /\ req \in [Reqs -> Frame]
  /\ \A r \in Reqs : WellFormed(req[r])

\* Redis, the table users and the history.
TablesTyped ==
  /\ server \in Servers /\ backend \in Backends
  /\ redis \in [Keys -> Emails \cup {None}]
  /\ users \subseteq Emails
  /\ lost \subseteq Keys
  /\ uses \in [Keys -> Nat]
  /\ paid \subseteq Keys

Typed == TablesTyped /\ ReqsTyped

\* The frames that requests start with, and go on with when they have taken a secret,
\* when they are to insert a user, and while they send an e-mail.
LEMMA IdleWellFormed ==
  /\ Idle \in Frame /\ WellFormed(Idle)
  /\ Idle.at = "idle" /\ Idle.key = None /\ Idle.email = None /\ Idle.mail = "none" /\ Idle.counts = {}
BY DEF WellFormed, Idle, Frame

\* None is not a key and not an address, and a key is of one kind.
LEMMA KeyKinds ==
  /\ None \notin Keys /\ None \notin Emails
  /\ Emails \subseteq Keys /\ Tickets \subseteq Keys /\ ResetTokens \subseteq Keys
  /\ Emails \cap Tickets = {} /\ Emails \cap ResetTokens = {} /\ Tickets \cap ResetTokens = {}
BY AccountsAssumption DEF Keys

\* A request that starts to send the secret k.
LEMMA SendWellFormed ==
  ASSUME NEW k \in Keys
  PROVE  LET f == [Idle EXCEPT !.at = "send", !.key = k] IN
         WellFormed(f) /\ f.at = "send" /\ f.key = k
<1> DEFINE f == [Idle EXCEPT !.at = "send", !.key = k]
<1>1. f \in Frame
  BY IdleWellFormed DEF Frame
<1>2. f.at = "send" /\ f.key = k /\ f.counts = {}
  BY IdleWellFormed DEF Frame
<1> HIDE DEF f
<1>3. WellFormed(f)
  BY <1>1, <1>2 DEF WellFormed
<1>4. QED
  BY <1>2, <1>3 DEF f

\* What the request is about once it has taken the secret k, which was for e.
Redeemer(k, e) == [Idle EXCEPT !.at = IF k \in Emails THEN "setex"
                                      ELSE IF k \in Tickets THEN "select" ELSE "apply",
                               !.key = k, !.email = e]

LEMMA RedeemerWellFormed ==
  ASSUME NEW k \in Keys, NEW e \in Emails
  PROVE  /\ WellFormed(Redeemer(k, e))
         /\ Redeemer(k, e).at \in {"setex", "select", "apply"}
         /\ Redeemer(k, e).key = k /\ Redeemer(k, e).email = e
<1> DEFINE f == Redeemer(k, e)
           at == IF k \in Emails THEN "setex" ELSE IF k \in Tickets THEN "select" ELSE "apply"
<1>1. f \in Frame
  BY IdleWellFormed DEF Frame, Redeemer
<1>2. f.at = at /\ f.key = k /\ f.email = e
  BY IdleWellFormed DEF Frame, Redeemer
<1>3. k \in ResetTokens \/ k \in Emails \/ k \in Tickets
  BY DEF Keys
<1> HIDE DEF f
<1>4. WellFormed(f)
  BY <1>1, <1>2, <1>3 DEF WellFormed
<1>5. QED
  BY <1>2, <1>4 DEF f

\* A request that has compared the secret k, which was for e, and one that creates e.
LEMMA ComparedWellFormed ==
  ASSUME NEW k \in Keys, NEW e \in Emails, ~Atomic(k)
  PROVE  LET f == [Idle EXCEPT !.at = "del", !.key = k, !.email = e] IN
         WellFormed(f) /\ f.at = "del" /\ f.key = k /\ f.email = e
<1> DEFINE f == [Idle EXCEPT !.at = "del", !.key = k, !.email = e]
<1>1. f \in Frame
  BY IdleWellFormed DEF Frame
<1>2. f.at = "del" /\ f.key = k /\ f.email = e
  BY IdleWellFormed DEF Frame
<1> HIDE DEF f
<1>3. WellFormed(f)
  BY <1>1, <1>2 DEF WellFormed
<1>4. QED
  BY <1>2, <1>3 DEF f

LEMMA CreatorWellFormed ==
  ASSUME NEW e \in Emails
  PROVE  LET f == [Idle EXCEPT !.at = "insert", !.email = e] IN
         WellFormed(f) /\ f.at = "insert" /\ f.key = None
<1> DEFINE f == [Idle EXCEPT !.at = "insert", !.email = e]
<1>1. f \in Frame
  BY IdleWellFormed DEF Frame
<1>2. f.at = "insert" /\ f.key = None /\ f.email = e
  BY IdleWellFormed DEF Frame
<1> HIDE DEF f
<1>3. WellFormed(f)
  BY <1>1, <1>2 DEF WellFormed
<1>4. QED
  BY <1>2, <1>3 DEF f

\* A request that sends an e-mail and counts it goes on about the same secret.
Mailing(f, g) ==
  /\ f.at \in {"send", "incr", "expire"} /\ g.at \in {"incr", "expire", "answer", "refuse"}
  /\ g.key = f.key

LEMMA MailStepsWellFormed ==
  ASSUME ReqsTyped, NEW r \in Reqs, Send(r) \/ Count(r) \/ ExpireCounter(r)
  PROVE  \E f : Become(r, f) /\ WellFormed(f) /\ Mailing(req[r], f)
<1>0. WellFormed(req[r]) /\ req[r] \in Frame
  BY DEF ReqsTyped, WellFormed
<1>1. ASSUME NEW at, NEW mail, NEW counts, at \in {"incr", "expire", "answer", "refuse"},
             mail \in {"none", "sent", "skipped", "failed"}, counts \in SUBSET {"sent", "failed"}
      PROVE  LET f == [req[r] EXCEPT !.at = at, !.mail = mail, !.counts = counts] IN
             /\ f \in Frame /\ f.at = at /\ f.mail = mail /\ f.counts = counts /\ f.key = req[r].key
  BY <1>0, <1>1, ZenonT(30) DEF Frame
<1>2. CASE Send(r)
  <2>1. PICK mail \in Outcomes(req[r].key) : Become(r, [req[r] EXCEPT !.at = "incr", !.mail = mail])
    BY <1>2 DEF Send
  <2>2. mail \in {"sent", "skipped", "failed"}
    BY <2>1 DEF Outcomes, Resend, EmailJS, SMTP, Dev
  <2> DEFINE f == [req[r] EXCEPT !.at = "incr", !.mail = mail]
  <2>3. f \in Frame /\ f.at = "incr" /\ f.counts = req[r].counts /\ f.key = req[r].key
    BY <1>0, <2>2 DEF Frame
  <2>4. req[r].at = "send" /\ req[r].counts = {} /\ req[r].key \in Keys
    BY <1>0, <1>2 DEF Send, WellFormed
  <2>5. Become(r, f)
    BY <2>1
  <2> HIDE DEF f
  <2>6. WellFormed(f)
    BY <2>3, <2>4 DEF WellFormed
  <2>7. QED
    BY <2>3, <2>4, <2>5, <2>6 DEF Mailing
<1>3. ASSUME req[r].at \in {"incr", "expire"}, Goto(r, Answered(r))
      PROVE  \E f : Become(r, f) /\ WellFormed(f) /\ Mailing(req[r], f)
  <2> DEFINE f == [req[r] EXCEPT !.at = Answered(r)]
  <2>1. /\ f \in Frame /\ f.at = Answered(r) /\ f.counts = req[r].counts /\ f.key = req[r].key
        /\ f.mail = req[r].mail
    BY <1>0 DEF Frame, Answered
  <2>2. /\ req[r].key \in Keys
        /\ req[r].counts \in {{}, {IF req[r].mail = "failed" THEN "failed" ELSE "sent"}}
    BY <1>0, <1>3 DEF WellFormed
  <2>3. Become(r, f)
    BY <1>3 DEF Goto
  <2>4. Answered(r) = IF req[r].mail = "failed" THEN "refuse" ELSE "answer"
    BY DEF Answered
  <2> HIDE DEF f
  <2>5. WellFormed(f)
    BY <2>1, <2>2, <2>4 DEF WellFormed
  <2>6. QED
    BY <1>3, <2>1, <2>3, <2>4, <2>5 DEF Mailing
<1>4. CASE Count(r)
  <2> DEFINE counter == IF req[r].mail = "failed" THEN "failed" ELSE "sent"
             f == [req[r] EXCEPT !.at = "expire", !.counts = @ \cup {counter}]
  <2>1. req[r].at = "incr" /\ req[r].counts = {} /\ req[r].key \in Keys
    BY <1>0, <1>4 DEF Count, WellFormed
  <2>2. CASE Become(r, f)
    <3>1. f \in Frame /\ f.at = "expire" /\ f.key = req[r].key /\ f.mail = req[r].mail
      BY <1>0 DEF Frame
    <3>2. f.counts = {counter}
      BY <1>0, <2>1 DEF Frame
    <3>3. counter = IF f.mail = "failed" THEN "failed" ELSE "sent"
      BY <3>1
    <3> HIDE DEF f
    <3>4. WellFormed(f)
      BY <2>1, <3>1, <3>2, <3>3 DEF WellFormed
    <3>5. QED
      BY <2>1, <2>2, <3>1, <3>4 DEF Mailing
  <2>3. QED
    BY <1>3, <1>4, <2>1, <2>2 DEF Count
<1>5. CASE ExpireCounter(r)
  BY <1>3, <1>5 DEF ExpireCounter
<1>6. QED
  BY <1>2, <1>4, <1>5

\* A request that goes on as a well-formed frame leaves the others as they are.
LEMMA BecomeTyped ==
  ASSUME ReqsTyped, NEW r \in Reqs, NEW f, WellFormed(f), Become(r, f), UNCHANGED server
  PROVE  ReqsTyped' /\ \A p \in Reqs : req'[p] = IF p = r THEN f ELSE req[p]
<1>1. \A p \in Reqs : req'[p] = IF p = r THEN f ELSE req[p]
  BY DEF ReqsTyped, Become
<1>2. req' \in [Reqs -> Frame]
  BY DEF ReqsTyped, Become, WellFormed
<1>3. \A g : WellFormed(g) => WellFormed(g)'
  BY DEF WellFormed, Atomic
<1>4. QED
  BY <1>1, <1>2, <1>3 DEF ReqsTyped

\* How a secret is issued, taken and lost, and how a request goes on without it.
Issued(r, k, e) ==
  /\ e \in Emails /\ SetEx(k, e) /\ paid' \subseteq Keys
  /\ k \in ResetTokens => e \in users
  /\ UNCHANGED <<deployment, users>>

Redeemed(r, k, e) ==
  /\ e \in Emails /\ redis' = [redis EXCEPT ![k] = None] /\ Taken(r, k, e)
  /\ \/ req[r].at = "idle" /\ Atomic(k) /\ redis[k] = e
     \/ req[r].at = "del" /\ ~Atomic(k) /\ req[r].key = k /\ req[r].email = e
  /\ UNCHANGED <<deployment, users, paid, lost>>

Lost(k) ==
  /\ redis' = [redis EXCEPT ![k] = None]
  /\ UNCHANGED <<deployment, users, req, uses, paid, lost>>

GoesOn(r, f) ==
  /\ WellFormed(f) /\ Become(r, f)
  /\ users \subseteq users' /\ users' \subseteq Emails
  /\ paid \subseteq paid' /\ paid' \subseteq Keys
  /\ lost \subseteq lost' /\ lost' \subseteq Keys
  /\ UNCHANGED <<deployment, redis, uses>>

\* What a request knows when it goes on, and what it leaves behind.
Legal(r, f) ==
  \/ Mailing(req[r], f)
  \/ req[r].at \in {"answer", "refuse"} /\ f = Idle
  \/ /\ req[r].at = "idle" /\ f.at = "del" /\ f.key \in Keys
     /\ redis[f.key] # None /\ f.email = redis[f.key]
  \/ req[r].at = "idle" /\ f.at = "insert" /\ f.key = None
  \/ req[r].at = "select" /\ f.at = "insert" /\ f.key = req[r].key
  \/ /\ req[r].at \in {"select", "insert", "apply"} /\ f = Idle
     /\ \/ req[r].key \in paid' \/ req[r].key = None
        \/ req[r].at = "apply" /\ req[r].email \notin users
  \/ /\ req[r].at \in Underway \cup {"del"} /\ f = Idle
     /\ req[r].at \in Underway => req[r].key \in lost' \cup {None}

\* What a request does next.
Request(r) ==
  \/ \E e \in Emails : \/ IssueOTP(r, e) \/ Create(r, e)
                       \/ \E t \in ResetTokens : IssueResetToken(r, t, e)
  \/ \E k \in Keys : TakeAtomic(r, k) \/ TakeGet(r, k)
  \/ \E t \in Tickets : IssueTicket(r, t)
  \/ Send(r) \/ Count(r) \/ ExpireCounter(r) \/ Answer(r) \/ TakeDel(r)
  \/ SelectUser(r) \/ InsertUser(r) \/ Apply(r) \/ Fault(r)

\* Each step of a request is one of these.
LEMMA RequestSteps ==
  ASSUME Typed, NEW r \in Reqs, Request(r)
  PROVE  \/ \E k \in Emails \cup ResetTokens, e \in Emails :
              /\ Issued(r, k, e) /\ paid' = paid \ {k} /\ req[r].at = "idle"
              /\ Become(r, [Idle EXCEPT !.at = "send", !.key = k])
         \/ \E k \in Tickets :
              /\ Issued(r, k, req[r].email) /\ req[r].at = "setex" /\ Fresh(k)
              /\ paid' = (paid \cup {req[r].key}) \ {k} /\ Finish(r)
         \/ \E k \in Keys, e \in Emails : Redeemed(r, k, e)
         \/ \E f : GoesOn(r, f) /\ Legal(r, f)
<1>0. /\ WellFormed(req[r]) /\ req[r] \in Frame /\ redis \in [Keys -> Emails \cup {None}]
      /\ users \subseteq Emails /\ paid \subseteq Keys /\ lost \subseteq Keys
  BY DEF Typed, ReqsTyped, TablesTyped
<1>1. ASSUME NEW e \in Emails, IssueOTP(r, e)
      PROVE  \E k \in Emails \cup ResetTokens, d \in Emails :
              /\ Issued(r, k, d) /\ paid' = paid \ {k} /\ req[r].at = "idle"
              /\ Become(r, [Idle EXCEPT !.at = "send", !.key = k])
  BY <1>0, <1>1, KeyKinds DEF IssueOTP, Issued
<1>2. ASSUME NEW e \in Emails, NEW t \in ResetTokens, IssueResetToken(r, t, e)
      PROVE  \E k \in Emails \cup ResetTokens, d \in Emails :
              /\ Issued(r, k, d) /\ paid' = paid \ {k} /\ req[r].at = "idle"
              /\ Become(r, [Idle EXCEPT !.at = "send", !.key = k])
  BY <1>0, <1>2, KeyKinds DEF IssueResetToken, Issued
<1>3. ASSUME NEW e \in Emails, Create(r, e)
      PROVE  \E f : GoesOn(r, f) /\ Legal(r, f)
  <2> DEFINE f == [Idle EXCEPT !.at = "insert", !.email = e]
  <2>1. WellFormed(f) /\ f.at = "insert" /\ f.key = None
    BY CreatorWellFormed
  <2>2. Become(r, f) /\ req[r].at = "idle" /\ UNCHANGED <<deployment, redis, users, uses, paid, lost>>
    BY <1>3 DEF Create
  <2> HIDE DEF f
  <2>3. QED
    BY <1>0, <2>1, <2>2 DEF GoesOn, Legal
<1>4. ASSUME NEW k \in Keys, TakeAtomic(r, k)
      PROVE  \E e \in Emails : Redeemed(r, k, e)
  BY <1>0, <1>4, KeyKinds DEF TakeAtomic, Redeemed
<1>5. ASSUME NEW k \in Keys, TakeGet(r, k)
      PROVE  \E f : GoesOn(r, f) /\ Legal(r, f)
  <2>1. PICK e \in Emails : redis[k] = e
    BY <1>0, <1>5 DEF TakeGet
  <2> DEFINE f == [Idle EXCEPT !.at = "del", !.key = k, !.email = e]
  <2>2. ~Atomic(k) /\ Become(r, f)
    BY <1>5, <2>1 DEF TakeGet
  <2>3. WellFormed(f) /\ f.at = "del" /\ f.key = k /\ f.email = e
    BY <2>2, ComparedWellFormed
  <2>4. /\ req[r].at = "idle" /\ redis[k] # None
        /\ UNCHANGED <<deployment, redis, users, uses, paid, lost>>
    BY <1>5 DEF TakeGet
  <2> HIDE DEF f
  <2>5. QED
    BY <1>0, <2>1, <2>2, <2>3, <2>4 DEF GoesOn, Legal
<1>6. ASSUME TakeDel(r)
      PROVE  \E k \in Keys, e \in Emails : Redeemed(r, k, e)
  BY <1>0, <1>6 DEF TakeDel, Redeemed, WellFormed
<1>7. ASSUME NEW t \in Tickets, IssueTicket(r, t)
      PROVE  /\ Issued(r, t, req[r].email) /\ req[r].at = "setex" /\ Fresh(t)
             /\ paid' = (paid \cup {req[r].key}) \ {t} /\ Finish(r)
  <2>1. req[r].key \in Emails /\ req[r].email \in Emails
    BY <1>0, <1>7 DEF IssueTicket, WellFormed
  <2>2. QED
    BY <1>0, <1>7, <2>1, KeyKinds DEF IssueTicket, Issued
<1>8. ASSUME Send(r) \/ Count(r) \/ ExpireCounter(r)
      PROVE  \E f : GoesOn(r, f) /\ Legal(r, f)
  <2>1. PICK f : Become(r, f) /\ WellFormed(f) /\ Mailing(req[r], f)
    BY <1>8, MailStepsWellFormed DEF Typed
  <2>2. UNCHANGED <<deployment, redis, users, uses, paid, lost>>
    BY <1>8 DEF Send, Count, ExpireCounter
  <2>3. QED
    BY <1>0, <2>1, <2>2 DEF GoesOn, Legal
<1>9. ASSUME Answer(r)
      PROVE  \E f : GoesOn(r, f) /\ Legal(r, f)
  <2>1. GoesOn(r, Idle) /\ Legal(r, Idle)
    BY <1>0, <1>9, IdleWellFormed DEF Answer, Finish, GoesOn, Legal
  <2>2. QED
    BY <2>1
<1>10. ASSUME req[r].at \in {"select", "insert"}, Finish(r), Signed(r),
              users \subseteq users', users' \subseteq Emails,
              UNCHANGED <<deployment, redis, uses, lost>>
       PROVE  \E f : GoesOn(r, f) /\ Legal(r, f)
  <2>1. req[r].key \in Keys \cup {None}
    BY <1>0 DEF Frame
  <2>2. GoesOn(r, Idle) /\ Legal(r, Idle)
    BY <1>0, <1>10, <2>1, IdleWellFormed DEF Finish, Signed, GoesOn, Legal
  <2>3. QED
    BY <2>2
<1>11. ASSUME SelectUser(r)
       PROVE  \E f : GoesOn(r, f) /\ Legal(r, f)
  <2>1. CASE req[r].email \in users
    BY <1>0, <1>10, <1>11, <2>1 DEF SelectUser
  <2>2. CASE req[r].email \notin users
    <3> DEFINE f == [req[r] EXCEPT !.at = "insert"]
    <3>1. f \in Frame /\ f.at = "insert" /\ f.key = req[r].key /\ f.email = req[r].email
      BY <1>0 DEF Frame
    <3>2. Become(r, f) /\ req[r].at = "select" /\ req[r].email \in Emails
          /\ UNCHANGED <<deployment, redis, users, uses, paid, lost>>
      BY <1>0, <1>11, <2>2 DEF SelectUser, Goto, WellFormed
    <3> HIDE DEF f
    <3>3. WellFormed(f)
      BY <3>1, <3>2 DEF WellFormed
    <3>4. QED
      BY <1>0, <3>1, <3>2, <3>3 DEF GoesOn, Legal
  <2>3. QED
    BY <2>1, <2>2
<1>12. ASSUME InsertUser(r)
       PROVE  \E f : GoesOn(r, f) /\ Legal(r, f)
  <2>1. req[r].email \in Emails
    BY <1>0, <1>12 DEF InsertUser, WellFormed
  <2>2. QED
    BY <1>0, <1>10, <1>12, <2>1 DEF InsertUser
<1>13. ASSUME Apply(r)
       PROVE  \E f : GoesOn(r, f) /\ Legal(r, f)
  <2>1. req[r].key \in Keys
    BY <1>0, <1>13, KeyKinds DEF Apply, WellFormed
  <2>2. GoesOn(r, Idle) /\ Legal(r, Idle)
    BY <1>0, <1>13, <2>1, IdleWellFormed DEF Apply, Finish, GoesOn, Legal
  <2>3. QED
    BY <2>2
<1>14. ASSUME Fault(r)
       PROVE  \E f : GoesOn(r, f) /\ Legal(r, f)
  <2>1. /\ req[r].key \in Keys \cup {None} /\ lost \subseteq Keys
        /\ req[r].at \in Underway \cup {"del"} /\ Become(r, Idle)
        /\ lost' = lost \cup Broken({r}) /\ UNCHANGED <<deployment, redis, users, uses, paid>>
    BY <1>0, <1>14 DEF Frame, Typed, TablesTyped, Fault, Finish
  <2>2. /\ lost \subseteq lost' /\ lost' \subseteq Keys
        /\ req[r].at \in Underway => req[r].key \in lost' \cup {None}
    BY <2>1 DEF Broken
  <2>3. GoesOn(r, Idle) /\ Legal(r, Idle)
    BY <1>0, <2>1, <2>2, IdleWellFormed DEF GoesOn, Legal
  <2>4. QED
    BY <2>3
<1>15. QED
  BY <1>1, <1>2, <1>3, <1>4, <1>5, <1>6, <1>7, <1>8, <1>9, <1>11, <1>12, <1>13, <1>14 DEF Request

\* A step is one of a request, or loses a secret, or nothing changes.
LEMMA Steps ==
  ASSUME Typed, Next
  PROVE  \/ \E r \in Reqs : Request(r)
         \/ \E k \in Keys : redis[k] # None /\ Lost(k)
         \/ Crash
<1>1. ASSUME NEW k \in Keys, TakeInVain(k) \/ Expire(k)
      PROVE  redis[k] # None /\ Lost(k)
  BY <1>1, AccountsAssumption DEF TakeInVain, Expire, Lost, Typed, TablesTyped
<1>2. QED
  BY <1>1 DEF Next, Request

\* No step changes the Redis server or the e-mail service.
LEMMA ServerStays == Typed /\ [Next]_vars => server' = server
<1> SUFFICES ASSUME Typed, Next
             PROVE  server' = server
  BY DEF vars
<1> USE DEF deployment
<1>1. ASSUME NEW r \in Reqs, Request(r)
      PROVE  server' = server
  BY <1>1, RequestSteps DEF Issued, Redeemed, GoesOn
<1>2. QED
  BY <1>1, Steps DEF Lost, Crash

\* Each step keeps the types.
LEMMA StepTyped == Typed /\ [Next]_vars => Typed'
<1> SUFFICES ASSUME Typed, [Next]_vars
             PROVE  Typed'
  OBVIOUS
<1> USE DEF deployment
<1>1. CASE UNCHANGED vars
  BY <1>1 DEF vars, Typed, TablesTyped, ReqsTyped, WellFormed, Atomic
<1>2. ASSUME NEW r \in Reqs, NEW f, WellFormed(f), Become(r, f), UNCHANGED server
      PROVE  ReqsTyped'
  BY <1>2, BecomeTyped DEF Typed
<1>3. ASSUME NEW r \in Reqs, NEW k \in Keys, NEW e, Issued(r, k, e), ReqsTyped'
      PROVE  Typed'
  BY <1>3 DEF Issued, SetEx, Typed, TablesTyped
<1>4. ASSUME NEW r \in Reqs, NEW k \in Keys, NEW e, Redeemed(r, k, e)
      PROVE  Typed'
  <2>1. ReqsTyped'
    <3>1. e \in Emails /\ Become(r, Redeemer(k, e)) /\ UNCHANGED server
      BY <1>4 DEF Redeemed, Taken, Redeemer
    <3>2. QED
      BY <3>1, <1>2, RedeemerWellFormed
  <2>2. TablesTyped'
    BY <1>4 DEF Redeemed, Taken, Typed, TablesTyped
  <2>3. QED
    BY <2>1, <2>2 DEF Typed
<1>5. ASSUME NEW k \in Keys, Lost(k)
      PROVE  Typed'
  BY <1>5 DEF Lost, Typed, TablesTyped, ReqsTyped, WellFormed, Atomic
<1>6. ASSUME NEW r \in Reqs, NEW f, GoesOn(r, f)
      PROVE  Typed'
  BY <1>2, <1>6 DEF GoesOn, Typed, TablesTyped
<1>7. ASSUME NEW r \in Reqs, NEW k \in Emails \cup ResetTokens, NEW e \in Emails, Issued(r, k, e),
             Become(r, [Idle EXCEPT !.at = "send", !.key = k])
      PROVE  Typed'
  <2>1. k \in Keys /\ UNCHANGED server
    BY <1>7, KeyKinds DEF Issued
  <2>2. QED
    BY <1>2, <1>3, <1>7, <2>1, SendWellFormed
<1>8. ASSUME NEW r \in Reqs, NEW k \in Tickets, Issued(r, k, req[r].email), Finish(r)
      PROVE  Typed'
  <2>1. k \in Keys /\ UNCHANGED server
    BY <1>8, KeyKinds DEF Issued
  <2>2. QED
    BY <1>2, <1>3, <1>8, <2>1, IdleWellFormed DEF Finish
<1>9. CASE Crash
  <2>1. Broken(Reqs) \subseteq Keys
    BY DEF Broken, Typed, ReqsTyped, Frame
  <2>2. QED
    BY <1>9, <2>1, IdleWellFormed DEF Crash, Typed, TablesTyped, ReqsTyped, WellFormed, Atomic
<1>10. ASSUME NEW r \in Reqs, Request(r)
       PROVE  Typed'
  BY <1>4, <1>6, <1>7, <1>8, <1>10, RequestSteps
<1>11. QED
  BY <1>1, <1>5, <1>9, <1>10, Steps

LEMMA Typing == Spec => []Typed
<1>1. Init => Typed
  BY IdleWellFormed, AccountsAssumption DEF Init, Typed, TablesTyped, ReqsTyped
<1>2. QED
  BY <1>1, StepTyped, PTL DEF Spec

\* The keys, users and requests are well typed.
THEOREM TypesHold == Spec => []TypeOK
<1>1. Typed => TypeOK
  BY DEF Typed, TablesTyped, ReqsTyped, TypeOK
<1>2. QED
  BY <1>1, Typing, PTL

\* Whatever fails while email_metrics counts an e-mail, the answer and the counters tell
\* what became of it.
THEOREM MailHolds == Spec => []MailAnswered
<1>1. Typed => MailAnswered
  BY DEF Typed, ReqsTyped, WellFormed, MailAnswered
<1>2. QED
  BY <1>1, Typing, PTL

\* Those who have compared the secret k and are about to delete it, when the requests
\* are q.
Takers(q, k) == {r \in Reqs : q[r].at = "del" /\ q[r].key = k}

\* Of them there are never more than requests.
LEMMA TakersFinite ==
  ASSUME NEW q, NEW k
  PROVE  /\ IsFiniteSet(Takers(q, k)) /\ Cardinality(Takers(q, k)) \in Nat
         /\ Cardinality(Takers(q, k)) <= Cardinality(Reqs) /\ Cardinality(Reqs) \in Nat
BY AccountsAssumption, FS_Subset, FS_CardinalityType DEF Takers

\* A secret that is still there has let nobody go on.  One that is taken in one command
\* lets one request go on; the others let go on those who have compared it, and of them
\* there are never more than requests.
UsesInv ==
  \A k \in Keys :
    /\ redis[k] # None => uses[k] = 0
    /\ Atomic(k) => uses[k] <= 1
    /\ uses[k] + Cardinality(Takers(req, k)) <= Cardinality(Reqs)

\* Each step keeps the bound: a request counts as a taker before it uses the secret.
LEMMA UsesStep == Typed /\ UsesInv /\ [Next]_vars => UsesInv'
<1> SUFFICES ASSUME Typed, UsesInv, [Next]_vars
             PROVE  UsesInv'
  OBVIOUS
<1> SUFFICES ASSUME NEW k \in Keys
             PROVE  /\ redis'[k] # None => uses'[k] = 0
                    /\ Atomic(k) => uses'[k] <= 1
                    /\ uses'[k] + Cardinality(Takers(req', k)) <= Cardinality(Reqs)
  <2>1. server' = server
    BY ServerStays
  <2>2. QED
    BY <2>1 DEF UsesInv, Atomic, Takers
<1> DEFINE Goal == /\ redis'[k] # None => uses'[k] = 0
                   /\ Atomic(k) => uses'[k] <= 1
                   /\ uses'[k] + Cardinality(Takers(req', k)) <= Cardinality(Reqs)
<1>0. /\ redis[k] # None => uses[k] = 0
      /\ Atomic(k) => uses[k] <= 1
      /\ uses[k] + Cardinality(Takers(req, k)) <= Cardinality(Reqs)
      /\ uses[k] \in Nat /\ redis \in [Keys -> Emails \cup {None}] /\ uses \in [Keys -> Nat]
      /\ \A r \in Reqs : WellFormed(req[r])
      /\ req \in [Reqs -> Frame]
  BY DEF UsesInv, Typed, TablesTyped, ReqsTyped
<1>f. /\ IsFiniteSet(Takers(req, k)) /\ Cardinality(Takers(req, k)) \in Nat
      /\ Cardinality(Takers(req', k)) \in Nat
      /\ Cardinality(Takers(req', k)) <= Cardinality(Reqs) /\ Cardinality(Reqs) \in Nat
  BY TakersFinite
\* A secret that has let nobody go on may be compared by any of the requests.
<1>1. ASSUME uses'[k] = 0
      PROVE  Goal
  BY <1>1, <1>f
<1>2. ASSUME Takers(req', k) \subseteq Takers(req, k), uses'[k] = uses[k],
             redis'[k] \in {redis[k], None}
      PROVE  Goal
  <2>1. Cardinality(Takers(req', k)) <= Cardinality(Takers(req, k))
    BY <1>2, <1>f, FS_Subset
  <2>2. QED
    BY <1>0, <1>2, <1>f, <2>1
<1>3. CASE UNCHANGED vars
  BY <1>2, <1>3 DEF vars
<1>4. ASSUME NEW r \in Reqs, NEW j \in Keys, NEW e, Issued(r, j, e),
             Takers(req', k) \subseteq Takers(req, k)
      PROVE  Goal
  <2>1. CASE j = k
    BY <1>0, <1>1, <1>4, <2>1 DEF Issued, SetEx
  <2>2. CASE j # k
    BY <1>0, <1>2, <1>4, <2>2 DEF Issued, SetEx
  <2>3. QED
    BY <2>1, <2>2
<1>5. ASSUME NEW r \in Reqs, NEW f, Become(r, f), f.at # "del"
      PROVE  Takers(req', k) \subseteq Takers(req, k)
  BY <1>0, <1>5 DEF Become, Takers
<1>6. ASSUME NEW r \in Reqs, NEW j \in Keys, NEW e \in Emails, Redeemed(r, j, e)
      PROVE  Goal
  <2>1. Become(r, Redeemer(j, e)) /\ Redeemer(j, e).at # "del"
    BY <1>6, RedeemerWellFormed DEF Redeemed, Taken, Redeemer
  <2>2. Takers(req', k) \subseteq Takers(req, k)
    BY <1>5, <2>1
  <2>3. CASE j # k
    BY <1>0, <1>2, <1>6, <2>2, <2>3 DEF Redeemed, Taken
  <2>4. CASE j = k
    <3>1. redis'[k] = None /\ uses'[k] = uses[k] + 1
      BY <1>0, <1>6, <2>4 DEF Redeemed, Taken
    <3>2. CASE req[r].at = "idle" /\ Atomic(k) /\ redis[k] = e
      <4>1. uses[k] = 0
        BY <1>0, <3>2, KeyKinds
      <4>2. Takers(req', k) = {}
        <5>1. Takers(req, k) = {}
          BY <1>0, <3>2 DEF Takers, WellFormed
        <5>2. QED
          BY <2>2, <5>1
      <4>3. Reqs # {} /\ Cardinality(Reqs) # 0
        BY AccountsAssumption, FS_EmptySet
      <4>4. QED
        BY <1>f, <3>1, <4>1, <4>2, <4>3, FS_EmptySet
    <3>3. CASE req[r].at = "del" /\ ~Atomic(k) /\ req[r].key = k
      <4>1. Takers(req', k) = Takers(req, k) \ {r} /\ r \in Takers(req, k)
        BY <1>0, <2>1, <3>3 DEF Takers, Become
      <4>2. Cardinality(Takers(req', k)) = Cardinality(Takers(req, k)) - 1
        BY <1>f, <4>1, FS_RemoveElement, ZenonT(30)
      <4>3. QED
        BY <1>0, <1>f, <3>1, <3>3, <4>2
    <3>4. QED
      BY <1>6, <2>4, <3>2, <3>3 DEF Redeemed
  <2>5. QED
    BY <2>3, <2>4
<1>7. ASSUME NEW j \in Keys, Lost(j)
      PROVE  Goal
  BY <1>0, <1>2, <1>7 DEF Lost
\* Who compares a secret finds it there.
<1>8. ASSUME NEW r \in Reqs, NEW f, GoesOn(r, f), Legal(r, f)
      PROVE  Goal
  <2>1. CASE f.at # "del"
    BY <1>2, <1>5, <1>8, <2>1 DEF GoesOn
  <2>2. CASE f.at = "del" /\ f.key # k
    <3>1. Takers(req', k) \subseteq Takers(req, k)
      BY <1>0, <1>8, <2>2 DEF GoesOn, Become, Takers
    <3>2. QED
      BY <1>2, <1>8, <3>1 DEF GoesOn
  <2>3. CASE f.at = "del" /\ f.key = k
    <3>1. redis[k] # None
      BY <1>8, <2>3, IdleWellFormed DEF Legal, Mailing
    <3>2. QED
      BY <1>0, <1>1, <1>8, <3>1 DEF GoesOn
  <2>4. QED
    BY <2>1, <2>2, <2>3
<1>9. CASE Crash
  <2>1. Takers(req', k) \subseteq Takers(req, k)
    BY <1>9, IdleWellFormed DEF Crash, Takers
  <2>2. QED
    BY <1>2, <1>9, <2>1 DEF Crash
<1>10. ASSUME NEW r \in Reqs, Request(r)
       PROVE  Goal
  <2>1. ASSUME NEW j \in Emails \cup ResetTokens, NEW e \in Emails, Issued(r, j, e),
               Become(r, [Idle EXCEPT !.at = "send", !.key = j])
        PROVE  Goal
    BY <1>4, <1>5, <2>1, KeyKinds, SendWellFormed
  <2>2. ASSUME NEW j \in Tickets, Issued(r, j, req[r].email), Finish(r)
        PROVE  Goal
    BY <1>4, <1>5, <2>2, KeyKinds, IdleWellFormed DEF Finish
  <2>3. QED
    BY <1>6, <1>8, <1>10, <2>1, <2>2, RequestSteps
<1>11. QED
  BY <1>3, <1>7, <1>9, <1>10, Steps

LEMMA UsesInvariant == Spec => []UsesInv
<1>1. Init => UsesInv
  <2> SUFFICES ASSUME Init, NEW k \in Keys
               PROVE  redis[k] = None /\ uses[k] = 0
    BY TakersFinite DEF UsesInv
  <2>1. QED
    BY DEF Init
<1>2. QED
  BY <1>1, UsesStep, Typing, PTL DEF Spec

\* A secret lets one request go on, and where it is compared and deleted apart no more
\* than were in progress together.
THEOREM UsesHold == Spec => []UsesBounded
<1>1. Typed /\ UsesInv => UsesBounded
  <2> SUFFICES ASSUME Typed, UsesInv, NEW k \in Keys
               PROVE  uses[k] <= IF Atomic(k) THEN 1 ELSE Cardinality(Reqs)
    BY DEF UsesBounded
  <2>1. /\ Atomic(k) => uses[k] <= 1
        /\ uses[k] + Cardinality(Takers(req, k)) <= Cardinality(Reqs) /\ uses[k] \in Nat
    BY DEF UsesInv, Typed, TablesTyped
  <2>2. QED
    BY <2>1, TakersFinite
<1>2. QED
  BY <1>1, UsesInvariant, Typing, PTL

\* A reset token, or a request that has taken one, is for a user that exists.
ResetsForUsers ==
  /\ \A t \in ResetTokens : redis[t] \in users \cup {None}
  /\ \A r \in Reqs : req[r].at \in {"del", "apply"} /\ req[r].key \in ResetTokens =>
       req[r].email \in users

\* Users are not deleted here, and a token is issued for one that was found.
LEMMA ResetsStep == Typed /\ ResetsForUsers /\ [Next]_vars => ResetsForUsers'
<1> SUFFICES ASSUME Typed, ResetsForUsers, [Next]_vars
             PROVE  ResetsForUsers'
  OBVIOUS
<1> DEFINE For(f) == f.at \in {"del", "apply"} /\ f.key \in ResetTokens => f.email \in users
<1>0. /\ redis \in [Keys -> Emails \cup {None}] /\ req \in [Reqs -> Frame]
      /\ \A t \in ResetTokens : redis[t] \in users \cup {None}
      /\ \A r \in Reqs : For(req[r])
  BY DEF Typed, TablesTyped, ReqsTyped, ResetsForUsers
<1>1. CASE UNCHANGED vars
  BY <1>1 DEF vars, ResetsForUsers
<1>2. ASSUME users \subseteq users', \A r \in Reqs : For(req'[r]),
             \A t \in ResetTokens : redis'[t] \in users \cup {None}
      PROVE  ResetsForUsers'
  BY <1>2 DEF ResetsForUsers
<1>3. ASSUME NEW r \in Reqs, NEW f, Become(r, f), For(f)
      PROVE  \A p \in Reqs : For(req'[p])
  BY <1>0, <1>3 DEF Become
<1>4. ASSUME NEW r \in Reqs, NEW k \in Keys, NEW e, Issued(r, k, e), \A p \in Reqs : For(req'[p])
      PROVE  ResetsForUsers'
  BY <1>0, <1>2, <1>4 DEF Issued, SetEx
<1>5. ASSUME NEW r \in Reqs, NEW k \in Keys, NEW e \in Emails, Redeemed(r, k, e)
      PROVE  ResetsForUsers'
  <2>1. Become(r, Redeemer(k, e)) /\ For(Redeemer(k, e))
    <3>1. k \in ResetTokens => e \in users
      BY <1>0, <1>5, KeyKinds DEF Redeemed
    <3>2. Redeemer(k, e).key = k /\ Redeemer(k, e).email = e
      BY RedeemerWellFormed
    <3>3. Become(r, Redeemer(k, e))
      BY <1>5 DEF Redeemed, Taken, Redeemer
    <3>4. QED
      BY <3>1, <3>2, <3>3
  <2>2. \A p \in Reqs : For(req'[p])
    BY <1>3, <2>1
  <2>3. QED
    BY <1>0, <1>2, <1>5, <2>2 DEF Redeemed
<1>6. ASSUME NEW k \in Keys, Lost(k)
      PROVE  ResetsForUsers'
  BY <1>0, <1>2, <1>6 DEF Lost
<1>7. ASSUME NEW r \in Reqs, NEW f, GoesOn(r, f), Legal(r, f)
      PROVE  ResetsForUsers'
  <2>1. For(f)
    BY <1>0, <1>7, IdleWellFormed DEF Legal, Mailing
  <2>2. QED
    BY <1>0, <1>2, <1>3, <1>7, <2>1 DEF GoesOn
<1>8. CASE Crash
  BY <1>0, <1>2, <1>8, IdleWellFormed DEF Crash
<1>9. ASSUME NEW r \in Reqs, Request(r)
      PROVE  ResetsForUsers'
  <2>1. ASSUME NEW k \in Emails \cup ResetTokens, NEW e \in Emails, Issued(r, k, e),
               Become(r, [Idle EXCEPT !.at = "send", !.key = k])
        PROVE  ResetsForUsers'
    BY <1>3, <1>4, <2>1, KeyKinds, SendWellFormed
  <2>2. ASSUME NEW k \in Tickets, Issued(r, k, req[r].email), Finish(r)
        PROVE  ResetsForUsers'
    BY <1>3, <1>4, <2>2, KeyKinds, IdleWellFormed DEF Finish
  <2>3. QED
    BY <1>5, <1>7, <1>9, <2>1, <2>2, RequestSteps
<1>10. QED
  BY <1>1, <1>6, <1>8, <1>9, Steps

\* The request that has taken the secret k is on its way.
Going(q, k) == \E r \in Reqs : q[r].key = k /\ q[r].at \in Underway

\* A request goes on until the secret has paid off or is lost with the request.
LEMMA PaysOffStep ==
  Typed /\ UsesInv /\ ResetsForUsers /\ RedeemedPaysOff /\ [Next]_vars => RedeemedPaysOff'
<1> SUFFICES ASSUME Typed, UsesInv, ResetsForUsers, RedeemedPaysOff, [Next]_vars,
                    NEW k \in Keys, uses'[k] > 0
             PROVE  k \in paid' \cup lost' \/ Going(req', k)
  BY DEF RedeemedPaysOff, Going
<1> USE DEF Underway
<1> DEFINE Goal == k \in paid' \cup lost' \/ Going(req', k)
<1>0. /\ uses[k] > 0 => k \in paid \cup lost \/ Going(req, k)
      /\ uses \in [Keys -> Nat] /\ req \in [Reqs -> Frame]
      /\ \A r \in Reqs : WellFormed(req[r])
      /\ None \notin Keys
  BY KeyKinds, AccountsAssumption DEF RedeemedPaysOff, Going, Typed, TablesTyped, ReqsTyped
<1>1. ASSUME uses'[k] = uses[k], k \in paid \cup lost => k \in paid' \cup lost',
             Going(req, k) => Going(req', k) \/ k \in paid' \cup lost'
      PROVE  Goal
  BY <1>0, <1>1
<1>2. CASE UNCHANGED vars
  BY <1>1, <1>2 DEF vars
<1>3. ASSUME NEW r \in Reqs, NEW f, Become(r, f),
             req[r].key = k /\ req[r].at \in Underway =>
               \/ f.key = k /\ f.at \in Underway
               \/ k \in paid' \cup lost'
      PROVE  Going(req, k) => Going(req', k) \/ k \in paid' \cup lost'
  BY <1>0, <1>3 DEF Going, Become
<1>4. ASSUME NEW r \in Reqs, NEW j \in Keys, NEW e \in Emails, Redeemed(r, j, e)
      PROVE  Goal
  <2>1. Become(r, Redeemer(j, e)) /\ Redeemer(j, e).key = j
        /\ Redeemer(j, e).at \in {"setex", "select", "apply"}
    BY <1>4, RedeemerWellFormed DEF Redeemed, Taken, Redeemer
  <2>2. CASE j = k
    BY <1>0, <2>1, <2>2 DEF Become, Going
  <2>3. CASE j # k
    <3>1. uses'[k] = uses[k] /\ paid' = paid /\ lost' = lost
      BY <1>0, <1>4, <2>3 DEF Redeemed, Taken
    <3>2. req[r].at \in {"idle", "del"}
      BY <1>4 DEF Redeemed
    <3>3. QED
      BY <1>1, <1>3, <2>1, <3>1, <3>2
  <2>4. QED
    BY <2>2, <2>3
<1>5. ASSUME NEW j \in Keys, Lost(j)
      PROVE  Goal
  BY <1>0, <1>1, <1>5, AccountsAssumption DEF Lost
\* Who leaves without having paid has a user that exists, or nothing to pay.
<1>6. ASSUME NEW r \in Reqs, NEW f, GoesOn(r, f), Legal(r, f)
      PROVE  Goal
  <2>1. req[r].at = "apply" => req[r].email \in users
    BY <1>0 DEF WellFormed, ResetsForUsers
  <2>2. req[r].key = k /\ req[r].at \in Underway =>
          (f.key = k /\ f.at \in Underway) \/ k \in paid' \cup lost'
    BY <1>0, <1>6, <2>1 DEF Legal, Mailing
  <2>3. QED
    BY <1>1, <1>3, <1>6, <2>2 DEF GoesOn
<1>7. CASE Crash
  <2>1. Going(req, k) => k \in lost'
    BY <1>0, <1>7 DEF Crash, Broken, Going
  <2>2. QED
    BY <1>1, <1>7, <2>1 DEF Crash
<1>8. ASSUME NEW r \in Reqs, NEW j \in Keys, NEW e, Issued(r, j, e),
             j # k /\ k \in paid => k \in paid',
             Going(req, k) => Going(req', k) \/ k \in paid' \cup lost'
      PROVE  Goal
  <2>1. j # k
    BY <1>0, <1>8 DEF Issued, SetEx
  <2>2. uses'[k] = uses[k] /\ (k \in lost => k \in lost')
    BY <1>0, <1>8, <2>1 DEF Issued, SetEx
  <2>3. QED
    BY <1>1, <1>8, <2>1, <2>2
<1>9. ASSUME NEW r \in Reqs, Request(r)
      PROVE  Goal
  <2>1. ASSUME NEW j \in Emails \cup ResetTokens, NEW e \in Emails, Issued(r, j, e),
               paid' = paid \ {j}, req[r].at = "idle",
               Become(r, [Idle EXCEPT !.at = "send", !.key = j])
        PROVE  Goal
    <3>1. Going(req, k) => Going(req', k) \/ k \in paid' \cup lost'
      BY <1>3, <2>1
    <3>2. QED
      BY <1>8, <2>1, <3>1, KeyKinds
  <2>2. ASSUME NEW j \in Tickets, Issued(r, j, req[r].email), req[r].at = "setex", Fresh(j),
               paid' = (paid \cup {req[r].key}) \ {j}, Finish(r)
        PROVE  Goal
    <3>1. req[r].key # j
      BY <2>2 DEF Fresh
    <3>2. req[r].key = k => k \in paid'
      BY <2>2, <3>1
    <3>3. Going(req, k) => Going(req', k) \/ k \in paid' \cup lost'
      BY <1>3, <2>2, <3>2 DEF Finish
    <3>4. QED
      BY <1>8, <2>2, <3>3, KeyKinds
  <2>3. QED
    BY <1>4, <1>6, <1>9, <2>1, <2>2, RequestSteps
<1>10. QED
  BY <1>2, <1>5, <1>7, <1>9, Steps

\* A password, ticket or reset token that the OTP and reset services have
\* taken pays off, unless a request that took it was broken off.
THEOREM RedeemedPays == Spec => []RedeemedPaysOff
<1>1. Init => ResetsForUsers
  BY KeyKinds DEF Init, ResetsForUsers, Idle
<1>2. Init => RedeemedPaysOff
  BY DEF Init, RedeemedPaysOff
<1>3. QED
  BY <1>1, <1>2, UsesInvariant, ResetsStep, PaysOffStep, Typing, PTL DEF Spec

\* To the secrets that are taken in one command, a step is one of OneTimeSecret or none.
LEMMA OneTimeStep == Typed /\ UsesInv /\ [Next]_vars =>
  [OneTime!SecretNext]_<<{k \in Keys : redis[k] # None /\ Atomic(k)},
                         [k \in Keys |-> IF Atomic(k) THEN uses[k] ELSE 0]>>
<1> SUFFICES ASSUME Typed, UsesInv, Next
             PROVE  \/ OneTime!SecretNext
                    \/ UNCHANGED <<{k \in Keys : redis[k] # None /\ Atomic(k)},
                                   [k \in Keys |-> IF Atomic(k) THEN uses[k] ELSE 0]>>
  BY ServerStays DEF vars, Atomic
<1> DEFINE redeemable == {k \in Keys : redis[k] # None /\ Atomic(k)}
           granted == [k \in Keys |-> IF Atomic(k) THEN uses[k] ELSE 0]
<1>0. /\ redis \in [Keys -> Emails \cup {None}] /\ uses \in [Keys -> Nat] /\ None \notin Emails
      /\ \A k \in Keys : Atomic(k)' <=> Atomic(k)
  BY ServerStays, KeyKinds DEF Typed, TablesTyped, Atomic
<1>1. ASSUME redis' = redis, uses' = uses
      PROVE  UNCHANGED <<redeemable, granted>>
  BY <1>0, <1>1
<1>2. ASSUME NEW r \in Reqs, NEW k \in Keys, NEW e, Issued(r, k, e)
      PROVE  OneTime!SecretNext \/ UNCHANGED <<redeemable, granted>>
  <2>1. CASE Atomic(k)
    <3>1. redeemable' = redeemable \cup {k}
      BY <1>0, <1>2, <2>1 DEF Issued, SetEx
    <3>2. granted' = [granted EXCEPT ![k] = 0]
      BY <1>0, <1>2, <2>1 DEF Issued, SetEx
    <3>3. QED
      BY <3>1, <3>2 DEF OneTime!SecretNext, OneTime!Issue
  <2>2. CASE ~Atomic(k)
    <3>1. redeemable' = redeemable
      BY <1>0, <1>2, <2>2 DEF Issued, SetEx
    <3>2. granted' = granted
      BY <1>0, <1>2, <2>2 DEF Issued, SetEx
    <3>3. QED
      BY <3>1, <3>2
  <2>3. QED
    BY <2>1, <2>2
<1>3. ASSUME NEW r \in Reqs, NEW k \in Keys, NEW e \in Emails, Redeemed(r, k, e)
      PROVE  OneTime!SecretNext \/ UNCHANGED <<redeemable, granted>>
  <2>1. CASE Atomic(k)
    <3>1. redeemable' = redeemable \ {k} /\ k \in redeemable
      BY <1>0, <1>3, <2>1 DEF Redeemed, Taken
    <3>2. granted' = [granted EXCEPT ![k] = @ + 1]
      BY <1>0, <1>3, <2>1 DEF Redeemed, Taken
    <3>3. QED
      BY <3>1, <3>2 DEF OneTime!SecretNext, OneTime!Grant
  <2>2. CASE ~Atomic(k)
    <3>1. redeemable' = redeemable
      BY <1>0, <1>3, <2>2 DEF Redeemed, Taken
    <3>2. granted' = granted
      BY <1>0, <1>3, <2>2 DEF Redeemed, Taken
    <3>3. QED
      BY <3>1, <3>2
  <2>3. QED
    BY <2>1, <2>2
<1>4. ASSUME NEW k \in Keys, Lost(k)
      PROVE  OneTime!SecretNext
  <2>1. redeemable' = redeemable \ {k}
    BY <1>0, <1>4 DEF Lost
  <2>2. granted' = granted
    BY <1>0, <1>4 DEF Lost
  <2>3. QED
    BY <2>1, <2>2 DEF OneTime!SecretNext, OneTime!Lapse
<1>5. ASSUME NEW r \in Reqs, Request(r)
      PROVE  OneTime!SecretNext \/ UNCHANGED <<redeemable, granted>>
  BY <1>1, <1>2, <1>3, <1>5, KeyKinds, RequestSteps DEF GoesOn
<1>6. QED
  BY <1>1, <1>4, <1>5, Steps DEF Crash

\* Where a secret is taken in one command, the services keep the promise of a one-time
\* secret: each step issues one, grants one, loses one or leaves them alone.
THEOREM OneTimeImplemented == Spec => ImplementsOneTimeSecret
<1>1. Init => OneTime!SecretInit
  BY DEF Init, OneTime!SecretInit
<1>2. QED
  BY <1>1, OneTimeStep, UsesInvariant, Typing, PTL DEF Spec, ImplementsOneTimeSecret, OneTime!SecretSpec
==========================================================================
