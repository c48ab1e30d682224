----------------------------- MODULE SessionsProofs -----------------------------
(***************************************************************************)
(* Proofs about Sessions, for any people, tokens and requests, any limit   *)
(* of logins and any number of late answers and crashes.                   *)
(***************************************************************************)
EXTENDS Sessions, FiniteSetTheorems, TLAPS

\* What a request knows, by where it is: whose login or refresh it is, and of a refresh
\* the session whose next token it is about to store.
WellFormed(c) ==
  /\ c \in Call
  /\ c.at # "idle" => c.user \in People
  /\ c.first # NoOne => c.at = "store"

\* The types, with what each request knows.
Typed ==
  /\ SessionsTypeOK
  /\ \A r \in Calls : WellFormed(call[r])

\* The history of the tokens follows the keys of Redis.
TokensTyped ==
  /\ refresh \in [Tokens -> People \cup {NoOne}]
  /\ line \in [Tokens -> Tokens \cup {NoOne}]
  /\ fresh \subseteq Live
  /\ \A t \in Tokens : line[t] = NoOne <=> t \notin Live

\* The frames of the requests.
CallsTyped ==
  /\ call \in [Calls -> Call]
  /\ \A r \in Calls : WellFormed(call[r])

LEMMA TypedParts ==
  Typed <=> /\ TokensTyped /\ CallsTyped /\ sweep \in Sweep
            /\ count \in 0..(MaxCount + 1) /\ window \in BOOLEAN /\ slips \in 0..MaxSlips
BY DEF Typed, SessionsTypeOK, TokensTyped, CallsTyped

LEMMA NoOneIsNone == NoOne \notin People /\ NoOne \notin Tokens
BY SessionsAssumption

\* How a request goes on, and how a token goes and comes.
LEMMA CallGoesOn ==
  ASSUME CallsTyped, NEW r \in Calls, NEW c, WellFormed(c), call' = [call EXCEPT ![r] = c]
  PROVE  CallsTyped' /\ \A q \in Calls : call'[q] = IF q = r THEN c ELSE call[q]
BY DEF CallsTyped, WellFormed

LEMMA TokenGoes ==
  ASSUME TokensTyped, NEW t,
         refresh' = [refresh EXCEPT ![t] = NoOne], line' = [line EXCEPT ![t] = NoOne],
         fresh' = fresh \ {t}
  PROVE  /\ TokensTyped' /\ Live' = Live \ {t}
         /\ \A s \in Live' : refresh'[s] = refresh[s] /\ line'[s] = line[s]
BY NoOneIsNone DEF TokensTyped, Live

LEMMA TokenComes ==
  ASSUME TokensTyped, CallsTyped, NEW r \in Calls, NEW t \in Tokens,
         call[r].at = "store", Drawable(t), Add(r, t)
  PROVE  /\ TokensTyped' /\ Live' = Live \cup {t} /\ t \notin Live
         /\ \A s \in Live : refresh'[s] = refresh[s] /\ line'[s] = line[s]
         /\ line'[t] = IF call[r].first = NoOne THEN t ELSE call[r].first
<1>1. call[r].user \in People /\ call[r].first \in Tokens \cup {NoOne}
  BY DEF CallsTyped, WellFormed, Call
<1>2. t \notin Live
  BY DEF Drawable
<1>3. /\ refresh' \in [Tokens -> People \cup {NoOne}] /\ line' \in [Tokens -> Tokens \cup {NoOne}]
      /\ \A s \in Tokens : refresh'[s] = IF s = t THEN call[r].user ELSE refresh[s]
      /\ \A s \in Tokens : line'[s] = IF s # t THEN line[s]
                                      ELSE IF call[r].first = NoOne THEN t ELSE call[r].first
  BY <1>1 DEF TokensTyped, Add
<1>4. Live' = Live \cup {t}
  BY <1>1, <1>3, NoOneIsNone DEF Live
<1>5. fresh' \subseteq Live'
  BY <1>4 DEF TokensTyped, Add
<1>6. \A s \in Tokens : line'[s] = NoOne <=> s \notin Live'
  BY <1>1, <1>3, <1>4, NoOneIsNone DEF TokensTyped
<1>7. QED
  BY <1>2, <1>3, <1>4, <1>5, <1>6 DEF TokensTyped, Live

\* What a step does to the requests.
LEMMA CallSteps ==
  ASSUME Typed, NEW r \in Calls
  PROVE  /\ WellFormed(NoCall) /\ NoCall.at = "idle" /\ NoCall.first = NoOne
         /\ \A u \in People, at \in {"expire", "verify"} :
              WellFormed([at |-> at, user |-> u, first |-> NoOne])
         /\ \A at \in {"verify", "store"} :
              call[r].at \in {"expire", "verify"} =>
                /\ WellFormed([call[r] EXCEPT !.at = at])
                /\ [call[r] EXCEPT !.at = at].first = NoOne
         /\ \A t \in Live :
              WellFormed([at |-> "store", user |-> refresh[t], first |-> line[t]])
<1>1. call[r] \in Call /\ WellFormed(call[r])
  BY DEF Typed, WellFormed
<1>2. \A t \in Live : refresh[t] \in People /\ line[t] \in Tokens
  BY NoOneIsNone DEF Typed, SessionsTypeOK, Live
<1>3. WellFormed(NoCall) /\ NoCall.at = "idle" /\ NoCall.first = NoOne
  BY DEF WellFormed, NoCall, Call
<1>4. ASSUME NEW at \in {"verify", "store"}, call[r].at \in {"expire", "verify"}
      PROVE  /\ WellFormed([call[r] EXCEPT !.at = at])
             /\ [call[r] EXCEPT !.at = at].first = NoOne
  BY <1>1, <1>4 DEF WellFormed, Call
<1>5. QED
  BY <1>2, <1>3, <1>4 DEF WellFormed, Call

\* What the steps have in common: of the requests one goes on or none, and the tokens
\* stay, one goes, or one comes.
Stays == UNCHANGED <<refresh, line, fresh>>

Goes(t) ==
  /\ refresh' = [refresh EXCEPT ![t] = NoOne]
  /\ line' = [line EXCEPT ![t] = NoOne]
  /\ fresh' = fresh \ {t}

\* A step of a request that leaves the tokens, or takes or stores one.
Waits(r) ==
  \E c : /\ WellFormed(c) /\ c.first = NoOne
         /\ call' = [call EXCEPT ![r] = c] /\ Stays /\ UNCHANGED sweep

Takes(r, t) ==
  \E c : /\ WellFormed(c) /\ c.first = line[t]
         /\ call' = [call EXCEPT ![r] = c] /\ t \in Live /\ Remove(t)

Puts(r, t) ==
  /\ call[r].at = "store" /\ Drawable(t) /\ Add(r, t)
  /\ call' = [call EXCEPT ![r] = NoCall] /\ UNCHANGED sweep

Loses(t) == UNCHANGED call /\ Remove(t)

\* The rest of a step: the counter, its window and the late answers.
CountsTyped == count \in 0..(MaxCount + 1) /\ window \in BOOLEAN /\ slips \in 0..MaxSlips

\* A step of the revocation.
Scans ==
  \/ \E u \in People : ScanBegins(u)
  \/ \E t \in Tokens : ScanReads(t)
  \/ ScanDeletes \/ ScanEnds \/ ScanLeaves

\* Every step is one of these.
LEMMA Steps ==
  ASSUME Typed, [SessionsNext]_sessionsVars
  PROVE  /\ CountsTyped'
         /\ \/ UNCHANGED <<refresh, call, sweep, line, fresh>>
            \/ \E r \in Calls : Waits(r)
            \/ \E r \in Calls, t \in Tokens : Takes(r, t)
            \/ \E r \in Calls, t \in Tokens : Puts(r, t)
            \/ \E t \in Tokens : Loses(t)
            \/ Scans
<1>0. /\ count \in 0..(MaxCount + 1) /\ window \in BOOLEAN /\ slips \in 0..MaxSlips
      /\ MaxCount \in Nat /\ MaxSlips \in Nat
      /\ call \in [Calls -> Call] /\ \A r \in Calls : WellFormed(call[r])
  BY SessionsAssumption DEF Typed, SessionsTypeOK
<1>1. Slip => slips' \in 0..MaxSlips
  BY <1>0 DEF Slip
<1>2. ASSUME NEW r \in Calls, NEW u \in People, NEW n \in 0..(MaxCount + 1), Counted(r, u, n),
             UNCHANGED <<refresh, window, sweep, line, fresh>>, slips' \in 0..MaxSlips
      PROVE  CountsTyped' /\ Waits(r)
  <2>1. CountsTyped'
    BY <1>0, <1>2 DEF CountsTyped, Counted
  <2>2. CASE n > Limit
    <3>1. call' = [call EXCEPT ![r] = NoCall] /\ Stays /\ UNCHANGED sweep
      BY <1>2, <2>2 DEF Counted, Stays
    <3>2. QED
      BY <2>1, <3>1, CallSteps DEF Waits
  <2>3. CASE ~(n > Limit)
    <3> DEFINE c == [at |-> IF n = 1 THEN "expire" ELSE "verify", user |-> u, first |-> NoOne]
    <3>1. call' = [call EXCEPT ![r] = c] /\ Stays /\ UNCHANGED sweep
      BY <1>2, <2>3 DEF Counted, Stays
    <3>2. WellFormed(c) /\ c.first = NoOne
      BY CallSteps
    <3>3. QED
      BY <2>1, <3>1, <3>2 DEF Waits
  <2>4. QED
    BY <2>1, <2>2, <2>3
<1>3. ASSUME NEW r \in Calls, NEW u \in People, Incr(r, u) \/ IncrTwice(r, u)
      PROVE  CountsTyped' /\ Waits(r)
  <2>1. CASE Incr(r, u)
    <3>1. count + 1 \in 0..(MaxCount + 1) /\ slips' \in 0..MaxSlips
      BY <1>0, <2>1 DEF Incr
    <3>2. QED
      BY <1>2, <2>1, <3>1 DEF Incr
  <2>2. CASE IncrTwice(r, u)
    <3>1. count + 2 \in 0..(MaxCount + 1) /\ slips' \in 0..MaxSlips
      BY <1>0, <1>1, <2>2 DEF IncrTwice
    <3>2. QED
      BY <1>2, <2>2, <3>1 DEF IncrTwice
  <2>3. QED
    BY <1>3, <2>1, <2>2
<1>4. ASSUME NEW r \in Calls, SetExpiry(r) \/ Verify(r) \/ Abort(r)
      PROVE  CountsTyped' /\ Waits(r)
  <2>1. CountsTyped'
    <3>1. count' = count /\ slips' \in 0..MaxSlips
      BY <1>0, <1>1, <1>4 DEF SetExpiry, Verify, Abort
    <3>2. window' \in BOOLEAN
      <4>1. CASE SetExpiry(r)
        BY <4>1 DEF SetExpiry
      <4>2. CASE Verify(r) \/ Abort(r)
        BY <1>0, <4>2 DEF Verify, Abort
      <4>3. QED
        BY <1>4, <4>1, <4>2
    <3>3. QED
      BY <1>0, <3>1, <3>2 DEF CountsTyped
  <2>2. \/ /\ call[r].at \in {"expire", "verify"}
           /\ \E at \in {"verify", "store"} : call' = [call EXCEPT ![r].at = at]
        \/ call' = [call EXCEPT ![r] = NoCall]
    BY <1>4 DEF SetExpiry, Verify, Abort
  <2>3. Stays /\ UNCHANGED sweep
    BY <1>4 DEF SetExpiry, Verify, Abort, Stays
  <2>4. ASSUME NEW at \in {"verify", "store"}, call[r].at \in {"expire", "verify"},
               call' = [call EXCEPT ![r].at = at]
        PROVE  Waits(r)
    <3>1. call' = [call EXCEPT ![r] = [call[r] EXCEPT !.at = at]]
      BY <1>0, <2>4
    <3>2. /\ WellFormed([call[r] EXCEPT !.at = at])
          /\ [call[r] EXCEPT !.at = at].first = NoOne
      BY <2>4, CallSteps
    <3>3. QED
      BY <2>3, <3>1, <3>2 DEF Waits
  <2>5. CASE call' = [call EXCEPT ![r] = NoCall]
    BY <2>1, <2>3, <2>5, CallSteps DEF Waits
  <2>6. QED
    BY <2>1, <2>2, <2>4, <2>5
<1>5. ASSUME NEW r \in Calls, NEW t \in Tokens, Rotate(r, t)
      PROVE  CountsTyped' /\ Takes(r, t)
  <2>1. CountsTyped'
    BY <1>0, <1>5 DEF CountsTyped, Rotate
  <2> DEFINE c == [at |-> "store", user |-> refresh[t], first |-> line[t]]
  <2>2. WellFormed(c) /\ c.first = line[t]
    BY <1>5, CallSteps DEF Rotate
  <2>3. call' = [call EXCEPT ![r] = c] /\ t \in Live /\ Remove(t)
    BY <1>5 DEF Rotate, Rotating
  <2>4. QED
    BY <2>1, <2>2, <2>3 DEF Takes
<1>6. ASSUME NEW r \in Calls, NEW t \in Tokens, Store(r, t)
      PROVE  CountsTyped' /\ Puts(r, t)
  BY <1>0, <1>6 DEF CountsTyped, Store, Puts
<1>7. ASSUME NEW t \in Tokens, RotateInVain(t) \/ Revoke(t)
      PROVE  CountsTyped' /\ Loses(t)
  BY <1>0, <1>1, <1>7 DEF CountsTyped, RotateInVain, Revoke, Loses
<1>8. CASE WindowEnds \/ UNCHANGED sessionsVars
  <2>1. UNCHANGED <<refresh, call, sweep, line, fresh, slips>>
    BY <1>8 DEF WindowEnds, sessionsVars
  <2>2. count' \in {0, count}
    BY <1>8 DEF WindowEnds, sessionsVars
  <2>3. CountsTyped'
    <3>1. window' \in BOOLEAN
      BY <1>0, <1>8 DEF WindowEnds, sessionsVars
    <3>2. QED
      BY <1>0, <2>1, <2>2, <3>1 DEF CountsTyped
  <2>4. QED
    BY <2>1, <2>3
<1>9. CASE Scans
  BY <1>0, <1>1, <1>9 DEF CountsTyped, Scans, ScanBegins, ScanReads, ScanDeletes, ScanEnds, ScanLeaves
<1>10. QED
  BY <1>3, <1>4, <1>5, <1>6, <1>7, <1>8, <1>9 DEF SessionsNext, Scans

\* Each step keeps the types.
LEMMA StepTyped == Typed /\ [SessionsNext]_sessionsVars => Typed'
<1> SUFFICES ASSUME Typed, [SessionsNext]_sessionsVars
             PROVE  Typed'
  OBVIOUS
<1>0. TokensTyped /\ CallsTyped /\ sweep \in Sweep /\ CountsTyped'
  BY TypedParts, Steps
<1>1. ASSUME TokensTyped', CallsTyped', sweep' \in Sweep
      PROVE  Typed'
  BY <1>0, <1>1 DEF CountsTyped, Typed, SessionsTypeOK, TokensTyped, CallsTyped
<1>2. ASSUME NEW t, Remove(t)
      PROVE  TokensTyped' /\ sweep' \in Sweep
  <2>1. sweep' \in Sweep
    BY <1>0, <1>2 DEF Remove, Sweep
  <2>2. QED
    BY <1>0, <1>2, <2>1, TokenGoes DEF Remove
<1>3. CASE UNCHANGED <<refresh, call, sweep, line, fresh>>
  <2>1. TokensTyped' /\ CallsTyped' /\ sweep' \in Sweep
    BY <1>0, <1>3 DEF TokensTyped, CallsTyped, WellFormed, Live
  <2>2. QED
    BY <1>1, <2>1
<1>4. ASSUME NEW r \in Calls, Waits(r)
      PROVE  Typed'
  <2>1. CallsTyped' /\ UNCHANGED <<refresh, line, fresh, sweep>>
    BY <1>0, <1>4, CallGoesOn DEF Waits, Stays
  <2>2. TokensTyped'
    BY <1>0, <2>1 DEF TokensTyped, Live
  <2>3. QED
    BY <1>0, <1>1, <2>1, <2>2
<1>5. ASSUME NEW r \in Calls, NEW t \in Tokens, Takes(r, t)
      PROVE  Typed'
  <2>1. CallsTyped' /\ Remove(t)
    BY <1>0, <1>5, CallGoesOn DEF Takes
  <2>2. QED
    BY <1>1, <1>2, <2>1
<1>6. ASSUME NEW r \in Calls, NEW t \in Tokens, Puts(r, t)
      PROVE  Typed'
  <2>1. CallsTyped'
    BY <1>0, <1>6, CallGoesOn, CallSteps DEF Puts
  <2>2. TokensTyped' /\ UNCHANGED sweep
    BY <1>0, <1>6, TokenComes DEF Puts
  <2>3. QED
    BY <1>0, <1>1, <2>1, <2>2
<1>7. ASSUME NEW t \in Tokens, Loses(t)
      PROVE  Typed'
  <2>1. CallsTyped'
    BY <1>0, <1>7 DEF Loses, CallsTyped, WellFormed
  <2>2. QED
    BY <1>1, <1>2, <1>7, <2>1 DEF Loses
<1>8. CASE Scans
  <2>1. CallsTyped'
    BY <1>0, <1>8
       DEF Scans, ScanBegins, ScanReads, ScanDeletes, ScanEnds, ScanLeaves, CallsTyped, WellFormed
  <2>2. CASE ScanDeletes
    <3>1. sweep' \in Sweep
      BY <1>0, <2>2 DEF ScanDeletes, Sweep
    <3>2. TokensTyped'
      BY <1>0, <2>2, TokenGoes DEF ScanDeletes
    <3>3. QED
      BY <1>1, <2>1, <3>1, <3>2
  <2>3. ASSUME Scans, ~ScanDeletes
        PROVE  TokensTyped'
    <3>1. UNCHANGED <<refresh, line>> /\ fresh' \in {fresh, {}}
      BY <2>3 DEF Scans, ScanBegins, ScanReads, ScanEnds, ScanLeaves
    <3>2. QED
      BY <1>0, <3>1 DEF TokensTyped, Live
  <2>4. ASSUME NEW u \in People, ScanBegins(u)
        PROVE  sweep' \in Sweep
    BY <1>0, <2>4 DEF ScanBegins, Sweep, Live
  <2>5. ASSUME NEW t \in Tokens, ScanReads(t)
        PROVE  sweep' \in Sweep
    BY <1>0, <2>5 DEF ScanReads, Sweep
  <2>6. CASE ScanEnds
    BY <1>0, <1>1, <1>8, <2>1, <2>3, <2>2, <2>6 DEF ScanEnds, Sweep
  <2>7. CASE ScanLeaves
    <3>1. sweep' \in Sweep
      BY <2>7 DEF ScanLeaves, NoSweep, Sweep
    <3>2. QED
      BY <1>1, <1>8, <2>1, <2>2, <2>3, <3>1
  <2>8. QED
    BY <1>1, <1>8, <2>1, <2>2, <2>3, <2>4, <2>5, <2>6, <2>7 DEF Scans
<1>9. QED
  BY <1>3, <1>4, <1>5, <1>6, <1>7, <1>8, Steps

LEMMA Typing == SessionsSpec => []Typed
<1>1. SessionsInit => Typed
  <2> SUFFICES ASSUME SessionsInit
               PROVE  Typed
    OBVIOUS
  <2>1. Live = {}
    BY DEF SessionsInit, Live
  <2>2. TokensTyped /\ sweep \in Sweep
    BY <2>1 DEF SessionsInit, TokensTyped, Sweep, NoSweep
  <2>3. CallsTyped
    BY DEF SessionsInit, CallsTyped, WellFormed, Call, NoCall
  <2>4. count \in 0..(MaxCount + 1) /\ slips \in 0..MaxSlips
    BY SessionsAssumption DEF SessionsInit
  <2>5. window \in BOOLEAN
    BY DEF SessionsInit
  <2>6. QED
    BY <2>2, <2>3, <2>4, <2>5, TypedParts
<1>2. QED
  BY <1>1, StepTyped, PTL DEF SessionsSpec

\* The keys, counters, requests and scans are well typed.
THEOREM SessionsTypesHold == SessionsSpec => []SessionsTypeOK
<1>1. Typed => SessionsTypeOK
  BY DEF Typed
<1>2. QED
  BY <1>1, Typing, PTL

\* A session has one token, or a request that is about to store the next, not both.
Storing(r, s) == call[r].at = "store" /\ call[r].first = s

OneHolder ==
  /\ \A t, u \in Live : line[t] = line[u] => t = u
  /\ \A r, q \in Calls : \A s \in Tokens : Storing(r, s) /\ Storing(q, s) => r = q
  /\ \A t \in Live, r \in Calls : ~Storing(r, line[t])

\* A refresh takes the old token in the step that makes it the one to store the next.
LEMMA HolderStep == Typed /\ OneHolder /\ [SessionsNext]_sessionsVars => OneHolder'
<1> SUFFICES ASSUME Typed, OneHolder, [SessionsNext]_sessionsVars
             PROVE  OneHolder'
  OBVIOUS
<1>0. TokensTyped /\ CallsTyped
  BY TypedParts
<1>a. NoOne \notin Tokens /\ \A t \in Live : t \in Tokens /\ line[t] \in Tokens
  BY <1>0, NoOneIsNone DEF TokensTyped, Live
\* Where tokens go and requests store nothing more there is nothing to show.
<1>1. ASSUME Live' \subseteq Live, \A t \in Live' : line'[t] = line[t],
             \A r \in Calls, s \in Tokens : Storing(r, s)' => Storing(r, s)
      PROVE  OneHolder'
  BY <1>1, <1>a DEF OneHolder, Storing
<1>2. CASE UNCHANGED <<refresh, call, sweep, line, fresh>>
  BY <1>1, <1>2 DEF Live, Storing
<1>3. ASSUME NEW r \in Calls, Waits(r)
      PROVE  OneHolder'
  <2>1. PICK c : c.first = NoOne /\ WellFormed(c) /\ call' = [call EXCEPT ![r] = c]
    BY <1>3 DEF Waits
  <2>2. \A q \in Calls : call'[q] = IF q = r THEN c ELSE call[q]
    BY <1>0, <2>1, CallGoesOn
  <2>3. \A q \in Calls, s \in Tokens : Storing(q, s)' => Storing(q, s)
    BY <1>a, <2>1, <2>2 DEF Storing
  <2>4. QED
    BY <1>1, <1>3, <2>3 DEF Waits, Stays, Live
\* The token that a request takes is the only one of its session.
<1>4. ASSUME NEW r \in Calls, NEW t \in Tokens, Takes(r, t)
      PROVE  OneHolder'
  <2>1. PICK c : c.first = line[t] /\ WellFormed(c) /\ call' = [call EXCEPT ![r] = c]
    BY <1>4 DEF Takes
  <2>2. t \in Live /\ Live' = Live \ {t} /\ \A s \in Live' : line'[s] = line[s]
    BY <1>0, <1>4, TokenGoes DEF Takes, Remove
  <2>3. \A q \in Calls : call'[q] = IF q = r THEN c ELSE call[q]
    BY <1>0, <2>1, CallGoesOn, ZenonT(30)
  <2>4. \A q \in Calls, s \in Tokens : Storing(q, s)' => Storing(q, s) \/ (q = r /\ s = line[t])
    BY <2>1, <2>3 DEF Storing
  <2>5. \A q \in Calls : ~Storing(q, line[t])
    BY <2>2 DEF OneHolder
  <2>6. \A s, u \in Live' : line'[s] = line'[u] => s = u
    BY <2>2 DEF OneHolder
  <2>7. \A q, p \in Calls : \A s \in Tokens : Storing(q, s)' /\ Storing(p, s)' => q = p
    BY <2>4, <2>5 DEF OneHolder
  <2>8. \A s \in Live', q \in Calls : ~Storing(q, line[s])'
    BY <1>a, <2>2, <2>4 DEF OneHolder, Storing
  <2>9. QED
    BY <2>2, <2>6, <2>7, <2>8 DEF OneHolder, Storing
\* The token that is stored is the session's next, or the first of a new one.
<1>5. ASSUME NEW r \in Calls, NEW t \in Tokens, Puts(r, t)
      PROVE  OneHolder'
  <2>0. PICK s : s = IF call[r].first = NoOne THEN t ELSE call[r].first
    OBVIOUS
  <2>1. /\ Live' = Live \cup {t} /\ t \notin Live
        /\ \A u \in Live : line'[u] = line[u]
        /\ line'[t] = s
    BY <1>0, <1>5, <2>0, TokenComes DEF Puts
  <2>2. \A q \in Calls : call'[q] = IF q = r THEN NoCall ELSE call[q]
    BY <1>0, <1>5, CallGoesOn, CallSteps DEF Puts
  <2>3. \A q \in Calls, u \in Tokens : Storing(q, u)' => Storing(q, u) /\ q # r
    BY <2>2, CallSteps DEF Storing
  <2>4. s \in Tokens /\ \A u \in Live : line[u] # s
    <3>1. CASE call[r].first = NoOne
      BY <1>5, <2>0, <3>1 DEF Puts, Drawable
    <3>2. CASE call[r].first # NoOne
      BY <1>0, <1>5, <2>0, <3>2 DEF Puts, OneHolder, Storing, CallsTyped, Call
    <3>3. QED
      BY <3>1, <3>2
  <2>5. \A q \in Calls : ~Storing(q, s)'
    <3>1. CASE call[r].first = NoOne
      BY <1>5, <2>0, <2>3, <3>1 DEF Puts, Drawable, Storing
    <3>2. CASE call[r].first # NoOne
      BY <1>5, <2>0, <2>3, <2>4, <3>2 DEF Puts, OneHolder, Storing
    <3>3. QED
      BY <3>1, <3>2
  <2>6. \A u, v \in Live' : line'[u] = line'[v] => u = v
    BY <2>1, <2>4 DEF OneHolder
  <2>7. \A u \in Live', q \in Calls : ~Storing(q, line[u])'
    BY <1>a, <2>1, <2>3, <2>5 DEF OneHolder, Storing
  <2>8. QED
    BY <2>3, <2>6, <2>7 DEF OneHolder
<1>6. ASSUME NEW t \in Tokens, Loses(t)
      PROVE  OneHolder'
  <2>1. Live' = Live \ {t} /\ \A s \in Live' : line'[s] = line[s]
    BY <1>0, <1>6, TokenGoes DEF Loses, Remove
  <2>2. QED
    BY <1>1, <1>6, <2>1 DEF Loses, Storing
<1>7. CASE Scans
  <2>1. UNCHANGED call
    BY <1>7 DEF Scans, ScanBegins, ScanReads, ScanDeletes, ScanEnds, ScanLeaves
  <2>2. CASE ScanDeletes
    BY <1>0, <1>1, <2>1, <2>2, TokenGoes DEF ScanDeletes, Storing
  <2>3. CASE ~ScanDeletes
    <3>1. UNCHANGED <<refresh, line>>
      BY <1>7, <2>3 DEF Scans, ScanBegins, ScanReads, ScanEnds, ScanLeaves
    <3>2. QED
      BY <1>1, <2>1, <3>1 DEF Live, Storing
  <2>4. QED
    BY <2>2, <2>3
<1>8. QED
  BY <1>2, <1>3, <1>4, <1>5, <1>6, <1>7, Steps

\* A set without two elements has one at most.
LEMMA NoTwo ==
  ASSUME NEW S, \A x, y \in S : x = y
  PROVE  Cardinality(S) = IF S = {} THEN 0 ELSE 1
<1>1. CASE S = {}
  BY <1>1, FS_EmptySet
<1>2. CASE S # {}
  <2>1. PICK x : S = {x}
    BY <1>2
  <2>2. QED
    BY <2>1, FS_Singleton
<1>3. QED
  BY <1>1, <1>2

\* rotate_token consumes a token in one command, so that a session has one at most, whatever
\* refreshes with it overlap.
THEOREM OneTokenHolds == SessionsSpec => []OneTokenPerSession
<1>1. SessionsInit => OneHolder
  BY DEF SessionsInit, OneHolder, Storing, Live, NoCall
<1>2. OneHolder => OneTokenPerSession
  <2> SUFFICES ASSUME OneHolder, NEW s \in Tokens
               PROVE  Cardinality({t \in Live : line[t] = s}) +
                        Cardinality({r \in Calls : call[r].at = "store" /\ call[r].first = s}) <= 1
    BY DEF OneTokenPerSession
  <2> DEFINE H == {t \in Live : line[t] = s}
             G == {r \in Calls : call[r].at = "store" /\ call[r].first = s}
  <2>1. Cardinality(H) = IF H = {} THEN 0 ELSE 1
    BY NoTwo DEF OneHolder
  <2>2. Cardinality(G) = IF G = {} THEN 0 ELSE 1
    <3>1. \A r, q \in G : r = q
      BY DEF OneHolder, Storing
    <3>2. QED
      BY <3>1, NoTwo
  <2>3. H = {} \/ G = {}
    BY DEF OneHolder, Storing
  <2> HIDE DEF H, G
  <2>4. Cardinality(H) + Cardinality(G) <= 1
    BY <2>1, <2>2, <2>3
  <2>5. QED
    BY <2>4 DEF H, G
<1>3. QED
  BY <1>1, <1>2, HolderStep, Typing, PTL DEF SessionsSpec

\* While the scan runs, a token of its user is yet to be returned, is being deleted, or
\* has been stored since the scan began.
Sweeping ==
  /\ sweep.at # "off" => \A t \in Live : refresh[t] = sweep.user =>
                            t \in fresh \/ t \in sweep.due \/ t = sweep.key
  /\ sweep.at = "done" => sweep.due = {} /\ sweep.key = NoOne

\* A token that is stored while the scan runs is fresh; the scan returns all others.
LEMMA SweepStep == Typed /\ Sweeping /\ [SessionsNext]_sessionsVars => Sweeping'
<1> SUFFICES ASSUME Typed, Sweeping, [SessionsNext]_sessionsVars
             PROVE  Sweeping'
  OBVIOUS
<1>0. TokensTyped /\ CallsTyped /\ sweep \in Sweep
  BY TypedParts
<1>1. ASSUME UNCHANGED <<refresh, line, fresh, sweep>>
      PROVE  Sweeping'
  BY <1>1 DEF Sweeping, Live
<1>2. ASSUME NEW t \in Tokens, Remove(t)
      PROVE  Sweeping'
  <2>1. Live' = Live \ {t} /\ \A s \in Live' : refresh'[s] = refresh[s]
    BY <1>0, <1>2, TokenGoes DEF Remove
  <2>2. /\ sweep'.at = sweep.at /\ sweep'.user = sweep.user /\ sweep'.key = sweep.key
        /\ sweep'.due = sweep.due \ {t} /\ fresh' = fresh \ {t}
    BY <1>0, <1>2 DEF Remove, Sweep
  <2>3. QED
    BY <2>1, <2>2 DEF Sweeping
<1>3. ASSUME NEW r \in Calls, NEW t \in Tokens, Puts(r, t)
      PROVE  Sweeping'
  <2>1. Live' = Live \cup {t} /\ t \notin Live /\ \A s \in Live : refresh'[s] = refresh[s]
    BY <1>0, <1>3, TokenComes DEF Puts
  <2>2. UNCHANGED sweep /\ fresh' = IF sweep.at = "off" THEN fresh ELSE fresh \cup {t}
    BY <1>3 DEF Puts, Add
  <2>3. QED
    BY <2>1, <2>2 DEF Sweeping
<1>4. CASE Scans
  <2>1. ASSUME NEW u \in People, ScanBegins(u)
        PROVE  Sweeping'
    BY <2>1 DEF ScanBegins, Sweeping, Live
  <2>2. ASSUME NEW t \in Tokens, ScanReads(t)
        PROVE  Sweeping'
    <3>1. /\ sweep'.at = "scan" /\ sweep'.user = sweep.user /\ sweep'.due = sweep.due \ {t}
          /\ sweep'.key = IF refresh[t] = sweep.user THEN t ELSE NoOne
      BY <1>0, <2>2 DEF ScanReads, Sweep
    <3>2. sweep.at = "scan" /\ sweep.key = NoOne /\ UNCHANGED <<refresh, fresh>>
      BY <2>2 DEF ScanReads
    <3>3. \A s \in Live : s # NoOne
      BY NoOneIsNone DEF Live
    <3>4. QED
      BY <3>1, <3>2, <3>3 DEF Sweeping, Live
  <2>3. CASE ScanDeletes
    <3>1. /\ Live' = Live \ {sweep.key} /\ \A s \in Live' : refresh'[s] = refresh[s]
          /\ fresh' = fresh \ {sweep.key}
      BY <1>0, <2>3, TokenGoes DEF ScanDeletes
    <3>2. /\ sweep'.at = "scan" /\ sweep'.user = sweep.user /\ sweep'.due = sweep.due
          /\ sweep.at = "scan"
      BY <1>0, <2>3 DEF ScanDeletes, Sweep
    <3>3. QED
      BY <3>1, <3>2 DEF Sweeping
  <2>4. CASE ScanEnds
    <3>1. /\ sweep'.at = "done" /\ sweep'.user = sweep.user /\ sweep'.due = sweep.due
          /\ sweep'.key = sweep.key
      BY <1>0, <2>4 DEF ScanEnds, Sweep
    <3>2. QED
      BY <2>4, <3>1 DEF ScanEnds, Sweeping, Live
  <2>5. CASE ScanLeaves
    BY <2>5 DEF ScanLeaves, NoSweep, Sweeping
  <2>6. QED
    BY <1>4, <2>1, <2>2, <2>3, <2>4, <2>5 DEF Scans
<1>5. QED
  BY <1>1, <1>2, <1>3, <1>4, Steps DEF Waits, Stays, Takes, Loses

\* When revoke_user_sessions has answered, what is left of the user's tokens was stored
\* after its SCAN began.
THEOREM RevocationHolds == SessionsSpec => []RevocationSweeps
<1>1. SessionsInit => Sweeping
  BY DEF SessionsInit, NoSweep, Sweeping
<1>2. Typed /\ Sweeping => RevocationSweeps
  BY NoOneIsNone DEF Sweeping, RevocationSweeps, Live
<1>3. QED
  BY <1>1, <1>2, SweepStep, Typing, PTL DEF SessionsSpec
===========================================================================
