--------------------------- MODULE VaultAccessProofs ---------------------------
(***************************************************************************)
(* Proofs about VaultAccess and Biometrics, for any users, roles and       *)
(* enrollers and any number of requests and of vaults.                     *)
(***************************************************************************)
EXTENDS Biometrics, FiniteSetTheorems, TLAPS

\* What a request knows, by where it is: whose it is and for which vault, and from
\* its first statement on the member it is about.
WellFormed(f) ==
  /\ f \in Frame
  /\ f.at \in {"idle", "failed"} <=> f.kind = "none"
  /\ f.kind # "none" => f.user \in Users /\ f.id # 0
  /\ f.at \in {"select", "role"} => f.kind \in {"view", "pin", "unlock"}
  /\ f.at \in {"lookup", "insert", "update", "refresh", "delete"} => f.target \in Users
  /\ f.at \in {"lookup", "insert", "update"} => f.role \in Roles
  /\ f.gone => f.at = "refresh"

\* The same of all requests, whose vaults exist or have existed.
ReqsTyped ==
  /\ req \in [Reqs -> Frame]
  /\ \A r \in Reqs : WellFormed(req[r]) /\ req[r].id <= issued

\* The tables: a vault has an owner, and no vault no members.
RowsTyped ==
  /\ vault \in [id : 0..issued, owner : Users \cup {None}, reset : BOOLEAN]
  /\ issued \in Nat
  /\ roles \in [Users -> Grants \cup {None}]
  /\ vault.id # 0 => vault.owner \in Users
  /\ vault.id = 0 => vault = NoVault /\ \A u \in Users : roles[u] = None

\* The history variables: the owner of the vault is one of those who have owned it.
HistoryTyped ==
  /\ owned \subseteq Users /\ may \subseteq Reqs /\ crossed \subseteq Reqs
  /\ vault.id # 0 => vault.owner \in owned

Typed == RowsTyped /\ ReqsTyped /\ HistoryTyped

\* The frames that requests start from and fail with.
LEMMA IdleWellFormed ==
  /\ Idle \in Frame /\ WellFormed(Idle) /\ Idle.id = 0 /\ ~Idle.gone
  /\ WellFormed([Idle EXCEPT !.at = "failed"]) /\ [Idle EXCEPT !.at = "failed"].id = 0
<1>1. WellFormed(Idle) /\ Idle.id = 0 /\ ~Idle.gone
  BY DEF WellFormed, Idle, Frame
<1>2. QED
  BY <1>1 DEF WellFormed, Frame, Idle

\* A request that goes on as a well-formed frame leaves all of them well formed.
LEMMA BecomeWellFormed ==
  ASSUME ReqsTyped, issued \in Nat, issued' \in Nat, issued' >= issued,
         NEW r \in Reqs, NEW f, WellFormed(f), f.id <= issued', Become(r, f)
  PROVE  ReqsTyped'
<1>1. \A p \in Reqs : req'[p] = IF p = r THEN f ELSE req[p]
  BY DEF ReqsTyped, Become
<1>2. f \in Frame /\ \A p \in Reqs : req[p] \in Frame
  BY DEF ReqsTyped, WellFormed
<1>3. req' \in [Reqs -> Frame]
  BY <1>2 DEF ReqsTyped, Become
<1>4. ASSUME NEW p \in Reqs
      PROVE  WellFormed(req'[p]) /\ req'[p].id <= issued'
  BY <1>1, <1>2 DEF ReqsTyped, Frame
<1>5. QED
  BY <1>3, <1>4 DEF ReqsTyped, WellFormed

\* Telling a request that its row has gone changes nothing else of it.
LEMMA GoneWellFormed ==
  ASSUME NEW f, WellFormed(f), f.at = "refresh"
  PROVE  /\ WellFormed([f EXCEPT !.gone = TRUE])
         /\ [f EXCEPT !.gone = TRUE].id = f.id
BY DEF WellFormed, Frame

\* What a request may go on as, when nothing but itself changes.
LEMMA GotoWellFormed ==
  ASSUME ReqsTyped, NEW r \in Reqs
  PROVE  /\ req[r].at \in {"select", "role"} =>
              \A at \in {"serve", "role"} :
                LET f == [req[r] EXCEPT !.at = at] IN WellFormed(f) /\ f.id = req[r].id
         /\ req[r].at = "lookup" =>
              \A at \in {"insert", "update"} :
                LET f == [req[r] EXCEPT !.at = at] IN WellFormed(f) /\ f.id = req[r].id
         /\ req[r].at \in {"insert", "update"} =>
              LET f == [req[r] EXCEPT !.at = "refresh", !.role = None] IN
              WellFormed(f) /\ f.id = req[r].id
<1>1. WellFormed(req[r]) /\ req[r] \in Frame
  BY DEF ReqsTyped, WellFormed
<1>2. ASSUME req[r].at \in {"select", "role"}, NEW at \in {"serve", "role"}
      PROVE  LET f == [req[r] EXCEPT !.at = at] IN WellFormed(f) /\ f.id = req[r].id
  BY <1>1, <1>2 DEF WellFormed, Frame
<1>3. ASSUME req[r].at = "lookup", NEW at \in {"insert", "update"}
      PROVE  LET f == [req[r] EXCEPT !.at = at] IN WellFormed(f) /\ f.id = req[r].id
  BY <1>1, <1>3 DEF WellFormed, Frame
<1>4. ASSUME req[r].at \in {"insert", "update"}
      PROVE  LET f == [req[r] EXCEPT !.at = "refresh", !.role = None] IN
             WellFormed(f) /\ f.id = req[r].id
  BY <1>1, <1>4 DEF WellFormed, Frame
<1>5. QED
  BY <1>2, <1>3, <1>4

\* The history follows the rows.
LEMMA HistoryFollows ==
  ASSUME HistoryTyped, RowsTyped', Remember
  PROVE  HistoryTyped'
<1>1. owned' \subseteq Users /\ (vault'.id # 0 => vault'.owner \in owned')
  BY DEF HistoryTyped, RowsTyped, Remember
<1>2. may' \subseteq Reqs /\ crossed' \subseteq Reqs
  BY DEF Remember
<1>3. QED
  BY <1>1, <1>2 DEF HistoryTyped

\* The steps of a request that leave the tables alone, and how it goes on.
OnlyBecomes(r) ==
  /\ UNCHANGED <<vault, issued, roles>>
  /\ \E f : WellFormed(f) /\ f.id <= issued /\ Become(r, f)

\* A request that is over or fails only becomes another frame.
LEMMA EndsWellFormed ==
  ASSUME Typed, NEW r \in Reqs, UNCHANGED <<vault, issued, roles>>, Finish(r) \/ Abort(r)
  PROVE  OnlyBecomes(r)
<1>1. 0 <= issued
  BY DEF Typed, RowsTyped
<1>2. QED
  BY <1>1, IdleWellFormed DEF Finish, Abort, OnlyBecomes

\* Every statement that writes nothing leads from a well-formed frame to another.
LEMMA ReadsWellFormed ==
  ASSUME Typed, NEW r \in Reqs,
         \/ \E u \in Users, kind \in {"view", "pin", "unlock"} : Begin(r, kind, u)
         \/ \E u, target \in Users, role \in Roles : Add(r, u, target, role)
         \/ \E u, target \in Users : Remove(r, u, target)
         \/ SelectVault(r) \/ CheckRole(r) \/ Serve(r) \/ SendCommand(r)
         \/ Lookup(r) \/ Refresh(r) \/ Fail(r)
  PROVE  OnlyBecomes(r)
<1> USE DEF Typed
<1>0. vault.id \in Nat /\ vault.id <= issued /\ issued \in Nat /\ req[r].id <= issued
  BY DEF RowsTyped, ReqsTyped
<1>1. ASSUME NEW u \in Users, NEW kind \in {"view", "pin", "unlock"}, Begin(r, kind, u)
      PROVE  OnlyBecomes(r)
  <2> DEFINE f == [Idle EXCEPT !.at = IF kind = "unlock" THEN "select"
                                      ELSE IF u = vault.owner THEN "serve" ELSE "role",
                               !.kind = kind, !.user = u, !.id = vault.id]
  <2>1. f \in Frame
    BY <1>0, IdleWellFormed DEF Frame
  <2>2. /\ f.at \in {"select", "serve", "role"} /\ (f.at = "select" => kind = "unlock")
        /\ f.kind = kind /\ f.user = u /\ f.id = vault.id /\ ~f.gone
    BY IdleWellFormed DEF Frame
  <2> HIDE DEF f
  <2>3. WellFormed(f) /\ f.id <= issued
    BY <1>0, <1>1, <2>1, <2>2 DEF Begin, WellFormed
  <2>4. Become(r, f) /\ UNCHANGED <<vault, issued, roles>>
    BY <1>1 DEF Begin, f
  <2>5. QED
    BY <2>3, <2>4 DEF OnlyBecomes
<1>2. ASSUME NEW u \in Users, NEW target \in Users, NEW role \in Roles, Add(r, u, target, role)
      PROVE  OnlyBecomes(r)
  <2> DEFINE f == [Idle EXCEPT !.at = "lookup", !.kind = "add", !.user = u, !.id = vault.id,
                               !.target = target, !.role = role]
  <2>1. f \in Frame
    BY <1>0, IdleWellFormed DEF Frame
  <2>2. f.at = "lookup" /\ f.kind = "add" /\ f.user = u /\ f.id = vault.id /\ f.target = target
        /\ f.role = role /\ ~f.gone
    BY IdleWellFormed DEF Frame
  <2> HIDE DEF f
  <2>3. WellFormed(f) /\ f.id <= issued
    BY <1>0, <1>2, <2>1, <2>2 DEF Add, Manages, WellFormed
  <2>4. Become(r, f) /\ UNCHANGED <<vault, issued, roles>>
    BY <1>2 DEF Add, f
  <2>5. QED
    BY <2>3, <2>4 DEF OnlyBecomes
<1>3. ASSUME NEW u \in Users, NEW target \in Users, Remove(r, u, target)
      PROVE  OnlyBecomes(r)
  <2> DEFINE f == [Idle EXCEPT !.at = "delete", !.kind = "remove", !.user = u, !.id = vault.id,
                               !.target = target]
  <2>1. f \in Frame
    BY <1>0, IdleWellFormed DEF Frame
  <2>2. f.at = "delete" /\ f.kind = "remove" /\ f.user = u /\ f.id = vault.id
        /\ f.target = target /\ ~f.gone
    BY IdleWellFormed DEF Frame
  <2> HIDE DEF f
  <2>3. WellFormed(f) /\ f.id <= issued
    BY <1>0, <1>3, <2>1, <2>2 DEF Remove, Manages, WellFormed
  <2>4. Become(r, f) /\ UNCHANGED <<vault, issued, roles>>
    BY <1>3 DEF Remove, f
  <2>5. QED
    BY <2>3, <2>4 DEF OnlyBecomes
<1>4. CASE SelectVault(r) \/ CheckRole(r) \/ Lookup(r)
  BY <1>0, <1>4, EndsWellFormed, GotoWellFormed
     DEF SelectVault, CheckRole, Lookup, Goto, OnlyBecomes
<1>5. CASE Serve(r) \/ SendCommand(r) \/ Refresh(r) \/ Fail(r)
  BY <1>5, EndsWellFormed DEF Serve, SendCommand, Refresh, Fail
<1>6. QED
  BY <1>1, <1>2, <1>3, <1>4, <1>5

\* No statement leaves a request, a row or the history ill formed.
LEMMA StepTyped == Typed /\ [Next]_vars => Typed'
<1> SUFFICES ASSUME Typed, [Next]_vars
             PROVE  Typed'
  OBVIOUS
<1>0. RowsTyped /\ ReqsTyped /\ HistoryTyped
  BY DEF Typed
<1>1. ASSUME NEW r \in Reqs, OnlyBecomes(r)
      PROVE  RowsTyped' /\ ReqsTyped'
  <2>1. PICK f : WellFormed(f) /\ f.id <= issued /\ Become(r, f)
    BY <1>1 DEF OnlyBecomes
  <2>2. issued \in Nat /\ issued' = issued
    BY <1>0, <1>1 DEF RowsTyped, OnlyBecomes
  <2>3. ReqsTyped'
    BY <1>0, <2>1, <2>2, BecomeWellFormed
  <2>4. QED
    BY <1>0, <1>1, <2>3 DEF RowsTyped, OnlyBecomes
<1>2. ASSUME NEW r \in Reqs, Insert(r) \/ UpdateRole(r)
      PROVE  RowsTyped' /\ ReqsTyped'
  <2> DEFINE f == [req[r] EXCEPT !.at = "refresh", !.role = None]
             t == req[r].target
  <2>1. /\ WellFormed(req[r]) /\ t \in Users /\ req[r].role \in Roles /\ req[r].user \in Users
        /\ req[r].id # 0 /\ WellFormed(f) /\ f.id <= issued /\ issued \in Nat
    BY <1>0, <1>2, GotoWellFormed DEF ReqsTyped, RowsTyped, WellFormed, Insert, UpdateRole
  <2> HIDE DEF f
  <2>2. CASE Abort(r) /\ UNCHANGED <<vault, issued, roles>>
    BY <1>1, <2>2, EndsWellFormed
  <2>3. CASE /\ Become(r, f) /\ req[r].id = vault.id /\ UNCHANGED <<vault, issued>>
             /\ \E g \in Grants : roles' = [roles EXCEPT ![t] = g]
    <3>1. ReqsTyped'
      BY <1>0, <2>1, <2>3, BecomeWellFormed
    <3>2. RowsTyped'
      BY <1>0, <2>1, <2>3 DEF RowsTyped
    <3>3. QED
      BY <3>1, <3>2
  <2>4. CASE Insert(r)
    <3>1. [role |-> req[r].role, by |-> req[r].user] \in Grants
      BY <2>1 DEF Grants
    <3>2. QED
      BY <2>2, <2>3, <2>4, <3>1 DEF Insert, f
  <2>5. CASE UpdateRole(r)
    <3>1. CASE Row(r) = None
      BY <2>2, <2>5, <3>1 DEF UpdateRole
    <3>2. CASE Row(r) # None
      <4>1. req[r].id = vault.id /\ roles[t] \in Grants
        BY <1>0, <2>1, <3>2 DEF Row, RowsTyped
      <4>2. [roles[t] EXCEPT !.role = req[r].role] \in Grants
        BY <2>1, <4>1 DEF Grants
      <4>3. QED
        BY <2>3, <2>5, <3>2, <4>1, <4>2 DEF UpdateRole, f
    <3>3. QED
      BY <3>1, <3>2
  <2>6. QED
    BY <1>2, <2>4, <2>5
<1>3. ASSUME NEW r \in Reqs, DeleteRole(r)
      PROVE  RowsTyped' /\ ReqsTyped'
  <2>1. CASE Finish(r) /\ UNCHANGED <<vault, issued, roles>>
    BY <1>1, <2>1, EndsWellFormed
  <2>2. CASE Deleted(r, Idle, {req[r].target}) /\ roles' = [roles EXCEPT ![req[r].target] = None]
    <3>1. \A p \in Reqs : req'[p] = IF p = r THEN Idle
             ELSE IF Written(p, {req[r].target}) THEN [req[p] EXCEPT !.gone = TRUE] ELSE req[p]
      BY <2>2 DEF Deleted
    <3>2. ASSUME NEW p \in Reqs
          PROVE  WellFormed(req'[p]) /\ req'[p].id <= issued
      <4>1. WellFormed(req[p]) /\ req[p].id <= issued /\ 0 <= issued
        BY <1>0 DEF ReqsTyped, RowsTyped
      <4>2. QED
        BY <3>1, <4>1, IdleWellFormed, GoneWellFormed DEF Written
    <3>3. ReqsTyped'
      BY <1>3, <2>2, <3>2 DEF ReqsTyped, WellFormed, DeleteRole, Deleted
    <3>4. RowsTyped'
      BY <1>0, <1>3, <2>2 DEF RowsTyped, DeleteRole
    <3>5. QED
      BY <3>3, <3>4
  <2>3. QED
    BY <1>3, <2>1, <2>2 DEF DeleteRole
<1>4. ASSUME DeleteVault
      PROVE  RowsTyped' /\ ReqsTyped'
  <2>1. \A p \in Reqs :
          req'[p] = IF Written(p, Users) THEN [req[p] EXCEPT !.gone = TRUE] ELSE req[p]
    BY <1>4 DEF DeleteVault
  <2>2. ASSUME NEW p \in Reqs
        PROVE  WellFormed(req'[p]) /\ req'[p].id <= issued
    <3>1. WellFormed(req[p]) /\ req[p].id <= issued
      BY <1>0 DEF ReqsTyped
    <3>2. QED
      BY <2>1, <3>1, GoneWellFormed DEF Written
  <2>3. ReqsTyped'
    BY <1>4, <2>2 DEF ReqsTyped, WellFormed, DeleteVault
  <2>4. RowsTyped'
    BY <1>0, <1>4 DEF RowsTyped, DeleteVault, NoVault
  <2>5. QED
    BY <2>3, <2>4
<1>5. ASSUME \/ \E u \in Users : Register(u) \/ \E reset \in BOOLEAN : SaveOutdated(u, reset)
             \/ ResetVault
             \/ UNCHANGED vars
      PROVE  RowsTyped' /\ ReqsTyped'
  <2>0. vault.id \in Nat /\ vault.id <= issued /\ issued \in Nat
    BY <1>0 DEF RowsTyped
  <2>1. RowsTyped' /\ req' = req /\ issued' \in Nat /\ issued <= issued'
    <3>1. CASE \E u \in Users : /\ vault.id = 0 /\ issued' = issued + 1 /\ UNCHANGED <<roles, req>>
                               /\ vault' = [id |-> issued + 1, owner |-> u, reset |-> FALSE]
      BY <1>0, <2>0, <3>1 DEF RowsTyped
    <3>2. CASE /\ vault.id # 0 /\ UNCHANGED <<issued, roles, req>>
               /\ vault' \in [id : 0..issued, owner : Users \cup {None}, reset : BOOLEAN]
               /\ vault'.id = vault.id /\ vault'.owner \in Users
      BY <1>0, <2>0, <3>2 DEF RowsTyped
    <3>3. CASE UNCHANGED vars
      BY <1>0, <2>0, <3>3 DEF RowsTyped, vars
    <3>4. CASE \E u \in Users : Register(u)
      <4>1. PICK u \in Users : Register(u)
        BY <3>4
      <4>2. CASE vault.id = 0 /\ ~vault.reset
        BY <3>1, <4>1, <4>2 DEF Register
      <4>3. CASE vault.id # 0
        BY <1>0, <3>2, <4>1, <4>3 DEF Register, RowsTyped
      <4>4. vault.id = 0 => ~vault.reset
        BY <1>0 DEF RowsTyped, NoVault
      <4>5. QED
        BY <4>2, <4>3, <4>4
    <3>5. CASE ResetVault \/ \E u \in Users, reset \in BOOLEAN : SaveOutdated(u, reset)
      BY <1>0, <3>2, <3>5 DEF ResetVault, SaveOutdated, RowsTyped
    <3>6. QED
      BY <1>5, <3>3, <3>4, <3>5
  <2>3. ReqsTyped'
    BY <1>0, <2>0, <2>1 DEF ReqsTyped, WellFormed, Frame
  <2>4. QED
    BY <2>1, <2>3
<1>6. RowsTyped' /\ ReqsTyped'
  <2>1. CASE UNCHANGED vars
    BY <1>0, <2>1 DEF RowsTyped, ReqsTyped, WellFormed, vars
  <2>2. CASE \E r \in Reqs, u \in Users :
               \/ \E kind \in {"view", "pin", "unlock"} : Begin(r, kind, u)
               \/ \E target \in Users : \/ \E role \in Roles : Add(r, u, target, role)
                                        \/ Remove(r, u, target)
    BY <1>1, <2>2, ReadsWellFormed
  <2>6. CASE \E r \in Reqs : \/ SelectVault(r) \/ CheckRole(r) \/ Serve(r) \/ SendCommand(r)
                            \/ Lookup(r) \/ Refresh(r) \/ Fail(r)
    BY <1>1, <2>6, ReadsWellFormed
  <2>3. CASE \E r \in Reqs : Insert(r) \/ UpdateRole(r) \/ DeleteRole(r)
    BY <1>2, <1>3, <2>3
  <2>4. CASE \/ \E u \in Users : Register(u) \/ \E reset \in BOOLEAN : SaveOutdated(u, reset)
             \/ ResetVault
             \/ DeleteVault
    BY <1>4, <1>5, <2>4
  <2>5. QED
    BY <2>1, <2>2, <2>3, <2>4, <2>6 DEF Next
<1>7. HistoryTyped'
  BY <1>0, <1>6, HistoryFollows DEF Next, HistoryTyped, vars
<1>8. QED
  BY <1>6, <1>7 DEF Typed

\* The tables, the requests and the history are well formed in every state.
LEMMA TypesHold == Spec => []Typed
<1>1. Init => Typed
  BY IdleWellFormed, AccessAssumption
     DEF Init, Typed, RowsTyped, ReqsTyped, HistoryTyped, NoVault, WellFormed, Grants
<1>2. QED
  BY <1>1, StepTyped, PTL DEF Spec

-----------------------------------------------------------------------------
\* Whose request p is, and for what, stays.
Kept(p) ==
  /\ req'[p].kind = req[p].kind /\ req'[p].user = req[p].user
  /\ req'[p].id = req[p].id /\ req'[p].target = req[p].target

\* Why request p may fail.
Excused(p) ==
  \/ req[p].at \in {"select", "insert", "update"} /\ req[p].id # vault.id
  \/ req[p].at = "insert" /\ roles[req[p].target] # None
  \/ req[p].at = "update" /\ roles[req[p].target] = None
  \/ req[p].at = "refresh" /\ req[p].gone

\* It begins to be checked, or to change members as the owner's.
BeginsCheck(p) ==
  /\ req[p].at = "idle" /\ UNCHANGED <<vault, roles>>
  /\ req'[p].id = vault.id
  /\ req'[p].at \in {"select", "role"} \/ (req'[p].at = "serve" /\ req'[p].user = vault.owner)

\* Its user, who owns the vault, adds or removes a member.
BeginsChange(p) ==
  /\ req[p].at = "idle" /\ UNCHANGED <<vault, roles>>
  /\ req'[p].id = vault.id /\ req'[p].user = vault.owner
  /\ req'[p].at \in {"lookup", "delete"}

\* It goes on with its check, or after it has looked up the member, or has written.
PassesCheck(p) ==
  /\ Kept(p) /\ UNCHANGED <<vault, roles>>
  /\ req[p].at \in {"select", "role"}
  /\ req'[p].at = "role" \/ (req'[p].at = "serve" /\ Permitted(req'[p], vault, roles))

LooksUp(p) ==
  /\ Kept(p) /\ UNCHANGED <<vault, roles>>
  /\ req[p].at = "lookup"
  /\ req'[p].at = IF Row(p) = None THEN "insert" ELSE "update"

Writes(p) ==
  /\ Kept(p) /\ UNCHANGED vault
  /\ req[p].at \in {"insert", "update"} /\ req[p].id = vault.id
  /\ req'[p].at = "refresh" /\ ~req'[p].gone

\* Its row goes before it has been read again.
LosesRow(p) ==
  /\ Kept(p)
  /\ req[p].at = "refresh" /\ req'[p].at = "refresh"
  /\ req[p].id = vault.id
  /\ vault'.id # vault.id \/ roles'[req[p].target] # roles[req[p].target]

RequestStep(p) ==
  \/ req'[p] = req[p]
  \/ req'[p].at = "idle"
  \/ req'[p].at = "failed" /\ Excused(p)
  \/ BeginsCheck(p)
  \/ BeginsChange(p)
  \/ PassesCheck(p)
  \/ LooksUp(p)
  \/ Writes(p)
  \/ LosesRow(p)

\* The fields of a frame that another one is made from.
LEMMA FrameFields ==
  ASSUME NEW f \in Frame
  PROVE  /\ \A at : LET g == [f EXCEPT !.at = at] IN
              /\ g.at = at /\ g.kind = f.kind /\ g.user = f.user /\ g.id = f.id
              /\ g.target = f.target /\ g.gone = f.gone
         /\ LET g == [f EXCEPT !.at = "refresh", !.role = None] IN
              /\ g.at = "refresh" /\ g.kind = f.kind /\ g.user = f.user /\ g.id = f.id
              /\ g.target = f.target /\ g.gone = f.gone
BY DEF Frame

\* Seen from one request p, a step of request r is a step of p or leaves p alone, or
\* deletes p's row.
LEMMA RequestSteps ==
  ASSUME Typed, [Next]_vars, NEW p \in Reqs
  PROVE  RequestStep(p)
<1>1. /\ req \in [Reqs -> Frame] /\ WellFormed(req[p]) /\ req[p] \in Frame
      /\ roles \in [Users -> Grants \cup {None}]
  BY DEF Typed, ReqsTyped, RowsTyped, WellFormed
<1>2. ASSUME NEW r \in Reqs, NEW f, Become(r, f), p # r
      PROVE  req'[p] = req[p]
  BY <1>1, <1>2 DEF Become
<1>3. ASSUME NEW r \in Reqs, NEW f, Become(r, f), p = r
      PROVE  req'[p] = f
  BY <1>1, <1>3 DEF Become
<1>4. ASSUME NEW u \in Users, NEW kind \in {"view", "pin", "unlock"}, Begin(p, kind, u)
      PROVE  BeginsCheck(p)
  <2> DEFINE f == [Idle EXCEPT !.at = IF kind = "unlock" THEN "select"
                                      ELSE IF u = vault.owner THEN "serve" ELSE "role",
                               !.kind = kind, !.user = u, !.id = vault.id]
  <2>1. /\ f.at \in {"select", "role"} \/ (f.at = "serve" /\ u = vault.owner)
        /\ f.user = u /\ f.id = vault.id
    BY IdleWellFormed DEF Frame
  <2>2. req'[p] = f
    BY <1>3, <1>4 DEF Begin
  <2>3. QED
    BY <1>4, <2>1, <2>2 DEF Begin, BeginsCheck
<1>5. ASSUME NEW u \in Users, NEW target \in Users,
             (\E role \in Roles : Add(p, u, target, role)) \/ Remove(p, u, target)
      PROVE  BeginsChange(p)
  <2>1. CASE Remove(p, u, target)
    <3> DEFINE f == [Idle EXCEPT !.at = "delete", !.kind = "remove", !.user = u, !.id = vault.id,
                                 !.target = target]
    <3>1. f.at = "delete" /\ f.user = u /\ f.id = vault.id
      BY IdleWellFormed DEF Frame
    <3>2. req'[p] = f
      BY <1>3, <2>1 DEF Remove, Manages
    <3>3. QED
      BY <2>1, <3>1, <3>2 DEF Remove, Manages, BeginsChange
  <2>2. ASSUME NEW role \in Roles, Add(p, u, target, role)
        PROVE  BeginsChange(p)
    <3> DEFINE f == [Idle EXCEPT !.at = "lookup", !.kind = "add", !.user = u, !.id = vault.id,
                                 !.target = target, !.role = role]
    <3>1. f.at = "lookup" /\ f.user = u /\ f.id = vault.id
      BY IdleWellFormed DEF Frame
    <3>2. req'[p] = f
      BY <1>3, <2>2 DEF Add, Manages
    <3>3. QED
      BY <2>2, <3>1, <3>2 DEF Add, Manages, BeginsChange
  <2>3. QED
    BY <1>5, <2>1, <2>2
<1>6. Idle.at = "idle" /\ [Idle EXCEPT !.at = "failed"].at = "failed"
  BY DEF Idle
<1>7. ASSUME SelectVault(p) \/ CheckRole(p)
      PROVE  RequestStep(p)
  <2>1. CASE Finish(p) \/ (Abort(p) /\ SelectVault(p) /\ req[p].id # vault.id)
    BY <1>3, <1>6, <2>1 DEF Finish, Abort, RequestStep, Excused, SelectVault
  <2>2. CASE UNCHANGED <<vault, roles>> /\ Goto(p, "role")
    <3>1. req'[p] = [req[p] EXCEPT !.at = "role"]
      BY <1>3, <2>2 DEF Goto
    <3>2. req'[p].at = "role" /\ Kept(p)
      BY <1>1, <3>1, FrameFields DEF Kept
    <3>3. QED
      BY <1>7, <2>2, <3>2 DEF RequestStep, PassesCheck, SelectVault, CheckRole
  <2>3. CASE UNCHANGED <<vault, roles>> /\ Goto(p, "serve") /\ Permitted(req[p], vault, roles)
    <3>1. req'[p] = [req[p] EXCEPT !.at = "serve"]
      BY <1>3, <2>3 DEF Goto
    <3>2. req'[p].at = "serve" /\ Kept(p)
      BY <1>1, <3>1, FrameFields DEF Kept
    <3>3. QED
      BY <1>7, <2>3, <3>2 DEF RequestStep, PassesCheck, Kept, Permitted, SelectVault, CheckRole
  <2>4. CASE SelectVault(p)
    BY <2>1, <2>2, <2>3, <2>4 DEF SelectVault, Permitted
  <2>5. CASE CheckRole(p)
    BY <1>1, <2>1, <2>3, <2>5 DEF CheckRole, Permitted, WellFormed
  <2>6. QED
    BY <1>7, <2>4, <2>5
<1>8. ASSUME Lookup(p) \/ Serve(p) \/ SendCommand(p) \/ Refresh(p) \/ Fail(p)
      PROVE  RequestStep(p)
  <2>1. CASE Finish(p) \/ (Abort(p) /\ Refresh(p) /\ req[p].gone)
    BY <1>3, <1>6, <2>1 DEF Finish, Abort, RequestStep, Excused, Refresh
  <2>2. CASE Lookup(p)
    <3> DEFINE at == IF Row(p) = None THEN "insert" ELSE "update"
    <3>1. req'[p] = [req[p] EXCEPT !.at = at]
      BY <1>3, <2>2 DEF Goto, Lookup
    <3>2. req'[p].at = at /\ Kept(p)
      BY <1>1, <3>1, FrameFields DEF Kept
    <3>3. QED
      BY <2>2, <3>2 DEF RequestStep, LooksUp, Lookup
  <2>3. QED
    BY <1>8, <2>1, <2>2 DEF Serve, SendCommand, Refresh, Fail
<1>9. ASSUME Insert(p) \/ UpdateRole(p)
      PROVE  RequestStep(p)
  <2>1. CASE Abort(p) /\ Excused(p)
    BY <1>3, <1>6, <2>1 DEF Abort, RequestStep
  <2>2. CASE /\ req[p].id = vault.id
             /\ Become(p, [req[p] EXCEPT !.at = "refresh", !.role = None])
    <3>1. req'[p] = [req[p] EXCEPT !.at = "refresh", !.role = None]
      BY <1>3, <2>2
    <3>2. req'[p].at = "refresh" /\ req'[p].gone = req[p].gone /\ Kept(p)
      BY <1>1, <3>1, FrameFields DEF Kept
    <3>3. req[p].at \in {"insert", "update"} /\ UNCHANGED vault
      BY <1>9 DEF Insert, UpdateRole
    <3>4. ~req[p].gone
      BY <1>1, <3>3 DEF WellFormed
    <3>5. QED
      BY <2>2, <3>2, <3>3, <3>4 DEF RequestStep, Writes
  <2>3. QED
    BY <1>9, <2>1, <2>2 DEF Insert, UpdateRole, Row, Excused
<1>10. ASSUME NEW r \in Reqs, DeleteRole(r)
       PROVE  RequestStep(p)
  <2>1. CASE Finish(r)
    BY <1>2, <1>3, <1>6, <2>1 DEF Finish, RequestStep
  <2>2. CASE /\ Deleted(r, Idle, {req[r].target}) /\ Row(r) # None
             /\ roles' = [roles EXCEPT ![req[r].target] = None]
    <3>1. CASE p # r /\ Written(p, {req[r].target})
      <4>1. req'[p] = [req[p] EXCEPT !.gone = TRUE]
        BY <2>2, <3>1 DEF Deleted
      <4>2. Kept(p) /\ req'[p].at = "refresh"
        BY <1>1, <3>1, <4>1 DEF Kept, Written, Frame
      <4>3. req[p].target \in Users /\ roles[req[p].target] # None
        BY <1>1, <2>2, <3>1 DEF WellFormed, Written, Row
      <4>4. roles'[req[p].target] # roles[req[p].target]
        BY <1>1, <2>2, <3>1, <4>3 DEF Written
      <4>5. QED
        BY <3>1, <4>2, <4>4 DEF RequestStep, LosesRow, Written
    <3>2. CASE ~(p # r /\ Written(p, {req[r].target}))
      BY <1>6, <2>2, <3>2 DEF Deleted, RequestStep
    <3>3. QED
      BY <3>1, <3>2
  <2>3. QED
    BY <1>10, <2>1, <2>2 DEF DeleteRole
<1>11. ASSUME DeleteVault
       PROVE  RequestStep(p)
  <2>1. CASE Written(p, Users)
    <3>1. req'[p] = [req[p] EXCEPT !.gone = TRUE]
      BY <1>11, <2>1 DEF DeleteVault
    <3>2. Kept(p) /\ req'[p].at = "refresh"
      BY <1>1, <2>1, <3>1 DEF Kept, Written, Frame
    <3>3. vault'.id # vault.id
      BY <1>11 DEF DeleteVault, NoVault
    <3>4. QED
      BY <2>1, <3>2, <3>3 DEF RequestStep, LosesRow, Written
  <2>2. CASE ~Written(p, Users)
    BY <1>11, <2>2 DEF DeleteVault, RequestStep
  <2>3. QED
    BY <2>1, <2>2
<1>12. ASSUME NEW r \in Reqs, r # p, \E f : Become(r, f)
       PROVE  RequestStep(p)
  BY <1>2, <1>12 DEF RequestStep
<1>13. CASE Next
  <2>1. ASSUME NEW r \in Reqs, NEW u \in Users,
               \/ \E kind \in {"view", "pin", "unlock"} : Begin(r, kind, u)
               \/ \E target \in Users : \/ \E role \in Roles : Add(r, u, target, role)
                                        \/ Remove(r, u, target)
        PROVE  RequestStep(p)
    <3>1. CASE r = p
      BY <1>4, <1>5, <2>1, <3>1 DEF RequestStep
    <3>2. CASE r # p
      BY <1>12, <2>1, <3>2 DEF Begin, Add, Remove
    <3>3. QED
      BY <3>1, <3>2
  <2>2. ASSUME NEW r \in Reqs,
               \/ SelectVault(r) \/ CheckRole(r) \/ Serve(r) \/ SendCommand(r) \/ Lookup(r)
               \/ Insert(r) \/ UpdateRole(r) \/ Refresh(r) \/ Fail(r)
        PROVE  RequestStep(p)
    <3>1. CASE r = p
      BY <1>7, <1>8, <1>9, <2>2, <3>1
    <3>2. CASE r # p
      BY <1>12, <2>2, <3>2 DEF SelectVault, CheckRole, Serve, SendCommand, Lookup, Insert,
            UpdateRole, Refresh, Fail, Goto, Finish, Abort
    <3>3. QED
      BY <3>1, <3>2
  <2>3. CASE \/ \E u \in Users : Register(u) \/ \E reset \in BOOLEAN : SaveOutdated(u, reset)
             \/ ResetVault
    BY <2>3 DEF Register, SaveOutdated, ResetVault, RequestStep
  <2>4. QED
    BY <1>10, <1>11, <1>13, <2>1, <2>2, <2>3 DEF Next
<1>14. QED
  BY <1>13 DEF vars, RequestStep

-----------------------------------------------------------------------------
\* Those who have owned the vault: its owner, the users who granted its roles, and
\* those who are changing its members.
Granters ==
  /\ GrantedByOwner
  /\ \A r \in Reqs : /\ req[r].at \in {"lookup", "insert", "update", "delete"}
                    /\ req[r].id = vault.id => req[r].user \in owned

\* Nothing but the end of the vault makes a user somebody who has not owned it.
LEMMA OwnedGrows ==
  ASSUME [Next]_vars, vault'.id = vault.id, vault.id # 0
  PROVE  owned \subseteq owned'
BY DEF Next, Remember, vars

\* The vault's id changes only when it is deleted, or to one that is new.
LEMMA IdSteps ==
  ASSUME Typed, [Next]_vars
  PROVE  vault'.id = vault.id \/ vault'.id = 0 \/ (vault.id = 0 /\ vault'.id = issued + 1)
<1>1. vault \in [id : 0..issued, owner : Users \cup {None}, reset : BOOLEAN]
      /\ (vault.id = 0 => ~vault.reset)
  BY DEF Typed, RowsTyped, NoVault
<1>2. ASSUME NEW u \in Users, Register(u) \/ \E reset \in BOOLEAN : SaveOutdated(u, reset)
      PROVE  vault'.id = vault.id \/ (vault.id = 0 /\ vault'.id = issued + 1)
  <2>1. CASE vault.id = 0
    BY <1>1, <1>2, <2>1 DEF Register, SaveOutdated
  <2>2. CASE vault.id # 0
    BY <1>1, <1>2, <2>2 DEF Register, SaveOutdated
  <2>3. QED
    BY <2>1, <2>2
<1>3. CASE ResetVault \/ DeleteVault
  BY <1>1, <1>3 DEF ResetVault, DeleteVault, NoVault
<1>4. CASE UNCHANGED vault
  BY <1>4
<1>5. QED
  BY <1>2, <1>3, <1>4 DEF Next, vars, Begin, Add, Remove, SelectVault, CheckRole, Serve, SendCommand,
     Lookup, Insert, UpdateRole, Refresh, DeleteRole, Fail

\* The role of u remains, perhaps as another role, with the one who granted it; or a
\* request grants it.
Remains(u) ==
  /\ vault'.id = vault.id /\ vault.id # 0
  /\ roles[u] # None /\ roles'[u].by = roles[u].by

\* A request that has found its user the owner of this vault inserts it.
IsGranted(u) ==
  /\ vault' = vault /\ vault.id # 0
  /\ \E r \in Reqs : req[r].at = "insert" /\ req[r].id = vault.id /\ roles'[u].by = req[r].user

\* How a member comes by a role.
LEMMA RoleSteps ==
  ASSUME Typed, [Next]_vars, NEW u \in Users, roles'[u] # None
  PROVE  Remains(u) \/ IsGranted(u)
<1>1. /\ vault \in [id : 0..issued, owner : Users \cup {None}, reset : BOOLEAN]
      /\ roles \in [Users -> Grants \cup {None}]
      /\ vault.id = 0 => vault = NoVault /\ roles[u] = None
  BY DEF Typed, RowsTyped
<1>2. CASE UNCHANGED <<roles, vault>>
  BY <1>1, <1>2 DEF Remains
<1>3. ASSUME NEW r \in Reqs, Insert(r) \/ UpdateRole(r) \/ DeleteRole(r)
      PROVE  Remains(u) \/ IsGranted(u)
  <2>1. req[r].id # 0 /\ req[r].target \in Users
    BY <1>3 DEF Typed, ReqsTyped, WellFormed, Insert, UpdateRole, DeleteRole
  <2>2. CASE Insert(r)
    BY <1>1, <1>2, <2>1, <2>2 DEF Insert, Remains, IsGranted
  <2>3. CASE UpdateRole(r)
    <3>1. roles'[u].by = roles[u].by /\ roles[u] # None
      BY <1>1, <2>1, <2>3 DEF UpdateRole, Row, Grants
    <3>2. QED
      BY <1>1, <2>3, <3>1 DEF UpdateRole, Remains
  <2>4. CASE DeleteRole(r)
    BY <1>1, <2>4 DEF DeleteRole, Remains
  <2>5. QED
    BY <1>3, <2>2, <2>3, <2>4
<1>4. CASE \/ \E w \in Users : Register(w) \/ \E reset \in BOOLEAN : SaveOutdated(w, reset)
           \/ ResetVault
  <2>1. vault.id # 0 /\ roles' = roles
    BY <1>1, <1>4 DEF Register, SaveOutdated, ResetVault
  <2>2. vault'.id = vault.id
    BY <1>1, <1>4, <2>1 DEF Register, SaveOutdated, ResetVault
  <2>3. QED
    BY <2>1, <2>2 DEF Remains
<1>5. CASE DeleteVault
  BY <1>5 DEF DeleteVault
<1>6. QED
  BY <1>2, <1>3, <1>4, <1>5 DEF Next, vars, Begin, Add, Remove, SelectVault, CheckRole, Serve,
     SendCommand, Lookup, Refresh, Fail

\* Roles are granted by users who have owned the very vault they are granted for,
\* through any change of hands.
THEOREM GrantsHold == Spec => []GrantedByOwner
<1>1. Init => Granters
  BY DEF Init, Granters, GrantedByOwner, Idle
<1>2. Typed /\ Typed' /\ Granters /\ [Next]_vars => Granters'
  <2> SUFFICES ASSUME Typed, Typed', Granters, [Next]_vars
               PROVE  Granters'
    OBVIOUS
  <2>1. \A u \in Users : roles'[u] # None => roles'[u].by \in owned'
    <3> SUFFICES ASSUME NEW u \in Users, roles'[u] # None
                 PROVE  roles'[u].by \in owned'
      OBVIOUS
    <3>1. CASE Remains(u)
      BY <3>1, OwnedGrows DEF Remains, Granters, GrantedByOwner
    <3>2. CASE IsGranted(u)
      BY <3>2, OwnedGrows DEF IsGranted, Granters
    <3>3. QED
      BY <3>1, <3>2, RoleSteps
  <2>2. ASSUME NEW r \in Reqs, req'[r].at \in {"lookup", "insert", "update", "delete"},
               req'[r].id = vault'.id
        PROVE  req'[r].user \in owned'
    <3>1. WellFormed(req'[r]) /\ WellFormed(req[r]) /\ req[r].id <= issued /\ issued \in Nat
          /\ req[r] \in Frame
      BY DEF Typed, ReqsTyped, RowsTyped, WellFormed
    <3>2. CASE BeginsChange(r)
      <4>1. vault.id # 0 /\ vault.owner \in owned
        BY <2>2, <3>1, <3>2 DEF BeginsChange, Typed, HistoryTyped, WellFormed
      <4>2. QED
        BY <3>2, <4>1, OwnedGrows DEF BeginsChange
    <3>3. CASE req'[r].user = req[r].user /\ req'[r].id = req[r].id
               /\ req[r].at \in {"lookup", "insert", "update", "delete"}
      <4>1. req[r].id = vault.id /\ vault.id # 0
        BY <2>2, <3>1, <3>3, IdSteps DEF WellFormed, Frame
      <4>2. QED
        BY <2>2, <3>3, <4>1, OwnedGrows DEF Granters
    <3>4. QED
      BY <2>2, <3>2, <3>3, RequestSteps DEF RequestStep, BeginsCheck, PassesCheck, LooksUp, Kept, Writes,
         LosesRow
  <2>3. QED
    BY <2>1, <2>2 DEF Granters, GrantedByOwner
<1>3. Granters => GrantedByOwner
  BY DEF Granters
<1>4. QED
  BY <1>1, <1>2, <1>3, TypesHold, PTL DEF Spec

\* A request that check_vault_access has let through to be served had its right at one
\* moment, with the vault, owner and role of that moment.
THEOREM AccessHolds == Spec => []ServedHadAccess
<1>1. Init => ServedHadAccess
  BY DEF Init, ServedHadAccess, Idle
<1>2. Typed /\ Typed' /\ ServedHadAccess /\ [Next]_vars => ServedHadAccess'
  <2> DEFINE Served(r) == req[r].at \in {"serve", "lookup", "insert", "update", "refresh", "delete"}
  <2> SUFFICES ASSUME Typed, Typed', ServedHadAccess, [Next]_vars, NEW r \in Reqs, Served(r)'
               PROVE  r \in may'
    BY DEF ServedHadAccess
  <2>1. /\ WellFormed(req[r]) /\ WellFormed(req'[r])
        /\ RequestStep(r)
    BY RequestSteps DEF Typed, ReqsTyped
  <2>2. req'[r].kind # "none"
    BY <2>1 DEF WellFormed
  <2>3. CASE UNCHANGED vars
    BY <2>3 DEF vars, ServedHadAccess
  <2>4. CASE r \in may /\ Remember
    BY <2>2, <2>4 DEF Remember
  <2>5. CASE Permitted(req'[r], vault', roles') /\ Remember
    BY <2>2, <2>5 DEF Remember
  <2>6. CASE Served(r) /\ Remember
    BY <2>4, <2>6 DEF ServedHadAccess
  <2>7. CASE ~Served(r)
    <3>1. BeginsCheck(r) \/ BeginsChange(r) \/ PassesCheck(r)
      BY <2>1, <2>7 DEF RequestStep, Excused, LooksUp, Writes, LosesRow
    <3>2. Permitted(req'[r], vault', roles')
      BY <3>1 DEF BeginsCheck, BeginsChange, PassesCheck, Permitted
    <3>3. QED
      BY <2>3, <2>5, <3>2 DEF Next
  <2>8. QED
    BY <2>3, <2>6, <2>7 DEF Next
<1>3. QED
  BY <1>1, <1>2, TypesHold, PTL DEF Spec

\* What a request that no other one has crossed still finds as it left it.
Undisturbed(r) ==
  /\ req[r].at # "failed"
  /\ req[r].at # "idle" => req[r].id = vault.id
  /\ req[r].at = "insert" => roles[req[r].target] = None
  /\ req[r].at = "update" => roles[req[r].target] # None
  /\ ~req[r].gone

Undisturbance == \A r \in Reqs : r \in crossed \/ Undisturbed(r)

\* AddVaultMember and CheckVaultAccess fail with an internal error (a unique constraint, a
\* row that has gone before its refresh) only if another request changed what they look at.
THEOREM FailuresHold == Spec => []FailsOnConflict
<1>1. Init => Undisturbance
  <2>1. ASSUME Init, NEW r \in Reqs
        PROVE  req[r].at = "idle" /\ ~req[r].gone
    BY <2>1 DEF Init, Idle
  <2>2. QED
    BY <2>1 DEF Undisturbance, Undisturbed
<1>2. Typed /\ Typed' /\ Undisturbance /\ [Next]_vars => Undisturbance'
  <2> SUFFICES ASSUME Typed, Typed', Undisturbance, [Next]_vars, NEW r \in Reqs, r \notin crossed'
               PROVE  Undisturbed(r)'
    BY DEF Undisturbance
  <2>1. CASE UNCHANGED vars
    BY <2>1 DEF vars, Undisturbance, Undisturbed
  <2>2. CASE Next
    <3>1. /\ WellFormed(req[r]) /\ WellFormed(req'[r])
          /\ RequestStep(r)
      BY RequestSteps DEF Typed, ReqsTyped
    <3>2. CASE req'[r].at = "idle"
      BY <3>1, <3>2 DEF Undisturbed, WellFormed
    <3>3. CASE req'[r].at # "idle"
      <4>1. /\ r \notin crossed
            /\ req[r].id = vault.id => vault'.id = vault.id
            /\ req[r].target # None /\ req'[r].at = req[r].at
                 => roles'[req[r].target] = roles[req[r].target]
        BY <2>2, <3>3 DEF Next, Remember
      <4>2. Undisturbed(r)
        BY <4>1 DEF Undisturbance
      <4>3. req[r].target \in Users => req[r].target # None
        BY AccessAssumption
      <4>4. CASE req'[r] = req[r]
        BY <3>1, <3>3, <4>1, <4>2, <4>3, <4>4 DEF Undisturbed, WellFormed
      <4>5. CASE req'[r].at = "failed" /\ Excused(r)
        BY <4>2, <4>5 DEF Undisturbed, Excused
      <4>6. CASE BeginsCheck(r) \/ BeginsChange(r) \/ PassesCheck(r) \/ LooksUp(r)
        <5>1. /\ req'[r].at \notin {"failed", "refresh", "idle"} /\ req'[r].id = vault'.id
              /\ req'[r].at = "insert" => roles'[req'[r].target] = None
              /\ req'[r].at = "update" => roles'[req'[r].target] # None
          BY <4>2, <4>6 DEF BeginsCheck, BeginsChange, PassesCheck, LooksUp, Kept, Row, Undisturbed
        <5>2. QED
          BY <3>1, <5>1 DEF Undisturbed, WellFormed
      <4>7. CASE Writes(r)
        BY <4>7 DEF Writes, Kept, Undisturbed
      <4>8. CASE LosesRow(r)
        BY <3>1, <4>1, <4>3, <4>8 DEF LosesRow, WellFormed
      <4>9. QED
        BY <3>1, <3>3, <4>4, <4>5, <4>6, <4>7, <4>8 DEF RequestStep
    <3>4. QED
      BY <3>2, <3>3
  <2>3. QED
    BY <2>1, <2>2
<1>3. Undisturbance => FailsOnConflict
  BY DEF Undisturbance, Undisturbed, FailsOnConflict
<1>4. QED
  BY <1>1, <1>2, <1>3, TypesHold, PTL DEF Spec

\* The role that list_for_user shows in a user's list of vaults is the one that
\* CheckVaultAccess finds.
THEOREM RolesAgree == Spec => []ListAgreesWithCheck
<1>1. ListAgreesWithCheck
  BY DEF ListAgreesWithCheck, Shown, Checked, Listed
<1>2. QED
  BY <1>1, PTL

-----------------------------------------------------------------------------
\* A request for biometrics knows its user, and is told that a row has gone only
\* before it updates or deletes it.
BioWellFormed(f) ==
  /\ f \in BioFrame
  /\ f.at # "idle" => f.user \in Enrollers

\* The same of all of them, with the tables of enrolments.
BioTyped ==
  /\ prints \in [Enrollers -> Nat]
  /\ face \in [Enrollers -> BOOLEAN]
  /\ bio \in [Reqs -> BioFrame]
  /\ \A r \in Reqs : BioWellFormed(bio[r])
  /\ raced \subseteq Reqs

\* The three ways a request for biometrics goes on.
LEMMA BioFrames ==
  /\ BioWellFormed(Rest)
  /\ \A at \in {"idle", "insert_print", "insert_face", "update_face", "delete_face",
                "unlock", "failed"}, u \in Enrollers :
       BioWellFormed([at |-> at, user |-> u, gone |-> FALSE])
  /\ \A f : BioWellFormed(f) =>
       /\ f.at # "idle" => BioWellFormed([f EXCEPT !.at = "failed"])
       /\ BioWellFormed([f EXCEPT !.gone = TRUE])
<1>1. Enrollers \subseteq Users
  BY EnrollersAssumption
<1>2. QED
  BY <1>1 DEF BioWellFormed, BioFrame, Rest

\* How a step changes the requests for biometrics: one request goes on, and where a
\* face is deleted, those that are about to write it are outdated.
BioGoesOn(r, f) ==
  /\ BioWellFormed(f)
  /\ bio' = [bio EXCEPT ![r] = f]

LEMMA BioGoesOnTyped ==
  ASSUME BioTyped, NEW r \in Reqs, NEW f, BioGoesOn(r, f)
  PROVE  bio' \in [Reqs -> BioFrame] /\ \A p \in Reqs : BioWellFormed(bio'[p])
BY DEF BioTyped, BioGoesOn, BioWellFormed

\* Each step keeps the tables and the requests for biometrics typed.
LEMMA BioStepTyped == BioTyped /\ [BioNext]_<<vars, bioVars>> => BioTyped'
<1> SUFFICES ASSUME BioTyped, [BioNext]_<<vars, bioVars>>
             PROVE  BioTyped'
  OBVIOUS
<1> DEFINE Tables == /\ prints \in [Enrollers -> Nat]
                     /\ face \in [Enrollers -> BOOLEAN]
                     /\ bio \in [Reqs -> BioFrame]
                     /\ \A r \in Reqs : BioWellFormed(bio[r])
<1>0. Tables
  BY DEF BioTyped
<1>1. CASE UNCHANGED bioVars
  BY <1>1 DEF bioVars, BioTyped, BioWellFormed
<1>2. ASSUME NEW r \in Reqs, NEW f, BioGoesOn(r, f), UNCHANGED <<prints, face>>
      PROVE  Tables'
  BY <1>0, <1>2, BioGoesOnTyped
<1>3. ASSUME NEW r \in Reqs, NEW u \in Enrollers,
             \/ Enroll(r, u) \/ EnrollFace(r, u) \/ DeleteFace(r, u)
             \/ Verify(r, u) \/ VerifyFace(r, u)
      PROVE  Tables'
  <2>1. \E at \in {"insert_print", "insert_face", "update_face", "delete_face", "unlock"} : At(r, at, u)
    BY <1>3 DEF Enroll, EnrollFace, DeleteFace, Verify, VerifyFace
  <2>2. \E f : BioGoesOn(r, f)
    BY <2>1, BioFrames DEF At, BioGoesOn
  <2>3. QED
    BY <1>2, <1>3, <2>2 DEF Enroll, EnrollFace, DeleteFace, Verify, VerifyFace
<1>4. ASSUME NEW r \in Reqs, bio[r].at # "idle",
             Answer(r) \/ BioFail(r), prints' \in [Enrollers -> Nat], face' \in [Enrollers -> BOOLEAN]
      PROVE  Tables'
  <2>1. \E f : BioGoesOn(r, f)
    <3>1. CASE Answer(r)
      BY <3>1, BioFrames DEF Answer, BioGoesOn
    <3>2. CASE BioFail(r)
      BY <1>0, <1>4, <3>2, BioFrames DEF BioFail, BioGoesOn
    <3>3. QED
      BY <1>4, <3>1, <3>2
  <2>2. QED
    BY <1>4, <2>1, BioGoesOnTyped
<1>5. ASSUME NEW r \in Reqs, InsertPrint(r) \/ InsertFace(r) \/ UpdateFace(r) \/ BioFailed(r) \/ Unlock(r)
      PROVE  Tables'
  <2>1. bio[r].at # "idle" /\ bio[r].user \in Enrollers
    BY <1>0, <1>5 DEF InsertPrint, InsertFace, UpdateFace, BioFailed, Unlock, BioWellFormed
  <2>2. prints' \in [Enrollers -> Nat]
    BY <1>0, <1>5, <2>1 DEF InsertPrint, InsertFace, UpdateFace, BioFailed, Unlock
  <2>3. face' \in [Enrollers -> BOOLEAN]
    BY <1>0, <1>5, <2>1 DEF InsertPrint, InsertFace, UpdateFace, BioFailed, Unlock
  <2>4. QED
    BY <1>4, <1>5, <2>1, <2>2, <2>3 DEF InsertPrint, InsertFace, UpdateFace, BioFailed, Unlock
<1>6. ASSUME NEW r \in Reqs, DeleteFaceRow(r)
      PROVE  Tables'
  <2>1. bio[r].at # "idle" /\ bio[r].user \in Enrollers
    BY <1>0, <1>6 DEF DeleteFaceRow, BioWellFormed
  <2>2. prints' \in [Enrollers -> Nat] /\ face' \in [Enrollers -> BOOLEAN]
    BY <1>0, <1>6, <2>1 DEF DeleteFaceRow
  <2>3. CASE Answer(r)
    BY <1>4, <2>1, <2>2, <2>3
  <2>4. CASE bio' = [p \in Reqs |-> IF p = r THEN Rest
                       ELSE IF Outdated(p, bio[r].user) THEN [bio[p] EXCEPT !.gone = TRUE] ELSE bio[p]]
    <3>1. \A p \in Reqs : BioWellFormed(bio'[p])
      BY <1>0, <2>4, BioFrames
    <3>2. QED
      BY <2>2, <2>4, <3>1 DEF BioWellFormed
  <2>5. QED
    BY <1>6, <2>3, <2>4 DEF DeleteFaceRow
<1>7. Tables'
  BY <1>0, <1>1, <1>3, <1>5, <1>6 DEF BioNext, BioTyped
<1>8. raced' \subseteq Reqs
  BY DEF BioNext, BioRemember, BioTyped, bioVars
<1>9. QED
  BY <1>7, <1>8 DEF BioTyped

\* To the vault's access a step of Biometrics is a step of VaultAccess or none.
LEMMA BioKeepsAccess == BioTyped /\ [BioNext]_<<vars, bioVars>> => [Next]_vars
<1> SUFFICES ASSUME BioTyped, [BioNext]_<<vars, bioVars>>
             PROVE  [Next]_vars
  OBVIOUS
<1>1. ASSUME NEW r \in Reqs, Unlock(r)
      PROVE  [Next]_vars
  <2>1. bio[r].user \in Users
    BY <1>1, EnrollersAssumption DEF Unlock, BioTyped, BioWellFormed
  <2>2. CASE Begin(r, "unlock", bio[r].user) /\ Remember
    BY <2>1, <2>2 DEF Next
  <2>3. QED
    BY <1>1, <2>2 DEF Unlock
<1>2. QED
  BY <1>1 DEF BioNext

LEMMA BioTablesHold == BioSpec => []BioTyped
<1>1. BioInit => BioTyped
  BY BioFrames DEF BioInit, BioTyped, BioWellFormed
<1>2. QED
  BY <1>1, BioStepTyped, PTL DEF BioSpec

\* With biometrics, and the unlock requests that follow them, access is what it is
\* without: what is proved of VaultAccess holds of the composition.
THEOREM BioImplementsAccess == BioSpec => Spec
<1>1. BioInit => Init
  BY DEF BioInit
<1>2. QED
  BY <1>1, BioTablesHold, BioKeepsAccess, PTL DEF BioSpec, Spec

\* The requests and tables of both modules are well typed.
THEOREM BioTypesHold == BioSpec => []BioTypeOK
<1>1. Typed /\ BioTyped => BioTypeOK
  BY DEF Typed, RowsTyped, ReqsTyped, HistoryTyped, BioTyped, TypeOK, BioTypeOK
<1>2. QED
  BY <1>1, BioTablesHold, BioImplementsAccess, TypesHold, PTL

\* Those who are about to insert an enrolment of user u, when the requests are b.
Inserters(b, u) == {r \in Reqs : b[r].at = "insert_print" /\ b[r].user = u}

\* Of them there are never more than requests.
LEMMA InsertersFinite ==
  ASSUME NEW b, NEW u
  PROVE  /\ IsFiniteSet(Inserters(b, u)) /\ Cardinality(Inserters(b, u)) \in Nat
         /\ Cardinality(Inserters(b, u)) <= Cardinality(Reqs) /\ Cardinality(Reqs) \in Nat
BY EnrollersAssumption, FS_Subset, FS_CardinalityType DEF Inserters

\* An enrolment begins only where there is none yet, so that all there are were begun
\* together.
THEOREM EnrolmentsHold == BioSpec => []EnrolmentsBounded
<1> DEFINE Bounded(n, b, u) == n[u] + Cardinality(Inserters(b, u)) <= Cardinality(Reqs)
<1>0. EnrolmentsBounded <=> \A u \in Enrollers : Bounded(prints, bio, u)
  BY DEF EnrolmentsBounded, Inserters
<1>1. BioInit => EnrolmentsBounded
  <2> SUFFICES ASSUME BioInit, NEW u \in Enrollers
               PROVE  Bounded(prints, bio, u)
    BY <1>0
  <2>1. Inserters(bio, u) = {} /\ prints[u] = 0
    BY DEF BioInit, Inserters, Rest
  <2>2. QED
    BY <2>1, FS_EmptySet, InsertersFinite
<1>2. BioTyped /\ EnrolmentsBounded /\ [BioNext]_<<vars, bioVars>> => EnrolmentsBounded'
  <2> SUFFICES ASSUME BioTyped, EnrolmentsBounded, [BioNext]_<<vars, bioVars>>,
                      NEW u \in Enrollers
               PROVE  Bounded(prints', bio', u)
    BY DEF EnrolmentsBounded, Inserters
  <2>0. /\ Bounded(prints, bio, u) /\ prints[u] \in Nat /\ bio \in [Reqs -> BioFrame]
        /\ prints \in [Enrollers -> Nat]
    BY <1>0 DEF BioTyped
  <2>f. /\ IsFiniteSet(Inserters(bio, u)) /\ Cardinality(Inserters(bio, u)) \in Nat
        /\ Cardinality(Inserters(bio', u)) \in Nat
        /\ Cardinality(Inserters(bio', u)) <= Cardinality(Reqs) /\ Cardinality(Reqs) \in Nat
    BY InsertersFinite
  \* Nobody else starts to insert, so that the bound stands.
  <2>1. ASSUME prints' = prints,
               \A p \in Reqs : bio'[p].at = "insert_print" => bio'[p] = bio[p]
        PROVE  Bounded(prints', bio', u)
    <3>1. Inserters(bio', u) \subseteq Inserters(bio, u)
      BY <2>1 DEF Inserters
    <3>2. Cardinality(Inserters(bio', u)) <= Cardinality(Inserters(bio, u))
      BY <3>1, <2>f, FS_Subset
    <3>3. QED
      BY <3>2, <2>0, <2>1, <2>f
  \* Whoever does finds no enrolment: there are only those being inserted.
  <2>2. ASSUME NEW r \in Reqs, NEW v \in Enrollers, Enroll(r, v)
        PROVE  Bounded(prints', bio', u)
    <3>1. CASE u = v
      BY <2>0, <2>2, <2>f, <3>1 DEF Enroll
    <3>2. CASE u # v
      <4>1. Inserters(bio', u) \subseteq Inserters(bio, u)
        BY <2>0, <2>2, <3>2 DEF Inserters, Enroll, At
      <4>2. Cardinality(Inserters(bio', u)) <= Cardinality(Inserters(bio, u))
        BY <4>1, <2>f, FS_Subset
      <4>3. QED
        BY <4>2, <2>0, <2>2, <2>f DEF Enroll
    <3>3. QED
      BY <3>1, <3>2
  \* Who inserts one no longer is about to.
  <2>3. ASSUME NEW r \in Reqs, InsertPrint(r)
        PROVE  Bounded(prints', bio', u)
    <3>1. \A p \in Reqs : bio'[p] = IF p = r THEN Rest ELSE bio[p]
      BY <2>0, <2>3 DEF InsertPrint, Answer
    <3>2. CASE bio[r].user = u
      <4>1. prints'[u] = prints[u] + 1
        BY <2>0, <2>3, <3>2 DEF InsertPrint
      <4>2. Inserters(bio', u) = Inserters(bio, u) \ {r} /\ r \in Inserters(bio, u)
        BY <2>3, <3>1, <3>2 DEF Inserters, Rest, InsertPrint
      <4>3. Cardinality(Inserters(bio', u)) = Cardinality(Inserters(bio, u)) - 1
        BY <4>2, <2>f, FS_RemoveElement, ZenonT(30)
      <4>4. QED
        BY <4>1, <4>3, <2>0, <2>f
    <3>3. CASE bio[r].user # u
      <4>1. prints'[u] = prints[u]
        BY <2>0, <2>3, <3>3 DEF InsertPrint
      <4>2. Inserters(bio', u) = Inserters(bio, u)
        BY <2>3, <3>1, <3>3 DEF Inserters, Rest, InsertPrint
      <4>3. QED
        BY <4>1, <4>2, <2>0
    <3>4. QED
      BY <3>2, <3>3
  <2>4. CASE UNCHANGED bioVars
    BY <2>1, <2>4 DEF bioVars
  <2>5. ASSUME NEW r \in Reqs, NEW v \in Enrollers,
               EnrollFace(r, v) \/ DeleteFace(r, v) \/ Verify(r, v) \/ VerifyFace(r, v)
        PROVE  Bounded(prints', bio', u)
    <3>1. prints' = prints
      BY <2>5 DEF EnrollFace, DeleteFace, Verify, VerifyFace
    <3>2. \E at \in {"insert_face", "update_face", "delete_face", "unlock"} : At(r, at, v)
      BY <2>5 DEF EnrollFace, DeleteFace, Verify, VerifyFace
    <3>3. \A p \in Reqs : bio'[p].at = "insert_print" => bio'[p] = bio[p]
      BY <2>0, <3>2 DEF At
    <3>4. QED
      BY <2>1, <3>1, <3>3
  <2>6. ASSUME NEW r \in Reqs, Answer(r) \/ BioFail(r), prints' = prints
        PROVE  Bounded(prints', bio', u)
    <3>1. \A p \in Reqs : bio'[p].at = "insert_print" => bio'[p] = bio[p]
      <4>1. CASE Answer(r)
        BY <2>0, <4>1 DEF Answer, Rest
      <4>2. CASE BioFail(r)
        BY <2>0, <4>2 DEF BioFail, BioFrame
      <4>3. QED
        BY <2>6, <4>1, <4>2
    <3>2. QED
      BY <2>1, <2>6, <3>1
  <2>7. ASSUME NEW r \in Reqs, InsertFace(r) \/ UpdateFace(r) \/ BioFailed(r) \/ Unlock(r)
        PROVE  Bounded(prints', bio', u)
    BY <2>6, <2>7 DEF InsertFace, UpdateFace, BioFailed, Unlock
  <2>8. ASSUME NEW r \in Reqs, DeleteFaceRow(r)
        PROVE  Bounded(prints', bio', u)
    <3>1. CASE Answer(r)
      BY <2>6, <2>8, <3>1 DEF DeleteFaceRow
    <3>2. CASE bio' = [p \in Reqs |-> IF p = r THEN Rest
                         ELSE IF Outdated(p, bio[r].user) THEN [bio[p] EXCEPT !.gone = TRUE]
                         ELSE bio[p]]
      <4>1. \A p \in Reqs : bio'[p].at = "insert_print" => bio'[p] = bio[p]
        BY <2>0, <3>2 DEF Rest, Outdated, BioFrame
      <4>2. QED
        BY <2>1, <2>8, <4>1 DEF DeleteFaceRow
    <3>3. QED
      BY <2>8, <3>1, <3>2 DEF DeleteFaceRow
  <2>9. QED
    BY <2>2, <2>3, <2>4, <2>5, <2>7, <2>8 DEF BioNext
<1>3. QED
  BY <1>1, <1>2, BioTablesHold, PTL DEF BioSpec

\* Where a request for the face of a user finds it, unless another one has changed it.
FaceUndisturbed(r) ==
  /\ bio[r].at # "failed"
  /\ bio[r].at = "insert_face" => ~face[bio[r].user]
  /\ bio[r].at \in {"update_face", "delete_face"} => face[bio[r].user] /\ ~bio[r].gone

FaceUndisturbance == \A r \in Reqs : r \in raced \/ FaceUndisturbed(r)

\* EnrollFace fails with an internal error (a unique constraint, a stale row) only if
\* another request changed the same face meanwhile.
THEOREM FaceFailuresHold == BioSpec => []FaceFailsOnConflict
<1>1. BioInit => FaceUndisturbance
  <2> SUFFICES ASSUME BioInit, NEW r \in Reqs
               PROVE  FaceUndisturbed(r)
    BY DEF FaceUndisturbance
  <2>1. bio[r].at = "idle"
    BY DEF BioInit, Rest
  <2>2. QED
    BY <2>1 DEF FaceUndisturbed
<1>2. BioTyped /\ FaceUndisturbance /\ [BioNext]_<<vars, bioVars>> => FaceUndisturbance'
  <2> SUFFICES ASSUME BioTyped, FaceUndisturbance, [BioNext]_<<vars, bioVars>>,
                      NEW p \in Reqs, p \notin raced'
               PROVE  FaceUndisturbed(p)'
    BY DEF FaceUndisturbance
  <2>0. /\ bio \in [Reqs -> BioFrame] /\ face \in [Enrollers -> BOOLEAN]
        /\ \A r \in Reqs : bio[r].at # "idle" => bio[r].user \in Enrollers
    BY DEF BioTyped, BioWellFormed
  <2>1. CASE UNCHANGED bioVars
    BY <2>1 DEF bioVars, FaceUndisturbance, FaceUndisturbed
  <2>2. CASE bio'[p].at = "idle"
    BY <2>2 DEF FaceUndisturbed
  \* A request that is not raced was not, and if it did not go on its face did not change.
  <2>3. ASSUME BioRemember, bio'[p].at # "idle"
        PROVE  /\ FaceUndisturbed(p)
               /\ bio'[p].at = bio[p].at => face'[bio[p].user] = face[bio[p].user]
    <3>1. p \notin raced
      BY <2>3 DEF BioRemember
    <3>2. bio'[p].at = bio[p].at => face'[bio[p].user] = face[bio[p].user]
      BY <2>0, <2>3 DEF BioRemember
    <3>3. QED
      BY <3>1, <3>2 DEF FaceUndisturbance
  <2>4. ASSUME BioRemember, bio'[p] = bio[p]
        PROVE  FaceUndisturbed(p)'
    BY <2>2, <2>3, <2>4 DEF FaceUndisturbed
  <2>5. ASSUME NEW r \in Reqs, Answer(r), BioRemember
        PROVE  FaceUndisturbed(p)'
    <3>1. CASE p = r
      BY <2>0, <2>2, <2>5, <3>1 DEF Answer, Rest
    <3>2. CASE p # r
      BY <2>0, <2>4, <2>5, <3>2 DEF Answer
    <3>3. QED
      BY <3>1, <3>2
  <2>6. ASSUME NEW r \in Reqs, NEW u \in Enrollers, BioRemember,
               \/ Enroll(r, u) \/ EnrollFace(r, u) \/ DeleteFace(r, u)
               \/ Verify(r, u) \/ VerifyFace(r, u)
        PROVE  FaceUndisturbed(p)'
    <3>1. face' = face
      BY <2>6 DEF Enroll, EnrollFace, DeleteFace, Verify, VerifyFace
    <3>2. \E at \in {"insert_print", "insert_face", "update_face", "delete_face", "unlock"} :
            /\ At(r, at, u)
            /\ at = "insert_face" => ~face[u]
            /\ at \in {"update_face", "delete_face"} => face[u]
      BY <2>6 DEF Enroll, EnrollFace, DeleteFace, Verify, VerifyFace
    <3>3. CASE p = r
      BY <2>0, <3>1, <3>2, <3>3 DEF At, FaceUndisturbed
    <3>4. CASE p # r
      BY <2>0, <2>4, <2>6, <3>2, <3>4 DEF At
    <3>5. QED
      BY <3>3, <3>4
  <2>7. ASSUME NEW r \in Reqs, InsertPrint(r) \/ BioFailed(r) \/ Unlock(r), BioRemember
        PROVE  FaceUndisturbed(p)'
    BY <2>5, <2>7 DEF InsertPrint, BioFailed, Unlock
  \* A request that fails was about to write a row that another one has written.
  <2>8. ASSUME NEW r \in Reqs, InsertFace(r) \/ UpdateFace(r), BioFail(r), BioRemember
        PROVE  FaceUndisturbed(p)'
    <3>1. CASE p = r
      <4>1. bio'[p].at = "failed" /\ FaceUndisturbed(p)
        BY <2>0, <2>3, <2>8, <3>1 DEF BioFail
      <4>2. bio[p].at = "insert_face" => ~InsertFace(p) \/ ~BioFail(p)
        BY <2>0, <4>1, <3>1 DEF InsertFace, BioFail, Answer, Rest, FaceUndisturbed
      <4>3. bio[p].at = "update_face" => ~UpdateFace(p) \/ ~BioFail(p)
        BY <2>0, <4>1, <3>1 DEF UpdateFace, BioFail, Answer, Rest, FaceUndisturbed
      <4>4. QED
        BY <2>8, <3>1, <4>2, <4>3 DEF InsertFace, UpdateFace
    <3>2. CASE p # r
      BY <2>0, <2>4, <2>8, <3>2 DEF BioFail
    <3>3. QED
      BY <3>1, <3>2
  <2>9. ASSUME NEW r \in Reqs, InsertFace(r) \/ UpdateFace(r), BioRemember
        PROVE  FaceUndisturbed(p)'
    BY <2>5, <2>8, <2>9 DEF InsertFace, UpdateFace
  \* Deleting a face races all who are about to write it.
  <2>10. ASSUME NEW r \in Reqs, DeleteFaceRow(r), BioRemember
         PROVE  FaceUndisturbed(p)'
    <3>1. CASE Answer(r)
      BY <2>5, <2>10, <3>1
    <3>2. CASE ~Answer(r) /\ p # r
      <4>1. bio'[p] = IF Outdated(p, bio[r].user) THEN [bio[p] EXCEPT !.gone = TRUE] ELSE bio[p]
        BY <2>10, <3>2 DEF DeleteFaceRow
      <4>2. CASE ~Outdated(p, bio[r].user)
        BY <2>4, <2>10, <4>1, <4>2
      <4>3. CASE Outdated(p, bio[r].user)
        <5>1. bio'[p].at = bio[p].at /\ bio[p].at \in {"update_face", "delete_face"}
              /\ bio[p].user = bio[r].user
          BY <2>0, <4>1, <4>3 DEF Outdated
        <5>2. bio[p].user \in Enrollers /\ ~face'[bio[p].user]
          BY <2>0, <2>10, <3>2, <5>1 DEF DeleteFaceRow
        <5>3. face[bio[p].user]
          BY <2>3, <2>10, <5>1 DEF FaceUndisturbed
        <5>4. QED
          BY <2>3, <2>10, <5>1, <5>2, <5>3
      <4>4. QED
        BY <4>2, <4>3
    <3>3. CASE ~Answer(r) /\ p = r
      BY <2>2, <2>10, <3>3 DEF DeleteFaceRow, Rest
    <3>4. QED
      BY <3>1, <3>2, <3>3
  <2>11. QED
    BY <2>1, <2>6, <2>7, <2>9, <2>10 DEF BioNext
<1>3. FaceUndisturbance => FaceFailsOnConflict
  BY DEF FaceUndisturbance, FaceUndisturbed, FaceFailsOnConflict
<1>4. QED
  BY <1>1, <1>2, <1>3, BioTablesHold, PTL DEF BioSpec
=============================================================================
