------------------------------ MODULE VaultAccess ------------------------------
(***************************************************************************)
(* Who may do what with the vault of one device: its owner (vaults) and    *)
(* its members' roles (vault_authorizations), the requests that check them *)
(* and those that change them.  A request's SQL statements run one at a    *)
(* time; the statements of other requests come in between.  A request that *)
(* its first statement refuses changes nothing and is no action.           *)
(*                                                                         *)
(* The owner's changes come from the operations of VaultLifecycle, of      *)
(* which only what they commit is seen here.  The rows of users are never  *)
(* deleted, so the SELECTs of the target and of the listed users are not   *)
(* statements of the model.                                                *)
(***************************************************************************)
EXTENDS Naturals

CONSTANTS
  Reqs,       \* bound: requests in progress at once
  Users,
  Roles,      \* the roles an owner grants
  MaxVaults,  \* bound: the vault is not deleted once so many rows have been created
  None

ASSUME AccessAssumption ==
  /\ Roles \subseteq {"ADMIN", "MEMBER", "VIEWER"}
  /\ MaxVaults \in Nat
  /\ None \notin Users

VARIABLES
  vault,   \* the device's row in vaults; id 0: there is none
  issued,  \* rows created so far: their ids are 1..issued
  roles,   \* the vault's rows in vault_authorizations, by user
  req,     \* the requests' local state
  owned,   \* history: the users who have owned the current vault
  may,     \* history: the requests whose user has had the right they need
  crossed  \* history: the requests during which another one changed their rows

vars == <<vault, issued, roles, req, owned, may, crossed>>

NoVault == [id |-> 0, owner |-> None, reset |-> FALSE]

Grants == [role : Roles, by : Users]

\* `at' is the statement a request is about to execute and `gone' whether the row
\* it has written has been deleted since.
Frame == [at : {"idle", "select", "role", "serve", "lookup", "insert", "update", "refresh",
                "delete", "failed"},
          kind : {"none", "view", "pin", "unlock", "add", "remove"}, user : Users \cup {None},
          id : Nat, target : Users \cup {None}, role : Roles \cup {None}, gone : BOOLEAN]

Idle == [at |-> "idle", kind |-> "none", user |-> None, id |-> 0, target |-> None,
         role |-> None, gone |-> FALSE]

TypeOK ==
  /\ vault \in [id : 0..issued, owner : Users \cup {None}, reset : BOOLEAN]
  /\ issued \in Nat
  /\ roles \in [Users -> Grants \cup {None}]
  /\ req \in [Reqs -> Frame]
  /\ owned \subseteq Users
  /\ may \subseteq Reqs
  /\ crossed \subseteq Reqs

Init ==
  /\ vault = NoVault
  /\ issued = 0
  /\ roles = [u \in Users |-> None]
  /\ req = [r \in Reqs |-> Idle]
  /\ owned = {}
  /\ may = {}
  /\ crossed = {}

CanUnlock(role) == role \in {"ADMIN", "MEMBER"}

\* What the user of frame f needs for f.kind, when the rows are v and rs.
Permitted(f, v, rs) ==
  /\ f.id = v.id
  /\ \/ f.user = v.owner
     \/ f.kind = "view" /\ rs[f.user] # None
     \/ f.kind \in {"pin", "unlock"} /\ rs[f.user] # None /\ CanUnlock(rs[f.user].role)

\* The history of a step, whatever it did.
Remember ==
  /\ owned' = IF vault'.id = 0 THEN {}
              ELSE {vault'.owner} \cup (IF vault'.id = vault.id THEN owned ELSE {})
  /\ may' = {r \in Reqs : /\ req'[r].kind # "none"
                          /\ r \in may \/ Permitted(req'[r], vault', roles')}
  /\ crossed' = {r \in Reqs :
       /\ req'[r].at # "idle"
       /\ \/ r \in crossed
          \/ req[r].id = vault.id /\ vault'.id # vault.id
          \/ /\ req[r].target # None
             /\ roles'[req[r].target] # roles[req[r].target]
             /\ req'[r].at = req[r].at}

Become(r, f) == req' = [req EXCEPT ![r] = f]

Goto(r, at) == Become(r, [req[r] EXCEPT !.at = at])

Finish(r) == Become(r, Idle)

Abort(r) == Become(r, [Idle EXCEPT !.at = "failed"])

\* Mutants of the operators below, for testing the properties: a role lets its user
\* do anything, members add members, a member is inserted without a look, and the vaults
\* are listed by an inner join.
RoleIsEnough(r) ==
  /\ req[r].at = "role"
  /\ IF req[r].id = vault.id /\ roles[req[r].user] # None THEN Goto(r, "serve") ELSE Finish(r)
  /\ UNCHANGED <<vault, issued, roles>>

MemberAdds(r, u, target, role) ==
  /\ vault.id # 0 /\ target # vault.owner
  /\ u = vault.owner \/ roles[u] # None
  /\ req[r].at = "idle"
  /\ Become(r, [Idle EXCEPT !.at = "lookup", !.kind = "add", !.user = u, !.id = vault.id,
                            !.target = target, !.role = role])
  /\ UNCHANGED <<vault, issued, roles>>

InsertUnseen(r) ==
  /\ req[r].at = "lookup"
  /\ Goto(r, "insert")
  /\ UNCHANGED <<vault, issued, roles>>

MembersListed == {u \in Users : vault.id # 0 /\ roles[u] # None}

-----------------------------------------------------------------------------
\* CheckVaultAccess: SELECT the vault, then, unless its owner asks, the user's
\* role.  get_by_id of the vault is the request's first statement.
Begin(r, kind, u) ==
  /\ req[r].at = "idle"
  /\ vault.id # 0
  /\ Become(r, [Idle EXCEPT !.at = IF kind = "unlock" THEN "select"
                                   ELSE IF u = vault.owner THEN "serve" ELSE "role",
                            !.kind = kind, !.user = u, !.id = vault.id])
  /\ UNCHANGED <<vault, issued, roles>>

\* SendUnlockCommand has got the vault itself first.  A vault deleted since then
\* raises VaultNotFoundError, which the endpoint does not expect.
SelectVault(r) ==
  /\ req[r].at = "select"
  /\ IF req[r].id # vault.id
       THEN Abort(r)
       ELSE Goto(r, IF req[r].user = vault.owner THEN "serve" ELSE "role")
  /\ UNCHANGED <<vault, issued, roles>>

\* get_user_role: any role may view, can_unlock() is asked for the rest.
CheckRole(r) ==
  LET f == req[r]
      row == IF f.id = vault.id THEN roles[f.user] ELSE None
  IN
  /\ f.at = "role"
  /\ IF row # None /\ (f.kind = "view" \/ CanUnlock(row.role)) THEN Goto(r, "serve")
                                                               ELSE Finish(r)
  /\ UNCHANGED <<vault, issued, roles>>

\* What was asked for: the status, the members, the activity log, whether a PIN is
\* set; an operation on the PIN.
Serve(r) ==
  /\ req[r].at = "serve"
  /\ req[r].kind # "unlock"
  /\ Finish(r)
  /\ UNCHANGED <<vault, issued, roles>>

\* The command goes to the device connected under the vault's id, or the answer is
\* 503; the rows are not read again, and a log entry that fails is only warned about.
SendCommand(r) ==
  /\ req[r].at = "serve"
  /\ req[r].kind = "unlock"
  /\ Finish(r)
  /\ UNCHANGED <<vault, issued, roles>>

\* Who adds and removes members: the use cases compare the actor with the owner and
\* do not ask VaultRole.can_manage_members, which an ADMIN would pass.
Manages(u) == vault.id # 0 /\ u = vault.owner

\* AddVaultMember, asked for by the owner, for anyone else.
Add(r, u, target, role) ==
  /\ req[r].at = "idle"
  /\ Manages(u)
  /\ target # vault.owner
  /\ Become(r, [Idle EXCEPT !.at = "lookup", !.kind = "add", !.user = u, !.id = vault.id,
                            !.target = target, !.role = role])
  /\ UNCHANGED <<vault, issued, roles>>

Row(r) == IF req[r].id = vault.id THEN roles[req[r].target] ELSE None

\* get_by_vault_and_user
Lookup(r) ==
  /\ req[r].at = "lookup"
  /\ Goto(r, IF Row(r) = None THEN "insert" ELSE "update")
  /\ UNCHANGED <<vault, issued, roles>>

\* create: the unique constraint and the foreign key refuse a second row and a
\* vault that has gone; the error is not caught.
Insert(r) ==
  LET f == req[r] IN
  /\ f.at = "insert"
  /\ IF f.id = vault.id /\ Row(r) = None
       THEN /\ roles' = [roles EXCEPT ![f.target] = [role |-> f.role, by |-> f.user]]
            /\ Become(r, [req[r] EXCEPT !.at = "refresh", !.role = None])
       ELSE Abort(r) /\ UNCHANGED roles
  /\ UNCHANGED <<vault, issued>>

\* update_role sets the role and leaves granted_by; no row raises RuntimeError.
UpdateRole(r) ==
  /\ req[r].at = "update"
  /\ IF Row(r) # None
       THEN /\ roles' = [roles EXCEPT ![req[r].target].role = req[r].role]
            /\ Become(r, [req[r] EXCEPT !.at = "refresh", !.role = None])
       ELSE Abort(r) /\ UNCHANGED roles
  /\ UNCHANGED <<vault, issued>>

\* The committed row is read again for the answer; it must still be there.
Refresh(r) ==
  /\ req[r].at = "refresh"
  /\ IF req[r].gone THEN Abort(r) ELSE Finish(r)
  /\ UNCHANGED <<vault, issued, roles>>

\* RemoveVaultMember, asked for by the owner, for anyone else.
Remove(r, u, target) ==
  /\ req[r].at = "idle"
  /\ Manages(u)
  /\ target # vault.owner
  /\ Become(r, [Idle EXCEPT !.at = "delete", !.kind = "remove", !.user = u, !.id = vault.id,
                            !.target = target])
  /\ UNCHANGED <<vault, issued, roles>>

\* The row of request p, already written, is one of the rows of `users'.
Written(p, users) ==
  req[p].at = "refresh" /\ req[p].id = vault.id /\ req[p].target \in users

\* Those rows are deleted in the step that makes r's frame f.
Deleted(r, f, users) ==
  req' = [p \in Reqs |-> IF p = r THEN f
                         ELSE IF Written(p, users) THEN [req[p] EXCEPT !.gone = TRUE]
                         ELSE req[p]]

\* delete: no error if there is no row.
DeleteRole(r) ==
  /\ req[r].at = "delete"
  /\ IF Row(r) # None
       THEN /\ roles' = [roles EXCEPT ![req[r].target] = None]
            /\ Deleted(r, Idle, {req[r].target})
       ELSE Finish(r) /\ UNCHANGED roles
  /\ UNCHANGED <<vault, issued>>

\* The error has been answered with 500.
Fail(r) ==
  /\ req[r].at = "failed"
  /\ Finish(r)
  /\ UNCHANGED <<vault, issued, roles>>

-----------------------------------------------------------------------------
\* A registration inserts the device's row or takes over the one that is reset,
\* with the members it has.
Register(u) ==
  /\ \/ vault.id = 0
        /\ issued' = issued + 1
        /\ vault' = [id |-> issued + 1, owner |-> u, reset |-> FALSE]
     \/ vault.reset
        /\ vault' = [vault EXCEPT !.owner = u, !.reset = FALSE]
        /\ UNCHANGED issued
  /\ UNCHANGED <<roles, req>>

\* A reset by the owner or, to the same effect on these columns, a report of the
\* vault's own device that it awaits provisioning.
ResetVault ==
  /\ vault.id # 0
  /\ vault' = [vault EXCEPT !.reset = TRUE]
  /\ UNCHANGED <<issued, roles, req>>

\* An operation that holds an older copy of the row saves every column of it.
SaveOutdated(u, reset) ==
  /\ vault.id # 0
  /\ u \in owned
  /\ vault' = [vault EXCEPT !.owner = u, !.reset = reset]
  /\ UNCHANGED <<issued, roles, req>>

\* The members' rows go with the vault (ON DELETE CASCADE).
DeleteVault ==
  /\ vault.id # 0
  /\ issued < MaxVaults
  /\ vault' = NoVault
  /\ roles' = [u \in Users |-> None]
  /\ req' = [p \in Reqs |-> IF Written(p, Users) THEN [req[p] EXCEPT !.gone = TRUE] ELSE req[p]]
  /\ UNCHANGED issued

Next ==
  /\ \/ \E r \in Reqs, u \in Users :
          \/ \E kind \in {"view", "pin", "unlock"} : Begin(r, kind, u)
          \/ \E target \in Users : \/ \E role \in Roles : Add(r, u, target, role)
                                   \/ Remove(r, u, target)
     \/ \E r \in Reqs :
          \/ SelectVault(r)
          \/ CheckRole(r)
          \/ Serve(r)
          \/ SendCommand(r)
          \/ Lookup(r)
          \/ Insert(r)
          \/ UpdateRole(r)
          \/ Refresh(r)
          \/ DeleteRole(r)
          \/ Fail(r)
     \/ \E u \in Users : \/ Register(u)
                         \/ \E reset \in BOOLEAN : SaveOutdated(u, reset)
     \/ ResetVault
     \/ DeleteVault
  /\ Remember

Spec == Init /\ [][Next]_vars

-----------------------------------------------------------------------------
\* Whose list the vault is in: an outer join of the vault with the user's own row,
\* for the vaults that the user owns or has a row for.
Listed == {u \in Users : vault.id # 0 /\ (u = vault.owner \/ roles[u] # None)}

\* The role shown to user u with the vault; one without owner or row is a viewer.
Shown(u) ==
  IF u \notin Listed THEN None
  ELSE IF u = vault.owner THEN "OWNER"
  ELSE IF roles[u] # None THEN roles[u].role ELSE "VIEWER"

\* The answer of CheckVaultAccess to user u when nothing comes in between.
Checked(u) ==
  IF vault.id = 0 THEN None
  ELSE IF vault.owner = u THEN "OWNER"
  ELSE IF roles[u] = None THEN None ELSE roles[u].role

\* However roles are granted while the vault changes hands, every member's role
\* was granted by a user who has owned this very vault.  This is the use cases' own
\* rule, an owner only: VaultRole and Docs/SECURITY.md let an ADMIN grant roles too.
GrantedByOwner == \A u \in Users : roles[u] # None => roles[u].by \in owned

\* The rows checked one after the other, and before what they are checked for: a
\* request that gets as far as being served has had, at some moment since it
\* began, the right that it needs, as a whole and for this very vault.
ServedHadAccess ==
  \A r \in Reqs : req[r].at \in {"serve", "lookup", "insert", "update", "refresh", "delete"}
                    => r \in may

\* Additions fail with an internal error only in a race: another request or the
\* vault's deletion has changed the rows that they looked at.
FailsOnConflict == \A r \in Reqs : req[r].at = "failed" => r \in crossed

\* The two ways the code resolves a user's role agree, also for an owner who is
\* a member still and for members who outlived the owner that added them.
ListAgreesWithCheck == \A u \in Users : Shown(u) = Checked(u)
=============================================================================
