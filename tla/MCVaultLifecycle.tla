--------------------------- MODULE MCVaultLifecycle ---------------------------
(***************************************************************************)
(* Small instances of VaultLifecycle for TLC.                              *)
(***************************************************************************)
EXTENDS VaultLifecycle, TLC

Symmetry == Permutations(Ops) \cup Permutations(Users)

\* The history of vaults that are deleted: an id is never used again, and no action
\* and no property of the watched run looks at it.
LiveHistory ==
  <<[t \in Tokens |-> uses[t] \cap Ids], {k \in kept : k[2] \in Ids},
    {r \in redeemed : r[1] \in Ids}, opened \cap Ids>>

View == <<rows, issued, tokens, op, loop, LiveHistory>>

\* Docs/PROVISIONING.md: "The token is immediately deleted from Redis after
\* retrieval. It is one-time use only."
TokenUsedOnce == \A t \in Tokens : Cardinality(uses[t]) <= 1

\* process_vault_state_update.py: "Updates vault status in database": saving what
\* a device reports leaves the vault's PIN as it is.
StateUpdateKeepsPin ==
  [][\A o \in Ops, h \in Hardware :
       Update(o) /\ op[o].kind = "state_update" => rows'[h].pin = rows[h].pin]_vars
=============================================================================
