----------------------------- MODULE OneTimeSecret -----------------------------
(***************************************************************************)
(* What a one-time password, a signup ticket or a password reset token     *)
(* promises, whatever commands it takes: it lets one request go on, once   *)
(* each time that it is issued.                                            *)
(***************************************************************************)
EXTENDS Naturals

CONSTANT Keys  \* Redis keys, one for each secret

VARIABLES
  redeemable,  \* the keys whose secret lets a request go on
  granted      \* how many requests each key has let go on since it was issued

SecretInit ==
  /\ redeemable = {}
  /\ granted = [k \in Keys |-> 0]

Issue(k) ==
  /\ redeemable' = redeemable \cup {k}
  /\ granted' = [granted EXCEPT ![k] = 0]

Grant(k) ==
  /\ k \in redeemable
  /\ redeemable' = redeemable \ {k}
  /\ granted' = [granted EXCEPT ![k] = @ + 1]

\* Expired, or lost with the answer of the command that took it.
Lapse(k) ==
  /\ redeemable' = redeemable \ {k}
  /\ UNCHANGED granted

SecretNext == \E k \in Keys : Issue(k) \/ Grant(k) \/ Lapse(k)

SecretSpec == SecretInit /\ [][SecretNext]_<<redeemable, granted>>
=============================================================================
