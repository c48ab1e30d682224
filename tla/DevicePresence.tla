---------------------------- MODULE DevicePresence ----------------------------
(***************************************************************************)
(* What the rest of the backend may assume of a vault's presence: at any   *)
(* time at most one of its connections stands for the device, a connection *)
(* gets that role once, and what has lost it never speaks for the device   *)
(* again.                                                                  *)
(***************************************************************************)
CONSTANTS Sockets, NoSocket

VARIABLES
  present,  \* the connection that stands for the device, or NoSocket
  used      \* connections that can no longer take the role

presenceVars == <<present, used>>

PresenceInit == present = NoSocket /\ used = {}

\* A connection takes the role, from nobody or from an older connection.
Appear(w) ==
  /\ w \notin used
  /\ present' = w
  /\ used' = used \cup {w}

\* A connection attempt comes to nothing.
Refuse(w) ==
  /\ w \notin used
  /\ used' = used \cup {w}
  /\ UNCHANGED present

\* The device is offline from here on, until another connection appears.
Vanish ==
  /\ present # NoSocket
  /\ present' = NoSocket
  /\ UNCHANGED used

PresenceNext == (\E w \in Sockets : Appear(w) \/ Refuse(w)) \/ Vanish

PresenceSpec == PresenceInit /\ [][PresenceNext]_presenceVars
=============================================================================
