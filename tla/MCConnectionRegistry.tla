------------------------- MODULE MCConnectionRegistry -------------------------
(***************************************************************************)
(* Small instances of ConnectionRegistry for TLC.                          *)
(***************************************************************************)
EXTENDS ConnectionRegistry

\* websocket_manager.py: "Monitor vault heartbeats and mark as offline if no
\* heartbeat received."  A connected vault is heard from again and again, or is
\* marked offline.
SilentVaultGoesOffline == []<>(~Online \/ beat = "fresh")

\* websocket_manager.py: "Disconnect existing connection (only one per vault)".
\* Of the connections being served, at most one has not been closed or lost.
OneConnectionPerVault == \A v, w \in Serving \ (closed \cup gone) : v = w
=============================================================================
