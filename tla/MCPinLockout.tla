----------------------------- MODULE MCPinLockout -----------------------------
(***************************************************************************)
(* Small instances of PinLockout for TLC.                                  *)
(***************************************************************************)
EXTENDS PinLockout

\* Docs/SECURITY.md: "Maximum 5 attempts per 15 minutes per vault".  One window
\* (the life of the counter key) counts no more than MaxAttempts attempts.
AtMostMaxAttempts == attempts <= MaxAttempts
=============================================================================
