-------------------------------- MODULE MCAdmin --------------------------------
(***************************************************************************)
(* Small instances for TLC of what the admin console shows and does: the   *)
(* sessions, the reports and trends, and the console's screens.  They      *)
(* share no state; a behaviour is one of one part.                         *)
(***************************************************************************)
EXTENDS Sessions, Reports, Trends, Console

CONSTANTS p1, p2, t1, t2, t3, r1, r2, k1, c1, c2

VARIABLE part

AdminInit ==
  /\ part \in {"sessions", "reports", "console"}
  /\ SessionsInit /\ ReportsInit /\ ConsoleInit
  /\ part # "console" => screen = "dashboard"

AdminNext ==
  /\ UNCHANGED part
  /\ \/ part = "sessions" /\ SessionsNext /\ UNCHANGED <<reportsVars, consoleVars>>
     \/ part = "reports" /\ ReportsNext /\ UNCHANGED <<sessionsVars, consoleVars>>
     \/ part = "console" /\ ConsoleNext /\ UNCHANGED <<sessionsVars, reportsVars>>

AdminSpec ==
  AdminInit /\ [][AdminNext]_<<part, sessionsVars, reportsVars, consoleVars>> /\ SessionsFairness

\* Every reachable state of each part is well typed.
AdminTypeOK == SessionsTypeOK /\ ReportsTypeOK /\ ConsoleTypeOK

\* The figures of the reports that are computed twice, or from other figures, agree for
\* every input within the bounds: the severity of the alerts and the daily series.
FiguresAgree == part = "reports" => SeverityAgrees /\ SeriesFilled
=============================================================================
