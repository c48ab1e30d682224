SPECIFICATION Spec
CONSTANTS
  Reqs = {r1, r2}
  Emails = {e1}
  Tickets = {t1, t2}
  ResetTokens = {k1}
  Servers = {"eval", "getdel", "plain"}
  Backends = {"resend", "emailjs", "smtp", "dev"}
  None = none
SYMMETRY Symmetry
INVARIANTS
  TypeOK
  UsesBounded
  RedeemedPaysOff
  MailAnswered
PROPERTIES
  ImplementsOneTimeSecret
