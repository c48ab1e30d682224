SPECIFICATION Spec
CONSTANTS
  Sockets = {w1, w2}
  Senders = {}
  NoSocket = none
INVARIANT OneConnectionPerVault
