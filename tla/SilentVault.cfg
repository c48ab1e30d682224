SPECIFICATION FairSpec
CONSTANTS
  Sockets = {w1, w2}
  Senders = {}
  NoSocket = none
PROPERTY SilentVaultGoesOffline
