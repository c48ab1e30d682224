SPECIFICATION FairSpec
CONSTANTS
  Sockets = {w1, w2, w3}
  Senders = {s1}
  NoSocket = none
INVARIANTS
  TypeOK
  RegistryServed
  MetadataServed
  BeatServed
PROPERTIES
  LostConnectionLeaves
  StaleLeaves
  ImplementsPresence
