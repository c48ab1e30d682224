----------------------- MODULE ConnectionRegistryProofs -----------------------
(***************************************************************************)
(* Proofs about ConnectionRegistry, for any number of connections and      *)
(* senders.                                                                *)
(***************************************************************************)
EXTENDS ConnectionRegistry, TLAPS

\* The manager's dictionaries and every coroutine's position stay well formed
\* through every step of the endpoint, the senders and the monitor.
THEOREM TypeCorrect == Spec => []TypeOK
<1> USE SocketAssumption DEF TypeOK, Handlers, Serving
<1>1. Init => TypeOK
  BY DEF Init
<1>2. TypeOK /\ [Next]_vars => TypeOK'
  <2> SUFFICES ASSUME TypeOK, [Next]_vars
               PROVE  TypeOK'
    OBVIOUS
  <2>1. ASSUME NEW w \in Sockets, ConnectFirst(w)
        PROVE  TypeOK'
    BY <2>1 DEF ConnectFirst, Register
  <2>2. ASSUME NEW w \in Sockets, ConnectOver(w)
        PROVE  TypeOK'
    BY <2>2 DEF ConnectOver, Abandon, Online
  <2>3. ASSUME NEW w \in Sockets, CloseReturns(w)
        PROVE  TypeOK'
    BY <2>3 DEF CloseReturns, Register, Abandon
  <2>4. ASSUME NEW w \in Sockets, Heartbeat(w)
        PROVE  TypeOK'
    BY <2>4 DEF Heartbeat
  <2>5. ASSUME NEW w \in Sockets, End(w)
        PROVE  TypeOK'
    BY <2>5 DEF End, DisconnectVault
  <2>6. ASSUME NEW w \in Sockets, Lose(w)
        PROVE  TypeOK'
    BY <2>6 DEF Lose
  <2>7. ASSUME NEW s \in Senders, Send(s)
        PROVE  TypeOK'
    BY <2>7 DEF Send
  <2>8. ASSUME NEW s \in Senders, SendReturns(s)
        PROVE  TypeOK'
    BY <2>8 DEF SendReturns
  <2>9. ASSUME NEW s \in Senders, SendRaises(s)
        PROVE  TypeOK'
    BY <2>9 DEF SendRaises, DisconnectVault, Online
  <2>10. CASE Silence
    BY <2>10 DEF Silence
  <2>11. CASE MonitorWakes
    BY <2>11 DEF MonitorWakes
  <2>12. CASE MonitorDrops
    BY <2>12 DEF MonitorDrops, DisconnectVault, Online
  <2>13. CASE UNCHANGED vars
    BY <2>13 DEF vars
  <2>14. QED
    BY <2>1, <2>2, <2>3, <2>4, <2>5, <2>6, <2>7, <2>8, <2>9, <2>10, <2>11, <2>12, <2>13
       DEF Next
<1>3. QED
  BY <1>1, <1>2, PTL DEF Spec

\* What the registry, the metadata and the heartbeat rest on, together: each is
\* written only by a serving handler or taken out with it.
DictionariesServed == RegistryServed /\ MetadataServed /\ BeatServed

\* Whatever order connections, heartbeats, failed sends and monitor rounds come
\* in, no dictionary of the manager outlives the handlers it speaks of.
THEOREM DictionariesHold == Spec => []DictionariesServed
<1> USE SocketAssumption
        DEF DictionariesServed, RegistryServed, MetadataServed, BeatServed, Online, Serving
<1>1. Init => DictionariesServed
  BY DEF Init
<1>2. TypeOK /\ DictionariesServed /\ [Next]_vars => DictionariesServed'
  <2> SUFFICES ASSUME TypeOK, DictionariesServed, [Next]_vars
               PROVE  DictionariesServed'
    OBVIOUS
  <2> USE DEF TypeOK, Handlers
  <2>1. ASSUME NEW w \in Sockets, ConnectFirst(w)
        PROVE  DictionariesServed'
    BY <2>1 DEF ConnectFirst, Register
  <2>2. ASSUME NEW w \in Sockets, ConnectOver(w)
        PROVE  DictionariesServed'
    BY <2>2 DEF ConnectOver, Abandon, Online
  <2>3. ASSUME NEW w \in Sockets, CloseReturns(w)
        PROVE  DictionariesServed'
    BY <2>3 DEF CloseReturns, Register, Abandon
  <2>4. ASSUME NEW w \in Sockets, Heartbeat(w)
        PROVE  DictionariesServed'
    BY <2>4 DEF Heartbeat
  <2>5. ASSUME NEW w \in Sockets, End(w)
        PROVE  DictionariesServed'
    BY <2>5 DEF End, DisconnectVault
  <2>6. ASSUME NEW w \in Sockets, Lose(w)
        PROVE  DictionariesServed'
    BY <2>6 DEF Lose
  <2>7. ASSUME NEW s \in Senders, Send(s)
        PROVE  DictionariesServed'
    BY <2>7 DEF Send
  <2>8. ASSUME NEW s \in Senders, SendReturns(s)
        PROVE  DictionariesServed'
    BY <2>8 DEF SendReturns
  <2>9. ASSUME NEW s \in Senders, SendRaises(s)
        PROVE  DictionariesServed'
    BY <2>9 DEF SendRaises, DisconnectVault, Online
  <2>10. CASE Silence
    BY <2>10 DEF Silence
  <2>11. CASE MonitorWakes
    BY <2>11 DEF MonitorWakes
  <2>12. CASE MonitorDrops
    BY <2>12 DEF MonitorDrops, DisconnectVault, Online
  <2>13. CASE UNCHANGED vars
    BY <2>13 DEF vars
  <2>14. QED
    BY <2>1, <2>2, <2>3, <2>4, <2>5, <2>6, <2>7, <2>8, <2>9, <2>10, <2>11, <2>12, <2>13
       DEF Next
<1>3. QED
  BY <1>1, <1>2, TypeCorrect, PTL DEF Spec

\* No metadata outlives its connection's handler.
THEOREM MetadataHolds == Spec => []MetadataServed
<1>1. DictionariesServed => MetadataServed
  BY DEF DictionariesServed
<1>2. QED
  BY <1>1, DictionariesHold, PTL

\* The registry names only connections whose handler can still take them out.
THEOREM RegistryHolds == Spec => []RegistryServed
<1>1. DictionariesServed => RegistryServed
  BY DEF DictionariesServed
<1>2. QED
  BY <1>1, DictionariesHold, PTL

\* No heartbeat entry outlives every handler of the vault.
THEOREM BeatHolds == Spec => []BeatServed
<1>1. DictionariesServed => BeatServed
  BY DEF DictionariesServed
<1>2. QED
  BY <1>1, DictionariesHold, PTL

\* The registry refines the abstract presence: a connection takes the role once
\* and never again after it has lost it.
THEOREM PresenceImplemented == Spec => ImplementsPresence
<1> USE SocketAssumption
<1>1. Init => Presence!PresenceInit
  BY DEF Init, Presence!PresenceInit
<1>2. TypeOK /\ [Next]_vars => [Presence!PresenceNext]_(Presence!presenceVars)
  <2> SUFFICES ASSUME TypeOK, [Next]_vars
               PROVE  Presence!PresenceNext \/ UNCHANGED Presence!presenceVars
    OBVIOUS
  <2> USE DEF Presence!PresenceNext, Presence!presenceVars, Presence!Appear,
              Presence!Refuse, Presence!Vanish, TypeOK, Handlers
  <2>1. ASSUME NEW w \in Sockets, ConnectFirst(w)
        PROVE  Presence!PresenceNext \/ UNCHANGED Presence!presenceVars
    BY <2>1 DEF ConnectFirst, Register
  <2>2. ASSUME NEW w \in Sockets, ConnectOver(w)
        PROVE  Presence!PresenceNext \/ UNCHANGED Presence!presenceVars
    BY <2>2 DEF ConnectOver, Abandon, Online
  <2>3. ASSUME NEW w \in Sockets, CloseReturns(w)
        PROVE  Presence!PresenceNext \/ UNCHANGED Presence!presenceVars
    BY <2>3 DEF CloseReturns, Register, Abandon
  <2>4. ASSUME NEW w \in Sockets, Heartbeat(w)
        PROVE  Presence!PresenceNext \/ UNCHANGED Presence!presenceVars
    BY <2>4 DEF Heartbeat
  <2>5. ASSUME NEW w \in Sockets, End(w)
        PROVE  Presence!PresenceNext \/ UNCHANGED Presence!presenceVars
    BY <2>5 DEF End, DisconnectVault
  <2>6. ASSUME NEW w \in Sockets, Lose(w)
        PROVE  Presence!PresenceNext \/ UNCHANGED Presence!presenceVars
    BY <2>6 DEF Lose
  <2>7. ASSUME NEW s \in Senders, Send(s)
        PROVE  Presence!PresenceNext \/ UNCHANGED Presence!presenceVars
    BY <2>7 DEF Send
  <2>8. ASSUME NEW s \in Senders, SendReturns(s)
        PROVE  Presence!PresenceNext \/ UNCHANGED Presence!presenceVars
    BY <2>8 DEF SendReturns
  <2>9. ASSUME NEW s \in Senders, SendRaises(s)
        PROVE  Presence!PresenceNext \/ UNCHANGED Presence!presenceVars
    BY <2>9 DEF SendRaises, DisconnectVault, Online
  <2>10. CASE Silence
    BY <2>10 DEF Silence
  <2>11. CASE MonitorWakes
    BY <2>11 DEF MonitorWakes
  <2>12. CASE MonitorDrops
    BY <2>12 DEF MonitorDrops, DisconnectVault, Online
  <2>13. CASE UNCHANGED vars
    BY <2>13 DEF vars
  <2>14. QED
    BY <2>1, <2>2, <2>3, <2>4, <2>5, <2>6, <2>7, <2>8, <2>9, <2>10, <2>11, <2>12, <2>13
       DEF Next
<1>3. QED
  BY <1>1, <1>2, TypeCorrect, PTL DEF Spec, ImplementsPresence, Presence!PresenceSpec
=============================================================================
