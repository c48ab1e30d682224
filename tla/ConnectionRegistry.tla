-------------------------- MODULE ConnectionRegistry --------------------------
(***************************************************************************)
(* The device side of WebSocketManager, for one vault: the coroutines of   *)
(* the /ws/vault endpoint (one per connection), the heartbeat monitor and  *)
(* the coroutines that send a command to the vault.  They share the        *)
(* manager's dictionaries on one event loop, so each action is the code    *)
(* from one await that really suspends to the next.  Vaults have entries   *)
(* of their own and do not interact.                                       *)
(***************************************************************************)
CONSTANTS
  Sockets,   \* bound: connections the device opens, each once
  Senders,   \* coroutines that call send_to_vault
  NoSocket

ASSUME SocketAssumption == NoSocket \notin Sockets

VARIABLES
  registered,  \* vault_connections[vault]
  metadata,    \* connections with an entry in connection_metadata
  beat,        \* last_heartbeat[vault]: absent, within or past the threshold
  handler,     \* where the endpoint's coroutine for each connection is
  replaces,    \* the old connection a handler is closing
  closed,      \* connections the server has closed
  gone,        \* connections whose peer is gone
  monitor,     \* where the heartbeat monitor is
  target       \* the connection each sender is sending on

vars == <<registered, metadata, beat, handler, replaces, closed, gone, monitor, target>>

Handlers == {"new", "closing", "serving", "ended"}

TypeOK ==
  /\ registered \in Sockets \cup {NoSocket}
  /\ metadata \subseteq Sockets
  /\ beat \in {"absent", "fresh", "stale"}
  /\ handler \in [Sockets -> Handlers]
  /\ replaces \in [Sockets -> Sockets \cup {NoSocket}]
  /\ closed \subseteq Sockets
  /\ gone \subseteq Sockets
  /\ monitor \in {"sleep", "notify"}
  /\ target \in [Senders -> Sockets \cup {NoSocket}]

Serving == {w \in Sockets : handler[w] = "serving"}

Online == registered # NoSocket

Init ==
  /\ registered = NoSocket
  /\ metadata = {}
  /\ beat = "absent"
  /\ handler = [w \in Sockets |-> "new"]
  /\ replaces = [w \in Sockets |-> NoSocket]
  /\ closed = {}
  /\ gone = {}
  /\ monitor = "sleep"
  /\ target = [s \in Senders |-> NoSocket]

\* Mutants of the operators below, for testing the properties: disconnect_vault
\* leaves the registry alone, or does nothing for a connection that is not the
\* registered one; a heartbeat registers its connection; the monitor only tells;
\* connect_vault closes the registered connection without asking if there is one.
KeepEntry(w) ==
  /\ metadata' = metadata \ {w}
  /\ beat' = "absent"
  /\ UNCHANGED registered

DisconnectOnlyRegistered(w) ==
  IF registered = w
    THEN registered' = NoSocket /\ metadata' = metadata \ {w} /\ beat' = "absent"
    ELSE UNCHANGED <<registered, metadata, beat>>

HeartbeatRegisters(w) ==
  /\ handler[w] = "serving"
  /\ registered' = w
  /\ metadata' = metadata \cup {w}
  /\ beat' = "fresh"
  /\ UNCHANGED <<handler, replaces, closed, gone, monitor, target>>

MonitorOnlyTells ==
  /\ monitor = "notify"
  /\ monitor' = "sleep"
  /\ UNCHANGED <<registered, metadata, beat, handler, replaces, closed, gone, target>>

CloseUnasked(w) ==
  /\ handler[w] = "new"
  /\ handler' = [handler EXCEPT ![w] = "closing"]
  /\ replaces' = [replaces EXCEPT ![w] = registered]
  /\ closed' = closed \cup {registered}
  /\ UNCHANGED <<registered, metadata, beat, gone, monitor, target>>

-----------------------------------------------------------------------------
\* The end of connect_vault: whatever is in the registry is overwritten.
Register(w) ==
  /\ registered' = w
  /\ metadata' = metadata \cup {w}
  /\ beat' = "fresh"
  /\ handler' = [handler EXCEPT ![w] = "serving"]

\* The call fails and the exception leaves the endpoint, outside its try block.
Abandon(w) ==
  /\ handler' = [handler EXCEPT ![w] = "ended"]
  /\ UNCHANGED <<registered, metadata, beat>>

\* disconnect_vault(w): only the registry entry is compared with w.
DisconnectVault(w) ==
  /\ registered' = IF registered = w THEN NoSocket ELSE registered
  /\ metadata' = metadata \ {w}
  /\ beat' = "absent"

\* connect_vault with no connection in the registry: nothing to wait for.
ConnectFirst(w) ==
  /\ handler[w] = "new"
  /\ ~Online
  /\ Register(w)
  /\ UNCHANGED <<replaces, closed, gone, monitor, target>>

\* connect_vault closes the registered connection and waits for that; a second
\* close of one connection raises.
ConnectOver(w) ==
  /\ handler[w] = "new"
  /\ Online
  /\ IF registered \in closed
       THEN Abandon(w) /\ UNCHANGED <<replaces, closed>>
       ELSE /\ handler' = [handler EXCEPT ![w] = "closing"]
            /\ replaces' = [replaces EXCEPT ![w] = registered]
            /\ closed' = closed \cup {registered}
            /\ UNCHANGED <<registered, metadata, beat>>
  /\ UNCHANGED <<gone, monitor, target>>

\* The close returns, or raises because its peer is gone already.
CloseReturns(w) ==
  /\ handler[w] = "closing"
  /\ Register(w) \/ (replaces[w] \in gone /\ Abandon(w))
  /\ replaces' = [replaces EXCEPT ![w] = NoSocket]
  /\ UNCHANGED <<closed, gone, monitor, target>>

\* A heartbeat message, one that was already received when the connection was
\* closed or lost included.  Whether the connection is registered is not asked.
Heartbeat(w) ==
  /\ handler[w] = "serving"
  /\ beat' = "fresh"
  /\ UNCHANGED <<registered, metadata, handler, replaces, closed, gone, monitor, target>>

\* The receive loop ends and its finally block runs.
End(w) ==
  /\ handler[w] = "serving"
  /\ w \in closed \cup gone
  /\ DisconnectVault(w)
  /\ handler' = [handler EXCEPT ![w] = "ended"]
  /\ UNCHANGED <<replaces, closed, gone, monitor, target>>

\* The device hangs up, crashes, loses its network or sends what ends the loop.
Lose(w) ==
  /\ handler[w] \in {"closing", "serving"}
  /\ w \notin gone
  /\ gone' = gone \cup {w}
  /\ UNCHANGED <<registered, metadata, beat, handler, replaces, closed, monitor, target>>

\* send_to_vault up to the await of send_json, on the connection of that moment.
Send(s) ==
  /\ target[s] = NoSocket
  /\ Online
  /\ target' = [target EXCEPT ![s] = registered]
  /\ UNCHANGED <<registered, metadata, beat, handler, replaces, closed, gone, monitor>>

SendReturns(s) ==
  /\ target[s] # NoSocket
  /\ target' = [target EXCEPT ![s] = NoSocket]
  /\ UNCHANGED <<registered, metadata, beat, handler, replaces, closed, gone, monitor>>

\* The except block looks the connection up again: it drops whichever is there
\* by now, or ends in a KeyError when none is.
SendRaises(s) ==
  /\ target[s] \in closed \cup gone
  /\ IF Online THEN DisconnectVault(registered) ELSE UNCHANGED <<registered, metadata, beat>>
  /\ target' = [target EXCEPT ![s] = NoSocket]
  /\ UNCHANGED <<handler, replaces, closed, gone, monitor>>

\* Two minutes pass without a heartbeat.
Silence ==
  /\ beat = "fresh"
  /\ beat' = "stale"
  /\ UNCHANGED <<registered, metadata, handler, replaces, closed, gone, monitor, target>>

\* The monitor's round: nothing timed out, or it tells the subscribers first ...
MonitorWakes ==
  /\ monitor = "sleep"
  /\ monitor' = IF beat = "stale" THEN "notify" ELSE "sleep"
  /\ UNCHANGED <<registered, metadata, beat, handler, replaces, closed, gone, target>>

\* ... and then drops the connection that is registered by now.
MonitorDrops ==
  /\ monitor = "notify"
  /\ monitor' = "sleep"
  /\ IF Online THEN DisconnectVault(registered) ELSE UNCHANGED <<registered, metadata, beat>>
  /\ UNCHANGED <<handler, replaces, closed, gone, target>>

Next ==
  \/ \E w \in Sockets :
       \/ ConnectFirst(w) \/ ConnectOver(w) \/ CloseReturns(w)
       \/ Heartbeat(w) \/ End(w) \/ Lose(w)
  \/ \E s \in Senders : Send(s) \/ SendReturns(s) \/ SendRaises(s)
  \/ Silence
  \/ MonitorWakes
  \/ MonitorDrops

Spec == Init /\ [][Next]_vars

\* The event loop resumes what can run, the monitor's sleep ends and time passes;
\* the device need not connect, send or hang up.
Fairness ==
  /\ \A w \in Sockets : WF_vars(CloseReturns(w)) /\ WF_vars(End(w))
  /\ \A s \in Senders : WF_vars(SendReturns(s) \/ SendRaises(s))
  /\ WF_vars(Silence) /\ WF_vars(MonitorWakes) /\ WF_vars(MonitorDrops)

FairSpec == Spec /\ Fairness

-----------------------------------------------------------------------------
\* The registry names only a connection whose handler is still reading from it
\* and can still take it out, whatever order connections come and go in; and
\* the two dictionaries agree on it.
RegistryServed == Online => registered \in Serving \cap metadata

\* No metadata outlives its connection's handler.
MetadataServed == metadata \subseteq Serving

\* No heartbeat outlives every handler of the vault: the monitor never goes on
\* announcing the timeout of a vault that nothing is connected for.  The entry
\* is shared by the vault's handlers, so this rests on disconnect_vault deleting
\* it whichever of them ends.
BeatServed == beat # "absent" => Serving # {}

\* A registered connection whose peer is gone does not stay registered.
LostConnectionLeaves ==
  \A w \in Sockets : (registered = w /\ w \in gone) ~> registered # w

\* A heartbeat that has timed out does not stay: it is renewed or the vault goes
\* offline, although the monitor drops the connection only after an await -- unless
\* a handler that was serving the vault then ends first.  Its disconnect_vault
\* deletes the entry the handlers share, and the monitor has nothing left to find.
StaleLeaves ==
  \A S \in SUBSET Sockets :
    (beat = "stale" /\ Serving = S) ~> (beat = "fresh" \/ ~Online \/ ~(S \subseteq Serving))

Presence == INSTANCE DevicePresence
  WITH present <- registered, used <- {w \in Sockets : handler[w] \in {"serving", "ended"}}

\* The registry implements the presence the rest of the backend relies on.
ImplementsPresence == Presence!PresenceSpec
=============================================================================
