------------------------------- MODULE UserRooms -------------------------------
(***************************************************************************)
(* The user side of WebSocketManager: the coroutines of the /ws/user       *)
(* endpoint (one per connection), the subscriptions to vaults, and the     *)
(* coroutines that send to a user or to the subscribers of a vault.  All   *)
(* run on one event loop: a coroutine that has been resumed goes on until  *)
(* it awaits a send, and nothing else happens in between (Suspended).      *)
(*                                                                         *)
(* send_to_user iterates over the user's list itself, not over a copy, so  *)
(* its place in the list is an index: what is removed before it while a    *)
(* send is awaited moves the rest of the list up.                          *)
(***************************************************************************)
EXTENDS Naturals, FiniteSets, Sequences, SequencesExt

CONSTANTS
  Users,
  Devices,  \* bound: a user opens one connection from each device, once
  Vaults,
  Casters,  \* coroutines that send: connect_vault, the monitor, verify_biometric
  Nobody

Conns == Users \X Devices
Owner(c) == c[1]

ASSUME RoomsAssumption == Nobody \notin Users \cup Conns /\ IsFiniteSet(Conns)

VARIABLES
  rooms,    \* user_connections: the list of each user, empty where there is no entry
  subs,     \* vault_subscriptions
  handler,  \* where the endpoint's coroutine for each connection is
  lost,     \* connections whose peer is gone
  caster    \* the senders' local state

vars == <<rooms, subs, handler, lost, caster>>

\* `todo' are the subscribers still to be told, `user' the one that is being told,
\* `pos' the index in the list, `listed' whether the list is still the one in
\* user_connections, `to' the connection a send is awaited on, `dead' those that
\* raised.  History of the current list: the connections it began with, those that
\* got the message, and those that have been removed from it since.
Frame == [at : {"idle", "run", "send", "clean"}, todo : SUBSET Users, user : Users \cup {Nobody},
          pos : Nat, listed : BOOLEAN, to : Conns \cup {Nobody}, dead : SUBSET Conns,
          began : SUBSET Conns, got : SUBSET Conns, removed : SUBSET Conns]

Idle == [at |-> "idle", todo |-> {}, user |-> Nobody, pos |-> 0, listed |-> FALSE,
         to |-> Nobody, dead |-> {}, began |-> {}, got |-> {}, removed |-> {}]

TypeOK ==
  /\ rooms \in [Users -> Seq(Conns)]
  /\ subs \in [Vaults -> SUBSET Users]
  /\ handler \in [Conns -> {"new", "serving", "ended"}]
  /\ lost \subseteq Conns
  /\ caster \in [Casters -> Frame]
  /\ \A k \in Casters :
       /\ caster[k].at = "send" <=> caster[k].to # Nobody
       /\ caster[k].user = Nobody => caster[k] = [Idle EXCEPT !.at = caster[k].at, !.todo = caster[k].todo]

Init ==
  /\ rooms = [u \in Users |-> <<>>]
  /\ subs = [v \in Vaults |-> {}]
  /\ handler = [c \in Conns |-> "new"]
  /\ lost = {}
  /\ caster = [k \in Casters |-> Idle]

Suspended == \A k \in Casters : caster[k].at \in {"idle", "send"}

\* The iterator has not come to the end of the list as it is now.
InList(k) == caster[k].listed /\ caster[k].pos <= Len(rooms[caster[k].user])

\* Mutants of the operators below, for testing the properties: disconnect_user does
\* nothing for a user without an entry, the first send that raises ends the loop, and
\* the list of the dead is kept for the next user.
DisconnectListed(u, c) ==
  IF rooms[u] = <<>> THEN UNCHANGED <<rooms, subs>>
  ELSE /\ rooms' = [rooms EXCEPT ![u] = RemoveFirst(@, c)]
       /\ subs' = [v \in Vaults |-> subs[v] \ {u}]

GiveUp(k) ==
  /\ Suspended
  /\ caster[k].at = "send"
  /\ caster[k].to \in lost
  /\ caster' = [caster EXCEPT ![k].at = "run", ![k].to = Nobody, ![k].pos = Len(rooms[caster[k].user]) + 1,
                              ![k].dead = @ \cup {caster[k].to}]
  /\ UNCHANGED <<rooms, subs, handler, lost>>

KeepDead(k) ==
  /\ caster[k].at = "run"
  /\ caster[k].user # Nobody
  /\ ~InList(k)
  /\ caster' = [caster EXCEPT ![k] = [Idle EXCEPT !.at = "run", !.todo = caster[k].todo,
                                                 !.dead = caster[k].dead]]
  /\ UNCHANGED <<rooms, subs, handler, lost>>

-----------------------------------------------------------------------------
\* disconnect_user for connection c of user u: whether or not it was still in the list,
\* the subscriptions of u end.
DisconnectUser(u, c) ==
  /\ rooms' = [rooms EXCEPT ![u] = RemoveFirst(@, c)]
  /\ subs' = [v \in Vaults |-> subs[v] \ {u}]

\* What that does to the coroutines that iterate over the list of u: an empty list
\* is deleted, and they do not see the one that a new connection starts.
Removed(u, c) ==
  [k \in Casters |->
    IF caster[k].user = u /\ caster[k].listed /\ c \in ToSet(rooms[u])
      THEN [caster[k] EXCEPT !.listed = Len(rooms[u]) > 1, !.removed = @ \cup {c}]
      ELSE caster[k]]

\* connect_user, once the connection is accepted.
Connect(c) ==
  /\ Suspended
  /\ handler[c] = "new"
  /\ handler' = [handler EXCEPT ![c] = "serving"]
  /\ rooms' = [rooms EXCEPT ![Owner(c)] = Append(@, c)]
  /\ UNCHANGED <<subs, lost, caster>>

\* SUBSCRIBE and UNSUBSCRIBE messages; a reply that cannot be sent is logged.
Subscribe(c, v) ==
  /\ Suspended
  /\ handler[c] = "serving"
  /\ subs' = [subs EXCEPT ![v] = @ \cup {Owner(c)}]
  /\ UNCHANGED <<rooms, handler, lost, caster>>

Unsubscribe(c, v) ==
  /\ Suspended
  /\ handler[c] = "serving"
  /\ subs' = [subs EXCEPT ![v] = @ \ {Owner(c)}]
  /\ UNCHANGED <<rooms, handler, lost, caster>>

\* The user hangs up, or the network does.
Lose(c) ==
  /\ Suspended
  /\ handler[c] = "serving"
  /\ c \notin lost
  /\ lost' = lost \cup {c}
  /\ UNCHANGED <<rooms, subs, handler, caster>>

\* The receive loop ends and its finally block runs.
End(c) ==
  /\ Suspended
  /\ handler[c] = "serving"
  /\ c \in lost
  /\ handler' = [handler EXCEPT ![c] = "ended"]
  /\ DisconnectUser(Owner(c), c)
  /\ caster' = Removed(Owner(c), c)
  /\ UNCHANGED lost

-----------------------------------------------------------------------------
\* broadcast_to_vault_subscribers, over a copy of the subscribers; and send_to_user
\* on its own, for the outcome of an unlock.
Begin(k, todo) ==
  /\ Suspended
  /\ caster[k].at = "idle"
  /\ todo # {}
  /\ caster' = [caster EXCEPT ![k] = [Idle EXCEPT !.at = "run", !.todo = todo]]
  /\ UNCHANGED <<rooms, subs, handler, lost>>

Broadcast(k) == \E v \in Vaults : Begin(k, subs[v])
SendToUser(k) == \E u \in Users : Begin(k, {u})

\* The next user, if it has connections.
NextUser(k, u) ==
  /\ caster[k].at = "run"
  /\ caster[k].user = Nobody
  /\ u \in caster[k].todo
  /\ caster' = [caster EXCEPT ![k] =
       IF rooms[u] = <<>> THEN [caster[k] EXCEPT !.todo = @ \ {u}]
       ELSE [Idle EXCEPT !.at = "run", !.todo = caster[k].todo \ {u}, !.user = u,
                         !.pos = 1, !.listed = TRUE, !.began = ToSet(rooms[u])]]
  /\ UNCHANGED <<rooms, subs, handler, lost>>

\* The next connection in the list, as it is now.
Send(k) ==
  /\ caster[k].at = "run"
  /\ caster[k].user # Nobody
  /\ InList(k)
  /\ caster' = [caster EXCEPT ![k].at = "send", ![k].to = rooms[caster[k].user][caster[k].pos]]
  /\ UNCHANGED <<rooms, subs, handler, lost>>

SendReturns(k) ==
  /\ Suspended
  /\ caster[k].at = "send"
  /\ caster' = [caster EXCEPT ![k].at = "run", ![k].to = Nobody, ![k].pos = @ + 1,
                              ![k].got = @ \cup {caster[k].to}]
  /\ UNCHANGED <<rooms, subs, handler, lost>>

SendRaises(k) ==
  /\ Suspended
  /\ caster[k].at = "send"
  /\ caster[k].to \in lost
  /\ caster' = [caster EXCEPT ![k].at = "run", ![k].to = Nobody, ![k].pos = @ + 1,
                              ![k].dead = @ \cup {caster[k].to}]
  /\ UNCHANGED <<rooms, subs, handler, lost>>

\* The list is at its end, as it is now.
EndOfList(k) ==
  /\ caster[k].at = "run"
  /\ caster[k].user # Nobody
  /\ ~InList(k)
  /\ caster' = [caster EXCEPT ![k].at = "clean"]
  /\ UNCHANGED <<rooms, subs, handler, lost>>

\* disconnect_user for one of the connections that raised; nobody sees the order.
CleanUp(k, c) ==
  LET u == caster[k].user IN
  /\ caster[k].at = "clean"
  /\ c \in caster[k].dead
  /\ DisconnectUser(u, c)
  /\ caster' = [Removed(u, c) EXCEPT ![k].dead = @ \ {c}]
  /\ UNCHANGED <<handler, lost>>

\* send_to_user returns.
Leave(k) ==
  /\ caster[k].at = "clean"
  /\ caster[k].dead = {}
  /\ caster' = [caster EXCEPT ![k] = [Idle EXCEPT !.at = "run", !.todo = caster[k].todo]]
  /\ UNCHANGED <<rooms, subs, handler, lost>>

Done(k) ==
  /\ caster[k].at = "run"
  /\ caster[k].user = Nobody
  /\ caster[k].todo = {}
  /\ caster' = [caster EXCEPT ![k] = Idle]
  /\ UNCHANGED <<rooms, subs, handler, lost>>

Next ==
  \/ \E c \in Conns :
       \/ Connect(c) \/ Lose(c) \/ End(c)
       \/ \E v \in Vaults : Subscribe(c, v) \/ Unsubscribe(c, v)
  \/ \E k \in Casters :
       \/ Broadcast(k) \/ SendToUser(k)
       \/ \E u \in Users : NextUser(k, u)
       \/ Send(k) \/ SendReturns(k) \/ SendRaises(k)
       \/ EndOfList(k) \/ Leave(k) \/ Done(k)
       \/ \E c \in Conns : CleanUp(k, c)

Spec == Init /\ [][Next]_vars

-----------------------------------------------------------------------------
\* No list entry and no subscription outlives the handlers it stands for: only those
\* still reading are in a list, and a user is subscribed to a vault only while a
\* handler of theirs can end the subscription, even one that send_to_user has taken
\* out of the list already.
RoomsServed ==
  /\ \A u \in Users : \A c \in ToSet(rooms[u]) : Owner(c) = u /\ handler[c] = "serving"
  /\ \A v \in Vaults : \A u \in subs[v] : \E c \in Conns : Owner(c) = u /\ handler[c] = "serving"

\* The message is sent to a connection once at most, although the list changes while the
\* sends are awaited.  When a list is at its end, the connections it began with have been
\* sent the message, or have been removed, but for one at most for each that has been
\* removed.
DeliveryBounded ==
  \A k \in Casters :
    LET f == caster[k] IN
    /\ f.at = "send" => f.to \notin f.got \cup f.dead
    /\ f.at = "run" /\ f.user # Nobody /\ ~InList(k) =>
         Cardinality(f.began \ (f.got \cup f.dead \cup f.removed)) <= Cardinality(f.removed)
=============================================================================
