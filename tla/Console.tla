-------------------------------- MODULE Console --------------------------------
(***************************************************************************)
(* A screen of the admin console and the API behind it.  A screen loads    *)
(* its data with one GET or several and shows a line instead of its        *)
(* content meanwhile.  Loads are started in four ways, which are not       *)
(* serialised with each other: by on_mount, in the group "refresh" of the  *)
(* workers, where a new one cancels the last, by call_later, one after     *)
(* the other, and by the handler of a button after its request.            *)
(* The screens are independent of each other: one is chosen for good.      *)
(*                                                                         *)
(* Data that the properties do not tell apart are left out: what a load    *)
(* returns is the state of the API keys and the choice it was made for     *)
(* (page, window or filter).                                               *)
(***************************************************************************)
EXTENDS Naturals, Sequences

CONSTANTS
  Keys,      \* API keys
  Options,   \* pages, windows or filters
  First,     \* the one a screen starts with; of the filters, "active only"
  MaxQueue   \* bound: call_later callbacks that wait

ASSUME ConsoleAssumption == First \in Options /\ MaxQueue \in Nat

VARIABLES
  screen,
  choice,     \* _page, _days, _active_only
  loads,      \* load_data in progress, by what started it
  queue,      \* callbacks of call_later
  shown,      \* what was rendered last
  view,       \* the content, the text of the line "#loading", or neither
  request,    \* the POST or DELETE of the button's handler
  keys,       \* the server's table of API keys
  own,        \* history: the changes of keys that the console was told of
  clean       \* history: the load that was started last was alone

consoleVars == <<screen, choice, loads, queue, shown, view, request, keys, own, clean>>

\* What the load_data of each screen gets, one after the other, before it renders it.
DashboardLoads == <<"ops/summary", "business/activity">>
SecurityLoads == <<"security/alerts", "ops/rate-limits">>
DiagnosticsLoads == <<"redis", "websockets", "database", "email">>
ActivityLoads == <<"business/activity">>
AuditLoads == <<"ops/audit">>
SessionsLoads == <<"ops/sessions/stats">>
APIKeysLoads == <<"ops/api-keys">>
TrendsLoads == <<"business/trends">>
NotificationsLoads == <<"ops/notifications/email">>

Gets ==
  [dashboard |-> DashboardLoads, security |-> SecurityLoads, diagnostics |-> DiagnosticsLoads,
   activity |-> ActivityLoads, audit |-> AuditLoads, sessions |-> SessionsLoads,
   api_keys |-> APIKeysLoads, trends |-> TrendsLoads, notifications |-> NotificationsLoads]

Screens == DOMAIN Gets
Starters == {"mount", "refresh", "later", "button"}

Rank == [none |-> 0, active |-> 1, revoked |-> 2]
KeyTable == [Keys -> DOMAIN Rank]

NoKeys == [k \in Keys |-> "none"]

Load == [at : {"off", "asked", "served"}, get : 1..4, want : Options, keys : KeyTable]

\* load_data starts, or asks for the next of its data.
Asked(n, c) == [at |-> "asked", get |-> n, want |-> c, keys |-> NoKeys]

NoLoad == [Asked(1, First) EXCEPT !.at = "off"]

NoShow == [ever |-> FALSE, want |-> First, keys |-> NoKeys]

Request == [at : {"off", "sent", "done"}, to : DOMAIN Rank, for : SUBSET Keys]

NoRequest == [at |-> "off", to |-> "none", for |-> {}]

ConsoleTypeOK ==
  /\ screen \in Screens /\ choice \in Options
  /\ loads \in [Starters -> Load]
  /\ queue \in 0..MaxQueue
  /\ shown \in [ever : BOOLEAN, want : Options, keys : KeyTable]
  /\ view \in {"loading", "error", "content", "ended"}
  /\ request \in Request
  /\ keys \in KeyTable /\ own \in KeyTable
  /\ clean \in BOOLEAN

ConsoleInit ==
  /\ screen \in Screens
  /\ choice = First
  /\ loads = [l \in Starters |-> IF l = "mount" THEN Asked(1, choice) ELSE NoLoad]
  /\ queue = 0
  /\ shown = NoShow
  /\ view = "loading"
  /\ request = NoRequest
  /\ keys = NoKeys /\ own = NoKeys
  /\ clean = TRUE

\* The first part of load_data: the content gives way to "Loading...".
Begin(l, c) ==
  /\ loads' = [loads EXCEPT ![l] = Asked(1, c)]
  /\ view' = "loading"
  /\ clean' = \A m \in Starters \ {l} : loads[m].at = "off"

End(l) == loads' = [loads EXCEPT ![l] = NoLoad]

\* The keys of the table as it was rendered last.
Listed ==
  {k \in Keys : shown.keys[k] = "active" \/ (shown.keys[k] = "revoked" /\ shown.want # First)}

\* Mutants of the operators below, for testing the properties: the exception is only
\* logged, and the list is not loaded again after a change.
FailUnseen(l) ==
  /\ loads[l].at # "off"
  /\ End(l)
  /\ UNCHANGED <<screen, choice, queue, shown, view, request, keys, own, clean>>

ReplyOnly ==
  /\ request.at = "done"
  /\ request' = NoRequest
  /\ own' = [k \in Keys |-> IF k \in request.for THEN request.to ELSE own[k]]
  /\ UNCHANGED <<screen, choice, loads, queue, shown, view, keys, clean>>

-----------------------------------------------------------------------------
\* The server reads the data for the GET of load l.
Serve(l) ==
  /\ loads[l].at = "asked"
  /\ loads' = [loads EXCEPT ![l].at = "served", ![l].keys = keys]
  /\ UNCHANGED <<screen, choice, queue, shown, view, request, keys, own, clean>>

\* The answer arrives: the next GET, or _render_data.
Answered(l) ==
  /\ loads[l].at = "served"
  /\ IF loads[l].get < Len(Gets[screen])
       THEN /\ loads' = [loads EXCEPT ![l] = Asked(loads[l].get + 1, loads[l].want)]
            /\ UNCHANGED <<shown, view>>
       ELSE /\ End(l)
            /\ shown' = [ever |-> TRUE, want |-> loads[l].want, keys |-> loads[l].keys]
            /\ view' = "content"
  /\ UNCHANGED <<screen, choice, queue, request, keys, own, clean>>

\* The GET fails or times out.  The line that gets the error is hidden where another
\* load has shown the content; the screen of notifications shows it in any case.
Fail(l) ==
  /\ loads[l].at # "off"
  /\ End(l)
  /\ view' = IF screen # "notifications" /\ view = "content" THEN "content" ELSE "error"
  /\ UNCHANGED <<screen, choice, queue, shown, request, keys, own, clean>>

\* action_refresh; the keys 7, 3 and 9 of the trends refresh with another window.
Refresh(c) ==
  /\ view # "ended"
  /\ screen # "trends" => c = choice
  /\ choice' = c
  /\ Begin("refresh", c)
  /\ UNCHANGED <<screen, queue, shown, request, keys, own>>

\* Another page or filter: call_later(self.load_data).
Choose(c) ==
  /\ view # "ended"
  /\ screen \in {"activity", "audit", "api_keys"}
  /\ queue < MaxQueue
  /\ choice' = c
  /\ queue' = queue + 1
  /\ UNCHANGED <<screen, loads, shown, view, request, keys, own, clean>>

RunLater ==
  /\ queue > 0
  /\ loads["later"].at = "off"
  /\ queue' = queue - 1
  /\ Begin("later", choice)
  /\ UNCHANGED <<screen, choice, shown, request, keys, own>>

-----------------------------------------------------------------------------
\* The handler of a button, of which one runs at a time, sends its request.
Press(to, for) ==
  /\ shown.ever
  /\ request.at = "off" /\ loads["button"].at = "off"
  /\ request' = [at |-> "sent", to |-> to, for |-> for]
  /\ UNCHANGED <<screen, choice, loads, queue, shown, view, keys, own, clean>>

RevokeSessions == screen = "sessions" /\ Press("none", {})

CreateKey(k) == screen = "api_keys" /\ keys[k] = "none" /\ Press("active", {k})

\* The row under the cursor of the table as it is rendered now.
RevokeSelectedKey(k) == screen = "api_keys" /\ k \in Listed /\ Press("revoked", {k})

\* There is no row: get_row_at raises, outside of the handler's try, and the console ends.
RevokeNothing ==
  /\ screen = "api_keys" /\ Listed = {}
  /\ shown.ever
  /\ request.at = "off" /\ loads["button"].at = "off"
  /\ loads' = [l \in Starters |-> NoLoad]
  /\ queue' = 0
  /\ view' = "ended"
  /\ shown' = NoShow
  /\ UNCHANGED <<screen, choice, request, keys, own, clean>>

\* The operator starts it again, and opens the screen.
Start ==
  /\ view = "ended"
  /\ choice' = First
  /\ Begin("mount", First)
  /\ UNCHANGED <<screen, queue, shown, request, keys, own>>

\* The endpoint has committed.  A key that is created has a name of its own, and one
\* that is revoked stays revoked.
Commit ==
  /\ request.at = "sent"
  /\ \A k \in request.for : request.to = "active" => keys[k] = "none"
  /\ keys' = [k \in Keys |-> IF k \in request.for THEN request.to ELSE keys[k]]
  /\ request' = [request EXCEPT !.at = "done"]
  /\ UNCHANGED <<screen, choice, loads, queue, shown, view, own, clean>>

\* The console is told, and the handler goes on with load_data.
Reply ==
  /\ request.at = "done"
  /\ request' = NoRequest
  /\ own' = [k \in Keys |-> IF k \in request.for THEN request.to ELSE own[k]]
  /\ Begin("button", choice)
  /\ UNCHANGED <<screen, choice, queue, shown, keys>>

\* The request fails or its answer is lost: the operator is told that it failed.
ReplyLost ==
  /\ request.at # "off"
  /\ request' = NoRequest
  /\ UNCHANGED <<screen, choice, loads, queue, shown, view, keys, own, clean>>

\* Another console, or a request of this one that it has given up.
OtherChange(k) ==
  /\ screen = "api_keys"
  /\ \/ keys[k] = "none" /\ keys' = [keys EXCEPT ![k] = "active"]
     \/ keys[k] = "active" /\ keys' = [keys EXCEPT ![k] = "revoked"]
  /\ UNCHANGED <<screen, choice, loads, queue, shown, view, request, own, clean>>

ConsoleNext ==
  \/ \E l \in Starters : Serve(l) \/ Answered(l) \/ Fail(l)
  \/ \E c \in Options : Refresh(c) \/ Choose(c)
  \/ \E k \in Keys : CreateKey(k) \/ RevokeSelectedKey(k) \/ OtherChange(k)
  \/ RevokeNothing \/ Start
  \/ RunLater \/ RevokeSessions \/ Commit \/ Reply \/ ReplyLost

ConsoleSpec == ConsoleInit /\ [][ConsoleNext]_consoleVars

-----------------------------------------------------------------------------
Quiet ==
  /\ \A l \in Starters : loads[l].at = "off"
  /\ queue = 0 /\ request.at = "off"

\* When nothing is under way the screen shows its content or an error, whichever loads
\* overlapped, were cancelled or failed.
QuietMeansAnswered == Quiet => view # "loading"

\* What is shown then is for the operator's last choice and not older than the changes of
\* API keys that the console was told of, unless loads overlapped: the answer to the
\* older one may come last.
OwnChangesShown ==
  Quiet /\ view = "content" /\ clean =>
    /\ shown.want = choice
    /\ \A k \in Keys : Rank[shown.keys[k]] >= Rank[own[k]]
=============================================================================
