------------------------------ MODULE Realtime ------------------------------
(***************************************************************************)
(* RealtimeProvider: the hub connections of a signed-in tab.  Every change  *)
(* of the token store (a sign-in, a refresh, permissions fetched, another   *)
(* user impersonated) tears the connection down and builds another, while   *)
(* what the earlier build was waiting for is still to come back.            *)
(***************************************************************************)
EXTENDS Naturals, FiniteSets

CONSTANTS
    Connections,  \* as many as there can be at once
    NoConnection,
    MaxRebuilds,  \* bound on changes of the token store
    MaxFailures   \* bound on connections lost and starts that fail

ASSUME RealtimeAssumption ==
    /\ IsFiniteSet(Connections) /\ NoConnection \notin Connections
    /\ MaxRebuilds \in Nat /\ MaxFailures \in Nat

VARIABLES
    mounted,   \* the provider is (~stoppedRef; a rebuild sets it and resets it at once)
    token,     \* there is an access token
    conn,      \* conn[n]: the state of a HubConnection
    ref,       \* connectionRef
    status,    \* what components are told
    building,  \* connects that await the SignalR chunk
    waiting,   \* connects that await their delay
    rebuilds, failures

linkVars == <<mounted, token, conn, ref, status, building, waiting, rebuilds, failures>>

States == {"None", "Connecting", "Connected", "Reconnecting", "Disconnecting"}
Statuses == {"idle", "connecting", "connected", "reconnecting", "error"}

-----------------------------------------------------------------------------
\* connect, called with w delays left to run: without a token it ends there.
Connect(w) ==
    /\ waiting' = w
    /\ status' = IF token' THEN "connecting" ELSE "idle"
    /\ building' = IF token' THEN building + 1 ELSE building

\* The cleanup of the effect stops a settled connection; one that is still
\* starting is left alone.  A stop while reconnecting may be over at once.
TornDown ==
    /\ ref' = NoConnection
    /\ \E s \in {"Disconnecting", "None"} :
        /\ s = "None" => ref # NoConnection /\ conn[ref] = "Reconnecting"
        /\ conn' = IF ref # NoConnection /\ conn[ref] \in {"Connected", "Reconnecting"}
                   THEN [conn EXCEPT ![ref] = s] ELSE conn

\* The token store changed: the effect is cleaned up and run again.
Rebuild ==
    /\ mounted /\ rebuilds < MaxRebuilds
    /\ rebuilds' = rebuilds + 1
    /\ token' \in BOOLEAN
    /\ TornDown
    /\ Connect(waiting)
    /\ UNCHANGED <<mounted, failures>>

Unmount ==
    /\ mounted
    /\ mounted' = FALSE
    /\ TornDown
    /\ status' = "idle"
    /\ UNCHANGED <<token, building, waiting, rebuilds, failures>>

\* Faulty: the chunk's arrival builds a connection again and again
BuiltKeepsWaiting ==
    /\ building > 0
    /\ UNCHANGED building
    /\ IF mounted
       THEN \E n \in Connections :
                /\ conn[n] = "None"
                /\ conn' = [conn EXCEPT ![n] = "Connecting"]
                /\ ref' = n
       ELSE UNCHANGED <<conn, ref>>
    /\ UNCHANGED <<mounted, token, status, waiting, rebuilds, failures>>

\* The connection is built and started.
Built ==
    /\ building > 0
    /\ building' = building - 1
    /\ IF mounted
       THEN \E n \in Connections :
                /\ conn[n] = "None"
                /\ conn' = [conn EXCEPT ![n] = "Connecting"]
                /\ ref' = n
       ELSE UNCHANGED <<conn, ref>>
    /\ UNCHANGED <<mounted, token, status, waiting, rebuilds, failures>>

\* A start that was overtaken by the cleanup stops its connection itself.
Started(n) ==
    /\ conn[n] = "Connecting"
    /\ conn' = [conn EXCEPT ![n] = IF mounted THEN "Connected" ELSE "Disconnecting"]
    /\ status' = IF mounted THEN "connected" ELSE status
    /\ UNCHANGED <<mounted, token, ref, building, waiting, rebuilds, failures>>

\* Faulty: a start that fails is not tried again
StartGivesUp(n) ==
    /\ conn[n] = "Connecting" /\ failures < MaxFailures
    /\ failures' = failures + 1
    /\ conn' = [conn EXCEPT ![n] = "None"]
    /\ status' = "error"
    /\ UNCHANGED <<mounted, token, ref, building, waiting, rebuilds>>

StartFails(n) ==
    /\ conn[n] = "Connecting" /\ failures < MaxFailures
    /\ failures' = failures + 1
    /\ conn' = [conn EXCEPT ![n] = "None"]
    /\ status' = "error"
    /\ waiting' = waiting + 1
    /\ UNCHANGED <<mounted, token, ref, building, rebuilds>>

Waited ==
    /\ waiting > 0
    /\ UNCHANGED token
    /\ IF mounted THEN Connect(waiting - 1)
       ELSE waiting' = waiting - 1 /\ UNCHANGED <<status, building>>
    /\ UNCHANGED <<mounted, conn, ref, rebuilds, failures>>

\* Faulty: onreconnecting is not listened to
LostQuietly(n) ==
    /\ conn[n] = "Connected" /\ failures < MaxFailures
    /\ failures' = failures + 1
    /\ conn' = [conn EXCEPT ![n] = "Reconnecting"]
    /\ UNCHANGED <<mounted, token, ref, status, building, waiting, rebuilds>>

\* SignalR's own reconnects.
Lost(n) ==
    /\ conn[n] = "Connected" /\ failures < MaxFailures
    /\ failures' = failures + 1
    /\ conn' = [conn EXCEPT ![n] = "Reconnecting"]
    /\ status' = "reconnecting"
    /\ UNCHANGED <<mounted, token, ref, building, waiting, rebuilds>>

Reconnected(n) ==
    /\ conn[n] = "Reconnecting" /\ token
    /\ conn' = [conn EXCEPT ![n] = "Connected"]
    /\ status' = "connected"
    /\ UNCHANGED <<mounted, token, ref, building, waiting, rebuilds, failures>>

\* onclose: it cannot tell a connection that gave up from one that a rebuild
\* stopped, and connects again for both.
OnClose(n) ==
    /\ conn[n] \in {"Reconnecting", "Disconnecting"}
    /\ conn' = [conn EXCEPT ![n] = "None"]
    /\ status' = IF mounted THEN "error" ELSE status
    /\ waiting' = IF mounted THEN waiting + 1 ELSE waiting
    /\ UNCHANGED <<mounted, token, ref, building, rebuilds, failures>>

-----------------------------------------------------------------------------
LinkInit ==
    /\ mounted = TRUE /\ token \in BOOLEAN
    /\ conn = [n \in Connections |-> "None"]
    /\ ref = NoConnection
    /\ status = IF token THEN "connecting" ELSE "idle"
    /\ building = IF token THEN 1 ELSE 0
    /\ waiting = 0 /\ rebuilds = 0 /\ failures = 0

LinkNext ==
    \/ Rebuild \/ Unmount \/ Built \/ Waited
    \/ \E n \in Connections : \/ Started(n) \/ StartFails(n)
                              \/ Lost(n) \/ Reconnected(n) \/ OnClose(n)

\* The browser runs timers and continuations; a handshake or a reconnect ends.
LinkFairness ==
    /\ WF_linkVars(Built) /\ WF_linkVars(Waited)
    /\ \A n \in Connections : /\ WF_linkVars(Started(n) \/ StartFails(n))
                              /\ WF_linkVars(Reconnected(n) \/ OnClose(n))

LinkSpec == LinkInit /\ [][LinkNext]_linkVars /\ LinkFairness

-----------------------------------------------------------------------------
\* The types; and nothing is invoked on a connection once the provider is gone.
LinkTypeOK ==
    /\ mounted \in BOOLEAN /\ token \in BOOLEAN
    /\ conn \in [Connections -> States]
    /\ ref \in Connections \cup {NoConnection} /\ (ref # NoConnection => mounted)
    /\ status \in Statuses
    /\ building \in Nat /\ waiting \in Nat /\ rebuilds \in 0..MaxRebuilds /\ failures \in 0..MaxFailures

\* Components are told "connected" only while a connection is.
StatusHonest == status = "connected" => \E n \in Connections : conn[n] = "Connected"

\* Every attempt or connection that lives on beyond the first one stems from a
\* rebuild of its own.
OnePerRebuild ==
    Cardinality({n \in Connections : conn[n] # "None"}) + building + waiting <= rebuilds + 1

\* A tab left signed in is told "connected" for good.
EndsConnected == <>[](mounted /\ token) => <>[](status = "connected")
=============================================================================
