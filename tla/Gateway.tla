------------------------------ MODULE Gateway ------------------------------
(***************************************************************************)
(* One Slave's connections to the WebSocket gateway (wsGateway.ts) and the *)
(* status of its connector (connector.service.ts).                         *)
(*                                                                         *)
(* The service (main.py) keeps one connection and makes the next one when  *)
(* it ends; the backend may still be authenticating the last one by then,  *)
(* and may not have noticed that it is gone.  The listeners are attached   *)
(* after the authentication: a socket that closes before that is           *)
(* registered all the same.                                                *)
(***************************************************************************)
EXTENDS Naturals, FiniteSets

CONSTANTS
  MaxSockets,  \* bound on the connections the service makes
  MaxCrashes   \* bound on restarts of the backend

ASSUME GatewayAssumption == MaxSockets \in Nat \ {0} /\ MaxCrashes \in Nat

Sockets == 1..MaxSockets
None == 0

VARIABLES
  made,        \* connections made so far
  current,     \* the one the service uses, or None
  open,        \* sockets whose end in the backend is OPEN
  phase,       \* what the backend's handler of each socket has done
  connection,  \* connections.get(slaveId), or None
  registered,  \* the socket that was registered last, or None
  beats,       \* recordHeartbeat calls under way, by whether they are recent
  recent,      \* lastHeartbeatAt is within the offline threshold
  status,      \* the connector's status
  crashes

socketVars == <<made, current, open, phase, connection, registered>>
statusVars == <<beats, recent, status>>
vars == <<socketVars, statusVars, crashes>>

Phases == {"unused", "authenticating", "refused", "attached"}

TypeOK ==
  /\ made \in 0..MaxSockets
  /\ current \in Sockets \cup {None}
  /\ open \subseteq Sockets
  /\ phase \in [Sockets -> Phases]
  /\ connection \in Sockets \cup {None} /\ registered \in Sockets \cup {None}
  /\ beats \subseteq {"recent", "late"}
  /\ recent \in BOOLEAN
  /\ status \in {"CONNECTING", "ONLINE", "OFFLINE"}
  /\ crashes \in Nat

\* registerConnector has created the connector.
Init ==
  /\ made = 0 /\ current = None
  /\ open = {} /\ phase = [k \in Sockets |-> "unused"]
  /\ connection = None /\ registered = None
  /\ beats = {} /\ recent = FALSE /\ status = "CONNECTING"
  /\ crashes = 0

(***************************************************************************)
(* Connections.                                                            *)
(***************************************************************************)

\* The handshake is done, and authenticateConnector called.
ServiceConnects ==
  /\ current = None /\ made < MaxSockets
  /\ made' = made + 1 /\ current' = made + 1
  /\ open' = open \cup {made + 1}
  /\ phase' = [phase EXCEPT ![made + 1] = "authenticating"]
  /\ UNCHANGED <<connection, registered, statusVars, crashes>>

\* The service's end closes it; TCP tells the backend later.  (A host that
\* vanishes without a word is noticed by nothing here: the backend sends no
\* pings.)
ConnectionBreaks ==
  /\ current # None
  /\ current' = None
  /\ UNCHANGED <<made, open, phase, connection, registered, statusVars, crashes>>

BeginHeartbeat == beats' = beats \cup {"recent"} /\ UNCHANGED <<recent, status>>

Authenticated(k) ==
  /\ phase[k] = "authenticating"
  /\ phase' = [phase EXCEPT ![k] = "attached"]
  /\ connection' = k /\ registered' = k
  /\ BeginHeartbeat
  /\ UNCHANGED <<made, current, open, crashes>>

Refused(k) ==
  /\ phase[k] = "authenticating"
  /\ phase' = [phase EXCEPT ![k] = "refused"]
  /\ open' = open \ {k}
  /\ current' = IF current = k THEN None ELSE current
  /\ UNCHANGED <<made, connection, registered, statusVars, crashes>>

\* Mutant: the entry is deleted whichever socket it holds.
CloseDeletes(k) ==
  /\ k \in open /\ k # current
  /\ open' = open \ {k}
  /\ connection' = IF phase[k] = "attached" THEN None ELSE connection
  /\ UNCHANGED <<made, current, phase, registered, statusVars, crashes>>

\* The close event; before the listener is attached nothing hears it.
SocketCloses(k) ==
  /\ k \in open /\ k # current
  /\ open' = open \ {k}
  /\ connection' = IF phase[k] = "attached" /\ connection = k THEN None ELSE connection
  /\ UNCHANGED <<made, current, phase, registered, statusVars, crashes>>

\* Mutant: the entry is enough, the socket's readyState is not looked at.
HasEntry == connection # None

IsSlaveConnected == connection \in open

(***************************************************************************)
(* Status.  Every message of an attached socket starts a heartbeat that    *)
(* nobody waits for; it carries the time it was started at.  What was on   *)
(* its way when the service closed its end still arrives before the close. *)
(***************************************************************************)
Message(k) ==
  /\ k \in open /\ phase[k] = "attached"
  /\ BeginHeartbeat
  /\ UNCHANGED <<socketVars, crashes>>

\* Mutant: only a connector that is CONNECTING is made ONLINE.
RecordFirstHeartbeat(b) ==
  /\ b \in beats
  /\ beats' = beats \ {b}
  /\ recent' = (b = "recent")
  /\ status' = IF status = "CONNECTING" THEN "ONLINE" ELSE status
  /\ UNCHANGED <<socketVars, crashes>>

RecordHeartbeat(b) ==
  /\ b \in beats
  /\ beats' = beats \ {b}
  /\ recent' = (b = "recent") /\ status' = "ONLINE"
  /\ UNCHANGED <<socketVars, crashes>>

\* The offline threshold has passed since what was recent.
TimePasses ==
  /\ recent' = FALSE
  /\ beats' = IF beats = {} THEN {} ELSE {"late"}
  /\ UNCHANGED <<socketVars, status, crashes>>

\* Mutant: the comparison with the threshold is the wrong way round.
SweepRecent ==
  /\ recent /\ status = "ONLINE"
  /\ status' = "OFFLINE"
  /\ UNCHANGED <<socketVars, beats, recent, crashes>>

SweepOfflineConnectors ==
  /\ ~recent /\ status = "ONLINE"
  /\ status' = "OFFLINE"
  /\ UNCHANGED <<socketVars, beats, recent, crashes>>

\* The process ends, also because a heartbeat or an authentication that
\* nobody waits for was rejected.  Handlers and map are gone.
Crash ==
  /\ crashes < MaxCrashes
  /\ crashes' = crashes + 1
  /\ open' = {} /\ connection' = None /\ registered' = None /\ current' = None
  /\ phase' = [k \in Sockets |-> IF phase[k] = "unused" THEN "unused" ELSE "refused"]
  /\ beats' = {}
  /\ UNCHANGED <<made, recent, status>>

(***************************************************************************)
(* The system.                                                             *)
(***************************************************************************)
Next ==
  \/ ServiceConnects \/ ConnectionBreaks
  \/ \E k \in Sockets : Authenticated(k) \/ Refused(k) \/ SocketCloses(k) \/ Message(k)
  \/ \E b \in beats : RecordHeartbeat(b)
  \/ TimePasses \/ SweepOfflineConnectors \/ Crash

Spec == Init /\ [][Next]_vars

\* Time passes, the sweep's interval fires, pending calls are answered, the
\* end of a connection the service closed arrives, and a connected service
\* sends its heartbeats.
Fairness ==
  /\ WF_vars(TimePasses) /\ WF_vars(SweepOfflineConnectors)
  /\ WF_vars(\E b \in beats : RecordHeartbeat(b))
  /\ \A k \in Sockets :
       /\ WF_vars(Authenticated(k) \/ Refused(k))
       /\ WF_vars(SocketCloses(k))
       /\ WF_vars(current = k /\ Message(k))

FairSpec == Spec /\ Fairness

(***************************************************************************)
(* Properties.                                                             *)
(***************************************************************************)

\* Until it closes, the socket that was registered last is the one that
\* sendToSlave uses: the late close of an older socket does not take the
\* Slave off the map.
LastRegisteredIsUsed ==
  registered \in open => connection = registered

\* A Slave whose service is gone for good ends up OFFLINE, although
\* heartbeats that were still being written may bring it back ONLINE.
SilentGoesOffline == <>[](current = None) => <>[](status # "ONLINE")

\* And the dead sockets it left do not make the Copy Engine send to them.
GoneIsNotConnected == <>[](current = None) => <>[]~IsSlaveConnected

\* A connected service keeps being seen ONLINE, whatever order its heartbeats
\* are written in and whatever the sweep made of it in between.
ConnectedComesOnline ==
  []<>(status = "ONLINE" \/ current = None \/ phase[current] # "attached")
=============================================================================
