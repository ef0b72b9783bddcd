---------------------------- MODULE GatewayProofs ----------------------------
(***************************************************************************)
(* For every number of connections and restarts: Gateway keeps its types,  *)
(* and the socket registered last is the one the map has.                  *)
(***************************************************************************)
EXTENDS Gateway, TLAPS

\* What the backend knows of is not newer than what the service has made.  So
\* a new connection is never the one that was registered last.
MadeInOrder ==
  /\ open \subseteq 1..made
  /\ \A k \in Sockets : phase[k] # "unused" => k <= made
  /\ registered <= made

IInv == TypeOK /\ MadeInOrder /\ LastRegisteredIsUsed

LEMMA InitInv == Init => IInv
  <1> SUFFICES ASSUME Init PROVE IInv
    OBVIOUS
  <1> USE GatewayAssumption DEF Init, None
  <1>1. phase \in [Sockets -> Phases]
    BY DEF Phases
  <1>2. TypeOK
    <2>1. made \in 0..MaxSockets /\ crashes \in Nat
      OBVIOUS
    <2>2. /\ current \in Sockets \cup {None} /\ open \subseteq Sockets
          /\ connection \in Sockets \cup {None} /\ registered \in Sockets \cup {None}
      OBVIOUS
    <2>3. /\ beats \subseteq {"recent", "late"} /\ recent \in BOOLEAN
          /\ status \in {"CONNECTING", "ONLINE", "OFFLINE"}
      OBVIOUS
    <2>4. QED BY <1>1, <2>1, <2>2, <2>3 DEF TypeOK
  <1>3. MadeInOrder /\ LastRegisteredIsUsed
    BY DEF MadeInOrder, LastRegisteredIsUsed
  <1>4. QED BY <1>2, <1>3 DEF IInv

LEMMA NextInv == IInv /\ [Next]_vars => IInv'
  <1> SUFFICES ASSUME IInv, [Next]_vars PROVE IInv'
    OBVIOUS
  <1> USE GatewayAssumption
          DEF IInv, TypeOK, MadeInOrder, LastRegisteredIsUsed, Sockets, None, Phases,
              socketVars, statusVars
  <1>1. CASE ServiceConnects
    BY <1>1 DEF ServiceConnects
  <1>2. CASE ConnectionBreaks
    BY <1>2 DEF ConnectionBreaks
  <1>3. ASSUME NEW k \in Sockets, Authenticated(k) PROVE IInv'
    BY <1>3 DEF Authenticated, BeginHeartbeat
  <1>4. ASSUME NEW k \in Sockets, Refused(k) PROVE IInv'
    BY <1>4 DEF Refused
  <1>5. ASSUME NEW k \in Sockets, SocketCloses(k) PROVE IInv'
    BY <1>5 DEF SocketCloses
  <1>6. ASSUME NEW k \in Sockets, Message(k) PROVE IInv'
    BY <1>6 DEF Message, BeginHeartbeat
  <1>7. ASSUME NEW b \in beats, RecordHeartbeat(b) PROVE IInv'
    BY <1>7 DEF RecordHeartbeat
  <1>8. CASE TimePasses
    BY <1>8 DEF TimePasses
  <1>9. CASE SweepOfflineConnectors
    BY <1>9 DEF SweepOfflineConnectors
  <1>10. CASE Crash
    BY <1>10 DEF Crash
  <1>11. CASE UNCHANGED vars
    BY <1>11 DEF vars
  <1>12. QED
    BY <1>1, <1>2, <1>3, <1>4, <1>5, <1>6, <1>7, <1>8, <1>9, <1>10, <1>11 DEF Next

\* The sockets, the map and the connector's status keep their types.
THEOREM GatewayTypes == Spec => []TypeOK
  BY InitInv, NextInv, PTL DEF Spec, IInv

\* However many sockets a Slave has made, and in whatever order they are
\* authenticated and their ends are noticed, the one registered last stays the
\* one that sendToSlave uses until it closes (connections, wsGateway.ts).
THEOREM NewestStaysRegistered == Spec => []LastRegisteredIsUsed
  BY InitInv, NextInv, PTL DEF Spec, IInv
=============================================================================
