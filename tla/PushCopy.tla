------------------------------ MODULE PushCopy ------------------------------
(***************************************************************************)
(* Copying to MT5 Slaves: the Copy Engine pushes an instruction over the   *)
(* Slave's WebSocket (backend/src/modules/realtime/wsGateway.ts), and the  *)
(* Python service (connectors/slave-service/main.py) executes instructions *)
(* one at a time on its terminal and sends each result back on the same    *)
(* socket.                                                                 *)
(***************************************************************************)
EXTENDS CopyEngine, Terminal, Sequences

CONSTANTS
  MaxSlaveFaults,   \* bound on disconnections and service crashes
  MaxBackendFaults  \* bound on backend crashes and failed database calls

ASSUME PushCopyAssumption == MaxSlaveFaults \in Nat /\ MaxBackendFaults \in Nat

VARIABLES
  socketOpen,  \* the Slave's socket is registered and open
  toSlave,     \* frames on their way to the service
  fromSlave,   \* results on their way to the backend
  service,     \* what each service is doing
  slaveFaults,    \* faults so far, bounded by the two constants
  backendFaults

channelVars == <<socketOpen, toSlave, fromSlave>>
faultVars == <<slaveFaults, backendFaults>>
vars == <<engineVars, terminalVars, channelVars, service, faultVars>>

NoInstruction == [copy |-> NoTicket, slaveTicket |-> NoTicket]
NoResult == [copy |-> NoTicket, status |-> "FAILED", slaveTicket |-> NoTicket]

\* handle_instruction is running on `instruction`, or has returned `result`,
\* which run_once is about to send.
Service == [busy : {"idle", "executing", "reporting"},
            instruction : Instruction \cup {NoInstruction},
            result : Result \cup {NoResult}]

ServiceAt(busy, i, r) == [busy |-> busy, instruction |-> i, result |-> r]

IdleService == ServiceAt("idle", NoInstruction, NoResult)
Executing(i) == ServiceAt("executing", i, NoResult)
Reporting(r) == ServiceAt("reporting", NoInstruction, r)

TypeOK ==
  /\ EngineTypeOK
  /\ TerminalTypeOK
  /\ socketOpen \in [Slaves -> BOOLEAN]
  /\ toSlave \in [Slaves -> Seq(Instruction)]
  /\ fromSlave \in [Slaves -> Seq(Result)]
  /\ service \in [Slaves -> Service]
  /\ slaveFaults \in Nat
  /\ backendFaults \in Nat

Init ==
  /\ EngineInit
  /\ TerminalInit
  /\ socketOpen = [s \in Slaves |-> FALSE]
  /\ toSlave = [s \in Slaves |-> <<>>]
  /\ fromSlave = [s \in Slaves |-> <<>>]
  /\ service = [s \in Slaves |-> IdleService]
  /\ slaveFaults = 0
  /\ backendFaults = 0

(***************************************************************************)
(* The engine's end of the socket.                                         *)
(***************************************************************************)

\* isSlaveConnected and sendToSlave run without an await between them, so
\* the socket that was found open is the one written to.
SendToSlave(c) ==
  /\ job[c].pc = "dispatch" /\ socketOpen[SlaveOf(c)]
  /\ toSlave' = [toSlave EXCEPT ![SlaveOf(c)] =
                   Append(@, [copy |-> c, slaveTicket |-> job[c].slaveTicket])]
  /\ JobGoes(c, "markSent")
  /\ KeepRows
  /\ UNCHANGED <<trade, handler, recording, slaveMode>>
  /\ UNCHANGED <<terminalVars, socketOpen, fromSlave, service, faultVars>>

FindOffline(c) ==
  /\ job[c].pc = "dispatch" /\ ~socketOpen[SlaveOf(c)]
  /\ JobGoes(c, "markOffline")
  /\ JobOnly
  /\ UNCHANGED <<terminalVars, channelVars, service, faultVars>>

\* The write that follows the send; nothing looks at the row before it.
MarkSent(c) ==
  /\ job[c].pc = "markSent"
  /\ UpdateRow(c, "SENT", orders[c].errorReason)
  /\ JobEnds(c)
  /\ UNCHANGED <<trade, handler, recording, slaveMode>>
  /\ UNCHANGED <<terminalVars, channelVars, service, faultVars>>

\* The gateway's message listener hands the result to handleSlaveMessage,
\* which reads the row.
ReceiveResult(s) ==
  /\ fromSlave[s] # <<>>
  /\ BeginRecording(s, Head(fromSlave[s]), 0)
  /\ fromSlave' = [fromSlave EXCEPT ![s] = Tail(@)]
  /\ KeepRows
  /\ UNCHANGED <<trade, handler, job, slaveMode>>
  /\ UNCHANGED <<terminalVars, socketOpen, toSlave, service, faultVars>>

(***************************************************************************)
(* The Slave service.                                                      *)
(***************************************************************************)

\* Mutant: the frame is not consumed.
PeekInstruction(s) ==
  /\ service[s].busy = "idle" /\ toSlave[s] # <<>>
  /\ service' = [service EXCEPT ![s] = Executing(Head(toSlave[s]))]
  /\ UNCHANGED <<engineVars, terminalVars, channelVars, faultVars>>

\* `async for raw in ws`: the next frame, also one received before the
\* connection went away.
TakeInstruction(s) ==
  /\ service[s].busy = "idle" /\ toSlave[s] # <<>>
  /\ service' = [service EXCEPT ![s] = Executing(Head(toSlave[s]))]
  /\ toSlave' = [toSlave EXCEPT ![s] = Tail(@)]
  /\ UNCHANGED <<engineVars, terminalVars, socketOpen, fromSlave, faultVars>>

Execute(s) ==
  /\ service[s].busy = "executing"
  /\ \E r \in Result :
       /\ ExecuteInstruction(service[s].instruction, r)
       /\ service' = [service EXCEPT ![s] = Reporting(r)]
  /\ UNCHANGED <<engineVars, channelVars, faultVars>>

SendResult(s) ==
  /\ service[s].busy = "reporting" /\ socketOpen[s]
  /\ fromSlave' = [fromSlave EXCEPT ![s] = Append(@, service[s].result)]
  /\ service' = [service EXCEPT ![s] = IdleService]
  /\ UNCHANGED <<engineVars, terminalVars, socketOpen, toSlave, faultVars>>

\* ws.send raises on a closed connection: run_once ends, and the result and
\* the frames not yet taken are gone with it.
SendFails(s) ==
  /\ service[s].busy = "reporting" /\ ~socketOpen[s]
  /\ service' = [service EXCEPT ![s] = IdleService]
  /\ toSlave' = [toSlave EXCEPT ![s] = <<>>]
  /\ UNCHANGED <<engineVars, terminalVars, socketOpen, fromSlave, faultVars>>

\* The reconnect loop of main(): a new connection starts with nothing of the
\* old one.
Connect(s) ==
  /\ ~socketOpen[s] /\ service[s].busy = "idle"
  /\ socketOpen' = [socketOpen EXCEPT ![s] = TRUE]
  /\ toSlave' = [toSlave EXCEPT ![s] = <<>>]
  /\ fromSlave' = [fromSlave EXCEPT ![s] = <<>>]
  /\ UNCHANGED <<engineVars, terminalVars, service, faultVars>>

(***************************************************************************)
(* Faults.                                                                 *)
(***************************************************************************)
SlaveFault ==
  /\ slaveFaults < MaxSlaveFaults
  /\ slaveFaults' = slaveFaults + 1
  /\ UNCHANGED backendFaults

BackendFault ==
  /\ backendFaults < MaxBackendFaults
  /\ backendFaults' = backendFaults + 1
  /\ UNCHANGED slaveFaults

\* Frames not yet received at either end are lost.
Disconnect(s) ==
  /\ SlaveFault /\ socketOpen[s]
  /\ socketOpen' = [socketOpen EXCEPT ![s] = FALSE]
  /\ \E n \in 0..Len(toSlave[s]) :
       toSlave' = [toSlave EXCEPT ![s] = SubSeq(@, 1, n)]
  /\ fromSlave' = [fromSlave EXCEPT ![s] = <<>>]
  /\ UNCHANGED <<engineVars, terminalVars, service>>

\* Also an executor that raises: run_once ends without a result.
ServiceCrash(s) ==
  /\ SlaveFault
  /\ socketOpen' = [socketOpen EXCEPT ![s] = FALSE]
  /\ toSlave' = [toSlave EXCEPT ![s] = <<>>]
  /\ service' = [service EXCEPT ![s] = IdleService]
  /\ UNCHANGED <<engineVars, terminalVars, fromSlave>>

Crash ==
  /\ BackendFault
  /\ BackendCrash
  /\ socketOpen' = [s \in Slaves |-> FALSE]
  /\ fromSlave' = [s \in Slaves |-> <<>>]
  /\ UNCHANGED <<terminalVars, toSlave, service>>

CallThrows ==
  /\ BackendFault
  /\ EngineCallFails
  /\ UNCHANGED <<terminalVars, channelVars, service>>

(***************************************************************************)
(* The system.                                                             *)
(***************************************************************************)
EngineAlone == UNCHANGED <<terminalVars, channelVars, service, faultVars>>

DispatchStep(c) == SendToSlave(c) \/ FindOffline(c) \/ MarkSent(c)

ServiceStep(s) ==
  TakeInstruction(s) \/ Execute(s) \/ SendResult(s) \/ SendFails(s) \/ Connect(s)

PositionLost ==
  /\ \E t \in positions : BrokerCloses(t)
  /\ UNCHANGED <<engineVars, channelVars, service, faultVars>>

RecordingOfCopy(c) == \E r \in recording : r.copy = c /\ RecordResult(r)

Next ==
  \/ EngineStep /\ EngineAlone
  \/ \E c \in Copies : DispatchStep(c)
  \/ \E s \in Slaves : ReceiveResult(s) \/ ServiceStep(s)
  \/ PositionLost
  \/ \E s \in Slaves : Disconnect(s) \/ ServiceCrash(s)
  \/ Crash
  \/ CallThrows

Spec == Init /\ [][Next]_vars

(***************************************************************************)
(* Node.js answers every pending call and timer, and the service's loop    *)
(* keeps running.  Nothing makes the Master trade, the admin act, a socket *)
(* connect or a fault happen.                                              *)
(***************************************************************************)
Fairness ==
  /\ \A e \in Events : WF_vars(HandlerStep(e) /\ EngineAlone)
  /\ \A c \in Copies :
       /\ WF_vars((GatherStep(c) \/ WriteStep(c)) /\ EngineAlone)
       /\ WF_vars(DispatchStep(c))
       /\ WF_vars(RecordingOfCopy(c) /\ EngineAlone)
  /\ \A s \in Slaves :
       /\ WF_vars(ReceiveResult(s))
       /\ WF_vars(TakeInstruction(s) \/ Execute(s) \/ SendResult(s) \/ SendFails(s))

FairSpec == Spec /\ Fairness

(***************************************************************************)
(* Properties.                                                             *)
(***************************************************************************)

\* A row never claims EXECUTED on the strength of a send: when it says so,
\* the terminal did carry the copy out, and the row names the very position
\* it was carried out on, whatever crashed or raced in between.
ExecutedIsReal ==
  \A c \in Copies : orders[c].status = "EXECUTED" =>
    /\ actedOn[c] # NoTicket
    /\ orders[c].slaveTicket = actedOn[c]

\* A CLOSE or MODIFY only ever touches a position of the same Slave that an
\* OPEN copy of the same Master position opened: the ticket mapping of
\* findExecutedOpenSlaveTicket survives every interleaving of results,
\* reconnections and later events.
TradeIdentity ==
  \A c \in Copies : actedOn[c] # NoTicket => MayActOn(c, actedOn[c])

\* No copy is run twice on a terminal, across disconnections, service
\* restarts and backend crashes.
AtMostOnce == \A c \in Copies : attempts[c] <= 1

\* Whatever a terminal was asked to do is on record, and a row that
\* copyToSlave refused (NO_MATCHING_OPEN_COPY, a risk limit, SLAVE_OFFLINE)
\* was never and will never be run.
RefusalIsFinal ==
  \A c \in Copies : attempts[c] > 0 =>
    /\ Exists(orders, c)
    /\ orders[c].errorReason \in {"NONE", "REPORTED"}

\* An OPEN whose fan-out read the Slave under emergency stop is not run,
\* whatever the admin does afterwards.
StopBlocksOpens ==
  \A c \in Copies : TypeOfCopy(c) = "OPEN" /\ job[c].stop => attempts[c] = 0

\* The ticket a result brought in is never lost or replaced: later CLOSE and
\* MODIFY events depend on it.
TicketKept ==
  [][\A c \in Copies : orders[c].slaveTicket # NoTicket =>
       orders'[c].slaveTicket = orders[c].slaveTicket]_vars

\* PushCopy implements the promise of CopyOnce.
LedgerOf(row) ==
  CASE row.status = "ABSENT" -> "absent"
    [] row.status \in {"PENDING", "SENT"} -> "open"
    [] row.status = "EXECUTED" -> "executed"
    [] row.status = "FAILED" -> IF row.errorReason = "REPORTED" THEN "failed" ELSE "refused"

Once == INSTANCE CopyOnce WITH
  ledger <- [c \in Copies |-> LedgerOf(orders[c])],
  ran <- [c \in Copies |-> attempts[c] > 0],
  target <- actedOn

\* Each copy is refused or run once, acts only on its own Master position's
\* copy, and is reported executed only when it was: through every crash,
\* disconnection and late write.
CopiesOnce == Once!Spec

\* Every copyToSlave that starts leaves a row that no longer waits to be
\* sent, whatever happens to the connection and to the other copies under
\* way.  (Checked without backend faults.)
EveryCopyIsDecided ==
  \A c \in Copies : job[c].pc = "gather" ~> orders[c].status \notin {"ABSENT", "PENDING"}

\* The bus is ahead of the table: an event is looked for twice, 250 ms apart.
\* If its row is written before the second look, every Slave that is not
\* disabled at the fan-out gets a copy of it that is decided, however late the
\* write was.  (Checked without backend faults.)
StoredInTimeIsCopied ==
  \A c \in Copies :
    handler[c[1]] \in {"lookup", "retry"} /\ trade[c[1]] = "stored" ~>
      \/ orders[c].status \notin {"ABSENT", "PENDING"}
      \/ slaveMode[SlaveOf(c)] = "disabled"

\* Unless its connection breaks, every instruction that leaves for a Slave
\* comes back as a recorded outcome, however many are queued before it.
EverySendIsAnswered ==
  \A c \in Copies : job[c].pc = "markSent" ~>
    orders[c].status \in {"EXECUTED", "FAILED"} \/ slaveFaults > 0

(***************************************************************************)
(* What the documentation says and the code does not do.                   *)
(***************************************************************************)

\* copy_orders is the source of truth for what was executed
\* (copyOrderQueries.ts): an outcome once recorded stays recorded.
OutcomeIsKept ==
  [][\A c \in Copies : orders[c].status = "EXECUTED" => orders'[c].status = "EXECUTED"]_vars
=============================================================================
