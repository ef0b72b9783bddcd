--------------------------- MODULE PushCopyProofs ---------------------------
(***************************************************************************)
(* For every set of Slaves and events and every number of faults: the      *)
(* invariant of PushCopy holds, every run is reported at most once and a   *)
(* recorded ticket stays; therefore PushCopy implements CopyOnce.          *)
(***************************************************************************)
EXTENDS PushCopyInvariant, CopyEngineProofs

(***************************************************************************)
(* The transport.                                                          *)
(***************************************************************************)
LEMMA InitType == Init => TypeOK
<1> SUFFICES ASSUME Init PROVE TypeOK
  OBVIOUS
<1>1. EngineTypeOK /\ TerminalTypeOK
  BY EngineInitType DEF Init, TerminalInit, TerminalTypeOK, Tickets
<1>2. IdleService \in Service
  BY DEF IdleService, ServiceAt, Service
<1>3. QED
  BY <1>1, <1>2 DEF Init, TypeOK

LEMMA ServiceStates ==
  /\ IdleService \in Service
  /\ \A i \in Instruction : Executing(i) \in Service
  /\ \A r \in Result : Reporting(r) \in Service
BY DEF IdleService, Executing, Reporting, ServiceAt, Service

LEMMA EngineAloneType ==
  ASSUME TypeOK, EngineTypeOK', UNCHANGED <<terminalVars, channelVars, service>>,
         slaveFaults' \in Nat, backendFaults' \in Nat
  PROVE  TypeOK'
  BY DEF TypeOK, TerminalTypeOK, terminalVars, channelVars

LEMMA DispatchType ==
  ASSUME TypeOK, NEW c \in Copies, DispatchStep(c)
  PROVE  TypeOK'
<1>1. SlaveOf(c) \in Slaves
  BY DEF Copies, SlaveOf
<1>2. CASE SendToSlave(c)
  <2>1. EngineTypeOK'
    <3>1. job' \in [Copies -> Job]
      BY <1>2, JobMovesType DEF TypeOK, EngineTypeOK, SendToSlave, JobStates
    <3>2. QED
      BY <1>2, <3>1 DEF TypeOK, EngineTypeOK, SendToSlave, KeepRows
  <2>2. toSlave' \in [Slaves -> Seq(Instruction)]
    <3>1. [copy |-> c, slaveTicket |-> job[c].slaveTicket] \in Instruction
      BY DEF TypeOK, EngineTypeOK, Job, Instruction
    <3>2. QED
      BY <1>1, <1>2, <3>1 DEF TypeOK, SendToSlave
  <2>3. QED
    BY <1>2, <2>1, <2>2
       DEF TypeOK, TerminalTypeOK, SendToSlave, terminalVars, faultVars
<1>3. CASE FindOffline(c)
  <2>1. job' \in [Copies -> Job]
    BY <1>3, JobMovesType DEF TypeOK, EngineTypeOK, FindOffline, JobStates
  <2>2. EngineTypeOK'
    BY <1>3, <2>1 DEF TypeOK, EngineTypeOK, FindOffline, JobOnly, KeepRows
  <2>3. QED
    BY <1>3, <2>2, EngineAloneType DEF TypeOK, FindOffline, faultVars
<1>4. CASE MarkSent(c)
  <2>1. orders[c].errorReason \in Reasons /\ RowsTyped
    BY DEF TypeOK, EngineTypeOK, Row, RowsTyped
  <2>2. RowsTyped'
    BY <1>4, <2>1, UpdateRowType DEF MarkSent, Statuses
  <2>3. job' \in [Copies -> Job]
    BY <1>4, JobMovesType DEF TypeOK, EngineTypeOK, MarkSent, JobStates
  <2>4. EngineTypeOK'
    BY <1>4, <2>2, <2>3 DEF TypeOK, EngineTypeOK, RowsTyped, MarkSent
  <2>5. QED
    BY <1>4, <2>4, EngineAloneType DEF TypeOK, MarkSent, faultVars
<1>5. QED
  BY <1>2, <1>3, <1>4 DEF DispatchStep

LEMMA ReceiveResultType ==
  ASSUME TypeOK, NEW s \in Slaves, ReceiveResult(s)
  PROVE  TypeOK'
<1>1. fromSlave[s] \in Seq(Result) /\ fromSlave[s] # <<>>
  BY DEF TypeOK, ReceiveResult
<1>2. Head(fromSlave[s]) \in Result /\ Tail(fromSlave[s]) \in Seq(Result)
  BY <1>1
<1>3. recording' \subseteq Recording
  BY <1>2, BeginRecordingType DEF TypeOK, ReceiveResult
<1>4. EngineTypeOK'
  BY <1>3 DEF TypeOK, EngineTypeOK, ReceiveResult, KeepRows
<1>5. fromSlave' \in [Slaves -> Seq(Result)]
  BY <1>2 DEF TypeOK, ReceiveResult
<1>6. QED
  BY <1>4, <1>5 DEF TypeOK, TerminalTypeOK, ReceiveResult, terminalVars, faultVars

LEMMA ServiceStepType ==
  ASSUME TypeOK, ServiceConsistent, NEW s \in Slaves, ServiceStep(s)
  PROVE  TypeOK'
<1> USE DEF TypeOK
<1>1. CASE TakeInstruction(s)
  <2>1. toSlave[s] \in Seq(Instruction) /\ toSlave[s] # <<>>
    BY <1>1 DEF TakeInstruction
  <2>2. Head(toSlave[s]) \in Instruction /\ Tail(toSlave[s]) \in Seq(Instruction)
    BY <2>1
  <2>3. service' \in [Slaves -> Service] /\ toSlave' \in [Slaves -> Seq(Instruction)]
    BY <1>1, <2>2, ServiceStates DEF TakeInstruction
  <2>4. QED
    BY <1>1, <2>3
       DEF TakeInstruction, EngineTypeOK, engineVars, TerminalTypeOK, terminalVars, faultVars
<1>2. CASE Execute(s)
  <2>1. PICK r \in Result : /\ ExecuteInstruction(service[s].instruction, r)
                            /\ service' = [service EXCEPT ![s] = Reporting(r)]
    BY <1>2 DEF Execute
  <2>2. service[s].instruction \in Instruction
    BY <1>2 DEF Execute, ServiceConsistent
  <2>3. TerminalTypeOK'
    BY <2>1, <2>2, ExecuteInstructionType
  <2>4. service' \in [Slaves -> Service]
    BY <2>1, ServiceStates
  <2>5. QED
    BY <1>2, <2>3, <2>4 DEF Execute, EngineTypeOK, engineVars, channelVars, faultVars
<1>3. CASE SendResult(s)
  <2>1. service[s].result \in Result
    BY <1>3 DEF SendResult, ServiceConsistent
  <2>2. fromSlave' \in [Slaves -> Seq(Result)]
    BY <1>3, <2>1 DEF SendResult
  <2>3. service' \in [Slaves -> Service]
    BY <1>3, ServiceStates DEF SendResult
  <2>4. QED
    BY <1>3, <2>2, <2>3
       DEF SendResult, EngineTypeOK, engineVars, TerminalTypeOK, terminalVars, faultVars
<1>4. CASE SendFails(s)
  <2>1. toSlave' \in [Slaves -> Seq(Instruction)] /\ service' \in [Slaves -> Service]
    BY <1>4, ServiceStates DEF SendFails
  <2>2. QED
    BY <1>4, <2>1
       DEF SendFails, EngineTypeOK, engineVars, TerminalTypeOK, terminalVars, faultVars
<1>5. CASE Connect(s)
  BY <1>5 DEF Connect, EngineTypeOK, engineVars, TerminalTypeOK, terminalVars, faultVars
<1>6. QED
  BY <1>1, <1>2, <1>3, <1>4, <1>5 DEF ServiceStep

LEMMA FaultType ==
  ASSUME TypeOK,
         \/ \E s \in Slaves : Disconnect(s) \/ ServiceCrash(s)
         \/ Crash \/ CallThrows \/ PositionLost
  PROVE  TypeOK'
<1> USE DEF TypeOK
<1>1. SlaveFault \/ BackendFault \/ UNCHANGED faultVars
      => slaveFaults' \in Nat /\ backendFaults' \in Nat
  BY DEF SlaveFault, BackendFault, faultVars
<1>2. ASSUME NEW s \in Slaves, Disconnect(s) PROVE TypeOK'
  <2>1. PICK n \in 0..Len(toSlave[s]) : toSlave' = [toSlave EXCEPT ![s] = SubSeq(@, 1, n)]
    BY <1>2 DEF Disconnect
  <2>2. toSlave' \in [Slaves -> Seq(Instruction)]
    BY <2>1
  <2>3. QED
    BY <1>1, <1>2, <2>2
       DEF Disconnect, EngineTypeOK, engineVars, TerminalTypeOK, terminalVars
<1>3. ASSUME NEW s \in Slaves, ServiceCrash(s) PROVE TypeOK'
  BY <1>1, <1>3, ServiceStates
     DEF ServiceCrash, EngineTypeOK, engineVars, TerminalTypeOK, terminalVars
<1>4. CASE Crash
  BY <1>1, <1>4, BackendCrashType DEF Crash, TerminalTypeOK, terminalVars
<1>5. CASE CallThrows
  BY <1>1, <1>5, EngineType, EngineAloneType DEF CallThrows
<1>6. CASE PositionLost
  BY <1>6 DEF PositionLost, BrokerCloses, TerminalTypeOK, EngineTypeOK, engineVars,
              channelVars, faultVars
<1>7. QED
  BY <1>2, <1>3, <1>4, <1>5, <1>6

LEMMA StepType ==
  ASSUME TypeOK, ServiceConsistent, [Next]_vars
  PROVE  TypeOK'
<1>1. CASE EngineStep /\ EngineAlone
  BY <1>1, EngineType, EngineAloneType DEF TypeOK, EngineAlone, faultVars
<1>2. CASE UNCHANGED vars
  BY <1>2 DEF vars, TypeOK, EngineTypeOK, engineVars, TerminalTypeOK, terminalVars,
              channelVars, faultVars
<1>3. QED
  BY <1>1, <1>2, DispatchType, ReceiveResultType, ServiceStepType, FaultType DEF Next

(***************************************************************************)
(* The inductive invariant: engine steps.                                  *)
(***************************************************************************)
LEMMA InitInv == Init => IInv
<1> SUFFICES ASSUME Init PROVE IInv
  OBVIOUS
<1>1. TypeOK
  BY InitType
<1>2. \A c \in Copies : SlaveOf(c) \in Slaves /\ c # NoTicket
  BY CopyOrdersAssumption DEF Copies, SlaveOf
<1>3. \A c \in Copies : ~InFlight(c)
  BY <1>2 DEF Init, InFlight, FramesOf, IdleService, ServiceAt, NoInstruction
<1>4. EngineInv
  BY <1>2, <1>3
     DEF Init, EngineInit, TerminalInit, EngineInv, JobsInOrder, UnsentIsUnrun, SentHasRow,
         JobsEntitled, RecordingsHonest, RowsHonest, IdleJob, JobAt, AbsentRow, Exists
<1>5. TransportInv
  BY <1>2, <1>3
     DEF Init, TerminalInit, TransportInv, FliesOnce, ServiceConsistent, FramesEntitled,
         ActedOnEntitled, ReportsHonest, IdleService, ServiceAt
<1>6. QED
  BY <1>1, <1>4, <1>5 DEF IInv

LEMMA SameFlight ==
  ASSUME UNCHANGED <<toSlave, service>>
  PROVE  \A c : InFlight(c)' <=> InFlight(c)
BY DEF InFlight, FramesOf

LEMMA TransportUntouched ==
  ASSUME TransportInv, UNCHANGED <<attempts, actedOn, toSlave, fromSlave, service>>
  PROVE  TransportInv'
BY SameFlight
   DEF TransportInv, FliesOnce, ServiceConsistent, FramesEntitled, ActedOnEntitled,
       ReportsHonest, Honest

\* Steps that leave the rows and the jobs alone.
LEMMA HandlerInv ==
  ASSUME IInv, NEW e \in Events,
         \/ PublishEvent(e) \/ PersistEvent(e) \/ PersistFails(e) \/ EventMissed(e)
         \/ LookupEvent(e) \/ RetryLookup(e) \/ HandlerThrows(e),
         UNCHANGED <<terminalVars, toSlave, service>>
  PROVE  EngineInv'
<1>1. /\ UNCHANGED <<orders, clock, job, recording, attempts, actedOn>>
      /\ \A c \in Copies : InFlight(c)' <=> InFlight(c)
  BY SameFlight DEF PublishEvent, PersistEvent, PersistFails, EventMissed, LookupEvent,
     RetryLookup, HandlerThrows, HandlerGoes, KeepRows, terminalVars
<1>2. JobsInOrder'
  <2>1. ASSUME NEW c \in Copies,
               handler'[c[1]] \in {"unpublished", "lookup", "retry", "fanout"}
        PROVE  handler[c[1]] \in {"unpublished", "lookup", "retry", "fanout"}
    <3>1. c[1] \in Events
      BY DEF Copies
    <3>2. QED
      BY <2>1, <3>1 DEF IInv, TypeOK, EngineTypeOK, PublishEvent, PersistEvent, PersistFails,
         EventMissed, LookupEvent, RetryLookup, HandlerThrows, HandlerGoes
  <2>2. QED
    BY <1>1, <2>1 DEF IInv, EngineInv, JobsInOrder, Exists
<1>3. QED
  BY <1>1, <1>2
     DEF IInv, EngineInv, UnsentIsUnrun, SentHasRow, JobsEntitled, RecordingsHonest,
         RowsHonest, Honest, Exists

LEMMA FanOutInv ==
  ASSUME IInv, NEW e \in Events, FanOut(e), UNCHANGED <<terminalVars, toSlave, service>>
  PROVE  EngineInv'
<1>1. /\ UNCHANGED <<orders, clock, recording, attempts, actedOn>>
      /\ \A c \in Copies : InFlight(c)' <=> InFlight(c)
  BY SameFlight DEF FanOut, KeepRows, terminalVars
<1>2. \A c \in Copies : \/ job'[c] = job[c]
                        \/ job[c].pc = "idle" /\ job'[c].pc = "gather" /\ c[1] = e
  BY DEF FanOut, IInv, EngineInv, JobsInOrder, JobAt
<1>3. \A d \in Events : handler'[d] = IF d = e THEN "done" ELSE handler[d]
  BY DEF IInv, TypeOK, EngineTypeOK, FanOut
<1>4. \A c \in Copies : c[1] \in Events
  BY DEF Copies
<1>5. QED
  BY <1>1, <1>2, <1>3, <1>4
     DEF IInv, EngineInv, JobsInOrder, UnsentIsUnrun, SentHasRow, JobsEntitled,
         RecordingsHonest, RowsHonest, Honest, Exists

\* A job that moves without writing.
LEMMA JobMovesInv ==
  ASSUME IInv, NEW c \in Copies,
         UNCHANGED <<orders, handler, recording, attempts, actedOn, toSlave, service>>,
         \A d \in Copies : d # c => job'[d] = job[d],
         \/ job'[c].pc = "done"
         \/ /\ job[c].pc \in {"gather", "create"}
            /\ job'[c].pc \in {"gather", "reject", "create"}
         \/ job[c].pc = "dispatch" /\ job'[c].pc = "markOffline",
         job[c].pc # "idle",
         job'[c].pc = "create" => Entitled(c, job'[c].slaveTicket)
  PROVE  JobsInOrder' /\ UnsentIsUnrun' /\ SentHasRow' /\ JobsEntitled' /\ RecordingsHonest'
BY SameFlight
   DEF IInv, EngineInv, JobsInOrder, UnsentIsUnrun, SentHasRow, JobsEntitled,
       RecordingsHonest, Honest, Exists

LEMMA RowsUntouched ==
  ASSUME IInv, UNCHANGED <<orders, actedOn>>
  PROVE  RowsHonest'
BY DEF IInv, EngineInv, RowsHonest

LEMMA GatherInv ==
  ASSUME IInv, NEW c \in Copies, GatherStep(c), UNCHANGED <<terminalVars, toSlave, service>>
  PROVE  EngineInv'
<1>1. UNCHANGED <<orders, handler, recording, attempts, actedOn, toSlave, service>>
  BY DEF GatherStep, ReadOpens, ReadCloses, AcceptOpen, RefuseOpen, FindTicket, JobOnly,
         KeepRows, terminalVars
<1>2. job \in [Copies -> Job]
  BY DEF IInv, TypeOK, EngineTypeOK
<1>3. job[c].pc = "gather"
  BY DEF GatherStep, ReadOpens, ReadCloses, AcceptOpen, RefuseOpen, FindTicket, SummaryRead,
         Gathering
<1>4. \A d \in Copies : d # c => job'[d] = job[d]
  BY <1>2, JobGoesFacts DEF GatherStep, ReadOpens, ReadCloses, AcceptOpen, RefuseOpen, FindTicket
<1>5. CASE ReadOpens(c) \/ ReadCloses(c)
  <2>1. job'[c].pc = "gather"
    BY <1>2, <1>3, <1>5 DEF ReadOpens, ReadCloses, Job
  <2>2. QED
    BY <1>1, <1>3, <1>4, <2>1, JobMovesInv, RowsUntouched DEF EngineInv
<1>6. CASE AcceptOpen(c) \/ RefuseOpen(c)
  <2>1. job'[c].pc \in {"create", "reject"} /\ TypeOfCopy(c) = "OPEN"
    BY <1>2, <1>6, JobGoesFacts DEF AcceptOpen, RefuseOpen, SummaryRead, Gathering
  <2>2. QED
    BY <1>1, <1>3, <1>4, <2>1, JobMovesInv, RowsUntouched DEF EngineInv, Entitled
<1>7. CASE FindTicket(c)
  <2> DEFINE t == FindExecutedOpenSlaveTicket(orders, SlaveOf(c), MasterTicketOf(c))
  <2>1. /\ job'[c].pc = IF t = NoTicket THEN "reject" ELSE "create"
        /\ job'[c].slaveTicket = t
    BY <1>2, <1>7 DEF FindTicket, JobAt
  <2>2. t # NoTicket => Entitled(c, t)
    BY FoundTicketEntitled DEF IInv, TypeOK, EngineInv, TransportInv
  <2> HIDE DEF t
  <2>3. QED
    BY <1>1, <1>3, <1>4, <2>1, <2>2, JobMovesInv, RowsUntouched DEF EngineInv
<1>8. QED
  BY <1>5, <1>6, <1>7 DEF GatherStep

LEMMA JobThrowsInv ==
  ASSUME IInv, NEW c \in Copies, JobThrows(c), UNCHANGED <<terminalVars, toSlave, service>>
  PROVE  EngineInv'
<1>1. UNCHANGED <<orders, handler, recording, attempts, actedOn, toSlave, service>>
  BY DEF JobThrows, JobOnly, KeepRows, terminalVars
<1>2. /\ job'[c].pc = "done" /\ job[c].pc # "idle"
      /\ \A d \in Copies : d # c => job'[d] = job[d]
  BY JobEndsFacts DEF IInv, TypeOK, EngineTypeOK, JobThrows
<1>3. QED
  BY <1>1, <1>2, JobMovesInv, RowsUntouched DEF EngineInv

LEMMA FindOfflineInv ==
  ASSUME IInv, NEW c \in Copies, FindOffline(c)
  PROVE  EngineInv'
<1>1. UNCHANGED <<orders, handler, recording, attempts, actedOn, toSlave, service>>
  BY DEF FindOffline, JobOnly, KeepRows, terminalVars, channelVars
<1>2. /\ job'[c].pc = "markOffline" /\ job[c].pc = "dispatch"
      /\ \A d \in Copies : d # c => job'[d] = job[d]
  BY JobGoesFacts DEF IInv, TypeOK, EngineTypeOK, FindOffline
<1>3. QED
  BY <1>1, <1>2, JobMovesInv, RowsUntouched DEF EngineInv

\* Steps that write a row.  A created row is new; only copies that were run
\* have a ticket to lose.
LEMMA UnrunHasNoTicket ==
  ASSUME IInv, NEW c \in Copies, attempts[c] = 0
  PROVE  actedOn[c] = NoTicket /\ orders[c].slaveTicket = NoTicket /\ orders[c].status # "EXECUTED"
BY DEF IInv, EngineInv, TransportInv, ActedOnEntitled, RowsHonest, TypeOK, TerminalTypeOK

LEMMA CreateInv ==
  ASSUME IInv, NEW c \in Copies, CreateFailed(c) \/ CreatePending(c),
         UNCHANGED <<terminalVars, toSlave, service>>
  PROVE  EngineInv'
<1>1. /\ UNCHANGED <<handler, recording, attempts, actedOn>>
      /\ \A d \in Copies : InFlight(d)' <=> InFlight(d)
  BY SameFlight DEF CreateFailed, CreatePending, terminalVars
<1>2. job[c].pc \in {"reject", "create"} /\ attempts[c] = 0 /\ ~InFlight(c)
  BY DEF CreateFailed, CreatePending, IInv, EngineInv, UnsentIsUnrun
<1>3. /\ orders'[c].status \in {"FAILED", "PENDING"} /\ orders'[c].slaveTicket = NoTicket
      /\ CreatePending(c) => orders'[c].errorReason = "NONE"
      /\ \A d \in Copies : d # c => orders'[d] = orders[d]
  BY CreateRowFacts DEF CreateFailed, CreatePending, IInv, TypeOK, EngineTypeOK
<1>4. /\ \/ job'[c].pc = "done" /\ CreateFailed(c)
         \/ job'[c].pc = "dispatch" /\ CreatePending(c) /\ job'[c].slaveTicket = job[c].slaveTicket
      /\ \A d \in Copies : d # c => job'[d] = job[d]
  BY JobGoesFacts, JobEndsFacts DEF CreateFailed, CreatePending, IInv, TypeOK, EngineTypeOK
<1>5. CreatePending(c) => job[c].pc = "create"
  BY DEF CreatePending
<1>6. JobsInOrder' /\ UnsentIsUnrun'
  BY <1>1, <1>2, <1>3, <1>4 DEF IInv, EngineInv, JobsInOrder, UnsentIsUnrun, Exists
<1>7. SentHasRow'
  BY <1>1, <1>2, <1>3, <1>4 DEF IInv, EngineInv, SentHasRow, Exists
<1>8. JobsEntitled' /\ RecordingsHonest' /\ RowsHonest'
  BY <1>1, <1>2, <1>3, <1>4, <1>5
     DEF IInv, EngineInv, JobsEntitled, RecordingsHonest, Honest, RowsHonest
<1>9. QED
  BY <1>6, <1>7, <1>8 DEF EngineInv

LEMMA MarkInv ==
  ASSUME IInv, NEW c \in Copies, MarkOffline(c) \/ MarkSent(c),
         UNCHANGED <<terminalVars, toSlave, service>>
  PROVE  EngineInv'
<1>1. /\ UNCHANGED <<handler, recording, attempts, actedOn>>
      /\ \A d \in Copies : InFlight(d)' <=> InFlight(d)
  BY SameFlight DEF MarkOffline, MarkSent, terminalVars
<1>2. /\ orders'[c].status \in {"FAILED", "SENT"}
      /\ orders'[c].slaveTicket = orders[c].slaveTicket
      /\ MarkSent(c) => orders'[c].errorReason = orders[c].errorReason
      /\ \A d \in Copies : d # c => orders'[d] = orders[d]
  BY UpdateRowFacts DEF MarkOffline, MarkSent, IInv, TypeOK, EngineTypeOK
<1>3. /\ job'[c].pc = "done"
      /\ \A d \in Copies : d # c => job'[d] = job[d]
  BY JobEndsFacts DEF MarkOffline, MarkSent, IInv, TypeOK, EngineTypeOK
<1>4. /\ MarkOffline(c) => job[c].pc = "markOffline" /\ attempts[c] = 0 /\ ~InFlight(c)
      /\ MarkSent(c) => job[c].pc = "markSent"
  BY DEF MarkOffline, MarkSent, IInv, EngineInv, UnsentIsUnrun
<1>5. JobsInOrder' /\ UnsentIsUnrun'
  BY <1>1, <1>2, <1>3, <1>4 DEF IInv, EngineInv, JobsInOrder, UnsentIsUnrun, Exists
<1>6. SentHasRow'
  BY <1>1, <1>2, <1>3, <1>4 DEF IInv, EngineInv, SentHasRow, Exists
<1>7. JobsEntitled' /\ RecordingsHonest' /\ RowsHonest'
  BY <1>1, <1>2, <1>3
     DEF IInv, EngineInv, JobsEntitled, RecordingsHonest, Honest, RowsHonest
<1>8. QED
  BY <1>5, <1>6, <1>7 DEF EngineInv

\* An honest report is recorded: the row of a copy that was run.
LEMMA RecordInv ==
  ASSUME IInv, NEW r \in recording, RecordResult(r) \/ RecordingThrows(r),
         UNCHANGED <<terminalVars, toSlave, service>>
  PROVE  EngineInv'
<1>1. r \in Recording /\ r.copy \in Copies /\ Honest(r)
  BY DEF IInv, TypeOK, EngineTypeOK, EngineInv, RecordingsHonest, Recording
<1>2. /\ UNCHANGED <<handler, job, attempts, actedOn>> /\ recording' \subseteq recording
      /\ \A d \in Copies : InFlight(d)' <=> InFlight(d)
  BY SameFlight DEF RecordResult, RecordingThrows, KeepRows, terminalVars
<1>3. CASE RecordingThrows(r)
  BY <1>2, <1>3
     DEF RecordingThrows, KeepRows, IInv, EngineInv, JobsInOrder, UnsentIsUnrun, SentHasRow,
         JobsEntitled, RecordingsHonest, Honest, RowsHonest, Exists
<1>4. CASE RecordResult(r)
  <2>1. /\ orders'[r.copy].status = r.status /\ r.status \in {"EXECUTED", "FAILED"}
        /\ orders'[r.copy].slaveTicket = r.slaveTicket
        /\ orders'[r.copy].errorReason \in {"REPORTED", orders[r.copy].errorReason}
        /\ \A d \in Copies : d # r.copy => orders'[d] = orders[d]
    BY <1>1, <1>4 DEF RecordResult, IInv, TypeOK, EngineTypeOK, Row, Recording
  <2>2. attempts[r.copy] > 0 /\ attempts[r.copy] # 0
    BY <1>1 DEF Honest, IInv, TypeOK, TerminalTypeOK
  <2>3. JobsInOrder' /\ UnsentIsUnrun'
    BY <1>1, <1>2, <2>1, <2>2 DEF IInv, EngineInv, JobsInOrder, UnsentIsUnrun, Exists
  <2>4. SentHasRow'
    BY <1>1, <1>2, <2>1, <2>2 DEF IInv, EngineInv, SentHasRow, Exists
  <2>5. JobsEntitled' /\ RecordingsHonest' /\ RowsHonest'
    BY <1>1, <1>2, <2>1
       DEF IInv, EngineInv, JobsEntitled, RecordingsHonest, Honest, RowsHonest
  <2>6. QED
    BY <2>3, <2>4, <2>5 DEF EngineInv
<1>5. QED
  BY <1>3, <1>4

LEMMA PatchSlaveInv ==
  ASSUME IInv, NEW s \in Slaves, PatchSlave(s), UNCHANGED <<terminalVars, toSlave, service>>
  PROVE  EngineInv'
BY SameFlight
   DEF PatchSlave, KeepRows, terminalVars, IInv, EngineInv, JobsInOrder, UnsentIsUnrun,
       SentHasRow, JobsEntitled, RecordingsHonest, Honest, RowsHonest, Exists

LEMMA BackendCrashInv ==
  ASSUME IInv, BackendCrash, UNCHANGED <<terminalVars, toSlave, service>>
  PROVE  EngineInv'
<1>1. /\ UNCHANGED <<orders, attempts, actedOn>> /\ recording' = {}
      /\ \A c \in Copies : InFlight(c)' <=> InFlight(c)
  BY SameFlight DEF BackendCrash, KeepRows, terminalVars
<1>2. \A c \in Copies : \/ job'[c] = job[c] /\ job[c].pc = "idle"
                        \/ job'[c].pc = "done" /\ job[c].pc # "idle"
  BY DEF BackendCrash, Ended, JobAt
<1>3. \A e \in Events : handler'[e] \in {"unpublished", "lookup", "retry", "fanout"}
                        => handler'[e] = handler[e]
  BY DEF BackendCrash, IInv, TypeOK, EngineTypeOK
<1>4. \A c \in Copies : c[1] \in Events
  BY DEF Copies
<1>5. QED
  BY <1>1, <1>2, <1>3, <1>4
     DEF IInv, EngineInv, JobsInOrder, UnsentIsUnrun, SentHasRow, JobsEntitled,
         RecordingsHonest, RowsHonest, Honest, Exists

LEMMA EngineStepInv ==
  ASSUME IInv, EngineStep \/ EngineCallFails, UNCHANGED <<terminalVars, toSlave, service>>
  PROVE  EngineInv'
<1>1. ASSUME NEW e \in Events,
             \/ PublishEvent(e) \/ PersistEvent(e) \/ HandlerStep(e)
             \/ EventMissed(e) \/ PersistFails(e) \/ HandlerThrows(e)
      PROVE  EngineInv'
  BY <1>1, HandlerInv, FanOutInv DEF HandlerStep
<1>2. QED
  BY <1>1, GatherInv, CreateInv, MarkInv, RecordInv, PatchSlaveInv, JobThrowsInv
     DEF EngineStep, EngineCallFails, WriteStep

(***************************************************************************)
(* The inductive invariant: the socket and the service.                    *)
(***************************************************************************)
LEMMA FrameType ==
  ASSUME TypeOK, NEW s \in Slaves, NEW n \in DOMAIN toSlave[s]
  PROVE  toSlave[s][n] \in Instruction /\ toSlave[s][n].copy \in Copies
<1>1. toSlave[s] \in Seq(Instruction)
  BY DEF TypeOK
<1>2. toSlave[s][n] \in Instruction
  BY <1>1
<1>3. QED
  BY <1>2 DEF Instruction

LEMMA LessFlight ==
  ASSUME IInv, UNCHANGED <<engineVars, attempts, actedOn>>,
         \A c \in Copies : InFlight(c)' => InFlight(c)
  PROVE  EngineInv'
BY DEF engineVars, IInv, EngineInv, JobsInOrder, UnsentIsUnrun, SentHasRow, JobsEntitled,
       RecordingsHonest, Honest, RowsHonest, Exists

\* Frames, instructions and results that get lost.
LEMMA LossInv ==
  ASSUME IInv, UNCHANGED <<attempts, actedOn>>,
         \A s \in Slaves :
           /\ DOMAIN toSlave'[s] \subseteq DOMAIN toSlave[s]
           /\ \A n \in DOMAIN toSlave'[s] : toSlave'[s][n] = toSlave[s][n]
           /\ fromSlave'[s] \in {fromSlave[s], <<>>}
           /\ service'[s] \in {service[s], IdleService}
  PROVE  TransportInv' /\ \A c \in Copies : InFlight(c)' => InFlight(c)
<1>1. /\ IdleService.busy = "idle" /\ IdleService.instruction = NoInstruction
      /\ NoInstruction.copy = NoTicket
  BY DEF IdleService, ServiceAt, NoInstruction
<1>2. ASSUME NEW c \in Copies, InFlight(c)' PROVE InFlight(c)
  BY <1>1, <1>2, CopyFacts DEF InFlight, FramesOf
<1>3. FliesOnce'
  <2>1. \A c \in Copies : attempts'[c] <= 1 /\ (InFlight(c)' => attempts'[c] = 0)
    BY <1>2 DEF IInv, TransportInv, FliesOnce
  <2>2. ASSUME NEW s \in Slaves, NEW n \in DOMAIN toSlave'[s]
        PROVE  /\ SlaveOf(toSlave'[s][n].copy) = s
               /\ toSlave'[s][n].copy # service'[s].instruction.copy
    <3>1. toSlave[s][n].copy \in Copies
      BY FrameType DEF IInv
    <3>2. QED
      BY <1>1, <3>1, CopyFacts DEF IInv, TransportInv, FliesOnce
  <2>3. \A s \in Slaves : \A m, n \in DOMAIN toSlave'[s] :
          toSlave'[s][m].copy = toSlave'[s][n].copy => m = n
    BY DEF IInv, TransportInv, FliesOnce
  <2>4. QED
    BY <2>1, <2>2, <2>3 DEF FliesOnce
<1>4. ServiceConsistent' /\ FramesEntitled' /\ ReportsHonest'
  BY <1>1 DEF IInv, TransportInv, ServiceConsistent, FramesEntitled, ReportsHonest, Honest
<1>5. ActedOnEntitled'
  BY DEF IInv, TransportInv, ActedOnEntitled
<1>6. QED
  BY <1>2, <1>3, <1>4, <1>5 DEF TransportInv

LEMMA LossStepInv ==
  ASSUME IInv, NEW s \in Slaves, SendFails(s) \/ Connect(s) \/ Disconnect(s) \/ ServiceCrash(s)
  PROVE  EngineInv' /\ TransportInv'
<1>1. UNCHANGED <<engineVars, attempts, actedOn>>
  BY DEF SendFails, Connect, Disconnect, ServiceCrash, terminalVars
<1>2. ASSUME NEW x \in Slaves
      PROVE  /\ DOMAIN toSlave'[x] \subseteq DOMAIN toSlave[x]
             /\ \A n \in DOMAIN toSlave'[x] : toSlave'[x][n] = toSlave[x][n]
  <2>1. toSlave[x] \in Seq(Instruction) /\ toSlave \in [Slaves -> Seq(Instruction)]
    BY DEF IInv, TypeOK
  <2>2. CASE toSlave'[x] = toSlave[x]
    BY <2>2
  <2>3. CASE toSlave'[x] = <<>>
    BY <2>3
  <2>4. CASE \E n \in 0..Len(toSlave[x]) : toSlave'[x] = SubSeq(toSlave[x], 1, n)
    BY <2>1, <2>4
  <2>5. \/ toSlave'[x] \in {toSlave[x], <<>>}
        \/ \E n \in 0..Len(toSlave[x]) : toSlave'[x] = SubSeq(toSlave[x], 1, n)
    BY <2>1 DEF SendFails, Connect, Disconnect, ServiceCrash
  <2>6. QED
    BY <2>2, <2>3, <2>4, <2>5
<1>3. \A x \in Slaves : /\ fromSlave'[x] \in {fromSlave[x], <<>>}
                        /\ service'[x] \in {service[x], IdleService}
  BY DEF IInv, TypeOK, SendFails, Connect, Disconnect, ServiceCrash
<1>4. TransportInv' /\ \A c \in Copies : InFlight(c)' => InFlight(c)
  BY <1>1, <1>2, <1>3, LossInv
<1>5. QED
  BY <1>1, <1>4, LessFlight

LEMMA CrashInv ==
  ASSUME IInv, Crash
  PROVE  EngineInv' /\ TransportInv'
<1>1. UNCHANGED <<terminalVars, toSlave, service, attempts, actedOn>>
  BY DEF Crash, terminalVars
<1>2. \A s \in Slaves : fromSlave'[s] \in {fromSlave[s], <<>>}
  BY DEF Crash
<1>3. TransportInv'
  BY <1>1, <1>2, LossInv
<1>4. EngineInv'
  BY <1>1, BackendCrashInv DEF Crash
<1>5. QED
  BY <1>3, <1>4

LEMMA PositionLostInv ==
  ASSUME IInv, PositionLost
  PROVE  EngineInv' /\ TransportInv'
<1>1. UNCHANGED <<engineVars, attempts, actedOn, toSlave, fromSlave, service>>
  BY DEF PositionLost, BrokerCloses, channelVars
<1>2. QED
  BY <1>1, SameFlight, LessFlight, TransportUntouched DEF IInv

\* A frame leaves: the copy was neither in flight nor run before.
LEMMA SendToSlaveInv ==
  ASSUME IInv, NEW c \in Copies, SendToSlave(c)
  PROVE  EngineInv' /\ TransportInv'
<1> DEFINE s == SlaveOf(c)
           frame == [copy |-> c, slaveTicket |-> job[c].slaveTicket]
<1>1. /\ s \in Slaves
      /\ toSlave \in [Slaves -> Seq(Instruction)] /\ toSlave[s] \in Seq(Instruction)
  BY CopyFacts DEF IInv, TypeOK
<1>2. /\ UNCHANGED <<orders, handler, recording, attempts, actedOn, fromSlave, service>>
      /\ job[c].pc = "dispatch" /\ job'[c].pc = "markSent"
      /\ \A d \in Copies : d # c => job'[d] = job[d]
      /\ toSlave' = [toSlave EXCEPT ![s] = Append(@, frame)]
  BY JobGoesFacts DEF IInv, TypeOK, EngineTypeOK, SendToSlave, KeepRows, terminalVars
<1>3. /\ \A x \in Slaves : x # s => toSlave'[x] = toSlave[x]
      /\ DOMAIN toSlave[s] = 1..Len(toSlave[s]) /\ Len(toSlave[s]) \in Nat
      /\ DOMAIN toSlave'[s] = 1..(Len(toSlave[s]) + 1)
      /\ toSlave'[s][Len(toSlave[s]) + 1] = frame
      /\ \A n \in DOMAIN toSlave[s] : toSlave'[s][n] = toSlave[s][n]
  <2> HIDE DEF s, frame
  <2>1. QED
    BY <1>1, <1>2
<1>4. attempts[c] = 0 /\ ~InFlight(c) /\ Entitled(c, job[c].slaveTicket)
  BY <1>2 DEF IInv, EngineInv, UnsentIsUnrun, JobsEntitled
<1>5. frame.copy = c /\ frame.slaveTicket = job[c].slaveTicket
  OBVIOUS
<1> HIDE DEF frame
<1>6. ASSUME NEW d \in Copies, d # c, InFlight(d)' PROVE InFlight(d)
  <2>1. CASE service[SlaveOf(d)].instruction.copy = d
    BY <2>1 DEF InFlight
  <2>2. CASE SlaveOf(d) # s /\ d \in FramesOf(SlaveOf(d))'
    BY <1>3, <2>2, CopyFacts DEF InFlight, FramesOf
  <2>3. CASE SlaveOf(d) = s /\ d \in FramesOf(s)'
    <3>1. PICK n \in DOMAIN toSlave'[s] : toSlave'[s][n].copy = d
      BY <2>3 DEF FramesOf
    <3>2. n \in DOMAIN toSlave[s]
      BY <1>3, <1>5, <1>6, <3>1
    <3>3. QED
      BY <1>3, <2>3, <3>1, <3>2 DEF InFlight, FramesOf
  <2>4. QED
    BY <1>2, <1>6, <2>1, <2>2, <2>3 DEF InFlight
<1>7. EngineInv'
  BY <1>2, <1>6
     DEF IInv, EngineInv, JobsInOrder, UnsentIsUnrun, SentHasRow, JobsEntitled,
         RecordingsHonest, Honest, RowsHonest, Exists
<1>8. FliesOnce'
  <2>1. \A d \in Copies : attempts'[d] <= 1 /\ (InFlight(d)' => attempts'[d] = 0)
    BY <1>2, <1>4, <1>6 DEF IInv, TransportInv, FliesOnce
  <2>2. \A n \in DOMAIN toSlave[s] : toSlave[s][n].copy # c
    BY <1>4 DEF InFlight, FramesOf
  <2>3. service[s].instruction.copy # c
    BY <1>4 DEF InFlight
  <2>4. ASSUME NEW x \in Slaves, NEW n \in DOMAIN toSlave'[x]
        PROVE  /\ SlaveOf(toSlave'[x][n].copy) = x
               /\ toSlave'[x][n].copy # service'[x].instruction.copy
    BY <1>2, <1>3, <1>5, <2>3 DEF IInv, TransportInv, FliesOnce
  <2>5. ASSUME NEW x \in Slaves, NEW m \in DOMAIN toSlave'[x], NEW n \in DOMAIN toSlave'[x],
               toSlave'[x][m].copy = toSlave'[x][n].copy
        PROVE  m = n
    <3>1. CASE x # s
      BY <1>3, <2>5, <3>1 DEF IInv, TransportInv, FliesOnce
    <3>2. CASE x = s
      <4>1. \A k \in DOMAIN toSlave'[s] : k \in DOMAIN toSlave[s] \/ k = Len(toSlave[s]) + 1
        BY <1>3
      <4>2. CASE m \in DOMAIN toSlave[s] /\ n \in DOMAIN toSlave[s]
        BY <1>3, <2>5, <3>2, <4>2 DEF IInv, TransportInv, FliesOnce
      <4>3. CASE m \in DOMAIN toSlave[s] /\ n = Len(toSlave[s]) + 1
        BY <1>3, <1>5, <2>2, <2>5, <3>2, <4>3
      <4>4. CASE n \in DOMAIN toSlave[s] /\ m = Len(toSlave[s]) + 1
        BY <1>3, <1>5, <2>2, <2>5, <3>2, <4>4
      <4>5. QED
        BY <3>2, <4>1, <4>2, <4>3, <4>4
    <3>3. QED
      BY <3>1, <3>2
  <2>6. QED
    BY <2>1, <2>4, <2>5 DEF FliesOnce
<1>9. FramesEntitled'
  BY <1>2, <1>3, <1>4, <1>5 DEF IInv, TransportInv, FramesEntitled
<1>10. ServiceConsistent' /\ ActedOnEntitled' /\ ReportsHonest'
  BY <1>2 DEF IInv, TransportInv, ServiceConsistent, ActedOnEntitled, ReportsHonest, Honest
<1>11. QED
  BY <1>7, <1>8, <1>9, <1>10 DEF TransportInv

LEMMA ReceiveResultInv ==
  ASSUME IInv, NEW s \in Slaves, ReceiveResult(s)
  PROVE  EngineInv' /\ TransportInv'
<1> DEFINE r == Head(fromSlave[s])
<1>1. /\ fromSlave[s] \in Seq(Result) /\ fromSlave[s] # <<>>
      /\ fromSlave \in [Slaves -> Seq(Result)]
  BY DEF IInv, TypeOK, ReceiveResult
<1>2. r \in Result /\ Honest(r)
  BY <1>1 DEF IInv, TransportInv, ReportsHonest
<1>3. UNCHANGED <<orders, handler, job, attempts, actedOn, toSlave, service>>
  BY DEF ReceiveResult, KeepRows, terminalVars
<1>4. RecordingsHonest'
  <2>1. Honest(RecordingOf(r, 0))
    BY <1>2 DEF Honest, RecordingOf, Result, IInv, EngineInv, RowsHonest
  <2>2. recording' \subseteq recording \cup {RecordingOf(r, 0)}
    BY DEF ReceiveResult, BeginRecording
  <2>3. QED
    BY <1>3, <2>1, <2>2 DEF IInv, EngineInv, RecordingsHonest, Honest
<1>5. EngineInv'
  BY <1>3, <1>4, SameFlight
     DEF IInv, EngineInv, JobsInOrder, UnsentIsUnrun, SentHasRow, JobsEntitled, RowsHonest, Exists
<1>6. ReportsHonest'
  <2>1. \A x \in Slaves : x # s => fromSlave'[x] = fromSlave[x]
    BY DEF ReceiveResult, IInv, TypeOK
  <2>2. \A n \in DOMAIN fromSlave'[s] : n + 1 \in DOMAIN fromSlave[s]
                                        /\ fromSlave'[s][n] = fromSlave[s][n + 1]
    BY <1>1 DEF ReceiveResult
  <2>3. QED
    BY <1>3, <2>1, <2>2 DEF IInv, TransportInv, ReportsHonest, Honest
<1>7. QED
  BY <1>3, <1>5, <1>6, SameFlight
     DEF IInv, TransportInv, FliesOnce, ServiceConsistent, FramesEntitled, ActedOnEntitled

LEMMA TakeInstructionInv ==
  ASSUME IInv, NEW s \in Slaves, TakeInstruction(s)
  PROVE  EngineInv' /\ TransportInv'
<1> DEFINE i == Head(toSlave[s])
<1>1. /\ toSlave[s] \in Seq(Instruction) /\ toSlave[s] # <<>>
      /\ toSlave \in [Slaves -> Seq(Instruction)]
  BY DEF IInv, TypeOK, TakeInstruction
<1>2. /\ 1 \in DOMAIN toSlave[s] /\ i = toSlave[s][1] /\ i \in Instruction
      /\ i.copy \in Copies
  <2>1. 1 \in DOMAIN toSlave[s] /\ i = toSlave[s][1]
    BY <1>1
  <2>2. QED
    BY <2>1, FrameType DEF IInv
<1>3. UNCHANGED <<engineVars, attempts, actedOn, fromSlave>>
  BY DEF TakeInstruction, terminalVars
<1>4. /\ \A x \in Slaves : x # s => toSlave'[x] = toSlave[x] /\ service'[x] = service[x]
      /\ service'[s].busy = "executing" /\ service'[s].instruction = i
  BY DEF TakeInstruction, IInv, TypeOK, Executing, ServiceAt
<1>5. \A n \in DOMAIN toSlave'[s] : /\ n + 1 \in DOMAIN toSlave[s] /\ n \in Nat /\ n # 0
                                    /\ toSlave'[s][n] = toSlave[s][n + 1]
  BY <1>1 DEF TakeInstruction
<1> HIDE DEF i
<1>6. ASSUME NEW c \in Copies, InFlight(c)' PROVE InFlight(c)
  <2>1. CASE SlaveOf(c) # s
    BY <1>4, <1>6, <2>1, CopyFacts DEF InFlight, FramesOf
  <2>2. CASE SlaveOf(c) = s
    BY <1>2, <1>4, <1>5, <1>6, <2>2 DEF InFlight, FramesOf
  <2>3. QED
    BY <2>1, <2>2
<1>7. FliesOnce'
  <2>1. \A c \in Copies : attempts'[c] <= 1 /\ (InFlight(c)' => attempts'[c] = 0)
    BY <1>3, <1>6 DEF IInv, TransportInv, FliesOnce
  <2>2. ASSUME NEW x \in Slaves, NEW n \in DOMAIN toSlave'[x]
        PROVE  /\ SlaveOf(toSlave'[x][n].copy) = x
               /\ toSlave'[x][n].copy # service'[x].instruction.copy
    <3>1. CASE x # s
      BY <1>4, <3>1 DEF IInv, TransportInv, FliesOnce
    <3>2. CASE x = s
      <4>1. n + 1 # 1
        BY <1>5, <3>2
      <4>2. QED
        BY <1>2, <1>4, <1>5, <3>2, <4>1 DEF IInv, TransportInv, FliesOnce
    <3>3. QED
      BY <3>1, <3>2
  <2>3. ASSUME NEW x \in Slaves, NEW m \in DOMAIN toSlave'[x], NEW n \in DOMAIN toSlave'[x],
               toSlave'[x][m].copy = toSlave'[x][n].copy
        PROVE  m = n
    <3>1. CASE x # s
      BY <1>4, <2>3, <3>1 DEF IInv, TransportInv, FliesOnce
    <3>2. CASE x = s
      <4>1. m + 1 = n + 1
        BY <1>5, <2>3, <3>2 DEF IInv, TransportInv, FliesOnce
      <4>2. QED
        BY <1>5, <3>2, <4>1
    <3>3. QED
      BY <3>1, <3>2
  <2>4. QED
    BY <2>1, <2>2, <2>3 DEF FliesOnce
<1>8. ServiceConsistent'
  <2>1. SlaveOf(i.copy) = s
    BY <1>2 DEF IInv, TransportInv, FliesOnce
  <2>2. QED
    BY <1>2, <1>4, <2>1 DEF IInv, TransportInv, ServiceConsistent
<1>9. FramesEntitled'
  <2>1. Entitled(i.copy, i.slaveTicket)
    BY <1>2 DEF IInv, TransportInv, FramesEntitled
  <2>2. QED
    BY <1>4, <1>5, <2>1 DEF IInv, TransportInv, FramesEntitled
<1>10. ActedOnEntitled' /\ ReportsHonest'
  BY <1>3, <1>4 DEF IInv, TransportInv, ActedOnEntitled, ReportsHonest, Honest
<1>11. EngineInv'
  BY <1>3, <1>6, LessFlight
<1>12. QED
  BY <1>7, <1>8, <1>9, <1>10, <1>11 DEF TransportInv

LEMMA SendResultInv ==
  ASSUME IInv, NEW s \in Slaves, SendResult(s)
  PROVE  EngineInv' /\ TransportInv'
<1>1. UNCHANGED <<engineVars, attempts, actedOn, toSlave>>
  BY DEF SendResult, terminalVars
<1>2. /\ \A x \in Slaves : x # s => fromSlave'[x] = fromSlave[x] /\ service'[x] = service[x]
      /\ service'[s].busy = "idle" /\ service'[s].instruction = NoInstruction
      /\ service[s].busy = "reporting"
  BY DEF SendResult, IInv, TypeOK, IdleService, ServiceAt
<1>3. service[s].result \in Result /\ Honest(service[s].result)
      /\ service[s].instruction = NoInstruction
  BY <1>2 DEF IInv, TransportInv, ServiceConsistent, ReportsHonest
<1>4. \A c \in Copies : InFlight(c)' => InFlight(c)
  <2>1. \A x \in Slaves : service'[x].instruction = service[x].instruction
    BY <1>2, <1>3
  <2>2. QED
    BY <1>1, <2>1, CopyFacts DEF InFlight, FramesOf
<1>5. FliesOnce' /\ ServiceConsistent' /\ FramesEntitled' /\ ActedOnEntitled'
  <2>1. \A x \in Slaves : service'[x].instruction = service[x].instruction
    BY <1>2, <1>3
  <2>2. FliesOnce'
    BY <1>1, <1>4, <2>1 DEF IInv, TransportInv, FliesOnce
  <2>3. QED
    BY <1>1, <1>2, <2>2
       DEF IInv, TransportInv, ServiceConsistent, FramesEntitled, ActedOnEntitled
<1>6. ReportsHonest'
  <2>1. fromSlave[s] \in Seq(Result) /\ fromSlave \in [Slaves -> Seq(Result)]
    BY DEF IInv, TypeOK
  <2>2. fromSlave'[s] = Append(fromSlave[s], service[s].result)
    BY <2>1 DEF SendResult
  <2>3. \A n \in DOMAIN fromSlave'[s] : \/ n \in DOMAIN fromSlave[s]
                                          /\ fromSlave'[s][n] = fromSlave[s][n]
                                       \/ fromSlave'[s][n] = service[s].result
    BY <1>3, <2>1, <2>2
  <2>4. QED
    BY <1>1, <1>2, <1>3, <2>3 DEF IInv, TransportInv, ReportsHonest, Honest
<1>7. QED
  BY <1>1, <1>4, <1>5, <1>6, LessFlight DEF TransportInv

\* The terminal acts: on a copy not run before, at a position it may act on.
LEMMA ExecuteInv ==
  ASSUME IInv, NEW s \in Slaves, Execute(s)
  PROVE  EngineInv' /\ TransportInv'
<1> DEFINE i == service[s].instruction
           c == i.copy
<1>1. PICK r \in Result : ExecuteInstruction(i, r) /\ service' = [service EXCEPT ![s] = Reporting(r)]
  BY DEF Execute
<1>2. UNCHANGED <<engineVars, toSlave, fromSlave>> /\ service[s].busy = "executing"
  BY DEF Execute, channelVars
<1>3. i \in Instruction /\ c \in Copies /\ SlaveOf(c) = s /\ i.slaveTicket \in Tickets
  BY <1>2 DEF IInv, TransportInv, ServiceConsistent, Instruction
<1>4. Entitled(c, i.slaveTicket)
  BY <1>2 DEF IInv, TransportInv, FramesEntitled
<1>5. InFlight(c) /\ attempts[c] = 0 /\ actedOn[c] = NoTicket /\ orders[c].slaveTicket = NoTicket
  <2>1. InFlight(c)
    BY <1>3 DEF InFlight
  <2>2. QED
    BY <1>3, <2>1, UnrunHasNoTicket DEF IInv, TransportInv, FliesOnce
<1>6. /\ attempts'[c] = 1
      /\ \A d \in Copies : d # c => attempts'[d] = attempts[d] /\ actedOn'[d] = actedOn[d]
      /\ actedOn'[c] # NoTicket => MayActOn(c, actedOn'[c])
      /\ r.copy = c /\ (r.slaveTicket # NoTicket => r.slaveTicket = actedOn'[c])
      /\ r.status = "EXECUTED" => r.slaveTicket # NoTicket
  BY <1>1, <1>3, <1>4, <1>5, ExecuteFacts DEF IInv, TypeOK
<1>7. /\ service'[s].busy = "reporting" /\ service'[s].result = r
      /\ service'[s].instruction = NoInstruction /\ NoInstruction.copy = NoTicket
      /\ \A x \in Slaves : x # s => service'[x] = service[x]
  BY <1>1 DEF IInv, TypeOK, Reporting, ServiceAt, NoInstruction
<1>8. ASSUME NEW d \in Copies, InFlight(d)' PROVE InFlight(d) /\ d # c
  <2>1. CASE SlaveOf(d) # s
    BY <1>2, <1>3, <1>7, <1>8, <2>1, CopyFacts DEF InFlight, FramesOf
  <2>2. CASE SlaveOf(d) = s
    <3>1. d \in FramesOf(s)
      BY <1>2, <1>7, <1>8, <2>2, CopyFacts DEF InFlight, FramesOf
    <3>2. d # c
      BY <3>1 DEF FramesOf, IInv, TransportInv, FliesOnce
    <3>3. QED
      BY <2>2, <3>1, <3>2 DEF InFlight
  <2>3. QED
    BY <2>1, <2>2
<1> HIDE DEF i, c
<1>9. EngineInv'
  <2>1. UnsentIsUnrun' /\ SentHasRow' /\ JobsInOrder' /\ JobsEntitled'
    BY <1>2, <1>3, <1>5, <1>6, <1>8
       DEF engineVars, IInv, EngineInv, UnsentIsUnrun, SentHasRow, JobsInOrder, JobsEntitled, Exists
  <2>2. RowsHonest'
    BY <1>2, <1>5, <1>6 DEF engineVars, IInv, EngineInv, RowsHonest
  <2>3. RecordingsHonest'
    <3>1. ASSUME NEW q \in recording PROVE Honest(q)'
      <4>1. q.copy \in Copies /\ Honest(q)
        BY DEF IInv, EngineInv, RecordingsHonest, TypeOK, EngineTypeOK, Recording
      <4>2. q.copy # c
        BY <1>5, <4>1 DEF Honest
      <4>3. QED
        BY <1>6, <4>1, <4>2 DEF Honest
    <3>2. QED
      BY <1>2, <3>1 DEF engineVars, RecordingsHonest
  <2>4. QED
    BY <2>1, <2>2, <2>3 DEF EngineInv
<1>10. FliesOnce'
  <2>1. \A d \in Copies : attempts'[d] <= 1 /\ (InFlight(d)' => attempts'[d] = 0)
    BY <1>6, <1>8 DEF IInv, TransportInv, FliesOnce
  <2>2. ASSUME NEW x \in Slaves, NEW n \in DOMAIN toSlave'[x]
        PROVE  /\ SlaveOf(toSlave'[x][n].copy) = x
               /\ toSlave'[x][n].copy # service'[x].instruction.copy
    <3>1. toSlave[x][n].copy \in Copies
      BY <1>2, FrameType DEF IInv
    <3>2. QED
      BY <1>2, <1>7, <3>1, CopyFacts DEF IInv, TransportInv, FliesOnce
  <2>3. QED
    BY <1>2, <2>1, <2>2 DEF IInv, TransportInv, FliesOnce
<1>11. ServiceConsistent' /\ FramesEntitled'
  BY <1>2, <1>7 DEF IInv, TransportInv, ServiceConsistent, FramesEntitled
<1>12. ActedOnEntitled'
  BY <1>3, <1>6 DEF IInv, TransportInv, ActedOnEntitled
<1>13. ReportsHonest'
  <2>1. Honest(r)'
    BY <1>6 DEF Honest
  <2>2. ASSUME NEW q \in Result, Honest(q) PROVE Honest(q)'
    <3>1. q.copy \in Copies /\ q.copy # c
      BY <1>5, <2>2 DEF Honest, Result
    <3>2. QED
      BY <1>6, <2>2, <3>1 DEF Honest
  <2>3. \A x \in Slaves : \A n \in DOMAIN fromSlave[x] : fromSlave[x][n] \in Result
    BY DEF IInv, TypeOK
  <2>4. \A x \in Slaves : service[x].busy = "reporting" => service[x].result \in Result
    BY DEF IInv, TransportInv, ServiceConsistent
  <2>5. QED
    BY <1>2, <1>7, <2>1, <2>2, <2>3, <2>4 DEF IInv, TransportInv, ReportsHonest
<1>14. QED
  BY <1>9, <1>10, <1>11, <1>12, <1>13 DEF TransportInv

(***************************************************************************)
(* The theorems.                                                           *)
(***************************************************************************)
LEMMA StepInv == IInv /\ [Next]_vars => IInv'
<1> SUFFICES ASSUME IInv, [Next]_vars PROVE IInv'
  OBVIOUS
<1>1. TypeOK'
  BY StepType DEF IInv, TransportInv
<1>2. CASE EngineStep /\ EngineAlone
  <2>1. UNCHANGED <<terminalVars, toSlave, fromSlave, service, attempts, actedOn>>
    BY <1>2 DEF EngineAlone, channelVars, terminalVars
  <2>2. QED
    BY <1>1, <1>2, <2>1, EngineStepInv, TransportUntouched DEF IInv
<1>3. CASE CallThrows
  <2>1. UNCHANGED <<terminalVars, toSlave, fromSlave, service, attempts, actedOn>>
    BY <1>3 DEF CallThrows, channelVars, terminalVars
  <2>2. QED
    BY <1>1, <1>3, <2>1, EngineStepInv, TransportUntouched DEF IInv, CallThrows
<1>4. ASSUME NEW c \in Copies, FindOffline(c) \/ MarkSent(c) PROVE IInv'
  <2>1. UNCHANGED <<terminalVars, toSlave, fromSlave, service, attempts, actedOn>>
    BY <1>4 DEF FindOffline, MarkSent, channelVars, terminalVars
  <2>2. QED
    BY <1>1, <1>4, <2>1, FindOfflineInv, MarkInv, TransportUntouched DEF IInv
<1>5. CASE UNCHANGED vars
  <2>1. UNCHANGED <<engineVars, attempts, actedOn, toSlave, fromSlave, service>>
    BY <1>5 DEF vars, terminalVars, channelVars
  <2>2. QED
    BY <1>1, <2>1, SameFlight, LessFlight, TransportUntouched DEF IInv
<1>6. QED
  BY <1>1, <1>2, <1>3, <1>4, <1>5, SendToSlaveInv, ReceiveResultInv, TakeInstructionInv,
     ExecuteInv, SendResultInv, LossStepInv, CrashInv, PositionLostInv
     DEF IInv, Next, DispatchStep, ServiceStep

\* The invariant holds of every reachable state, whatever crashes, is lost,
\* or races.
THEOREM Invariance == Spec => []IInv
BY InitInv, StepInv, PTL DEF Spec

\* Every variable keeps its type; in particular a row's creation time is
\* never ahead of the clock, so the ticket lookup always finds a latest row.
THEOREM TypeCorrectness == Spec => []TypeOK
<1>1. IInv => TypeOK
  BY DEF IInv
<1>2. QED
  BY <1>1, Invariance, PTL

\* handleSlaveMessage's unconditional writes, late results and MarkSent can
\* make a row forget an outcome, but never invent one: EXECUTED is claimed of
\* a copy the terminal carried out, with the ticket of that very position.
THEOREM ExecutedRowsAreReal == Spec => []ExecutedIsReal
<1>1. IInv => ExecutedIsReal
  BY DEF IInv, EngineInv, RowsHonest, ExecutedIsReal
<1>2. QED
  BY <1>1, Invariance, PTL

\* findExecutedOpenSlaveTicket never hands a CLOSE or MODIFY the position of
\* another Slave or of another Master trade.
THEOREM NoForeignPosition == Spec => []TradeIdentity
<1>1. IInv => TradeIdentity
  BY DEF IInv, TransportInv, ActedOnEntitled, TradeIdentity
<1>2. QED
  BY <1>1, Invariance, PTL

\* No copy is run twice, for every number of faults.
THEOREM NoDoubleRun == Spec => []AtMostOnce
<1>1. IInv => AtMostOnce
  BY DEF IInv, TransportInv, FliesOnce, AtMostOnce
<1>2. QED
  BY <1>1, Invariance, PTL

\* What copyToSlave refused is never run, and what was run is on record.
THEOREM RefusalsHold == Spec => []RefusalIsFinal
<1>1. IInv => RefusalIsFinal
  BY DEF IInv, EngineInv, SentHasRow, RefusalIsFinal
<1>2. QED
  BY <1>1, Invariance, PTL

(***************************************************************************)
(* The emergency stop.                                                     *)
(***************************************************************************)
\* An OPEN that the fan-out found under emergency stop is refused before it
\* has a row, and its row, if any, is the refusal's.  That nothing is in
\* flight for it then follows from SentHasRow of the inductive invariant.
StopInv ==
  \A c \in Copies : TypeOfCopy(c) = "OPEN" /\ job[c].stop =>
    /\ job[c].pc \in {"gather", "reject", "done"}
    /\ ~Exists(orders, c) \/ orders[c].errorReason = "RISK"

\* What a step may do to the job of an OPEN, and to its row, under the stop.
StopKept ==
  \A c \in Copies : TypeOfCopy(c) = "OPEN" /\ job'[c].stop =>
    /\ job[c].stop \/ job[c].pc = "idle"
    /\ job'[c].pc \in {"gather", "reject", "done"}
    /\ orders'[c] = orders[c] \/ orders'[c].errorReason = "RISK"

LEMMA StopKeptInv ==
  ASSUME IInv, StopInv, StopKept
  PROVE  StopInv'
BY DEF IInv, EngineInv, JobsInOrder, StopInv, StopKept, Exists

\* The stop flag of a job that moves or ends is the one it had.
LEMMA StopFlag ==
  ASSUME job \in [Copies -> Job], NEW c \in Copies, NEW pc,
         JobGoes(c, pc) \/ JobEnds(c)
  PROVE  /\ job'[c].stop = job[c].stop
         /\ JobEnds(c) => job'[c].pc = "done"
         /\ JobGoes(c, pc) => job'[c].pc = pc
         /\ \A d \in Copies : d # c => job'[d] = job[d]
BY DEF JobGoes, JobEnds, Moved, Ended, JobAt

LEMMA NoJobMoves ==
  ASSUME StopInv, UNCHANGED <<job, orders>>
  PROVE  StopKept
BY DEF StopInv, StopKept

LEMMA FanOutStop ==
  ASSUME IInv, StopInv, NEW e \in Events, FanOut(e)
  PROVE  StopKept
<1>1. \A c \in Copies : \/ job'[c] = job[c]
                        \/ job[c].pc = "idle" /\ job'[c].pc = "gather"
  BY DEF FanOut, IInv, EngineInv, JobsInOrder, JobAt
<1>2. orders' = orders
  BY DEF FanOut, KeepRows
<1>3. QED
  BY <1>1, <1>2 DEF StopInv, StopKept

\* entryPolicy refuses an OPEN under the stop, so it gets no further.
LEMMA GatherStop ==
  ASSUME IInv, StopInv, NEW c \in Copies, GatherStep(c)
  PROVE  StopKept
<1>1. job \in [Copies -> Job] /\ orders' = orders
  BY DEF IInv, TypeOK, EngineTypeOK, GatherStep, ReadOpens, ReadCloses, AcceptOpen,
         RefuseOpen, FindTicket, JobOnly, KeepRows
<1>2. CASE ReadOpens(c) \/ ReadCloses(c)
  <2>1. /\ job'[c].pc = job[c].pc /\ job'[c].stop = job[c].stop
        /\ \A d \in Copies : d # c => job'[d] = job[d]
    BY <1>1, <1>2 DEF ReadOpens, ReadCloses, Job
  <2>2. QED
    BY <1>1, <2>1 DEF StopInv, StopKept
<1>3. CASE AcceptOpen(c)
  <2>1. /\ ~job[c].stop /\ job'[c].stop = job[c].stop
        /\ \A d \in Copies : d # c => job'[d] = job[d]
    BY <1>1, <1>3, StopFlag DEF AcceptOpen, EntryAllowed
  <2>2. QED
    BY <1>1, <2>1 DEF StopInv, StopKept
<1>4. CASE RefuseOpen(c)
  <2>1. /\ job'[c].pc = "reject" /\ job'[c].stop = job[c].stop
        /\ \A d \in Copies : d # c => job'[d] = job[d]
    BY <1>1, <1>4, StopFlag DEF RefuseOpen
  <2>2. QED
    BY <1>1, <2>1 DEF StopInv, StopKept
<1>5. CASE FindTicket(c)
  <2>1. TypeOfCopy(c) # "OPEN" /\ \A d \in Copies : d # c => job'[d] = job[d]
    BY <1>1, <1>5 DEF FindTicket, Gathering
  <2>2. QED
    BY <1>1, <2>1 DEF StopInv, StopKept
<1>6. QED
  BY <1>2, <1>3, <1>4, <1>5 DEF GatherStep

LEMMA CreateStop ==
  ASSUME IInv, StopInv, NEW c \in Copies, CreateFailed(c) \/ CreatePending(c)
  PROVE  StopKept
<1>1. job \in [Copies -> Job] /\ orders \in [Copies -> Row]
  BY DEF IInv, TypeOK, EngineTypeOK
<1>2. \A d \in Copies : d # c => orders'[d] = orders[d] /\ job'[d] = job[d]
  BY <1>1, StopFlag, CreateRowFacts DEF CreateFailed, CreatePending
<1>3. job'[c].stop = job[c].stop
  BY <1>1, StopFlag DEF CreateFailed, CreatePending
<1>4. CreateFailed(c) /\ TypeOfCopy(c) = "OPEN" =>
        job'[c].pc = "done" /\ orders'[c].errorReason = "RISK"
  BY <1>1, StopFlag, CreateRowFacts DEF CreateFailed
<1>5. CreatePending(c) => job[c].pc = "create"
  BY DEF CreatePending
<1>6. QED
  BY <1>2, <1>3, <1>4, <1>5 DEF StopInv, StopKept

LEMMA MarkStop ==
  ASSUME IInv, StopInv, NEW c \in Copies, MarkOffline(c) \/ MarkSent(c)
  PROVE  StopKept
<1>1. job \in [Copies -> Job] /\ orders \in [Copies -> Row]
  BY DEF IInv, TypeOK, EngineTypeOK
<1>2. \A d \in Copies : d # c => orders'[d] = orders[d] /\ job'[d] = job[d]
  BY <1>1, StopFlag, UpdateRowFacts DEF MarkOffline, MarkSent
<1>3. job'[c].stop = job[c].stop /\ job[c].pc \in {"markOffline", "markSent"}
  BY <1>1, StopFlag DEF MarkOffline, MarkSent
<1>4. QED
  BY <1>2, <1>3 DEF StopInv, StopKept

\* A socket is only written to, and only found closed, by a job past the
\* point that the stop lets it reach.
LEMMA DispatchStop ==
  ASSUME IInv, StopInv, NEW c \in Copies, SendToSlave(c) \/ FindOffline(c)
  PROVE  StopKept
<1>1. job \in [Copies -> Job]
  BY DEF IInv, TypeOK, EngineTypeOK
<1>2. /\ orders' = orders /\ job[c].pc = "dispatch" /\ job'[c].stop = job[c].stop
      /\ \A d \in Copies : d # c => job'[d] = job[d]
  BY <1>1, StopFlag DEF SendToSlave, FindOffline, JobOnly, KeepRows
<1>3. QED
  BY <1>2 DEF StopInv, StopKept

LEMMA JobEndsStop ==
  ASSUME IInv, StopInv, BackendCrash \/ \E c \in Copies : JobThrows(c)
  PROVE  StopKept
<1>1. orders' = orders
  BY DEF BackendCrash, JobThrows, JobOnly, KeepRows
<1>2. \A c \in Copies : \/ job'[c] = job[c]
                        \/ job'[c].pc = "done" /\ job'[c].stop = job[c].stop
  BY DEF BackendCrash, JobThrows, JobEnds, Ended, JobAt, IInv, TypeOK, EngineTypeOK
<1>3. QED
  BY <1>1, <1>2 DEF StopInv, StopKept

\* A report is honest: there is none of a copy that was refused.
LEMMA RecordStop ==
  ASSUME IInv, StopInv, NEW r \in recording, RecordResult(r) \/ RecordingThrows(r)
  PROVE  StopKept
<1>1. r.copy \in Copies /\ attempts[r.copy] > 0
  BY DEF IInv, TypeOK, EngineTypeOK, EngineInv, RecordingsHonest, Recording, Honest
<1>2. Exists(orders, r.copy) /\ orders[r.copy].errorReason \in {"NONE", "REPORTED"}
  BY <1>1 DEF IInv, EngineInv, SentHasRow
<1>3. job' = job /\ \A d \in Copies : d # r.copy => orders'[d] = orders[d]
  BY DEF RecordResult, RecordingThrows, KeepRows, IInv, TypeOK, EngineTypeOK
<1>4. ~(TypeOfCopy(r.copy) = "OPEN" /\ job[r.copy].stop)
  BY <1>1, <1>2 DEF StopInv, Exists
<1>5. QED
  BY <1>3, <1>4 DEF StopInv, StopKept

LEMMA EngineStop ==
  ASSUME IInv, StopInv, EngineStep \/ EngineCallFails
  PROVE  StopKept
<1>1. ASSUME NEW e \in Events,
             \/ PublishEvent(e) \/ PersistEvent(e) \/ HandlerStep(e)
             \/ EventMissed(e) \/ PersistFails(e) \/ HandlerThrows(e)
      PROVE  StopKept
  <2>1. FanOut(e) \/ UNCHANGED <<job, orders>>
    BY <1>1 DEF PublishEvent, PersistEvent, HandlerStep, LookupEvent, RetryLookup,
       EventMissed, PersistFails, HandlerThrows, HandlerGoes, KeepRows
  <2>2. QED
    BY <2>1, FanOutStop, NoJobMoves
<1>2. ASSUME NEW s \in Slaves, PatchSlave(s) PROVE StopKept
  BY <1>2, NoJobMoves DEF PatchSlave, KeepRows
<1>3. QED
  BY <1>1, <1>2, GatherStop, CreateStop, MarkStop, RecordStop, JobEndsStop
     DEF EngineStep, EngineCallFails, WriteStep

LEMMA StopStep == IInv /\ StopInv /\ [Next]_vars => StopInv'
<1> SUFFICES ASSUME IInv, StopInv, [Next]_vars PROVE StopKept
  BY StopKeptInv
<1>1. ASSUME NEW s \in Slaves, ReceiveResult(s) \/ ServiceStep(s) PROVE UNCHANGED <<job, orders>>
  BY <1>1 DEF ReceiveResult, ServiceStep, TakeInstruction, Execute, SendResult, SendFails,
     Connect, engineVars, KeepRows
<1>2. ASSUME NEW s \in Slaves, Disconnect(s) \/ ServiceCrash(s) PROVE UNCHANGED <<job, orders>>
  BY <1>2 DEF Disconnect, ServiceCrash, engineVars
<1>3. PositionLost \/ UNCHANGED vars => UNCHANGED <<job, orders>>
  BY DEF PositionLost, vars, engineVars
<1>4. QED
  BY <1>1, <1>2, <1>3, NoJobMoves, EngineStop, DispatchStop, MarkStop, JobEndsStop
     DEF Next, DispatchStep, Crash, CallThrows

\* However the admin's switch, the fan-out, crashes and results interleave,
\* an OPEN whose Slave was read under emergency stop never reaches a terminal.
THEOREM StopHolds == Spec => []StopBlocksOpens
<1>1. Init => StopInv
  BY DEF Init, EngineInit, IdleJob, JobAt, StopInv
<1>2. ASSUME IInv, StopInv PROVE StopBlocksOpens
  <2>1. ASSUME NEW c \in Copies, attempts[c] # 0
        PROVE  Exists(orders, c) /\ orders[c].errorReason # "RISK"
    <3>1. attempts[c] > 0
      BY <1>2, <2>1 DEF IInv, TypeOK, TerminalTypeOK
    <3>2. QED
      BY <1>2, <3>1 DEF IInv, EngineInv, SentHasRow
  <2>2. QED
    BY <1>2, <2>1 DEF StopInv, StopBlocksOpens
<1>3. QED
  BY <1>1, <1>2, StopStep, Invariance, PTL DEF Spec

(***************************************************************************)
(* Reports are about copies that were run.                                 *)
(***************************************************************************)
LEMMA ReportFacts ==
  ASSUME IInv
  PROVE  /\ \A s \in Slaves : service[s].busy = "reporting" =>
              service[s].result.copy \in Copies /\ attempts[service[s].result.copy] > 0
         /\ \A s \in Slaves : \A n \in DOMAIN fromSlave[s] :
              /\ fromSlave[s][n] \in Result /\ fromSlave[s][n].copy \in Copies
              /\ attempts[fromSlave[s][n].copy] > 0
         /\ \A q \in recording : q.copy \in Copies /\ attempts[q.copy] > 0
<1>1. \A s \in Slaves : service[s].busy = "reporting" =>
        service[s].result.copy \in Copies /\ attempts[service[s].result.copy] > 0
  BY DEF IInv, TransportInv, ServiceConsistent, ReportsHonest, Honest, Result
<1>2. ASSUME NEW s \in Slaves, NEW n \in DOMAIN fromSlave[s]
      PROVE  /\ fromSlave[s][n] \in Result /\ fromSlave[s][n].copy \in Copies
             /\ attempts[fromSlave[s][n].copy] > 0
  <2>1. fromSlave[s] \in Seq(Result)
    BY DEF IInv, TypeOK
  <2>2. fromSlave[s][n] \in Result
    BY <2>1
  <2>3. QED
    BY <2>2 DEF Result, IInv, TransportInv, ReportsHonest, Honest
<1>3. \A q \in recording : q.copy \in Copies /\ attempts[q.copy] > 0
  BY DEF IInv, TypeOK, EngineTypeOK, EngineInv, RecordingsHonest, Recording, Honest
<1>4. QED
  BY <1>1, <1>2, <1>3

\* Reports that get lost, while no row of a copy that was run changes.
LEMMA ReportsShrink ==
  ASSUME IInv, ReportsOnce,
         \A c \in Copies : attempts[c] > 0 /\ Recorded(c)' => Recorded(c),
         recording' \subseteq recording,
         \A s \in Slaves : /\ fromSlave'[s] \in {fromSlave[s], <<>>}
                           /\ service'[s] \in {service[s], IdleService}
  PROVE  ReportsOnce'
<1>1. IdleService.busy # "reporting"
  BY DEF IdleService, ServiceAt
<1>2. ServiceReportsOnce'
  BY <1>1, ReportFacts DEF ReportsOnce, ServiceReportsOnce
<1>3. SocketReportsOnce'
  BY ReportFacts DEF ReportsOnce, SocketReportsOnce
<1>4. RecordingsOnce'
  BY ReportFacts DEF ReportsOnce, RecordingsOnce
<1>5. QED
  BY <1>2, <1>3, <1>4 DEF ReportsOnce

LEMMA RowsKept ==
  ASSUME RowsExplained, UNCHANGED <<orders, attempts>>
  PROVE  RowsExplained' /\ \A c \in Copies : Recorded(c)' => Recorded(c)
BY DEF RowsExplained, Recorded

(***************************************************************************)
(* Steps that write a row.                                                 *)
(***************************************************************************)

\* copyToSlave writes the rows of copies not run, whose tickets and reports
\* do not exist yet; MarkSent leaves both columns alone.
LEMMA CopyWritesReports ==
  ASSUME IInv, ReportedOnce, NEW c \in Copies,
         CreateFailed(c) \/ CreatePending(c) \/ MarkOffline(c) \/ MarkSent(c),
         UNCHANGED <<attempts, fromSlave, service>>
  PROVE  ReportedOnce'
<1>1. orders \in [Copies -> Row] /\ recording' = recording
  BY DEF IInv, TypeOK, EngineTypeOK, CreateFailed, CreatePending, MarkOffline, MarkSent
<1>2. \A d \in Copies : d # c => orders'[d] = orders[d]
  BY <1>1, CreateRowFacts, UpdateRowFacts DEF CreateFailed, CreatePending, MarkOffline, MarkSent
<1>3. CASE MarkSent(c)
  <2>1. /\ orders'[c].status = "SENT" /\ orders'[c].errorReason = orders[c].errorReason
        /\ orders'[c].slaveTicket = orders[c].slaveTicket
    BY <1>1, <1>3, UpdateRowFacts DEF MarkSent
  <2>2. RowsExplained' /\ \A d \in Copies : Recorded(d)' => Recorded(d)
    BY <1>2, <2>1 DEF ReportedOnce, RowsExplained, Recorded
  <2>3. QED
    BY <1>1, <2>2, ReportsShrink DEF ReportedOnce
<1>4. CASE CreateFailed(c) \/ CreatePending(c) \/ MarkOffline(c)
  <2>1. attempts[c] = 0
    BY <1>4 DEF CreateFailed, CreatePending, MarkOffline, IInv, EngineInv, UnsentIsUnrun
  <2>2. /\ orders'[c].errorReason # "REPORTED"
        /\ orders'[c].status = "FAILED" => orders'[c].errorReason # "NONE"
    BY <1>1, <1>4, CreateRowFacts, UpdateRowFacts DEF CreateFailed, CreatePending, MarkOffline
  <2>3. RowsExplained' /\ \A d \in Copies : attempts[d] > 0 /\ Recorded(d)' => Recorded(d)
    BY <1>2, <2>1, <2>2 DEF ReportedOnce, RowsExplained, Recorded
  <2>4. QED
    BY <1>1, <2>3, ReportsShrink DEF ReportedOnce
<1>5. QED
  BY <1>3, <1>4

\* The outcome is recorded, and no other report of that copy is on its way.
LEMMA RecordReports ==
  ASSUME IInv, ReportedOnce, NEW r \in recording, RecordResult(r),
         UNCHANGED <<attempts, fromSlave, service>>
  PROVE  ReportedOnce'
<1>1. /\ r.copy \in Copies /\ attempts[r.copy] > 0 /\ r.status \in {"EXECUTED", "FAILED"}
      /\ orders \in [Copies -> Row] /\ recording' = recording \ {r}
  BY ReportFacts DEF IInv, TypeOK, EngineTypeOK, Recording, RecordResult
<1>2. /\ \A d \in Copies : d # r.copy => orders'[d] = orders[d]
      /\ orders'[r.copy].status = r.status
      /\ r.status = "FAILED" => orders'[r.copy].errorReason = "REPORTED"
  BY <1>1 DEF RecordResult, Row
<1>3. \A d \in Copies : d # r.copy /\ Recorded(d)' => Recorded(d)
  BY <1>2 DEF Recorded
<1>4. RowsExplained'
  BY <1>1, <1>2 DEF ReportedOnce, RowsExplained
<1>5. ServiceReportsOnce'
  BY <1>1, <1>3, ReportFacts DEF ReportedOnce, ReportsOnce, ServiceReportsOnce
<1>6. SocketReportsOnce'
  BY <1>1, <1>3, ReportFacts DEF ReportedOnce, ReportsOnce, SocketReportsOnce
<1>7. RecordingsOnce'
  BY <1>1, <1>3, ReportFacts DEF ReportedOnce, ReportsOnce, RecordingsOnce
<1>8. QED
  BY <1>4, <1>5, <1>6, <1>7 DEF ReportedOnce, ReportsOnce

LEMMA EngineReports ==
  ASSUME IInv, ReportedOnce, EngineStep \/ EngineCallFails,
         UNCHANGED <<attempts, fromSlave, service>>
  PROVE  ReportedOnce'
<1>1. CASE UNCHANGED orders /\ recording' \subseteq recording
  BY <1>1, RowsKept, ReportsShrink DEF ReportedOnce
<1>2. ASSUME NEW e \in Events,
             \/ PublishEvent(e) \/ PersistEvent(e) \/ HandlerStep(e)
             \/ EventMissed(e) \/ PersistFails(e) \/ HandlerThrows(e)
      PROVE  UNCHANGED orders /\ recording' \subseteq recording
  BY <1>2 DEF PublishEvent, PersistEvent, HandlerStep, LookupEvent, RetryLookup, FanOut,
     EventMissed, PersistFails, HandlerThrows, HandlerGoes, KeepRows
<1>3. ASSUME NEW c \in Copies, GatherStep(c) \/ JobThrows(c)
      PROVE  UNCHANGED orders /\ recording' \subseteq recording
  BY <1>3 DEF GatherStep, ReadOpens, ReadCloses, AcceptOpen, RefuseOpen, FindTicket,
     JobThrows, JobOnly, KeepRows
<1>4. ASSUME NEW r \in recording, RecordingThrows(r)
      PROVE  UNCHANGED orders /\ recording' \subseteq recording
  BY <1>4 DEF RecordingThrows, KeepRows
<1>5. ASSUME NEW s \in Slaves, PatchSlave(s)
      PROVE  UNCHANGED orders /\ recording' \subseteq recording
  BY <1>5 DEF PatchSlave, KeepRows
<1>6. QED
  BY <1>1, <1>2, <1>3, <1>4, <1>5, CopyWritesReports, RecordReports
     DEF EngineStep, EngineCallFails, WriteStep

(***************************************************************************)
(* A report travels.                                                       *)
(***************************************************************************)
LEMMA LossReports ==
  ASSUME IInv, ReportedOnce, NEW s \in Slaves,
         SendFails(s) \/ Connect(s) \/ Disconnect(s) \/ ServiceCrash(s)
  PROVE  ReportedOnce'
<1>1. UNCHANGED <<orders, attempts, recording>>
  BY DEF SendFails, Connect, Disconnect, ServiceCrash, engineVars, terminalVars
<1>2. \A x \in Slaves : /\ fromSlave'[x] \in {fromSlave[x], <<>>}
                        /\ service'[x] \in {service[x], IdleService}
  BY DEF IInv, TypeOK, SendFails, Connect, Disconnect, ServiceCrash
<1>3. QED
  BY <1>1, <1>2, RowsKept, ReportsShrink DEF ReportedOnce

\* Only copies not run are in flight, so there is no report of the copy yet.
LEMMA ExecuteReports ==
  ASSUME IInv, ReportedOnce, NEW s \in Slaves, Execute(s)
  PROVE  ReportedOnce'
<1> DEFINE c == service[s].instruction.copy
<1>1. PICK r \in Result : /\ ExecuteInstruction(service[s].instruction, r)
                          /\ service' = [service EXCEPT ![s] = Reporting(r)]
  BY DEF Execute
<1>2. UNCHANGED <<orders, recording, fromSlave>> /\ service[s].busy = "executing"
  BY DEF Execute, engineVars, channelVars
<1>3. c \in Copies /\ SlaveOf(c) = s /\ attempts[c] = 0
  <2>1. c \in Copies /\ SlaveOf(c) = s
    BY <1>2 DEF IInv, TransportInv, ServiceConsistent, Instruction
  <2>2. InFlight(c)
    BY <2>1 DEF InFlight
  <2>3. QED
    BY <2>1, <2>2 DEF IInv, TransportInv, FliesOnce
<1>4. r.copy = c
  BY <1>1 DEF ExecuteInstruction, Filled, Refused, Unconfirmed, Success, Failure
<1>5. /\ service'[s].result = r /\ \A x \in Slaves : x # s => service'[x] = service[x]
  BY <1>1 DEF IInv, TypeOK, Reporting, ServiceAt
<1>6. attempts' = [attempts EXCEPT ![c] = @ + 1] /\ attempts \in [Copies -> Nat]
  BY <1>1 DEF ExecuteInstruction, IInv, TypeOK, TerminalTypeOK
<1> HIDE DEF c
<1>7. \A d \in Copies : Recorded(d)' = Recorded(d)
  BY <1>2 DEF Recorded
<1>8. ~Recorded(c)
  BY <1>3, UnrunHasNoTicket DEF Recorded, ReportedOnce, RowsExplained
<1>9. RowsExplained'
  BY <1>2, <1>3, <1>6 DEF ReportedOnce, RowsExplained
<1>10. ServiceReportsOnce'
  <2>1. ASSUME NEW n \in DOMAIN fromSlave[s] PROVE fromSlave[s][n].copy # c
    BY <1>3, ReportFacts
  <2>2. ASSUME NEW q \in recording PROVE q.copy # c
    BY <1>3, ReportFacts
  <2>3. QED
    BY <1>2, <1>3, <1>4, <1>5, <1>7, <1>8, <2>1, <2>2, ReportFacts
       DEF ReportedOnce, ReportsOnce, ServiceReportsOnce
<1>11. SocketReportsOnce' /\ RecordingsOnce'
  BY <1>2, <1>7, ReportFacts DEF ReportedOnce, ReportsOnce, SocketReportsOnce, RecordingsOnce
<1>12. QED
  BY <1>9, <1>10, <1>11 DEF ReportedOnce, ReportsOnce

LEMMA SendResultReports ==
  ASSUME IInv, ReportedOnce, NEW s \in Slaves, SendResult(s)
  PROVE  ReportedOnce'
<1>1. UNCHANGED <<orders, attempts, recording>> /\ service[s].busy = "reporting"
  BY DEF SendResult, engineVars, terminalVars
<1>0. PICK r \in Result : r = service[s].result
  BY <1>1 DEF IInv, TransportInv, ServiceConsistent
<1>2. /\ \A x \in Slaves : x # s => fromSlave'[x] = fromSlave[x] /\ service'[x] = service[x]
      /\ service'[s].busy = "idle"
  BY DEF SendResult, IInv, TypeOK, IdleService, ServiceAt
<1>3. /\ SlaveOf(r.copy) = s /\ ~Recorded(r.copy)
      /\ \A n \in DOMAIN fromSlave[s] : fromSlave[s][n].copy # r.copy
      /\ \A q \in recording : q.copy # r.copy
  BY <1>1, <1>0 DEF ReportedOnce, ReportsOnce, ServiceReportsOnce
<1>4. /\ fromSlave[s] \in Seq(Result)
      /\ fromSlave'[s] = Append(fromSlave[s], r)
  BY <1>0 DEF IInv, TypeOK, SendResult
<1>5. /\ DOMAIN fromSlave[s] = 1..Len(fromSlave[s]) /\ Len(fromSlave[s]) \in Nat
      /\ DOMAIN fromSlave'[s] = 1..(Len(fromSlave[s]) + 1)
      /\ fromSlave'[s][Len(fromSlave[s]) + 1] = r
      /\ \A n \in DOMAIN fromSlave[s] : fromSlave'[s][n] = fromSlave[s][n]
  BY <1>3, <1>4
<1>6. \A n \in DOMAIN fromSlave'[s] : n \in DOMAIN fromSlave[s] \/ n = Len(fromSlave[s]) + 1
  BY <1>5
<1>7. RowsExplained' /\ \A c \in Copies : Recorded(c)' => Recorded(c)
  BY <1>1, RowsKept DEF ReportedOnce
<1>8. ServiceReportsOnce' /\ RecordingsOnce'
  BY <1>1, <1>2, <1>7, ReportFacts
     DEF ReportedOnce, ReportsOnce, ServiceReportsOnce, RecordingsOnce
<1>9. SocketReportsOnce'
  <2>1. ASSUME NEW x \in Slaves, x # s, NEW n \in DOMAIN fromSlave'[x]
        PROVE  /\ SlaveOf(fromSlave'[x][n].copy) = x
               /\ ~Recorded(fromSlave'[x][n].copy)
               /\ \A m \in DOMAIN fromSlave'[x] :
                    fromSlave'[x][m].copy = fromSlave'[x][n].copy => m = n
               /\ \A q \in recording' : q.copy # fromSlave'[x][n].copy
    BY <1>1, <1>2, <2>1 DEF ReportedOnce, ReportsOnce, SocketReportsOnce
  <2>2. ASSUME NEW n \in DOMAIN fromSlave[s]
        PROVE  /\ SlaveOf(fromSlave'[s][n].copy) = s
               /\ ~Recorded(fromSlave'[s][n].copy)
               /\ \A m \in DOMAIN fromSlave'[s] :
                    fromSlave'[s][m].copy = fromSlave'[s][n].copy => m = n
               /\ \A q \in recording' : q.copy # fromSlave'[s][n].copy
    <3>1. /\ SlaveOf(fromSlave[s][n].copy) = s /\ ~Recorded(fromSlave[s][n].copy)
          /\ \A m \in DOMAIN fromSlave[s] :
               fromSlave[s][m].copy = fromSlave[s][n].copy => m = n
          /\ \A q \in recording : q.copy # fromSlave[s][n].copy
          /\ fromSlave[s][n].copy \in Copies /\ fromSlave[s][n].copy # r.copy
      BY <1>3, ReportFacts DEF ReportedOnce, ReportsOnce, SocketReportsOnce
    <3>2. QED
      BY <1>1, <1>5, <1>6, <3>1
  <2>3. LET n == Len(fromSlave[s]) + 1
        IN  /\ SlaveOf(fromSlave'[s][n].copy) = s
            /\ ~Recorded(fromSlave'[s][n].copy)
            /\ \A m \in DOMAIN fromSlave'[s] :
                 fromSlave'[s][m].copy = fromSlave'[s][n].copy => m = n
            /\ \A q \in recording' : q.copy # fromSlave'[s][n].copy
    BY <1>1, <1>3, <1>5, <1>6
  <2>4. QED
    BY <1>1, <1>6, <2>1, <2>2, <2>3 DEF SocketReportsOnce, Recorded
<1>10. QED
  BY <1>7, <1>8, <1>9 DEF ReportedOnce, ReportsOnce

LEMMA ReceiveReports ==
  ASSUME IInv, ReportedOnce, NEW s \in Slaves, ReceiveResult(s)
  PROVE  ReportedOnce'
<1>1. /\ fromSlave[s] \in Seq(Result) /\ fromSlave[s] # <<>>
      /\ fromSlave \in [Slaves -> Seq(Result)]
  BY DEF IInv, TypeOK, ReceiveResult
<1>2. UNCHANGED <<orders, attempts, service>>
  BY DEF ReceiveResult, KeepRows, terminalVars
<1>3. PICK r \in Result : r = Head(fromSlave[s]) /\ 1 \in DOMAIN fromSlave[s] /\ r = fromSlave[s][1]
  BY <1>1
<1>4. PICK q : q.copy = r.copy /\ recording' \subseteq recording \cup {q}
  BY <1>3 DEF ReceiveResult, BeginRecording, RecordingOf
<1>5. /\ \A x \in Slaves : x # s => fromSlave'[x] = fromSlave[x]
      /\ \A n \in DOMAIN fromSlave'[s] :
           /\ n \in Nat /\ n + 1 \in DOMAIN fromSlave[s] /\ n + 1 # 1
           /\ fromSlave'[s][n] = fromSlave[s][n + 1]
  BY <1>1 DEF ReceiveResult
<1>6. /\ SlaveOf(r.copy) = s /\ ~Recorded(r.copy)
      /\ \A m \in DOMAIN fromSlave[s] : fromSlave[s][m].copy = r.copy => m = 1
      /\ \A p \in recording : p.copy # r.copy
  BY <1>3 DEF ReportedOnce, ReportsOnce, SocketReportsOnce
<1>7. RowsExplained'
  BY <1>2, RowsKept DEF ReportedOnce
<1>8. ServiceReportsOnce'
  <2>1. ASSUME NEW x \in Slaves, service[x].busy = "reporting"
        PROVE  service[x].result.copy # r.copy
    <3>1. SlaveOf(service[x].result.copy) = x
      BY <2>1 DEF ReportedOnce, ReportsOnce, ServiceReportsOnce
    <3>2. CASE x = s
      BY <1>3, <2>1, <3>2 DEF ReportedOnce, ReportsOnce, ServiceReportsOnce
    <3>3. QED
      BY <1>6, <3>1, <3>2
  <2>2. ASSUME NEW x \in Slaves, service[x].busy = "reporting", NEW n \in DOMAIN fromSlave'[x]
        PROVE  fromSlave'[x][n].copy # service[x].result.copy
    BY <1>5, <2>2 DEF ReportedOnce, ReportsOnce, ServiceReportsOnce
  <2>3. QED
    BY <1>2, <1>4, <2>1, <2>2 DEF ReportedOnce, ReportsOnce, ServiceReportsOnce, Recorded
<1>9. SocketReportsOnce'
  <2>1. ASSUME NEW x \in Slaves, NEW n \in DOMAIN fromSlave'[x]
        PROVE  /\ SlaveOf(fromSlave'[x][n].copy) = x
               /\ ~Recorded(fromSlave'[x][n].copy)
               /\ \A m \in DOMAIN fromSlave'[x] :
                    fromSlave'[x][m].copy = fromSlave'[x][n].copy => m = n
               /\ \A p \in recording' : p.copy # fromSlave'[x][n].copy
    <3>1. CASE x # s
      <4>1. SlaveOf(fromSlave'[x][n].copy) = x
        BY <1>5, <3>1 DEF ReportedOnce, ReportsOnce, SocketReportsOnce
      <4>2. fromSlave'[x][n].copy # r.copy
        BY <1>6, <3>1, <4>1
      <4>3. QED
        BY <1>4, <1>5, <3>1, <4>1, <4>2 DEF ReportedOnce, ReportsOnce, SocketReportsOnce
    <3>2. CASE x = s
      <4>1. /\ n + 1 \in DOMAIN fromSlave[s] /\ fromSlave'[s][n] = fromSlave[s][n + 1]
            /\ n \in Nat /\ n + 1 # 1
        BY <1>5, <3>2
      <4>2. /\ SlaveOf(fromSlave[s][n + 1].copy) = s
            /\ ~Recorded(fromSlave[s][n + 1].copy)
            /\ \A m \in DOMAIN fromSlave[s] :
                 fromSlave[s][m].copy = fromSlave[s][n + 1].copy => m = n + 1
            /\ \A p \in recording : p.copy # fromSlave[s][n + 1].copy
        BY <4>1 DEF ReportedOnce, ReportsOnce, SocketReportsOnce
      <4>3. fromSlave[s][n + 1].copy # r.copy
        BY <1>6, <4>1
      <4>4. ASSUME NEW m \in DOMAIN fromSlave'[s],
                   fromSlave'[s][m].copy = fromSlave'[s][n].copy
            PROVE  m = n
        <5>1. m + 1 = n + 1 /\ m \in Nat
          BY <1>5, <4>1, <4>2, <4>4
        <5>2. QED
          BY <4>1, <5>1
      <4>5. QED
        BY <1>4, <3>2, <4>1, <4>2, <4>3, <4>4
    <3>3. QED
      BY <3>1, <3>2
  <2>2. QED
    BY <1>2, <2>1 DEF SocketReportsOnce, Recorded
<1>10. RecordingsOnce'
  BY <1>2, <1>4, <1>6 DEF ReportedOnce, ReportsOnce, RecordingsOnce, Recorded
<1>11. QED
  BY <1>7, <1>8, <1>9, <1>10 DEF ReportedOnce, ReportsOnce

LEMMA ReportStep == IInv /\ ReportedOnce /\ [Next]_vars => ReportedOnce'
<1> SUFFICES ASSUME IInv, ReportedOnce, [Next]_vars PROVE ReportedOnce'
  OBVIOUS
<1>1. CASE (EngineStep /\ EngineAlone) \/ CallThrows
  BY <1>1, EngineReports DEF EngineAlone, CallThrows, channelVars, terminalVars
<1>2. ASSUME NEW c \in Copies, MarkSent(c) PROVE ReportedOnce'
  BY <1>2, CopyWritesReports DEF MarkSent, channelVars, terminalVars
<1>3. CASE /\ UNCHANGED <<orders, attempts, fromSlave>> /\ recording' \subseteq recording
           /\ \A s \in Slaves : service'[s] \in {service[s], IdleService}
  BY <1>3, RowsKept, ReportsShrink DEF ReportedOnce
<1>4. ASSUME NEW c \in Copies, SendToSlave(c) \/ FindOffline(c)
      PROVE  UNCHANGED <<orders, attempts, fromSlave, recording, service>>
  BY <1>4 DEF SendToSlave, FindOffline, JobOnly, KeepRows, channelVars, terminalVars
<1>5. PositionLost \/ UNCHANGED vars => UNCHANGED <<orders, attempts, fromSlave, recording, service>>
  BY DEF PositionLost, BrokerCloses, vars, engineVars, channelVars, terminalVars
<1>6. ASSUME NEW s \in Slaves, TakeInstruction(s) PROVE ReportedOnce'
  <2>1. UNCHANGED <<orders, attempts, fromSlave, recording>>
    BY <1>6 DEF TakeInstruction, engineVars, terminalVars
  <2>2. /\ service'[s].busy = "executing" /\ \A x \in Slaves : x # s => service'[x] = service[x]
    BY <1>6 DEF TakeInstruction, IInv, TypeOK, Executing, ServiceAt
  <2>3. ReportsOnce'
    BY <2>1, <2>2
       DEF ReportedOnce, ReportsOnce, ServiceReportsOnce, SocketReportsOnce, RecordingsOnce, Recorded
  <2>4. QED
    BY <2>1, <2>3, RowsKept DEF ReportedOnce
<1>7. CASE Crash
  <2>1. UNCHANGED <<orders, attempts, service>> /\ recording' = {}
        /\ \A s \in Slaves : fromSlave'[s] = <<>>
    BY <1>7 DEF Crash, BackendCrash, KeepRows, terminalVars
  <2>2. QED
    BY <2>1, RowsKept, ReportsShrink DEF ReportedOnce
<1>8. QED
  BY <1>1, <1>2, <1>3, <1>4, <1>5, <1>6, <1>7, LossReports, ExecuteReports, SendResultReports,
     ReceiveReports DEF Next, DispatchStep, ServiceStep

\* However results, late writes and crashes race, at most one report of a run
\* is on its way, and none once the outcome is on record.
THEOREM ReportsAreUnique == Spec => [](IInv /\ ReportedOnce)
<1>1. Init => ReportedOnce
  BY DEF Init, EngineInit, TerminalInit, ReportedOnce, ReportsOnce, ServiceReportsOnce,
     SocketReportsOnce, RecordingsOnce, RowsExplained, IdleService, ServiceAt, AbsentRow
<1>2. QED
  BY <1>1, InitInv, StepInv, ReportStep, PTL DEF Spec

(***************************************************************************)
(* What a step may do to the table and to the terminals' history.          *)
(***************************************************************************)
CopyWrites(c) == CreateFailed(c) \/ CreatePending(c) \/ MarkOffline(c) \/ MarkSent(c)

LEMMA EngineHistory ==
  ASSUME EngineStep \/ EngineCallFails
  PROVE  \/ UNCHANGED orders
         \/ \E c \in Copies : CopyWrites(c)
         \/ \E r \in recording : RecordResult(r)
<1>1. ASSUME NEW e \in Events,
             \/ PublishEvent(e) \/ PersistEvent(e) \/ HandlerStep(e)
             \/ EventMissed(e) \/ PersistFails(e) \/ HandlerThrows(e)
      PROVE  UNCHANGED orders
  BY <1>1 DEF PublishEvent, PersistEvent, HandlerStep, LookupEvent, RetryLookup, FanOut,
     EventMissed, PersistFails, HandlerThrows, HandlerGoes, KeepRows
<1>2. ASSUME NEW c \in Copies, GatherStep(c) \/ JobThrows(c)
      PROVE  UNCHANGED orders
  BY <1>2 DEF GatherStep, ReadOpens, ReadCloses, AcceptOpen, RefuseOpen, FindTicket,
     JobThrows, JobOnly, KeepRows
<1>3. ASSUME NEW r \in recording, RecordingThrows(r) PROVE UNCHANGED orders
  BY <1>3 DEF RecordingThrows, KeepRows
<1>4. ASSUME NEW s \in Slaves, PatchSlave(s) PROVE UNCHANGED orders
  BY <1>4 DEF PatchSlave, KeepRows
<1>5. QED
  BY <1>1, <1>2, <1>3, <1>4 DEF EngineStep, EngineCallFails, WriteStep, CopyWrites

LEMMA HistorySteps ==
  ASSUME [Next]_vars
  PROVE  \/ UNCHANGED <<orders, attempts, actedOn>>
         \/ /\ UNCHANGED <<attempts, actedOn>>
            /\ \/ \E c \in Copies : CopyWrites(c)
               \/ \E r \in recording : RecordResult(r)
         \/ \E s \in Slaves : Execute(s)
<1>1. CASE (EngineStep /\ EngineAlone) \/ CallThrows
  BY <1>1, EngineHistory DEF EngineAlone, CallThrows, terminalVars
<1>2. ASSUME NEW c \in Copies, DispatchStep(c)
      PROVE  UNCHANGED <<attempts, actedOn>> /\ (UNCHANGED orders \/ CopyWrites(c))
  BY <1>2 DEF DispatchStep, SendToSlave, FindOffline, MarkSent, CopyWrites, JobOnly, KeepRows,
     terminalVars
<1>3. ASSUME NEW s \in Slaves, ReceiveResult(s) \/ ServiceStep(s)
      PROVE  UNCHANGED <<orders, attempts, actedOn>> \/ Execute(s)
  BY <1>3 DEF ReceiveResult, ServiceStep, TakeInstruction, SendResult, SendFails, Connect,
     engineVars, terminalVars, KeepRows
<1>4. ASSUME NEW s \in Slaves, Disconnect(s) \/ ServiceCrash(s)
      PROVE  UNCHANGED <<orders, attempts, actedOn>>
  BY <1>4 DEF Disconnect, ServiceCrash, engineVars, terminalVars
<1>5. Crash \/ PositionLost \/ UNCHANGED vars => UNCHANGED <<orders, attempts, actedOn>>
  BY DEF Crash, BackendCrash, PositionLost, BrokerCloses, KeepRows, vars, engineVars, terminalVars
<1>6. QED
  BY <1>1, <1>2, <1>3, <1>4, <1>5 DEF Next

\* The ticket of a run is not on record before its one report is recorded, so
\* no later report and no late write can replace it.
THEOREM TicketsAreKept == Spec => TicketKept
<1>1. ASSUME IInv, ReportedOnce, [Next]_vars, NEW c \in Copies, orders[c].slaveTicket # NoTicket
      PROVE  orders'[c].slaveTicket = orders[c].slaveTicket
  <2>1. orders \in [Copies -> Row] /\ attempts[c] # 0
    BY <1>1, UnrunHasNoTicket DEF IInv, TypeOK, EngineTypeOK
  <2>2. ASSUME NEW d \in Copies, CopyWrites(d)
        PROVE  orders'[c].slaveTicket = orders[c].slaveTicket
    <3>1. CASE CreateFailed(d) \/ CreatePending(d)
      <4>1. attempts[d] = 0
        BY <1>1, <3>1 DEF CreateFailed, CreatePending, IInv, EngineInv, UnsentIsUnrun
      <4>2. QED
        BY <2>1, <3>1, <4>1, CreateRowFacts DEF CreateFailed, CreatePending
    <3>2. CASE MarkOffline(d) \/ MarkSent(d)
      BY <2>1, <3>2, UpdateRowFacts DEF MarkOffline, MarkSent
    <3>3. QED
      BY <2>2, <3>1, <3>2 DEF CopyWrites
  <2>3. ASSUME NEW r \in recording, RecordResult(r)
        PROVE  orders'[c].slaveTicket = orders[c].slaveTicket
    <3>1. r.copy # c
      BY <1>1 DEF ReportedOnce, ReportsOnce, RecordingsOnce, Recorded
    <3>2. QED
      BY <2>1, <2>3, <3>1 DEF RecordResult
  <2>4. QED
    BY <1>1, <2>2, <2>3, HistorySteps DEF Execute, engineVars
<1>2. IInv /\ ReportedOnce /\ [Next]_vars =>
        [\A c \in Copies : orders[c].slaveTicket # NoTicket =>
           orders'[c].slaveTicket = orders[c].slaveTicket]_vars
  BY <1>1
<1>3. QED
  BY <1>2, ReportsAreUnique, PTL DEF Spec, TicketKept


(***************************************************************************)
(* The refinement of CopyOnce.  Its ledger tells REPORTED failures from    *)
(* refusals, so every write of a row is one of its steps or none.          *)
(***************************************************************************)
LEMMA LedgerWrite ==
  ASSUME NEW c \in Copies, \A d \in Copies : d # c => orders'[d] = orders[d]
  PROVE  [d \in Copies |-> LedgerOf(orders'[d])]
           = [[d \in Copies |-> LedgerOf(orders[d])] EXCEPT ![c] = LedgerOf(orders'[c])]
OBVIOUS

LEMMA CreateRefines ==
  ASSUME IInv, ReportedOnce, NEW c \in Copies, CreateFailed(c) \/ CreatePending(c),
         UNCHANGED <<attempts, actedOn>>
  PROVE  Once!Enter(c) \/ Once!Refuse(c)
<1>1. orders \in [Copies -> Row]
  BY DEF IInv, TypeOK, EngineTypeOK
<1>2. orders[c].status = "ABSENT" /\ attempts[c] = 0
  BY DEF CreateFailed, CreatePending, IInv, EngineInv, JobsInOrder, UnsentIsUnrun, Exists
<1>3. /\ \A d \in Copies : d # c => orders'[d] = orders[d]
      /\ CreatePending(c) => orders'[c].status = "PENDING"
      /\ CreateFailed(c) => orders'[c].status = "FAILED" /\ orders'[c].errorReason # "REPORTED"
  BY <1>1, CreateRowFacts DEF CreateFailed, CreatePending
<1>4. LedgerOf(orders[c]) = "absent" /\ ~(attempts[c] > 0)
  BY <1>2 DEF LedgerOf
<1>5. CASE CreatePending(c)
  <2>1. LedgerOf(orders'[c]) = "open"
    BY <1>3, <1>5 DEF LedgerOf
  <2>2. QED
    BY <1>3, <1>4, <2>1, LedgerWrite DEF Once!Enter
<1>6. CASE CreateFailed(c)
  <2>1. LedgerOf(orders'[c]) = "refused"
    BY <1>3, <1>6 DEF LedgerOf
  <2>2. QED
    BY <1>3, <1>4, <2>1, LedgerWrite, Zenon DEF Once!Refuse
<1>7. QED
  BY <1>5, <1>6

\* SLAVE_OFFLINE refuses a copy that is under way and has not been run.
LEMMA MarkOfflineRefines ==
  ASSUME IInv, ReportedOnce, NEW c \in Copies, MarkOffline(c), UNCHANGED <<attempts, actedOn>>
  PROVE  Once!Refuse(c)
<1>1. orders \in [Copies -> Row]
  BY DEF IInv, TypeOK, EngineTypeOK
<1>2. attempts[c] = 0 /\ Exists(orders, c) /\ orders[c].errorReason \in {"NONE", "REPORTED"}
  BY DEF MarkOffline, IInv, EngineInv, UnsentIsUnrun, SentHasRow
<1>3. orders[c].status \in {"PENDING", "SENT"}
  BY <1>1, <1>2, UnrunHasNoTicket
     DEF Exists, ReportedOnce, RowsExplained, Row, Statuses
<1>4. LedgerOf(orders[c]) = "open" /\ ~(attempts[c] > 0)
  BY <1>2, <1>3 DEF LedgerOf
<1>5. /\ \A d \in Copies : d # c => orders'[d] = orders[d]
      /\ orders'[c].status = "FAILED" /\ orders'[c].errorReason = "SLAVE_OFFLINE"
  BY <1>1, UpdateRowFacts DEF MarkOffline
<1>6. LedgerOf(orders'[c]) = "refused"
  BY <1>5 DEF LedgerOf
<1>7. QED
  BY <1>4, <1>5, <1>6, LedgerWrite, Zenon DEF Once!Refuse

\* The SENT written after the send changes nothing, or forgets an outcome.
LEMMA MarkSentRefines ==
  ASSUME IInv, ReportedOnce, NEW c \in Copies, MarkSent(c), UNCHANGED <<attempts, actedOn>>
  PROVE  Once!Forget(c) \/ UNCHANGED Once!onceVars
<1>1. orders \in [Copies -> Row]
  BY DEF IInv, TypeOK, EngineTypeOK
<1>2. Exists(orders, c) /\ orders[c].errorReason \in {"NONE", "REPORTED"}
  BY DEF MarkSent, IInv, EngineInv, SentHasRow
<1>3. \/ orders[c].status \in {"PENDING", "SENT", "EXECUTED"}
      \/ orders[c].status = "FAILED" /\ orders[c].errorReason = "REPORTED"
  BY <1>1, <1>2 DEF Exists, ReportedOnce, RowsExplained, Row, Statuses
<1>4. LedgerOf(orders[c]) \in {"open", "executed", "failed"}
  BY <1>3 DEF LedgerOf
<1>5. /\ \A d \in Copies : d # c => orders'[d] = orders[d]
      /\ orders'[c].status = "SENT"
  BY <1>1, UpdateRowFacts DEF MarkSent
<1>6. LedgerOf(orders'[c]) = "open"
  BY <1>5 DEF LedgerOf
<1>7. CASE LedgerOf(orders[c]) = "open"
  <2>1. \A d \in Copies : LedgerOf(orders'[d]) = LedgerOf(orders[d])
    BY <1>5, <1>6, <1>7
  <2>2. QED
    BY <2>1 DEF Once!onceVars
<1>8. CASE LedgerOf(orders[c]) \in {"executed", "failed"}
  BY <1>5, <1>6, <1>8, LedgerWrite DEF Once!Forget
<1>9. QED
  BY <1>4, <1>7, <1>8

\* A report is recorded of a copy that is under way and was run.
LEMMA RecordRefines ==
  ASSUME IInv, ReportedOnce, NEW r \in recording, RecordResult(r),
         UNCHANGED <<attempts, actedOn>>
  PROVE  Once!Report(r.copy)
<1>1. /\ orders \in [Copies -> Row] /\ r.copy \in Copies
      /\ r.status \in {"EXECUTED", "FAILED"}
  BY DEF IInv, TypeOK, EngineTypeOK, Recording
<1>2. /\ attempts[r.copy] > 0
      /\ r.status = "EXECUTED" => actedOn[r.copy] # NoTicket
  BY DEF IInv, EngineInv, RecordingsHonest, Honest
<1>3. orders[r.copy].slaveTicket = NoTicket /\ orders[r.copy].errorReason # "REPORTED"
  BY DEF ReportedOnce, ReportsOnce, RecordingsOnce, Recorded
<1>4. orders[r.copy].status \in {"PENDING", "SENT"}
  BY <1>1, <1>2, <1>3
     DEF IInv, EngineInv, SentHasRow, RowsHonest, Exists, ReportedOnce, RowsExplained, Row, Statuses
<1>5. LedgerOf(orders[r.copy]) = "open"
  BY <1>4 DEF LedgerOf
<1>6. /\ \A d \in Copies : d # r.copy => orders'[d] = orders[d]
      /\ orders'[r.copy].status = r.status
      /\ r.status = "FAILED" => orders'[r.copy].errorReason = "REPORTED"
  BY <1>1 DEF RecordResult, Row
<1>7. LedgerOf(orders'[r.copy]) = IF r.status = "EXECUTED" THEN "executed" ELSE "failed"
  BY <1>1, <1>6 DEF LedgerOf
<1>8. \E outcome \in {"executed", "failed"} :
        /\ outcome = "executed" => actedOn[r.copy] # NoTicket
        /\ LedgerOf(orders'[r.copy]) = outcome
  BY <1>2, <1>7
<1>9. QED
  BY <1>1, <1>2, <1>5, <1>6, <1>8, LedgerWrite, Zenon DEF Once!Report

\* The executor runs a copy that is under way and was not run, and acts on
\* nothing or on a position it may act on.
LEMMA ExecuteRefines ==
  ASSUME IInv, ReportedOnce, NEW s \in Slaves, Execute(s)
  PROVE  \E c \in Copies : Once!Run(c)
<1> DEFINE i == service[s].instruction
<1>1. PICK r \in Result : ExecuteInstruction(i, r)
  BY DEF Execute
<1>2. UNCHANGED orders /\ service[s].busy = "executing"
  BY DEF Execute, engineVars
<1>3. i \in Instruction /\ SlaveOf(i.copy) = s /\ Entitled(i.copy, i.slaveTicket)
  BY <1>2 DEF IInv, TransportInv, ServiceConsistent, FramesEntitled
<1>4. PICK c \in Copies : c = i.copy
  BY <1>3 DEF Instruction
<1>5. attempts[c] = 0 /\ InFlight(c)
  BY <1>3, <1>4 DEF InFlight, IInv, TransportInv, FliesOnce
<1>6. /\ attempts \in [Copies -> Nat] /\ actedOn \in [Copies -> Tickets]
      /\ orders \in [Copies -> Row] /\ positions \subseteq Copies
  BY DEF IInv, TypeOK, TerminalTypeOK, EngineTypeOK
<1>7. orders[c].status \in {"PENDING", "SENT"}
  BY <1>5, <1>6, UnrunHasNoTicket
     DEF IInv, EngineInv, SentHasRow, Exists, ReportedOnce, RowsExplained, Row, Statuses
<1>8. LedgerOf(orders[c]) = "open" /\ ~(attempts[c] > 0)
  BY <1>5, <1>7 DEF LedgerOf
<1>9. [d \in Copies |-> attempts'[d] > 0] = [[d \in Copies |-> attempts[d] > 0] EXCEPT ![c] = TRUE]
  <2>1. attempts' = [attempts EXCEPT ![c] = @ + 1]
    BY <1>1, <1>4 DEF ExecuteInstruction
  <2>2. attempts'[c] > 0
    BY <1>5, <1>6, <2>1
  <2>3. \A d \in Copies : d # c => attempts'[d] = attempts[d]
    BY <1>6, <2>1
  <2>4. QED
    BY <2>2, <2>3, Zenon
<1>10. \E t \in Copies \cup {NoTicket} : /\ t # NoTicket => MayActOn(c, t)
                                         /\ actedOn' = [actedOn EXCEPT ![c] = t]
  <2>1. Reachable(i) => Target(i) \in Copies /\ MayActOn(c, Target(i))
    BY <1>3, <1>4, <1>6 DEF Reachable, Target, Entitled, MayActOn
  <2>2. CASE Filled(i, r) \/ Unconfirmed(i, r)
    BY <1>4, <2>1, <2>2 DEF Filled, Unconfirmed, Carried
  <2>3. CASE Refused(i, r)
    <3>1. actedOn' = [actedOn EXCEPT ![c] = NoTicket]
      BY <1>5, <1>6, <2>3, UnrunHasNoTicket DEF Refused
    <3>2. QED
      BY <3>1
  <2>4. QED
    BY <1>1, <2>2, <2>3 DEF ExecuteInstruction
<1>11. Once!Run(c)
  BY <1>2, <1>8, <1>9, <1>10, Zenon DEF Once!Run
<1>12. QED
  BY <1>11

\* PushCopy implements CopyOnce: refused or run once, on a position of its
\* own Master trade, and reported executed only when it was.
THEOREM PushCopyImplementsCopyOnce == Spec => CopiesOnce
<1>1. ASSUME Init PROVE Once!Init
  <2>1. \A c \in Copies : LedgerOf(orders[c]) = "absent" /\ ~(attempts[c] > 0)
    BY <1>1 DEF Init, EngineInit, TerminalInit, LedgerOf, AbsentRow
  <2>2. [c \in Copies |-> LedgerOf(orders[c])] = [c \in Copies |-> "absent"]
    BY <2>1
  <2>3. [c \in Copies |-> attempts[c] > 0] = [c \in Copies |-> FALSE]
    <3>1. \A c \in Copies : (attempts[c] > 0) = FALSE
      BY <2>1
    <3>2. QED
      BY <3>1, Zenon
  <2>4. actedOn = [c \in Copies |-> NoTicket]
    BY <1>1 DEF Init, TerminalInit
  <2>5. QED
    BY <2>2, <2>3, <2>4, Zenon DEF Once!Init
<1>2. ASSUME IInv, ReportedOnce, [Next]_vars PROVE [Once!Next]_(Once!onceVars)
  <2>1. CASE UNCHANGED <<orders, attempts, actedOn>>
    BY <2>1 DEF Once!onceVars
  <2>2. ASSUME NEW c \in Copies, CopyWrites(c), UNCHANGED <<attempts, actedOn>>
        PROVE  [Once!Next]_(Once!onceVars)
    BY <1>2, <2>2, CreateRefines, MarkOfflineRefines, MarkSentRefines DEF CopyWrites, Once!Next
  <2>3. ASSUME NEW r \in recording, RecordResult(r), UNCHANGED <<attempts, actedOn>>
        PROVE  [Once!Next]_(Once!onceVars)
    <3>1. r.copy \in Copies
      BY <1>2 DEF IInv, TypeOK, EngineTypeOK, Recording
    <3>2. QED
      BY <1>2, <2>3, <3>1, RecordRefines DEF Once!Next
  <2>4. ASSUME NEW s \in Slaves, Execute(s) PROVE [Once!Next]_(Once!onceVars)
    BY <1>2, <2>4, ExecuteRefines DEF Once!Next
  <2>5. QED
    BY <1>2, <2>1, <2>2, <2>3, <2>4, HistorySteps
<1>3. QED
  BY <1>1, <1>2, ReportsAreUnique, PTL DEF Spec, CopiesOnce, Once!Spec
=============================================================================
