-------------------------- MODULE CopyEngineProofs --------------------------
(***************************************************************************)
(* What both compositions of the Copy Engine rest on: the ticket lookup,   *)
(* the types of the engine and of the terminal, and what a step does to    *)
(* one job and one row.                                                    *)
(***************************************************************************)
EXTENDS CopyInvariant, TLAPS, WellFoundedInduction

LEMMA CopyFacts ==
  /\ NoTicket \in Tickets
  /\ \A c \in Copies : SlaveOf(c) \in Slaves /\ c # NoTicket /\ c \in Tickets
BY CopyOrdersAssumption DEF Copies, SlaveOf, Tickets

(***************************************************************************)
(* The latest row.  Latest is a CHOOSE, so that it returns a row at all    *)
(* needs the creation times to have a maximum: they are bounded by clock.  *)
(***************************************************************************)
LEMMA NatSetHasMin ==
  ASSUME NEW S \in SUBSET Nat, S # {}
  PROVE  \E x \in S : \A y \in S : x <= y
<1> DEFINE R == OpToRel(<, Nat)
<1>1. IsWellFoundedOn(R, Nat)
  BY NatLessThanWellFounded
<1>2. \A x, y \in Nat : y < x => <<y, x>> \in R
  BY DEF OpToRel
<1> HIDE DEF R
<1>3. PICK x \in S : \A y \in S : ~(<<y, x>> \in R)
  BY <1>1, WFMin
<1>4. ASSUME NEW y \in S PROVE x <= y
  <2>1. x \in Nat /\ y \in Nat
    OBVIOUS
  <2>2. ~(y < x)
    BY <1>2, <1>3, <2>1
  <2>3. QED
    BY <2>1, <2>2
<1>5. QED
  BY <1>4

LEMMA LatestIsRow ==
  ASSUME NEW table \in [Copies -> Row], NEW n \in Nat,
         \A c \in Copies : table[c].createdAt <= n,
         NEW rows \in SUBSET Copies, rows # {}
  PROVE  Latest(table, rows) \in rows
<1> DEFINE age(c) == n - table[c].createdAt
<1>1. \A c \in Copies : age(c) \in Nat /\ table[c].createdAt \in Nat
  BY DEF Row
<1>2. PICK x \in {age(c) : c \in rows} : \A y \in {age(c) : c \in rows} : x <= y
  <2>1. {age(c) : c \in rows} \in SUBSET Nat /\ {age(c) : c \in rows} # {}
    BY <1>1
  <2> HIDE DEF age
  <2>2. QED
    BY <2>1, NatSetHasMin
<1>3. PICK c \in rows : x = age(c)
  BY <1>2
<1>4. \A d \in rows : age(c) <= age(d)
  BY <1>2, <1>3
<1>5. \A d \in rows : table[d].createdAt <= table[c].createdAt
  BY <1>1, <1>4
<1>6. QED
  BY <1>5 DEF Latest

(***************************************************************************)
(* What the ticket lookup returns: nothing, or the ticket of an executed   *)
(* OPEN of that Slave and Master ticket.                                   *)
(***************************************************************************)
LEMMA FoundTicket ==
  ASSUME NEW table \in [Copies -> Row], NEW n \in Nat,
         \A c \in Copies : table[c].createdAt <= n, NEW s, NEW m
  PROVE  \/ FindExecutedOpenSlaveTicket(table, s, m) = NoTicket
         \/ \E d \in Copies :
              /\ FindExecutedOpenSlaveTicket(table, s, m) = table[d].slaveTicket
              /\ SlaveOf(d) = s /\ MasterTicketOf(d) = m /\ TypeOfCopy(d) = "OPEN"
              /\ table[d].status = "EXECUTED"
<1> DEFINE rows == CandidateOpens(table, s, m)
<1>1. rows \in SUBSET Copies
  BY DEF CandidateOpens, ExecutedOpens, ExecutedOf
<1>2. CASE rows = {}
  BY <1>2 DEF FindExecutedOpenSlaveTicket
<1>3. CASE rows # {}
  <2> DEFINE d == Latest(table, rows)
  <2>1. d \in rows
    <3> HIDE DEF rows
    <3>1. QED
      BY <1>1, <1>3, LatestIsRow
  <2>2. FindExecutedOpenSlaveTicket(table, s, m) = table[d].slaveTicket
    BY <1>3 DEF FindExecutedOpenSlaveTicket
  <2>3. /\ d \in Copies /\ SlaveOf(d) = s /\ MasterTicketOf(d) = m
        /\ TypeOfCopy(d) = "OPEN" /\ table[d].status = "EXECUTED"
    <3> HIDE DEF d
    <3>1. QED
      BY <2>1 DEF CandidateOpens, ExecutedOpens, ExecutedOf
  <2>4. QED
    BY <2>2, <2>3
<1>4. QED
  BY <1>2, <1>3

LEMMA FoundTicketType ==
  ASSUME NEW table \in [Copies -> Row], NEW n \in Nat,
         \A c \in Copies : table[c].createdAt <= n, NEW s, NEW m
  PROVE  FindExecutedOpenSlaveTicket(table, s, m) \in Tickets
BY FoundTicket DEF Row, Tickets

\* The ticket found for a CLOSE or MODIFY is one it may act on: it is in an
\* executed OPEN row of the same Slave and Master ticket, and that row names
\* the position it acted on.
LEMMA FoundTicketEntitled ==
  ASSUME EngineTypeOK, TerminalTypeOK, RowsHonest, ActedOnEntitled, NEW c \in Copies,
         FindExecutedOpenSlaveTicket(orders, SlaveOf(c), MasterTicketOf(c)) # NoTicket
  PROVE  Entitled(c, FindExecutedOpenSlaveTicket(orders, SlaveOf(c), MasterTicketOf(c)))
<1>1. PICK t : t = FindExecutedOpenSlaveTicket(orders, SlaveOf(c), MasterTicketOf(c))
  OBVIOUS
<1>2. orders \in [Copies -> Row] /\ clock \in Nat
      /\ \A d \in Copies : orders[d].createdAt <= clock
  BY DEF EngineTypeOK
<1>3. PICK d \in Copies : /\ t = orders[d].slaveTicket
                          /\ SlaveOf(d) = SlaveOf(c)
                          /\ MasterTicketOf(d) = MasterTicketOf(c)
                          /\ TypeOfCopy(d) = "OPEN"
  BY <1>1, <1>2, FoundTicket
<1>4. t = actedOn[d]
  BY <1>1, <1>3 DEF RowsHonest
<1>5. MayActOn(d, t) /\ t \in Copies
  BY <1>1, <1>3, <1>4 DEF ActedOnEntitled, TerminalTypeOK, Tickets
<1>6. QED
  BY <1>1, <1>3, <1>5 DEF MayActOn, Entitled

(***************************************************************************)
(* The table's operations keep its type.                                   *)
(***************************************************************************)
RowsTyped ==
  /\ orders \in [Copies -> Row]
  /\ clock \in Nat
  /\ \A c \in Copies : orders[c].createdAt <= clock

LEMMA CreateRowType ==
  ASSUME RowsTyped, NEW c \in Copies, NEW status \in Statuses, NEW reason \in Reasons,
         CreateRow(c, status, reason)
  PROVE  RowsTyped'
<1> DEFINE row == NewRow(status, reason, clock + 1)
<1>1. row \in Row /\ row.createdAt = clock + 1
  BY DEF RowsTyped, NewRow, Row, Tickets
<1>2. orders' = [orders EXCEPT ![c] = row] /\ clock' = clock + 1
  BY DEF CreateRow
<1> HIDE DEF row
<1>3. \A d \in Copies : orders[d].createdAt \in Nat
  BY DEF RowsTyped, Row
<1>4. QED
  BY <1>1, <1>2, <1>3 DEF RowsTyped

LEMMA UpdateRowType ==
  ASSUME RowsTyped, NEW c \in Copies, NEW status \in Statuses, NEW reason \in Reasons,
         UpdateRow(c, status, reason)
  PROVE  RowsTyped'
  BY DEF RowsTyped, UpdateRow, Row

LEMMA MovedType ==
  ASSUME NEW j \in Job, NEW pc \in JobStates
  PROVE  Moved(j, pc) \in Job /\ Ended(j) \in Job
  BY DEF Moved, Ended, Job, JobAt, JobStates, Tickets

LEMMA JobMovesType ==
  ASSUME job \in [Copies -> Job], NEW c \in Copies, NEW pc \in JobStates,
         JobGoes(c, pc) \/ JobEnds(c)
  PROVE  job' \in [Copies -> Job]
  BY MovedType DEF JobGoes, JobEnds

(***************************************************************************)
(* Type correctness.                                                       *)
(***************************************************************************)
LEMMA EngineInitType == EngineInit => EngineTypeOK
  BY DEF EngineInit, EngineTypeOK, AbsentRow, Row, Statuses, Reasons, Tickets,
         IdleJob, JobAt, Job, JobStates, HandlerStates, SlaveModes

LEMMA HandlerType ==
  ASSUME EngineTypeOK, NEW e \in Events,
         \/ PublishEvent(e) \/ PersistEvent(e) \/ PersistFails(e) \/ EventMissed(e)
         \/ LookupEvent(e) \/ RetryLookup(e) \/ HandlerThrows(e)
  PROVE  EngineTypeOK'
  BY DEF EngineTypeOK, PublishEvent, PersistEvent, PersistFails, EventMissed, LookupEvent,
         RetryLookup, HandlerThrows, HandlerGoes, HandlerStates, KeepRows, IsCopyableEvent

LEMMA FanOutType ==
  ASSUME EngineTypeOK, NEW e \in Events, FanOut(e)
  PROVE  EngineTypeOK'
<1>1. job' \in [Copies -> Job]
  BY DEF EngineTypeOK, FanOut, Job, JobAt, JobStates, Tickets
<1>2. QED
  BY <1>1 DEF EngineTypeOK, FanOut, HandlerStates, KeepRows

LEMMA ReadType ==
  ASSUME EngineTypeOK, NEW c \in Copies, ReadOpens(c) \/ ReadCloses(c)
  PROVE  EngineTypeOK'
<1>1. job' \in [Copies -> Job]
  <2>1. ExecutedOpens(orders, SlaveOf(c)) \subseteq Copies
    BY DEF ExecutedOpens, ExecutedOf
  <2>2. ClosedTickets(orders, SlaveOf(c)) \subseteq MasterTickets
    BY CopyOrdersAssumption DEF ClosedTickets, ExecutedOf, MasterTicketOf, Copies
  <2>3. QED
    BY <2>1, <2>2 DEF EngineTypeOK, ReadOpens, ReadCloses, Job
<1>2. QED
  BY <1>1 DEF EngineTypeOK, ReadOpens, ReadCloses, JobOnly, KeepRows

LEMMA GatherType ==
  ASSUME EngineTypeOK, NEW c \in Copies, GatherStep(c)
  PROVE  EngineTypeOK'
<1>1. CASE ReadOpens(c) \/ ReadCloses(c)
  BY <1>1, ReadType
<1>2. CASE AcceptOpen(c) \/ RefuseOpen(c)
  <2>1. job' \in [Copies -> Job]
    BY <1>2, JobMovesType DEF EngineTypeOK, AcceptOpen, RefuseOpen, JobStates
  <2>2. QED
    BY <1>2, <2>1 DEF EngineTypeOK, AcceptOpen, RefuseOpen, JobOnly, KeepRows
<1>3. CASE FindTicket(c)
  <2> DEFINE t == FindExecutedOpenSlaveTicket(orders, SlaveOf(c), MasterTicketOf(c))
  <2>1. t \in Tickets
    BY FoundTicketType DEF EngineTypeOK
  <2>2. job' \in [Copies -> Job]
    <3> HIDE DEF t
    <3>1. job' = [job EXCEPT ![c] = JobAt(IF t = NoTicket THEN "reject" ELSE "create", @.stop, t)]
      BY <1>3 DEF FindTicket, t
    <3>2. QED
      BY <2>1, <3>1 DEF EngineTypeOK, JobAt, Job, JobStates
  <2>3. QED
    BY <1>3, <2>2 DEF EngineTypeOK, FindTicket, JobOnly, KeepRows
<1>4. QED
  BY <1>1, <1>2, <1>3 DEF GatherStep

LEMMA WriteType ==
  ASSUME EngineTypeOK, NEW c \in Copies, WriteStep(c)
  PROVE  EngineTypeOK'
<1>1. RowsTyped
  BY DEF EngineTypeOK, RowsTyped
<1>2. job' \in [Copies -> Job]
  BY JobMovesType DEF EngineTypeOK, WriteStep, CreateFailed, CreatePending, MarkOffline, JobStates
<1>3. RowsTyped'
  BY <1>1, CreateRowType, UpdateRowType
     DEF WriteStep, CreateFailed, CreatePending, MarkOffline, Statuses, Reasons
<1>4. QED
  BY <1>2, <1>3
     DEF EngineTypeOK, RowsTyped, WriteStep, CreateFailed, CreatePending, MarkOffline

LEMMA RecordType ==
  ASSUME EngineTypeOK, NEW r \in recording, RecordResult(r) \/ RecordingThrows(r)
  PROVE  EngineTypeOK'
<1>1. r \in Recording
  BY DEF EngineTypeOK
<1>2. orders' \in [Copies -> Row] /\ \A c \in Copies : orders'[c].createdAt = orders[c].createdAt
  BY <1>1 DEF EngineTypeOK, RecordResult, RecordingThrows, KeepRows, Recording, Row,
              Statuses, Reasons, Tickets
<1>3. QED
  BY <1>2 DEF EngineTypeOK, RecordResult, RecordingThrows, KeepRows

LEMMA BeginRecordingType ==
  ASSUME EngineTypeOK, NEW s \in Slaves, NEW r \in Result, NEW n \in Nat,
         BeginRecording(s, r, n)
  PROVE  recording' \subseteq Recording
<1>1. RecordingOf(r, n) \in Recording
  BY DEF EngineTypeOK, RecordingOf, Recording, Result, Row
<1>2. QED
  BY <1>1 DEF EngineTypeOK, BeginRecording

LEMMA PatchSlaveType ==
  ASSUME EngineTypeOK, NEW s \in Slaves, PatchSlave(s)
  PROVE  EngineTypeOK'
  BY CopyEngineAssumption DEF EngineTypeOK, PatchSlave, KeepRows

LEMMA JobThrowsType ==
  ASSUME EngineTypeOK, NEW c \in Copies, JobThrows(c)
  PROVE  EngineTypeOK'
<1>1. job' \in [Copies -> Job]
  BY JobMovesType DEF EngineTypeOK, JobThrows, JobStates
<1>2. QED
  BY <1>1 DEF EngineTypeOK, JobThrows, JobOnly, KeepRows

LEMMA BackendCrashType ==
  ASSUME EngineTypeOK, BackendCrash
  PROVE  EngineTypeOK'
<1>1. job' \in [Copies -> Job]
  BY MovedType DEF EngineTypeOK, BackendCrash, JobStates
<1>2. handler' \in [Events -> HandlerStates]
  BY DEF EngineTypeOK, BackendCrash, HandlerStates
<1>3. QED
  BY <1>1, <1>2 DEF EngineTypeOK, BackendCrash, KeepRows

LEMMA EngineType ==
  ASSUME EngineTypeOK, EngineStep \/ EngineCallFails
  PROVE  EngineTypeOK'
<1>1. ASSUME NEW e \in Events,
             \/ PublishEvent(e) \/ PersistEvent(e) \/ HandlerStep(e)
             \/ EventMissed(e) \/ PersistFails(e) \/ HandlerThrows(e)
      PROVE  EngineTypeOK'
  BY <1>1, HandlerType, FanOutType DEF HandlerStep
<1>2. QED
  BY <1>1, GatherType, WriteType, RecordType, PatchSlaveType, JobThrowsType
     DEF EngineStep, EngineCallFails

(***************************************************************************)
(* The terminal.                                                           *)
(***************************************************************************)
LEMMA ExecuteInstructionType ==
  ASSUME TerminalTypeOK, NEW i \in Instruction, NEW r \in Result, ExecuteInstruction(i, r)
  PROVE  TerminalTypeOK'
<1>1. i.copy \in Copies /\ i.slaveTicket \in Tickets
  BY DEF Instruction
<1>2. Reachable(i) => Target(i) \in Copies
  BY <1>1 DEF Reachable, Target, TerminalTypeOK
<1>3. attempts' \in [Copies -> Nat]
  BY <1>1 DEF ExecuteInstruction, TerminalTypeOK
<1>4. CASE Reachable(i) /\ Carried(i, Target(i))
  <2>1. actedOn' \in [Copies -> Tickets]
    BY <1>1, <1>2, <1>4 DEF Carried, TerminalTypeOK, Tickets
  <2>2. positions' \subseteq Copies
    BY <1>2, <1>4 DEF Carried, TerminalTypeOK
  <2>3. QED
    BY <1>3, <2>1, <2>2 DEF TerminalTypeOK
<1>5. CASE UNCHANGED <<positions, actedOn>>
  BY <1>3, <1>5 DEF TerminalTypeOK
<1>6. QED
  BY <1>4, <1>5 DEF ExecuteInstruction, Filled, Refused, Unconfirmed

\* An entitled instruction that is run for the first time is counted, acts on
\* a position its copy may act on, if on any, and is reported honestly.
LEMMA ExecuteFacts ==
  ASSUME TerminalTypeOK, NEW i \in Instruction, NEW r \in Result, ExecuteInstruction(i, r),
         Entitled(i.copy, i.slaveTicket), attempts[i.copy] = 0, actedOn[i.copy] = NoTicket
  PROVE  /\ attempts'[i.copy] = 1
         /\ \A d \in Copies : d # i.copy => attempts'[d] = attempts[d] /\ actedOn'[d] = actedOn[d]
         /\ actedOn'[i.copy] # NoTicket => MayActOn(i.copy, actedOn'[i.copy])
         /\ r.copy = i.copy
         /\ r.slaveTicket # NoTicket => r.slaveTicket = actedOn'[i.copy]
         /\ r.status = "EXECUTED" => r.slaveTicket # NoTicket
<1>1. i.copy \in Copies /\ i.slaveTicket \in Tickets
  BY DEF Instruction
<1>2. attempts'[i.copy] = 1 /\ \A d \in Copies : d # i.copy => attempts'[d] = attempts[d]
  BY <1>1 DEF ExecuteInstruction, TerminalTypeOK
<1>3. actedOn \in [Copies -> Tickets]
  BY DEF TerminalTypeOK
<1>4. Reachable(i) => /\ Target(i) \in Copies /\ Target(i) # NoTicket
                      /\ MayActOn(i.copy, Target(i))
  BY <1>1, CopyFacts DEF Reachable, Target, Entitled, MayActOn, TerminalTypeOK
<1>5. CASE Filled(i, r)
  BY <1>1, <1>2, <1>3, <1>4, <1>5 DEF Filled, Carried, Success
<1>6. CASE Refused(i, r)
  BY <1>2, <1>6 DEF Refused, Failure
<1>7. CASE Unconfirmed(i, r)
  BY <1>1, <1>2, <1>3, <1>4, <1>7 DEF Unconfirmed, Carried, Failure
<1>8. QED
  BY <1>5, <1>6, <1>7 DEF ExecuteInstruction

(***************************************************************************)
(* How one job, and one row, differ after a step.                          *)
(***************************************************************************)
LEMMA JobGoesFacts ==
  ASSUME job \in [Copies -> Job], NEW c \in Copies, NEW pc, JobGoes(c, pc)
  PROVE  /\ job'[c].pc = pc /\ job'[c].slaveTicket = job[c].slaveTicket
         /\ \A d \in Copies : d # c => job'[d] = job[d]
BY DEF JobGoes, Moved, JobAt

LEMMA JobEndsFacts ==
  ASSUME job \in [Copies -> Job], NEW c \in Copies, JobEnds(c)
  PROVE  /\ job'[c].pc = "done"
         /\ \A d \in Copies : d # c => job'[d] = job[d]
BY DEF JobEnds, Ended, JobAt

LEMMA CreateRowFacts ==
  ASSUME orders \in [Copies -> Row], NEW c \in Copies, NEW status, NEW reason,
         CreateRow(c, status, reason)
  PROVE  /\ orders'[c].status = status /\ orders'[c].errorReason = reason
         /\ orders'[c].slaveTicket = NoTicket
         /\ \A d \in Copies : d # c => orders'[d] = orders[d]
BY DEF CreateRow, NewRow

LEMMA UpdateRowFacts ==
  ASSUME orders \in [Copies -> Row], NEW c \in Copies, NEW status, NEW reason,
         UpdateRow(c, status, reason)
  PROVE  /\ orders'[c].status = status /\ orders'[c].errorReason = reason
         /\ orders'[c].slaveTicket = orders[c].slaveTicket
         /\ \A d \in Copies : d # c => orders'[d] = orders[d]
BY DEF UpdateRow, Row
=============================================================================
