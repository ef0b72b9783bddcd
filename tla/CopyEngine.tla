----------------------------- MODULE CopyEngine -----------------------------
(***************************************************************************)
(* The Copy Engine (backend/src/modules/copy-engine/copyEngine.ts) up to   *)
(* the point where an instruction leaves by one of the two transports, and *)
(* the recording of execution results.  PushCopy and PollCopy add the      *)
(* transports.                                                             *)
(*                                                                         *)
(* The backend is one Node.js process: code between two awaits is atomic,  *)
(* and every awaited database call is a step of its own.  handler[e] is    *)
(* where handleMasterEvent(e) stands, job[c] where copyToSlave stands for  *)
(* the (event, slave) pair c.                                              *)
(***************************************************************************)
EXTENDS CopyOrders, FiniteSets

CONSTANTS
  MaxPositions,  \* the Slaves' maxPositions limit
  AdminModes     \* the settings the admin switches a Slave between

\* "stopped" is emergencyStop; "disabled" is copyEnabled = false or status
\* DISABLED.
SlaveModes == {"active", "stopped", "disabled"}

ASSUME CopyEngineAssumption ==
  /\ MaxPositions \in Nat
  /\ AdminModes \subseteq SlaveModes

VARIABLES
  orders,     \* the copy_orders table
  clock,      \* rows created so far: the order of createdAt
  trade,      \* the trade_events table: "none", "due" (being written), "stored"
  handler,    \* control state of handleMasterEvent, per event
  job,        \* control state and locals of copyToSlave, per copy
  recording,  \* handleSlaveMessage calls between their read and their write
  slaveMode   \* the admin's setting of each Slave

engineVars == <<orders, clock, trade, handler, job, recording, slaveMode>>

HandlerStates == {"unpublished", "lookup", "retry", "fanout", "done", "dropped"}

JobStates == {"idle", "gather", "reject", "create", "dispatch", "markSent",
              "markOffline", "done"}

Job == [pc : JobStates, stop : BOOLEAN, read : SUBSET {"opens", "closes"},
        opens : SUBSET Copies, closed : SUBSET MasterTickets,
        slaveTicket : Tickets]

JobAt(pc, stop, t) == [pc |-> pc, stop |-> stop, read |-> {}, opens |-> {},
                       closed |-> {}, slaveTicket |-> t]

IdleJob == JobAt("idle", FALSE, NoTicket)

\* `delivery` tells apart the handlings of a result that arrived repeatedly.
Recording == [copy : Copies, status : {"EXECUTED", "FAILED"},
              slaveTicket : Tickets, delivery : Nat]

EngineTypeOK ==
  /\ orders \in [Copies -> Row]
  /\ clock \in Nat
  /\ \A c \in Copies : orders[c].createdAt <= clock
  /\ trade \in [Events -> {"none", "due", "stored"}]
  /\ handler \in [Events -> HandlerStates]
  /\ job \in [Copies -> Job]
  /\ recording \subseteq Recording
  /\ slaveMode \in [Slaves -> SlaveModes]

EngineInit ==
  /\ orders = [c \in Copies |-> AbsentRow]
  /\ clock = 0
  /\ trade = [e \in Events |-> "none"]
  /\ handler = [e \in Events |-> "unpublished"]
  /\ job = [c \in Copies |-> IdleJob]
  /\ recording = {}
  /\ slaveMode = [s \in Slaves |-> "active"]

(***************************************************************************)
(* Writing the table.                                                      *)
(***************************************************************************)
CreateRow(c, status, reason) ==
  /\ orders' = [orders EXCEPT ![c] = NewRow(status, reason, clock + 1)]
  /\ clock' = clock + 1

\* Mutant: the update replaces the row instead of the two columns.
ReplaceRow(c, status, reason) ==
  /\ orders' = [orders EXCEPT ![c] = NewRow(status, reason, @.createdAt)]
  /\ UNCHANGED clock

UpdateRow(c, status, reason) ==
  /\ orders' = [orders EXCEPT ![c].status = status, ![c].errorReason = reason]
  /\ UNCHANGED clock

KeepRows == UNCHANGED <<orders, clock>>

\* A job moves on or ends; the locals it no longer needs are dropped.
Moved(j, pc) == JobAt(pc, j.stop, j.slaveTicket)
Ended(j) == JobAt("done", j.stop, NoTicket)

JobGoes(c, pc) == job' = [job EXCEPT ![c] = Moved(@, pc)]
JobEnds(c) == job' = [job EXCEPT ![c] = Ended(@)]

(***************************************************************************)
(* The engine's environment, by the contract EventFeed that Ingest         *)
(* implements: an event reaches the subscribers of the bus at most once,   *)
(* and the trade_events table later, or never.  The retry queue of the     *)
(* Master's EA makes any order of events possible.                         *)
(***************************************************************************)
IsCopyableEvent(e) == TypeOf[e] \in {"OPEN", "CLOSE", "MODIFY"}

PublishEvent(e) ==
  /\ handler[e] = "unpublished"
  /\ handler' = [handler EXCEPT ![e] = IF IsCopyableEvent(e) THEN "lookup" ELSE "done"]
  /\ trade' = [trade EXCEPT ![e] = "due"]
  /\ KeepRows /\ UNCHANGED <<job, recording, slaveMode>>

\* Redis keeps nothing for a subscriber that is not connected.
EventMissed(e) ==
  /\ handler[e] = "unpublished"
  /\ handler' = [handler EXCEPT ![e] = "dropped"]
  /\ trade' = [trade EXCEPT ![e] = "due"]
  /\ KeepRows /\ UNCHANGED <<job, recording, slaveMode>>

PersistEvent(e) ==
  /\ trade[e] = "due"
  /\ trade' = [trade EXCEPT ![e] = "stored"]
  /\ KeepRows /\ UNCHANGED <<handler, job, recording, slaveMode>>

PersistFails(e) ==
  /\ trade[e] = "due"
  /\ trade' = [trade EXCEPT ![e] = "none"]
  /\ KeepRows /\ UNCHANGED <<handler, job, recording, slaveMode>>

(***************************************************************************)
(* handleMasterEvent.                                                      *)
(***************************************************************************)
HandlerGoes(e, pc) ==
  /\ handler' = [handler EXCEPT ![e] = pc]
  /\ KeepRows /\ UNCHANGED <<trade, job, recording, slaveMode>>

\* The first lookup; a miss is retried once, 250 ms later.
LookupEvent(e) ==
  /\ handler[e] = "lookup"
  /\ HandlerGoes(e, IF trade[e] = "stored" THEN "fanout" ELSE "retry")

\* Mutant: the retry goes by what the first lookup found.
RetryIgnored(e) ==
  /\ handler[e] = "retry"
  /\ HandlerGoes(e, "dropped")

RetryLookup(e) ==
  /\ handler[e] = "retry"
  /\ HandlerGoes(e, IF trade[e] = "stored" THEN "fanout" ELSE "dropped")

HandlerThrows(e) ==
  /\ handler[e] \in {"lookup", "retry", "fanout"}
  /\ HandlerGoes(e, "dropped")

\* The Slaves are read once, and every copyToSlave works on the row it was
\* given.  (The Master's balance, read in between, only feeds the sizing.)
FanOut(e) ==
  /\ handler[e] = "fanout"
  /\ handler' = [handler EXCEPT ![e] = "done"]
  /\ job' = [c \in Copies |->
               IF c[1] = e /\ slaveMode[SlaveOf(c)] # "disabled"
               THEN JobAt("gather", slaveMode[SlaveOf(c)] = "stopped", NoTicket)
               ELSE job[c]]
  /\ KeepRows /\ UNCHANGED <<trade, recording, slaveMode>>

(***************************************************************************)
(* copyToSlave before anything is sent.                                    *)
(***************************************************************************)
Gathering(c, type) == job[c].pc = "gather" /\ TypeOfCopy(c) = type

JobOnly == KeepRows /\ UNCHANGED <<trade, handler, recording, slaveMode>>

\* getCopyOrderPositions issues its two queries together; either may be
\* answered first.
ReadOpens(c) ==
  /\ Gathering(c, "OPEN") /\ "opens" \notin job[c].read
  /\ job' = [job EXCEPT ![c].read = @ \cup {"opens"},
                        ![c].opens = ExecutedOpens(orders, SlaveOf(c))]
  /\ JobOnly

ReadCloses(c) ==
  /\ Gathering(c, "OPEN") /\ "closes" \notin job[c].read
  /\ job' = [job EXCEPT ![c].read = @ \cup {"closes"},
                        ![c].closed = ClosedTickets(orders, SlaveOf(c))]
  /\ JobOnly

SummaryRead(c) == Gathering(c, "OPEN") /\ job[c].read = {"opens", "closes"}

\* Mutant: the emergency stop is not consulted.
OnlyCountAllowed(stop, count) == count < MaxPositions

EntryAllowed(stop, count) == ~stop /\ count < MaxPositions

AcceptOpen(c) ==
  /\ SummaryRead(c)
  /\ EntryAllowed(job[c].stop, Cardinality(StillOpen(job[c].opens, job[c].closed)))
  /\ JobGoes(c, "create")
  /\ JobOnly

\* The two limits above refuse an OPEN, and so may the symbol lists, the
\* volume calculator and the exposure limit, whose data is not in this module.
RefuseOpen(c) ==
  /\ SummaryRead(c)
  /\ JobGoes(c, "reject")
  /\ JobOnly

FindTicket(c) ==
  LET t == FindExecutedOpenSlaveTicket(orders, SlaveOf(c), MasterTicketOf(c))
  IN  /\ Gathering(c, "CLOSE") \/ Gathering(c, "MODIFY")
      /\ job' = [job EXCEPT ![c] =
           JobAt(IF t = NoTicket THEN "reject" ELSE "create", @.stop, t)]
      /\ JobOnly

\* Mutant: the refusal is written as REJECTED, a status of the schema.
CreateRejected(c) ==
  /\ job[c].pc = "reject"
  /\ CreateRow(c, "REJECTED", "RISK")
  /\ JobEnds(c)
  /\ UNCHANGED <<trade, handler, recording, slaveMode>>

\* Mutant: no return after failCopyOrder.
CreateFailedAndGoOn(c) ==
  /\ job[c].pc = "reject"
  /\ CreateRow(c, "FAILED", "RISK")
  /\ JobGoes(c, "dispatch")
  /\ UNCHANGED <<trade, handler, recording, slaveMode>>

\* failCopyOrder.
CreateFailed(c) ==
  /\ job[c].pc = "reject"
  /\ CreateRow(c, "FAILED",
               IF TypeOfCopy(c) = "OPEN" THEN "RISK" ELSE "NO_MATCHING_OPEN_COPY")
  /\ JobEnds(c)
  /\ UNCHANGED <<trade, handler, recording, slaveMode>>

\* Mutant: the row is created and the function returns.
CreateAndLeave(c) ==
  /\ job[c].pc = "create"
  /\ CreateRow(c, "PENDING", "NONE")
  /\ JobEnds(c)
  /\ UNCHANGED <<trade, handler, recording, slaveMode>>

CreatePending(c) ==
  /\ job[c].pc = "create"
  /\ CreateRow(c, "PENDING", "NONE")
  /\ JobGoes(c, "dispatch")
  /\ UNCHANGED <<trade, handler, recording, slaveMode>>

MarkOffline(c) ==
  /\ job[c].pc = "markOffline"
  /\ UpdateRow(c, "FAILED", "SLAVE_OFFLINE")
  /\ JobEnds(c)
  /\ UNCHANGED <<trade, handler, recording, slaveMode>>

\* A database call of copyToSlave is rejected; allSettled keeps the others
\* going.
JobThrows(c) ==
  /\ job[c].pc \notin {"idle", "done"}
  /\ JobEnds(c)
  /\ JobOnly

(***************************************************************************)
(* handleSlaveMessage(s, r): a read of the row, which must belong to s,    *)
(* then an unconditional write.                                            *)
(***************************************************************************)
\* Mutant: a result is accepted for a SENT row only.
OwnSentRow(s, r) == orders[r.copy].status = "SENT" /\ SlaveOf(r.copy) = s

OwnRow(s, r) == Exists(orders, r.copy) /\ SlaveOf(r.copy) = s

RecordingOf(r, n) ==
  [copy |-> r.copy, status |-> r.status, delivery |-> n,
   slaveTicket |-> IF r.slaveTicket # NoTicket THEN r.slaveTicket
                   ELSE orders[r.copy].slaveTicket]

BeginRecording(s, r, n) ==
  recording' = IF OwnRow(s, r) THEN recording \cup {RecordingOf(r, n)} ELSE recording

RecordResult(r) ==
  /\ r \in recording
  /\ recording' = recording \ {r}
  /\ orders' = [orders EXCEPT
       ![r.copy].status = r.status,
       ![r.copy].slaveTicket = r.slaveTicket,
       ![r.copy].errorReason = IF r.status = "FAILED" THEN "REPORTED" ELSE @]
  /\ UNCHANGED <<clock, trade, handler, job, slaveMode>>

RecordingThrows(r) ==
  /\ r \in recording
  /\ recording' = recording \ {r}
  /\ KeepRows /\ UNCHANGED <<trade, handler, job, slaveMode>>

(***************************************************************************)
(* The admin changes a Slave; the process dies and is started again: the   *)
(* tables survive, what was under way does not, and the bus does not       *)
(* deliver an event twice.                                                 *)
(***************************************************************************)
PatchSlave(s) ==
  /\ \E mode \in AdminModes \ {slaveMode[s]} : slaveMode' = [slaveMode EXCEPT ![s] = mode]
  /\ KeepRows /\ UNCHANGED <<trade, handler, job, recording>>

BackendCrash ==
  /\ handler' = [e \in Events |-> IF handler[e] \in {"lookup", "retry", "fanout"}
                                  THEN "dropped" ELSE handler[e]]
  /\ trade' = [e \in Events |-> IF trade[e] = "due" THEN "none" ELSE trade[e]]
  /\ job' = [c \in Copies |-> IF job[c].pc = "idle" THEN job[c]
                              ELSE Ended(job[c])]
  /\ recording' = {}
  /\ KeepRows /\ UNCHANGED slaveMode

(***************************************************************************)
(* The steps that belong to the engine alone, and the ones its scheduler   *)
(* keeps taking: a pending database call or timer is eventually answered.  *)
(***************************************************************************)
HandlerStep(e) == LookupEvent(e) \/ RetryLookup(e) \/ FanOut(e)

GatherStep(c) ==
  ReadOpens(c) \/ ReadCloses(c) \/ AcceptOpen(c) \/ RefuseOpen(c) \/ FindTicket(c)

WriteStep(c) == CreateFailed(c) \/ CreatePending(c) \/ MarkOffline(c)

EngineStep ==
  \/ \E e \in Events : PublishEvent(e) \/ PersistEvent(e) \/ HandlerStep(e)
  \/ \E c \in Copies : GatherStep(c) \/ WriteStep(c)
  \/ \E r \in recording : RecordResult(r)
  \/ \E s \in Slaves : PatchSlave(s)

EngineCallFails ==
  \/ \E e \in Events : EventMissed(e) \/ PersistFails(e) \/ HandlerThrows(e)
  \/ \E c \in Copies : JobThrows(c)
  \/ \E r \in recording : RecordingThrows(r)
=============================================================================
