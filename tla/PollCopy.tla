------------------------------ MODULE PollCopy ------------------------------
(***************************************************************************)
(* Copying to MT4 Slaves: the Copy Engine leaves the row PENDING, the      *)
(* Slave's EA polls for it over HTTP, executes it and posts the result,    *)
(* which it keeps for retries in an in-memory queue                        *)
(* (connectorPolling.routes.ts, ForexCopySlaveEA.mq4, SlaveHttp.mqh).      *)
(*                                                                         *)
(* The EA is single-threaded: every request blocks it until the answer or  *)
(* a timeout.  The backend does not know about the timeout and finishes    *)
(* the request, so several of its poll handlers may be under way: they     *)
(* are the slots.                                                          *)
(***************************************************************************)
EXTENDS CopyEngine, Terminal, RetryQueue

CONSTANTS
  Slots,        \* names of the poll handlers one Slave may have under way
  NoSlot,       \* no answer is awaited
  MaxTimeouts,  \* bound on requests that fail on their way
  MaxFaults     \* bound on restarts, crashes and failed database calls

ASSUME PollCopyAssumption ==
  /\ NoSlot \notin Slots
  /\ MaxTimeouts \in Nat
  /\ MaxFaults \in Nat

VARIABLES
  online,     \* the Slave has a connector whose status is ONLINE
  beating,    \* a recordHeartbeat started by a request is being written
  poll,       \* the poll handlers, per slot
  ea,         \* what each Slave's EA is doing
  retryQueue, \* results each EA still has to deliver
  timeouts,   \* faults so far, bounded by the two constants
  faults

connectorVars == <<online, beating>>
eaVars == <<ea, retryQueue>>
faultVars == <<timeouts, faults>>
vars == <<engineVars, terminalVars, connectorVars, poll, eaVars, faultVars>>

(***************************************************************************)
(* A poll handler: free, about to look for a PENDING row, to look up the   *)
(* ticket, to write SENT or FAILED, or to answer.                          *)
(***************************************************************************)
Poll == [pc : {"free", "find", "lookup", "fail", "mark", "reply"},
         copy : Tickets, slaveTicket : Tickets]

(***************************************************************************)
(* An EA: `awaits` is the poll it waits for, `instruction` what it is      *)
(* executing, `result` what it is posting for the attempt-th time, from    *)
(* position `from` of the retry queue (0: for the first time).             *)
(***************************************************************************)
NoInstruction == [copy |-> NoTicket, slaveTicket |-> NoTicket]
NoResult == [copy |-> NoTicket, status |-> "FAILED", slaveTicket |-> NoTicket]

EA == [busy : {"idle", "polling", "executing", "posting", "awaiting", "refused",
               "down"},
       awaits : Slots \cup {NoSlot},
       instruction : Instruction \cup {NoInstruction},
       result : Result \cup {NoResult},
       attempt : Nat, from : Nat]

EAAt(busy, k, i, r, n, from) ==
  [busy |-> busy, awaits |-> k, instruction |-> i, result |-> r, attempt |-> n, from |-> from]

IdleEA == EAAt("idle", NoSlot, NoInstruction, NoResult, 0, 0)
DownEA == EAAt("down", NoSlot, NoInstruction, NoResult, 0, 0)
PollingEA(k) == EAAt("polling", k, NoInstruction, NoResult, 0, 0)
ExecutingEA(i) == EAAt("executing", NoSlot, i, NoResult, 0, 0)
PostingEA(r, n, from) == EAAt("posting", NoSlot, NoInstruction, r, n, from)

TypeOK ==
  /\ EngineTypeOK
  /\ TerminalTypeOK
  /\ online \in [Slaves -> BOOLEAN]
  /\ beating \in [Slaves -> BOOLEAN]
  /\ poll \in [Slaves -> [Slots -> Poll]]
  /\ ea \in [Slaves -> EA]
  /\ \A s \in Slaves : /\ retryQueue[s] \in Seq(Waiting(Result))
                       /\ Len(retryQueue[s]) <= MaxQueue
  /\ timeouts \in Nat
  /\ faults \in Nat

FreePoll == [pc |-> "free", copy |-> NoTicket, slaveTicket |-> NoTicket]

Init ==
  /\ EngineInit
  /\ TerminalInit
  /\ online = [s \in Slaves |-> FALSE]
  /\ beating = [s \in Slaves |-> FALSE]
  /\ poll = [s \in Slaves |-> [k \in Slots |-> FreePoll]]
  /\ ea = [s \in Slaves |-> IdleEA]
  /\ retryQueue = [s \in Slaves |-> <<>>]
  /\ timeouts = 0
  /\ faults = 0

(***************************************************************************)
(* The engine's side: hasOnlineConnector is an awaited query, and an       *)
(* online Slave's row is simply left PENDING.                              *)
(***************************************************************************)
CheckOnline(c) ==
  /\ job[c].pc = "dispatch"
  /\ IF online[SlaveOf(c)] THEN JobEnds(c) ELSE JobGoes(c, "markOffline")
  /\ JobOnly
  /\ UNCHANGED <<terminalVars, connectorVars, poll, eaVars, faultVars>>

(***************************************************************************)
(* Connector status.  Every authenticated request starts a heartbeat       *)
(* write it does not wait for; the sweep finds an EA that has been silent, *)
(* because it is stopped, blocked in a call to the broker, or posting      *)
(* requests that do not get through.                                       *)
(***************************************************************************)
RecordHeartbeat(s) ==
  /\ beating[s]
  /\ beating' = [beating EXCEPT ![s] = FALSE]
  /\ online' = [online EXCEPT ![s] = TRUE]
  /\ UNCHANGED <<engineVars, terminalVars, poll, eaVars, faultVars>>

SweepOffline(s) ==
  /\ ea[s].busy \notin {"idle", "awaiting"} /\ online[s]
  /\ online' = [online EXCEPT ![s] = FALSE]
  /\ UNCHANGED <<engineVars, terminalVars, beating, poll, eaVars, faultVars>>

(***************************************************************************)
(* GET /api/connectors/pending-instruction.                                *)
(***************************************************************************)
PollGoes(s, k, pc) == poll' = [poll EXCEPT ![s][k].pc = pc]
PollEnds(s, k) == poll' = [poll EXCEPT ![s][k] = FreePoll]

\* The answer of poll k, if the EA still waits for it; otherwise nobody
\* reads it.
Answer(s, k, next) ==
  ea' = IF ea[s].awaits = k THEN [ea EXCEPT ![s] = next] ELSE ea

StartPoll(s, k) ==
  /\ ea[s].busy = "idle" /\ poll[s][k].pc = "free"
  /\ ea' = [ea EXCEPT ![s] = PollingEA(k)]
  /\ poll' = [poll EXCEPT ![s][k] = [FreePoll EXCEPT !.pc = "find"]]
  /\ beating' = [beating EXCEPT ![s] = TRUE]
  /\ UNCHANGED <<engineVars, terminalVars, online, retryQueue, faultVars>>

\* Mutant: an instruction is handed out until its result arrives.
UnansweredOf(s) ==
  {c \in Copies : SlaveOf(c) = s /\ orders[c].status \in {"PENDING", "SENT"}}

\* Mutant: an instruction is handed out until it has been executed.
UnexecutedOf(s) ==
  {c \in Copies : SlaveOf(c) = s /\ orders[c].status \notin {"ABSENT", "EXECUTED"}}

PendingOf(s) == {c \in Copies : SlaveOf(c) = s /\ orders[c].status = "PENDING"}

Oldest(rows) ==
  CHOOSE c \in rows : \A d \in rows : orders[c].createdAt <= orders[d].createdAt

FindPending(s, k) ==
  LET rows == PendingOf(s)
      c == Oldest(rows)
  IN  /\ poll[s][k].pc = "find"
      /\ IF rows = {}
         THEN PollEnds(s, k) /\ Answer(s, k, IdleEA)                         \* 204
         ELSE /\ poll' = [poll EXCEPT ![s][k].copy = c,
                    ![s][k].pc = IF TypeOfCopy(c) = "OPEN" THEN "mark" ELSE "lookup"]
              /\ UNCHANGED ea
      /\ UNCHANGED <<engineVars, terminalVars, connectorVars, retryQueue, faultVars>>

LookupTicket(s, k) ==
  LET t == FindExecutedOpenSlaveTicket(orders, s, MasterTicketOf(poll[s][k].copy))
  IN  /\ poll[s][k].pc = "lookup"
      /\ poll' = [poll EXCEPT ![s][k].slaveTicket = t,
                              ![s][k].pc = IF t = NoTicket THEN "fail" ELSE "mark"]
      /\ UNCHANGED <<engineVars, terminalVars, connectorVars, eaVars, faultVars>>

\* Mutant: 204 is answered, but the row stays PENDING.
AnswerNothing(s, k) ==
  /\ poll[s][k].pc = "fail"
  /\ PollEnds(s, k) /\ Answer(s, k, IdleEA)
  /\ UNCHANGED <<engineVars, terminalVars, connectorVars, retryQueue, faultVars>>

FailPending(s, k) ==
  /\ poll[s][k].pc = "fail"
  /\ UpdateRow(poll[s][k].copy, "FAILED", "NO_MATCHING_OPEN_COPY")
  /\ PollEnds(s, k) /\ Answer(s, k, IdleEA)                                  \* 204
  /\ UNCHANGED <<trade, handler, job, recording, slaveMode>>
  /\ UNCHANGED <<terminalVars, connectorVars, retryQueue, faultVars>>

MarkPolled(s, k) ==
  /\ poll[s][k].pc = "mark"
  /\ UpdateRow(poll[s][k].copy, "SENT", orders[poll[s][k].copy].errorReason)
  /\ PollGoes(s, k, "reply")
  /\ UNCHANGED <<trade, handler, job, recording, slaveMode>>
  /\ UNCHANGED <<terminalVars, connectorVars, eaVars, faultVars>>

ReplyInstruction(s, k) ==
  /\ poll[s][k].pc = "reply"
  /\ Answer(s, k, ExecutingEA([copy |-> poll[s][k].copy, slaveTicket |-> poll[s][k].slaveTicket]))
  /\ PollEnds(s, k)
  /\ UNCHANGED <<engineVars, terminalVars, connectorVars, retryQueue, faultVars>>

(***************************************************************************)
(* The EA executes, posts, and retries what was not answered with 200.     *)
(***************************************************************************)
Execute(s) ==
  /\ ea[s].busy = "executing"
  /\ \E r \in Result :
       /\ ExecuteInstruction(ea[s].instruction, r)
       /\ ea' = [ea EXCEPT ![s] = PostingEA(r, 1, 0)]
  /\ UNCHANGED <<engineVars, connectorVars, poll, retryQueue, faultVars>>

\* ProcessRetryQueue goes through the queue from its end, once per timer
\* tick, passing over what is not due: any item may be the next one posted.
RetryPost(s) ==
  /\ ea[s].busy = "idle"
  /\ \E i \in 1..Len(retryQueue[s]) :
       ea' = [ea EXCEPT ![s] = PostingEA(retryQueue[s][i].payload,
                                         retryQueue[s][i].attempts + 1, i)]
  /\ UNCHANGED <<engineVars, terminalVars, connectorVars, poll, retryQueue, faultVars>>

\* POST /api/connectors/execution-result reaches the backend.
PostArrives(s) ==
  /\ ea[s].busy = "posting"
  /\ BeginRecording(s, ea[s].result, ea[s].attempt)
  /\ beating' = [beating EXCEPT ![s] = TRUE]
  /\ ea' = [ea EXCEPT ![s].busy = "awaiting"]
  /\ KeepRows
  /\ UNCHANGED <<trade, handler, job, slaveMode>>
  /\ UNCHANGED <<terminalVars, online, poll, retryQueue, faultVars>>

BeingRecorded(s) ==
  \E r \in recording : r.copy = ea[s].result.copy /\ r.delivery = ea[s].attempt

\* 200, also when handleSlaveMessage threw: its error is only logged.
PostAnswered(s) ==
  /\ ea[s].busy = "awaiting" /\ ~BeingRecorded(s)
  /\ retryQueue' = IF ea[s].from = 0 THEN retryQueue
                    ELSE [retryQueue EXCEPT ![s] = Delivered(@, ea[s].from)]
  /\ ea' = [ea EXCEPT ![s] = IdleEA]
  /\ UNCHANGED <<engineVars, terminalVars, connectorVars, poll, faultVars>>

\* Mutant: the first failure is not queued for a retry.
PostForgotten(s) ==
  retryQueue' = [retryQueue EXCEPT ![s] =
                   IF ea[s].from = 0 THEN @ ELSE FailedAgain(@, ea[s].from)]

PostFailed(s) ==
  retryQueue' = [retryQueue EXCEPT ![s] =
                   IF ea[s].from = 0 THEN Enqueue(@, ea[s].result)
                   ELSE FailedAgain(@, ea[s].from)]

(***************************************************************************)
(* Faults.                                                                 *)
(***************************************************************************)
Timeout == timeouts < MaxTimeouts /\ timeouts' = timeouts + 1 /\ UNCHANGED faults
Fault == faults < MaxFaults /\ faults' = faults + 1 /\ UNCHANGED timeouts

\* A request fails: refused, lost, answered too late or with an error status.
PollTimesOut(s) ==
  /\ Timeout /\ ea[s].busy = "polling"
  /\ ea' = [ea EXCEPT ![s] = IdleEA]
  /\ UNCHANGED <<engineVars, terminalVars, connectorVars, poll, retryQueue>>

PostTimesOut(s) ==
  /\ Timeout /\ ea[s].busy \in {"posting", "awaiting"}
  /\ PostFailed(s)
  /\ ea' = [ea EXCEPT ![s] = IdleEA]
  /\ UNCHANGED <<engineVars, terminalVars, connectorVars, poll>>

\* A database call of a poll handler is rejected: the EA is answered 500.
PollThrows(s, k) ==
  /\ Fault /\ poll[s][k].pc \in {"find", "lookup", "fail", "mark"}
  /\ PollEnds(s, k) /\ Answer(s, k, IdleEA)
  /\ UNCHANGED <<engineVars, terminalVars, connectorVars, retryQueue>>

\* The terminal or the EA stops; the retry queue is only in memory.
EAStops(s) ==
  /\ Fault /\ ea[s].busy # "down"
  /\ ea' = [ea EXCEPT ![s] = DownEA]
  /\ retryQueue' = [retryQueue EXCEPT ![s] = <<>>]
  /\ UNCHANGED <<engineVars, terminalVars, connectorVars, poll>>

EAStarts(s) ==
  /\ ea[s].busy = "down"
  /\ ea' = [ea EXCEPT ![s] = IdleEA]
  /\ UNCHANGED <<engineVars, terminalVars, connectorVars, poll, retryQueue, faultVars>>

\* The backend restarts: its handlers are gone, and every EA that waits for
\* an answer is refused.
Crash ==
  /\ Fault
  /\ BackendCrash
  /\ beating' = [s \in Slaves |-> FALSE]
  /\ poll' = [s \in Slaves |-> [k \in Slots |-> FreePoll]]
  /\ ea' = [s \in Slaves |->
              CASE ea[s].busy = "polling" -> IdleEA
                [] ea[s].busy \in {"posting", "awaiting"} -> [ea[s] EXCEPT !.busy = "refused"]
                [] OTHER -> ea[s]]
  /\ UNCHANGED <<terminalVars, online, retryQueue>>

PostRefused(s) ==
  /\ ea[s].busy = "refused"
  /\ PostFailed(s)
  /\ ea' = [ea EXCEPT ![s] = IdleEA]
  /\ UNCHANGED <<engineVars, terminalVars, connectorVars, poll, faultVars>>

CallThrows ==
  /\ Fault
  /\ EngineCallFails
  /\ UNCHANGED <<terminalVars, connectorVars, poll, eaVars>>

(***************************************************************************)
(* The system.                                                             *)
(***************************************************************************)
EngineAlone == UNCHANGED <<terminalVars, connectorVars, poll, eaVars, faultVars>>

PollStep(s, k) ==
  \/ FindPending(s, k) \/ LookupTicket(s, k) \/ FailPending(s, k)
  \/ MarkPolled(s, k) \/ ReplyInstruction(s, k)

EAStep(s) ==
  Execute(s) \/ PostArrives(s) \/ PostAnswered(s) \/ PostRefused(s) \/ EAStarts(s)

PositionLost ==
  /\ \E t \in positions : BrokerCloses(t)
  /\ UNCHANGED <<engineVars, connectorVars, poll, eaVars, faultVars>>

JobStep(c) == ((GatherStep(c) \/ WriteStep(c)) /\ EngineAlone) \/ CheckOnline(c)

RecordingOfCopy(c) == \E r \in recording : r.copy = c /\ RecordResult(r)

Next ==
  \/ EngineStep /\ EngineAlone
  \/ \E c \in Copies : CheckOnline(c)
  \/ \E s \in Slaves : RecordHeartbeat(s) \/ SweepOffline(s)
  \/ \E s \in Slaves, k \in Slots : StartPoll(s, k) \/ PollStep(s, k)
  \/ \E s \in Slaves : EAStep(s) \/ RetryPost(s)
  \/ PositionLost
  \/ \E s \in Slaves, k \in Slots : PollThrows(s, k)
  \/ \E s \in Slaves : PollTimesOut(s) \/ PostTimesOut(s) \/ EAStops(s)
  \/ Crash
  \/ CallThrows

Spec == Init /\ [][Next]_vars

(***************************************************************************)
(* Node.js answers every pending call; the EA's timer keeps firing, and    *)
(* since a tick serves the retry queue and then polls, neither shuts the   *)
(* other out.                                                              *)
(***************************************************************************)
Fairness ==
  /\ \A e \in Events : WF_vars(HandlerStep(e) /\ EngineAlone)
  /\ \A c \in Copies :
       /\ WF_vars(JobStep(c))
       /\ WF_vars(RecordingOfCopy(c) /\ EngineAlone)
  /\ \A s \in Slaves :
       /\ WF_vars(EAStep(s))
       /\ SF_vars(\E k \in Slots : StartPoll(s, k))
       /\ SF_vars(RetryPost(s))
       /\ \A k \in Slots : WF_vars(PollStep(s, k))

FairSpec == Spec /\ Fairness

(***************************************************************************)
(* Properties.                                                             *)
(***************************************************************************)

\* As over the socket: a row that says EXECUTED names the position the
\* terminal did open, close or modify, also when results are posted again,
\* polls overlap and writes land late.
ExecutedIsReal ==
  \A c \in Copies : orders[c].status = "EXECUTED" =>
    /\ actedOn[c] # NoTicket
    /\ orders[c].slaveTicket = actedOn[c]

\* The ticket is looked up a second time when a poll picks the row up; it
\* still is a position that an OPEN copy of the same Master position opened,
\* not the one that was copied from another.
TradeIdentity ==
  \A c \in Copies : actedOn[c] # NoTicket => MayActOn(c, actedOn[c])

\* Overlapping poll handlers may both pick up a row, but no instruction is
\* run twice: the EA reads one answer at a time and a row never becomes
\* PENDING again.
AtMostOnce == \A c \in Copies : attempts[c] <= 1

\* What a risk limit refused is never handed to a poll.
RiskRefusalIsFinal ==
  \A c \in Copies : attempts[c] > 0 =>
    Exists(orders, c) /\ orders[c].errorReason # "RISK"

\* A ticket once recorded is never lost to a repeated result or a late write.
TicketKept ==
  [][\A c \in Copies : orders[c].slaveTicket # NoTicket =>
       orders'[c].slaveTicket = orders[c].slaveTicket]_vars

\* No PENDING row waits for ever: neither lost answers nor a CLOSE that has lost
\* its ticket at the head of the line stop the queue.  A row that a poll marked
\* SENT has left the line, also when nobody reads the answer.  (Checked without
\* restarts.)
PendingIsPickedUp ==
  \A c \in Copies : orders[c].status = "PENDING" ~> orders[c].status # "PENDING"

\* However many posts fail on their way (fewer than the EA gives up after),
\* the result of everything a running EA executed reaches the table, where
\* the SENT of a poll handler that is late may still overwrite it.
FirstPosted(c) ==
  \E s \in Slaves : ea[s].busy = "posting" /\ ea[s].result.copy = c /\ ea[s].attempt = 1

OutcomeIsRecorded ==
  \A c \in Copies : FirstPosted(c) ~> orders[c].status \in {"EXECUTED", "FAILED"}
=============================================================================
