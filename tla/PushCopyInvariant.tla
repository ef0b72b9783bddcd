------------------------- MODULE PushCopyInvariant -------------------------
(***************************************************************************)
(* Why PushCopy is safe: an inductive invariant.  A copy goes through      *)
(* three stages, each of which excludes the others, and the invariant says *)
(* what the job, the row, the socket and the terminal know in each:        *)
(* decided (nothing has left), in flight (exactly one frame or executing   *)
(* service holds it) and run (attempts = 1, it never flies again).         *)
(***************************************************************************)
EXTENDS PushCopy, CopyInvariant

FramesOf(s) == {toSlave[s][n].copy : n \in DOMAIN toSlave[s]}

\* The instruction of copy c is on the socket or being executed.
InFlight(c) ==
  \/ c \in FramesOf(SlaveOf(c))
  \/ service[SlaveOf(c)].instruction.copy = c

\* Before the send, nothing is on the way to the terminal.
UnsentIsUnrun ==
  \A c \in Copies :
    job[c].pc \in {"idle", "gather", "reject", "create", "dispatch", "markOffline"}
      => attempts[c] = 0 /\ ~InFlight(c)

\* What is sent, or may be, has a row that no refusal has written.
SentHasRow ==
  \A c \in Copies :
    \/ attempts[c] > 0
    \/ InFlight(c)
    \/ job[c].pc \in {"dispatch", "markSent", "markOffline"}
    => Exists(orders, c) /\ orders[c].errorReason \in {"NONE", "REPORTED"}

\* A copy in flight is there once, at its own Slave, and has not been run.
FliesOnce ==
  /\ \A c \in Copies : attempts[c] <= 1 /\ (InFlight(c) => attempts[c] = 0)
  /\ \A s \in Slaves :
       /\ \A n \in DOMAIN toSlave[s] :
            /\ SlaveOf(toSlave[s][n].copy) = s
            /\ toSlave[s][n].copy # service[s].instruction.copy
       /\ \A m, n \in DOMAIN toSlave[s] :
            toSlave[s][m].copy = toSlave[s][n].copy => m = n

\* The service holds an instruction of its own Slave while it executes, and a
\* result while it reports.
ServiceConsistent ==
  \A s \in Slaves :
    /\ IF service[s].busy = "executing"
       THEN service[s].instruction \in Instruction /\ SlaveOf(service[s].instruction.copy) = s
       ELSE service[s].instruction = NoInstruction
    /\ service[s].busy = "reporting" => service[s].result \in Result

\* Every ticket on its way to a terminal is one the copy may act on.
JobsEntitled ==
  \A c \in Copies : job[c].pc \in {"create", "dispatch"} => Entitled(c, job[c].slaveTicket)

FramesEntitled ==
  \A s \in Slaves :
    /\ \A n \in DOMAIN toSlave[s] : Entitled(toSlave[s][n].copy, toSlave[s][n].slaveTicket)
    /\ service[s].busy = "executing" =>
         Entitled(service[s].instruction.copy, service[s].instruction.slaveTicket)

\* The reports on their way are honest.
ReportsHonest ==
  \A s \in Slaves :
    /\ service[s].busy = "reporting" => Honest(service[s].result)
    /\ \A n \in DOMAIN fromSlave[s] : Honest(fromSlave[s][n])

\* The inductive invariant: what the backend knows, and what the transport
\* and the terminal do.
EngineInv ==
  /\ JobsInOrder
  /\ UnsentIsUnrun
  /\ SentHasRow
  /\ JobsEntitled
  /\ RecordingsHonest
  /\ RowsHonest

TransportInv ==
  /\ FliesOnce
  /\ ServiceConsistent
  /\ FramesEntitled
  /\ ActedOnEntitled
  /\ ReportsHonest

IInv == TypeOK /\ EngineInv /\ TransportInv

(***************************************************************************)
(* Each run is reported at most once, and a report that is still on its    *)
(* way is about a copy whose outcome has not been recorded.                *)
(***************************************************************************)
Recorded(c) == orders[c].slaveTicket # NoTicket \/ orders[c].errorReason = "REPORTED"

ServiceReportsOnce ==
  \A s \in Slaves : service[s].busy = "reporting" =>
    /\ SlaveOf(service[s].result.copy) = s
    /\ ~Recorded(service[s].result.copy)
    /\ \A n \in DOMAIN fromSlave[s] : fromSlave[s][n].copy # service[s].result.copy
    /\ \A q \in recording : q.copy # service[s].result.copy

SocketReportsOnce ==
  \A s \in Slaves : \A n \in DOMAIN fromSlave[s] :
    /\ SlaveOf(fromSlave[s][n].copy) = s
    /\ ~Recorded(fromSlave[s][n].copy)
    /\ \A m \in DOMAIN fromSlave[s] : fromSlave[s][m].copy = fromSlave[s][n].copy => m = n
    /\ \A q \in recording : q.copy # fromSlave[s][n].copy

RecordingsOnce ==
  \A q \in recording :
    /\ ~Recorded(q.copy)
    /\ \A p \in recording : p.copy = q.copy => p = q

\* Only what was run is reported, and a FAILED row says why.
RowsExplained ==
  \A c \in Copies :
    /\ orders[c].errorReason = "REPORTED" => attempts[c] > 0
    /\ orders[c].status = "FAILED" => orders[c].errorReason # "NONE"

ReportsOnce == ServiceReportsOnce /\ SocketReportsOnce /\ RecordingsOnce

ReportedOnce == ReportsOnce /\ RowsExplained
=============================================================================
