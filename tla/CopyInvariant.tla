----------------------------- MODULE CopyInvariant -----------------------------
(***************************************************************************)
(* The part of the inductive invariants of PushCopy and PollCopy that does *)
(* not depend on the transport: rows and jobs come in order, and whatever  *)
(* is said of a copy is true of its position in the terminal.              *)
(***************************************************************************)
EXTENDS CopyEngine, Terminal

\* copyToSlave has not begun before handleMasterEvent fans out, and a row
\* appears with its create.
JobsInOrder ==
  \A c \in Copies :
    /\ handler[c[1]] \in {"unpublished", "lookup", "retry", "fanout"} => job[c].pc = "idle"
    /\ job[c].pc \in {"idle", "gather", "reject", "create"} => ~Exists(orders, c)

\* A ticket the instruction for copy c may carry.
Entitled(c, t) == TypeOfCopy(c) = "OPEN" \/ (t \in Copies /\ MayActOn(c, t))

\* What was acted on was run, on a position the copy may act on.
ActedOnEntitled ==
  \A c \in Copies : actedOn[c] # NoTicket => attempts[c] > 0 /\ MayActOn(c, actedOn[c])

\* A report, wherever it is, is about a copy that was run, names no position
\* but the one acted on, and claims EXECUTED only with a position.
Honest(r) ==
  /\ attempts[r.copy] > 0
  /\ r.slaveTicket # NoTicket => r.slaveTicket = actedOn[r.copy]
  /\ r.status = "EXECUTED" => r.slaveTicket # NoTicket

RecordingsHonest == \A r \in recording : Honest(r)

\* And so is the table.
RowsHonest ==
  \A c \in Copies :
    /\ orders[c].slaveTicket # NoTicket => orders[c].slaveTicket = actedOn[c]
    /\ orders[c].status = "EXECUTED" => orders[c].slaveTicket # NoTicket
=============================================================================
