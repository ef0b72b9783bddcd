----------------------------- MODULE CopyOrders -----------------------------
(***************************************************************************)
(* The copy_orders table and the queries every part of the backend asks of *)
(* it (backend/src/db/prisma/schema.prisma, copyOrderQueries.ts).          *)
(*                                                                         *)
(* A row belongs to one (trade event, slave) pair, which the schema makes  *)
(* unique, so the pair stands for the row's generated id.  The ticket a    *)
(* terminal gives a position is named by the OPEN copy that opened it:     *)
(* tickets are unique, and nothing looks inside one.                       *)
(***************************************************************************)
EXTENDS Naturals

CONSTANTS
  Slaves,         \* Slave accounts assigned to the Master
  Events,         \* trade events the Master's terminal produces
  MasterTickets,  \* position tickets on the Master's terminal
  TypeOf,         \* the type of each event
  TicketOf,       \* the Master position each event is about
  NoTicket        \* an absent slaveTicket (null)

TradeEventTypes == {"OPEN", "CLOSE", "MODIFY", "PARTIAL_CLOSE",
                    "PENDING_OPEN", "PENDING_MODIFY", "PENDING_CANCEL"}

Copies == Events \X Slaves
Tickets == Copies \cup {NoTicket}

ASSUME CopyOrdersAssumption ==
  /\ TypeOf \in [Events -> TradeEventTypes]
  /\ TicketOf \in [Events -> MasterTickets]
  /\ NoTicket \notin Copies

SlaveOf(c) == c[2]
TypeOfCopy(c) == TypeOf[c[1]]
MasterTicketOf(c) == TicketOf[c[1]]

(***************************************************************************)
(* Rows.  "ABSENT" marks a pair that has no row yet; REJECTED exists in    *)
(* the schema but no code writes it.  errorReason keeps which of the four  *)
(* refusals wrote it, or that a Slave reported it.                         *)
(***************************************************************************)
Statuses == {"ABSENT", "PENDING", "SENT", "EXECUTED", "FAILED"}
Reasons == {"NONE", "NO_MATCHING_OPEN_COPY", "RISK", "SLAVE_OFFLINE", "REPORTED"}

Row == [status : Statuses, slaveTicket : Tickets, errorReason : Reasons,
        createdAt : Nat]

AbsentRow == [status |-> "ABSENT", slaveTicket |-> NoTicket,
              errorReason |-> "NONE", createdAt |-> 0]

NewRow(status, reason, at) ==
  [status |-> status, slaveTicket |-> NoTicket, errorReason |-> reason,
   createdAt |-> at]

Exists(table, c) == table[c].status # "ABSENT"

(***************************************************************************)
(* Queries.                                                                *)
(***************************************************************************)
ExecutedOf(table, s, type) ==
  {c \in Copies : /\ SlaveOf(c) = s
                  /\ TypeOfCopy(c) = type
                  /\ table[c].status = "EXECUTED"}

ExecutedOpens(table, s) == ExecutedOf(table, s, "OPEN")

ClosedTickets(table, s) ==
  {MasterTicketOf(c) : c \in ExecutedOf(table, s, "CLOSE")}

\* Open positions as the system sees them: the filter getCopyOrderPositions
\* applies to the two result sets it fetched.
StillOpen(opens, closedTickets) ==
  {c \in opens : MasterTicketOf(c) \notin closedTickets}

\* Mutant: the query does not ask for one master ticket.
AnyExecutedOpen(table, s, m) == ExecutedOpens(table, s)

\* Rows to which a CLOSE or MODIFY of master ticket m may apply.
CandidateOpens(table, s, m) ==
  {c \in ExecutedOpens(table, s) : MasterTicketOf(c) = m}

Latest(table, rows) ==
  CHOOSE c \in rows : \A d \in rows : table[d].createdAt <= table[c].createdAt

FindExecutedOpenSlaveTicket(table, s, m) ==
  LET rows == CandidateOpens(table, s, m)
  IN  IF rows = {} THEN NoTicket ELSE table[Latest(table, rows)].slaveTicket
=============================================================================
