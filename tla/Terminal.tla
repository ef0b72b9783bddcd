------------------------------ MODULE Terminal ------------------------------
(***************************************************************************)
(* The Slave's MetaTrader terminal and broker, as the two executors drive  *)
(* it: execute_open/close/modify in connectors/slave-service/main.py and   *)
(* ExecuteOpen/Close/Modify in ForexCopySlaveEA.mq4, which mirror each     *)
(* other.  The broker decides; the executor reports what the call          *)
(* returned.                                                               *)
(*                                                                         *)
(* actedOn and attempts are history: what each copy really did, for the    *)
(* properties to compare with what the table says.                         *)
(***************************************************************************)
EXTENDS CopyOrders

VARIABLES
  positions,  \* tickets open on the terminals (of all Slaves)
  actedOn,    \* the position each copy opened, closed or modified
  attempts    \* how often an executor was run for each copy

terminalVars == <<positions, actedOn, attempts>>

TerminalTypeOK ==
  /\ positions \subseteq Copies
  /\ actedOn \in [Copies -> Tickets]
  /\ attempts \in [Copies -> Nat]

TerminalInit ==
  /\ positions = {}
  /\ actedOn = [c \in Copies |-> NoTicket]
  /\ attempts = [c \in Copies |-> 0]

Instruction == [copy : Copies, slaveTicket : Tickets]
Result == [copy : Copies, status : {"EXECUTED", "FAILED"}, slaveTicket : Tickets]

Success(c, t) == [copy |-> c, status |-> "EXECUTED", slaveTicket |-> t]
Failure(c) == [copy |-> c, status |-> "FAILED", slaveTicket |-> NoTicket]

\* The broker carried the instruction out.  An OPEN creates the position the
\* copy names; a CLOSE ends the position whose ticket it carries.
Carried(i, t) ==
  /\ actedOn' = [actedOn EXCEPT ![i.copy] = t]
  /\ positions' = CASE TypeOfCopy(i.copy) = "OPEN" -> positions \cup {t}
                    [] TypeOfCopy(i.copy) = "CLOSE" -> positions \ {t}
                    [] OTHER -> positions

\* The ticket an executor works on: its own for an OPEN, and for the others
\* the one in the instruction, provided the terminal still has that position.
Reachable(i) == TypeOfCopy(i.copy) = "OPEN" \/ i.slaveTicket \in positions

Target(i) == IF TypeOfCopy(i.copy) = "OPEN" THEN i.copy ELSE i.slaveTicket

Filled(i, r) ==
  /\ Reachable(i)
  /\ Carried(i, Target(i))
  /\ r = Success(i.copy, Target(i))

\* Mutant: the return code of the broker is not looked at.
RefusalUnnoticed(i, r) ==
  /\ r = Success(i.copy, Target(i))
  /\ UNCHANGED <<positions, actedOn>>

\* Symbol or tick unavailable, no such position, or the broker refused.
Refused(i, r) ==
  /\ r = Failure(i.copy)
  /\ UNCHANGED <<positions, actedOn>>

\* The broker acted, but the call's return code was not DONE (a partial fill,
\* a timeout), so the executor takes the failure path.
Unconfirmed(i, r) ==
  /\ Reachable(i)
  /\ Carried(i, Target(i))
  /\ r = Failure(i.copy)

\* One executor call: instruction i answered by result r.
ExecuteInstruction(i, r) ==
  /\ attempts' = [attempts EXCEPT ![i.copy] = @ + 1]
  /\ \/ Filled(i, r)
     \/ Refused(i, r)
     \/ Unconfirmed(i, r)

\* The positions copy c is entitled to act on: for a CLOSE or MODIFY, those an
\* OPEN copy of the same Master position opened for the same Slave.
MayActOn(c, t) ==
  /\ SlaveOf(t) = SlaveOf(c)
  /\ MasterTicketOf(t) = MasterTicketOf(c)
  /\ TypeOfCopy(t) = "OPEN"

\* Stop-loss, take-profit, stop-out or a manual close ends a position without
\* any copy.
BrokerCloses(t) ==
  /\ t \in positions
  /\ positions' = positions \ {t}
  /\ UNCHANGED <<actedOn, attempts>>
=============================================================================
