--------------------------- MODULE Reconciliation ---------------------------
(***************************************************************************)
(* Reconciliation of one Master and one of its Slaves                      *)
(* (reconciliation.service.ts, reconciliationEngine.ts): the positions     *)
(* both connectors last reported in a heartbeat are compared with the      *)
(* EXECUTED rows of copy_orders, and the pair's findings are replaced.     *)
(* The interval and the admin's POST /api/reconciliation/run may have runs *)
(* under way at the same time, while trading, copying and heartbeats go    *)
(* on.                                                                     *)
(***************************************************************************)
EXTENDS Naturals, FiniteSets

CONSTANTS
  MasterTickets,
  Strays,      \* tickets of Slave positions that no copy opened
  NoTicket,    \* nothing, where a ticket or the id of a copy is optional
  Levels,      \* stop-loss and take-profit, where they differ beyond tolerance
  Runs,        \* the runs that may be under way at the same time
  MaxChanges   \* bound on what the Master, people and brokers do

ASSUME ReconciliationAssumption ==
  /\ NoTicket \notin MasterTickets \cup Strays
  /\ MasterTickets \cap Strays = {}
  /\ MaxChanges \in Nat

\* An OPEN copy, and the position it opened, go by the Master's ticket.
SlaveTickets == MasterTickets \cup Strays
Accounts == {"master", "slave"}

\* A Slave position: `copy` is what its comment "copy:<copyId>" says.
Position == [ticket : SlaveTickets, copy : MasterTickets \cup {NoTicket},
             level : Levels, volume : {"requested", "other"}]

\* A row of copy_orders with the SL/TP of its trade event; `at` is createdAt.
CopyRow == [type : {"OPEN", "MODIFY", "CLOSE"}, ticket : MasterTickets,
            level : Levels, at : Nat]

FindingTypes == {"MISSING_COPY", "SLAVE_POSITION_MISSING", "VOLUME_MISMATCH",
                 "SLTP_MISMATCH", "SLAVE_NOT_CLOSED", "UNEXPECTED_SLAVE_POSITION",
                 "DUPLICATE_SLAVE_POSITION"}

Finding == [type : FindingTypes, masterTicket : MasterTickets \cup {NoTicket},
            slaveTicket : SlaveTickets \cup {NoTicket}]

VARIABLES
  master,    \* tickets open on the Master
  slave,     \* positions open on the Slave
  sent,      \* rows whose instruction may be carried out, now, later or never
  carried,   \* rows carried out whose result is not recorded yet, or lost
  executed,  \* the EXECUTED rows of copy_orders
  snapshot,  \* per account, the positionSnapshot column
  fresh,     \* per account, positionSnapshotAt is within the staleness limit
  run,       \* control state and locals of each runReconciliation
  findings,  \* reconciliation_findings; two equal rows count as one
  changes    \* changes so far

worldVars == <<master, slave, sent, carried, executed>>
beatVars == <<snapshot, fresh>>
reconVars == <<run, findings>>
vars == <<worldVars, beatVars, reconVars, changes>>

\* `read` are the queries answered so far; `expected` maps the open copies
\* looked up so far to their SL/TP.
Run == [pc : {"idle", "read", "create"},
        master : SUBSET MasterTickets, slave : SUBSET Position,
        read : SUBSET {"opens", "closes"},
        opens : SUBSET MasterTickets, closed : SUBSET MasterTickets,
        expected : UNION {[ms -> Levels] : ms \in SUBSET MasterTickets},
        found : SUBSET Finding]

NoMap == [m \in {} |-> NoTicket]

IdleRun == [pc |-> "idle", master |-> {}, slave |-> {}, read |-> {}, opens |-> {},
            closed |-> {}, expected |-> NoMap, found |-> {}]

TypeOK ==
  /\ master \subseteq MasterTickets
  /\ slave \subseteq Position
  /\ sent \subseteq CopyRow /\ carried \subseteq CopyRow /\ executed \subseteq CopyRow
  /\ snapshot["master"] \subseteq MasterTickets
  /\ snapshot["slave"] \subseteq Position
  /\ fresh \in [Accounts -> BOOLEAN]
  /\ run \in [Runs -> Run]
  /\ findings \subseteq Finding
  /\ changes \in Nat

\* Both accounts have been reported, and are empty.
Init ==
  /\ master = {} /\ slave = {}
  /\ sent = {} /\ carried = {} /\ executed = {}
  /\ snapshot = [a \in Accounts |-> {}]
  /\ fresh = [a \in Accounts |-> TRUE]
  /\ run = [r \in Runs |-> IdleRun]
  /\ findings = {}
  /\ changes = 0

(***************************************************************************)
(* The world: the Master trades, the Copy Engine copies or does not, and   *)
(* the Slave's account is also touched by people and by its broker.        *)
(***************************************************************************)
Change == changes < MaxChanges /\ changes' = changes + 1

\* The level a position is opened with, and one that nothing looks at.
AnyLevel == CHOOSE l \in Levels : TRUE

CopyNext(type, m, l) ==
  sent' = sent \cup {[type |-> type, ticket |-> m, level |-> l, at |-> changes + 1]}

MasterOpens(m) ==
  /\ Change /\ m \notin master
  /\ \A row \in sent \cup carried \cup executed : row.ticket # m
  /\ master' = master \cup {m}
  /\ CopyNext("OPEN", m, AnyLevel)
  /\ UNCHANGED <<slave, carried, executed, beatVars, reconVars>>

MasterModifies(m, l) ==
  /\ Change /\ m \in master
  /\ CopyNext("MODIFY", m, l)
  /\ UNCHANGED <<master, slave, carried, executed, beatVars, reconVars>>

MasterCloses(m) ==
  /\ Change /\ m \in master
  /\ master' = master \ {m}
  /\ CopyNext("CLOSE", m, AnyLevel)
  /\ UNCHANGED <<slave, carried, executed, beatVars, reconVars>>

Copied(m) == \E row \in executed : row.type = "OPEN" /\ row.ticket = m

\* What the terminal's positions become when a row is carried out.
After(row) ==
  CASE row.type = "OPEN" ->
         slave \cup {[ticket |-> row.ticket, copy |-> row.ticket, level |-> row.level,
                      volume |-> "requested"]}
    [] row.type = "CLOSE" -> {p \in slave : p.ticket # row.ticket}
    [] row.type = "MODIFY" ->
         {IF p.ticket = row.ticket THEN [p EXCEPT !.level = row.level] ELSE p : p \in slave}

CarryOut(row) ==
  /\ row \in sent
  /\ row.type # "OPEN" =>
       Copied(row.ticket) /\ \E p \in slave : p.ticket = row.ticket
  /\ slave' = After(row)
  /\ sent' = sent \ {row} /\ carried' = carried \cup {row}
  /\ UNCHANGED <<master, executed, beatVars, reconVars, changes>>

Record(row) ==
  /\ row \in carried
  /\ carried' = carried \ {row} /\ executed' = executed \cup {row}
  /\ UNCHANGED <<master, slave, sent, beatVars, reconVars, changes>>

SlaveAccountTouched ==
  /\ Change
  /\ \/ \E p \in slave : slave' = slave \ {p}
     \/ \E p \in slave : \E l \in Levels \ {p.level} :
          slave' = (slave \ {p}) \cup {[p EXCEPT !.level = l]}
     \/ \E p \in slave : slave' = (slave \ {p}) \cup {[p EXCEPT !.volume = "other"]}
     \/ \E x \in Strays, c \in MasterTickets \cup {NoTicket} :
          /\ \A p \in slave : p.ticket # x
          /\ slave' = slave \cup
               {[ticket |-> x, copy |-> c, level |-> AnyLevel, volume |-> "requested"]}
  /\ UNCHANGED <<master, sent, carried, executed, beatVars, reconVars>>

(***************************************************************************)
(* Heartbeats: a report is older than what it is compared with, and a      *)
(* silent connector's grows stale.                                         *)
(***************************************************************************)
BuildPositions(a) == IF a = "master" THEN master ELSE slave

RecordHeartbeat(a) ==
  /\ snapshot' = [snapshot EXCEPT ![a] = BuildPositions(a)]
  /\ fresh' = [fresh EXCEPT ![a] = TRUE]
  /\ UNCHANGED <<worldVars, reconVars, changes>>

GrowsStale(a) ==
  /\ Change /\ fresh[a]
  /\ fresh' = [fresh EXCEPT ![a] = FALSE]
  /\ UNCHANGED <<worldVars, snapshot, reconVars>>

(***************************************************************************)
(* compareState, on the inputs a run has gathered: the union of what its   *)
(* loops push.                                                             *)
(***************************************************************************)
FindingOf(type, m, t) == [type |-> type, masterTicket |-> m, slaveTicket |-> t]

OpenCopies(r) == run[r].opens \ run[r].closed

TicketsOf(ps) == {p.ticket : p \in ps}

MissingCopies(r) ==
  {FindingOf("MISSING_COPY", m, NoTicket) :
     m \in run[r].master \ (OpenCopies(r) \cup run[r].closed)}

MissingPositions(r) ==
  {FindingOf("SLAVE_POSITION_MISSING", m, m) : m \in OpenCopies(r) \ TicketsOf(run[r].slave)}

VolumeMismatches(r) ==
  {FindingOf("VOLUME_MISMATCH", p.ticket, p.ticket) :
     p \in {q \in run[r].slave : q.ticket \in OpenCopies(r) /\ q.volume # "requested"}}

SlTpMismatches(r) ==
  {FindingOf("SLTP_MISMATCH", p.ticket, p.ticket) :
     p \in {q \in run[r].slave : /\ q.ticket \in OpenCopies(r)
                                 /\ q.level # run[r].expected[q.ticket]}}

NotClosed(r) ==
  {FindingOf("SLAVE_NOT_CLOSED", m, m) : m \in run[r].closed \cap TicketsOf(run[r].slave)}

\* Mutant: a position without a copy's comment is passed over.
UnexpectedTagged(r) ==
  {FindingOf("UNEXPECTED_SLAVE_POSITION", NoTicket, p.ticket) :
     p \in {q \in run[r].slave : q.copy \notin OpenCopies(r) \cup {NoTicket}}}

Unexpected(r) ==
  {FindingOf("UNEXPECTED_SLAVE_POSITION", NoTicket, p.ticket) :
     p \in {q \in run[r].slave : q.copy \notin OpenCopies(r)}}

Duplicates(r) ==
  {FindingOf("DUPLICATE_SLAVE_POSITION", NoTicket, p.ticket) :
     p \in {q \in run[r].slave : /\ q.copy \in OpenCopies(r)
                                 /\ \E o \in run[r].slave \ {q} : o.copy = q.copy}}

CompareState(r) ==
  MissingCopies(r) \cup MissingPositions(r) \cup VolumeMismatches(r)
    \cup SlTpMismatches(r) \cup NotClosed(r) \cup Unexpected(r) \cup Duplicates(r)

(***************************************************************************)
(* runReconciliation.                                                      *)
(***************************************************************************)
RunOnly == UNCHANGED <<worldVars, beatVars, findings, changes>>

\* One query reads the pair's snapshots; a stale one ends it.
StartRun(r) ==
  /\ run[r].pc = "idle"
  /\ fresh["master"] /\ fresh["slave"]
  /\ run' = [run EXCEPT ![r] = [IdleRun EXCEPT !.pc = "read",
               !.master = snapshot["master"], !.slave = snapshot["slave"]]]
  /\ RunOnly

\* getCopyOrderPositions: two queries issued together.
ReadOpens(r) ==
  /\ run[r].pc = "read" /\ "opens" \notin run[r].read
  /\ run' = [run EXCEPT ![r].read = @ \cup {"opens"},
               ![r].opens = {row.ticket : row \in {x \in executed : x.type = "OPEN"}}]
  /\ RunOnly

ReadCloses(r) ==
  /\ run[r].pc = "read" /\ "closes" \notin run[r].read
  /\ run' = [run EXCEPT ![r].read = @ \cup {"closes"},
               ![r].closed = {row.ticket : row \in {x \in executed : x.type = "CLOSE"}}]
  /\ RunOnly

RowsRead(r) == run[r].pc = "read" /\ run[r].read = {"opens", "closes"}

\* getExpectedSlTp.
ExpectedLevel(m) ==
  LET rows == {row \in executed : row.ticket = m /\ row.type \in {"OPEN", "MODIFY"}}
  IN  (CHOOSE row \in rows : \A other \in rows : other.at <= row.at).level

ReadExpected(r) ==
  /\ RowsRead(r)
  /\ \E m \in OpenCopies(r) \ DOMAIN run[r].expected :
       run' = [run EXCEPT ![r].expected =
                 [x \in DOMAIN @ \cup {m} |-> IF x = m THEN ExpectedLevel(m) ELSE @[x]]]
  /\ RunOnly

AllRead(r) == RowsRead(r) /\ OpenCopies(r) = DOMAIN run[r].expected

\* createMany follows if there is anything to create.
GoOnWith(r, found) ==
  run' = [run EXCEPT ![r] = IF found = {} THEN IdleRun
                            ELSE [IdleRun EXCEPT !.pc = "create", !.found = found]]

\* Mutant: findings are only replaced by new ones.
DeleteIfAny(r) ==
  /\ AllRead(r)
  /\ findings' = IF CompareState(r) = {} THEN findings ELSE {}
  /\ GoOnWith(r, CompareState(r))
  /\ UNCHANGED <<worldVars, beatVars, changes>>

\* compareState runs on what was read, then deleteMany is awaited.
DeleteFindings(r) ==
  /\ AllRead(r)
  /\ findings' = {}
  /\ GoOnWith(r, CompareState(r))
  /\ UNCHANGED <<worldVars, beatVars, changes>>

CreateFindings(r) ==
  /\ run[r].pc = "create"
  /\ findings' = findings \cup run[r].found
  /\ run' = [run EXCEPT ![r] = IdleRun]
  /\ UNCHANGED <<worldVars, beatVars, changes>>

\* A query fails: the run is over, and what it had not replaced stays.
RunThrows(r) ==
  /\ Change /\ run[r].pc # "idle"
  /\ run' = [run EXCEPT ![r] = IdleRun]
  /\ UNCHANGED <<worldVars, beatVars, findings>>

(***************************************************************************)
(* The system.                                                             *)
(***************************************************************************)
RunStep(r) ==
  \/ ReadOpens(r) \/ ReadCloses(r) \/ ReadExpected(r)
  \/ DeleteFindings(r) \/ CreateFindings(r)

CopyStep(row) == CarryOut(row) \/ Record(row)

Next ==
  \/ \E m \in MasterTickets : MasterOpens(m) \/ MasterCloses(m)
  \/ \E m \in MasterTickets, l \in Levels : MasterModifies(m, l)
  \/ \E row \in sent \cup carried : CopyStep(row)
  \/ SlaveAccountTouched
  \/ \E a \in Accounts : RecordHeartbeat(a) \/ GrowsStale(a)
  \/ \E r \in Runs : StartRun(r) \/ RunStep(r) \/ RunThrows(r)

Spec == Init /\ [][Next]_vars

\* Connectors keep reporting and their reports are written, the interval (or
\* the admin) keeps starting runs, and Node.js answers their queries.  Nobody
\* has to trade, and no copy has to be carried out or recorded.
Fairness ==
  /\ \A a \in Accounts : WF_vars(RecordHeartbeat(a))
  /\ WF_vars(\E r \in Runs : StartRun(r))
  /\ \A r \in Runs : WF_vars(RunStep(r))

FairSpec == Spec /\ Fairness

(***************************************************************************)
(* Properties.                                                             *)
(***************************************************************************)
OpenOnSystem ==
  {m \in MasterTickets : Copied(m) /\ \A row \in executed : row.ticket = m => row.type # "CLOSE"}

\* The position has the SL/TP that an executed OPEN or MODIFY gave it and no
\* later one has changed.
AsOrdered(p) ==
  \E row \in executed :
    /\ row.type # "CLOSE" /\ row.ticket = p.ticket /\ row.level = p.level
    /\ \A later \in executed :
         later.ticket = p.ticket /\ later.at > row.at => later.type = "CLOSE"

\* The accounts and the table agree: every Master position was copied, and the
\* Slave's positions are the open copies, one each, and as they were ordered.
InSync ==
  /\ \A m \in master : Copied(m)
  /\ {<<p.ticket, p.copy>> : p \in slave} = {<<m, m>> : m \in OpenOnSystem}
  /\ \A p \in slave : p.volume = "requested" /\ AsOrdered(p)

\* Once trading pauses, runs keep finding something exactly when the accounts
\* and the table disagree: the seven checks of compareState leave no gap
\* between them, and stale or reordered reports and overlapping runs do not
\* hide a difference for good.
AlarmIffDrift == []<>(findings = {} <=> InSync)

\* And what a run found by comparing things read at different times, or left
\* behind when it failed, does not stay once all is in order.
NoLastingFalseAlarm == <>[](InSync => findings = {})
=============================================================================
