----------------------------- MODULE RiskLimits -----------------------------
(***************************************************************************)
(* How a Slave's settings bind its OPENs: handleMasterEvent reads the      *)
(* Slave's row and the Master's account, copyToSlave counts what is on     *)
(* record as open, sizes the copy and checks the limits (copyEngine.ts),   *)
(* while the admin changes the settings, terminals act on instructions and *)
(* results of earlier copies come in, are lost, or are overwritten.        *)
(*                                                                         *)
(* The module is about one MT5 Slave: jobs of different Slaves share no    *)
(* limit.  An instruction is on its way or it is not, and is acted on at   *)
(* most once; CopyEngine and its transports have the rest of its life.     *)
(***************************************************************************)
EXTENDS Sizing, FiniteSets

CONSTANTS
  Trades,       \* Master positions; each has one OPEN event
  Closing,      \* those that the Master closes
  SymbolOf,
  VolumeOf,     \* the volume each has on the Master
  SettingsUsed, \* the settings the admin and the heartbeats give the Slave
  MastersUsed,  \* the Master's account as its heartbeats report it
  MaxChanges    \* bound on changes of either

ASSUME RiskLimitsAssumption ==
  /\ IsFiniteSet(Trades)
  /\ Closing \subseteq Trades
  /\ SymbolOf \in [Trades -> Symbols]
  /\ VolumeOf \in [Trades -> Nat]
  /\ SettingsUsed \subseteq Settings
  /\ MastersUsed \subseteq Account
  /\ MaxChanges \in Nat

VARIABLES
  slave,    \* the Slave's row
  master,   \* the Master's account
  job,      \* copyToSlave of each OPEN, and what it went by
  order,    \* the OPEN's row in copy_orders
  close,    \* the CLOSE's row, and whether its copyToSlave has yet to mark it
  terminal, \* each trade's position on the Slave, or the OPEN asked for
  results,  \* what the Slave reported and nobody has recorded
  changes   \* changes so far

vars == <<slave, master, job, order, close, terminal, results, changes>>

JobStates == {"idle", "account", "gather", "markSent", "markUnsent", "done"}

\* The last two fields are history: whose outcome was on record for good when
\* the OPEN arrived.  A job that is done keeps what it went by, for the
\* properties.
Job == [pc : JobStates, row : Settings \cup {Null}, account : Account \cup {Null},
        read : SUBSET {"opens", "closes"},
        opens : SUBSET Trades, closes : SUBSET Trades,
        before : SUBSET Trades, closedBefore : SUBSET Trades]

Order == [status : {"ABSENT", "PENDING", "SENT", "EXECUTED", "FAILED"},
          reason : {"NONE", "ENTRY", "SIZE", "EXPOSURE", "UNSENT", "REPORTED"},
          requestedVolume : Nat]

Close == [status : {"ABSENT", "PENDING", "SENT", "EXECUTED"}, marking : BOOLEAN]

\* What a position becomes of an OPEN, or that it was closed.
Result == [trade : Trades, is : {"opened", "failed", "closed"}]

Row(status, reason, volume) ==
  [status |-> status, reason |-> reason, requestedVolume |-> volume]

TypeOK ==
  /\ slave \in Settings
  /\ master \in Account
  /\ job \in [Trades -> Job]
  /\ order \in [Trades -> Order]
  /\ close \in [Trades -> Close]
  /\ terminal \in [Trades -> {"none", "asked", "open", "gone"}]
  /\ results \subseteq Result
  /\ changes \in Nat

Init ==
  /\ slave \in SettingsUsed
  /\ master \in MastersUsed
  /\ job = [t \in Trades |->
              [pc |-> "idle", row |-> Null, account |-> Null, read |-> {},
               opens |-> {}, closes |-> {}, before |-> {}, closedBefore |-> {}]]
  /\ order = [t \in Trades |-> Row("ABSENT", "NONE", 0)]
  /\ close = [t \in Trades |-> [status |-> "ABSENT", marking |-> FALSE]]
  /\ terminal = [t \in Trades |-> "none"]
  /\ results = {}
  /\ changes = 0

\* What getCopyOrderPositions finds.
Executed == {t \in Trades : order[t].status = "EXECUTED"}
Closed == {t \in Trades : close[t].status = "EXECUTED"}

\* ... and what it will find from now on: no write of SENT is outstanding.
SettledOpens == {t \in Executed : job[t].pc = "done"}
SettledCloses == {t \in Closed : ~close[t].marking}

(***************************************************************************)
(* handleMasterEvent: the row and the account come from two queries.       *)
(***************************************************************************)
FanOut(t) ==
  /\ job[t].pc = "idle"
  /\ job' = [job EXCEPT ![t].pc = "account", ![t].row = slave,
                        ![t].before = SettledOpens,
                        ![t].closedBefore = SettledCloses]
  /\ UNCHANGED <<slave, master, order, close, terminal, results, changes>>

ReadAccount(t) ==
  /\ job[t].pc = "account"
  /\ job' = [job EXCEPT ![t].pc = "gather", ![t].account = master]
  /\ UNCHANGED <<slave, master, order, close, terminal, results, changes>>

(***************************************************************************)
(* copyToSlave.  getCopyOrderPositions asks for both sets at once.         *)
(***************************************************************************)
\* Mutant: rows whose outcome is not known count as open.
ReadUnfailedOpens(t) ==
  /\ job[t].pc = "gather" /\ "opens" \notin job[t].read
  /\ job' = [job EXCEPT ![t].read = @ \cup {"opens"},
                        ![t].opens = {u \in Trades : order[u].status \notin {"ABSENT", "FAILED"}}]
  /\ UNCHANGED <<slave, master, order, close, terminal, results, changes>>

ReadOpens(t) ==
  /\ job[t].pc = "gather" /\ "opens" \notin job[t].read
  /\ job' = [job EXCEPT ![t].read = @ \cup {"opens"}, ![t].opens = Executed]
  /\ UNCHANGED <<slave, master, order, close, terminal, results, changes>>

\* Mutant: a CLOSE that was only sent takes its position off.
ReadAllCloses(t) ==
  /\ job[t].pc = "gather" /\ "closes" \notin job[t].read
  /\ job' = [job EXCEPT ![t].read = @ \cup {"closes"},
                        ![t].closes = {u \in Trades : close[u].status # "ABSENT"}]
  /\ UNCHANGED <<slave, master, order, close, terminal, results, changes>>

ReadCloses(t) ==
  /\ job[t].pc = "gather" /\ "closes" \notin job[t].read
  /\ job' = [job EXCEPT ![t].read = @ \cup {"closes"}, ![t].closes = Closed]
  /\ UNCHANGED <<slave, master, order, close, terminal, results, changes>>

\* The volumes on record added up: how many hundredths they hold between them.
TotalVolume(trades) ==
  Cardinality(UNION {{t} \X (1..order[t].requestedVolume) : t \in trades})

CountedOpens(t) == job[t].opens \ job[t].closes

SizeOf(t) == Size(job[t].row, VolumeOf[t], job[t].account)

\* The first check that refuses the OPEN, or "NONE".
Verdicts(t) ==
  LET s == job[t].row
      open == CountedOpens(t)
  IN  IF ~EntryAllowed(s, SymbolOf[t], Cardinality(open)) THEN {"ENTRY"}
      ELSE IF ~HasSize(s, VolumeOf[t], job[t].account) THEN {"SIZE"}
      ELSE {verdict \in {"NONE", "EXPOSURE"} :
              IF verdict = "NONE"
              THEN ExposureAllowed(s, TotalVolume(open), SizeOf(t))
              ELSE ExposureRefused(s, TotalVolume(open), SizeOf(t))}

\* Between the checks and the insert there is no await, and none between the
\* insert's reply and sendToSlave; nothing asks for a row that is not EXECUTED.
Decide(t) ==
  /\ job[t].pc = "gather" /\ job[t].read = {"opens", "closes"}
  /\ \/ \E verdict \in Verdicts(t) \ {"NONE"} :
          /\ order' = [order EXCEPT ![t] = Row("FAILED", verdict, 0)]
          /\ job' = [job EXCEPT ![t].pc = "done"]
          /\ UNCHANGED terminal
     \/ /\ "NONE" \in Verdicts(t)
        /\ order' = [order EXCEPT ![t] = Row("PENDING", "NONE", Stored(SizeOf(t)))]
        /\ \/ /\ job' = [job EXCEPT ![t].pc = "markSent"]
              /\ terminal' = [terminal EXCEPT ![t] = "asked"]
           \/ /\ job' = [job EXCEPT ![t].pc = "markUnsent"]
              /\ UNCHANGED terminal
  /\ UNCHANGED <<slave, master, close, results, changes>>

\* The update after sendToSlave writes over whatever was recorded meanwhile.
MarkSent(t) ==
  /\ job[t].pc = "markSent"
  /\ order' = [order EXCEPT ![t].status = "SENT"]
  /\ job' = [job EXCEPT ![t].pc = "done"]
  /\ UNCHANGED <<slave, master, close, terminal, results, changes>>

\* SLAVE_OFFLINE and SEND_FAILED.
MarkUnsent(t) ==
  /\ job[t].pc = "markUnsent"
  /\ order' = [order EXCEPT ![t].status = "FAILED", ![t].reason = "UNSENT"]
  /\ job' = [job EXCEPT ![t].pc = "done"]
  /\ UNCHANGED <<slave, master, close, terminal, results, changes>>

\* A database call is rejected, or the backend stops, and the job ends.
JobThrows(t) ==
  /\ job[t].pc \notin {"idle", "done"}
  /\ job' = [job EXCEPT ![t].pc = "done"]
  /\ UNCHANGED <<slave, master, order, close, terminal, results, changes>>

(***************************************************************************)
(* The copyToSlave of a CLOSE, which no limit binds: it is only sent for a *)
(* position whose OPEN is EXECUTED.  One that fails is never counted, and  *)
(* left out.                                                               *)
(***************************************************************************)
SendClose(t) ==
  /\ t \in Closing \cap Executed /\ close[t].status = "ABSENT"
  /\ close' = [close EXCEPT ![t] = [status |-> "PENDING", marking |-> TRUE]]
  /\ UNCHANGED <<slave, master, job, order, terminal, results, changes>>

\* The update is made, whatever was recorded meanwhile, or it is rejected.
MarkCloseSent(t) ==
  /\ close[t].marking
  /\ \E status \in {"SENT", close[t].status} :
       close' = [close EXCEPT ![t] = [status |-> status, marking |-> FALSE]]
  /\ UNCHANGED <<slave, master, job, order, terminal, results, changes>>

(***************************************************************************)
(* The Slave acts on an instruction and reports, or never receives it; the *)
(* broker closes a position on its own.                                    *)
(***************************************************************************)
Reported(t, is) == results' = results \cup {[trade |-> t, is |-> is]}

OpenRuns(t) ==
  /\ terminal[t] = "asked"
  /\ \/ terminal' = [terminal EXCEPT ![t] = "open"] /\ Reported(t, "opened")
     \/ terminal' = [terminal EXCEPT ![t] = "none"] /\ Reported(t, "failed")
  /\ UNCHANGED <<slave, master, job, order, close, changes>>

CloseRuns(t) ==
  /\ terminal[t] = "open" /\ close[t].status # "ABSENT"
  /\ terminal' = [terminal EXCEPT ![t] = "gone"]
  /\ Reported(t, "closed")
  /\ UNCHANGED <<slave, master, job, order, close, changes>>

BrokerCloses(t) ==
  /\ terminal[t] = "open"
  /\ terminal' = [terminal EXCEPT ![t] = "gone"]
  /\ UNCHANGED <<slave, master, job, order, close, results, changes>>

(***************************************************************************)
(* handleSlaveMessage: at any time, or never if the report was lost.       *)
(***************************************************************************)
RecordOpen(t) ==
  \E r \in results :
    /\ r.trade = t
    /\ \/ /\ r.is = "opened"
          /\ order' = [order EXCEPT ![t].status = "EXECUTED"]
       \/ /\ r.is = "failed"
          /\ order' = [order EXCEPT ![t].status = "FAILED", ![t].reason = "REPORTED"]
    /\ results' = results \ {r}
    /\ UNCHANGED <<slave, master, job, close, terminal, changes>>

RecordClose(t) ==
  /\ [trade |-> t, is |-> "closed"] \in results
  /\ close' = [close EXCEPT ![t].status = "EXECUTED"]
  /\ results' = results \ {[trade |-> t, is |-> "closed"]}
  /\ UNCHANGED <<slave, master, job, order, terminal, changes>>

(***************************************************************************)
(* PATCH /api/slaves/:id and the heartbeats of both connectors.            *)
(***************************************************************************)
ChangeSlave ==
  /\ changes < MaxChanges
  /\ \E s \in SettingsUsed \ {slave} : slave' = s
  /\ changes' = changes + 1
  /\ UNCHANGED <<master, job, order, close, terminal, results>>

MasterHeartbeat ==
  /\ changes < MaxChanges
  /\ \E a \in MastersUsed \ {master} : master' = a
  /\ changes' = changes + 1
  /\ UNCHANGED <<slave, job, order, close, terminal, results>>

Next ==
  \/ \E t \in Trades :
       \/ FanOut(t) \/ ReadAccount(t) \/ ReadOpens(t) \/ ReadCloses(t)
       \/ Decide(t) \/ MarkSent(t) \/ MarkUnsent(t) \/ JobThrows(t)
       \/ SendClose(t) \/ MarkCloseSent(t)
       \/ OpenRuns(t) \/ CloseRuns(t) \/ BrokerCloses(t)
       \/ RecordOpen(t) \/ RecordClose(t)
  \/ ChangeSlave
  \/ MasterHeartbeat

Spec == Init /\ [][Next]_vars

(***************************************************************************)
(* Properties.                                                             *)
(***************************************************************************)
\* The positions the Slave really has, and those it has had.
Open == {t \in Trades : terminal[t] = "open"}
Opened == {t \in Trades : terminal[t] \in {"open", "gone"}}

\* When the OPEN of t arrived the outcome of u was on record for good.
After(t, u) == u \in job[t].before

\* OPENs that did not overlap: of any two the outcome of one was on record
\* when the other arrived.
InTurn(trades) == \A t, u \in trades : t # u => After(t, u) \/ After(u, t)

WithinLimits(s, trades) ==
  /\ s.maxPositions = Null \/ Cardinality(trades) <= s.maxPositions
  /\ s.maxExposure = Null \/ TotalVolume(trades) <= s.maxExposure

\* The count is taken over two queries while results come in, CLOSEs are sent
\* and positions vanish, and by settings that may be out of date.  All the
\* same, real positions of which each outcome was on record before the next
\* OPEN arrived are never more, and by the volumes on record never hold more,
\* than the settings that one of them (the last) was decided by allow.
\* Nothing is said of OPENs that overlap, nor of a position whose report was
\* lost or written over by SENT: later OPENs do not count it.
LimitsHold ==
  \A trades \in (SUBSET Open) \ {{}} : InTurn(trades) =>
    \E t \in trades : WithinLimits(job[t].row, trades)

\* The cap counts once the raw volume is worth a step that is not below it.
CapReached(s, raw) ==
  raw.num >= ((s.maxLot + s.lotStep - 1) \div s.lotStep) * s.lotStep * raw.den

\* What a row of settings makes of a raw volume, stated without the
\* algorithm: n lies within the limits, and is the raw volume's largest whole
\* number of steps unless the cap is reached.  Without a step it is the raw
\* volume as a column keeps it, which itself may not be below the minimum.
ReferenceSize(s, raw, n) ==
  /\ s.minLot <= n /\ n <= s.maxLot
  /\ IF s.lotStep = 0
     THEN /\ AtLeast(raw, s.minLot)
          /\ \/ n = s.maxLot /\ AtLeast(raw, n)
             \/ 2 * n * raw.den <= 2 * raw.num + raw.den /\ 2 * raw.num < (2 * n + 1) * raw.den
     ELSE \/ n = s.maxLot /\ CapReached(s, raw)
          \/ /\ n % s.lotStep = 0
             /\ AtLeast(raw, n) /\ ~AtLeast(raw, n + s.lotStep)

\* A row whose OPEN passed the checks.
Admitted(o) == o.status # "ABSENT" /\ o.reason \in {"NONE", "UNSENT", "REPORTED"}

\* Every volume on record is what the settings and the account that its own
\* fan-out read make of it, whatever changed since and whichever copies were
\* sized at the same time; and an OPEN is refused for its size only if those
\* leave it none.
SizedAsConfigured ==
  \A t \in Trades :
    LET s == job[t].row
        raw == RawVolume(s, VolumeOf[t], job[t].account)
    IN  /\ Admitted(order[t]) => ReferenceSize(s, raw, order[t].requestedVolume)
        /\ order[t].reason = "SIZE" =>
             ~InputsKnown(s, job[t].account)
             \/ \A n \in s.minLot .. s.maxLot : ~ReferenceSize(s, raw, n)

\* A position whose CLOSE is on record for good makes room: an OPEN that
\* arrives afterwards is refused for the number of positions only when that
\* many others were really opened.  (A CLOSE that is only sent, or written
\* over by SENT, or never recorded, makes none.)
RoomIsMade ==
  \A t \in Trades : order[t].reason = "ENTRY" =>
    \/ ~EntryAllowed(job[t].row, SymbolOf[t], 0)
    \/ /\ job[t].row.maxPositions # Null
       /\ Cardinality(Opened \ job[t].closedBefore) >= job[t].row.maxPositions
=============================================================================
