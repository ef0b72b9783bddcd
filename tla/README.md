# A TLA+ model of the copy-trading system

The system copies the trades of a *Master* MetaTrader account to *Slave*
accounts. An EA in the Master's terminal posts every trade event to a Node.js
backend; the backend's Copy Engine decides, per Slave, whether and how to copy
it; MT5 Slaves are driven over a WebSocket by a Python service, MT4 Slaves poll
over HTTP. The `copy_orders` table records what became of every copy.

What can go wrong is mostly in the gaps between the steps: every database call
is an `await` during which any other handler may run, results come back before
the row says that anything was sent, sockets break between an execution and its
report, HTTP requests time out at one end and finish at the other, processes
restart. That is what the modules model. How volumes and limits follow from a
Slave's settings is modelled exactly, in two modules of its own; the modules of
the copying proper leave prices, symbols, volumes and texts out except where a
decision depends on them.

## 1. Inventory

| Part | State | Operations | Interacts with |
|---|---|---|---|
| Ingest (`ingest.routes.ts`, `ingest.service.ts`, `publisher.ts`) | Redis `event:<id>` keys, `trade_events` | `SET NX`, publish, answer, persist without waiting | Master EA by HTTP with retries; Redis bus |
| EA retry queues (`Http.mqh` twice, `SlaveHttp.mqh`) | a bounded array in memory | enqueue, retry what is due, give up after 8 attempts | Ingest, execution-result route |
| Copy Engine (`copyEngine.ts`) | `copy_orders`; one `handleMasterEvent` per event, one `copyToSlave` per event and Slave, one `handleSlaveMessage` per result | lookup with one retry, fan-out, limits, ticket lookup, create, send, mark | bus, tables, both transports |
| copy_orders queries (`copyOrderQueries.ts`) | none | open positions, ticket of an executed OPEN, expected SL/TP | Copy Engine, polling routes, reconciliation |
| Push transport (`wsGateway.ts`) | map Slave -> socket | register, send, receive, close | Copy Engine, MT5 service |
| MT5 Slave service (`main.py`) | one connection, one instruction at a time | reconnect, receive, execute, report, heartbeat | terminal, gateway |
| Poll transport (`connectorPolling.routes.ts`) and MT4 Slave EA | poll handlers under way; the EA's single thread and retry queue | poll, mark SENT, execute, post, retry | tables, terminal |
| Connector status (`connector.service.ts`) | `status`, snapshots, token cache | heartbeat, sweep, authenticate | everything that authenticates |
| Risk checks, volume calculator (`riskChecks.ts`, `volumeCalculator.ts`) | none (pure) | entry check, exposure check; lot sizing | Copy Engine; the `slaves` row and the Master's account, read at fan-out; `copy_orders` |
| Reconciliation | `reconciliation_findings` | snapshot comparison, replace findings | snapshots, copy_orders |
| Master EA event detection (`.mq4` scan, `.mq5` transactions) | the last scan, an event counter | detect, number and send events | Ingest |
| Slave routes (`slave.routes.ts`) | `slaves`, symbol mappings | PATCH, create, mappings | a PATCH changes what fan-out reads |
| Authentication (`auth.service.ts`, `requireAdminAuth.ts`) | none: a signed token that expires | login, check of every request | every admin route, the admin socket |
| Admin WebSocket (`adminWsGateway.ts`) | the set of open sockets | handshake, broadcast after most writes of a copy | Copy Engine, polling routes, Live Trades |
| Dashboard (`auth.tsx`, `api.ts`, `usePolling.ts`, `ws.ts`, `TradesPage.tsx`) | token, mounted page, what the page shows, requests under way | login, logout, 401, routing, polls, load, merge of a broadcast, reconnect | all admin routes, admin socket |
| Master routes, audit log, latency, health, forms, tools | plain tables or nothing | create, list, append | nothing that decides anything |

The behaviours that are hard to test, each at its line, are the `hazards` of
`PROJECT.json`.

What makes each part correct:

- **Ingest**: an event is put on the bus at most once and stored only after
  that; what the EA may forget was claimed by the backend; while nothing
  restarts every valid event gets through.
- **Copy Engine and its transports**: a row that says EXECUTED is true and names
  the right position; a copy is run at most once and only on a position that an
  OPEN copy of the same Master position opened; a refusal excludes a run; a
  recorded ticket stays; every copy that starts is decided and every
  instruction that is delivered is answered.
- **Sizing and limits**: a copy's volume is the one the settings and the account of
  its own fan-out call for; OPENs that take turns and stay on record keep the
  limits; a position whose CLOSE stays on record makes room.
- **Gateway and connector status**: the socket that was registered last is used;
  a silent Slave ends up OFFLINE, a connected one ONLINE.
- **Reconciliation**: once things are quiet there are findings exactly when the
  accounts and the table disagree.
- **Master EA**: a ticket's life is told in order, and an EA that has caught up
  has told what is open.
- **Dashboard**: a polled page ends up showing what the backend has, an expired
  session does not go on unnoticed, and what Live Trades shows is out of date only
  for causes that can be named.

## 2. Modules

| Module | Models | Notes |
|---|---|---|
| `CopyOrders` | `copy_orders` rows and the queries over them | operators only; a row's creation order stands for `createdAt` |
| `Terminal` | a Slave's terminal and the executors of `main.py` and the MT4 Slave EA | `attempts` and `actedOn` are history: how often a copy was run, and on which position |
| `CopyEngine` | `copyEngine.ts`: every `await` ends an action | `handler` is `handleMasterEvent` per event, `job` `copyToSlave` per event and Slave, `recording` the `handleSlaveMessage` calls under way |
| `PushCopy` | Copy Engine + WebSocket + MT5 service | composes the three above; one connection per Slave at a time |
| `PollCopy` | Copy Engine + poll routes + MT4 Slave EA | poll handlers in `Slots`, so that a timed-out one overlaps the next |
| `RetryQueue` | `Enqueue` and `ProcessRetryQueue` of the three HTTP clients | operators on sequences, used by `Ingest` and `PollCopy` |
| `Ingest` | Master EA's sending, the ingest route and `persistTradeEvent` | requests in `Slots` |
| `EventFeed` | abstract: what the Copy Engine may assume about events | implemented by `Ingest`; the events of `CopyEngine` come from an environment written after it |
| `CopyOnce` | abstract: what copying promises | implemented by `PushCopy` |
| `Reconciliation` | `runReconciliation` and `compareState` | with an abstract Master, Slave account and copying as environment |
| `MasterEA` | both Master EAs' detection and event ids | `platform` chooses the EA; one deal opens a position (section 6) |
| `Gateway` | the sockets of one Slave, the map, heartbeats, the sweep | |
| `Sizing` | `calculateVolume` and the checks of `riskChecks.ts` | operators only; lots in hundredths, sizes on the way in exact fractions |
| `RiskLimits` | fan-out, counting, sizing, deciding and marking of the OPENs of one MT5 Slave, their CLOSEs, and its terminal, with changing settings | extends `Sizing`; results come at any time or never, and SENT may be written over them; `before` and `closedBefore` of a job are history |
| `AdminSession` | token, login, logout, expiry, mounted page, requests and 401 | the frame of the two page modules |
| `PolledPage` | `usePolling` and what it polls | extends `AdminSession` |
| `LiveTrades` | `TradesPage`, `ws.ts`, the admin socket, `GET /api/copy-orders` | extends `AdminSession`; one row of the table |
| `Dashboard` | a session with both kinds of page | composes the three above |
| `CopyInvariant` | what the invariants of both transports share | |
| `PushCopyInvariant`, `PollCopyInvariant` | the inductive invariants of `PushCopy` and `PollCopy` | |
| `CopyEngineProofs` | lemmas both transports rest on | |
| `PushCopyProofs`, `PollCopyProofs`, `IngestProofs`, `GatewayProofs`, `RiskLimitsProofs`, `MasterEAProofs`, `DashboardProofs` | the theorems, section 4 | |
| `MC*` | small instances for TLC | |

How state and actions correspond to code is in `PROJECT.json` (`map`). The
conventions:

- An action is the code between two suspension points (an `await`, a callback,
  a blocking call of an EA). What runs synchronously after the resolution of an
  `await` belongs to the action of that resolution. Database calls issued
  together (`Promise.all`) are answered in any order.
- A rejected database or Redis call has no effect on the database (`JobThrows`,
  `HandlerThrows`, `RecordingThrows`, `PollThrows`, `RequestThrows`,
  `RunThrows`); what the code does with the rejection is modelled.
- A restart of the backend loses every handler under way and keeps the tables
  and Redis. A restart of a connector loses its memory, the retry queue
  included.
- A frame sent on a socket is delivered in order or lost when the connection
  ends. HTTP requests may be answered after the client has given up.
- In `CopyEngine`, `RefuseOpen` stands for every refusal of `copyToSlave` that
  depends on symbol lists, volume and exposure; the emergency stop and the position
  limit, which depend on modelled state, are exact (`EntryAllowed`). `RiskLimits`
  has all of them exactly and no transport: an instruction is on its way or is not,
  the terminal acts on it at most once (what `PushCopy` shows), and a report waits
  until it is recorded, before or after the job writes SENT, or for ever.
- Volumes: the columns keep two decimals (the multiplier four), so stored numbers
  are naturals in hundredths. The code computes in doubles and adds 1e-9 before it
  rounds down to a step; `Sizing` uses exact fractions, which is what the 1e-9 is
  there to achieve.
- A page of the dashboard is unmounted when another one is opened; its requests go on
  and their answers are dropped, but a 401 still ends the session, as `apiFetch`
  does it. In `LiveTrades` the writes of the row are numbered, and a number stands
  for the status that a write leaves; the ticket and the reason, which some
  broadcasts leave out (`copyEngine.ts:353`), are not in it. `missed` is history.

## 3. Runs

All finish within a few minutes. One Slave is enough in the copy runs: jobs of
different Slaves share only the event handler, and the theorems below hold for
any number. Each run has the events for the cases it is about.

| Run | Bounds | Shows |
|---|---|---|
| `push_Safety` | 1 Slave; OPEN, MODIFY of one position, CLOSE of another; 1 fault at the Slave's side (disconnect or restart), 1 at the backend's (crash or failed call) | the safety properties of pushing, the inductive invariant, and the refinement of `CopyOnce` |
| `push_Progress` | two OPENs, 1 Slave fault; emergency stop or disabling at any time | `StopBlocksOpens`, `EveryCopyIsDecided`, `StoredInTimeIsCopied`, `EverySendIsAnswered` |
| `push_Outcome` | an OPEN and a CLOSE of it | *violation*: SENT overwrites EXECUTED |
| `poll_Overlap` | OPEN and CLOSE, 2 poll handlers, 1 timeout, 1 fault; or 2 OPENs and the CLOSE of one, with the EA online and neither timeouts nor faults | the safety properties of polling |
| `poll_Recorded` | OPEN and CLOSE, 1 timeout, no faults | `PendingIsPickedUp`, `OutcomeIsRecorded` |
| `ingest_Feed` | 3 events, one malformed, queue of 2, 2 attempts, 2 timeouts, 1 fault | refinement of `EventFeed`, `AnsweredIsSeen`, `NothingForgotten`, `EveryEventIsPublished` |
| `ingest_Dropped` | 1 event, 1 fault | *violation*: answered as a duplicate, never published |
| `recon_Drift` | 1 Master ticket, 1 stray, 2 levels, 2 runs, 2 changes | `AlarmIffDrift`, `NoLastingFalseAlarm` |
| `master_Told` | 2 tickets, 2 levels, 2 lots, 5 changes, 1 restart, both EAs | `LifeInOrder`, `OpenIsKnown`, `LevelIsKnown` |
| `gateway_Sockets` | 3 connections, 1 crash | `LastRegisteredIsUsed` and three liveness properties |
| `limits_Limits` | a CLOSE, and 3 OPENs and room for 2 under settings that do not change, or 2 OPENs on 2 instruments, 6 rows of settings, 2 Master accounts, 1 change of either | `LimitsHold`, `RoomIsMade`, `SizedAsConfigured` |
| `dashboard_Pages` | 2 logins, 2 requests at a time, 1 failure, 2 changes of what is polled, 2 writes of a copy | `ViewCatchesUp`, `ExpiredIsNoticed`, `LiveIsCurrentUnlessMissed` |

Why the bounds are enough to be interesting: the hazards are races of two
writers of one row, of two handlers of one request, of two runs, of two sockets,
or of one lost message and its retry. Two of each, with one fault to separate
them, reach all of these; three events are there where one must be pushed out
of a queue of two, and three sockets so that a close can be late twice. Every property has a
mutant of the code that breaks it within these bounds (`mutants`). The
settings of `limits_Limits` reach every refusal and every corner of the
calculator: all four copy modes, a minimum between two steps, a maximum that is no
step, a minimum above the maximum, a step stored as 0, both limits and both
symbol lists. Two runs add up two smaller instances by a constraint, `OneAtATime` of
`MCPollCopy` and of `MCRiskLimits`: the product of their bounds is too large, and
they check safety only. The idempotency key's time to live (a day) is far longer than the retries of a queue
and is taken as unlimited. `CHECK_DEADLOCK FALSE` is set where the system may
stop: all events handled, bounds reached.

**Fairness.** Node.js resolves every pending call and runs its timers, so backend
steps are weakly fair. A service with a connection keeps reading, executing and
reporting; an EA's timer keeps firing, and since one tick serves the retry queue
and then polls, each of the two is strongly fair. Nothing is assumed about
trading, admins, faults, reconnections or brokers. In `Gateway` a connected
service keeps sending heartbeats, and the end of a connection the service closed
is noticed; a host that vanishes silently is not covered, because the backend
sends no pings. Both EAs of `Ingest` retry every queued item in turn. In
`Dashboard` the interval of a mounted page keeps firing and requests are answered
and handled; nothing is assumed of the admin, the copies or the socket.
`RiskLimits` has safety only.

**Where the properties stop.** `EverySendIsAnswered` is for connections that hold
(`slaveFaults = 0`): the code does not ask a Slave again. `NothingForgotten` and
`EveryEventIsPublished` are for a backend that does not fail, no more timeouts than
attempts and a queue with room. `AlarmIffDrift` says that the alarm is right again and again, not at every
moment: between `deleteMany` and `createMany` the table is empty, and overlapping
runs leave both sets until the next one. `OpenIsKnown` and `LevelIsKnown` are for
an EA that has not restarted. `LimitsHold` is about real positions of which each
outcome was on record *for good* when the OPEN of the next arrived: EXECUTED, and no
SENT outstanding that could replace it. It says nothing of OPENs that overlap, nor
of a position whose report was lost or written over; section 5 says what the code
does with those. `RoomIsMade` likewise is about CLOSEs that are on record for good.
Both compare the records with the positions the terminal has, not with what the
jobs counted. `StoredInTimeIsCopied` is for events whose row is there before the
second lookup; a later one is dropped. `PendingIsPickedUp` says that a row leaves the
line, not that the instruction arrives: a SENT whose answer nobody reads satisfies it.
`ExpiredIsNoticed` is for polled pages: on Live Trades nothing notices.
`LiveIsCurrentUnlessMissed` names the six things, each since the latest write of
the row, after which the status that Live Trades shows may stay out of date; frames
on a socket that is half open stay undelivered, so they are not among them.

## 4. Proofs

Everything here is proved for all values of the constants: any number of Slaves,
events, tickets, poll handlers, requests, connections, trades, settings and
faults. The assumptions are the constants' (`CopyEngineAssumption` and the ones
each module names): each event has a type and a ticket, `NoTicket` is not a copy,
bounds are naturals.

| Module | Proves |
|---|---|
| `PushCopyProofs` | `IInv` of `PushCopy` (`Invariance`); types, `ExecutedIsReal`, `TradeIdentity`, `AtMostOnce`, `RefusalIsFinal`, `StopBlocksOpens`, `ReportedOnce`, `TicketKept`; `PushCopy` implements `CopyOnce` |
| `PollCopyProofs` | `IInv` of `PollCopy` (`PollInvariance`); types, `ExecutedIsReal`, `AtMostOnce`, `TradeIdentity`, `RiskRefusalIsFinal`, `TicketKept` |
| `IngestProofs` | types, `AnsweredIsSeen`, `NothingForgotten`; `Ingest` implements `EventFeed` |
| `GatewayProofs` | types, `LastRegisteredIsUsed` |
| `RiskLimitsProofs` | types, `SizedAsConfigured`, `RoomIsMade`, `LimitsHold` |
| `MasterEAProofs` | types, `LifeInOrder`, `OpenIsKnown`, `LevelIsKnown` |
| `DashboardProofs` | types, `LiveIsCurrentUnlessMissed` |

Every invariant that a passing run checks is a theorem, and so are `TicketKept` and the
two refinements.

**Pushing.** None of the four safety properties is inductive. That a row is
EXECUTED only if the terminal acted depends on every report on its way being
honest, in the service, on the socket, in a `handleSlaveMessage` call; that a copy
is run at most once depends on its instruction being in one place only. `IInv`
follows the life of a copy through three stages that exclude each other:

1. *decided* - until `sendToSlave`, nothing is in flight and nothing was run
   (`UnsentIsUnrun`), and what is refused never gets further (`SentHasRow`);
2. *in flight* - the instruction is once on the socket or in the service, at the
   Slave it is for (`FliesOnce`, `ServiceConsistent`), with a ticket the copy may
   act on (`JobsEntitled`, `FramesEntitled`);
3. *run* - it never flies again, and whatever is said about it is true
   (`ActedOnEntitled`, `ReportsHonest`, `RecordingsHonest`, `RowsHonest`).

The proof takes each step of `Next` through each conjunct it can disturb. The
lemma with most weight is `FoundTicketEntitled`: the ticket
`findExecutedOpenSlaveTicket` returns is none, or that of an EXECUTED OPEN row of
the same Slave and Master position, so with `RowsHonest` it is a position the copy
may act on. Three results need more:

- `StopHolds`: `StopInv` says how far the job of an OPEN gets under the stop, and
  that its row, if any, is the refusal's; by `SentHasRow` nothing is then in flight
  or run.
- `ReportsAreUnique`: one run makes one report, which is in the service, on the
  socket or in a `handleSlaveMessage` call but never in two of them, and nowhere
  once its outcome is on record. Without it a late report could replace a ticket;
  with it `TicketsAreKept` follows.
- `PushCopyImplementsCopyOnce`: each write of a row is `Enter`, `Refuse`, `Report`,
  `Forget` (the late SENT) or nothing, and `Execute` is `Run`. `ReportedOnce` makes
  a recorded report an allowed step.

**Polling.** What the socket does there is done here by the row. Several poll
handlers may hold one row, and several may answer with it; that it is run once
rests on three facts. A row leaves PENDING before its instruction leaves the
backend, and never becomes PENDING again (`RunOnceTaken`). A handler that holds a
row holds one that was admitted, with a ticket the copy may act on (`HoldsRow`).
And only the handler whose answer the EA waits for can make it execute, and that
one began after the EA's last execution, so its copy has not been run (the last
conjunct of `HoldsRow`). A result may be posted any number of times, and posts,
retries and recordings overlap; `TicketKept` cannot therefore rest on uniqueness as
it does for pushing. `ReportsAgree` says instead that there is one ticket per copy
that every result about it names, in a retry queue, in a post, in a recording or in
the table.

**Sizing.** `SizesAreRight` compares the algorithm with `ReferenceSize`, which says
what a size is without saying how to find it: within the limits, the largest
number of steps that is not above the raw volume, or the maximum if the raw volume
reaches it. The lemmas are integer arithmetic on fractions.

**Ingest.** That nothing is forgotten is an invariant of a second level, on top of
the types. An event waits in one place, the queue or the post (`WaitsOnce`), so a
queue that is as long as there are events never pushes one out; the request that the
EA waits for carries the event it posts (`AwaitsItsEvent`); and while the backend does not fail only timeouts use attempts up, so that nothing is given
up while there are no more of them than attempts (`TimeoutsOnly`).

**Limits.** The job of an OPEN counts what is EXECUTED when it looks. What was on
record for good when it arrived still is when it looks, unless it was closed meanwhile
(`ReadsKept`); a position that the terminal still has was not. So of real positions of
which each outcome was on record for good before the next OPEN arrived, an OPEN counted
those that were before it. "Was before" is a strict order on a finite set
(`SeesEarlier`), so one of them had all others before it; beside those it is within the
limits it was admitted under (`AdmittedFit`), which is what `LimitsHold` asks for. That
the terminal has a position only of an OPEN that passed the checks, and says `opened` or
`closed` only of what it did, is `RunsAdmitted` and `ReportsTrue`; from these and
`ReadsKept` comes `RoomIsMade`, too. The volumes are added by counting hundredths of a
lot (`TotalVolume`), which is the same sum, so that facts about cardinality compare the
volumes of two sets.

**Master EA.** What has been told of a ticket limits what can still happen to it and
what may still wait: `InOrder` for both EAs, `ScanInOrder` for the scan of MT4,
`DealsInOrder` for the transactions of MT5. An event is dropped by the backend if its
id was used before, so that an OPEN or a CLOSE is really told rests on ids being new:
deals have numbers of their own (`DealsDiffer`), and without a restart the counter is
ahead of every MODIFY (`Counted`). What is known is what the last scan saw
(`ScanKnown`), or what is open and not announced by a waiting transaction
(`QueueKnown`).

**Dashboard.** On a page that missed nothing since the latest write, that write is
still to be broadcast, or the page is in one of two states (`NothingMissed`): frames
wait, and the last of them is of the latest write; or none waits, and the latest write
is what the page shows, or what its load has yet to read or is about to replace it by.
This needs that a page of Live Trades has one load, the answer of which is no newer than
the table (`AnswersAreRead`), and that what was left belongs to no page (`PagesAreApart`).

**Only model-checked.** Liveness under fairness, which is out of the prover's reach:
`EveryCopyIsDecided`, `StoredInTimeIsCopied`, `EverySendIsAnswered`, `PendingIsPickedUp`, `OutcomeIsRecorded`,
`EveryEventIsPublished`, the three of `Gateway`, `ViewCatchesUp`, `ExpiredIsNoticed`, and
both properties of `Reconciliation`: the alarm is right again and again, which no
single state shows.

## 5. Where code and documentation disagree

Two have a run that TLC refutes.

- `push_Outcome` (`copyEngine.ts:349`): SENT is written after the send without
  looking at the row. A result recorded in between is lost, the executed copy
  shows as SENT for good, and a later CLOSE finds no matching open copy.
- `ingest_Dropped` (`ingest.routes.ts:43`): the idempotency key is set before the
  publish. If the publish fails, every retry is a duplicate.

Seen while modelling, without a run of their own. In the copying:

- A row becomes SENT before the poll's reply is written. An EA that has given up
  never gets the instruction, and no later poll offers it again
  (`connectorPolling.routes.ts:89`).
- A CLOSE handled before the OPEN's result is recorded fails with
  NO_MATCHING_OPEN_COPY and the position stays open (`copyEngine.ts:180`).
- The poll transport answers 200 although the outcome could not be written, so
  the EA does not post it again (`connectorPolling.routes.ts:126`).
- An MT4 row can be polled and run while `copyToSlave` still checks whether the
  Slave is online; if it then says OFFLINE, a run copy shows as refused until its
  result arrives (`copyEngine.ts:293`). This is why `PollCopy` has
  `RiskRefusalIsFinal` and not `RefusalIsFinal`.
- The gateway registers a socket when its authentication is done, not in the order
  of connecting, and does not hear a close before that. A slow authentication of
  an older, dead socket hides the live one until the service reconnects
  (`wsGateway.ts:76`).
- `g_eventSeq` starts from 0 with the EA. Within the life of the idempotency key a
  MODIFY of the same ticket may get an id that was used before, and is ignored.
- A scan of the MT4 EA that finds a position smaller does not look at its levels;
  the MT5 EA reports a triggered order as cancelled too, and a partial close that
  it handles after the position is gone as a CLOSE.
- A copy left open after the Master closed its position is not drift in any of
  the seven checks (`reconciliationEngine.ts:84`).

In sizing and limits:

- OPENs under way together all see the old count and exceed a limit
  (`copyEngine.ts:197`).
- A real position that is not EXECUTED on record is not counted, so a later OPEN that
  overlaps nothing may exceed a limit as well: its result was lost, or recorded and then
  written over by SENT (`copyEngine.ts:349`). The same write over the EXECUTED of a
  CLOSE counts the closed position again (`copyOrderQueries.ts:33`), and an OPEN may be
  refused for it.
- A position that its own stop or the broker closed has no CLOSE row and counts
  against the limits for ever (`copyOrderQueries.ts:38`). OPEN and CLOSE rows are
  read by two queries, so a position closed in between is counted as well.
- The exposure is a sum of doubles: an OPEN that reaches the limit exactly may be
  refused (`riskChecks.ts:49`).
- A `lotStep` or `minLot` below 0.005 passes validation (`slave.schema.ts:8`) and is
  stored as 0; the volume is then not rounded to a step. A volume capped at
  `maxLot` need not be a multiple of the step.
- The entry check compares the Master's symbol with the lists, not the mapped one.

In the administration:

- `SlaveDetailPage` fills its form once and saves all of it. A form opened before
  an emergency stop lifts it again, and a limit that was emptied is not sent
  although the page says it was saved (`SlaveDetailPage.tsx:40`).
- Two PATCHes at a time both read the old row, so the audit log may name an old
  value that was not the one replaced; a failure between update and audit leaves
  no entry (`slave.routes.ts:57`).
- `CreateAccountModal` creates the account and then its connector. When the second
  fails, the retry fails on the unique account number (`CreateAccountModal.tsx:46`).
- A late 401 of a request with the old token ends a session that was begun since
  (`api.ts:48`). On Live Trades an expired token goes unnoticed: the socket
  reconnects for ever (`ws.ts`).
- The PENDING row of an MT5 Slave is not broadcast (`copyEngine.ts:276`), nor is a
  write after which the backend stops or the reply of which is lost. A row of Live
  Trades stays out of date after those, after a broadcast made while the socket was not
  open, frames lost with it, an older broadcast that comes later, a load that
  overwrote something newer, or a load that failed (`TradesPage.tsx:17`).
- An event whose row is written after the second lookup is not copied at all
  (`copyEngine.ts:66`).

## 6. Not modelled

- Prices, sides and texts; latency timestamps; the audit log; health checks.
- PARTIAL_CLOSE and pending orders beyond `MasterEA`: the Copy Engine ignores them
  (`isCopyableEvent`).
- A position that several deals open: fills of one order in parts, a netting account,
  a reversal. `HandleDealAdd` of the MT5 EA sends an OPEN for every deal that enters
  (`ForexCopyMasterEA.mq5:194`), so that a position is told to be opened at most once
  (`LifeInOrder`) holds for accounts where one deal opens it, as `MasterEA` assumes.
- That the other Slaves are served when one `copyToSlave` rejects
  (`copyEngine.ts:88`): the runs have one Slave, and liveness is not proved.
- Comments of positions are taken to be kept whole by the terminal; an expected
  SL/TP of null is taken to be a level of its own.
- Heartbeats of one connector that are written out of order in `Reconciliation`:
  they bring back an older snapshot until the next report, which a late
  `RecordHeartbeat` already does.
- The rounding of doubles in sums of volumes (above).
- Two pages of the dashboard at a time, several browsers, and password checks: a
  login succeeds or changes nothing.
- The PATCH handler of the Slave routes query by query, and the forms of
  `SlaveDetailPage` and `CreateAccountModal`. Composed with the session they make
  too many states for one run, and by themselves they promise nothing that could
  be checked: what they do is in section 5. What a PATCH does to the engine is
  `PatchSlave` and `ChangeSlave`.
- Creating and listing Masters and Slaves, symbol mappings as data, JSON helpers of
  the EAs, simulators, seeds, deployment: single database calls, string building
  or no part of the running system.

## 7. Plan

1. Done: `CopyOrders`, `Terminal`, `CopyEngine`, `PushCopy` with `CopyOnce` and
   `EventFeed`; `PollCopy`, `RetryQueue`, `Ingest`; `Reconciliation`, `MasterEA`,
   `Gateway`; `Sizing` and `RiskLimits`; `AdminSession`, `PolledPage`, `LiveTrades` and
   `Dashboard`.
2. Proved: every invariant of the passing runs, `TicketKept`, and two refinements.
3. Next: order of registration in `Gateway` as a run of its own; a refinement that
   shows `RiskLimits`' decisions to be `AcceptOpen` and `RefuseOpen` of `CopyEngine`;
   two Slaves in a run of `PushCopy` small enough for liveness;
   what a run of `Reconciliation` leaves in the table when no other run overlaps it,
   as an invariant with a proof.
