------------------------------ MODULE MasterEA ------------------------------
(***************************************************************************)
(* How the Master's EA notices trades and numbers the events it sends.     *)
(* The MT4 EA (ForexCopyMasterEA.mq4) compares the order list with the one *)
(* of its last scan; the MT5 EA (ForexCopyMasterEA.mq5) is called for each *)
(* transaction of a queue and looks at the account as it is by then.       *)
(* `known` is what a reader of the events knows, given that ingest ignores *)
(* an event whose id it has seen (Ingest).                                 *)
(***************************************************************************)
EXTENDS Naturals, Sequences, SequencesExt, FiniteSets

CONSTANTS
  Tickets,
  Levels,       \* stop-loss and take-profit; of a pending order also its price
  FullLots,     \* the size a position is opened with, in lot steps
  MaxChanges,   \* bound on what happens on the account
  MaxRestarts   \* bound on restarts of the EA

ASSUME MasterEAAssumption ==
  /\ FullLots \in Nat \ {0}
  /\ MaxChanges \in Nat /\ MaxRestarts \in Nat

VARIABLES
  platform,  \* which of the two EAs runs
  account,   \* the account's orders, per ticket
  used,      \* tickets the broker has given out
  snapshot,  \* MT4: g_openSnapshot and g_pendingSnapshot
  queue,     \* MT5: transactions not handed to OnTradeTransaction yet
  eventSeq,  \* g_eventSeq
  running,   \* the EA is attached
  log,       \* the events sent, in order
  known,     \* per ticket, what the accepted events say
  changes, restarts

worldVars == <<account, used>>
eaVars == <<snapshot, eventSeq, log, known>>
vars == <<platform, worldVars, queue, eaVars, running, changes, restarts>>

Order == [kind : {"pending", "open"}, lots : 1..FullLots, level : Levels]
NoOrder == [kind |-> "none"]
Orders == [Tickets -> Order \cup {NoOrder}]

\* `n` makes the id of an event unique where the ticket alone does not: the
\* event counter, or in MT5 the deal.
Event == [type : {"OPEN", "MODIFY", "PARTIAL_CLOSE", "CLOSE", "PENDING_OPEN",
                  "PENDING_MODIFY", "PENDING_CANCEL"},
          ticket : Tickets, n : Nat, level : Levels \cup {"none"}]

\* The word an id starts with; the MT5 EA uses one for all deals and one for
\* what happens to a pending order.
Prefix(type) ==
  CASE platform = "MT5" /\ type \in {"OPEN", "PARTIAL_CLOSE", "CLOSE"} -> "DEAL"
    [] platform = "MT5" /\ type \in {"PENDING_OPEN", "PENDING_MODIFY"} -> "ORDER"
    [] OTHER -> type

IdOf(e) == <<Prefix(e.type), e.ticket, e.n>>

Transaction == [type : {"DEAL_IN", "DEAL_OUT", "ORDER_ADD", "ORDER_UPDATE",
                        "ORDER_DELETE", "POSITION"},
                ticket : Tickets, deal : Nat]

Known == [state : {"unknown", "open", "closed"}, level : Levels \cup {"none"}]
Unknown == [state |-> "unknown", level |-> "none"]

TypeOK ==
  /\ platform \in {"MT4", "MT5"}
  /\ account \in Orders /\ snapshot \in Orders
  /\ used \subseteq Tickets
  /\ queue \in Seq(Transaction)
  /\ eventSeq \in Nat
  /\ running \in BOOLEAN
  /\ log \in Seq(Event)
  /\ known \in [Tickets -> Known]
  /\ changes \in Nat /\ restarts \in Nat

NoOrders == [t \in Tickets |-> NoOrder]

Init ==
  /\ platform \in {"MT4", "MT5"}
  /\ account = NoOrders /\ snapshot = NoOrders
  /\ used = {} /\ queue = <<>> /\ eventSeq = 0 /\ running = TRUE
  /\ log = <<>>
  /\ known = [t \in Tickets |-> Unknown]
  /\ changes = 0 /\ restarts = 0

(***************************************************************************)
(* The account.  In MT5 every change is announced by transactions, which   *)
(* are lost on an EA that is not running.  A market order is deleted as it *)
(* is filled, and so is a pending one that triggers; the position goes by  *)
(* the ticket of the order that opened it, and keeps it when it is closed  *)
(* in part, as the code assumes of MT4 too.                                *)
(***************************************************************************)
Open(lots, level) == [kind |-> "open", lots |-> lots, level |-> level]
Pending(level) == [kind |-> "pending", lots |-> FullLots, level |-> level]

Announce(t, types) ==
  queue' = IF platform = "MT5" /\ running
           THEN queue \o [i \in DOMAIN types |->
                            [type |-> types[i], ticket |-> t, deal |-> changes + 1]]
           ELSE queue

AccountChange(t, order, types) ==
  /\ changes < MaxChanges
  /\ changes' = changes + 1
  /\ account' = [account EXCEPT ![t] = order]
  /\ used' = used \cup {t}
  /\ Announce(t, types)
  /\ UNCHANGED <<platform, eaVars, running, restarts>>

\* One deal opens a position: not several fills of one order, nor a netting
\* account, where later deals add to a position.  TriggerPending likewise.
MarketOrder(t, l) ==
  /\ t \notin used
  /\ AccountChange(t, Open(FullLots, l), <<"ORDER_ADD", "DEAL_IN", "ORDER_DELETE">>)

PlacePending(t, l) ==
  t \notin used /\ AccountChange(t, Pending(l), <<"ORDER_ADD">>)

EditPending(t, l) ==
  /\ account[t].kind = "pending" /\ account[t].level # l
  /\ AccountChange(t, Pending(l), <<"ORDER_UPDATE">>)

CancelPending(t) ==
  account[t].kind = "pending" /\ AccountChange(t, NoOrder, <<"ORDER_DELETE">>)

TriggerPending(t) ==
  /\ account[t].kind = "pending"
  /\ AccountChange(t, Open(FullLots, account[t].level), <<"DEAL_IN", "ORDER_DELETE">>)

EditLevels(t, l) ==
  /\ account[t].kind = "open" /\ account[t].level # l
  /\ AccountChange(t, Open(account[t].lots, l), <<"POSITION">>)

ClosePartly(t) ==
  /\ account[t].kind = "open" /\ account[t].lots > 1
  /\ AccountChange(t, Open(account[t].lots - 1, account[t].level), <<"DEAL_OUT">>)

CloseAll(t) ==
  account[t].kind = "open" /\ AccountChange(t, NoOrder, <<"DEAL_OUT">>)

(***************************************************************************)
(* Sending.                                                                *)
(***************************************************************************)
EventOf(type, t, n, level) == [type |-> type, ticket |-> t, n |-> n, level |-> level]

Accepts(k, e) ==
  CASE e.type = "OPEN" -> [state |-> "open", level |-> e.level]
    [] e.type = "MODIFY" -> [k EXCEPT !.level = e.level]
    [] e.type = "CLOSE" -> [state |-> "closed", level |-> "none"]

\* Events are sent one after the other; a repeated id is ignored.  A scan
\* finds at most one event of these types per ticket.
Heard(events, t) ==
  {i \in DOMAIN events :
     /\ events[i].ticket = t /\ events[i].type \in {"OPEN", "MODIFY", "CLOSE"}
     /\ \A j \in DOMAIN log : IdOf(log[j]) # IdOf(events[i])}

Send(events) ==
  /\ log' = log \o events
  /\ known' = [t \in Tickets |->
                 IF Heard(events, t) = {} THEN known[t]
                 ELSE Accepts(known[t], events[CHOOSE i \in Heard(events, t) : TRUE])]

(***************************************************************************)
(* MT4: ScanAndDetect, which compares the two lists ticket by ticket.      *)
(***************************************************************************)
IsOpen(orders, t) == orders[t].kind = "open"
IsPending(orders, t) == orders[t].kind = "pending"

\* Mutant: a ticket that was pending is not new.
NewTicketOnly(t) ==
  CASE IsOpen(account, t) /\ snapshot[t] = NoOrder -> "OPEN"
    [] IsOpen(account, t) /\ IsOpen(snapshot, t) ->
         CASE account[t].lots < snapshot[t].lots -> "PARTIAL_CLOSE"
           [] account[t].level # snapshot[t].level -> "MODIFY"
           [] OTHER -> "none"
    [] ~IsOpen(account, t) /\ IsOpen(snapshot, t) -> "CLOSE"
    [] OTHER -> "none"

\* A smaller size hides a change of the levels.
DetectOpenChange(t) ==
  CASE IsOpen(account, t) /\ ~IsOpen(snapshot, t) -> "OPEN"
    [] IsOpen(account, t) /\ IsOpen(snapshot, t) ->
         CASE account[t].lots < snapshot[t].lots -> "PARTIAL_CLOSE"
           [] account[t].level # snapshot[t].level -> "MODIFY"
           [] OTHER -> "none"
    [] ~IsOpen(account, t) /\ IsOpen(snapshot, t) -> "CLOSE"
    [] OTHER -> "none"

\* Mutant: an order that is no longer pending was cancelled.
GoneIsCancelled(t) ==
  CASE IsPending(account, t) /\ ~IsPending(snapshot, t) -> "PENDING_OPEN"
    [] IsPending(account, t) /\ IsPending(snapshot, t) ->
         IF account[t].level # snapshot[t].level THEN "PENDING_MODIFY" ELSE "none"
    [] ~IsPending(account, t) /\ IsPending(snapshot, t) -> "PENDING_CANCEL"
    [] OTHER -> "none"

DetectPendingChange(t) ==
  CASE IsPending(account, t) /\ ~IsPending(snapshot, t) -> "PENDING_OPEN"
    [] IsPending(account, t) /\ IsPending(snapshot, t) ->
         IF account[t].level # snapshot[t].level THEN "PENDING_MODIFY" ELSE "none"
    [] ~IsPending(account, t) /\ IsPending(snapshot, t) ->
         IF IsOpen(account, t) THEN "none" ELSE "PENDING_CANCEL"
    [] OTHER -> "none"

OpenChanges ==
  {<<DetectOpenChange(t), t>> : t \in {x \in Tickets : DetectOpenChange(x) # "none"}}

PendingChanges ==
  {<<DetectPendingChange(t), t>> : t \in {x \in Tickets : DetectPendingChange(x) # "none"}}

\* What a scan has to send: positions first, then pending orders.
Detected == SetToSeq(OpenChanges) \o SetToSeq(PendingChanges)

Numbered == {"MODIFY", "PARTIAL_CLOSE", "PENDING_MODIFY"}

\* Mutant: the counter is not incremented.
CountNothing(found, i) == 0

CountNumbered(found, i) == Cardinality({j \in 1..i : found[j][1] \in Numbered})

\* Only these two carry levels.  An OPEN that MT5 handles after the position
\* was closed has none to send.
LevelSent(type, t) ==
  IF type \in {"OPEN", "MODIFY"} /\ IsOpen(account, t) THEN account[t].level ELSE "none"

ScanAndDetect ==
  LET found == Detected
      number(i) == IF found[i][1] \in Numbered THEN eventSeq + CountNumbered(found, i) ELSE 0
  IN  /\ platform = "MT4" /\ running /\ snapshot # account
      /\ Send([i \in DOMAIN found |->
                 EventOf(found[i][1], found[i][2], number(i),
                         LevelSent(found[i][1], found[i][2]))])
      /\ eventSeq' = eventSeq + CountNumbered(found, Len(found))
      /\ snapshot' = account
      /\ UNCHANGED <<platform, worldVars, queue, running, changes, restarts>>

(***************************************************************************)
(* MT5: OnTradeTransaction.                                                *)
(***************************************************************************)
SendDeal(type, x) ==
  Send(<<EventOf(type, x.ticket, x.deal, LevelSent(type, x.ticket))>>) /\ UNCHANGED eventSeq

SendNumbered(type, x) ==
  /\ eventSeq' = eventSeq + 1
  /\ Send(<<EventOf(type, x.ticket, eventSeq + 1, LevelSent(type, x.ticket))>>)

SendNothing == UNCHANGED <<eventSeq, log, known>>

HandleDealAdd(x) ==
  CASE x.type = "DEAL_IN" -> SendDeal("OPEN", x)
    [] x.type = "DEAL_OUT" ->
         SendDeal(IF IsOpen(account, x.ticket) THEN "PARTIAL_CLOSE" ELSE "CLOSE", x)

HandleOrderAddOrUpdate(x, type) ==
  IF IsPending(account, x.ticket) THEN SendNumbered(type, x) ELSE SendNothing

\* A triggered order is reported as cancelled too.
HandleOrderDelete(x) ==
  Send(<<EventOf("PENDING_CANCEL", x.ticket, 0, "none")>>) /\ UNCHANGED eventSeq

HandlePositionModify(x) ==
  IF IsOpen(account, x.ticket) THEN SendNumbered("MODIFY", x) ELSE SendNothing

OnTradeTransaction ==
  LET x == Head(queue)
  IN  /\ running /\ queue # <<>>
      /\ queue' = Tail(queue)
      /\ CASE x.type \in {"DEAL_IN", "DEAL_OUT"} -> HandleDealAdd(x)
           [] x.type = "ORDER_ADD" -> HandleOrderAddOrUpdate(x, "PENDING_OPEN")
           [] x.type = "ORDER_UPDATE" -> HandleOrderAddOrUpdate(x, "PENDING_MODIFY")
           [] x.type = "ORDER_DELETE" -> HandleOrderDelete(x)
           [] x.type = "POSITION" -> HandlePositionModify(x)
      /\ UNCHANGED <<platform, worldVars, snapshot, running, changes, restarts>>

(***************************************************************************)
(* The EA is removed and attached again.  OnInit of the MT4 EA takes what  *)
(* it finds as known; the event counter starts from 0 again.               *)
(***************************************************************************)
OnDeinit ==
  /\ running /\ restarts < MaxRestarts
  /\ restarts' = restarts + 1
  /\ running' = FALSE
  /\ queue' = <<>>
  /\ UNCHANGED <<platform, worldVars, eaVars, changes>>

OnInit ==
  /\ ~running
  /\ running' = TRUE
  /\ eventSeq' = 0
  /\ snapshot' = IF platform = "MT4" THEN account ELSE snapshot
  /\ UNCHANGED <<platform, worldVars, queue, log, known, changes, restarts>>

AccountChanges ==
  \E t \in Tickets :
    \/ \E l \in Levels : \/ MarketOrder(t, l) \/ PlacePending(t, l)
                         \/ EditPending(t, l) \/ EditLevels(t, l)
    \/ CancelPending(t) \/ TriggerPending(t) \/ ClosePartly(t) \/ CloseAll(t)

Next == AccountChanges \/ ScanAndDetect \/ OnTradeTransaction \/ OnDeinit \/ OnInit

Spec == Init /\ [][Next]_vars

(***************************************************************************)
(* Properties.                                                             *)
(***************************************************************************)

\* The life of a ticket is told in order, whatever happened between two scans
\* or before a transaction was handled, and across restarts: it is opened at
\* most once, nothing that would be copied follows its CLOSE but another
\* CLOSE, and the MT4 EA does not call an order cancelled that has become a
\* position.
MayFollow(first, then) ==
  /\ then.type = "OPEN" => first.type \notin {"OPEN", "CLOSE"}
  /\ then.type = "MODIFY" => first.type # "CLOSE"
  /\ platform = "MT4" /\ then.type = "PENDING_CANCEL" => first.type # "OPEN"

LifeInOrder ==
  \A j \in DOMAIN log : \A i \in 1..(j - 1) :
    log[i].ticket = log[j].ticket => MayFollow(log[i], log[j])

\* The EA has seen everything there is to see, and has done so from the start.
CaughtUp ==
  /\ running /\ restarts = 0
  /\ IF platform = "MT4" THEN snapshot = account ELSE queue = <<>>

\* An EA that has caught up has told which positions are open.
OpenIsKnown ==
  CaughtUp => \A t \in Tickets : IsOpen(account, t) <=> known[t].state = "open"

\* It has also told their levels, except where a scan found a position
\* smaller, in which case it did not look at its levels.
LastIsPartial(t) ==
  \E i \in DOMAIN log :
    /\ log[i].ticket = t /\ log[i].type = "PARTIAL_CLOSE"
    /\ \A j \in DOMAIN log : j > i => log[j].ticket # t

LevelIsKnown ==
  CaughtUp => \A t \in Tickets : IsOpen(account, t) =>
    \/ known[t].level = account[t].level
    \/ platform = "MT4" /\ LastIsPartial(t)
=============================================================================
