------------------------------- MODULE Ingest -------------------------------
(***************************************************************************)
(* The way of a trade event from the Master's EA (Http.mqh, used by both   *)
(* ForexCopyMasterEA.mq5 and .mq4) through POST /api/ingest/trade-event    *)
(* (ingest.routes.ts, ingest.service.ts, publisher.ts) to the bus and to   *)
(* the trade_events table.                                                 *)
(*                                                                         *)
(* The EA is single-threaded and blocked while it waits for an answer; the *)
(* backend finishes a request whose caller has given up, so several        *)
(* requests may be under way, one per slot.                                *)
(***************************************************************************)
EXTENDS RetryQueue

CONSTANTS
  Events,       \* trade events of one Master
  Malformed,    \* those the payload schema refuses
  Slots,        \* names of concurrent ingest requests
  NoEvent,
  NoSlot,
  MaxTimeouts,  \* bound on requests that fail on their way
  MaxFaults     \* bound on backend crashes and failed Redis or database calls

ASSUME IngestAssumption ==
  /\ Malformed \subseteq Events
  /\ NoEvent \notin Events
  /\ NoSlot \notin Slots
  /\ MaxTimeouts \in Nat
  /\ MaxFaults \in Nat

VARIABLES
  detected,   \* events the terminal has reported to the EA
  ea,         \* what the EA is doing
  queue,      \* its retry queue
  request,    \* the ingest handlers, per slot
  seen,       \* Redis: the event:<eventId> keys
  published,  \* events put on the bus
  trade,      \* the trade_events table
  answered,   \* events the EA was answered 200 or 202 for
  timeouts,   \* faults so far, bounded by the two constants
  faults

backendVars == <<seen, published, trade>>
faultVars == <<timeouts, faults>>
vars == <<detected, ea, queue, request, backendVars, answered, faultVars>>

EA == [busy : {"idle", "posting", "awaiting", "refused"}, event : Events \cup {NoEvent},
       from : Nat, awaits : Slots \cup {NoSlot}]

IdleEA == [busy |-> "idle", event |-> NoEvent, from |-> 0, awaits |-> NoSlot]

\* Posting event e for the first time (from = 0) or from position i of the queue.
Posting(e, i) == [IdleEA EXCEPT !.busy = "posting", !.event = e, !.from = i]

Request == [pc : {"free", "setnx", "publish", "accepted", "duplicate", "refused"},
            event : Events \cup {NoEvent}]

FreeRequest == [pc |-> "free", event |-> NoEvent]

TypeOK ==
  /\ detected \subseteq Events
  /\ ea \in EA
  /\ queue \in Seq(Waiting(Events))
  /\ Len(queue) <= MaxQueue
  /\ request \in [Slots -> Request]
  /\ seen \subseteq Events
  /\ published \subseteq Events
  /\ trade \in [Events -> {"none", "due", "stored"}]
  /\ answered \subseteq Events
  /\ timeouts \in Nat /\ faults \in Nat

Init ==
  /\ detected = {}
  /\ ea = IdleEA
  /\ queue = <<>>
  /\ request = [k \in Slots |-> FreeRequest]
  /\ seen = {} /\ published = {}
  /\ trade = [e \in Events |-> "none"]
  /\ answered = {}
  /\ timeouts = 0 /\ faults = 0

(***************************************************************************)
(* The EA.                                                                 *)
(***************************************************************************)

\* SendEvent, called from OnTradeTransaction or a scan of the open orders.
SendEvent(e) ==
  /\ ea.busy = "idle" /\ e \notin detected
  /\ detected' = detected \cup {e}
  /\ ea' = Posting(e, 0)
  /\ UNCHANGED <<queue, request, backendVars, answered, faultVars>>

\* ProcessRetryQueue passes over what is not due, from the end of the queue:
\* any item may be the next one posted.
Retry ==
  /\ ea.busy = "idle"
  /\ \E i \in 1..Len(queue) : ea' = Posting(queue[i].payload, i)
  /\ UNCHANGED <<detected, queue, request, backendVars, answered, faultVars>>

PostFailed ==
  queue' = IF ea.from = 0 THEN Enqueue(queue, ea.event) ELSE FailedAgain(queue, ea.from)

PostAccepted ==
  queue' = IF ea.from = 0 THEN queue ELSE Delivered(queue, ea.from)

(***************************************************************************)
(* The request.                                                            *)
(***************************************************************************)
RequestGoes(k, pc) == request' = [request EXCEPT ![k].pc = pc]

\* The handler authenticates and validates before anything else.
Arrive(k) ==
  /\ ea.busy = "posting" /\ request[k].pc = "free"
  /\ request' = [request EXCEPT ![k] =
       [pc |-> IF ea.event \in Malformed THEN "refused" ELSE "setnx", event |-> ea.event]]
  /\ ea' = [ea EXCEPT !.busy = "awaiting", !.awaits = k]
  /\ UNCHANGED <<detected, queue, backendVars, answered, faultVars>>

\* Mutant: the key is looked up but not set.
LookForKey(k) ==
  /\ request[k].pc = "setnx"
  /\ RequestGoes(k, IF request[k].event \in seen THEN "duplicate" ELSE "publish")
  /\ UNCHANGED <<detected, ea, queue, backendVars, answered, faultVars>>

\* SET event:<eventId> NX: the first writer wins.
SetIfAbsent(k) ==
  LET e == request[k].event
  IN  /\ request[k].pc = "setnx"
      /\ seen' = seen \cup {e}
      /\ RequestGoes(k, IF e \in seen THEN "duplicate" ELSE "publish")
      /\ UNCHANGED <<detected, ea, queue, published, trade, answered, faultVars>>

\* publishTradeEvent is awaited, then the answer is sent and persistTradeEvent
\* started without waiting for it.
Publish(k) ==
  LET e == request[k].event
  IN  /\ request[k].pc = "publish"
      /\ published' = published \cup {e}
      /\ trade' = [trade EXCEPT ![e] = "due"]
      /\ RequestGoes(k, "accepted")
      /\ UNCHANGED <<detected, ea, queue, seen, answered, faultVars>>

Persist(e) ==
  /\ trade[e] = "due"
  /\ trade' = [trade EXCEPT ![e] = "stored"]
  /\ UNCHANGED <<detected, ea, queue, request, seen, published, answered, faultVars>>

\* 202, 200 or an error; nobody reads it when the EA has given up.
Answer(k) ==
  LET e == request[k].event
      heard == ea.busy = "awaiting" /\ ea.awaits = k
      ok == request[k].pc \in {"accepted", "duplicate"}
  IN  /\ request[k].pc \in {"accepted", "duplicate", "refused"}
      /\ request' = [request EXCEPT ![k] = FreeRequest]
      /\ IF heard
         THEN /\ ea' = IdleEA
              /\ IF ok THEN PostAccepted ELSE PostFailed
              /\ answered' = IF ok THEN answered \cup {e} ELSE answered
         ELSE UNCHANGED <<ea, queue, answered>>
      /\ UNCHANGED <<detected, backendVars, faultVars>>

(***************************************************************************)
(* Faults.                                                                 *)
(***************************************************************************)
Timeout ==
  /\ timeouts < MaxTimeouts /\ ea.busy \in {"posting", "awaiting"}
  /\ timeouts' = timeouts + 1
  /\ PostFailed
  /\ ea' = IdleEA
  /\ UNCHANGED <<detected, request, backendVars, answered, faults>>

Fault == faults < MaxFaults /\ faults' = faults + 1 /\ UNCHANGED timeouts

\* A rejected Redis or Postgres call of the handler: Fastify answers 500.
RequestThrows(k) ==
  /\ Fault /\ request[k].pc \in {"setnx", "publish"}
  /\ RequestGoes(k, "refused")
  /\ UNCHANGED <<detected, ea, queue, backendVars, answered>>

\* persistTradeEvent logs the error and gives up.
PersistFails(e) ==
  /\ Fault /\ trade[e] = "due"
  /\ trade' = [trade EXCEPT ![e] = "none"]
  /\ UNCHANGED <<detected, ea, queue, request, seen, published, answered>>

\* The backend restarts: Redis and Postgres keep what they have.
Crash ==
  /\ Fault
  /\ request' = [k \in Slots |-> FreeRequest]
  /\ trade' = [e \in Events |-> IF trade[e] = "due" THEN "none" ELSE trade[e]]
  /\ ea' = IF ea.busy = "idle" THEN ea ELSE [ea EXCEPT !.busy = "refused", !.awaits = NoSlot]
  /\ UNCHANGED <<detected, queue, seen, published, answered>>

ConnectionRefused ==
  /\ ea.busy = "refused"
  /\ PostFailed
  /\ ea' = IdleEA
  /\ UNCHANGED <<detected, request, backendVars, answered, faultVars>>

\* The EA is removed or the terminal stops: the queue was only in memory.
EARestart ==
  /\ Fault
  /\ ea' = IdleEA
  /\ queue' = <<>>
  /\ UNCHANGED <<detected, request, backendVars, answered>>

(***************************************************************************)
(* The system.                                                             *)
(***************************************************************************)
RequestStep(k) == SetIfAbsent(k) \/ Publish(k) \/ Answer(k)

Next ==
  \/ \E e \in Events : SendEvent(e) \/ Persist(e) \/ PersistFails(e)
  \/ Retry \/ ConnectionRefused \/ Timeout \/ EARestart \/ Crash
  \/ \E k \in Slots : Arrive(k) \/ RequestStep(k) \/ RequestThrows(k)

Spec == Init /\ [][Next]_vars

\* Node.js answers pending calls; a posted request arrives unless it times
\* out; the EA's timer keeps firing and every queued item becomes due.
Fairness ==
  /\ \A e \in Events : WF_vars(Persist(e))
  /\ \A k \in Slots : WF_vars(RequestStep(k))
  /\ WF_vars(\E k \in Slots : Arrive(k))
  /\ WF_vars(ConnectionRefused)
  /\ \A e \in Events : SF_vars(Retry /\ ea'.event = e)

FairSpec == Spec /\ Fairness

(***************************************************************************)
(* Properties.                                                             *)
(***************************************************************************)
Feed == INSTANCE EventFeed

\* Retries, overlapping requests and crashes never put an event on the bus
\* twice, and nothing is stored that was not published: what the Copy Engine
\* relies on to create one row per event and Slave.
FeedSpec == Feed!Spec

\* An event counts as delivered at the EA only if the backend had claimed its
\* key, and a claimed key is never given up: a later retry cannot get through
\* a second time.
AnsweredIsSeen == answered \subseteq seen

\* As long as the queue has room for all, nothing restarts and the failures
\* stay below its attempts: a valid event that was not answered yet is being
\* posted or queued, for what is taken out of the queue is what was delivered.
Undisturbed == faults = 0 /\ timeouts <= MaxAttempts /\ Cardinality(detected) <= MaxQueue

Underway == {queue[i].payload : i \in 1..Len(queue)} \cup {ea.event}

NothingForgotten == Undisturbed => detected \ Malformed \subseteq answered \cup Underway

\* Under the same conditions every valid event reaches the bus.
EveryEventIsPublished ==
  \A e \in Events \ Malformed : e \in detected ~> (Undisturbed => e \in published)

(***************************************************************************)
(* What the documentation says and the code does not do.                   *)
(***************************************************************************)

\* "a transient outage never silently drops a trade" (Http.mqh): an event
\* the EA may forget because it was answered 200 or 202 is on the bus, or
\* the request that claimed it is still about to put it there.
AnsweredIsPublished ==
  \A e \in answered : \/ e \in published
                      \/ \E k \in Slots : request[k] = [pc |-> "publish", event |-> e]
=============================================================================
