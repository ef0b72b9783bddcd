---------------------------- MODULE IngestProofs ----------------------------
(***************************************************************************)
(* For all events, queues, requests and faults: Ingest keeps its types, an *)
(* answered event has been claimed, no event is forgotten while nothing    *)
(* disturbs the EAs, and Ingest implements EventFeed.                      *)
(***************************************************************************)
EXTENDS Ingest, SequenceTheorems, FiniteSetTheorems, TLAPS

(***************************************************************************)
(* The retry queue keeps its type and its bound, whatever it carries, and  *)
(* each of its operations moves the items it says it moves and no other.   *)
(***************************************************************************)
LEMMA RemoveAtType ==
  ASSUME NEW S, NEW q \in Seq(S), NEW i \in 1..Len(q)
  PROVE  RemoveAt(q, i) \in Seq(S) /\ Len(RemoveAt(q, i)) <= Len(q)
  <1> DEFINE front == SubSeq(q, 1, i - 1)
             back == SubSeq(q, i + 1, Len(q))
  <1>1. front \in Seq(S) /\ Len(front) = i - 1
    BY SubSeqProperties
  <1>2. back \in Seq(S) /\ Len(back) = Len(q) - i
    BY SubSeqProperties
  <1>3. front \o back \in Seq(S) /\ Len(front \o back) = Len(front) + Len(back)
    BY <1>1, <1>2, ConcatProperties
  <1>4. RemoveAt(q, i) = front \o back
    BY DEF RemoveAt
  <1>5. Len(q) \in Nat /\ i \in Nat
    BY LenProperties
  <1> HIDE DEF front, back
  <1>6. QED BY <1>1, <1>2, <1>3, <1>4, <1>5

LEMMA EnqueueType ==
  ASSUME NEW P, NEW q \in Seq(Waiting(P)), Len(q) <= MaxQueue, NEW e \in P
  PROVE  Enqueue(q, e) \in Seq(Waiting(P)) /\ Len(Enqueue(q, e)) <= MaxQueue
  <1> DEFINE r == IF Len(q) >= MaxQueue THEN Tail(q) ELSE q
             item == [payload |-> e, attempts |-> 1]
  <1>1. r \in Seq(Waiting(P)) /\ Len(r) < MaxQueue
    <2>1. CASE Len(q) >= MaxQueue
      <3>1. q # <<>>
        BY <2>1, RetryQueueAssumption
      <3>2. Tail(q) \in Seq(Waiting(P)) /\ Len(Tail(q)) = Len(q) - 1
        BY <3>1, HeadTailProperties
      <3>3. QED BY <2>1, <3>2, RetryQueueAssumption
    <2>2. CASE ~(Len(q) >= MaxQueue)
      BY <2>2, RetryQueueAssumption
    <2>3. QED BY <2>1, <2>2
  <1>2. item \in Waiting(P)
    BY DEF Waiting
  <1> HIDE DEF r, item
  <1>3. Append(r, item) \in Seq(Waiting(P)) /\ Len(Append(r, item)) = Len(r) + 1
    BY <1>1, <1>2, AppendProperties
  <1>4. QED BY <1>1, <1>3, RetryQueueAssumption DEF Enqueue, r, item

LEMMA FailedAgainType ==
  ASSUME NEW P, NEW q \in Seq(Waiting(P)), Len(q) <= MaxQueue, NEW i \in 1..Len(q)
  PROVE  FailedAgain(q, i) \in Seq(Waiting(P)) /\ Len(FailedAgain(q, i)) <= MaxQueue
  <1>1. CASE q[i].attempts + 1 > MaxAttempts
    BY <1>1, RemoveAtType, RetryQueueAssumption DEF FailedAgain
  <1>2. CASE ~(q[i].attempts + 1 > MaxAttempts)
    <2> DEFINE item == [q[i] EXCEPT !.attempts = @ + 1]
    <2>1. q[i] \in Waiting(P)
      BY ElementOfSeq
    <2>2. item \in Waiting(P)
      BY <2>1 DEF Waiting
    <2>3. [q EXCEPT ![i] = item] \in Seq(Waiting(P)) /\ Len([q EXCEPT ![i] = item]) = Len(q)
      BY <2>2, ExceptSeq
    <2>4. FailedAgain(q, i) = [q EXCEPT ![i] = item]
      BY <1>2 DEF FailedAgain
    <2>5. QED BY <2>3, <2>4
  <1>3. QED BY <1>1, <1>2

LEMMA DeliveredType ==
  ASSUME NEW P, NEW q \in Seq(Waiting(P)), Len(q) <= MaxQueue, NEW i \in 1..Len(q)
  PROVE  Delivered(q, i) \in Seq(Waiting(P)) /\ Len(Delivered(q, i)) <= MaxQueue
  BY RemoveAtType, RetryQueueAssumption DEF Delivered

LEMMA RemoveAtItems ==
  ASSUME NEW S, NEW q \in Seq(S), NEW i \in 1..Len(q)
  PROVE  /\ Len(RemoveAt(q, i)) = Len(q) - 1
         /\ \A j \in 1..(Len(q) - 1) : RemoveAt(q, i)[j] = q[IF j < i THEN j ELSE j + 1]
  <1> DEFINE front == SubSeq(q, 1, i - 1)
             back == SubSeq(q, i + 1, Len(q))
  <1>1. Len(q) \in Nat /\ i \in Nat /\ i # 0 /\ i <= Len(q)
    BY LenProperties
  <1>2. /\ front \in Seq(S) /\ Len(front) = i - 1
        /\ \A j \in 1..(i - 1) : front[j] = q[j]
    BY <1>1, SubSeqProperties
  <1>3. /\ back \in Seq(S) /\ Len(back) = Len(q) - i
        /\ \A j \in 1..(Len(q) - i) : back[j] = q[j + i]
    BY <1>1, SubSeqProperties
  <1>4. RemoveAt(q, i) = front \o back
    BY DEF RemoveAt
  <1> HIDE DEF front, back
  <1>5. /\ Len(front \o back) = Len(front) + Len(back)
        /\ \A j \in 1..(Len(front) + Len(back)) :
             (front \o back)[j] = IF j <= Len(front) THEN front[j] ELSE back[j - Len(front)]
    BY <1>2, <1>3, ConcatProperties
  <1>6. ASSUME NEW j \in 1..(Len(q) - 1)
        PROVE  RemoveAt(q, i)[j] = q[IF j < i THEN j ELSE j + 1]
    <2>1. CASE j < i
      BY <1>1, <1>2, <1>3, <1>4, <1>5, <2>1
    <2>2. CASE ~(j < i)
      <3>1. /\ j - Len(front) \in 1..(Len(q) - i) /\ (j - Len(front)) + i = j + 1
            /\ ~(j <= Len(front)) /\ j \in 1..(Len(front) + Len(back))
        BY <1>1, <1>2, <1>3, <2>2
      <3>2. (front \o back)[j] = back[j - Len(front)]
        BY <1>5, <3>1
      <3>3. back[j - Len(front)] = q[j + 1]
        BY <1>3, <3>1
      <3>4. QED BY <1>4, <2>2, <3>2, <3>3
    <2>3. QED BY <2>1, <2>2
  <1>7. QED BY <1>1, <1>2, <1>3, <1>4, <1>5, <1>6

\* A full queue moves up by one.
LEMMA EnqueueItems ==
  ASSUME NEW P, NEW q \in Seq(Waiting(P)), Len(q) <= MaxQueue, NEW e \in P
  PROVE  LET d == IF Len(q) >= MaxQueue THEN 1 ELSE 0
         IN  /\ Len(Enqueue(q, e)) = Len(q) - d + 1
             /\ \A j \in 1..(Len(q) - d) : Enqueue(q, e)[j] = q[j + d]
             /\ Enqueue(q, e)[Len(q) - d + 1] = [payload |-> e, attempts |-> 1]
  <1> DEFINE d == IF Len(q) >= MaxQueue THEN 1 ELSE 0
             r == IF Len(q) >= MaxQueue THEN Tail(q) ELSE q
             item == [payload |-> e, attempts |-> 1]
  <1>1. Len(q) \in Nat
    BY LenProperties
  <1>2. /\ r \in Seq(Waiting(P)) /\ Len(r) = Len(q) - d
        /\ \A j \in 1..(Len(q) - d) : r[j] = q[j + d]
    <2>1. CASE Len(q) >= MaxQueue
      <3>1. q # <<>>
        BY <2>1, RetryQueueAssumption
      <3>2. /\ Tail(q) \in Seq(Waiting(P)) /\ Len(Tail(q)) = Len(q) - 1
            /\ \A j \in 1..Len(Tail(q)) : Tail(q)[j] = q[j + 1]
        BY <3>1, HeadTailProperties
      <3>3. QED BY <2>1, <3>2
    <2>2. CASE ~(Len(q) >= MaxQueue)
      <3>1. d = 0 /\ r = q /\ \A j \in 1..Len(q) : j + 0 = j
        BY <1>1, <2>2
      <3>2. QED BY <1>1, <3>1
    <2>3. QED BY <2>1, <2>2
  <1>3. item \in Waiting(P)
    BY DEF Waiting
  <1>4. Enqueue(q, e) = Append(r, item)
    BY DEF Enqueue
  <1> HIDE DEF r, item
  <1>5. /\ Len(Append(r, item)) = Len(r) + 1
        /\ \A j \in 1..Len(r) : Append(r, item)[j] = r[j]
        /\ Append(r, item)[Len(r) + 1] = item
    BY <1>2, <1>3, AppendProperties
  <1> HIDE DEF d
  <1>6. /\ Len(Enqueue(q, e)) = Len(q) - d + 1
        /\ \A j \in 1..(Len(q) - d) : Enqueue(q, e)[j] = q[j + d]
        /\ Enqueue(q, e)[Len(q) - d + 1] = item
    BY <1>2, <1>4, <1>5
  <1>7. QED BY <1>6 DEF d, item

LEMMA FailedAgainItems ==
  ASSUME NEW P, NEW q \in Seq(Waiting(P)), NEW i \in 1..Len(q),
         ~(q[i].attempts + 1 > MaxAttempts)
  PROVE  /\ Len(FailedAgain(q, i)) = Len(q)
         /\ FailedAgain(q, i)[i] = [payload |-> q[i].payload, attempts |-> q[i].attempts + 1]
         /\ \A j \in 1..Len(q) : j # i => FailedAgain(q, i)[j] = q[j]
  <1> DEFINE item == [q[i] EXCEPT !.attempts = @ + 1]
  <1>1. q[i] \in Waiting(P)
    BY ElementOfSeq
  <1>2. /\ item \in Waiting(P)
        /\ item = [payload |-> q[i].payload, attempts |-> q[i].attempts + 1]
    BY <1>1 DEF Waiting
  <1>3. FailedAgain(q, i) = [q EXCEPT ![i] = item]
    BY DEF FailedAgain
  <1> HIDE DEF item
  <1>4. QED BY <1>2, <1>3, ExceptSeq
(***************************************************************************)
(* The invariant.                                                          *)
(***************************************************************************)
\* What the EA posts is an event, and where it took it from is still there:
\* the EA does nothing else with its queue meanwhile.
PostedIsQueued ==
  ea.busy # "idle" => ea.event \in Events /\ ea.from <= Len(queue)

\* A request that is going to publish holds the only claim on its event.
ClaimsExclusive ==
  /\ \A k \in Slots : request[k].pc # "free" => request[k].event \in Events
  /\ \A k \in Slots : request[k].pc = "publish" => request[k].event \in seen \ published
  /\ \A k, l \in Slots :
       /\ request[k].pc = "publish" /\ request[l].pc = "publish"
       /\ request[k].event = request[l].event
       => k = l

\* What is on the bus, or about to be answered 200 or 202, was claimed.
ClaimedFirst ==
  /\ published \subseteq seen
  /\ \A k \in Slots : request[k].pc \in {"accepted", "duplicate"} => request[k].event \in seen

IInv ==
  /\ TypeOK
  /\ PostedIsQueued
  /\ ClaimsExclusive
  /\ ClaimedFirst
  /\ AnsweredIsSeen

LEMMA InitInv == Init => IInv
  <1> SUFFICES ASSUME Init PROVE IInv
    OBVIOUS
  <1> USE DEF Init
  <1>1. TypeOK
    BY RetryQueueAssumption DEF TypeOK, EA, IdleEA, Request, FreeRequest
  <1>2. PostedIsQueued
    BY DEF PostedIsQueued, IdleEA
  <1>3. ClaimsExclusive /\ ClaimedFirst /\ AnsweredIsSeen
    BY DEF ClaimsExclusive, ClaimedFirst, AnsweredIsSeen, FreeRequest
  <1>4. QED BY <1>1, <1>2, <1>3 DEF IInv

\* The queue after an answer or its absence.
LEMMA QueueAfterPost ==
  ASSUME IInv, ea.busy # "idle", PostFailed \/ PostAccepted
  PROVE  queue' \in Seq(Waiting(Events)) /\ Len(queue') <= MaxQueue
  <1>1. /\ queue \in Seq(Waiting(Events)) /\ Len(queue) <= MaxQueue
        /\ ea.event \in Events /\ ea.from \in Nat /\ ea.from <= Len(queue)
    BY DEF IInv, TypeOK, PostedIsQueued, EA
  <1>2. CASE ea.from = 0
    BY <1>1, <1>2, EnqueueType DEF PostFailed, PostAccepted
  <1>3. CASE ea.from # 0
    <2>1. ea.from \in 1..Len(queue)
      BY <1>1, <1>3
    <2>2. QED BY <1>1, <1>3, <2>1, FailedAgainType, DeliveredType DEF PostFailed, PostAccepted
  <1>4. QED BY <1>2, <1>3

(***************************************************************************)
(* Steps of the EA.                                                        *)
(***************************************************************************)
LEMMA SendEventInv == ASSUME IInv, NEW e \in Events, SendEvent(e) PROVE IInv'
  <1> USE DEF IInv, SendEvent, backendVars, faultVars
  <1>1. TypeOK'
    BY DEF TypeOK, Posting, IdleEA, EA
  <1>2. PostedIsQueued'
    BY DEF PostedIsQueued, TypeOK, Posting, IdleEA
  <1>3. ClaimsExclusive' /\ ClaimedFirst' /\ AnsweredIsSeen'
    BY DEF ClaimsExclusive, ClaimedFirst, AnsweredIsSeen
  <1>4. QED BY <1>1, <1>2, <1>3

LEMMA RetryInv == ASSUME IInv, Retry PROVE IInv'
  <1> USE DEF IInv, Retry, backendVars, faultVars
  <1>1. PICK i \in 1..Len(queue) : ea' = Posting(queue[i].payload, i)
    OBVIOUS
  <1>2. queue[i].payload \in Events /\ i \in Nat /\ i <= Len(queue)
    <2>1. queue[i] \in Waiting(Events)
      BY ElementOfSeq DEF TypeOK
    <2>2. QED BY <2>1 DEF Waiting
  <1>3. ea' \in EA /\ ea'.event = queue[i].payload /\ ea'.from = i
    BY <1>1, <1>2 DEF EA, Posting, IdleEA
  <1>4. TypeOK'
    BY <1>3 DEF TypeOK
  <1>5. PostedIsQueued'
    BY <1>2, <1>3 DEF PostedIsQueued
  <1>6. ClaimsExclusive' /\ ClaimedFirst' /\ AnsweredIsSeen'
    BY DEF ClaimsExclusive, ClaimedFirst, AnsweredIsSeen
  <1>7. QED BY <1>4, <1>5, <1>6

\* The EA gives up, by itself or because it is told to.
LEMMA GivingUpInv ==
  ASSUME IInv, ea.busy # "idle", PostFailed, ea' = IdleEA,
         UNCHANGED <<detected, request, backendVars, answered>>,
         timeouts' \in Nat, faults' \in Nat
  PROVE  IInv'
  <1> USE DEF IInv, backendVars
  <1>1. TypeOK'
    BY QueueAfterPost DEF TypeOK, EA, IdleEA
  <1>2. PostedIsQueued'
    BY DEF PostedIsQueued, IdleEA
  <1>3. ClaimsExclusive' /\ ClaimedFirst' /\ AnsweredIsSeen'
    BY DEF ClaimsExclusive, ClaimedFirst, AnsweredIsSeen
  <1>4. QED BY <1>1, <1>2, <1>3

LEMMA EARestartInv == ASSUME IInv, EARestart PROVE IInv'
  <1> USE DEF IInv, EARestart, Fault, backendVars
  <1>1. TypeOK'
    BY RetryQueueAssumption DEF TypeOK, EA, IdleEA
  <1>2. PostedIsQueued'
    BY DEF PostedIsQueued, IdleEA
  <1>3. ClaimsExclusive' /\ ClaimedFirst' /\ AnsweredIsSeen'
    BY DEF ClaimsExclusive, ClaimedFirst, AnsweredIsSeen
  <1>4. QED BY <1>1, <1>2, <1>3

(***************************************************************************)
(* Steps of the backend.                                                   *)
(***************************************************************************)
LEMMA ArriveInv == ASSUME IInv, NEW k \in Slots, Arrive(k) PROVE IInv'
  <1> USE DEF IInv, Arrive, backendVars, faultVars
  <1> DEFINE new == [pc |-> IF ea.event \in Malformed THEN "refused" ELSE "setnx",
                     event |-> ea.event]
  <1>1. ea.event \in Events
    BY DEF PostedIsQueued
  <1>2. /\ new \in Request /\ new.pc \in {"setnx", "refused"} /\ new.event \in Events
        /\ request' = [request EXCEPT ![k] = new]
    BY <1>1 DEF Request
  <1> HIDE DEF new
  <1>3. ea' \in EA /\ ea'.event = ea.event /\ ea'.from = ea.from
    BY DEF TypeOK, EA
  <1>4. TypeOK'
    BY <1>2, <1>3 DEF TypeOK
  <1>5. PostedIsQueued'
    BY <1>3 DEF PostedIsQueued
  <1>6. ClaimsExclusive' /\ ClaimedFirst' /\ AnsweredIsSeen'
    BY <1>2 DEF ClaimsExclusive, ClaimedFirst, AnsweredIsSeen, TypeOK
  <1>7. QED BY <1>4, <1>5, <1>6

LEMMA SetIfAbsentInv == ASSUME IInv, NEW k \in Slots, SetIfAbsent(k) PROVE IInv'
  <1> USE DEF IInv, SetIfAbsent, RequestGoes, faultVars
  <1> DEFINE e == request[k].event
             new == [request[k] EXCEPT !.pc = IF e \in seen THEN "duplicate" ELSE "publish"]
  <1>1. request[k] \in Request /\ e \in Events
    BY DEF TypeOK, ClaimsExclusive
  <1>2. /\ new \in Request /\ new.event = e
        /\ new.pc = IF e \in seen THEN "duplicate" ELSE "publish"
        /\ request' = [request EXCEPT ![k] = new]
    BY <1>1 DEF Request, TypeOK
  <1> HIDE DEF new
  <1>3. TypeOK'
    BY <1>1, <1>2 DEF TypeOK
  <1>4. PostedIsQueued'
    BY DEF PostedIsQueued
  <1>5. ClaimsExclusive'
    BY <1>1, <1>2 DEF ClaimsExclusive, ClaimedFirst, TypeOK
  <1>6. ClaimedFirst' /\ AnsweredIsSeen'
    BY <1>2 DEF ClaimedFirst, AnsweredIsSeen, TypeOK
  <1>7. QED BY <1>3, <1>4, <1>5, <1>6

LEMMA PublishInv == ASSUME IInv, NEW k \in Slots, Publish(k) PROVE IInv'
  <1> USE DEF IInv, Publish, RequestGoes, faultVars
  <1> DEFINE e == request[k].event
             new == [request[k] EXCEPT !.pc = "accepted"]
  <1>1. request[k] \in Request /\ e \in Events /\ e \in seen
    BY DEF TypeOK, ClaimsExclusive
  <1>2. /\ new \in Request /\ new.event = e /\ new.pc = "accepted"
        /\ request' = [request EXCEPT ![k] = new]
    BY <1>1 DEF Request, TypeOK
  <1> HIDE DEF new
  <1>3. TypeOK'
    BY <1>1, <1>2 DEF TypeOK
  <1>4. PostedIsQueued'
    BY DEF PostedIsQueued
  <1>5. ClaimsExclusive'
    BY <1>1, <1>2 DEF ClaimsExclusive, TypeOK
  <1>6. ClaimedFirst' /\ AnsweredIsSeen'
    BY <1>1, <1>2 DEF ClaimedFirst, AnsweredIsSeen, TypeOK
  <1>7. QED BY <1>3, <1>4, <1>5, <1>6

LEMMA AnswerInv == ASSUME IInv, NEW k \in Slots, Answer(k) PROVE IInv'
  <1> USE DEF IInv, Answer, backendVars, faultVars
  <1> DEFINE e == request[k].event
             heard == ea.busy = "awaiting" /\ ea.awaits = k
             ok == request[k].pc \in {"accepted", "duplicate"}
  <1>1. FreeRequest \in Request /\ request' = [request EXCEPT ![k] = FreeRequest]
    BY DEF FreeRequest, Request
  <1>2. request' \in [Slots -> Request] /\ request'[k].pc = "free"
        /\ \A l \in Slots \ {k} : request'[l] = request[l]
    BY <1>1 DEF TypeOK, FreeRequest
  <1>3. e \in Events /\ (ok => e \in seen)
    BY DEF ClaimsExclusive, ClaimedFirst
  <1>4. ClaimsExclusive' /\ ClaimedFirst'
    BY <1>2 DEF ClaimsExclusive, ClaimedFirst
  <1>5. answered' \subseteq seen /\ answered' \subseteq Events
    BY <1>3 DEF AnsweredIsSeen, TypeOK
  <1>6. CASE heard
    <2>1. PostFailed \/ PostAccepted
      BY <1>6
    <2>2. queue' \in Seq(Waiting(Events)) /\ Len(queue') <= MaxQueue
      BY <1>6, <2>1, QueueAfterPost
    <2>3. ea' = IdleEA
      BY <1>6
    <2>4. TypeOK'
      BY <1>2, <1>5, <2>2, <2>3 DEF TypeOK, EA, IdleEA
    <2>5. PostedIsQueued'
      BY <2>3 DEF PostedIsQueued, IdleEA
    <2>6. QED BY <1>4, <1>5, <2>4, <2>5 DEF AnsweredIsSeen
  <1>7. CASE ~heard
    <2>1. UNCHANGED <<ea, queue, answered>>
      BY <1>7
    <2>2. TypeOK' /\ PostedIsQueued'
      BY <1>2, <2>1 DEF TypeOK, PostedIsQueued
    <2>3. QED BY <1>4, <1>5, <2>2 DEF AnsweredIsSeen
  <1>8. QED BY <1>6, <1>7

LEMMA RequestThrowsInv == ASSUME IInv, NEW k \in Slots, RequestThrows(k) PROVE IInv'
  <1> USE DEF IInv, RequestThrows, RequestGoes, Fault, backendVars
  <1> DEFINE new == [request[k] EXCEPT !.pc = "refused"]
  <1>1. request[k] \in Request
    BY DEF TypeOK
  <1>2. /\ new \in Request /\ new.event = request[k].event /\ new.pc = "refused"
        /\ request' = [request EXCEPT ![k] = new]
    BY <1>1 DEF Request, TypeOK
  <1> HIDE DEF new
  <1>3. TypeOK'
    BY <1>2 DEF TypeOK
  <1>4. PostedIsQueued' /\ ClaimedFirst' /\ AnsweredIsSeen'
    BY <1>2 DEF PostedIsQueued, ClaimedFirst, AnsweredIsSeen, TypeOK
  <1>5. ClaimsExclusive'
    BY <1>2 DEF ClaimsExclusive, TypeOK
  <1>6. QED BY <1>3, <1>4, <1>5

\* The steps of persistTradeEvent.
LEMMA TradeInv ==
  ASSUME IInv, UNCHANGED <<detected, ea, queue, request, seen, published, answered>>,
         trade' \in [Events -> {"none", "due", "stored"}],
         timeouts' \in Nat, faults' \in Nat
  PROVE  IInv'
  BY DEF IInv, TypeOK, PostedIsQueued, ClaimsExclusive, ClaimedFirst, AnsweredIsSeen

LEMMA CrashInv == ASSUME IInv, Crash PROVE IInv'
  <1> USE DEF IInv, Crash, Fault
  <1>1. /\ ea' \in EA /\ ea'.event = ea.event /\ ea'.from = ea.from
        /\ ea'.busy # "idle" => ea.busy # "idle"
    BY DEF TypeOK, EA
  <1>2. request' \in [Slots -> Request] /\ \A k \in Slots : request'[k].pc = "free"
    BY DEF FreeRequest, Request
  <1>3. trade' \in [Events -> {"none", "due", "stored"}]
    BY DEF TypeOK
  <1>4. TypeOK'
    BY <1>1, <1>2, <1>3 DEF TypeOK
  <1>5. PostedIsQueued'
    BY <1>1 DEF PostedIsQueued
  <1>6. ClaimsExclusive' /\ ClaimedFirst' /\ AnsweredIsSeen'
    BY <1>2 DEF ClaimsExclusive, ClaimedFirst, AnsweredIsSeen
  <1>7. QED BY <1>4, <1>5, <1>6

LEMMA NextInv == IInv /\ [Next]_vars => IInv'
  <1> SUFFICES ASSUME IInv, [Next]_vars PROVE IInv'
    OBVIOUS
  <1>1. timeouts \in Nat /\ faults \in Nat
    BY DEF IInv, TypeOK
  <1>2. ASSUME NEW e \in Events, SendEvent(e) PROVE IInv'
    BY <1>2, SendEventInv
  <1>3. ASSUME NEW e \in Events, Persist(e) PROVE IInv'
    <2>1. trade' \in [Events -> {"none", "due", "stored"}]
      BY <1>3 DEF Persist, IInv, TypeOK
    <2>2. QED BY <1>1, <1>3, <2>1, TradeInv DEF Persist, faultVars
  <1>4. ASSUME NEW e \in Events, PersistFails(e) PROVE IInv'
    <2>1. trade' \in [Events -> {"none", "due", "stored"}]
      BY <1>4 DEF PersistFails, IInv, TypeOK
    <2>2. QED BY <1>1, <1>4, <2>1, TradeInv DEF PersistFails, Fault
  <1>5. CASE Retry
    BY <1>5, RetryInv
  <1>6. CASE ConnectionRefused
    BY <1>1, <1>6, GivingUpInv DEF ConnectionRefused, faultVars
  <1>7. CASE Timeout
    BY <1>1, <1>7, GivingUpInv DEF Timeout
  <1>8. CASE EARestart
    BY <1>8, EARestartInv
  <1>9. CASE Crash
    BY <1>9, CrashInv
  <1>10. ASSUME NEW k \in Slots, Arrive(k) PROVE IInv'
    BY <1>10, ArriveInv
  <1>11. ASSUME NEW k \in Slots, RequestStep(k) PROVE IInv'
    BY <1>11, SetIfAbsentInv, PublishInv, AnswerInv DEF RequestStep
  <1>12. ASSUME NEW k \in Slots, RequestThrows(k) PROVE IInv'
    BY <1>12, RequestThrowsInv
  <1>13. CASE UNCHANGED vars
    BY <1>13 DEF vars, backendVars, faultVars, IInv, TypeOK, PostedIsQueued,
                 ClaimsExclusive, ClaimedFirst, AnsweredIsSeen
  <1>14. QED
    BY <1>2, <1>3, <1>4, <1>5, <1>6, <1>7, <1>8, <1>9, <1>10, <1>11, <1>12, <1>13 DEF Next

\* The invariant holds throughout.
THEOREM IngestInvariance == Spec => []IInv
  BY InitInv, NextInv, PTL DEF Spec

\* The EA, its bounded queue, the requests, the keys and the table keep their
\* types; the queue never exceeds its bound.
THEOREM IngestTypes == Spec => []TypeOK
  BY IngestInvariance, PTL DEF IInv

\* Whatever is delayed, retried, overlaps or crashes: an event the EA was
\* answered 200 or 202 for has its key set (setIfAbsent, ingest.service.ts).
THEOREM AnsweredWasClaimed == Spec => []AnsweredIsSeen
  BY IngestInvariance, PTL DEF IInv

(***************************************************************************)
(* Ingest implements EventFeed.                                            *)
(***************************************************************************)
LEMMA InitIsFeed == Init => Feed!Init
  BY DEF Init, Feed!Init

LEMMA StepIsFeed == IInv /\ [Next]_vars => [Feed!Next]_(Feed!feedVars)
  <1> SUFFICES ASSUME IInv, [Next]_vars PROVE [Feed!Next]_(Feed!feedVars)
    OBVIOUS
  <1> USE DEF Feed!feedVars
  <1>1. ASSUME NEW k \in Slots, Publish(k) PROVE Feed!Next
    <2>1. request[k].event \in Events /\ request[k].event \notin published
      BY <1>1 DEF IInv, ClaimsExclusive, Publish
    <2>2. Feed!Publish(request[k].event)
      BY <1>1, <2>1 DEF Publish, Feed!Publish
    <2>3. QED BY <2>1, <2>2 DEF Feed!Next
  <1>2. ASSUME NEW e \in Events, Persist(e) PROVE Feed!Next
    <2>1. Feed!Persist(e)
      BY <1>2 DEF Persist, Feed!Persist
    <2>2. QED BY <2>1 DEF Feed!Next
  <1>3. ASSUME NEW e \in Events, PersistFails(e) PROVE Feed!Next
    <2>1. trade \in [Events -> {"none", "due", "stored"}]
      BY DEF IInv, TypeOK
    <2>2. trade' = [f \in Events |-> IF f \in {e} THEN "none" ELSE trade[f]]
      BY <1>3, <2>1 DEF PersistFails
    <2>3. Feed!Abandon({e})
      BY <1>3, <2>2 DEF PersistFails, Feed!Abandon
    <2>4. QED BY <2>3 DEF Feed!Next
  <1>4. CASE Crash
    <2> DEFINE es == {e \in Events : trade[e] = "due"}
    <2>1. trade' = [e \in Events |-> IF e \in es THEN "none" ELSE trade[e]]
      BY <1>4 DEF Crash
    <2>2. Feed!Abandon(es)
      BY <1>4, <2>1 DEF Crash, Feed!Abandon
    <2>3. QED BY <2>2 DEF Feed!Next
  <1>5. CASE UNCHANGED <<published, trade>>
    BY <1>5
  <1>6. ASSUME NEW e \in Events, SendEvent(e) PROVE UNCHANGED <<published, trade>>
    BY <1>6 DEF SendEvent, backendVars
  <1>7. CASE Retry \/ ConnectionRefused \/ Timeout \/ EARestart
    BY <1>5, <1>7 DEF Retry, ConnectionRefused, Timeout, EARestart, backendVars
  <1>8. ASSUME NEW k \in Slots, Arrive(k) \/ SetIfAbsent(k) \/ Answer(k) \/ RequestThrows(k)
        PROVE  UNCHANGED <<published, trade>>
    BY <1>8 DEF Arrive, SetIfAbsent, Answer, RequestThrows, backendVars
  <1>9. CASE UNCHANGED vars
    BY <1>5, <1>9 DEF vars, backendVars
  <1>10. QED
    BY <1>1, <1>2, <1>3, <1>4, <1>5, <1>6, <1>7, <1>8, <1>9 DEF Next, RequestStep

\* Ingest puts each event on the bus at most once and stores only what was put
\* there, whatever fails: all that the Copy Engine assumes about events.
THEOREM IngestImplementsFeed == Spec => FeedSpec
  <1>1. Spec => Feed!Init /\ [][Feed!Next]_(Feed!feedVars)
    BY InitIsFeed, StepIsFeed, IngestInvariance, PTL DEF Spec
  <1>2. QED BY <1>1 DEF FeedSpec, Feed!Spec

(***************************************************************************)
(* Nothing is forgotten.                                                   *)
(***************************************************************************)
Waits(e) == \E i \in 1..Len(queue) : queue[i].payload = e

\* An event waits in one place: at one position of the queue, which it keeps
\* while it is posted, or with the EA that posts it for the first time.
WaitsOnce ==
  /\ IsFiniteSet(detected)
  /\ \A i \in 1..Len(queue) : queue[i].payload \in detected
  /\ \A i, j \in 1..Len(queue) : queue[i].payload = queue[j].payload => i = j
  /\ ea.busy = "idle" => ea.event = NoEvent
  /\ ea.busy # "idle" =>
       /\ ea.event \in detected
       /\ IF ea.from = 0 THEN ~Waits(ea.event) ELSE queue[ea.from].payload = ea.event

\* The EA waits for the request that carries its event.
AwaitsItsEvent ==
  ea.busy = "awaiting" =>
    /\ ea.awaits \in Slots
    /\ request[ea.awaits].pc # "free" /\ request[ea.awaits].event = ea.event

\* Without faults only a malformed event is refused, and every attempt beyond
\* that of a valid one was a timeout.
TimeoutsOnly ==
  faults = 0 =>
    /\ ea.busy # "refused"
    /\ \A k \in Slots : request[k].pc = "refused" => request[k].event \in Malformed
    /\ \A i \in 1..Len(queue) : queue[i].payload \notin Malformed => queue[i].attempts <= timeouts

MInv == WaitsOnce /\ AwaitsItsEvent /\ TimeoutsOnly /\ NothingForgotten

\* What a removal leaves.
LEMMA Removed ==
  ASSUME queue \in Seq(Waiting(Events)), WaitsOnce, NEW n \in 1..Len(queue),
         queue' = RemoveAt(queue, n)
  PROVE  /\ \A i \in 1..Len(queue') :
              /\ \E k \in 1..Len(queue) : queue'[i] = queue[k]
              /\ queue'[i].payload # queue[n].payload
         /\ \A i, j \in 1..Len(queue') : queue'[i].payload = queue'[j].payload => i = j
         /\ \A k \in 1..Len(queue) : k # n =>
              \E i \in 1..Len(queue') : queue'[i].payload = queue[k].payload
  <1>1. /\ Len(queue') = Len(queue) - 1
        /\ \A j \in 1..(Len(queue) - 1) : queue'[j] = queue[IF j < n THEN j ELSE j + 1]
    BY RemoveAtItems
  <1>2. Len(queue) \in Nat
    BY LenProperties
  <1>3. \A j \in 1..Len(queue') :
          (IF j < n THEN j ELSE j + 1) \in 1..Len(queue) /\ (IF j < n THEN j ELSE j + 1) # n
    BY <1>1, <1>2
  <1>4. \A i, j \in 1..Len(queue) : queue[i].payload = queue[j].payload => i = j
    BY DEF WaitsOnce
  <1>5. ASSUME NEW i \in 1..Len(queue')
        PROVE  /\ \E k \in 1..Len(queue) : queue'[i] = queue[k]
               /\ queue'[i].payload # queue[n].payload
    BY <1>1, <1>3, <1>4
  <1>6. ASSUME NEW i \in 1..Len(queue'), NEW j \in 1..Len(queue'),
               queue'[i].payload = queue'[j].payload
        PROVE  i = j
    <2>1. (IF i < n THEN i ELSE i + 1) = (IF j < n THEN j ELSE j + 1)
      BY <1>1, <1>3, <1>4, <1>6
    <2>2. QED BY <1>2, <2>1
  <1>7. ASSUME NEW k \in 1..Len(queue), k # n
        PROVE  \E i \in 1..Len(queue') : queue'[i].payload = queue[k].payload
    <2>1. CASE k < n
      BY <1>1, <1>2, <2>1
    <2>2. CASE ~(k < n)
      <3>1. k - 1 \in 1..Len(queue') /\ ~(k - 1 < n) /\ (k - 1) + 1 = k
        BY <1>1, <1>2, <1>7, <2>2
      <3>2. queue'[k - 1] = queue[k]
        BY <1>1, <3>1
      <3>3. QED BY <3>1, <3>2
    <2>3. QED BY <2>1, <2>2
  <1>8. QED BY <1>5, <1>6, <1>7

\* After a failed post every item stems from the old queue or is the posted
\* event, and nothing is lost but what had all its attempts.
LEMMA FailedMoves ==
  ASSUME IInv, WaitsOnce, ea.busy # "idle", PostFailed
  PROVE  /\ \A i \in 1..Len(queue') :
              \/ queue'[i].payload = ea.event
              \/ \E k \in 1..Len(queue) : queue'[i] = queue[k]
         /\ \A i \in 1..Len(queue') :
              queue'[i].payload = ea.event =>
                \/ queue'[i].attempts = 1 /\ ea.from = 0
                \/ ea.from # 0 /\ queue'[i].attempts = queue[ea.from].attempts + 1
         /\ \A i, j \in 1..Len(queue') : queue'[i].payload = queue'[j].payload => i = j
         /\ \A k \in 1..Len(queue) :
              ea.from # 0 \/ Len(queue) < MaxQueue =>
                \/ \E i \in 1..Len(queue') : queue'[i].payload = queue[k].payload
                \/ ea.from = k /\ queue[k].attempts + 1 > MaxAttempts
         /\ ea.from = 0 => \E i \in 1..Len(queue') : queue'[i].payload = ea.event
  <1>1. /\ queue \in Seq(Waiting(Events)) /\ Len(queue) <= MaxQueue /\ Len(queue) \in Nat
        /\ ea.event \in Events /\ ea.from \in Nat /\ ea.from <= Len(queue)
    BY LenProperties DEF IInv, TypeOK, PostedIsQueued, EA
  <1>2. /\ \A i, j \in 1..Len(queue) : queue[i].payload = queue[j].payload => i = j
        /\ ea.from = 0 => \A i \in 1..Len(queue) : queue[i].payload # ea.event
        /\ ea.from # 0 => queue[ea.from].payload = ea.event
    BY DEF WaitsOnce, Waits
  <1>3. CASE ea.from = 0
    <2> DEFINE d == IF Len(queue) >= MaxQueue THEN 1 ELSE 0
    <2>1. queue' = Enqueue(queue, ea.event)
      BY <1>3 DEF PostFailed
    <2>2. /\ Len(queue') = Len(queue) - d + 1
          /\ \A j \in 1..(Len(queue) - d) : queue'[j] = queue[j + d]
          /\ queue'[Len(queue) - d + 1] = [payload |-> ea.event, attempts |-> 1]
      BY <1>1, <2>1, EnqueueItems
    <2>3. d \in {0, 1} /\ (Len(queue) < MaxQueue => d = 0) /\ d <= Len(queue)
      BY <1>1, RetryQueueAssumption
    <2> HIDE DEF d
    <2>4. \A j \in 1..(Len(queue) - d) : j + d \in 1..Len(queue)
      BY <1>1, <2>3
    <2>5. \A i \in 1..Len(queue') : i \in 1..(Len(queue) - d) \/ i = Len(queue) - d + 1
      BY <1>1, <2>2, <2>3
    <2>6. \A i \in 1..(Len(queue) - d) : queue'[i].payload # ea.event
      BY <1>2, <1>3, <2>2, <2>4
    <2>7. \A i \in 1..Len(queue') :
            \/ queue'[i].payload = ea.event /\ queue'[i].attempts = 1
            \/ \E k \in 1..Len(queue) : queue'[i] = queue[k] /\ queue'[i].payload # ea.event
      BY <2>2, <2>4, <2>5, <2>6
    <2>8. ASSUME NEW i \in 1..Len(queue'), NEW j \in 1..Len(queue'),
                 queue'[i].payload = queue'[j].payload
          PROVE  i = j
      <3>1. CASE i \in 1..(Len(queue) - d) /\ j \in 1..(Len(queue) - d)
        <4>1. i + d = j + d
          BY <1>2, <2>2, <2>4, <2>8, <3>1
        <4>2. QED BY <2>3, <4>1
      <3>2. CASE ~(i \in 1..(Len(queue) - d) /\ j \in 1..(Len(queue) - d))
        BY <2>2, <2>5, <2>6, <2>8, <3>2
      <3>3. QED BY <3>1, <3>2
    <2>9. ASSUME NEW k \in 1..Len(queue), Len(queue) < MaxQueue
          PROVE  k \in 1..Len(queue') /\ queue'[k] = queue[k]
      BY <1>1, <2>2, <2>3, <2>9
    <2>10. Len(queue) - d + 1 \in 1..Len(queue')
      BY <1>1, <2>2, <2>3
    <2>11. /\ \A i \in 1..Len(queue') :
                 \/ queue'[i].payload = ea.event
                 \/ \E k \in 1..Len(queue) : queue'[i] = queue[k]
           /\ \A i \in 1..Len(queue') :
                 queue'[i].payload = ea.event => queue'[i].attempts = 1 /\ ea.from = 0
      BY <1>3, <2>7
    <2>12. ASSUME NEW k \in 1..Len(queue), Len(queue) < MaxQueue
           PROVE  \E i \in 1..Len(queue') : queue'[i].payload = queue[k].payload
      BY <2>9, <2>12
    <2>13. \E i \in 1..Len(queue') : queue'[i].payload = ea.event
      BY <2>2, <2>10
    <2>14. QED BY <1>3, <2>8, <2>11, <2>12, <2>13
  <1>4. CASE ea.from # 0
    <2> DEFINE n == ea.from
    <2>1. n \in 1..Len(queue) /\ queue' = FailedAgain(queue, n)
      BY <1>1, <1>4 DEF PostFailed
    <2>2. CASE queue[n].attempts + 1 > MaxAttempts
      <3>1. queue' = RemoveAt(queue, n)
        BY <2>1, <2>2 DEF FailedAgain
      <3>2. /\ \A i \in 1..Len(queue') :
                 /\ \E k \in 1..Len(queue) : queue'[i] = queue[k]
                 /\ queue'[i].payload # queue[n].payload
            /\ \A i, j \in 1..Len(queue') : queue'[i].payload = queue'[j].payload => i = j
            /\ \A k \in 1..Len(queue) : k # n =>
                 \E i \in 1..Len(queue') : queue'[i].payload = queue[k].payload
        BY <1>1, <2>1, <3>1, Removed
      <3>3. QED BY <1>2, <1>4, <2>2, <3>2
    <2>3. CASE ~(queue[n].attempts + 1 > MaxAttempts)
      <3>1. /\ Len(queue') = Len(queue)
            /\ queue'[n] = [payload |-> queue[n].payload, attempts |-> queue[n].attempts + 1]
            /\ \A j \in 1..Len(queue) : j # n => queue'[j] = queue[j]
        BY <1>1, <2>1, <2>3, FailedAgainItems
      <3>2. \A j \in 1..Len(queue) : queue'[j].payload = queue[j].payload
        BY <2>1, <3>1
      <3>3. QED BY <1>2, <1>4, <2>1, <3>1, <3>2
    <2>4. QED BY <2>2, <2>3
  <1>5. QED BY <1>3, <1>4

LEMMA AcceptedMoves ==
  ASSUME IInv, WaitsOnce, ea.busy # "idle", PostAccepted
  PROVE  /\ \A i \in 1..Len(queue') : \E k \in 1..Len(queue) : queue'[i] = queue[k]
         /\ \A i, j \in 1..Len(queue') : queue'[i].payload = queue'[j].payload => i = j
         /\ \A k \in 1..Len(queue) :
              \/ \E i \in 1..Len(queue') : queue'[i].payload = queue[k].payload
              \/ queue[k].payload = ea.event
  <1>1. /\ queue \in Seq(Waiting(Events)) /\ ea.from \in Nat /\ ea.from <= Len(queue)
    BY DEF IInv, TypeOK, PostedIsQueued, EA
  <1>2. CASE ea.from = 0
    BY <1>2 DEF PostAccepted, WaitsOnce
  <1>3. CASE ea.from # 0
    <2> DEFINE n == ea.from
    <2>1. n \in 1..Len(queue) /\ queue' = RemoveAt(queue, n)
      BY <1>1, <1>3 DEF PostAccepted, Delivered
    <2>2. queue[n].payload = ea.event
      BY <1>3 DEF WaitsOnce
    <2>3. /\ \A i \in 1..Len(queue') :
               /\ \E k \in 1..Len(queue) : queue'[i] = queue[k]
               /\ queue'[i].payload # queue[n].payload
          /\ \A i, j \in 1..Len(queue') : queue'[i].payload = queue'[j].payload => i = j
          /\ \A k \in 1..Len(queue) : k # n =>
               \E i \in 1..Len(queue') : queue'[i].payload = queue[k].payload
      BY <1>1, <2>1, Removed
    <2>4. QED BY <2>2, <2>3
  <1>4. QED BY <1>2, <1>3

\* A queue that may hold all events has room for the one just posted.
LEMMA RoomForAll ==
  ASSUME IInv, WaitsOnce, ea.busy # "idle", ea.from = 0, Cardinality(detected) <= MaxQueue
  PROVE  Len(queue) < MaxQueue
  <1> DEFINE S == 1..Len(queue)
             T == detected \ {ea.event}
             f == [i \in S |-> queue[i].payload]
  <1>1. Len(queue) \in Nat
    BY LenProperties DEF IInv, TypeOK
  <1>2. /\ IsFiniteSet(detected) /\ ea.event \in detected
        /\ \A i \in S : queue[i].payload \in T
        /\ \A i, j \in S : queue[i].payload = queue[j].payload => i = j
    BY DEF WaitsOnce, Waits
  <1>3. f \in Injection(S, T)
    <2>1. f \in [S -> T]
      BY <1>2
    <2>2. \A i, j \in S : f[i] = f[j] => i = j
      BY <1>2
    <2>3. QED BY <2>1, <2>2 DEF Injection, IsInjective
  <1>4. IsFiniteSet(T) /\ Cardinality(T) = Cardinality(detected) - 1
    BY <1>2, FS_RemoveElement
  <1>5. Cardinality(S) = Len(queue)
    <2>1. \A n \in Nat : Cardinality(1..n) = n
      BY FS_Interval
    <2>2. QED BY <1>1, <2>1
  <1> HIDE DEF S, T, f
  <1>6. Cardinality(S) <= Cardinality(T)
    BY <1>3, <1>4, FS_Injection
  <1>7. Cardinality(detected) \in Nat
    BY <1>2, FS_CardinalityType
  <1>8. QED BY <1>1, <1>4, <1>5, <1>6, <1>7, RetryQueueAssumption

LEMMA InitMInv == Init => MInv
  <1> SUFFICES ASSUME Init PROVE MInv
    OBVIOUS
  <1>1. Len(queue) = 0 /\ detected = {} /\ ea = IdleEA /\ request = [k \in Slots |-> FreeRequest]
    BY DEF Init
  <1>2. WaitsOnce
    BY <1>1, FS_EmptySet DEF WaitsOnce, IdleEA
  <1>3. AwaitsItsEvent /\ TimeoutsOnly /\ NothingForgotten
    BY <1>1 DEF AwaitsItsEvent, TimeoutsOnly, NothingForgotten, IdleEA, FreeRequest
  <1>4. QED BY <1>2, <1>3 DEF MInv

(***************************************************************************)
(* Steps of the EA.                                                        *)
(***************************************************************************)
\* What holds before a step of what holds after it.
LEMMA WasUndisturbed ==
  ASSUME IInv, WaitsOnce, detected \subseteq detected', IsFiniteSet(detected'),
         faults' \in {faults, faults + 1}, timeouts' \in {timeouts, timeouts + 1},
         Undisturbed'
  PROVE  Undisturbed /\ faults' = faults
  <1>1. faults \in Nat /\ timeouts \in Nat
    BY DEF IInv, TypeOK
  <1>2. Cardinality(detected) <= Cardinality(detected')
    BY FS_Subset
  <1>3. Cardinality(detected) \in Nat /\ Cardinality(detected') \in Nat
    BY FS_CardinalityType DEF WaitsOnce
  <1>4. faults' = 0 /\ timeouts' <= MaxAttempts /\ Cardinality(detected') <= MaxQueue
    BY DEF Undisturbed
  <1>5. faults = 0 /\ faults' = faults /\ timeouts <= MaxAttempts
    BY <1>1, <1>4, RetryQueueAssumption
  <1>6. Cardinality(detected) <= MaxQueue
    BY <1>2, <1>3, <1>4, RetryQueueAssumption
  <1>7. QED BY <1>5, <1>6 DEF Undisturbed

LEMMA SendEventM == ASSUME IInv, MInv, NEW e \in Events, SendEvent(e) PROVE MInv'
  <1>1. /\ ea.busy = "idle" /\ ea.event = NoEvent /\ e \notin detected
        /\ detected' = detected \cup {e} /\ ea' = Posting(e, 0)
        /\ UNCHANGED <<queue, request, answered, timeouts, faults>>
    BY DEF SendEvent, backendVars, faultVars, MInv, WaitsOnce
  <1>2. ea'.busy = "posting" /\ ea'.event = e /\ ea'.from = 0
    BY <1>1 DEF Posting, IdleEA
  <1>3. IsFiniteSet(detected')
    BY <1>1, FS_AddElement DEF MInv, WaitsOnce
  <1>4. WaitsOnce'
    <2>1. \A i \in 1..Len(queue) : queue[i].payload \in detected /\ queue[i].payload # e
      BY <1>1 DEF MInv, WaitsOnce
    <2>2. ~Waits(e)'
      BY <1>1, <2>1 DEF Waits
    <2>3. ~Waits(ea.event)'
      BY <1>2, <2>2 DEF Waits
    <2>4. QED BY <1>1, <1>2, <1>3, <2>1, <2>3 DEF MInv, WaitsOnce
  <1>5. AwaitsItsEvent'
    BY <1>2 DEF AwaitsItsEvent
  <1>6. TimeoutsOnly'
    BY <1>1, <1>2 DEF MInv, TimeoutsOnly
  <1>7. NothingForgotten'
    <2>1. SUFFICES ASSUME Undisturbed' PROVE (detected \ Malformed \subseteq answered \cup Underway)'
      BY DEF NothingForgotten
    <2>2. Undisturbed
      BY <1>1, <1>3, <2>1, WasUndisturbed DEF MInv
    <2>3. detected \ Malformed \subseteq answered \cup Underway
      BY <2>2 DEF MInv, NothingForgotten
    <2>4. NoEvent \notin detected
      BY IngestAssumption DEF IInv, TypeOK
    <2>5. QED BY <1>1, <1>2, <2>3, <2>4 DEF Underway
  <1>8. QED BY <1>4, <1>5, <1>6, <1>7 DEF MInv

LEMMA RetryM == ASSUME IInv, MInv, Retry PROVE MInv'
  <1>1. PICK i \in 1..Len(queue) : ea' = Posting(queue[i].payload, i)
    BY DEF Retry
  <1>2. /\ ea.busy = "idle" /\ ea.event = NoEvent
        /\ UNCHANGED <<detected, queue, request, answered, timeouts, faults>>
    BY DEF Retry, backendVars, faultVars, MInv, WaitsOnce
  <1>3. ea'.busy = "posting" /\ ea'.event = queue[i].payload /\ ea'.from = i
    BY <1>1 DEF Posting, IdleEA
  <1>4. WaitsOnce'
    BY <1>2, <1>3 DEF MInv, WaitsOnce
  <1>5. AwaitsItsEvent'
    BY <1>3 DEF AwaitsItsEvent
  <1>6. TimeoutsOnly'
    BY <1>2, <1>3 DEF MInv, TimeoutsOnly
  <1>7. NothingForgotten'
    <2>1. SUFFICES ASSUME Undisturbed' PROVE (detected \ Malformed \subseteq answered \cup Underway)'
      BY DEF NothingForgotten
    <2>2. detected \ Malformed \subseteq answered \cup Underway
      BY <1>2, <2>1 DEF MInv, NothingForgotten, Undisturbed
    <2>3. NoEvent \notin detected
      BY IngestAssumption DEF IInv, TypeOK
    <2>4. QED BY <1>2, <1>3, <2>2, <2>3 DEF Underway
  <1>8. QED BY <1>4, <1>5, <1>6, <1>7 DEF MInv

\* A post that failed goes back into the queue.
LEMMA FailedOnce ==
  ASSUME IInv, WaitsOnce, ea.busy # "idle", PostFailed, ea' = IdleEA, UNCHANGED detected
  PROVE  WaitsOnce'
  <1>1. /\ \A i \in 1..Len(queue') :
             \/ queue'[i].payload = ea.event
             \/ \E k \in 1..Len(queue) : queue'[i] = queue[k]
        /\ \A i, j \in 1..Len(queue') : queue'[i].payload = queue'[j].payload => i = j
    BY FailedMoves
  <1>2. ea'.busy = "idle" /\ ea'.event = NoEvent
    BY DEF IdleEA
  <1>3. QED BY <1>1, <1>2 DEF WaitsOnce

\* It loses nothing, as long as nothing is wrong but timeouts.
LEMMA FailedKeeps ==
  ASSUME IInv, MInv, ea.busy # "idle", PostFailed, Undisturbed,
         NEW e, e \notin Malformed, Waits(e) \/ e = ea.event,
         ea.event \notin Malformed => timeouts < MaxAttempts
  PROVE  Waits(e)'
  <1>1. /\ \A k \in 1..Len(queue) :
             ea.from # 0 \/ Len(queue) < MaxQueue =>
               \/ \E i \in 1..Len(queue') : queue'[i].payload = queue[k].payload
               \/ ea.from = k /\ queue[k].attempts + 1 > MaxAttempts
        /\ ea.from = 0 => \E i \in 1..Len(queue') : queue'[i].payload = ea.event
    BY FailedMoves DEF MInv
  <1>2. /\ faults = 0 /\ Cardinality(detected) <= MaxQueue
        /\ timeouts \in Nat /\ ea.from \in Nat /\ ea.from <= Len(queue)
        /\ queue \in Seq(Waiting(Events)) /\ Len(queue) \in Nat
    BY LenProperties DEF Undisturbed, IInv, TypeOK, PostedIsQueued, EA
  <1>3. ea.from = 0 => Len(queue) < MaxQueue
    BY <1>2, RoomForAll DEF MInv
  <1>4. CASE e = ea.event /\ ea.from = 0
    BY <1>1, <1>4 DEF Waits
  <1>5. CASE e # ea.event \/ ea.from # 0
    <2>1. PICK k \in 1..Len(queue) : queue[k].payload = e
      BY <1>2, <1>5 DEF Waits, MInv, WaitsOnce
    <2>2. \/ \E i \in 1..Len(queue') : queue'[i].payload = queue[k].payload
          \/ ea.from = k /\ queue[k].attempts + 1 > MaxAttempts
      BY <1>1, <1>3
    <2>3. ASSUME ea.from = k PROVE ~(queue[k].attempts + 1 > MaxAttempts)
      <3>1. queue[k].payload = ea.event
        BY <2>3 DEF MInv, WaitsOnce
      <3>2. queue[k].attempts <= timeouts /\ timeouts < MaxAttempts
        BY <1>2, <2>1, <3>1 DEF MInv, TimeoutsOnly
      <3>3. queue[k] \in Waiting(Events)
        BY <1>2, ElementOfSeq
      <3>4. queue[k].attempts \in Nat
        BY <3>3 DEF Waiting
      <3>5. QED BY <1>2, <3>2, <3>4, RetryQueueAssumption
    <2>4. QED BY <2>1, <2>2, <2>3 DEF Waits
  <1>6. QED BY <1>4, <1>5

\* Attempts are counted as timeouts are.
LEMMA FailedCounts ==
  ASSUME IInv, MInv, ea.busy # "idle", PostFailed, faults = 0,
         \/ timeouts' = timeouts /\ ea.event \in Malformed
         \/ timeouts' = timeouts + 1,
         NEW i \in 1..Len(queue'), queue'[i].payload \notin Malformed
  PROVE  queue'[i].attempts <= timeouts'
  <1>1. /\ \/ queue'[i].payload = ea.event
           \/ \E k \in 1..Len(queue) : queue'[i] = queue[k]
        /\ queue'[i].payload = ea.event =>
             \/ queue'[i].attempts = 1 /\ ea.from = 0
             \/ ea.from # 0 /\ queue'[i].attempts = queue[ea.from].attempts + 1
    BY FailedMoves DEF MInv
  <1>2. /\ timeouts \in Nat /\ ea.from \in Nat /\ ea.from <= Len(queue)
        /\ queue \in Seq(Waiting(Events))
    BY DEF IInv, TypeOK, PostedIsQueued, EA
  <1>3. \A k \in 1..Len(queue) : queue[k].attempts \in Nat
    <2>1. \A k \in 1..Len(queue) : queue[k] \in Waiting(Events)
      BY <1>2, ElementOfSeq
    <2>2. QED BY <2>1 DEF Waiting
  <1>4. \A k \in 1..Len(queue) : queue[k].payload \notin Malformed => queue[k].attempts <= timeouts
    BY DEF MInv, TimeoutsOnly
  <1>5. CASE queue'[i].payload = ea.event
    <2>1. timeouts' = timeouts + 1
      BY <1>5
    <2>2. CASE ea.from = 0
      BY <1>1, <1>2, <1>5, <2>1, <2>2
    <2>3. CASE ea.from # 0
      <3>1. ea.from \in 1..Len(queue) /\ queue[ea.from].payload = ea.event
        BY <1>2, <2>3, LenProperties DEF MInv, WaitsOnce
      <3>2. queue[ea.from].attempts <= timeouts /\ queue[ea.from].attempts \in Nat
        BY <1>3, <1>4, <1>5, <3>1
      <3>3. QED BY <1>1, <1>2, <1>5, <2>1, <2>3, <3>2
    <2>4. QED BY <2>2, <2>3
  <1>6. CASE queue'[i].payload # ea.event
    <2>1. PICK k \in 1..Len(queue) : queue'[i] = queue[k]
      BY <1>1, <1>6
    <2>2. queue[k].attempts <= timeouts /\ queue[k].attempts \in Nat
      BY <1>3, <1>4, <2>1
    <2>3. QED BY <1>2, <2>1, <2>2
  <1>7. QED BY <1>5, <1>6

LEMMA TimeoutM == ASSUME IInv, MInv, Timeout PROVE MInv'
  <1>1. /\ ea.busy # "idle" /\ PostFailed /\ ea' = IdleEA /\ timeouts' = timeouts + 1
        /\ UNCHANGED <<detected, request, answered, faults>>
    BY DEF Timeout, backendVars
  <1>2. ea'.busy = "idle" /\ ea'.event = NoEvent
    BY <1>1 DEF IdleEA
  <1>3. WaitsOnce'
    BY <1>1, FailedOnce DEF MInv
  <1>4. AwaitsItsEvent'
    BY <1>2 DEF AwaitsItsEvent
  <1>5. TimeoutsOnly'
    BY <1>1, <1>2, FailedCounts DEF MInv, TimeoutsOnly
  <1>6. NothingForgotten'
    <2>1. SUFFICES ASSUME Undisturbed', NEW e \in detected', e \notin Malformed
                   PROVE  e \in (answered \cup Underway)'
      BY DEF NothingForgotten
    <2>2. Undisturbed /\ timeouts < MaxAttempts
      <3>1. timeouts \in Nat
        BY DEF IInv, TypeOK
      <3>2. QED BY <1>1, <2>1, <3>1, RetryQueueAssumption DEF Undisturbed
    <2>3. e \in answered \/ Waits(e) \/ e = ea.event
      BY <1>1, <2>1, <2>2 DEF MInv, NothingForgotten, Underway, Waits
    <2>4. Waits(e) \/ e = ea.event => Waits(e)'
      BY <1>1, <2>1, <2>2, FailedKeeps
    <2>5. QED BY <1>1, <2>3, <2>4 DEF Underway, Waits
  <1>7. QED BY <1>3, <1>4, <1>5, <1>6 DEF MInv

\* With a fault only WaitsOnce and AwaitsItsEvent say something.
LEMMA FaultM ==
  ASSUME faults' # 0, WaitsOnce', AwaitsItsEvent'
  PROVE  MInv'
  BY DEF MInv, TimeoutsOnly, NothingForgotten, Undisturbed

LEMMA ConnectionRefusedM == ASSUME IInv, MInv, ConnectionRefused PROVE MInv'
  <1>1. /\ ea.busy = "refused" /\ PostFailed /\ ea' = IdleEA /\ UNCHANGED <<detected, faults>>
    BY DEF ConnectionRefused, faultVars
  <1>2. faults # 0
    BY <1>1 DEF MInv, TimeoutsOnly
  <1>3. WaitsOnce'
    BY <1>1, FailedOnce DEF MInv
  <1>4. AwaitsItsEvent'
    BY <1>1 DEF AwaitsItsEvent, IdleEA
  <1>5. QED BY <1>1, <1>2, <1>3, <1>4, FaultM

(***************************************************************************)
(* Steps of the requests, and faults.                                      *)
(***************************************************************************)
LEMMA ArriveM == ASSUME IInv, MInv, NEW k \in Slots, Arrive(k) PROVE MInv'
  <1> DEFINE r == [pc |-> IF ea.event \in Malformed THEN "refused" ELSE "setnx", event |-> ea.event]
  <1>1. /\ ea.busy = "posting" /\ request' = [request EXCEPT ![k] = r]
        /\ ea' = [ea EXCEPT !.busy = "awaiting", !.awaits = k]
        /\ UNCHANGED <<detected, queue, answered, timeouts, faults>>
    BY DEF Arrive, faultVars
  <1>2. ea'.busy = "awaiting" /\ ea'.awaits = k /\ ea'.event = ea.event /\ ea'.from = ea.from
    BY <1>1 DEF IInv, TypeOK, EA
  <1>3. request'[k] = r /\ \A l \in Slots \ {k} : request'[l] = request[l]
    BY <1>1 DEF IInv, TypeOK
  <1>4. WaitsOnce'
    <2>1. Waits(ea.event)' <=> Waits(ea.event)
      BY <1>1, <1>2 DEF Waits
    <2>2. QED BY <1>1, <1>2, <2>1 DEF MInv, WaitsOnce
  <1>5. AwaitsItsEvent'
    BY <1>2, <1>3 DEF AwaitsItsEvent
  <1>6. TimeoutsOnly'
    BY <1>1, <1>2, <1>3 DEF MInv, TimeoutsOnly
  <1>7. NothingForgotten'
    BY <1>1, <1>2 DEF MInv, NothingForgotten, Undisturbed, Underway
  <1>8. QED BY <1>4, <1>5, <1>6, <1>7 DEF MInv

\* A handler that goes on is still about its event.
LEMMA RequestM ==
  ASSUME IInv, MInv, NEW k \in Slots, NEW pc, pc # "free", pc # "refused", RequestGoes(k, pc),
         request[k].pc # "free",
         UNCHANGED <<detected, ea, queue, answered, timeouts, faults>>
  PROVE  MInv'
  <1>1. /\ request'[k].pc = pc /\ request'[k].event = request[k].event
        /\ \A l \in Slots \ {k} : request'[l] = request[l]
    BY DEF IInv, TypeOK, Request, RequestGoes
  <1>2. WaitsOnce'
    BY DEF MInv, WaitsOnce, Waits
  <1>3. AwaitsItsEvent'
    BY <1>1 DEF MInv, AwaitsItsEvent
  <1>4. TimeoutsOnly'
    BY <1>1 DEF MInv, TimeoutsOnly
  <1>5. NothingForgotten'
    BY DEF MInv, NothingForgotten, Undisturbed, Underway
  <1>6. QED BY <1>2, <1>3, <1>4, <1>5 DEF MInv

\* Nothing that the EA's side depends on changes.
LEMMA ElsewhereM ==
  ASSUME MInv, UNCHANGED <<detected, ea, queue, request, answered, timeouts, faults>>
  PROVE  MInv'
  BY DEF MInv, WaitsOnce, Waits, AwaitsItsEvent, TimeoutsOnly, NothingForgotten, Undisturbed,
         Underway

LEMMA AnswerM == ASSUME IInv, MInv, NEW k \in Slots, Answer(k) PROVE MInv'
  <1> DEFINE heard == ea.busy = "awaiting" /\ ea.awaits = k
             ok == request[k].pc \in {"accepted", "duplicate"}
  <1>1. /\ request[k].pc \in {"accepted", "duplicate", "refused"}
        /\ request' = [request EXCEPT ![k] = FreeRequest]
        /\ UNCHANGED <<detected, timeouts, faults>>
    BY DEF Answer, faultVars
  <1>2. request'[k].pc = "free" /\ \A l \in Slots \ {k} : request'[l] = request[l]
    BY <1>1 DEF IInv, TypeOK, FreeRequest
  <1>3. CASE ~heard
    <2>1. UNCHANGED <<ea, queue, answered>>
      BY <1>3 DEF Answer
    <2>2. WaitsOnce'
      BY <1>1, <2>1 DEF MInv, WaitsOnce, Waits
    <2>3. AwaitsItsEvent'
      BY <1>2, <1>3, <2>1 DEF MInv, AwaitsItsEvent
    <2>4. TimeoutsOnly'
      BY <1>1, <1>2, <2>1 DEF MInv, TimeoutsOnly
    <2>5. NothingForgotten'
      BY <1>1, <2>1 DEF MInv, NothingForgotten, Undisturbed, Underway
    <2>6. QED BY <2>2, <2>3, <2>4, <2>5 DEF MInv
  <1>4. CASE heard
    <2>1. /\ ea.busy # "idle" /\ request[k].event = ea.event /\ ea' = IdleEA
          /\ ea'.busy = "idle" /\ ea'.event = NoEvent
      BY <1>4 DEF Answer, MInv, AwaitsItsEvent, IdleEA
    <2>2. AwaitsItsEvent'
      BY <2>1 DEF AwaitsItsEvent
    <2>3. CASE ok
      <3>1. PostAccepted /\ answered' = answered \cup {ea.event}
        BY <1>4, <2>1, <2>3 DEF Answer
      <3>2. /\ \A i \in 1..Len(queue') : \E j \in 1..Len(queue) : queue'[i] = queue[j]
            /\ \A i, j \in 1..Len(queue') : queue'[i].payload = queue'[j].payload => i = j
            /\ \A j \in 1..Len(queue) :
                 \/ \E i \in 1..Len(queue') : queue'[i].payload = queue[j].payload
                 \/ queue[j].payload = ea.event
        BY <2>1, <3>1, AcceptedMoves DEF MInv
      <3>3. WaitsOnce'
        BY <1>1, <2>1, <3>2 DEF MInv, WaitsOnce
      <3>4. TimeoutsOnly'
        BY <1>1, <1>2, <2>1, <3>2 DEF MInv, TimeoutsOnly
      <3>5. NothingForgotten'
        <4>1. SUFFICES ASSUME Undisturbed', NEW e \in detected', e \notin Malformed
                       PROVE  e \in (answered \cup Underway)'
          BY DEF NothingForgotten
        <4>2. e \in answered \/ Waits(e) \/ e = ea.event
          BY <1>1, <4>1 DEF MInv, NothingForgotten, Undisturbed, Underway, Waits
        <4>3. Waits(e) => Waits(e)' \/ e = ea.event
          BY <3>2 DEF Waits
        <4>4. QED BY <3>1, <4>2, <4>3 DEF Underway, Waits
      <3>6. QED BY <2>2, <3>3, <3>4, <3>5 DEF MInv
    <2>4. CASE ~ok
      <3>1. PostFailed /\ answered' = answered
        BY <1>4, <2>1, <2>4 DEF Answer
      <3>2. faults = 0 => ea.event \in Malformed
        BY <1>1, <2>1, <2>4 DEF MInv, TimeoutsOnly
      <3>3. WaitsOnce'
        BY <1>1, <2>1, <3>1, FailedOnce DEF MInv
      <3>4. TimeoutsOnly'
        <4>1. \A i \in 1..Len(queue') : faults = 0 /\ queue'[i].payload \notin Malformed =>
                queue'[i].attempts <= timeouts'
          BY <1>1, <2>1, <3>1, <3>2, FailedCounts
        <4>2. QED BY <1>1, <1>2, <2>1, <4>1 DEF MInv, TimeoutsOnly
      <3>5. NothingForgotten'
        <4>1. SUFFICES ASSUME Undisturbed', NEW e \in detected', e \notin Malformed
                       PROVE  e \in (answered \cup Underway)'
          BY DEF NothingForgotten
        <4>2. Undisturbed /\ faults = 0
          BY <1>1, <4>1 DEF Undisturbed
        <4>3. e \in answered \/ Waits(e) \/ e = ea.event
          BY <1>1, <4>1, <4>2 DEF MInv, NothingForgotten, Underway, Waits
        <4>4. Waits(e) \/ e = ea.event => Waits(e)'
          BY <2>1, <3>1, <3>2, <4>1, <4>2, FailedKeeps
        <4>5. QED BY <3>1, <4>3, <4>4 DEF Underway, Waits
      <3>6. QED BY <2>2, <3>3, <3>4, <3>5 DEF MInv
    <2>5. QED BY <2>3, <2>4
  <1>5. QED BY <1>3, <1>4

LEMMA FaultsM ==
  ASSUME IInv, MInv,
         \/ \E k \in Slots : RequestThrows(k)
         \/ \E e \in Events : PersistFails(e)
         \/ Crash \/ EARestart
  PROVE  MInv'
  <1>1. faults' = faults + 1 /\ UNCHANGED detected
    BY DEF RequestThrows, PersistFails, Crash, EARestart, Fault
  <1>2. faults' # 0
    BY <1>1 DEF IInv, TypeOK
  <1>3. CASE EARestart
    <2>1. ea'.busy = "idle" /\ ea'.event = NoEvent /\ Len(queue') = 0
      BY <1>3 DEF EARestart, IdleEA
    <2>2. WaitsOnce' /\ AwaitsItsEvent'
      BY <1>1, <2>1 DEF MInv, WaitsOnce, AwaitsItsEvent
    <2>3. QED BY <1>2, <2>2, FaultM
  <1>4. CASE Crash
    <2>1. /\ ea'.busy # "awaiting" \/ ea' = ea
          /\ ea'.event = ea.event /\ ea'.from = ea.from
          /\ ea'.busy = "idle" <=> ea.busy = "idle"
          /\ queue' = queue
      BY <1>4 DEF Crash, IInv, TypeOK, EA
    <2>2. ea'.busy # "awaiting"
      BY <1>4 DEF Crash, IInv, TypeOK, EA
    <2>3. Waits(ea.event)' <=> Waits(ea.event)
      BY <2>1 DEF Waits
    <2>4. WaitsOnce' /\ AwaitsItsEvent'
      BY <1>1, <2>1, <2>2, <2>3 DEF MInv, WaitsOnce, AwaitsItsEvent
    <2>5. QED BY <1>2, <2>4, FaultM
  <1>5. ASSUME NEW k \in Slots, RequestThrows(k) PROVE MInv'
    <2>1. /\ UNCHANGED <<detected, ea, queue>> /\ request[k].pc # "free"
          /\ request' = [request EXCEPT ![k].pc = "refused"]
      BY <1>5 DEF RequestThrows, RequestGoes
    <2>2. /\ request'[k].pc = "refused" /\ request'[k].event = request[k].event
          /\ \A l \in Slots \ {k} : request'[l] = request[l]
      BY <2>1 DEF IInv, TypeOK, Request
    <2>3. WaitsOnce'
      BY <2>1 DEF MInv, WaitsOnce, Waits
    <2>4. AwaitsItsEvent'
      BY <2>1, <2>2 DEF MInv, AwaitsItsEvent
    <2>5. QED BY <1>2, <2>3, <2>4, FaultM
  <1>6. ASSUME NEW e \in Events, PersistFails(e) PROVE MInv'
    <2>1. UNCHANGED <<detected, ea, queue, request>>
      BY <1>6 DEF PersistFails
    <2>2. WaitsOnce' /\ AwaitsItsEvent'
      BY <2>1 DEF MInv, WaitsOnce, Waits, AwaitsItsEvent
    <2>3. QED BY <1>2, <2>2, FaultM
  <1>7. QED BY <1>3, <1>4, <1>5, <1>6

LEMMA NextM == IInv /\ MInv /\ [Next]_vars => MInv'
  <1> SUFFICES ASSUME IInv, MInv, [Next]_vars PROVE MInv'
    OBVIOUS
  <1>1. ASSUME NEW e \in Events, SendEvent(e) PROVE MInv'
    BY <1>1, SendEventM
  <1>2. ASSUME NEW e \in Events, Persist(e) PROVE MInv'
    BY <1>2, ElsewhereM DEF Persist, faultVars
  <1>3. ASSUME NEW e \in Events, PersistFails(e) PROVE MInv'
    BY <1>3, FaultsM
  <1>4. CASE Retry
    BY <1>4, RetryM
  <1>5. CASE ConnectionRefused
    BY <1>5, ConnectionRefusedM
  <1>6. CASE Timeout
    BY <1>6, TimeoutM
  <1>7. CASE EARestart \/ Crash
    BY <1>7, FaultsM
  <1>8. ASSUME NEW k \in Slots, Arrive(k) PROVE MInv'
    BY <1>8, ArriveM
  <1>9. ASSUME NEW k \in Slots, SetIfAbsent(k) PROVE MInv'
    <2> DEFINE pc == IF request[k].event \in seen THEN "duplicate" ELSE "publish"
    <2>1. /\ RequestGoes(k, pc) /\ request[k].pc # "free" /\ pc # "free" /\ pc # "refused"
          /\ UNCHANGED <<detected, ea, queue, answered, timeouts, faults>>
      BY <1>9 DEF SetIfAbsent, faultVars
    <2> HIDE DEF pc
    <2>2. QED BY <2>1, RequestM
  <1>10. ASSUME NEW k \in Slots, Publish(k) PROVE MInv'
    <2>1. /\ RequestGoes(k, "accepted") /\ request[k].pc # "free"
          /\ UNCHANGED <<detected, ea, queue, answered, timeouts, faults>>
      BY <1>10 DEF Publish, faultVars
    <2>2. QED BY <2>1, RequestM
  <1>11. ASSUME NEW k \in Slots, Answer(k) PROVE MInv'
    BY <1>11, AnswerM
  <1>12. ASSUME NEW k \in Slots, RequestThrows(k) PROVE MInv'
    BY <1>12, FaultsM
  <1>13. CASE UNCHANGED vars
    BY <1>13, ElsewhereM DEF vars, faultVars
  <1>14. QED
    BY <1>1, <1>2, <1>3, <1>4, <1>5, <1>6, <1>7, <1>8, <1>9, <1>10, <1>11, <1>12, <1>13
    DEF Next, RequestStep

\* What a queue with room takes out is what was delivered: as long as nothing
\* fails but requests that time out, no more often than an item is tried, a
\* valid event that was not answered is being posted or waits.
THEOREM NoEventIsLost == Spec => []NothingForgotten
  <1>1. MInv => NothingForgotten
    BY DEF MInv
  <1>2. QED BY <1>1, InitMInv, NextM, IngestInvariance, PTL DEF Spec
=============================================================================
