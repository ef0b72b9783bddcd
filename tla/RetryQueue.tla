----------------------------- MODULE RetryQueue -----------------------------
(***************************************************************************)
(* The bounded in-memory retry queue both EAs keep: HttpClient::m_queue in *)
(* Http.mqh for trade events, SlaveHttpClient::m_queue in SlaveHttp.mqh    *)
(* for execution results.  The two classes have the same Enqueue and the   *)
(* same ProcessRetryQueue.                                                 *)
(***************************************************************************)
EXTENDS Naturals, Sequences, SequencesExt

CONSTANTS
  MaxAttempts,  \* FCT_MAX_ATTEMPTS, FST_MAX_ATTEMPTS: 8
  MaxQueue      \* FCT_MAX_RETRY_QUEUE: 200, FST_MAX_RETRY_QUEUE: 100

ASSUME RetryQueueAssumption ==
  /\ MaxAttempts \in Nat \ {0}
  /\ MaxQueue \in Nat \ {0}

Waiting(Payload) == [payload : Payload, attempts : Nat]

\* Mutant: the queue is not bounded.
EnqueueUnbounded(queue, payload) == Append(queue, [payload |-> payload, attempts |-> 1])

\* A full queue loses its oldest item.
Enqueue(queue, payload) ==
  Append(IF Len(queue) >= MaxQueue THEN Tail(queue) ELSE queue,
         [payload |-> payload, attempts |-> 1])

\* Mutant: the array is made shorter without closing the gap.
DropLast(queue, i) == Front(queue)

\* Position i was delivered.
Delivered(queue, i) == RemoveAt(queue, i)

\* Mutant: given up one attempt early.
FailedAgainEarly(queue, i) ==
  IF queue[i].attempts + 1 >= MaxAttempts
  THEN RemoveAt(queue, i)
  ELSE [queue EXCEPT ![i].attempts = @ + 1]

\* Position i failed again: counted, and given up after MaxAttempts.
FailedAgain(queue, i) ==
  IF queue[i].attempts + 1 > MaxAttempts
  THEN RemoveAt(queue, i)
  ELSE [queue EXCEPT ![i].attempts = @ + 1]
=============================================================================
