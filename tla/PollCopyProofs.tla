--------------------------- MODULE PollCopyProofs ---------------------------
(***************************************************************************)
(* Theorems about PollCopy for every set of Slaves, events and poll        *)
(* handlers, every queue and every bound.                                  *)
(***************************************************************************)
EXTENDS PollCopyInvariant, CopyEngineProofs, SequenceTheorems

(***************************************************************************)
(* The retry queue keeps its type and its bound, whatever it carries.      *)
(* (IngestProofs, whose system has no state in common with this one, has   *)
(* the same of the Master EA's.)                                           *)
(***************************************************************************)
LEMMA RemoveAtType ==
  ASSUME NEW S, NEW q \in Seq(S), NEW i \in 1..Len(q)
  PROVE  RemoveAt(q, i) \in Seq(S) /\ Len(RemoveAt(q, i)) <= Len(q)
  <1> DEFINE front == SubSeq(q, 1, i - 1)
             back == SubSeq(q, i + 1, Len(q))
  <1>1. front \in Seq(S) /\ Len(front) = i - 1
    BY SubSeqProperties
  <1>2. back \in Seq(S) /\ Len(back) = Len(q) - i
    BY SubSeqProperties
  <1>3. front \o back \in Seq(S) /\ Len(front \o back) = Len(front) + Len(back)
    BY <1>1, <1>2, ConcatProperties
  <1>4. RemoveAt(q, i) = front \o back
    BY DEF RemoveAt
  <1>5. Len(q) \in Nat /\ i \in Nat
    BY LenProperties
  <1> HIDE DEF front, back
  <1>6. QED BY <1>1, <1>2, <1>3, <1>4, <1>5

LEMMA EnqueueType ==
  ASSUME NEW P, NEW q \in Seq(Waiting(P)), Len(q) <= MaxQueue, NEW e \in P
  PROVE  Enqueue(q, e) \in Seq(Waiting(P)) /\ Len(Enqueue(q, e)) <= MaxQueue
  <1> DEFINE r == IF Len(q) >= MaxQueue THEN Tail(q) ELSE q
             item == [payload |-> e, attempts |-> 1]
  <1>1. r \in Seq(Waiting(P)) /\ Len(r) < MaxQueue
    <2>1. CASE Len(q) >= MaxQueue
      <3>1. q # <<>>
        BY <2>1, RetryQueueAssumption
      <3>2. Tail(q) \in Seq(Waiting(P)) /\ Len(Tail(q)) = Len(q) - 1
        BY <3>1, HeadTailProperties
      <3>3. QED BY <2>1, <3>2, RetryQueueAssumption
    <2>2. CASE ~(Len(q) >= MaxQueue)
      BY <2>2, RetryQueueAssumption
    <2>3. QED BY <2>1, <2>2
  <1>2. item \in Waiting(P)
    BY DEF Waiting
  <1> HIDE DEF r, item
  <1>3. Append(r, item) \in Seq(Waiting(P)) /\ Len(Append(r, item)) = Len(r) + 1
    BY <1>1, <1>2, AppendProperties
  <1>4. QED BY <1>1, <1>3, RetryQueueAssumption DEF Enqueue, r, item

LEMMA FailedAgainType ==
  ASSUME NEW P, NEW q \in Seq(Waiting(P)), Len(q) <= MaxQueue, NEW i \in 1..Len(q)
  PROVE  FailedAgain(q, i) \in Seq(Waiting(P)) /\ Len(FailedAgain(q, i)) <= MaxQueue
  <1>1. CASE q[i].attempts + 1 > MaxAttempts
    BY <1>1, RemoveAtType, RetryQueueAssumption DEF FailedAgain
  <1>2. CASE ~(q[i].attempts + 1 > MaxAttempts)
    <2> DEFINE item == [q[i] EXCEPT !.attempts = @ + 1]
    <2>1. q[i] \in Waiting(P)
      BY ElementOfSeq
    <2>2. item \in Waiting(P)
      BY <2>1 DEF Waiting
    <2>3. [q EXCEPT ![i] = item] \in Seq(Waiting(P)) /\ Len([q EXCEPT ![i] = item]) = Len(q)
      BY <2>2, ExceptSeq
    <2>4. FailedAgain(q, i) = [q EXCEPT ![i] = item]
      BY <1>2 DEF FailedAgain
    <2>5. QED BY <2>3, <2>4
  <1>3. QED BY <1>1, <1>2

LEMMA DeliveredType ==
  ASSUME NEW P, NEW q \in Seq(Waiting(P)), Len(q) <= MaxQueue, NEW i \in 1..Len(q)
  PROVE  Delivered(q, i) \in Seq(Waiting(P)) /\ Len(Delivered(q, i)) <= MaxQueue
  BY RemoveAtType, RetryQueueAssumption DEF Delivered

LEMMA EAStates ==
  /\ IdleEA \in EA /\ DownEA \in EA
  /\ \A k \in Slots : PollingEA(k) \in EA
  /\ \A i \in Instruction : ExecutingEA(i) \in EA
  /\ \A r \in Result, n, m \in Nat : PostingEA(r, n, m) \in EA
BY DEF IdleEA, DownEA, PollingEA, ExecutingEA, PostingEA, EAAt, EA

\* What a query that takes the oldest row returns.
LEMMA OldestIsRow ==
  ASSUME EngineTypeOK, NEW rows \in SUBSET Copies, rows # {}
  PROVE  Oldest(rows) \in rows
<1>1. \A c \in Copies : orders[c].createdAt \in Nat
  BY DEF EngineTypeOK, Row
<1>2. PICK x \in {orders[c].createdAt : c \in rows} :
        \A y \in {orders[c].createdAt : c \in rows} : x <= y
  <2>1. {orders[c].createdAt : c \in rows} \in SUBSET Nat
        /\ {orders[c].createdAt : c \in rows} # {}
    BY <1>1
  <2>2. QED
    BY <2>1, NatSetHasMin
<1>3. \E c \in rows : \A d \in rows : orders[c].createdAt <= orders[d].createdAt
  BY <1>2
<1>4. QED
  BY <1>3 DEF Oldest

(***************************************************************************)
(* What the EAs carry.  P is any set of results: an EA invents none.       *)
(***************************************************************************)
\* EA s alone moves, and then posts something of P or nothing.
LEMMA CarriesMove ==
  ASSUME NEW P, Carries(P), NEW s \in Slaves,
         \A x \in Slaves : x # s => ea'[x] = ea[x] /\ retryQueue'[x] = retryQueue[x],
         retryQueue' \in [Slaves -> Seq(Waiting(P))], Len(retryQueue'[s]) <= MaxQueue,
         ea'[s].busy \in {"posting", "awaiting", "refused"} =>
           ea'[s].result \in P /\ ea'[s].from \in 0..Len(retryQueue'[s])
  PROVE  Carries(P)'
BY DEF Carries, Posting

\* The queue after a result was delivered, or failed.
LEMMA CarriesPosted ==
  ASSUME NEW P, Carries(P), NEW s \in Slaves, Posting(s), ea \in [Slaves -> EA],
         ea' = [ea EXCEPT ![s] = IdleEA],
         \/ PostFailed(s)
         \/ retryQueue' = IF ea[s].from = 0 THEN retryQueue
                          ELSE [retryQueue EXCEPT ![s] = Delivered(@, ea[s].from)]
  PROVE  Carries(P)'
<1> DEFINE q == retryQueue[s]
<1>1. q \in Seq(Waiting(P)) /\ Len(q) <= MaxQueue /\ ea[s].result \in P
      /\ ea[s].from \in 0..Len(q)
  BY DEF Carries
<1>2. PICK r : /\ r \in Seq(Waiting(P)) /\ Len(r) <= MaxQueue
               /\ retryQueue' = [retryQueue EXCEPT ![s] = r]
  <2>1. CASE ea[s].from = 0 /\ PostFailed(s)
    BY <1>1, <2>1, EnqueueType DEF PostFailed
  <2>2. CASE ea[s].from = 0 /\ ~PostFailed(s)
    <3>1. retryQueue' = [retryQueue EXCEPT ![s] = q]
      BY <2>2 DEF Carries
    <3>2. QED
      BY <1>1, <3>1
  <2>3. CASE ea[s].from # 0
    <3>1. ea[s].from \in 1..Len(q)
      BY <1>1, <2>3
    <3>2. /\ Delivered(q, ea[s].from) \in Seq(Waiting(P))
          /\ Len(Delivered(q, ea[s].from)) <= MaxQueue
          /\ FailedAgain(q, ea[s].from) \in Seq(Waiting(P))
          /\ Len(FailedAgain(q, ea[s].from)) <= MaxQueue
      BY <1>1, <3>1, DeliveredType, FailedAgainType
    <3>3. QED
      BY <2>3, <3>2 DEF PostFailed
  <2>4. QED
    BY <2>1, <2>2, <2>3
<1>3. /\ retryQueue' \in [Slaves -> Seq(Waiting(P))] /\ retryQueue'[s] = r
      /\ \A x \in Slaves : x # s => ea'[x] = ea[x] /\ retryQueue'[x] = retryQueue[x]
  BY <1>2 DEF Carries
<1>4. ea'[s].busy = "idle"
  BY DEF IdleEA, EAAt
<1>5. QED
  BY <1>2, <1>3, <1>4, CarriesMove

\* The next of the queue is posted.
LEMMA CarriesRetry ==
  ASSUME NEW P, Carries(P), NEW s \in Slaves, ea \in [Slaves -> EA], RetryPost(s)
  PROVE  Carries(P)'
<1>1. PICK i \in 1..Len(retryQueue[s]) :
        ea' = [ea EXCEPT ![s] = PostingEA(retryQueue[s][i].payload,
                                          retryQueue[s][i].attempts + 1, i)]
  BY DEF RetryPost
<1>2. retryQueue[s] \in Seq(Waiting(P)) /\ retryQueue' = retryQueue
  BY DEF Carries, RetryPost
<1>3. retryQueue[s][i] \in Waiting(P)
  BY <1>2, ElementOfSeq
<1>4. retryQueue[s][i].payload \in P /\ i \in 0..Len(retryQueue[s])
  BY <1>2, <1>3, LenProperties DEF Waiting
<1>5. /\ ea'[s].result = retryQueue[s][i].payload /\ ea'[s].from = i
      /\ \A x \in Slaves : x # s => ea'[x] = ea[x]
  BY <1>1 DEF PostingEA, EAAt
<1>6. QED
  BY <1>2, <1>4, <1>5, CarriesMove DEF Carries

\* An EA that posts nothing any more, or what it was posting already.
LEMMA CarriesSame ==
  ASSUME NEW P, Carries(P), UNCHANGED retryQueue,
         \A x \in Slaves :
           ea'[x].busy \in {"posting", "awaiting", "refused"} =>
             Posting(x) /\ ea'[x].result = ea[x].result /\ ea'[x].from = ea[x].from
  PROVE  Carries(P)'
BY DEF Carries, Posting

LEMMA CarriesStopped ==
  ASSUME NEW P, Carries(P), NEW s \in Slaves, ea \in [Slaves -> EA], EAStops(s)
  PROVE  Carries(P)'
<1>1. <<>> \in Seq(Waiting(P)) /\ Len(<<>>) = 0
  OBVIOUS
<1>2. retryQueue' = [retryQueue EXCEPT ![s] = <<>>] /\ ea' = [ea EXCEPT ![s] = DownEA]
  BY DEF EAStops
<1>3. /\ retryQueue' \in [Slaves -> Seq(Waiting(P))] /\ retryQueue'[s] = <<>>
      /\ \A x \in Slaves : x # s => ea'[x] = ea[x] /\ retryQueue'[x] = retryQueue[x]
  BY <1>1, <1>2 DEF Carries
<1>4. ea'[s].busy = "down"
  BY <1>2 DEF DownEA, EAAt
<1>5. QED
  BY <1>1, <1>3, <1>4, CarriesMove, RetryQueueAssumption

\* Every step of an EA but the one that makes a result, and every step of the
\* backend.
EAMoves ==
  \/ \E s \in Slaves :
       PostArrives(s) \/ PostAnswered(s) \/ PostRefused(s) \/ EAStarts(s) \/ RetryPost(s)
       \/ PollTimesOut(s) \/ PostTimesOut(s) \/ EAStops(s)
  \/ \E s \in Slaves, k \in Slots : StartPoll(s, k) \/ PollStep(s, k) \/ PollThrows(s, k)
  \/ Crash
  \/ UNCHANGED <<ea, retryQueue>>

LEMMA CarriesKept ==
  ASSUME NEW P, Carries(P), ea \in [Slaves -> EA], EAMoves
  PROVE  Carries(P)'
<1>1. ASSUME NEW s \in Slaves, PostAnswered(s) \/ PostRefused(s) \/ PostTimesOut(s)
      PROVE  Carries(P)'
  BY <1>1, CarriesPosted DEF PostAnswered, PostRefused, PostTimesOut, Posting
<1>2. ASSUME NEW s \in Slaves, PostArrives(s) \/ EAStarts(s) \/ PollTimesOut(s)
      PROVE  Carries(P)'
  BY <1>2, CarriesSame DEF PostArrives, EAStarts, PollTimesOut, IdleEA, EAAt, Posting, EA
<1>3. ASSUME NEW s \in Slaves, NEW k \in Slots,
             StartPoll(s, k) \/ PollStep(s, k) \/ PollThrows(s, k)
      PROVE  Carries(P)'
  <2>1. UNCHANGED retryQueue /\ \/ UNCHANGED ea
                                \/ ea' = [ea EXCEPT ![s] = IdleEA]
                                \/ ea' = [ea EXCEPT ![s] = PollingEA(k)]
                                \/ \E i : ea' = [ea EXCEPT ![s] = ExecutingEA(i)]
    BY <1>3 DEF StartPoll, PollStep, PollThrows, FindPending, LookupTicket, FailPending,
       MarkPolled, ReplyInstruction, Answer, eaVars
  <2>2. QED
    BY <2>1, CarriesSame DEF IdleEA, PollingEA, ExecutingEA, EAAt, Posting
<1>4. CASE Crash
  <2>1. \A s \in Slaves : ea'[s] = CASE ea[s].busy = "polling" -> IdleEA
                [] ea[s].busy \in {"posting", "awaiting"} -> [ea[s] EXCEPT !.busy = "refused"]
                [] OTHER -> ea[s]
    BY <1>4 DEF Crash
  <2>2. QED
    BY <1>4, <2>1, CarriesSame DEF Crash, IdleEA, EAAt, Posting, EA
<1>5. CASE UNCHANGED <<ea, retryQueue>>
  BY <1>5, CarriesSame DEF Posting
<1>6. QED
  BY <1>1, <1>2, <1>3, <1>4, <1>5, CarriesRetry, CarriesStopped DEF EAMoves

(***************************************************************************)
(* What a step keeps.                                                      *)
(***************************************************************************)
\* How the rows may change: what was admitted stays so, and no row becomes
\* PENDING once it was taken.
RowsAge ==
  \A c \in Copies :
    /\ Admitted(c) => Admitted(c)'
    /\ Taken(c) => Taken(c)'
    /\ orders'[c].status = "PENDING" => orders'[c].errorReason # "RISK"

LEMMA RowsStay ==
  ASSUME IInv, UNCHANGED orders
  PROVE  RowsAge
BY DEF RowsAge, Admitted, Taken, Exists, IInv, TransportInv, RunOnceTaken

LEMMA ExecutableKept ==
  ASSUME RowsAge, UNCHANGED attempts, NEW s \in Slaves
  PROVE  Executable(s) \subseteq Executable(s)'
BY DEF RowsAge, Executable, Instruction

\* The poll handlers and the EAs, while nothing is executed: an EA goes on
\* waiting for the poll it waited for, or for one that has just begun.
LEMMA TransportKept ==
  ASSUME IInv, RowsAge, UNCHANGED <<attempts, actedOn>>, EAMoves,
         \A s \in Slaves : ea'[s] = ea[s] \/ EASound(s)',
         \A s \in Slaves, k \in Slots :
           \/ poll'[s][k] = poll[s][k] /\ (ea'[s].awaits = k => ea[s].awaits = k)
           \/ poll'[s][k].pc \in {"free", "find"}
           \/ HoldsRow(s, k)'
  PROVE  TransportInv'
<1>1. RunOnceTaken'
  BY DEF IInv, TransportInv, RunOnceTaken, RowsAge
<1>2. PollsSound'
  BY DEF IInv, TransportInv, PollsSound, HoldsRow, RowsAge
<1>3. EAsSound'
  BY ExecutableKept DEF IInv, TransportInv, EAsSound, EASound
<1>4. ResultsHonest'
  <2>1. PICK P : P = HonestResults
    OBVIOUS
  <2>2. Carries(P)'
    BY <2>1, CarriesKept DEF IInv, TypeOK, TransportInv, ResultsHonest
  <2>3. HonestResults' = P
    BY <2>1 DEF HonestResults, Honest
  <2>4. QED
    BY <2>2, <2>3 DEF ResultsHonest, Carries
<1>5. ActedOnEntitled'
  BY DEF IInv, TransportInv, ActedOnEntitled
<1>6. QED
  BY <1>1, <1>2, <1>3, <1>4, <1>5 DEF TransportInv

LEMMA BackendStays ==
  ASSUME IInv, UNCHANGED <<orders, handler, job, recording, attempts, actedOn>>
  PROVE  BackendInv'
BY DEF IInv, BackendInv, JobsInOrder, RecordingsHonest, RowsHonest, Honest, Exists

LEMMA QueueType ==
  ASSUME NEW P, P \subseteq Result, NEW q \in Seq(Waiting(P))
  PROVE  q \in Seq(Waiting(Result))
<1>1. Waiting(P) \subseteq Waiting(Result)
  BY DEF Waiting
<1>2. QED
  BY <1>1

\* The types that no transport step touches.
LEMMA TypeKept ==
  ASSUME TypeOK, TransportInv', EngineTypeOK', TerminalTypeOK',
         online' \in [Slaves -> BOOLEAN], beating' \in [Slaves -> BOOLEAN],
         poll' \in [Slaves -> [Slots -> Poll]], ea' \in [Slaves -> EA],
         timeouts' \in Nat, faults' \in Nat
  PROVE  TypeOK'
<1>1. HonestResults' \subseteq Result
  BY DEF HonestResults
<1>2. ASSUME NEW s \in Slaves
      PROVE  retryQueue'[s] \in Seq(Waiting(Result)) /\ Len(retryQueue'[s]) <= MaxQueue
  <2>1. /\ retryQueue'[s] \in Seq(Waiting(HonestResults'))
        /\ Len(retryQueue'[s]) <= MaxQueue
    BY DEF TransportInv, ResultsHonest, Carries
  <2>2. QED
    BY <1>1, <2>1, QueueType
<1>3. QED
  BY <1>2 DEF TypeOK

LEMMA FaultsType ==
  ASSUME TypeOK, Timeout \/ Fault \/ UNCHANGED faultVars
  PROVE  timeouts' \in Nat /\ faults' \in Nat
BY DEF TypeOK, Timeout, Fault, faultVars

(***************************************************************************)
(* The engine.                                                             *)
(***************************************************************************)
\* A job that moves without writing.
LEMMA JobMovesInv ==
  ASSUME IInv, NEW c \in Copies,
         UNCHANGED <<orders, handler, recording, attempts, actedOn>>,
         \A d \in Copies : d # c => job'[d] = job[d],
         job[c].pc # "idle",
         \/ job'[c].pc \notin {"idle", "gather", "reject", "create"}
         \/ job[c].pc = "gather"
  PROVE  RowsAge /\ BackendInv'
BY RowsStay
   DEF IInv, BackendInv, JobsInOrder, RecordingsHonest, RowsHonest, Honest, Exists

LEMMA HandlerInv ==
  ASSUME IInv, NEW e \in Events, UNCHANGED terminalVars,
         \/ PublishEvent(e) \/ PersistEvent(e) \/ PersistFails(e) \/ EventMissed(e)
         \/ LookupEvent(e) \/ RetryLookup(e) \/ HandlerThrows(e)
  PROVE  RowsAge /\ BackendInv'
<1>1. UNCHANGED <<orders, clock, job, recording, attempts, actedOn>>
  BY DEF PublishEvent, PersistEvent, PersistFails, EventMissed, LookupEvent, RetryLookup,
     HandlerThrows, HandlerGoes, KeepRows, terminalVars
<1>2. ASSUME NEW c \in Copies,
             handler'[c[1]] \in {"unpublished", "lookup", "retry", "fanout"}
      PROVE  handler[c[1]] \in {"unpublished", "lookup", "retry", "fanout"}
  <2>1. c[1] \in Events
    BY DEF Copies
  <2>2. QED
    BY <1>2, <2>1 DEF IInv, TypeOK, EngineTypeOK, PublishEvent, PersistEvent, PersistFails,
       EventMissed, LookupEvent, RetryLookup, HandlerThrows, HandlerGoes
<1>3. QED
  BY <1>1, <1>2, RowsStay
     DEF IInv, BackendInv, JobsInOrder, RecordingsHonest, RowsHonest, Honest, Exists

LEMMA FanOutInv ==
  ASSUME IInv, NEW e \in Events, FanOut(e), UNCHANGED terminalVars
  PROVE  RowsAge /\ BackendInv'
<1>1. UNCHANGED <<orders, clock, recording, attempts, actedOn>>
  BY DEF FanOut, KeepRows, terminalVars
<1>2. \A c \in Copies : \/ job'[c] = job[c]
                        \/ job[c].pc = "idle" /\ job'[c].pc = "gather" /\ c[1] = e
  BY DEF FanOut, IInv, BackendInv, JobsInOrder, JobAt
<1>3. \A d \in Events : handler'[d] = IF d = e THEN "done" ELSE handler[d]
  BY DEF IInv, TypeOK, EngineTypeOK, FanOut
<1>4. \A c \in Copies : c[1] \in Events
  BY DEF Copies
<1>5. QED
  BY <1>1, <1>2, <1>3, <1>4, RowsStay
     DEF IInv, BackendInv, JobsInOrder, RecordingsHonest, RowsHonest, Honest, Exists

LEMMA GatherInv ==
  ASSUME IInv, NEW c \in Copies, GatherStep(c) \/ JobThrows(c), UNCHANGED terminalVars
  PROVE  RowsAge /\ BackendInv'
<1>1. UNCHANGED <<orders, handler, recording, attempts, actedOn>>
  BY DEF GatherStep, ReadOpens, ReadCloses, AcceptOpen, RefuseOpen, FindTicket, JobThrows,
         JobOnly, KeepRows, terminalVars
<1>2. job \in [Copies -> Job]
  BY DEF IInv, TypeOK, EngineTypeOK
<1>3. \A d \in Copies : d # c => job'[d] = job[d]
  BY <1>2, JobGoesFacts, JobEndsFacts
     DEF GatherStep, ReadOpens, ReadCloses, AcceptOpen, RefuseOpen, FindTicket, JobThrows
<1>4. /\ GatherStep(c) => job[c].pc = "gather"
      /\ JobThrows(c) => job[c].pc # "idle" /\ job'[c].pc = "done"
  BY <1>2, JobEndsFacts
     DEF GatherStep, ReadOpens, ReadCloses, AcceptOpen, RefuseOpen, FindTicket, SummaryRead,
         Gathering, JobThrows
<1>5. QED
  BY <1>1, <1>3, <1>4, JobMovesInv

LEMMA CheckOnlineInv ==
  ASSUME IInv, NEW c \in Copies, CheckOnline(c)
  PROVE  RowsAge /\ BackendInv'
<1>1. UNCHANGED <<orders, handler, recording, attempts, actedOn>>
  BY DEF CheckOnline, JobOnly, KeepRows, terminalVars
<1>2. /\ job[c].pc = "dispatch" /\ job'[c].pc \in {"done", "markOffline"}
      /\ \A d \in Copies : d # c => job'[d] = job[d]
  BY JobGoesFacts, JobEndsFacts DEF IInv, TypeOK, EngineTypeOK, CheckOnline
<1>3. QED
  BY <1>1, <1>2, JobMovesInv

\* A created row is new: nothing is known of its copy yet.
LEMMA CreateInv ==
  ASSUME IInv, NEW c \in Copies, CreateFailed(c) \/ CreatePending(c), UNCHANGED terminalVars
  PROVE  RowsAge /\ BackendInv'
<1>1. UNCHANGED <<handler, recording, attempts, actedOn>>
  BY DEF CreateFailed, CreatePending, terminalVars
<1>2. job[c].pc \in {"reject", "create"} /\ ~Exists(orders, c)
  BY DEF CreateFailed, CreatePending, IInv, BackendInv, JobsInOrder
<1>3. /\ orders'[c].slaveTicket = NoTicket
      /\ \/ orders'[c].status = "FAILED"
         \/ orders'[c].status = "PENDING" /\ orders'[c].errorReason = "NONE"
      /\ \A d \in Copies : d # c => orders'[d] = orders[d]
  BY CreateRowFacts DEF CreateFailed, CreatePending, IInv, TypeOK, EngineTypeOK
<1>4. /\ job'[c].pc \in {"done", "dispatch"}
      /\ \A d \in Copies : d # c => job'[d] = job[d]
  BY JobGoesFacts, JobEndsFacts DEF CreateFailed, CreatePending, IInv, TypeOK, EngineTypeOK
<1>5. RowsAge
  BY <1>2, <1>3 DEF RowsAge, Admitted, Taken, Exists, IInv, TransportInv, RunOnceTaken
<1>6. JobsInOrder' /\ RecordingsHonest' /\ RowsHonest'
  BY <1>1, <1>2, <1>3, <1>4
     DEF IInv, BackendInv, JobsInOrder, RecordingsHonest, RowsHonest, Honest, Exists
<1>7. QED
  BY <1>5, <1>6 DEF BackendInv

\* An update of status and reason of a row that is not the mark of a refusal.
LEMMA UpdateInv ==
  ASSUME IInv, NEW c \in Copies, NEW status \in {"SENT", "FAILED"}, NEW reason,
         UpdateRow(c, status, reason), reason # "RISK" \/ ~Admitted(c),
         job[c].pc \notin {"idle", "gather", "reject", "create"},
         \A d \in Copies : job'[d] = job[d] \/ (d = c /\ job'[d].pc = "done"),
         UNCHANGED <<handler, recording, attempts, actedOn>>
  PROVE  RowsAge /\ BackendInv'
<1>1. /\ orders'[c].status = status /\ orders'[c].errorReason = reason
      /\ orders'[c].slaveTicket = orders[c].slaveTicket
      /\ \A d \in Copies : d # c => orders'[d] = orders[d]
  BY UpdateRowFacts DEF IInv, TypeOK, EngineTypeOK
<1>2. RowsAge
  BY <1>1 DEF RowsAge, Admitted, Taken, Exists, IInv, TransportInv, RunOnceTaken
<1>3. JobsInOrder' /\ RecordingsHonest' /\ RowsHonest'
  BY <1>1
     DEF IInv, BackendInv, JobsInOrder, RecordingsHonest, RowsHonest, Honest, Exists
<1>4. QED
  BY <1>2, <1>3 DEF BackendInv

LEMMA MarkOfflineInv ==
  ASSUME IInv, NEW c \in Copies, MarkOffline(c), UNCHANGED terminalVars
  PROVE  RowsAge /\ BackendInv'
<1>1. /\ job[c].pc = "markOffline"
      /\ \A d \in Copies : job'[d] = job[d] \/ (d = c /\ job'[d].pc = "done")
  BY JobEndsFacts DEF IInv, TypeOK, EngineTypeOK, MarkOffline
<1>2. UpdateRow(c, "FAILED", "SLAVE_OFFLINE")
      /\ UNCHANGED <<handler, recording, attempts, actedOn>>
  BY DEF MarkOffline, terminalVars
<1>3. QED
  BY <1>1, <1>2, UpdateInv

\* A report is recorded: the row of a copy that was run.
LEMMA RecordInv ==
  ASSUME IInv, NEW r \in recording, RecordResult(r) \/ RecordingThrows(r),
         UNCHANGED terminalVars
  PROVE  RowsAge /\ BackendInv'
<1>1. r \in Recording /\ r.copy \in Copies /\ Honest(r)
  BY DEF IInv, TypeOK, EngineTypeOK, BackendInv, RecordingsHonest, Recording
<1>2. UNCHANGED <<handler, job, attempts, actedOn>> /\ recording' \subseteq recording
  BY DEF RecordResult, RecordingThrows, KeepRows, terminalVars
<1>3. CASE RecordingThrows(r)
  BY <1>2, <1>3, RowsStay
     DEF RecordingThrows, KeepRows, IInv, BackendInv, JobsInOrder, RecordingsHonest, Honest,
         RowsHonest, Exists
<1>4. CASE RecordResult(r)
  <2>1. /\ orders'[r.copy].status = r.status /\ r.status \in {"EXECUTED", "FAILED"}
        /\ orders'[r.copy].slaveTicket = r.slaveTicket
        /\ orders'[r.copy].errorReason \in {"REPORTED", orders[r.copy].errorReason}
        /\ \A d \in Copies : d # r.copy => orders'[d] = orders[d]
    BY <1>1, <1>4 DEF RecordResult, IInv, TypeOK, EngineTypeOK, Row, Recording
  <2>2. Admitted(r.copy) /\ Taken(r.copy)
    BY <1>1 DEF Honest, Taken, IInv, TransportInv, RunOnceTaken
  <2>3. RowsAge
    BY <2>1, <2>2 DEF RowsAge, Admitted, Taken, Exists, IInv, TransportInv, RunOnceTaken
  <2>4. JobsInOrder' /\ RecordingsHonest' /\ RowsHonest'
    BY <1>1, <1>2, <2>1, <2>2
       DEF IInv, BackendInv, JobsInOrder, RecordingsHonest, Honest, RowsHonest, Exists, Admitted
  <2>5. QED
    BY <2>3, <2>4 DEF BackendInv
<1>5. QED
  BY <1>3, <1>4

LEMMA BackendCrashInv ==
  ASSUME IInv, BackendCrash, UNCHANGED terminalVars
  PROVE  RowsAge /\ BackendInv'
<1>1. UNCHANGED <<orders, attempts, actedOn>> /\ recording' = {}
  BY DEF BackendCrash, KeepRows, terminalVars
<1>2. \A c \in Copies : \/ job'[c] = job[c] /\ job[c].pc = "idle"
                        \/ job'[c].pc = "done" /\ job[c].pc # "idle"
  BY DEF BackendCrash, Ended, JobAt
<1>3. \A e \in Events : handler'[e] \in {"unpublished", "lookup", "retry", "fanout"}
                        => handler'[e] = handler[e]
  BY DEF BackendCrash, IInv, TypeOK, EngineTypeOK
<1>4. \A c \in Copies : c[1] \in Events
  BY DEF Copies
<1>5. QED
  BY <1>1, <1>2, <1>3, <1>4, RowsStay
     DEF IInv, BackendInv, JobsInOrder, RecordingsHonest, RowsHonest, Honest, Exists

LEMMA EngineStepInv ==
  ASSUME IInv, EngineStep \/ EngineCallFails, UNCHANGED terminalVars
  PROVE  RowsAge /\ BackendInv'
<1>1. ASSUME NEW e \in Events,
             \/ PublishEvent(e) \/ PersistEvent(e) \/ HandlerStep(e)
             \/ EventMissed(e) \/ PersistFails(e) \/ HandlerThrows(e)
      PROVE  RowsAge /\ BackendInv'
  BY <1>1, HandlerInv, FanOutInv DEF HandlerStep
<1>2. ASSUME NEW s \in Slaves, PatchSlave(s) PROVE RowsAge /\ BackendInv'
  BY <1>2, BackendStays, RowsStay DEF PatchSlave, KeepRows, terminalVars
<1>3. QED
  BY <1>1, <1>2, GatherInv, CreateInv, MarkOfflineInv, RecordInv
     DEF EngineStep, EngineCallFails, WriteStep

(***************************************************************************)
(* Steps that leave the terminals alone.                                   *)
(***************************************************************************)
LEMMA EngineAloneInv ==
  ASSUME IInv, RowsAge, BackendInv', EngineTypeOK', timeouts' \in Nat, faults' \in Nat,
         UNCHANGED <<terminalVars, connectorVars, poll, eaVars>>
  PROVE  IInv'
<1>1. UNCHANGED <<attempts, actedOn, positions, online, beating, poll, ea, retryQueue>>
  BY DEF terminalVars, connectorVars, eaVars
<1>2. EAMoves
  BY <1>1 DEF EAMoves
<1>3. TransportInv'
  BY <1>1, <1>2, TransportKept
<1>4. TypeOK'
  BY <1>1, <1>3, TypeKept DEF IInv, TypeOK, TerminalTypeOK
<1>5. QED
  BY <1>3, <1>4 DEF IInv

LEMMA ConnectorInv ==
  ASSUME IInv, NEW s \in Slaves, RecordHeartbeat(s) \/ SweepOffline(s)
  PROVE  IInv'
<1>1. /\ UNCHANGED <<orders, handler, job, recording, attempts, actedOn, poll, ea, retryQueue>>
      /\ UNCHANGED <<engineVars, terminalVars, timeouts, faults>>
  BY DEF RecordHeartbeat, SweepOffline, engineVars, terminalVars, eaVars, faultVars
<1>2. EAMoves
  BY <1>1 DEF EAMoves
<1>3. TransportInv'
  BY <1>1, <1>2, TransportKept, RowsStay
<1>4. EngineTypeOK' /\ TerminalTypeOK'
  BY <1>1 DEF IInv, TypeOK, EngineTypeOK, engineVars, TerminalTypeOK, terminalVars
<1>5. online' \in [Slaves -> BOOLEAN] /\ beating' \in [Slaves -> BOOLEAN]
  BY DEF IInv, TypeOK, RecordHeartbeat, SweepOffline
<1>6. TypeOK'
  BY <1>1, <1>3, <1>4, <1>5, TypeKept DEF IInv, TypeOK
<1>7. QED
  BY <1>1, <1>3, <1>6, BackendStays DEF IInv

\* One poll handler moves; its EA goes on waiting, or stops, or, if this is
\* the beginning, waits for it.
LEMMA PollMovesInv ==
  ASSUME IInv, NEW s \in Slaves, NEW k \in Slots, NEW p \in Poll, NEW state \in EA,
         RowsAge, BackendInv', EngineTypeOK', EAMoves,
         UNCHANGED <<terminalVars, online, retryQueue>>,
         beating' \in [Slaves -> BOOLEAN], timeouts' \in Nat, faults' \in Nat,
         poll' = [poll EXCEPT ![s][k] = p],
         ea' = [ea EXCEPT ![s] = state],
         state.awaits \in {NoSlot, k, ea[s].awaits},
         state = ea[s] \/ EASound(s)',
         p.pc \in {"free", "find"} \/ HoldsRow(s, k)'
  PROVE  IInv'
<1>1. /\ poll \in [Slaves -> [Slots -> Poll]] /\ ea \in [Slaves -> EA]
      /\ UNCHANGED <<attempts, actedOn>>
  BY DEF IInv, TypeOK, terminalVars
<1>2. /\ poll' \in [Slaves -> [Slots -> Poll]] /\ ea' \in [Slaves -> EA]
      /\ poll'[s][k] = p /\ ea'[s] = state
      /\ \A x \in Slaves : x # s => ea'[x] = ea[x] /\ poll'[x] = poll[x]
      /\ \A j \in Slots : j # k => poll'[s][j] = poll[s][j]
  BY <1>1
<1>3. \A x \in Slaves : ea'[x] = ea[x] \/ EASound(x)'
  BY <1>2
<1>4. ASSUME NEW x \in Slaves, NEW j \in Slots
      PROVE  \/ poll'[x][j] = poll[x][j] /\ (ea'[x].awaits = j => ea[x].awaits = j)
             \/ poll'[x][j].pc \in {"free", "find"}
             \/ HoldsRow(x, j)'
  BY <1>2, PollCopyAssumption
<1>5. TransportInv'
  BY <1>1, <1>3, <1>4, TransportKept
<1>6. TypeOK'
  BY <1>2, <1>5, TypeKept DEF IInv, TypeOK, TerminalTypeOK, terminalVars
<1>7. QED
  BY <1>5, <1>6 DEF IInv

\* What the EA does with an answer of poll k.
LEMMA Answered ==
  ASSUME IInv, NEW s \in Slaves, NEW k \in Slots, NEW next \in EA, next.awaits = NoSlot,
         Answer(s, k, next)
  PROVE  \E state \in EA :
           /\ ea' = [ea EXCEPT ![s] = state]
           /\ state.awaits \in {NoSlot, ea[s].awaits}
           /\ state = ea[s] \/ (state = next /\ ea[s].awaits = k)
<1>1. ea \in [Slaves -> EA]
  BY DEF IInv, TypeOK
<1>2. CASE ea[s].awaits = k
  BY <1>1, <1>2 DEF Answer
<1>3. CASE ea[s].awaits # k
  <2>1. ea' = [ea EXCEPT ![s] = ea[s]]
    BY <1>1, <1>3 DEF Answer
  <2>2. QED
    BY <1>1, <2>1
<1>4. QED
  BY <1>2, <1>3

LEMMA IdleSound ==
  ASSUME NEW s \in Slaves, ea'[s] \in {IdleEA, DownEA}
  PROVE  EASound(s)'
BY DEF EASound, IdleEA, DownEA, EAAt

LEMMA FreePollType == FreePoll \in Poll /\ FreePoll.pc = "free"
BY CopyFacts DEF FreePoll, Poll

\* A poll that ends without an instruction: 204, or 500.
LEMMA PollEndsInv ==
  ASSUME IInv, NEW s \in Slaves, NEW k \in Slots, PollEnds(s, k), Answer(s, k, IdleEA),
         RowsAge, BackendInv', EngineTypeOK', EAMoves,
         UNCHANGED <<terminalVars, connectorVars, retryQueue>>,
         timeouts' \in Nat, faults' \in Nat
  PROVE  IInv'
<1>1. IdleEA \in EA /\ IdleEA.awaits = NoSlot
  BY EAStates DEF IdleEA, EAAt
<1>2. PICK state \in EA : /\ ea' = [ea EXCEPT ![s] = state]
                          /\ state.awaits \in {NoSlot, ea[s].awaits}
                          /\ state = ea[s] \/ state = IdleEA
  BY <1>1, Answered
<1>3. state = ea[s] \/ EASound(s)'
  BY <1>2, IdleSound DEF IInv, TypeOK
<1>4. UNCHANGED online /\ beating' \in [Slaves -> BOOLEAN]
  BY DEF connectorVars, IInv, TypeOK
<1>5. poll' = [poll EXCEPT ![s][k] = FreePoll]
  BY DEF PollEnds
<1>6. QED
  BY <1>2, <1>3, <1>4, <1>5, FreePollType, PollMovesInv

LEMMA EngineStays ==
  ASSUME IInv, UNCHANGED engineVars, UNCHANGED terminalVars
  PROVE  RowsAge /\ BackendInv' /\ EngineTypeOK'
<1>1. UNCHANGED <<orders, handler, job, recording, attempts, actedOn>>
  BY DEF engineVars, terminalVars
<1>2. EngineTypeOK'
  BY DEF IInv, TypeOK, EngineTypeOK, engineVars
<1>3. QED
  BY <1>1, <1>2, RowsStay, BackendStays

LEMMA StartPollInv ==
  ASSUME IInv, NEW s \in Slaves, NEW k \in Slots, StartPoll(s, k)
  PROVE  IInv'
<1> DEFINE p == [FreePoll EXCEPT !.pc = "find"]
<1>1. p \in Poll /\ p.pc = "find"
  BY CopyFacts DEF FreePoll, Poll
<1>2. PollingEA(k) \in EA /\ PollingEA(k).awaits = k
  BY EAStates DEF PollingEA, EAAt
<1>3. /\ poll' = [poll EXCEPT ![s][k] = p] /\ ea' = [ea EXCEPT ![s] = PollingEA(k)]
      /\ UNCHANGED <<engineVars, terminalVars, online, retryQueue, timeouts, faults>>
      /\ beating' \in [Slaves -> BOOLEAN]
  BY DEF StartPoll, IInv, TypeOK, faultVars
<1>4. EASound(s)'
  BY <1>3 DEF EASound, PollingEA, EAAt, IInv, TypeOK
<1>5. EAMoves
  BY DEF EAMoves
<1>6. timeouts' \in Nat /\ faults' \in Nat
  BY <1>3 DEF IInv, TypeOK
<1> HIDE DEF p
<1>7. QED
  BY <1>1, <1>2, <1>3, <1>4, <1>5, <1>6, EngineStays, PollMovesInv

\* The row found is PENDING, so its copy has not been run.
LEMMA FindPendingInv ==
  ASSUME IInv, NEW s \in Slaves, NEW k \in Slots, FindPending(s, k)
  PROVE  IInv'
<1> DEFINE rows == PendingOf(s)
<1>0. PICK c : c = Oldest(rows)
  OBVIOUS
<1> DEFINE p == [poll[s][k] EXCEPT !.copy = c,
                   !.pc = IF TypeOfCopy(c) = "OPEN" THEN "mark" ELSE "lookup"]
<1>1. /\ UNCHANGED <<engineVars, terminalVars, connectorVars, retryQueue, timeouts, faults>>
      /\ RowsAge /\ BackendInv' /\ EngineTypeOK'
  BY EngineStays DEF FindPending, faultVars
<1>2. EAMoves
  BY DEF EAMoves, PollStep
<1>3. timeouts' \in Nat /\ faults' \in Nat
  BY <1>1 DEF IInv, TypeOK
<1>4. CASE rows = {}
  BY <1>1, <1>2, <1>3, <1>4, PollEndsInv DEF FindPending
<1>5. CASE rows # {}
  <2>1. c \in rows
    <3>1. rows \in SUBSET Copies
      BY DEF PendingOf
    <3> HIDE DEF rows
    <3>2. QED
      BY <1>0, <1>5, <3>1, OldestIsRow DEF IInv, TypeOK
  <2>2. /\ c \in Copies /\ SlaveOf(c) = s /\ orders[c].status = "PENDING"
    BY <2>1 DEF PendingOf
  <2>3. /\ poll' = [poll EXCEPT ![s][k].copy = c,
              ![s][k].pc = IF TypeOfCopy(c) = "OPEN" THEN "mark" ELSE "lookup"]
        /\ UNCHANGED ea
    BY <1>0, <1>5 DEF FindPending
  <2>4. poll[s][k] \in Poll /\ poll \in [Slaves -> [Slots -> Poll]] /\ ea \in [Slaves -> EA]
    BY DEF IInv, TypeOK
  <2>5. p \in Poll /\ p.copy = c /\ p.pc = IF TypeOfCopy(c) = "OPEN" THEN "mark" ELSE "lookup"
    BY <2>2, <2>4, CopyFacts DEF Poll
  <2>6. poll' = [poll EXCEPT ![s][k] = p]
    BY <2>3, <2>4
  <2> HIDE DEF p
  <2>7. poll'[s][k] = p
    BY <2>4, <2>6
  <2>8. Admitted(c) /\ attempts[c] = 0
    BY <2>2 DEF Admitted, Exists, Taken, IInv, TransportInv, RunOnceTaken, TypeOK, TerminalTypeOK
  <2>9. Admitted(c)' /\ attempts'[c] = 0
    BY <1>1, <2>8 DEF engineVars, terminalVars, Admitted, Exists
  <2>10. HoldsRow(s, k)'
    BY <2>2, <2>5, <2>7, <2>9 DEF HoldsRow, Entitled
  <2>11. ea[s] \in EA /\ ea' = [ea EXCEPT ![s] = ea[s]]
    BY <2>3, <2>4
  <2>12. UNCHANGED online /\ beating' \in [Slaves -> BOOLEAN]
    BY <1>1 DEF connectorVars, IInv, TypeOK
  <2>13. QED
    BY <1>1, <1>2, <1>3, <2>5, <2>6, <2>10, <2>11, <2>12, PollMovesInv
<1>6. QED
  BY <1>4, <1>5

LEMMA LookupTicketInv ==
  ASSUME IInv, NEW s \in Slaves, NEW k \in Slots, LookupTicket(s, k)
  PROVE  IInv'
<1> DEFINE c == poll[s][k].copy
           t == FindExecutedOpenSlaveTicket(orders, s, MasterTicketOf(c))
           p == [poll[s][k] EXCEPT !.slaveTicket = t,
                   !.pc = IF t = NoTicket THEN "fail" ELSE "mark"]
<1>1. /\ UNCHANGED <<engineVars, terminalVars, connectorVars, ea, retryQueue, timeouts, faults>>
      /\ RowsAge /\ BackendInv' /\ EngineTypeOK'
  BY EngineStays DEF LookupTicket, faultVars, eaVars
<1>2. EAMoves
  BY DEF EAMoves, PollStep
<1>3. timeouts' \in Nat /\ faults' \in Nat
  BY <1>1 DEF IInv, TypeOK
<1>4. HoldsRow(s, k) /\ c \in Copies /\ SlaveOf(c) = s
  BY DEF IInv, TransportInv, PollsSound, LookupTicket, HoldsRow
<1>5. /\ poll' = [poll EXCEPT ![s][k].slaveTicket = t,
                              ![s][k].pc = IF t = NoTicket THEN "fail" ELSE "mark"]
  BY DEF LookupTicket
<1>6. t \in Tickets
  BY FoundTicketType DEF IInv, TypeOK, EngineTypeOK
<1>7. t # NoTicket => Entitled(c, t)
  BY <1>4, FoundTicketEntitled
     DEF IInv, TypeOK, BackendInv, TransportInv
<1>8. poll[s][k] \in Poll /\ poll \in [Slaves -> [Slots -> Poll]] /\ ea \in [Slaves -> EA]
  BY DEF IInv, TypeOK
<1> HIDE DEF t
<1>9. p \in Poll /\ p.copy = c /\ p.pc = (IF t = NoTicket THEN "fail" ELSE "mark")
      /\ p.slaveTicket = t
  BY <1>6, <1>8 DEF Poll
<1>10. poll' = [poll EXCEPT ![s][k] = p]
  BY <1>5, <1>8
<1> HIDE DEF p
<1>11. poll'[s][k] = p
  BY <1>8, <1>10
<1>12. HoldsRow(s, k)'
  BY <1>1, <1>4, <1>7, <1>9, <1>11
     DEF HoldsRow, Admitted, Taken, Exists, engineVars, terminalVars
<1>13. ea[s] \in EA /\ ea' = [ea EXCEPT ![s] = ea[s]]
  BY <1>1, <1>8
<1>14. UNCHANGED online /\ beating' \in [Slaves -> BOOLEAN]
  BY <1>1 DEF connectorVars, IInv, TypeOK
<1>15. QED
  BY <1>1, <1>2, <1>3, <1>9, <1>10, <1>12, <1>13, <1>14, PollMovesInv

\* The row of a poll handler exists, so its job is past the create.
LEMMA PollUpdateInv ==
  ASSUME IInv, NEW s \in Slaves, NEW k \in Slots, HoldsRow(s, k),
         NEW status \in {"SENT", "FAILED"}, NEW reason \in Reasons,
         UpdateRow(poll[s][k].copy, status, reason),
         reason # "RISK", UNCHANGED <<trade, handler, job, recording, slaveMode>>,
         UNCHANGED terminalVars
  PROVE  RowsAge /\ BackendInv' /\ EngineTypeOK' /\ \A c : c = poll[s][k].copy => Taken(c)'
<1>0. PICK c : c = poll[s][k].copy
  OBVIOUS
<1>1. c \in Copies /\ Admitted(c) /\ UpdateRow(c, status, reason)
  BY <1>0 DEF HoldsRow
<1>2. job[c].pc \notin {"idle", "gather", "reject", "create"}
  BY <1>1 DEF Admitted, IInv, BackendInv, JobsInOrder
<1>3. UNCHANGED <<attempts, actedOn>>
  BY DEF terminalVars
<1>4. RowsAge /\ BackendInv'
  BY <1>1, <1>2, <1>3, UpdateInv
<1>5. RowsTyped'
  BY <1>1, UpdateRowType DEF IInv, TypeOK, EngineTypeOK, RowsTyped, Statuses
<1>6. EngineTypeOK'
  BY <1>5 DEF IInv, TypeOK, EngineTypeOK, RowsTyped
<1>7. orders'[c].status = status /\ orders'[c].errorReason = reason
  BY <1>1, UpdateRowFacts DEF IInv, TypeOK, EngineTypeOK
<1>8. Taken(c)'
  BY <1>7 DEF Taken, Admitted, Exists
<1>9. QED
  BY <1>0, <1>4, <1>6, <1>8

LEMMA FailPendingInv ==
  ASSUME IInv, NEW s \in Slaves, NEW k \in Slots, FailPending(s, k)
  PROVE  IInv'
<1>1. HoldsRow(s, k)
  BY DEF IInv, TransportInv, PollsSound, FailPending
<1>2. /\ UNCHANGED <<terminalVars, connectorVars, retryQueue, timeouts, faults>>
      /\ UNCHANGED <<trade, handler, job, recording, slaveMode>>
      /\ UpdateRow(poll[s][k].copy, "FAILED", "NO_MATCHING_OPEN_COPY")
      /\ PollEnds(s, k) /\ Answer(s, k, IdleEA)
  BY DEF FailPending, faultVars
<1>3. RowsAge /\ BackendInv' /\ EngineTypeOK'
  BY <1>1, <1>2, PollUpdateInv DEF Reasons
<1>4. EAMoves
  BY DEF EAMoves, PollStep
<1>5. timeouts' \in Nat /\ faults' \in Nat
  BY <1>2 DEF IInv, TypeOK
<1>6. QED
  BY <1>2, <1>3, <1>4, <1>5, PollEndsInv

LEMMA MarkPolledInv ==
  ASSUME IInv, NEW s \in Slaves, NEW k \in Slots, MarkPolled(s, k)
  PROVE  IInv'
<1>0. PICK c : c = poll[s][k].copy
  OBVIOUS
<1> DEFINE p == [poll[s][k] EXCEPT !.pc = "reply"]
<1>1. HoldsRow(s, k) /\ poll[s][k].pc = "mark"
  BY DEF IInv, TransportInv, PollsSound, MarkPolled
<1>2. /\ UNCHANGED <<terminalVars, connectorVars, ea, retryQueue, timeouts, faults>>
      /\ UNCHANGED <<trade, handler, job, recording, slaveMode>>
      /\ UpdateRow(c, "SENT", orders[c].errorReason)
      /\ poll' = [poll EXCEPT ![s][k].pc = "reply"]
  BY <1>0 DEF MarkPolled, PollGoes, eaVars, faultVars
<1>3. c \in Copies /\ Admitted(c)
  BY <1>0, <1>1 DEF HoldsRow
<1>4. orders[c].errorReason \in Reasons /\ orders[c].errorReason # "RISK"
  BY <1>3 DEF Admitted, IInv, TypeOK, EngineTypeOK, Row
<1>5. RowsAge /\ BackendInv' /\ EngineTypeOK' /\ Taken(c)'
  BY <1>0, <1>1, <1>2, <1>4, PollUpdateInv
<1>6. EAMoves
  BY DEF EAMoves, PollStep
<1>7. timeouts' \in Nat /\ faults' \in Nat
  BY <1>2 DEF IInv, TypeOK
<1>8. poll[s][k] \in Poll /\ poll \in [Slaves -> [Slots -> Poll]] /\ ea \in [Slaves -> EA]
  BY DEF IInv, TypeOK
<1>9. p \in Poll /\ p.copy = c /\ p.pc = "reply" /\ p.slaveTicket = poll[s][k].slaveTicket
  BY <1>0, <1>8 DEF Poll
<1>10. poll' = [poll EXCEPT ![s][k] = p]
  BY <1>2, <1>8
<1> HIDE DEF p
<1>11. poll'[s][k] = p
  BY <1>8, <1>10
<1>12. HoldsRow(s, k)'
  <2>1. /\ SlaveOf(c) = s /\ Entitled(c, poll[s][k].slaveTicket)
        /\ ea[s].awaits = k => attempts[c] = 0
    BY <1>0, <1>1 DEF HoldsRow
  <2>2. Admitted(c)'
    BY <1>5 DEF Taken
  <2>3. attempts' = attempts
    BY <1>2 DEF terminalVars
  <2>4. QED
    BY <1>2, <1>3, <1>5, <1>9, <1>11, <2>1, <2>2, <2>3 DEF HoldsRow
<1>13. ea[s] \in EA /\ ea' = [ea EXCEPT ![s] = ea[s]]
  BY <1>2, <1>8
<1>14. UNCHANGED <<terminalVars, online, retryQueue>> /\ beating' \in [Slaves -> BOOLEAN]
  BY <1>2 DEF connectorVars, IInv, TypeOK
<1>15. RowsAge /\ BackendInv' /\ EngineTypeOK'
  BY <1>5
<1>16. QED
  BY <1>15, <1>6, <1>7, <1>9, <1>10, <1>12, <1>13, <1>14, PollMovesInv

\* The EA executes what the poll it waits for answers: not run before.
LEMMA ReplyInstructionInv ==
  ASSUME IInv, NEW s \in Slaves, NEW k \in Slots, ReplyInstruction(s, k)
  PROVE  IInv'
<1> DEFINE i == [copy |-> poll[s][k].copy, slaveTicket |-> poll[s][k].slaveTicket]
<1>1. HoldsRow(s, k) /\ poll[s][k].pc = "reply"
  BY DEF IInv, TransportInv, PollsSound, ReplyInstruction
<1>2. /\ UNCHANGED <<engineVars, terminalVars, connectorVars, retryQueue, timeouts, faults>>
      /\ Answer(s, k, ExecutingEA(i)) /\ poll' = [poll EXCEPT ![s][k] = FreePoll]
  BY DEF ReplyInstruction, PollEnds, faultVars
<1>3. RowsAge /\ BackendInv' /\ EngineTypeOK'
  BY <1>2, EngineStays
<1>4. i \in Instruction /\ i.copy = poll[s][k].copy /\ i.slaveTicket = poll[s][k].slaveTicket
  BY <1>1 DEF HoldsRow, Instruction, IInv, TypeOK, Poll
<1> HIDE DEF i
<1>5. ea[s].awaits = k => i \in Executable(s)
  BY <1>1, <1>4 DEF HoldsRow, Executable
<1>6. /\ ExecutingEA(i) \in EA /\ ExecutingEA(i).awaits = NoSlot
      /\ ExecutingEA(i).busy = "executing" /\ ExecutingEA(i).instruction = i
  BY <1>4, EAStates DEF ExecutingEA, EAAt
<1>7. PICK state \in EA : /\ ea' = [ea EXCEPT ![s] = state]
                          /\ state.awaits \in {NoSlot, ea[s].awaits}
                          /\ state = ea[s] \/ (state = ExecutingEA(i) /\ ea[s].awaits = k)
  BY <1>2, <1>6, Answered
<1>8. state = ea[s] \/ EASound(s)'
  <2>1. SUFFICES ASSUME state = ExecutingEA(i), ea[s].awaits = k PROVE EASound(s)'
    BY <1>7
  <2>2. ea'[s] = ExecutingEA(i)
    BY <1>7, <2>1 DEF IInv, TypeOK
  <2>3. i \in Executable(s)'
    BY <1>2, <1>3, <1>5, <2>1, ExecutableKept DEF terminalVars
  <2>4. QED
    BY <1>6, <2>2, <2>3 DEF EASound
<1>9. EAMoves
  BY DEF EAMoves, PollStep
<1>10. timeouts' \in Nat /\ faults' \in Nat
  BY <1>2 DEF IInv, TypeOK
<1>11. UNCHANGED online /\ beating' \in [Slaves -> BOOLEAN]
  BY <1>2 DEF connectorVars, IInv, TypeOK
<1>12. QED
  BY <1>2, <1>3, <1>7, <1>8, <1>9, <1>10, <1>11, FreePollType, PollMovesInv

LEMMA PollThrowsInv ==
  ASSUME IInv, NEW s \in Slaves, NEW k \in Slots, PollThrows(s, k)
  PROVE  IInv'
<1>1. /\ UNCHANGED <<engineVars, terminalVars, connectorVars, retryQueue>>
      /\ PollEnds(s, k) /\ Answer(s, k, IdleEA)
  BY DEF PollThrows
<1>2. RowsAge /\ BackendInv' /\ EngineTypeOK'
  BY <1>1, EngineStays
<1>3. EAMoves
  BY DEF EAMoves
<1>4. timeouts' \in Nat /\ faults' \in Nat
  BY FaultsType DEF PollThrows, IInv
<1>5. QED
  BY <1>1, <1>2, <1>3, <1>4, PollEndsInv

\* An EA moves by itself, and waits for no poll afterwards.
LEMMA EAMovesInv ==
  ASSUME IInv, NEW s \in Slaves, NEW state \in EA,
         RowsAge, BackendInv', EngineTypeOK', EAMoves,
         UNCHANGED <<terminalVars, online, poll>>,
         beating' \in [Slaves -> BOOLEAN], timeouts' \in Nat, faults' \in Nat,
         ea' = [ea EXCEPT ![s] = state],
         state.awaits = NoSlot, state.busy # "executing"
  PROVE  IInv'
<1>1. ea' \in [Slaves -> EA] /\ ea'[s] = state
      /\ \A x \in Slaves : x # s => ea'[x] = ea[x]
  BY DEF IInv, TypeOK
<1>2. \A x \in Slaves : ea'[x] = ea[x] \/ EASound(x)'
  BY <1>1 DEF EASound
<1>3. \A x \in Slaves, k \in Slots : ea'[x].awaits = k => ea[x].awaits = k
  BY <1>1, PollCopyAssumption
<1>4. TransportInv'
  BY <1>2, <1>3, TransportKept DEF terminalVars
<1>5. TypeOK'
  BY <1>1, <1>4, TypeKept DEF IInv, TypeOK, TerminalTypeOK, terminalVars
<1>6. QED
  BY <1>4, <1>5 DEF IInv

\* It gives up, is answered, refused, stopped or started.
LEMMA EARestsInv ==
  ASSUME IInv, NEW s \in Slaves,
         \/ PostAnswered(s) \/ PostRefused(s) \/ EAStarts(s)
         \/ PollTimesOut(s) \/ PostTimesOut(s) \/ EAStops(s)
  PROVE  IInv'
<1>1. PICK state \in {IdleEA, DownEA} : ea' = [ea EXCEPT ![s] = state]
  BY DEF PostAnswered, PostRefused, EAStarts, PollTimesOut, PostTimesOut, EAStops
<1>2. state \in EA /\ state.awaits = NoSlot /\ state.busy # "executing"
  BY EAStates DEF IdleEA, DownEA, EAAt
<1>3. UNCHANGED <<engineVars, terminalVars, connectorVars, poll>>
      /\ (Timeout \/ Fault \/ UNCHANGED faultVars)
  BY DEF PostAnswered, PostRefused, EAStarts, PollTimesOut, PostTimesOut, EAStops
<1>4. RowsAge /\ BackendInv' /\ EngineTypeOK'
  BY <1>3, EngineStays
<1>5. timeouts' \in Nat /\ faults' \in Nat
  BY <1>3, FaultsType DEF IInv
<1>6. EAMoves
  BY DEF EAMoves
<1>7. UNCHANGED <<terminalVars, online, poll>> /\ beating' \in [Slaves -> BOOLEAN]
  BY <1>3 DEF connectorVars, IInv, TypeOK
<1>8. QED
  BY <1>1, <1>2, <1>4, <1>5, <1>6, <1>7, EAMovesInv

LEMMA RetryPostInv ==
  ASSUME IInv, NEW s \in Slaves, RetryPost(s)
  PROVE  IInv'
<1>1. PICK i \in 1..Len(retryQueue[s]) :
        ea' = [ea EXCEPT ![s] = PostingEA(retryQueue[s][i].payload,
                                          retryQueue[s][i].attempts + 1, i)]
  BY DEF RetryPost
<1>2. retryQueue[s] \in Seq(Waiting(Result))
  BY DEF IInv, TypeOK
<1>3. retryQueue[s][i] \in Waiting(Result) /\ i \in Nat
  BY <1>2, ElementOfSeq, LenProperties
<1>4. PICK r \in Result, n \in Nat : ea' = [ea EXCEPT ![s] = PostingEA(r, n, i)]
  <2>1. PICK r, n : r = retryQueue[s][i].payload /\ n = retryQueue[s][i].attempts + 1
    OBVIOUS
  <2>2. r \in Result /\ n \in Nat
    BY <1>3, <2>1 DEF Waiting
  <2>3. QED
    BY <1>1, <2>1, <2>2
<1>5. PostingEA(r, n, i) \in EA /\ PostingEA(r, n, i).awaits = NoSlot
      /\ PostingEA(r, n, i).busy # "executing"
  BY <1>3, EAStates DEF PostingEA, EAAt
<1>6. UNCHANGED <<engineVars, terminalVars, connectorVars, poll, timeouts, faults>>
  BY DEF RetryPost, faultVars
<1>7. RowsAge /\ BackendInv' /\ EngineTypeOK'
  BY <1>6, EngineStays
<1>8. EAMoves
  BY DEF EAMoves
<1>9. /\ UNCHANGED <<terminalVars, online, poll>> /\ beating' \in [Slaves -> BOOLEAN]
      /\ timeouts' \in Nat /\ faults' \in Nat
  BY <1>6 DEF connectorVars, IInv, TypeOK
<1>10. QED
  BY <1>4, <1>5, <1>7, <1>8, <1>9, EAMovesInv

\* What is posted is honest, and so is what is remembered of it: a result
\* without a ticket falls back to the one in the row.
LEMMA PostArrivesInv ==
  ASSUME IInv, NEW s \in Slaves, PostArrives(s)
  PROVE  IInv'
<1>1. PICK r, n : r = ea[s].result /\ n = ea[s].attempt
  OBVIOUS
<1>2. r \in Result /\ Honest(r) /\ n \in Nat
  BY <1>1 DEF IInv, TransportInv, ResultsHonest, Carries, Posting, HonestResults, PostArrives,
     TypeOK, EA
<1>3. UNCHANGED <<orders, clock, trade, handler, job, slaveMode, attempts, actedOn>>
  BY DEF PostArrives, KeepRows, terminalVars
<1>4. RecordingsHonest'
  <2>1. Honest(RecordingOf(r, n))
    BY <1>2 DEF Honest, RecordingOf, Result, IInv, BackendInv, RowsHonest
  <2>2. recording' \subseteq recording \cup {RecordingOf(r, n)}
    BY <1>1 DEF PostArrives, BeginRecording
  <2>3. QED
    BY <1>3, <2>1, <2>2 DEF IInv, BackendInv, RecordingsHonest, Honest
<1>5. BackendInv'
  BY <1>3, <1>4 DEF IInv, BackendInv, JobsInOrder, RowsHonest, Exists
<1>6. recording' \subseteq Recording
  BY <1>1, <1>2, BeginRecordingType DEF IInv, TypeOK, PostArrives
<1>7. EngineTypeOK'
  BY <1>3, <1>6 DEF IInv, TypeOK, EngineTypeOK
<1> DEFINE state == [ea[s] EXCEPT !.busy = "awaiting"]
<1>8. ea[s].awaits = NoSlot
  BY DEF PostArrives, IInv, TransportInv, EAsSound, EASound
<1>9. state \in EA /\ state.awaits = NoSlot /\ state.busy # "executing"
  BY <1>8 DEF IInv, TypeOK, EA
<1>10. ea' = [ea EXCEPT ![s] = state]
  BY DEF PostArrives
<1> HIDE DEF state
<1>11. EAMoves
  BY DEF EAMoves
<1>12. /\ UNCHANGED <<terminalVars, online, poll>> /\ beating' \in [Slaves -> BOOLEAN]
       /\ timeouts' \in Nat /\ faults' \in Nat
  BY DEF PostArrives, faultVars, IInv, TypeOK
<1>13. RowsAge
  BY <1>3, RowsStay
<1>14. QED
  BY <1>5, <1>7, <1>9, <1>10, <1>11, <1>12, <1>13, EAMovesInv

\* The handlers are gone, and whoever waited for them is refused.
LEMMA CrashInv ==
  ASSUME IInv, Crash
  PROVE  IInv'
<1>1. RowsAge /\ BackendInv'
  BY BackendCrashInv DEF Crash
<1>2. EngineTypeOK'
  BY BackendCrashType DEF Crash, IInv, TypeOK
<1>3. \A s \in Slaves : \/ ea'[s] = ea[s] /\ ea[s].awaits = NoSlot
                        \/ ea'[s] = IdleEA
                        \/ Posting(s) /\ ea'[s] = [ea[s] EXCEPT !.busy = "refused"]
                                      /\ ea[s].awaits = NoSlot
  BY DEF Crash, Posting, IInv, TransportInv, EAsSound, EASound
<1>4. ea' \in [Slaves -> EA]
  <2>1. ASSUME NEW s \in Slaves PROVE ea'[s] \in EA
    <3>1. ea[s] \in EA /\ IdleEA \in EA
      BY EAStates DEF IInv, TypeOK
    <3>2. [ea[s] EXCEPT !.busy = "refused"] \in EA
      BY <3>1 DEF EA
    <3>3. QED
      BY <1>3, <3>1, <3>2
  <2>2. QED
    BY <2>1 DEF Crash
<1>5. ASSUME NEW s \in Slaves PROVE ea'[s] = ea[s] \/ EASound(s)'
  BY <1>3, IdleSound DEF EASound, IInv, TypeOK, EA
<1>6. \A s \in Slaves, k \in Slots : poll'[s][k] = FreePoll
  BY DEF Crash
<1>7. poll' \in [Slaves -> [Slots -> Poll]]
  BY FreePollType DEF Crash
<1>8. EAMoves
  BY DEF EAMoves
<1>9. UNCHANGED <<terminalVars, attempts, actedOn, online>>
      /\ beating' \in [Slaves -> BOOLEAN]
  BY DEF Crash, terminalVars
<1>10. TransportInv'
  BY <1>1, <1>5, <1>6, <1>8, <1>9, FreePollType, TransportKept
<1>11. timeouts' \in Nat /\ faults' \in Nat
  BY FaultsType DEF Crash, IInv
<1>12. TypeOK'
  BY <1>2, <1>4, <1>7, <1>9, <1>10, <1>11, TypeKept
     DEF IInv, TypeOK, TerminalTypeOK, terminalVars
<1>13. QED
  BY <1>1, <1>10, <1>12 DEF IInv

LEMMA PositionLostInv ==
  ASSUME IInv, PositionLost
  PROVE  IInv'
<1>1. /\ UNCHANGED <<engineVars, attempts, actedOn, online, beating, poll, ea, retryQueue>>
      /\ UNCHANGED <<timeouts, faults>> /\ positions' \subseteq positions
  BY DEF PositionLost, BrokerCloses, connectorVars, eaVars, faultVars
<1>2. RowsAge /\ BackendInv'
  BY <1>1, RowsStay, BackendStays DEF engineVars
<1>3. EAMoves
  BY <1>1 DEF EAMoves
<1>4. TransportInv'
  BY <1>1, <1>2, <1>3, TransportKept
<1>5. EngineTypeOK' /\ TerminalTypeOK'
  BY <1>1 DEF IInv, TypeOK, EngineTypeOK, engineVars, TerminalTypeOK
<1>6. TypeOK'
  BY <1>1, <1>4, <1>5, TypeKept DEF IInv, TypeOK
<1>7. QED
  BY <1>2, <1>4, <1>6 DEF IInv

(***************************************************************************)
(* An EA executes.                                                         *)
(***************************************************************************)
LEMMA ExecuteInv ==
  ASSUME IInv, NEW s \in Slaves, Execute(s)
  PROVE  IInv'
<1>1. PICK i : i = ea[s].instruction
  OBVIOUS
<1>2. PICK r \in Result : ExecuteInstruction(i, r) /\ ea' = [ea EXCEPT ![s] = PostingEA(r, 1, 0)]
  BY <1>1 DEF Execute
<1>3. PICK c : c = i.copy
  OBVIOUS
<1>4. /\ i \in Instruction /\ c \in Copies /\ SlaveOf(c) = s /\ Taken(c)
      /\ Entitled(c, i.slaveTicket) /\ attempts[c] = 0
  BY <1>1, <1>3 DEF Execute, IInv, TransportInv, EAsSound, EASound, Executable, Instruction
<1>5. actedOn[c] = NoTicket /\ orders[c].slaveTicket = NoTicket
  BY <1>4 DEF IInv, TransportInv, ActedOnEntitled, BackendInv, RowsHonest
<1>6. TerminalTypeOK /\ TerminalTypeOK'
  BY <1>2, <1>4, ExecuteInstructionType DEF IInv, TypeOK
<1>7. /\ attempts'[c] = 1
      /\ \A d \in Copies : d # c => attempts'[d] = attempts[d] /\ actedOn'[d] = actedOn[d]
      /\ actedOn'[c] # NoTicket => MayActOn(c, actedOn'[c])
      /\ r.copy = c /\ (r.slaveTicket # NoTicket => r.slaveTicket = actedOn'[c])
      /\ r.status = "EXECUTED" => r.slaveTicket # NoTicket
  BY <1>2, <1>3, <1>4, <1>5, <1>6, ExecuteFacts
<1>8. /\ UNCHANGED <<orders, clock, trade, handler, job, recording, slaveMode>>
      /\ UNCHANGED <<online, beating, poll, retryQueue, timeouts, faults>>
  BY DEF Execute, engineVars, connectorVars, faultVars
<1>9. /\ ea'[s] = PostingEA(r, 1, 0)
      /\ \A x \in Slaves : x # s => ea'[x] = ea[x]
      /\ ea' \in [Slaves -> EA]
  <2>1. PostingEA(r, 1, 0) \in EA
    BY EAStates
  <2>2. QED
    BY <1>2, <2>1 DEF IInv, TypeOK
<1>10. /\ ea'[s].busy = "posting" /\ ea'[s].awaits = NoSlot
       /\ ea'[s].result = r /\ ea'[s].from = 0
  BY <1>9 DEF PostingEA, EAAt
<1>11. ASSUME NEW q \in HonestResults PROVE q \in HonestResults'
  BY <1>4, <1>7, <1>11 DEF HonestResults, Honest, Result
<1>12. r \in HonestResults'
  BY <1>7 DEF HonestResults, Honest
<1>13. RunOnceTaken'
  BY <1>4, <1>6, <1>7, <1>8 DEF IInv, TransportInv, RunOnceTaken, Taken, Admitted, Exists
<1>14. PollsSound'
  <2>1. ASSUME NEW x \in Slaves, NEW k \in Slots, HoldsRow(x, k) PROVE HoldsRow(x, k)'
    <3>1. PICK d : d = poll[x][k].copy
      OBVIOUS
    <3>2. d \in Copies /\ SlaveOf(d) = x
      BY <2>1, <3>1 DEF HoldsRow
    <3>3. ea'[x].awaits = k => ea[x].awaits = k /\ d # c
      BY <1>4, <1>9, <1>10, <3>2, PollCopyAssumption
    <3>4. QED
      BY <1>7, <1>8, <2>1, <3>1, <3>2, <3>3 DEF HoldsRow, Admitted, Taken, Exists
  <2>2. QED
    BY <1>8, <2>1 DEF IInv, TransportInv, PollsSound
<1>15. EAsSound'
  <2>1. ASSUME NEW x \in Slaves, x # s PROVE Executable(x) \subseteq Executable(x)'
    BY <1>4, <1>7, <1>8, <2>1 DEF Executable, Taken, Admitted, Exists, Instruction
  <2>2. ASSUME NEW x \in Slaves PROVE EASound(x)'
    BY <1>9, <1>10, <2>1 DEF IInv, TransportInv, EAsSound, EASound
  <2>3. QED
    BY <2>2 DEF EAsSound
<1>16. ResultsHonest'
  <2>1. PICK P, Q : P = HonestResults /\ Q = HonestResults'
    OBVIOUS
  <2>2. P \subseteq Q /\ r \in Q
    BY <1>11, <1>12, <2>1
  <2>3. Waiting(P) \subseteq Waiting(Q)
    BY <2>2 DEF Waiting
  <2>4. Carries(P)
    BY <2>1 DEF IInv, TransportInv, ResultsHonest
  <2>5. retryQueue' \in [Slaves -> Seq(Waiting(Q))]
    BY <1>8, <2>3, <2>4 DEF Carries
  <2>6. ASSUME NEW x \in Slaves
        PROVE  /\ Len(retryQueue'[x]) <= MaxQueue
               /\ Posting(x)' => ea'[x].result \in Q /\ ea'[x].from \in 0..Len(retryQueue'[x])
    <3>1. CASE x = s
      BY <1>8, <1>10, <2>2, <2>4, <3>1, LenProperties DEF Carries
    <3>2. CASE x # s
      BY <1>8, <1>9, <2>2, <2>4, <3>2 DEF Carries, Posting
    <3>3. QED
      BY <3>1, <3>2
  <2>7. QED
    BY <2>1, <2>5, <2>6 DEF ResultsHonest, Carries
<1>17. ActedOnEntitled'
  BY <1>4, <1>7 DEF IInv, TransportInv, ActedOnEntitled
<1>18. BackendInv'
  <2>1. ASSUME NEW q \in recording PROVE Honest(q)'
    <3>1. q.copy \in Copies /\ Honest(q)
      BY DEF IInv, BackendInv, RecordingsHonest, TypeOK, EngineTypeOK, Recording
    <3>2. q.copy # c
      BY <1>4, <3>1 DEF Honest
    <3>3. QED
      BY <1>7, <3>1, <3>2 DEF Honest
  <2>2. RowsHonest'
    BY <1>5, <1>7, <1>8 DEF IInv, BackendInv, RowsHonest
  <2>3. QED
    BY <1>8, <2>1, <2>2 DEF IInv, BackendInv, JobsInOrder, RecordingsHonest, Exists
<1>19. TransportInv'
  BY <1>13, <1>14, <1>15, <1>16, <1>17 DEF TransportInv
<1>20. TypeOK'
  BY <1>6, <1>8, <1>9, <1>19, TypeKept DEF IInv, TypeOK, EngineTypeOK
<1>21. QED
  BY <1>18, <1>19, <1>20 DEF IInv

(***************************************************************************)
(* The inductive invariant.                                                *)
(***************************************************************************)
LEMMA InitInv == Init => IInv
<1> SUFFICES ASSUME Init PROVE IInv
  OBVIOUS
<1>1. \A s \in Slaves : ea[s] = IdleEA /\ retryQueue[s] = <<>>
  BY DEF Init
<1>2. \A P : <<>> \in Seq(Waiting(P)) /\ Len(<<>>) = 0
  OBVIOUS
<1>3. IdleEA.awaits = NoSlot /\ IdleEA.busy = "idle" /\ FreePoll.pc = "free"
  BY DEF IdleEA, EAAt, FreePoll
<1>4. TypeOK
  BY <1>1, <1>2, EngineInitType, EAStates, FreePollType, CopyFacts, RetryQueueAssumption
     DEF Init, TypeOK, TerminalInit, TerminalTypeOK
<1>5. BackendInv
  BY DEF Init, EngineInit, TerminalInit, BackendInv, JobsInOrder, RecordingsHonest, RowsHonest,
         IdleJob, JobAt, AbsentRow, Exists
<1>6. RunOnceTaken /\ ActedOnEntitled
  BY DEF Init, EngineInit, TerminalInit, RunOnceTaken, ActedOnEntitled, AbsentRow
<1>7. PollsSound /\ EAsSound
  BY <1>1, <1>3 DEF Init, PollsSound, EAsSound, EASound
<1>8. ResultsHonest
  BY <1>1, <1>2, <1>3, RetryQueueAssumption DEF Init, ResultsHonest, Carries, Posting
<1>9. QED
  BY <1>4, <1>5, <1>6, <1>7, <1>8 DEF IInv, TransportInv

LEMMA StepInv == IInv /\ [Next]_vars => IInv'
<1> SUFFICES ASSUME IInv, [Next]_vars PROVE IInv'
  OBVIOUS
<1>1. CASE EngineStep /\ EngineAlone
  <2>1. RowsAge /\ BackendInv' /\ EngineTypeOK'
    BY <1>1, EngineStepInv, EngineType DEF EngineAlone, IInv, TypeOK
  <2>2. QED
    BY <1>1, <2>1, EngineAloneInv DEF EngineAlone, faultVars, IInv, TypeOK
<1>2. ASSUME NEW c \in Copies, CheckOnline(c) PROVE IInv'
  <2>1. job' \in [Copies -> Job]
    BY <1>2, JobMovesType DEF CheckOnline, IInv, TypeOK, EngineTypeOK, JobStates
  <2>2. EngineTypeOK'
    BY <1>2, <2>1 DEF CheckOnline, JobOnly, KeepRows, IInv, TypeOK, EngineTypeOK
  <2>3. QED
    BY <1>2, <2>2, CheckOnlineInv, EngineAloneInv DEF CheckOnline, faultVars, IInv, TypeOK
<1>3. CASE CallThrows
  <2>1. RowsAge /\ BackendInv' /\ EngineTypeOK'
    BY <1>3, EngineStepInv, EngineType DEF CallThrows, IInv, TypeOK
  <2>2. timeouts' \in Nat /\ faults' \in Nat
    BY <1>3, FaultsType DEF CallThrows, IInv
  <2>3. QED
    BY <1>3, <2>1, <2>2, EngineAloneInv DEF CallThrows
<1>4. CASE UNCHANGED vars
  <2>1. RowsAge /\ BackendInv' /\ EngineTypeOK'
    BY <1>4, EngineStays DEF vars
  <2>2. QED
    BY <1>4, <2>1, EngineAloneInv DEF vars, faultVars, IInv, TypeOK
<1>5. ASSUME NEW s \in Slaves, NEW k \in Slots, StartPoll(s, k) \/ PollStep(s, k) \/ PollThrows(s, k)
      PROVE  IInv'
  BY <1>5, StartPollInv, FindPendingInv, LookupTicketInv, FailPendingInv, MarkPolledInv,
     ReplyInstructionInv, PollThrowsInv DEF PollStep
<1>6. ASSUME NEW s \in Slaves, EAStep(s) \/ RetryPost(s) PROVE IInv'
  BY <1>6, ExecuteInv, PostArrivesInv, EARestsInv, RetryPostInv DEF EAStep
<1>7. QED
  BY <1>1, <1>2, <1>3, <1>4, <1>5, <1>6, ConnectorInv, EARestsInv, CrashInv, PositionLostInv
     DEF Next

\* The invariant holds of every reachable state, whatever is lost, answered
\* late, repeated or restarted.
THEOREM PollInvariance == Spec => []IInv
BY InitInv, StepInv, PTL DEF Spec

\* Every variable keeps its type, and no retry queue outgrows its bound.
THEOREM PollTypes == Spec => []TypeOK
<1>1. IInv => TypeOK
  BY DEF IInv
<1>2. QED
  BY <1>1, PollInvariance, PTL

\* A row says EXECUTED only of a copy the MT4 terminal carried out, with the
\* ticket of that very position, however often its result was posted.
THEOREM PolledRowsAreReal == Spec => []ExecutedIsReal
<1>1. IInv => ExecutedIsReal
  BY DEF IInv, BackendInv, RowsHonest, ExecutedIsReal
<1>2. QED
  BY <1>1, PollInvariance, PTL

\* However many poll handlers hold the same row, the EA runs it once.
THEOREM PolledOnce == Spec => []AtMostOnce
<1>1. IInv => AtMostOnce
  BY DEF IInv, TransportInv, RunOnceTaken, AtMostOnce
<1>2. QED
  BY <1>1, PollInvariance, PTL

\* The second ticket lookup never hands a CLOSE or MODIFY the position of
\* another Slave or of another Master trade.
THEOREM NoForeignPolledPosition == Spec => []TradeIdentity
<1>1. IInv => TradeIdentity
  BY DEF IInv, TransportInv, ActedOnEntitled, TradeIdentity
<1>2. QED
  BY <1>1, PollInvariance, PTL

\* What a risk limit refused is never handed to an EA.
THEOREM PolledRefusalsHold == Spec => []RiskRefusalIsFinal
<1>1. IInv => RiskRefusalIsFinal
  BY DEF IInv, TransportInv, RunOnceTaken, Taken, Admitted, RiskRefusalIsFinal
<1>2. QED
  BY <1>1, PollInvariance, PTL

(***************************************************************************)
(* One ticket for each copy, in every report and in the table.             *)
(***************************************************************************)
\* What a step writes of tickets: nothing but the one that is said, and only
\* where there is none.
RowsTold(said) ==
  \A c \in Copies :
    \/ orders'[c].slaveTicket = orders[c].slaveTicket
    \/ orders[c].slaveTicket = NoTicket /\ orders'[c].slaveTicket \in {NoTicket, said[c]}

RecordingsTold(said) == \A r \in recording' : r \in recording \/ Says(said, r)

KeepsTickets ==
  \A c \in Copies : orders[c].slaveTicket # NoTicket =>
    orders'[c].slaveTicket = orders[c].slaveTicket

LEMMA ToldAgree ==
  ASSUME IInv, NEW said \in [Copies -> Tickets], Agree(said), EAMoves,
         RowsTold(said), RecordingsTold(said)
  PROVE  Agree(said)' /\ KeepsTickets
<1>1. PICK P : P = SameResults(said)
  OBVIOUS
<1>2. Carries(P)'
  BY <1>1, CarriesKept DEF Agree, IInv, TypeOK
<1>3. Carries(SameResults(said))'
  BY <1>1, <1>2 DEF Carries, SameResults, Says
<1>4. \A c \in Copies : orders'[c].slaveTicket \in {NoTicket, said[c]}
  BY DEF Agree, RowsTold
<1>5. \A r \in recording' : Says(said, r)
  BY DEF Agree, RecordingsTold
<1>6. KeepsTickets
  BY DEF RowsTold, KeepsTickets
<1>7. QED
  BY <1>3, <1>4, <1>5, <1>6 DEF Agree, Says

LEMMA EngineTold ==
  ASSUME IInv, NEW said \in [Copies -> Tickets], Agree(said), EngineStep \/ EngineCallFails
  PROVE  RowsTold(said) /\ RecordingsTold(said)
<1>0. orders \in [Copies -> Row]
  BY DEF IInv, TypeOK, EngineTypeOK
<1>1. ASSUME UNCHANGED <<orders, recording>> PROVE RowsTold(said) /\ RecordingsTold(said)
  BY <1>1 DEF RowsTold, RecordingsTold
<1>2. ASSUME NEW e \in Events,
             \/ PublishEvent(e) \/ PersistEvent(e) \/ HandlerStep(e)
             \/ EventMissed(e) \/ PersistFails(e) \/ HandlerThrows(e)
      PROVE  UNCHANGED <<orders, recording>>
  BY <1>2 DEF PublishEvent, PersistEvent, HandlerStep, LookupEvent, RetryLookup, FanOut,
     EventMissed, PersistFails, HandlerThrows, HandlerGoes, KeepRows
<1>3. ASSUME NEW c \in Copies, GatherStep(c) \/ JobThrows(c) PROVE UNCHANGED <<orders, recording>>
  BY <1>3 DEF GatherStep, ReadOpens, ReadCloses, AcceptOpen, RefuseOpen, FindTicket, JobThrows,
     JobOnly, KeepRows
<1>4. ASSUME NEW s \in Slaves, PatchSlave(s) PROVE UNCHANGED <<orders, recording>>
  BY <1>4 DEF PatchSlave, KeepRows
<1>5. ASSUME NEW c \in Copies, CreateFailed(c) \/ CreatePending(c)
      PROVE  RowsTold(said) /\ RecordingsTold(said)
  <2>1. UNCHANGED recording /\ orders'[c].slaveTicket = NoTicket
        /\ \A d \in Copies : d # c => orders'[d] = orders[d]
    BY <1>0, <1>5, CreateRowFacts DEF CreateFailed, CreatePending
  <2>2. ~Exists(orders, c)
    BY <1>5 DEF CreateFailed, CreatePending, IInv, BackendInv, JobsInOrder
  <2>3. orders[c].slaveTicket = NoTicket
    BY <2>2 DEF IInv, BackendInv, RowsHonest, TransportInv, ActedOnEntitled, RunOnceTaken,
       Taken, Admitted
  <2>4. QED
    BY <2>1, <2>3 DEF RowsTold, RecordingsTold
<1>6. ASSUME NEW c \in Copies, MarkOffline(c) PROVE RowsTold(said) /\ RecordingsTold(said)
  BY <1>0, <1>6, UpdateRowFacts DEF MarkOffline, RowsTold, RecordingsTold
<1>7. ASSUME NEW r \in recording, RecordResult(r) \/ RecordingThrows(r)
      PROVE  RowsTold(said) /\ RecordingsTold(said)
  <2>1. r.copy \in Copies /\ r.slaveTicket = said[r.copy]
    BY DEF IInv, TypeOK, EngineTypeOK, Recording, Agree, Says
  <2>2. recording' \subseteq recording
    BY <1>7 DEF RecordResult, RecordingThrows
  <2>3. \A c \in Copies : \/ orders'[c].slaveTicket = orders[c].slaveTicket
                          \/ c = r.copy /\ orders'[c].slaveTicket = said[c]
    <3>1. CASE RecordingThrows(r)
      BY <3>1 DEF RecordingThrows, KeepRows
    <3>2. CASE RecordResult(r)
      <4>1. /\ orders'[r.copy].slaveTicket = r.slaveTicket
            /\ \A d \in Copies : d # r.copy => orders'[d] = orders[d]
        BY <1>0, <2>1, <3>2 DEF RecordResult, Row
      <4>2. QED
        BY <2>1, <4>1
    <3>3. QED
      BY <1>7, <3>1, <3>2
  <2>4. QED
    BY <2>2, <2>3 DEF RowsTold, RecordingsTold, Agree
<1>8. QED
  BY <1>1, <1>2, <1>3, <1>4, <1>5, <1>6, <1>7 DEF EngineStep, EngineCallFails, WriteStep

\* A result without a ticket finds none in the row either.
LEMMA ArrivesTold ==
  ASSUME IInv, NEW said \in [Copies -> Tickets], Agree(said), NEW s \in Slaves, PostArrives(s)
  PROVE  RowsTold(said) /\ RecordingsTold(said)
<1>1. PICK r, n : r = ea[s].result /\ n = ea[s].attempt
  OBVIOUS
<1>2. r \in SameResults(said)
  BY <1>1 DEF PostArrives, Agree, Carries, Posting
<1>3. r.copy \in Copies /\ r.slaveTicket = said[r.copy]
  BY <1>2 DEF SameResults, Says, Result
<1>4. RecordingOf(r, n).copy = r.copy /\ RecordingOf(r, n).slaveTicket = said[r.copy]
  BY <1>3 DEF RecordingOf, Agree
<1>5. recording' \subseteq recording \cup {RecordingOf(r, n)} /\ orders' = orders
  BY <1>1 DEF PostArrives, BeginRecording, KeepRows
<1>6. QED
  BY <1>4, <1>5 DEF RowsTold, RecordingsTold, Says

\* An execution makes up what is said of its copy, of which nothing was said.
LEMMA ExecuteAgree ==
  ASSUME IInv, NEW said \in [Copies -> Tickets], Agree(said), NEW s \in Slaves, Execute(s)
  PROVE  ReportsAgree' /\ KeepsTickets
<1>1. PICK i : i = ea[s].instruction
  OBVIOUS
<1>2. PICK r \in Result : ExecuteInstruction(i, r) /\ ea' = [ea EXCEPT ![s] = PostingEA(r, 1, 0)]
  BY <1>1 DEF Execute
<1>3. PICK c : c = i.copy
  OBVIOUS
<1>4. c \in Copies /\ attempts[c] = 0 /\ r.copy = c
  <2>1. c \in Copies /\ attempts[c] = 0
    BY <1>1, <1>3 DEF Execute, IInv, TransportInv, EAsSound, EASound, Executable, Instruction
  <2>2. r.copy = c
    BY <1>2, <1>3 DEF ExecuteInstruction, Filled, Refused, Unconfirmed, Success, Failure
  <2>3. QED
    BY <2>1, <2>2
<1>5. orders[c].slaveTicket = NoTicket
  BY <1>4 DEF IInv, TransportInv, ActedOnEntitled, BackendInv, RowsHonest
<1>6. UNCHANGED <<orders, recording, retryQueue>>
  BY DEF Execute, engineVars
<1>7. PICK now : now = [said EXCEPT ![c] = r.slaveTicket]
  OBVIOUS
<1>8. /\ now \in [Copies -> Tickets] /\ now[c] = r.slaveTicket
      /\ \A d \in Copies : d # c => now[d] = said[d]
  BY <1>4, <1>7 DEF Result
<1>9. ASSUME NEW q, q.copy \in Copies, attempts[q.copy] > 0, Says(said, q)
      PROVE  Says(now, q)
  BY <1>4, <1>8, <1>9 DEF Says
<1>10. PICK P, Q : P = SameResults(said) /\ Q = SameResults(now)
  OBVIOUS
<1>11. Carries(P) /\ ResultsHonest
  BY <1>10 DEF Agree, IInv, TransportInv
<1>12. P \cap HonestResults \subseteq Q /\ r \in Q
  BY <1>4, <1>8, <1>9, <1>10 DEF SameResults, HonestResults, Honest, Says, Result
<1>13. Carries(Q)'
  <2>1. retryQueue \in [Slaves -> Seq(Waiting(Q))]
    <3>1. ASSUME NEW x \in Slaves PROVE retryQueue[x] \in Seq(Waiting(Q))
      <4>1. retryQueue[x] \in Seq(Waiting(P)) /\ retryQueue[x] \in Seq(Waiting(HonestResults))
        BY <1>11 DEF ResultsHonest, Carries
      <4>2. \A n \in 1..Len(retryQueue[x]) :
              retryQueue[x][n] \in Waiting(P) /\ retryQueue[x][n] \in Waiting(HonestResults)
        BY <4>1, ElementOfSeq
      <4>3. \A n \in 1..Len(retryQueue[x]) : retryQueue[x][n] \in Waiting(Q)
        BY <1>12, <4>2 DEF Waiting
      <4>4. QED
        BY <4>1, <4>3
    <3>2. QED
      BY <1>11, <3>1 DEF Carries
  <2>2. /\ ea'[s].result = r /\ ea'[s].from = 0
        /\ \A x \in Slaves : x # s => ea'[x] = ea[x]
    BY <1>2 DEF PostingEA, EAAt, IInv, TypeOK
  <2>3. ASSUME NEW x \in Slaves
        PROVE  /\ Len(retryQueue'[x]) <= MaxQueue
               /\ Posting(x)' => ea'[x].result \in Q /\ ea'[x].from \in 0..Len(retryQueue'[x])
    <3>1. CASE x = s
      BY <1>6, <1>11, <1>12, <2>2, <3>1, LenProperties DEF Carries
    <3>2. CASE x # s
      BY <1>6, <1>11, <1>12, <2>2, <3>2 DEF Carries, ResultsHonest, Posting
    <3>3. QED
      BY <3>1, <3>2
  <2>4. QED
    BY <1>6, <2>1, <2>3 DEF Carries
<1>14. \A q \in recording : Says(now, q)
  BY <1>9 DEF Agree, IInv, TypeOK, EngineTypeOK, Recording, BackendInv, RecordingsHonest, Honest
<1>15. \A d \in Copies : orders[d].slaveTicket \in {NoTicket, now[d]}
  BY <1>5, <1>8 DEF Agree
<1>16. Agree(now)'
  <2>1. Carries(SameResults(now))'
    BY <1>10, <1>13 DEF Carries, SameResults, Says
  <2>2. QED
    BY <1>6, <1>14, <1>15, <2>1 DEF Agree, Says
<1>17. KeepsTickets
  BY <1>6 DEF KeepsTickets
<1>18. QED
  BY <1>8, <1>16, <1>17 DEF ReportsAgree

LEMMA StepAgree ==
  ASSUME IInv, ReportsAgree, [Next]_vars
  PROVE  ReportsAgree' /\ KeepsTickets
<1>1. PICK said \in [Copies -> Tickets] : Agree(said)
  BY DEF ReportsAgree
<1>2. ASSUME EAMoves, RowsTold(said), RecordingsTold(said) PROVE ReportsAgree' /\ KeepsTickets
  <2>1. Agree(said)' /\ KeepsTickets
    BY <1>1, <1>2, ToldAgree
  <2>2. QED
    BY <1>1, <2>1 DEF ReportsAgree
<1>3. ASSUME UNCHANGED <<orders, recording>> PROVE RowsTold(said) /\ RecordingsTold(said)
  BY <1>3 DEF RowsTold, RecordingsTold
<1>4. CASE (EngineStep /\ EngineAlone) \/ CallThrows
  BY <1>1, <1>2, <1>4, EngineTold DEF EngineAlone, CallThrows, eaVars, EAMoves
<1>5. ASSUME NEW c \in Copies, CheckOnline(c) PROVE ReportsAgree' /\ KeepsTickets
  BY <1>2, <1>3, <1>5 DEF CheckOnline, JobOnly, KeepRows, eaVars, EAMoves
<1>6. ASSUME NEW s \in Slaves, RecordHeartbeat(s) \/ SweepOffline(s)
      PROVE  ReportsAgree' /\ KeepsTickets
  BY <1>2, <1>3, <1>6 DEF RecordHeartbeat, SweepOffline, engineVars, eaVars, EAMoves
<1>7. ASSUME NEW s \in Slaves, NEW k \in Slots, StartPoll(s, k) \/ PollStep(s, k) \/ PollThrows(s, k)
      PROVE  ReportsAgree' /\ KeepsTickets
  <2>1. CASE FailPending(s, k) \/ MarkPolled(s, k)
    <3>1. HoldsRow(s, k) /\ UNCHANGED recording
      BY <2>1 DEF IInv, TransportInv, PollsSound, FailPending, MarkPolled
    <3>2. RowsTold(said) /\ RecordingsTold(said)
      BY <2>1, <3>1, UpdateRowFacts
         DEF FailPending, MarkPolled, HoldsRow, RowsTold, RecordingsTold, IInv, TypeOK, EngineTypeOK
    <3>3. EAMoves
      BY <1>7 DEF EAMoves
    <3>4. QED
      BY <1>2, <3>2, <3>3
  <2>2. CASE ~(FailPending(s, k) \/ MarkPolled(s, k))
    BY <1>2, <1>3, <1>7, <2>2
       DEF StartPoll, PollStep, PollThrows, FindPending, LookupTicket, ReplyInstruction,
           engineVars, EAMoves
  <2>3. QED
    BY <2>1, <2>2
<1>8. ASSUME NEW s \in Slaves,
             \/ PostAnswered(s) \/ PostRefused(s) \/ EAStarts(s) \/ RetryPost(s)
             \/ PollTimesOut(s) \/ PostTimesOut(s) \/ EAStops(s)
      PROVE  ReportsAgree' /\ KeepsTickets
  <2>1. UNCHANGED engineVars /\ EAMoves
    BY <1>8 DEF PostAnswered, PostRefused, EAStarts, RetryPost, PollTimesOut, PostTimesOut,
       EAStops, EAMoves
  <2>2. QED
    BY <1>2, <1>3, <2>1 DEF engineVars
<1>9. ASSUME NEW s \in Slaves, PostArrives(s) PROVE ReportsAgree' /\ KeepsTickets
  BY <1>1, <1>2, <1>9, ArrivesTold DEF EAMoves
<1>10. CASE Crash
  <2>1. RowsTold(said) /\ RecordingsTold(said)
    BY <1>10 DEF Crash, BackendCrash, KeepRows, RowsTold, RecordingsTold
  <2>2. QED
    BY <1>2, <1>10, <2>1 DEF EAMoves
<1>11. CASE PositionLost \/ UNCHANGED vars
  <2>1. UNCHANGED <<orders, recording>> /\ EAMoves
    BY <1>11 DEF PositionLost, vars, engineVars, eaVars, EAMoves
  <2>2. QED
    BY <1>2, <1>3, <2>1
<1>12. QED
  BY <1>1, <1>4, <1>5, <1>6, <1>7, <1>8, <1>9, <1>10, <1>11, ExecuteAgree DEF Next, EAStep

LEMMA InitAgree == Init => ReportsAgree
<1> SUFFICES ASSUME Init PROVE ReportsAgree
  OBVIOUS
<1>1. PICK said : said = [c \in Copies |-> NoTicket]
  OBVIOUS
<1>2. said \in [Copies -> Tickets]
  BY <1>1, CopyFacts
<1>3. Carries(SameResults(said))
  <2>1. \A s \in Slaves : ea[s].busy = "idle" /\ retryQueue[s] = <<>>
    BY DEF Init, IdleEA, EAAt
  <2>2. \A P : <<>> \in Seq(Waiting(P)) /\ Len(<<>>) = 0
    OBVIOUS
  <2>3. QED
    BY <2>1, <2>2, RetryQueueAssumption DEF Init, Carries, Posting
<1>4. Agree(said)
  BY <1>3 DEF Init, EngineInit, AbsentRow, Agree
<1>5. QED
  BY <1>2, <1>4 DEF ReportsAgree

\* Repeated posts, overlapping recordings and late SENT writes never change or
\* erase a ticket once it is in the table: whatever is said of a copy, by
\* however many messages, is the same.
THEOREM PolledTicketIsKept == Spec => TicketKept
<1>1. Spec => [](IInv /\ ReportsAgree)
  BY InitAgree, StepAgree, PollInvariance, PTL DEF Spec
<1>2. IInv /\ ReportsAgree /\ [Next]_vars => [KeepsTickets]_vars
  BY StepAgree
<1>3. Spec => [][KeepsTickets]_vars
  BY <1>1, <1>2, PTL DEF Spec
<1>4. [KeepsTickets]_vars => [\A c \in Copies : orders[c].slaveTicket # NoTicket =>
                               orders'[c].slaveTicket = orders[c].slaveTicket]_vars
  BY DEF KeepsTickets
<1>5. QED
  BY <1>3, <1>4, PTL DEF TicketKept
=============================================================================
