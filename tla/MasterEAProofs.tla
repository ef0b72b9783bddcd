--------------------------- MODULE MasterEAProofs ---------------------------
(***************************************************************************)
(* For every set of tickets and levels, every number of changes and        *)
(* restarts and both EAs: a ticket's life is told in order, and an EA that *)
(* has caught up has told what is open and at which levels.                *)
(***************************************************************************)
EXTENDS MasterEA, FiniteSetTheorems, SequenceTheorems, TLAPS

(***************************************************************************)
(* The invariant.                                                          *)
(***************************************************************************)
\* An event of this type was sent for ticket t; a transaction of this type
\* waits.
Told(t, type) == \E i \in DOMAIN log : log[i].ticket = t /\ log[i].type = type
Due(t, type) == \E i \in DOMAIN queue : queue[i].ticket = t /\ queue[i].type = type

Deals == {"DEAL_IN", "DEAL_OUT"}
DealEvents == {"OPEN", "PARTIAL_CLOSE", "CLOSE"}

\* Nothing is known of a ticket that was not given out, and a restart is
\* counted before it is over.
Fresh ==
  /\ IsFiniteSet(used)
  /\ \A t \in Tickets \ used :
       /\ account[t] = NoOrder /\ snapshot[t] = NoOrder /\ known[t] = Unknown
       /\ \A i \in DOMAIN log : log[i].ticket # t
       /\ \A i \in DOMAIN queue : queue[i].ticket # t
  /\ restarts = 0 => running
  /\ platform = "MT4" => queue = <<>>

\* Who has heard of a position does not hear of it as a pending order again;
\* nothing is left of one that was closed.
InOrder ==
  \A t \in Tickets :
    /\ Told(t, "OPEN") \/ Due(t, "DEAL_IN") \/ Due(t, "DEAL_OUT") => ~IsPending(account, t)
    /\ Told(t, "OPEN") => ~Due(t, "DEAL_IN")
    /\ Told(t, "CLOSE") => account[t] = NoOrder /\ ~Due(t, "DEAL_IN")

\* The scan compares with what it has told.
ScanInOrder ==
  platform = "MT4" => \A t \in Tickets :
    /\ Told(t, "OPEN") => /\ ~IsPending(snapshot, t)
                          /\ IsOpen(account, t) => IsOpen(snapshot, t)
    /\ Told(t, "CLOSE") => snapshot[t] = NoOrder
    /\ IsOpen(snapshot, t) => ~IsPending(account, t)

\* A position has one deal that opens it, and those that close it come later.
DealsInOrder ==
  \A i, j \in DOMAIN queue :
    queue[i].type = "DEAL_IN" /\ queue[j].type \in Deals /\ queue[i].ticket = queue[j].ticket
      => i <= j

\* No two deals share a number.
DealsDiffer ==
  /\ \A j \in DOMAIN queue : queue[j].type \in Deals => queue[j].deal <= changes
  /\ \A i, j \in DOMAIN queue :
       queue[i].type \in Deals /\ queue[j].type \in Deals /\ i # j
         => queue[i].deal # queue[j].deal
  /\ platform = "MT5" =>
       \A i \in DOMAIN log : log[i].type \in DealEvents =>
         /\ log[i].n <= changes
         /\ \A j \in DOMAIN queue : queue[j].type \in Deals => log[i].n # queue[j].deal

\* The ids of the MODIFY events still to come are new.
Counted ==
  restarts = 0 => \A i \in DOMAIN log : log[i].type = "MODIFY" => log[i].n <= eventSeq

\* What is known: in MT4 what the last scan saw,
ScanKnown ==
  platform = "MT4" /\ restarts = 0 => \A t \in Tickets :
    /\ IsOpen(snapshot, t) <=> known[t].state = "open"
    /\ IsOpen(snapshot, t) => known[t].level = snapshot[t].level \/ LastIsPartial(t)

\* in MT5 what is open, unless a transaction that will say it still waits.
QueueKnown ==
  platform = "MT5" /\ restarts = 0 => \A t \in Tickets :
    /\ IsOpen(account, t) => known[t].state = "open" \/ Due(t, "DEAL_IN")
    /\ known[t].state = "open" \/ Due(t, "DEAL_IN")
         => IsOpen(account, t) \/ Due(t, "DEAL_OUT")
    /\ IsOpen(account, t) =>
         known[t].level = account[t].level \/ Due(t, "POSITION") \/ Due(t, "DEAL_IN")

IInv ==
  /\ TypeOK
  /\ Fresh /\ InOrder /\ ScanInOrder /\ DealsInOrder /\ DealsDiffer /\ Counted
  /\ ScanKnown /\ QueueKnown
  /\ LifeInOrder

(***************************************************************************)
(* Sequences.                                                              *)
(***************************************************************************)
LEMMA Positions ==
  ASSUME NEW S, NEW s \in Seq(S), NEW t \in Seq(S)
  PROVE  /\ s \o t \in Seq(S)
         /\ \A i \in DOMAIN s : i \in DOMAIN (s \o t) /\ (s \o t)[i] = s[i]
         /\ \A j \in DOMAIN t : Len(s) + j \in DOMAIN (s \o t) /\ (s \o t)[Len(s) + j] = t[j]
         /\ \A k \in DOMAIN (s \o t) :
              k \in DOMAIN s \/ \E j \in DOMAIN t : k = Len(s) + j
         /\ DOMAIN s = 1..Len(s) /\ Len(s) \in Nat
         /\ DOMAIN t = 1..Len(t) /\ Len(t) \in Nat
  <1>1. /\ s \o t \in Seq(S) /\ Len(s \o t) = Len(s) + Len(t)
        /\ \A i \in 1..(Len(s) + Len(t)) :
             (s \o t)[i] = IF i <= Len(s) THEN s[i] ELSE t[i - Len(s)]
    BY ConcatProperties
  <1>2. /\ DOMAIN s = 1..Len(s) /\ Len(s) \in Nat
        /\ DOMAIN t = 1..Len(t) /\ Len(t) \in Nat
        /\ DOMAIN (s \o t) = 1..(Len(s) + Len(t))
    BY <1>1, LenProperties
  <1>3. \A k \in DOMAIN (s \o t) : k \in DOMAIN s \/ \E j \in DOMAIN t : k = Len(s) + j
    <2>1. SUFFICES ASSUME NEW k \in DOMAIN (s \o t), k \notin DOMAIN s
                   PROVE  \E j \in DOMAIN t : k = Len(s) + j
      OBVIOUS
    <2>2. k - Len(s) \in DOMAIN t /\ k = Len(s) + (k - Len(s))
      BY <1>2, <2>1
    <2>3. QED BY <2>2
  <1>4. \A i \in DOMAIN s : i \in DOMAIN (s \o t) /\ (s \o t)[i] = s[i]
    BY <1>1, <1>2
  <1>5. \A j \in DOMAIN t : Len(s) + j \in DOMAIN (s \o t) /\ (s \o t)[Len(s) + j] = t[j]
    <2>1. SUFFICES ASSUME NEW j \in DOMAIN t
                   PROVE  Len(s) + j \in DOMAIN (s \o t) /\ (s \o t)[Len(s) + j] = t[j]
      OBVIOUS
    <2>2. /\ Len(s) + j \in 1..(Len(s) + Len(t))
          /\ ~(Len(s) + j <= Len(s)) /\ (Len(s) + j) - Len(s) = j
      BY <1>2
    <2>3. QED BY <1>1, <1>2, <2>2
  <1>6. QED BY <1>1, <1>2, <1>3, <1>4, <1>5

\* SetToSeq lists every element of a finite set once.
LEMMA Listed ==
  ASSUME NEW S, IsFiniteSet(S)
  PROVE  /\ SetToSeq(S) \in Seq(S)
         /\ \A i, j \in DOMAIN SetToSeq(S) : SetToSeq(S)[i] = SetToSeq(S)[j] => i = j
         /\ \A x \in S : \E i \in DOMAIN SetToSeq(S) : SetToSeq(S)[i] = x
  <1> DEFINE n == Cardinality(S)
             f == SetToSeq(S)
  <1>1. n \in Nat /\ ExistsBijection(1..n, S)
    BY FS_CardinalityType
  <1>2. \E g \in [1..n -> S] : IsInjective(g)
    BY <1>1 DEF ExistsBijection, Bijection, Injection
  <1>3. f \in [1..n -> S] /\ IsInjective(f)
    BY <1>2 DEF SetToSeq
  <1>4. f \in Injection(1..n, S)
    BY <1>3 DEF Injection
  <1>5. Cardinality(1..n) = n
    BY <1>1, FS_Interval
  <1>6. f \in Surjection(1..n, S)
    BY <1>4, <1>5, FS_Injection
  <1>7. f \in Seq(S)
    BY <1>1, <1>3, SeqDef
  <1> HIDE DEF f, n
  <1>8. DOMAIN f = 1..n
    BY <1>3
  <1>9. QED BY <1>3, <1>6, <1>7, <1>8 DEF IsInjective, Surjection, f

\* The image of a finite set of tickets is finite.
LEMMA ChangesFinite ==
  ASSUME IsFiniteSet(used), NEW f, NEW T \in SUBSET used
  PROVE  IsFiniteSet({f[t] : t \in T})
  <1> DEFINE g == [t \in T |-> f[t]]
             S == {f[t] : t \in T}
  <1>1. IsFiniteSet(T)
    BY FS_Subset
  <1>2. g \in Surjection(T, S)
    BY DEF Surjection
  <1>3. QED BY <1>1, <1>2, FS_Surjection

(***************************************************************************)
(* The initial state.                                                      *)
(***************************************************************************)
LEMMA InitInv == Init => IInv
  <1> SUFFICES ASSUME Init PROVE IInv
    OBVIOUS
  <1> USE DEF Init
  <1>1. DOMAIN log = {} /\ DOMAIN queue = {}
    OBVIOUS
  <1>2. TypeOK
    <2>1. account \in Orders /\ snapshot \in Orders
      BY DEF NoOrders, Orders
    <2>2. known \in [Tickets -> Known]
      BY DEF Known, Unknown
    <2>3. queue \in Seq(Transaction) /\ log \in Seq(Event)
      BY EmptySeq
    <2>4. QED BY <2>1, <2>2, <2>3 DEF TypeOK
  <1>3. Fresh
    BY <1>1, FS_EmptySet DEF Fresh, NoOrders
  <1>4. InOrder /\ ScanInOrder
    BY <1>1 DEF InOrder, ScanInOrder, Told, Due, NoOrders, NoOrder, IsOpen, IsPending
  <1>5. DealsInOrder /\ DealsDiffer /\ Counted
    BY <1>1 DEF DealsInOrder, DealsDiffer, Counted
  <1>6. ScanKnown /\ QueueKnown
    BY <1>1 DEF ScanKnown, QueueKnown, Due, NoOrders, NoOrder, Unknown, IsOpen
  <1>7. LifeInOrder
    BY <1>1 DEF LifeInOrder
  <1>8. QED BY <1>2, <1>3, <1>4, <1>5, <1>6, <1>7 DEF IInv

(***************************************************************************)
(* The account.  What a change may do, and what announces it.              *)
(***************************************************************************)
Has(types, type) == \E i \in DOMAIN types : types[i] = type

Unopened(t) == t \notin used \/ IsPending(account, t)

Lawful(t, order, types) ==
  /\ order \in Order \cup {NoOrder}
  /\ types \in Seq({"DEAL_IN", "DEAL_OUT", "ORDER_ADD", "ORDER_UPDATE", "ORDER_DELETE", "POSITION"})
  /\ \A i, j \in DOMAIN types : types[i] \in Deals /\ types[j] \in Deals => i = j
  /\ t \notin used \/ account[t] # NoOrder
  /\ order.kind = "pending" =>
       Unopened(t) /\ ~Has(types, "DEAL_IN") /\ ~Has(types, "DEAL_OUT")
  /\ order.kind = "open" /\ ~IsOpen(account, t) => Has(types, "DEAL_IN")
  /\ Has(types, "DEAL_IN") => order.kind = "open" /\ Unopened(t)
  /\ Has(types, "DEAL_OUT") => IsOpen(account, t)
  /\ IsOpen(account, t) /\ order.kind # "open" => order = NoOrder /\ Has(types, "DEAL_OUT")
  /\ IsOpen(account, t) /\ order.kind = "open" =>
       order.level = account[t].level \/ Has(types, "POSITION")

LEMMA AccountIsLawful ==
  ASSUME IInv, AccountChanges
  PROVE  \E t \in Tickets : \E order, types :
           AccountChange(t, order, types) /\ Lawful(t, order, types)
  <1> USE MasterEAAssumption DEF IsOpen, IsPending, Unopened, Has, Deals, Order, NoOrder
  <1>0. /\ account \in [Tickets -> Order \cup {NoOrder}]
        /\ \A t \in Tickets \ used : account[t] = NoOrder
    BY DEF IInv, TypeOK, Fresh, Orders
  <1>1. ASSUME NEW t \in Tickets, NEW l \in Levels, MarketOrder(t, l)
        PROVE  Lawful(t, Open(FullLots, l), <<"ORDER_ADD", "DEAL_IN", "ORDER_DELETE">>)
    BY <1>0, <1>1 DEF MarketOrder, Lawful, Open
  <1>2. ASSUME NEW t \in Tickets, NEW l \in Levels, PlacePending(t, l)
        PROVE  Lawful(t, Pending(l), <<"ORDER_ADD">>)
    BY <1>0, <1>2 DEF PlacePending, Lawful, Pending
  <1>3. ASSUME NEW t \in Tickets, NEW l \in Levels, EditPending(t, l)
        PROVE  Lawful(t, Pending(l), <<"ORDER_UPDATE">>)
    BY <1>0, <1>3 DEF EditPending, Lawful, Pending
  <1>4. ASSUME NEW t \in Tickets, NEW l \in Levels, EditLevels(t, l)
        PROVE  Lawful(t, Open(account[t].lots, l), <<"POSITION">>)
    BY <1>0, <1>4 DEF EditLevels, Lawful, Open
  <1>5. ASSUME NEW t \in Tickets, CancelPending(t)
        PROVE  Lawful(t, NoOrder, <<"ORDER_DELETE">>)
    BY <1>0, <1>5 DEF CancelPending, Lawful
  <1>6. ASSUME NEW t \in Tickets, TriggerPending(t)
        PROVE  Lawful(t, Open(FullLots, account[t].level), <<"DEAL_IN", "ORDER_DELETE">>)
    BY <1>0, <1>6 DEF TriggerPending, Lawful, Open
  <1>7. ASSUME NEW t \in Tickets, ClosePartly(t)
        PROVE  Lawful(t, Open(account[t].lots - 1, account[t].level), <<"DEAL_OUT">>)
    BY <1>0, <1>7 DEF ClosePartly, Lawful, Open
  <1>8. ASSUME NEW t \in Tickets, CloseAll(t)
        PROVE  Lawful(t, NoOrder, <<"DEAL_OUT">>)
    BY <1>0, <1>8 DEF CloseAll, Lawful
  <1>9. PICK t \in Tickets :
          \/ \E l \in Levels : \/ MarketOrder(t, l) \/ PlacePending(t, l)
                               \/ EditPending(t, l) \/ EditLevels(t, l)
          \/ CancelPending(t) \/ TriggerPending(t) \/ ClosePartly(t) \/ CloseAll(t)
    BY DEF AccountChanges
  <1>10. CASE \E l \in Levels : \/ MarketOrder(t, l) \/ PlacePending(t, l)
                               \/ EditPending(t, l) \/ EditLevels(t, l)
    <2>1. PICK l \in Levels : \/ MarketOrder(t, l) \/ PlacePending(t, l)
                             \/ EditPending(t, l) \/ EditLevels(t, l)
      BY <1>10
    <2>2. CASE MarketOrder(t, l)
      BY <1>1, <2>2 DEF MarketOrder
    <2>3. CASE PlacePending(t, l)
      BY <1>2, <2>3 DEF PlacePending
    <2>4. CASE EditPending(t, l)
      BY <1>3, <2>4 DEF EditPending
    <2>5. CASE EditLevels(t, l)
      BY <1>4, <2>5 DEF EditLevels
    <2>6. QED BY <2>1, <2>2, <2>3, <2>4, <2>5
  <1>11. CASE CancelPending(t)
    BY <1>5, <1>11 DEF CancelPending
  <1>12. CASE TriggerPending(t)
    BY <1>6, <1>12 DEF TriggerPending
  <1>13. CASE ClosePartly(t)
    BY <1>7, <1>13 DEF ClosePartly
  <1>14. CASE CloseAll(t)
    BY <1>8, <1>14 DEF CloseAll
  <1>15. QED BY <1>9, <1>10, <1>11, <1>12, <1>13, <1>14

\* The transactions that are appended.
LEMMA Announced ==
  ASSUME IInv, NEW t \in Tickets, NEW order, NEW types,
         AccountChange(t, order, types), Lawful(t, order, types)
  PROVE  \E added \in Seq(Transaction) :
           /\ queue' = queue \o added
           /\ \A i \in DOMAIN added :
                /\ i \in DOMAIN types /\ added[i].ticket = t
                /\ added[i].type = types[i] /\ added[i].deal = changes + 1
           /\ platform = "MT4" => queue' = queue
           /\ platform = "MT5" /\ running => DOMAIN added = DOMAIN types
  <1> DEFINE all == [i \in DOMAIN types |->
                       [type |-> types[i], ticket |-> t, deal |-> changes + 1]]
  <1>1. queue \in Seq(Transaction) /\ changes \in Nat
    BY DEF IInv, TypeOK
  <1>2. CASE platform = "MT5" /\ running
    <2>1. queue' = queue \o all
      BY <1>2 DEF AccountChange, Announce
    <2>2. types \in Seq({"DEAL_IN", "DEAL_OUT", "ORDER_ADD", "ORDER_UPDATE", "ORDER_DELETE", "POSITION"})
      BY DEF Lawful
    <2>3. \A i \in DOMAIN types : all[i] \in Transaction
      BY <1>1, <2>2 DEF Transaction
    <2>4. DOMAIN types = 1..Len(types) /\ Len(types) \in Nat
      BY <2>2, LenProperties
    <2>5. all \in [1..Len(types) -> Transaction]
      BY <2>3, <2>4
    <2>6. all \in Seq(Transaction)
      BY <2>4, <2>5, SeqDef
    <2>7. WITNESS all \in Seq(Transaction)
    <2>8. QED BY <1>2, <2>1
  <1>3. CASE ~(platform = "MT5" /\ running)
    <2>1. queue' = queue
      BY <1>3 DEF AccountChange, Announce
    <2>2. <<>> \in Seq(Transaction) /\ queue = queue \o <<>> /\ DOMAIN <<>> = {}
      BY <1>1, EmptySeq, ConcatEmptySeq
    <2>3. QED BY <1>3, <2>1, <2>2
  <1>4. QED BY <1>2, <1>3

LEMMA AccountInv == IInv /\ AccountChanges => IInv'
  <1> SUFFICES ASSUME IInv, AccountChanges PROVE IInv'
    OBVIOUS
  <1>1. PICK t \in Tickets :
          \E order, types : AccountChange(t, order, types) /\ Lawful(t, order, types)
    BY AccountIsLawful
  <1>2. PICK order, types : AccountChange(t, order, types) /\ Lawful(t, order, types)
    BY <1>1
  <1>3. PICK added \in Seq(Transaction) :
          /\ queue' = queue \o added
          /\ \A i \in DOMAIN added :
               /\ i \in DOMAIN types /\ added[i].ticket = t
               /\ added[i].type = types[i] /\ added[i].deal = changes + 1
          /\ platform = "MT4" => queue' = queue
          /\ platform = "MT5" /\ running => DOMAIN added = DOMAIN types
    BY <1>2, Announced
  <1>4. /\ account' = [account EXCEPT ![t] = order]
        /\ used' = used \cup {t} /\ changes' = changes + 1
        /\ UNCHANGED <<platform, snapshot, eventSeq, log, known, running, restarts>>
    BY <1>2 DEF AccountChange, eaVars
  <1>5. /\ account \in [Tickets -> Order \cup {NoOrder}]
        /\ queue \in Seq(Transaction) /\ changes \in Nat
        /\ order \in Order \cup {NoOrder}
    BY <1>2 DEF IInv, TypeOK, Orders, Lawful
  <1>6. /\ queue' \in Seq(Transaction)
        /\ \A i \in DOMAIN queue : i \in DOMAIN queue' /\ queue'[i] = queue[i]
        /\ \A j \in DOMAIN added : Len(queue) + j \in DOMAIN queue' /\ queue'[Len(queue) + j] = added[j]
        /\ \A k \in DOMAIN queue' :
             k \in DOMAIN queue \/ \E j \in DOMAIN added : k = Len(queue) + j
        /\ DOMAIN queue = 1..Len(queue) /\ Len(queue) \in Nat
        /\ DOMAIN added = 1..Len(added) /\ Len(added) \in Nat
    BY <1>3, <1>5, Positions
  <1>7. \A u, x : Told(u, x)' <=> Told(u, x)
    BY <1>4 DEF Told
  <1>8. \A u, x : Due(u, x) => Due(u, x)'
    BY <1>6 DEF Due
  <1>9. \A u, x : Due(u, x)' => Due(u, x) \/ (u = t /\ Has(types, x))
    <2>1. SUFFICES ASSUME NEW u, NEW x, NEW k \in DOMAIN queue',
                          queue'[k].ticket = u, queue'[k].type = x, ~Due(u, x)
                   PROVE  u = t /\ Has(types, x)
      BY DEF Due
    <2>2. k \notin DOMAIN queue
      BY <1>6, <2>1 DEF Due
    <2>3. PICK j \in DOMAIN added : k = Len(queue) + j
      BY <1>6, <2>2
    <2>4. added[j] = queue'[k]
      BY <1>6, <2>3
    <2>5. QED BY <1>3, <2>1, <2>4 DEF Has
  <1>10. ASSUME platform = "MT5", running
         PROVE  \A x : Has(types, x) => Due(t, x)'
    <2>1. SUFFICES ASSUME NEW x, NEW j \in DOMAIN types, types[j] = x PROVE Due(t, x)'
      BY DEF Has
    <2>2. j \in DOMAIN added
      BY <1>3, <1>10
    <2>3. /\ Len(queue) + j \in DOMAIN queue' /\ queue'[Len(queue) + j].ticket = t
          /\ queue'[Len(queue) + j].type = x
      BY <1>3, <1>6, <2>1, <2>2
    <2>4. QED BY <2>3 DEF Due
  <1> HIDE DEF Told, Due, Has
  <1>11. TypeOK'
    <2>1. account' \in Orders
      BY <1>4, <1>5 DEF Orders
    <2>2. QED BY <1>4, <1>5, <1>6, <2>1 DEF IInv, TypeOK, Orders, Transaction
  <1>12. Fresh'
    <2>1. IsFiniteSet(used')
      BY <1>4, FS_AddElement DEF IInv, Fresh
    <2>2. ASSUME NEW u \in Tickets \ used'
          PROVE  \A k \in DOMAIN queue' : queue'[k].ticket # u
      <3>1. u \notin used /\ u # t
        BY <1>4, <2>2
      <3>2. \A i \in DOMAIN queue : queue[i].ticket # u
        BY <3>1 DEF IInv, Fresh
      <3>3. SUFFICES ASSUME NEW k \in DOMAIN queue', k \notin DOMAIN queue
                     PROVE  queue'[k].ticket # u
        BY <1>6, <3>2
      <3>4. PICK j \in DOMAIN added : k = Len(queue) + j
        BY <1>6, <3>3
      <3>5. queue'[k] = added[j]
        BY <1>6, <3>4
      <3>6. QED BY <1>3, <3>1, <3>5
    <2>3. platform' = "MT4" => queue' = <<>>
      BY <1>3, <1>4 DEF IInv, Fresh
    <2>4. QED BY <1>4, <1>5, <2>1, <2>2, <2>3 DEF IInv, Fresh
  <1>13. \A x : t \notin used => ~Told(t, x) /\ ~Due(t, x)
    BY DEF IInv, Fresh, Told, Due
  <1>14. InOrder'
    <2>1. ASSUME NEW u \in Tickets, u # t
          PROVE  /\ (Told(u, "OPEN") \/ Due(u, "DEAL_IN") \/ Due(u, "DEAL_OUT"))'
                       => ~IsPending(account, u)'
                 /\ Told(u, "OPEN")' => ~Due(u, "DEAL_IN")'
                 /\ Told(u, "CLOSE")' => account'[u] = NoOrder /\ ~Due(u, "DEAL_IN")'
      <3>1. account'[u] = account[u]
        BY <1>4, <1>5, <2>1
      <3>2. QED BY <1>7, <1>9, <2>1, <3>1 DEF IInv, InOrder, IsPending
    <2>2. /\ (Told(t, "OPEN") \/ Due(t, "DEAL_IN") \/ Due(t, "DEAL_OUT"))'
               => ~IsPending(account, t)'
          /\ Told(t, "OPEN")' => ~Due(t, "DEAL_IN")'
          /\ Told(t, "CLOSE")' => account'[t] = NoOrder /\ ~Due(t, "DEAL_IN")'
      <3>1. account'[t] = order
        BY <1>4, <1>5
      <3>2. /\ Told(t, "OPEN") \/ Due(t, "DEAL_IN") \/ Due(t, "DEAL_OUT")
                 => ~IsPending(account, t)
            /\ Told(t, "OPEN") => ~Due(t, "DEAL_IN")
            /\ Told(t, "CLOSE") => account[t] = NoOrder /\ ~Due(t, "DEAL_IN")
        BY DEF IInv, InOrder
      <3>3. /\ t \notin used \/ account[t] # NoOrder
            /\ order.kind = "pending" =>
                 Unopened(t) /\ ~Has(types, "DEAL_IN") /\ ~Has(types, "DEAL_OUT")
            /\ Has(types, "DEAL_IN") => Unopened(t)
        BY <1>2 DEF Lawful
      <3>4. QED BY <1>7, <1>9, <1>13, <3>1, <3>2, <3>3 DEF IsPending, Unopened
    <2>3. QED BY <2>1, <2>2 DEF InOrder
  <1>15. ScanInOrder'
    <2>1. SUFFICES ASSUME platform = "MT4", NEW u \in Tickets
                   PROVE  /\ Told(u, "OPEN") => /\ ~IsPending(snapshot, u)
                                                /\ IsOpen(account, u)' => IsOpen(snapshot, u)
                          /\ Told(u, "CLOSE") => snapshot[u] = NoOrder
                          /\ IsOpen(snapshot, u) => ~IsPending(account, u)'
      BY <1>4, <1>7 DEF ScanInOrder, IsOpen, IsPending
    <2>2. /\ Told(u, "OPEN") => /\ ~IsPending(snapshot, u)
                                /\ IsOpen(account, u) => IsOpen(snapshot, u)
          /\ Told(u, "CLOSE") => snapshot[u] = NoOrder
          /\ IsOpen(snapshot, u) => ~IsPending(account, u)
          /\ Told(u, "OPEN") => ~IsPending(account, u)
      BY <2>1 DEF IInv, ScanInOrder, InOrder
    <2>3. CASE u # t
      BY <1>4, <1>5, <2>2, <2>3 DEF IsOpen, IsPending
    <2>4. CASE u = t
      <3>1. account'[u] = order
        BY <1>4, <1>5, <2>4
      <3>2. /\ order.kind = "pending" => Unopened(t)
            /\ order.kind = "open" /\ ~IsOpen(account, t) => Unopened(t)
        BY <1>2 DEF Lawful
      <3>3. t \notin used => snapshot[t] = NoOrder
        BY DEF IInv, Fresh
      <3>4. QED BY <1>13, <2>2, <2>4, <3>1, <3>2, <3>3 DEF Unopened, IsOpen, IsPending, NoOrder
    <2>5. QED BY <2>3, <2>4
  <1>16. DealsInOrder' /\ DealsDiffer'
    <2>1. ASSUME NEW k \in DOMAIN queue', queue'[k].type \in Deals
          PROVE  \/ k \in DOMAIN queue /\ queue'[k] = queue[k] /\ queue[k].deal <= changes
                 \/ \E j \in DOMAIN added :
                      /\ k = Len(queue) + j /\ queue'[k] = added[j]
                      /\ added[j].ticket = t /\ added[j].deal = changes + 1
                      /\ j \in DOMAIN types /\ types[j] = queue'[k].type
      <3>1. CASE k \in DOMAIN queue
        BY <1>6, <2>1, <3>1 DEF IInv, DealsDiffer
      <3>2. CASE k \notin DOMAIN queue
        <4>1. PICK j \in DOMAIN added : k = Len(queue) + j
          BY <1>6, <3>2
        <4>2. queue'[k] = added[j]
          BY <1>6, <4>1
        <4>3. QED BY <1>3, <4>1, <4>2
      <3>3. QED BY <3>1, <3>2
    <2>2. \A i, j \in DOMAIN types : types[i] \in Deals /\ types[j] \in Deals => i = j
      BY <1>2 DEF Lawful
    <2>3. \A k \in DOMAIN queue : queue[k] \in Transaction
      BY <1>5, ElementOfSeq, LenProperties
    <2>4. DealsInOrder'
      <3>1. SUFFICES ASSUME NEW i \in DOMAIN queue', NEW j \in DOMAIN queue',
                            queue'[i].type = "DEAL_IN", queue'[j].type \in Deals,
                            queue'[i].ticket = queue'[j].ticket
                     PROVE  i <= j
        BY DEF DealsInOrder
      <3>2. CASE i \in DOMAIN queue /\ j \in DOMAIN queue
        BY <1>6, <3>1, <3>2 DEF IInv, DealsInOrder
      <3>3. CASE i \in DOMAIN queue /\ j \notin DOMAIN queue
        BY <1>6, <3>3
      <3>4. CASE i \notin DOMAIN queue /\ j \in DOMAIN queue
        <4>1. Has(types, "DEAL_IN") /\ queue'[i].ticket = t
          BY <2>1, <3>1, <3>4 DEF Deals, Has
        <4>2. queue[j].ticket = t /\ queue[j].type \in Deals
          BY <1>6, <3>1, <3>4, <4>1
        <4>3. Due(t, "DEAL_IN") \/ Due(t, "DEAL_OUT")
          BY <3>4, <4>2 DEF Due, Deals
        <4>4. Unopened(t)
          BY <1>2, <4>1 DEF Lawful
        <4>5. QED BY <1>13, <4>3, <4>4 DEF IInv, InOrder, Unopened
      <3>5. CASE i \notin DOMAIN queue /\ j \notin DOMAIN queue
        BY <1>6, <2>1, <2>2, <3>1, <3>5 DEF Deals
      <3>6. QED BY <3>2, <3>3, <3>4, <3>5
    <2>5. DealsDiffer'
      <3>1. \A j \in DOMAIN queue' : queue'[j].type \in Deals => queue'[j].deal <= changes'
        BY <1>4, <1>5, <2>1, <2>3 DEF Transaction
      <3>2. ASSUME NEW i \in DOMAIN queue', NEW j \in DOMAIN queue', i # j,
                   queue'[i].type \in Deals, queue'[j].type \in Deals
            PROVE  queue'[i].deal # queue'[j].deal
        <4>1. CASE i \in DOMAIN queue /\ j \in DOMAIN queue
          BY <1>6, <3>2, <4>1 DEF IInv, DealsDiffer
        <4>2. CASE i \notin DOMAIN queue /\ j \notin DOMAIN queue
          BY <1>6, <2>1, <2>2, <3>2, <4>2
        <4>3. CASE (i \in DOMAIN queue /\ j \notin DOMAIN queue) \/ (i \notin DOMAIN queue /\ j \in DOMAIN queue)
          <5>1. \A k \in DOMAIN queue : queue[k].deal \in Nat
            BY <2>3 DEF Transaction
          <5>2. \A k \in DOMAIN queue' : queue'[k].type \in Deals =>
                  \/ k \in DOMAIN queue /\ queue'[k] = queue[k] /\ queue[k].deal <= changes
                  \/ k \notin DOMAIN queue /\ queue'[k].deal = changes + 1
            BY <1>6, <2>1
          <5>3. QED BY <1>5, <3>2, <4>3, <5>1, <5>2
        <4>4. QED BY <4>1, <4>2, <4>3
      <3>3. ASSUME platform = "MT5", NEW i \in DOMAIN log, log[i].type \in DealEvents
            PROVE  /\ log[i].n <= changes'
                   /\ \A j \in DOMAIN queue' : queue'[j].type \in Deals => log[i].n # queue'[j].deal
        <4>1. log[i].n \in Nat
          <5>1. log \in Seq(Event)
            BY DEF IInv, TypeOK
          <5>2. log[i] \in Event
            BY <5>1, ElementOfSeq, LenProperties
          <5>3. QED BY <5>2 DEF Event
        <4>2. /\ log[i].n <= changes
              /\ \A j \in DOMAIN queue : queue[j].type \in Deals => log[i].n # queue[j].deal
          BY <3>3 DEF IInv, DealsDiffer
        <4>3. QED BY <1>4, <1>5, <2>1, <4>1, <4>2
      <3>4. QED BY <1>4, <3>1, <3>2, <3>3 DEF DealsDiffer
    <2>6. QED BY <2>4, <2>5
  <1>17. Counted' /\ LifeInOrder'
    BY <1>4 DEF IInv, Counted, LifeInOrder, MayFollow
  <1>18. ScanKnown'
    BY <1>4 DEF IInv, ScanKnown, IsOpen, LastIsPartial
  <1>19. QueueKnown'
    <2>1. SUFFICES ASSUME platform = "MT5", restarts = 0, NEW u \in Tickets
                   PROVE  /\ IsOpen(account, u)' => known[u].state = "open" \/ Due(u, "DEAL_IN")'
                          /\ known[u].state = "open" \/ Due(u, "DEAL_IN")'
                               => IsOpen(account, u)' \/ Due(u, "DEAL_OUT")'
                          /\ IsOpen(account, u)' =>
                               \/ known[u].level = account'[u].level
                               \/ Due(u, "POSITION")' \/ Due(u, "DEAL_IN")'
      BY <1>4 DEF QueueKnown, IsOpen
    <2>2. running
      BY <2>1 DEF IInv, Fresh
    <2>3. /\ IsOpen(account, u) => known[u].state = "open" \/ Due(u, "DEAL_IN")
          /\ known[u].state = "open" \/ Due(u, "DEAL_IN")
               => IsOpen(account, u) \/ Due(u, "DEAL_OUT")
          /\ IsOpen(account, u) =>
               known[u].level = account[u].level \/ Due(u, "POSITION") \/ Due(u, "DEAL_IN")
      BY <2>1 DEF IInv, QueueKnown
    <2>4. CASE u # t
      BY <1>4, <1>5, <1>8, <1>9, <2>3, <2>4 DEF IsOpen
    <2>5. CASE u = t
      <3>1. account'[u] = order
        BY <1>4, <1>5, <2>5
      <3>2. /\ order.kind = "open" /\ ~IsOpen(account, t) => Has(types, "DEAL_IN")
            /\ Has(types, "DEAL_IN") => order.kind = "open"
            /\ IsOpen(account, t) /\ order.kind # "open" => Has(types, "DEAL_OUT")
            /\ IsOpen(account, t) /\ order.kind = "open" =>
                 order.level = account[t].level \/ Has(types, "POSITION")
        BY <1>2 DEF Lawful
      <3>3. \A x : Has(types, x) => Due(t, x)'
        BY <1>10, <2>1, <2>2
      <3>4. QED BY <1>8, <1>9, <2>3, <2>5, <3>1, <3>2, <3>3 DEF IsOpen
    <2>6. QED BY <2>4, <2>5
  <1>20. QED BY <1>11, <1>12, <1>14, <1>15, <1>16, <1>17, <1>18, <1>19 DEF IInv

(***************************************************************************)
(* Sending.                                                                *)
(***************************************************************************)
Counting == {"OPEN", "MODIFY", "CLOSE"}

New(e) == \A j \in DOMAIN log : IdOf(log[j]) # IdOf(e)

LEMMA AcceptsType ==
  ASSUME NEW k \in Known, NEW e \in Event, e.type \in Counting
  PROVE  Accepts(k, e) \in Known
  BY DEF Known, Event, Counting, Accepts

\* What a life told in order goes on with is in order.
LEMMA Extended ==
  ASSUME LifeInOrder, platform' = platform, log \in Seq(Event),
         NEW events \in Seq(Event), log' = log \o events,
         \A j \in DOMAIN events : \A i \in DOMAIN log :
           log[i].ticket = events[j].ticket => MayFollow(log[i], events[j]),
         \A j \in DOMAIN events : \A i \in 1..(j - 1) :
           events[i].ticket = events[j].ticket => MayFollow(events[i], events[j])
  PROVE  LifeInOrder'
  <1>1. /\ \A i \in DOMAIN log : log'[i] = log[i]
        /\ \A j \in DOMAIN events : log'[Len(log) + j] = events[j]
        /\ \A k \in DOMAIN log' : k \in DOMAIN log \/ \E j \in DOMAIN events : k = Len(log) + j
        /\ DOMAIN log = 1..Len(log) /\ Len(log) \in Nat
        /\ DOMAIN events = 1..Len(events) /\ Len(events) \in Nat
    <2>1. \A i \in DOMAIN log : (log \o events)[i] = log[i]
      BY Positions
    <2>2. \A j \in DOMAIN events : (log \o events)[Len(log) + j] = events[j]
      BY Positions
    <2>3. \A k \in DOMAIN (log \o events) :
            k \in DOMAIN log \/ \E j \in DOMAIN events : k = Len(log) + j
      BY Positions
    <2>4. /\ DOMAIN log = 1..Len(log) /\ Len(log) \in Nat
          /\ DOMAIN events = 1..Len(events) /\ Len(events) \in Nat
      BY LenProperties
    <2>5. QED BY <2>1, <2>2, <2>3, <2>4
  <1>2. SUFFICES ASSUME NEW k \in DOMAIN log', NEW i \in 1..(k - 1), log'[i].ticket = log'[k].ticket
                 PROVE  MayFollow(log'[i], log'[k])
    BY DEF LifeInOrder, MayFollow
  <1>3. CASE k \in DOMAIN log
    <2>1. i \in DOMAIN log /\ i \in 1..(k - 1)
      BY <1>1, <1>2, <1>3
    <2>2. QED BY <1>1, <1>2, <1>3, <2>1 DEF LifeInOrder
  <1>4. CASE k \notin DOMAIN log
    <2>1. PICK j \in DOMAIN events : k = Len(log) + j
      BY <1>1, <1>4
    <2>2. CASE i \in DOMAIN log
      BY <1>1, <1>2, <2>1, <2>2
    <2>3. CASE i \notin DOMAIN log
      <3>1. /\ i - Len(log) \in 1..(j - 1) /\ i - Len(log) \in DOMAIN events
            /\ Len(log) + (i - Len(log)) = i
        BY <1>1, <2>1, <2>3
      <3>2. log'[i] = events[i - Len(log)] /\ log'[k] = events[j]
        BY <1>1, <2>1, <3>1
      <3>3. QED BY <1>2, <3>1, <3>2
    <2>4. QED BY <2>2, <2>3
  <1>5. QED BY <1>3, <1>4

\* What sending adds to the log and to what is known.
LEMMA Sent ==
  ASSUME log \in Seq(Event), known \in [Tickets -> Known], NEW events \in Seq(Event), Send(events)
  PROVE  /\ log' \in Seq(Event) /\ log' = log \o events
         /\ \A i \in DOMAIN log : i \in DOMAIN log' /\ log'[i] = log[i]
         /\ \A j \in DOMAIN events : Len(log) + j \in DOMAIN log' /\ log'[Len(log) + j] = events[j]
         /\ \A k \in DOMAIN log' : k \in DOMAIN log \/ \E j \in DOMAIN events : k = Len(log) + j
         /\ DOMAIN log = 1..Len(log) /\ Len(log) \in Nat
         /\ DOMAIN events = 1..Len(events)
         /\ \A t, type : Told(t, type)' <=>
              Told(t, type) \/ \E j \in DOMAIN events : events[j].ticket = t /\ events[j].type = type
         /\ known' \in [Tickets -> Known]
         /\ \A t \in Tickets :
              (\A j \in DOMAIN events : events[j].ticket = t => events[j].type \notin Counting)
                => known'[t] = known[t]
         /\ \A i \in DOMAIN events :
              /\ events[i].type \in Counting /\ New(events[i])
              /\ \A j \in DOMAIN events :
                   events[j].ticket = events[i].ticket /\ events[j].type \in Counting => j = i
              => known'[events[i].ticket] = Accepts(known[events[i].ticket], events[i])
  <1>1. log' = log \o events
    BY DEF Send
  <1>2. /\ log' \in Seq(Event)
        /\ \A i \in DOMAIN log : i \in DOMAIN log' /\ log'[i] = log[i]
        /\ \A j \in DOMAIN events : Len(log) + j \in DOMAIN log' /\ log'[Len(log) + j] = events[j]
        /\ \A k \in DOMAIN log' : k \in DOMAIN log \/ \E j \in DOMAIN events : k = Len(log) + j
        /\ DOMAIN log = 1..Len(log) /\ Len(log) \in Nat
        /\ DOMAIN events = 1..Len(events)
    BY <1>1, Positions
  <1>3. \A t, type : Told(t, type)' <=>
          Told(t, type) \/ \E j \in DOMAIN events : events[j].ticket = t /\ events[j].type = type
    BY <1>2 DEF Told
  <1>4. \A j \in DOMAIN events : events[j] \in Event /\ events[j].ticket \in Tickets
    <2>1. \A j \in DOMAIN events : events[j] \in Event
      BY ElementOfSeq, LenProperties
    <2>2. QED BY <2>1 DEF Event
  <1> DEFINE chosen(t) == CHOOSE i \in Heard(events, t) : TRUE
  <1>5. ASSUME NEW t, Heard(events, t) # {}
        PROVE  /\ chosen(t) \in DOMAIN events
               /\ events[chosen(t)].ticket = t /\ events[chosen(t)].type \in Counting
    <2>1. chosen(t) \in Heard(events, t)
      BY <1>5
    <2>2. QED BY <2>1 DEF Heard, Counting
  <1>6. known' = [t \in Tickets |-> IF Heard(events, t) = {} THEN known[t]
                                    ELSE Accepts(known[t], events[chosen(t)])]
    BY DEF Send
  <1> HIDE DEF chosen
  <1>7. known' \in [Tickets -> Known]
    BY <1>4, <1>5, <1>6, AcceptsType
  <1>8. ASSUME NEW t \in Tickets,
               \A j \in DOMAIN events : events[j].ticket = t => events[j].type \notin Counting
        PROVE  known'[t] = known[t]
    <2>1. Heard(events, t) = {}
      BY <1>5, <1>8
    <2>2. QED BY <1>6, <2>1
  <1>9. ASSUME NEW i \in DOMAIN events, events[i].type \in Counting, New(events[i]),
               \A j \in DOMAIN events :
                 events[j].ticket = events[i].ticket /\ events[j].type \in Counting => j = i
        PROVE  known'[events[i].ticket] = Accepts(known[events[i].ticket], events[i])
    <2>1. i \in Heard(events, events[i].ticket)
      BY <1>9 DEF Heard, New, Counting
    <2>2. chosen(events[i].ticket) = i
      BY <1>5, <1>9, <2>1
    <2>3. QED BY <1>4, <1>6, <2>1, <2>2
  <1>10. QED BY <1>1, <1>2, <1>3, <1>7, <1>8, <1>9

LEMMA SentOne ==
  ASSUME log \in Seq(Event), known \in [Tickets -> Known], NEW e \in Event, Send(<<e>>)
  PROVE  /\ log' \in Seq(Event) /\ log' = log \o <<e>>
         /\ \A i \in DOMAIN log : i \in DOMAIN log' /\ log'[i] = log[i]
         /\ \A k \in DOMAIN log' : k \in DOMAIN log \/ log'[k] = e
         /\ \A t, type : Told(t, type)' <=>
              Told(t, type) \/ (e.ticket = t /\ e.type = type)
         /\ known' \in [Tickets -> Known]
         /\ \A t \in Tickets : t # e.ticket \/ e.type \notin Counting => known'[t] = known[t]
         /\ e.type \in Counting /\ New(e) => known'[e.ticket] = Accepts(known[e.ticket], e)
  <1> DEFINE events == <<e>>
  <1>1. events \in Seq(Event) /\ DOMAIN events = {1} /\ events[1] = e
    OBVIOUS
  <1> HIDE DEF events
  <1>2. Send(events)
    BY DEF events
  <1>3. /\ log' \in Seq(Event) /\ log' = log \o events
        /\ \A i \in DOMAIN log : i \in DOMAIN log' /\ log'[i] = log[i]
        /\ \A j \in DOMAIN events : Len(log) + j \in DOMAIN log' /\ log'[Len(log) + j] = events[j]
        /\ \A k \in DOMAIN log' : k \in DOMAIN log \/ \E j \in DOMAIN events : k = Len(log) + j
        /\ \A t, type : Told(t, type)' <=>
             Told(t, type) \/ \E j \in DOMAIN events : events[j].ticket = t /\ events[j].type = type
        /\ known' \in [Tickets -> Known]
        /\ \A t \in Tickets :
             (\A j \in DOMAIN events : events[j].ticket = t => events[j].type \notin Counting)
               => known'[t] = known[t]
        /\ \A i \in DOMAIN events :
             /\ events[i].type \in Counting /\ New(events[i])
             /\ \A j \in DOMAIN events :
                  events[j].ticket = events[i].ticket /\ events[j].type \in Counting => j = i
             => known'[events[i].ticket] = Accepts(known[events[i].ticket], events[i])
    BY <1>1, <1>2, Sent
  <1>4. QED BY <1>1, <1>3 DEF events

(***************************************************************************)
(* MT5.  One transaction is taken off the queue and sends one event or     *)
(* none.                                                                   *)
(***************************************************************************)
Tells(x, e) ==
  /\ e \in Event /\ e.ticket = x.ticket
  /\ \/ /\ x.type = "DEAL_IN" /\ e.type = "OPEN" /\ e.n = x.deal
        /\ IsOpen(account, x.ticket) => e.level = account[x.ticket].level
        /\ eventSeq' = eventSeq
     \/ /\ x.type = "DEAL_OUT" /\ e.n = x.deal /\ eventSeq' = eventSeq
        /\ e.type = IF IsOpen(account, x.ticket) THEN "PARTIAL_CLOSE" ELSE "CLOSE"
     \/ /\ x.type = "POSITION" /\ e.type = "MODIFY" /\ IsOpen(account, x.ticket)
        /\ e.level = account[x.ticket].level
        /\ e.n = eventSeq + 1 /\ eventSeq' = eventSeq + 1
     \/ /\ x.type \in {"ORDER_ADD", "ORDER_UPDATE", "ORDER_DELETE"}
        /\ e.type \in {"PENDING_OPEN", "PENDING_MODIFY", "PENDING_CANCEL"}
        /\ eventSeq' \in {eventSeq, eventSeq + 1}

LEMMA TransactionTells ==
  ASSUME IInv, OnTradeTransaction
  PROVE  \/ /\ UNCHANGED <<eventSeq, log, known>>
            /\ Head(queue).type \notin Deals
            /\ Head(queue).type = "POSITION" => ~IsOpen(account, Head(queue).ticket)
         \/ \E e : Send(<<e>>) /\ Tells(Head(queue), e)
  <1> DEFINE x == Head(queue)
  <1>1. /\ queue \in Seq(Transaction) /\ queue # <<>>
        /\ account \in [Tickets -> Order \cup {NoOrder}] /\ eventSeq \in Nat
    BY DEF IInv, TypeOK, Orders, OnTradeTransaction
  <1>2. x \in Transaction
    BY <1>1, HeadTailProperties
  <1>3. x.ticket \in Tickets /\ x.deal \in Nat
    BY <1>2 DEF Transaction
  <1>4. \A type : LevelSent(type, x.ticket) \in Levels \cup {"none"}
    BY <1>1, <1>3 DEF LevelSent, IsOpen, Order, NoOrder
  <1>5. CASE x.type = "DEAL_IN"
    <2> DEFINE e == EventOf("OPEN", x.ticket, x.deal, LevelSent("OPEN", x.ticket))
    <2>1. Send(<<e>>) /\ eventSeq' = eventSeq
      BY <1>5 DEF OnTradeTransaction, HandleDealAdd, SendDeal
    <2>2. Tells(x, e)
      BY <1>3, <1>4, <1>5, <2>1 DEF Tells, EventOf, Event, LevelSent
    <2>3. QED BY <2>1, <2>2
  <1>6. CASE x.type = "DEAL_OUT"
    <2> DEFINE type == IF IsOpen(account, x.ticket) THEN "PARTIAL_CLOSE" ELSE "CLOSE"
               e == EventOf(type, x.ticket, x.deal, LevelSent(type, x.ticket))
    <2>1. Send(<<e>>) /\ eventSeq' = eventSeq
      BY <1>6 DEF OnTradeTransaction, HandleDealAdd, SendDeal
    <2>2. Tells(x, e)
      BY <1>3, <1>4, <1>6, <2>1 DEF Tells, EventOf, Event
    <2>3. QED BY <2>1, <2>2
  <1>7. CASE x.type \in {"ORDER_ADD", "ORDER_UPDATE"}
    <2> DEFINE type == IF x.type = "ORDER_ADD" THEN "PENDING_OPEN" ELSE "PENDING_MODIFY"
               e == EventOf(type, x.ticket, eventSeq + 1, LevelSent(type, x.ticket))
    <2>1. HandleOrderAddOrUpdate(x, type)
      BY <1>7 DEF OnTradeTransaction
    <2>2. CASE IsPending(account, x.ticket)
      <3>1. Send(<<e>>) /\ eventSeq' = eventSeq + 1
        BY <2>1, <2>2 DEF HandleOrderAddOrUpdate, SendNumbered
      <3>2. Tells(x, e)
        BY <1>1, <1>3, <1>4, <1>7, <3>1 DEF Tells, EventOf, Event
      <3>3. QED BY <3>1, <3>2
    <2>3. CASE ~IsPending(account, x.ticket)
      BY <1>7, <2>1, <2>3 DEF HandleOrderAddOrUpdate, SendNothing, Deals
    <2>4. QED BY <2>2, <2>3
  <1>8. CASE x.type = "ORDER_DELETE"
    <2> DEFINE e == EventOf("PENDING_CANCEL", x.ticket, 0, "none")
    <2>1. Send(<<e>>) /\ eventSeq' = eventSeq
      BY <1>8 DEF OnTradeTransaction, HandleOrderDelete
    <2>2. Tells(x, e)
      BY <1>3, <1>8, <2>1 DEF Tells, EventOf, Event
    <2>3. QED BY <2>1, <2>2
  <1>9. CASE x.type = "POSITION"
    <2> DEFINE e == EventOf("MODIFY", x.ticket, eventSeq + 1, LevelSent("MODIFY", x.ticket))
    <2>1. HandlePositionModify(x)
      BY <1>9 DEF OnTradeTransaction
    <2>2. CASE IsOpen(account, x.ticket)
      <3>1. Send(<<e>>) /\ eventSeq' = eventSeq + 1
        BY <2>1, <2>2 DEF HandlePositionModify, SendNumbered
      <3>2. Tells(x, e)
        BY <1>1, <1>3, <1>4, <1>9, <2>2, <3>1 DEF Tells, EventOf, Event, LevelSent
      <3>3. QED BY <3>1, <3>2
    <2>3. CASE ~IsOpen(account, x.ticket)
      BY <1>9, <2>1, <2>3 DEF HandlePositionModify, SendNothing, Deals
    <2>4. QED BY <2>2, <2>3
  <1>10. QED BY <1>2, <1>5, <1>6, <1>7, <1>8, <1>9 DEF Transaction

\* What is left of the queue.
LEMMA Handled ==
  ASSUME queue \in Seq(Transaction), queue # <<>>, queue' = Tail(queue)
  PROVE  /\ queue' \in Seq(Transaction) /\ Head(queue) \in Transaction
         /\ 1 \in DOMAIN queue /\ queue[1] = Head(queue)
         /\ \A i \in DOMAIN queue' :
              i \in Nat \ {0} /\ i + 1 \in DOMAIN queue /\ queue'[i] = queue[i + 1]
         /\ \A t, type : Due(t, type)' => Due(t, type)
         /\ \A t, type : Due(t, type) =>
              Due(t, type)' \/ (Head(queue).ticket = t /\ Head(queue).type = type)
         /\ Due(Head(queue).ticket, Head(queue).type)
  <1>1. /\ Head(queue) \in Transaction /\ Tail(queue) \in Seq(Transaction)
        /\ Len(Tail(queue)) = Len(queue) - 1
        /\ \A i \in 1..Len(Tail(queue)) : Tail(queue)[i] = queue[i + 1]
        /\ Head(queue) = queue[1]
    BY HeadTailProperties
  <1>2. /\ DOMAIN queue = 1..Len(queue) /\ Len(queue) \in Nat /\ Len(queue) # 0
        /\ DOMAIN queue' = 1..(Len(queue) - 1)
    BY <1>1, LenProperties, EmptySeq
  <1>3. \A i \in DOMAIN queue' :
          i \in Nat \ {0} /\ i + 1 \in DOMAIN queue /\ queue'[i] = queue[i + 1]
    BY <1>1, <1>2
  <1>4. \A t, type : Due(t, type)' => Due(t, type)
    BY <1>3 DEF Due
  <1>5. ASSUME NEW t, NEW type, Due(t, type)
        PROVE  Due(t, type)' \/ (Head(queue).ticket = t /\ Head(queue).type = type)
    <2>1. PICK k \in DOMAIN queue : queue[k].ticket = t /\ queue[k].type = type
      BY <1>5 DEF Due
    <2>2. CASE k = 1
      BY <1>1, <2>1, <2>2
    <2>3. CASE k # 1
      <3>1. k - 1 \in DOMAIN queue' /\ (k - 1) + 1 = k
        BY <1>2, <2>3
      <3>2. queue'[k - 1] = queue[k]
        BY <1>3, <3>1
      <3>3. QED BY <2>1, <3>1, <3>2 DEF Due
    <2>4. QED BY <2>2, <2>3
  <1>6. 1 \in DOMAIN queue
    BY <1>2
  <1>7. QED BY <1>1, <1>3, <1>4, <1>5, <1>6 DEF Due

\* The id of an event about a deal, and of a MODIFY, is new.
LEMMA TellsNew ==
  ASSUME IInv, platform = "MT5", restarts = 0, queue # <<>>, NEW e, Tells(Head(queue), e),
         e.type \in Counting
  PROVE  New(e)
  <1> DEFINE x == Head(queue)
  <1>1. /\ queue \in Seq(Transaction) /\ log \in Seq(Event) /\ eventSeq \in Nat
    BY DEF IInv, TypeOK
  <1>2. 1 \in DOMAIN queue /\ queue[1] = x
    BY <1>1, HeadTailProperties, LenProperties, EmptySeq
  <1> SUFFICES ASSUME NEW j \in DOMAIN log PROVE IdOf(log[j]) # IdOf(e)
    BY DEF New
  <1>3. log[j] \in Event
    BY <1>1, ElementOfSeq, LenProperties
  <1>4. CASE x.type \in Deals
    <2>1. e.type \in DealEvents /\ e.n = x.deal
      BY <1>4 DEF Tells, Deals, DealEvents
    <2>2. log[j].type \in DealEvents => log[j].n # e.n
      BY <1>2, <1>4, <2>1 DEF IInv, DealsDiffer
    <2>3. Prefix(e.type) = "DEAL"
      BY <2>1 DEF Prefix, DealEvents
    <2>4. log[j].type \notin DealEvents => Prefix(log[j].type) # "DEAL"
      BY <1>3 DEF Prefix, DealEvents, Event
    <2>5. QED BY <2>2, <2>3, <2>4 DEF IdOf
  <1>5. CASE x.type \notin Deals
    <2>1. e.type = "MODIFY" /\ e.n = eventSeq + 1
      BY <1>5 DEF Tells, Deals, Counting
    <2>2. log[j].type = "MODIFY" => log[j].n # e.n
      BY <1>1, <1>3, <2>1 DEF IInv, Counted, Event
    <2>3. Prefix(e.type) = "MODIFY"
      BY <2>1 DEF Prefix
    <2>4. log[j].type # "MODIFY" => Prefix(log[j].type) # "MODIFY"
      BY <1>3 DEF Prefix, Event
    <2>5. QED BY <2>2, <2>3, <2>4 DEF IdOf
  <1>6. QED BY <1>4, <1>5

LEMMA TransactionInv == IInv /\ OnTradeTransaction => IInv'
  <1> SUFFICES ASSUME IInv, OnTradeTransaction PROVE IInv'
    OBVIOUS
  <1> DEFINE x == Head(queue)
             sent(e) == Send(<<e>>) /\ Tells(x, e)
             quiet == /\ UNCHANGED <<eventSeq, log, known>>
                      /\ x.type \notin Deals
                      /\ x.type = "POSITION" => ~IsOpen(account, x.ticket)
  <1>1. quiet \/ \E e : sent(e)
    BY TransactionTells
  <1>2. /\ running /\ queue # <<>> /\ queue' = Tail(queue)
        /\ UNCHANGED <<platform, account, used, snapshot, running, changes, restarts>>
    BY DEF OnTradeTransaction, worldVars
  <1>3. /\ queue \in Seq(Transaction) /\ log \in Seq(Event) /\ known \in [Tickets -> Known]
        /\ account \in [Tickets -> Order \cup {NoOrder}]
        /\ eventSeq \in Nat /\ changes \in Nat
    BY DEF IInv, TypeOK, Orders
  <1>4. platform = "MT5"
    BY <1>2 DEF IInv, TypeOK, Fresh
  <1>5. /\ queue' \in Seq(Transaction) /\ x \in Transaction
        /\ 1 \in DOMAIN queue /\ queue[1] = x
        /\ \A i \in DOMAIN queue' :
             i \in Nat \ {0} /\ i + 1 \in DOMAIN queue /\ queue'[i] = queue[i + 1]
        /\ \A t, type : Due(t, type)' => Due(t, type)
        /\ \A t, type : Due(t, type) => Due(t, type)' \/ (x.ticket = t /\ x.type = type)
        /\ Due(x.ticket, x.type)
    BY <1>2, <1>3, Handled
  <1>6. x.ticket \in Tickets /\ x.deal \in Nat
    BY <1>5 DEF Transaction
  <1>7. x.ticket \in used
    BY <1>5, <1>6 DEF IInv, Fresh, Due
  <1>8. \A t : x.type \in Deals /\ t = x.ticket => ~Due(t, "DEAL_IN")'
    <2>1. SUFFICES ASSUME x.type \in Deals, NEW i \in DOMAIN queue',
                          queue'[i].ticket = x.ticket, queue'[i].type = "DEAL_IN"
                   PROVE  FALSE
      BY DEF Due
    <2>2. i + 1 \in DOMAIN queue /\ queue[i + 1] = queue'[i]
      BY <1>5
    <2>3. i + 1 <= 1
      BY <1>5, <2>1, <2>2 DEF IInv, DealsInOrder
    <2>4. QED BY <1>5, <2>3
  <1>9. ASSUME NEW e, sent(e)
        PROVE  /\ e \in Event /\ e.ticket = x.ticket
               /\ log' \in Seq(Event) /\ log' = log \o <<e>>
               /\ \A i \in DOMAIN log : i \in DOMAIN log' /\ log'[i] = log[i]
               /\ \A k \in DOMAIN log' : k \in DOMAIN log \/ log'[k] = e
               /\ \A t, type : Told(t, type)' <=>
                    Told(t, type) \/ (e.ticket = t /\ e.type = type)
               /\ known' \in [Tickets -> Known]
               /\ \A t \in Tickets : t # e.ticket \/ e.type \notin Counting => known'[t] = known[t]
               /\ e.type \in Counting /\ New(e) => known'[e.ticket] = Accepts(known[e.ticket], e)
    <2>1. e \in Event /\ e.ticket = x.ticket
      BY <1>9 DEF Tells
    <2>2. QED BY <1>3, <1>9, <2>1, SentOne
  <1>10. TypeOK'
    <2>1. CASE quiet
      BY <1>2, <1>5, <2>1 DEF IInv, TypeOK, Orders
    <2>2. ASSUME NEW e, sent(e) PROVE TypeOK'
      <3>1. eventSeq' \in Nat
        BY <1>3, <2>2 DEF Tells
      <3>2. QED BY <1>2, <1>5, <1>9, <2>2, <3>1 DEF IInv, TypeOK, Orders
    <2>3. QED BY <1>1, <2>1, <2>2
  <1>11. Fresh'
    <2>1. ASSUME NEW t \in Tickets \ used
          PROVE  /\ known'[t] = Unknown
                 /\ \A i \in DOMAIN log' : log'[i].ticket # t
      <3>1. known[t] = Unknown /\ \A i \in DOMAIN log : log[i].ticket # t
        BY <2>1 DEF IInv, Fresh
      <3>2. ASSUME NEW e, sent(e)
            PROVE  known'[t] = Unknown /\ \A i \in DOMAIN log' : log'[i].ticket # t
        BY <1>7, <1>9, <2>1, <3>1, <3>2
      <3>3. QED BY <1>1, <3>1, <3>2
    <2>2. \A t \in Tickets \ used : \A i \in DOMAIN queue' : queue'[i].ticket # t
      BY <1>5 DEF IInv, Fresh
    <2>3. QED BY <1>2, <1>4, <2>1, <2>2 DEF IInv, Fresh
  <1> HIDE DEF Told, Due
  <1>12. InOrder'
    <2>1. SUFFICES ASSUME NEW u \in Tickets
                   PROVE  /\ (Told(u, "OPEN") \/ Due(u, "DEAL_IN") \/ Due(u, "DEAL_OUT"))'
                               => ~IsPending(account, u)
                          /\ Told(u, "OPEN")' => ~Due(u, "DEAL_IN")'
                          /\ Told(u, "CLOSE")' => account[u] = NoOrder /\ ~Due(u, "DEAL_IN")'
      BY <1>2 DEF InOrder, IsPending
    <2>2. /\ Told(u, "OPEN") \/ Due(u, "DEAL_IN") \/ Due(u, "DEAL_OUT") => ~IsPending(account, u)
          /\ Told(u, "OPEN") => ~Due(u, "DEAL_IN")
          /\ Told(u, "CLOSE") => account[u] = NoOrder /\ ~Due(u, "DEAL_IN")
      BY DEF IInv, InOrder
    <2>3. CASE quiet
      <3>1. Told(u, "OPEN")' <=> Told(u, "OPEN")
        BY <2>3 DEF Told
      <3>2. Told(u, "CLOSE")' <=> Told(u, "CLOSE")
        BY <2>3 DEF Told
      <3>3. QED BY <1>5, <2>2, <3>1, <3>2
    <2>4. ASSUME NEW e, sent(e)
          PROVE  /\ (Told(u, "OPEN") \/ Due(u, "DEAL_IN") \/ Due(u, "DEAL_OUT"))'
                      => ~IsPending(account, u)
                 /\ Told(u, "OPEN")' => ~Due(u, "DEAL_IN")'
                 /\ Told(u, "CLOSE")' => account[u] = NoOrder /\ ~Due(u, "DEAL_IN")'
      <3>1. /\ e.type = "OPEN" => x.type = "DEAL_IN"
            /\ e.type = "CLOSE" => x.type = "DEAL_OUT" /\ ~IsOpen(account, x.ticket)
        BY <2>4 DEF Tells
      <3>2. account[u].kind \in {"pending", "open"} \/ account[u] = NoOrder
        BY <1>3 DEF Order
      <3>3. e.ticket = u /\ e.type = "OPEN" => Due(u, "DEAL_IN")
        BY <1>5, <1>9, <2>4, <3>1
      <3>4. e.ticket = u /\ e.type = "CLOSE" => Due(u, "DEAL_OUT")
        BY <1>5, <1>9, <2>4, <3>1
      <3>5. e.ticket = u /\ e.type \in {"OPEN", "CLOSE"} => ~Due(u, "DEAL_IN")'
        BY <1>8, <1>9, <2>4, <3>1 DEF Deals
      <3>6. e.ticket = u /\ e.type = "CLOSE" => account[u] = NoOrder
        BY <1>9, <2>2, <2>4, <3>1, <3>2, <3>4 DEF IsOpen, IsPending
      <3>7. /\ Told(u, "OPEN")' <=> Told(u, "OPEN") \/ (e.ticket = u /\ e.type = "OPEN")
            /\ Told(u, "CLOSE")' <=> Told(u, "CLOSE") \/ (e.ticket = u /\ e.type = "CLOSE")
        BY <1>9, <2>4
      <3>8. QED BY <1>5, <2>2, <3>3, <3>5, <3>6, <3>7
    <2>5. QED BY <1>1, <2>3, <2>4
  <1>13. ScanInOrder' /\ ScanKnown'
    BY <1>2, <1>4 DEF ScanInOrder, ScanKnown
  <1>14. DealsInOrder'
    BY <1>5 DEF IInv, DealsInOrder
  <1>15. DealsDiffer'
    <2>1. \A j \in DOMAIN queue' : queue'[j].type \in Deals => queue'[j].deal <= changes
      BY <1>5 DEF IInv, DealsDiffer
    <2>2. \A i, j \in DOMAIN queue' :
            queue'[i].type \in Deals /\ queue'[j].type \in Deals /\ i # j
              => queue'[i].deal # queue'[j].deal
      <3>1. SUFFICES ASSUME NEW i \in DOMAIN queue', NEW j \in DOMAIN queue', i # j,
                            queue'[i].type \in Deals, queue'[j].type \in Deals
                     PROVE  queue'[i].deal # queue'[j].deal
        OBVIOUS
      <3>2. i + 1 # j + 1
        BY <1>5, <3>1
      <3>3. QED BY <1>5, <3>1, <3>2 DEF IInv, DealsDiffer
    <2>3. ASSUME NEW i \in DOMAIN log, log[i].type \in DealEvents
          PROVE  /\ log[i].n <= changes
                 /\ \A j \in DOMAIN queue' : queue'[j].type \in Deals => log[i].n # queue'[j].deal
      BY <1>4, <1>5, <2>3 DEF IInv, DealsDiffer
    <2>4. ASSUME NEW e, sent(e), e.type \in DealEvents
          PROVE  /\ e.n <= changes
                 /\ \A j \in DOMAIN queue' : queue'[j].type \in Deals => e.n # queue'[j].deal
      <3>1. x.type \in Deals /\ e.n = x.deal
        BY <2>4 DEF Tells, Deals, DealEvents
      <3>2. x.deal <= changes
        BY <1>5, <3>1 DEF IInv, DealsDiffer
      <3>3. ASSUME NEW j \in DOMAIN queue', queue'[j].type \in Deals
            PROVE  x.deal # queue'[j].deal
        <4>1. j + 1 \in DOMAIN queue /\ queue'[j] = queue[j + 1] /\ j + 1 # 1
          BY <1>5
        <4>2. QED BY <1>5, <3>1, <3>3, <4>1 DEF IInv, DealsDiffer
      <3>4. QED BY <3>1, <3>2, <3>3
    <2>5. \A i \in DOMAIN log' : log'[i].type \in DealEvents =>
            /\ log'[i].n <= changes
            /\ \A j \in DOMAIN queue' : queue'[j].type \in Deals => log'[i].n # queue'[j].deal
      <3>1. CASE quiet
        BY <2>3, <3>1
      <3>2. ASSUME NEW e, sent(e), NEW i \in DOMAIN log', log'[i].type \in DealEvents
            PROVE  /\ log'[i].n <= changes
                   /\ \A j \in DOMAIN queue' : queue'[j].type \in Deals => log'[i].n # queue'[j].deal
        <4>1. CASE i \in DOMAIN log
          BY <1>9, <2>3, <3>2, <4>1
        <4>2. CASE log'[i] = e
          BY <2>4, <3>2, <4>2
        <4>3. QED BY <1>9, <3>2, <4>1, <4>2
      <3>3. QED BY <1>1, <3>1, <3>2
    <2>6. QED BY <1>2, <2>1, <2>2, <2>5 DEF DealsDiffer
  <1>16. Counted'
    <2>1. CASE quiet
      BY <1>2, <2>1 DEF IInv, Counted
    <2>2. ASSUME NEW e, sent(e), restarts = 0, NEW i \in DOMAIN log', log'[i].type = "MODIFY"
          PROVE  log'[i].n <= eventSeq'
      <3>1. eventSeq' \in {eventSeq, eventSeq + 1}
        BY <2>2 DEF Tells
      <3>2. CASE i \in DOMAIN log
        <4>1. log'[i] = log[i] /\ log[i].n <= eventSeq
          BY <1>9, <2>2, <3>2 DEF IInv, Counted
        <4>2. log[i] \in Event
          BY <1>3, <3>2, ElementOfSeq, LenProperties
        <4>3. QED BY <1>3, <3>1, <4>1, <4>2 DEF Event
      <3>3. CASE log'[i] = e
        <4>1. e.n = eventSeq + 1 /\ eventSeq' = eventSeq + 1
          BY <2>2, <3>3 DEF Tells
        <4>2. QED BY <1>3, <3>3, <4>1
      <3>4. QED BY <1>9, <2>2, <3>2, <3>3
    <2>3. QED BY <1>1, <1>2, <2>1, <2>2 DEF Counted
  <1>17. QueueKnown'
    <2>1. SUFFICES ASSUME restarts = 0, NEW u \in Tickets
                   PROVE  /\ IsOpen(account, u) => known'[u].state = "open" \/ Due(u, "DEAL_IN")'
                          /\ known'[u].state = "open" \/ Due(u, "DEAL_IN")'
                               => IsOpen(account, u) \/ Due(u, "DEAL_OUT")'
                          /\ IsOpen(account, u) =>
                               \/ known'[u].level = account[u].level
                               \/ Due(u, "POSITION")' \/ Due(u, "DEAL_IN")'
      BY <1>2 DEF QueueKnown, IsOpen
    <2>2. /\ IsOpen(account, u) => known[u].state = "open" \/ Due(u, "DEAL_IN")
          /\ known[u].state = "open" \/ Due(u, "DEAL_IN")
               => IsOpen(account, u) \/ Due(u, "DEAL_OUT")
          /\ IsOpen(account, u) =>
               known[u].level = account[u].level \/ Due(u, "POSITION") \/ Due(u, "DEAL_IN")
      BY <1>4, <2>1 DEF IInv, QueueKnown
    <2>3. CASE quiet
      BY <1>5, <2>2, <2>3 DEF Deals
    <2>4. ASSUME NEW e, sent(e), u # x.ticket
          PROVE  /\ IsOpen(account, u) => known'[u].state = "open" \/ Due(u, "DEAL_IN")'
                 /\ known'[u].state = "open" \/ Due(u, "DEAL_IN")'
                      => IsOpen(account, u) \/ Due(u, "DEAL_OUT")'
                 /\ IsOpen(account, u) =>
                      \/ known'[u].level = account[u].level
                      \/ Due(u, "POSITION")' \/ Due(u, "DEAL_IN")'
      <3>1. known'[u] = known[u]
        BY <1>9, <2>4
      <3>2. QED BY <1>5, <2>2, <2>4, <3>1
    <2>5. ASSUME NEW e, sent(e), u = x.ticket
          PROVE  /\ IsOpen(account, u) => known'[u].state = "open" \/ Due(u, "DEAL_IN")'
                 /\ known'[u].state = "open" \/ Due(u, "DEAL_IN")'
                      => IsOpen(account, u) \/ Due(u, "DEAL_OUT")'
                 /\ IsOpen(account, u) =>
                      \/ known'[u].level = account[u].level
                      \/ Due(u, "POSITION")' \/ Due(u, "DEAL_IN")'
      <3>1. e.type \in Counting => known'[u] = Accepts(known[u], e)
        BY <1>2, <1>4, <1>9, <2>1, <2>5, TellsNew
      <3>2. e.type \notin Counting => known'[u] = known[u]
        BY <1>9, <2>5
      <3>3. CASE x.type = "DEAL_IN"
        <4>1. e.type = "OPEN" /\ (IsOpen(account, u) => e.level = account[u].level)
          BY <2>5, <3>3 DEF Tells
        <4>2. known'[u] = [state |-> "open", level |-> e.level]
          BY <3>1, <4>1 DEF Accepts, Counting
        <4>3. QED BY <1>5, <2>2, <2>5, <3>3, <4>1, <4>2
      <3>4. CASE x.type = "DEAL_OUT" /\ IsOpen(account, u)
        <4>1. known'[u] = known[u]
          BY <2>5, <3>2, <3>4 DEF Tells, Counting
        <4>2. QED BY <1>5, <2>2, <2>5, <3>4, <4>1
      <3>5. CASE x.type = "DEAL_OUT" /\ ~IsOpen(account, u)
        <4>1. e.type = "CLOSE"
          BY <2>5, <3>5 DEF Tells
        <4>2. known'[u] = [state |-> "closed", level |-> "none"]
          BY <3>1, <4>1 DEF Accepts, Counting
        <4>3. QED BY <1>8, <2>5, <3>5, <4>2 DEF Deals
      <3>6. CASE x.type = "POSITION"
        <4>1. e.type = "MODIFY" /\ e.level = account[u].level
          BY <2>5, <3>6 DEF Tells
        <4>2. known'[u] = [known[u] EXCEPT !.level = e.level]
          BY <3>1, <4>1 DEF Accepts, Counting
        <4>3. known'[u].state = known[u].state /\ known'[u].level = account[u].level
          <5>1. known[u] \in Known
            BY <1>3
          <5>2. QED BY <4>1, <4>2, <5>1 DEF Known
        <4>4. QED BY <1>5, <2>2, <2>5, <3>6, <4>3
      <3>7. CASE x.type \in {"ORDER_ADD", "ORDER_UPDATE", "ORDER_DELETE"}
        <4>1. known'[u] = known[u]
          BY <2>5, <3>2, <3>7 DEF Tells, Counting
        <4>2. QED BY <1>5, <2>2, <3>7, <4>1
      <3>8. QED BY <1>5, <3>3, <3>4, <3>5, <3>6, <3>7 DEF Transaction
    <2>6. QED BY <1>1, <2>3, <2>4, <2>5
  <1>18. LifeInOrder'
    <2>1. CASE quiet
      BY <1>2, <2>1 DEF IInv, LifeInOrder, MayFollow
    <2>2. ASSUME NEW e, sent(e) PROVE LifeInOrder'
      <3>1. ASSUME NEW i \in DOMAIN log, log[i].ticket = e.ticket
            PROVE  MayFollow(log[i], e)
        <4>1. Told(x.ticket, log[i].type)
          BY <1>9, <2>2, <3>1 DEF Told
        <4>2. e.type = "OPEN" => log[i].type \notin {"OPEN", "CLOSE"}
          <5>1. e.type = "OPEN" => Due(x.ticket, "DEAL_IN")
            BY <1>5, <2>2 DEF Tells
          <5>2. QED BY <1>6, <4>1, <5>1 DEF IInv, InOrder
        <4>3. e.type = "MODIFY" => log[i].type # "CLOSE"
          <5>1. e.type = "MODIFY" => IsOpen(account, x.ticket)
            BY <2>2 DEF Tells
          <5>2. QED BY <1>6, <4>1, <5>1 DEF IInv, InOrder, IsOpen, NoOrder
        <4>4. QED BY <1>4, <4>2, <4>3 DEF MayFollow
      <3>2. /\ <<e>> \in Seq(Event) /\ log' = log \o <<e>>
            /\ DOMAIN <<e>> = {1} /\ <<e>>[1] = e /\ \A i \in 1..0 : FALSE
        BY <1>9, <2>2
      <3>3. /\ \A j \in DOMAIN <<e>> : \A i \in DOMAIN log :
                 log[i].ticket = <<e>>[j].ticket => MayFollow(log[i], <<e>>[j])
            /\ \A j \in DOMAIN <<e>> : \A i \in 1..(j - 1) :
                 <<e>>[i].ticket = <<e>>[j].ticket => MayFollow(<<e>>[i], <<e>>[j])
        BY <3>1, <3>2
      <3>4. LifeInOrder
        BY DEF IInv
      <3>5. QED BY <1>2, <1>3, <3>2, <3>3, <3>4, Extended
    <2>3. QED BY <1>1, <2>1, <2>2
  <1>19. QED BY <1>10, <1>11, <1>12, <1>13, <1>14, <1>15, <1>16, <1>17, <1>18 DEF IInv

(***************************************************************************)
(* MT4.  What a scan sends.                                                *)
(***************************************************************************)
OpenTypes == {"OPEN", "MODIFY", "PARTIAL_CLOSE", "CLOSE"}
PendingTypes == {"PENDING_OPEN", "PENDING_MODIFY", "PENDING_CANCEL"}

Found(events) ==
  /\ \A i \in DOMAIN events :
       /\ events[i].ticket \in used
       /\ \/ events[i].type = DetectOpenChange(events[i].ticket) /\ events[i].type \in OpenTypes
          \/ events[i].type = DetectPendingChange(events[i].ticket) /\ events[i].type \in PendingTypes
       /\ events[i].level = LevelSent(events[i].type, events[i].ticket)
       /\ events[i].type = "MODIFY" => eventSeq < events[i].n /\ events[i].n <= eventSeq'
  /\ \A i, j \in DOMAIN events :
       /\ events[i].ticket = events[j].ticket
       /\ events[i].type \in OpenTypes /\ events[j].type \in OpenTypes
       => i = j
  /\ \A t \in Tickets : DetectOpenChange(t) # "none" =>
       \E i \in DOMAIN events : events[i].ticket = t /\ events[i].type = DetectOpenChange(t)

LEMMA DetectTypes ==
  ASSUME IInv
  PROVE  /\ \A t \in Tickets : /\ DetectOpenChange(t) \in OpenTypes \cup {"none"}
                               /\ DetectPendingChange(t) \in PendingTypes \cup {"none"}
         /\ \A t \in Tickets \ used : DetectOpenChange(t) = "none" /\ DetectPendingChange(t) = "none"
  <1>1. ASSUME NEW t \in Tickets
        PROVE  DetectOpenChange(t) \in OpenTypes \cup {"none"}
    BY DEF DetectOpenChange, OpenTypes
  <1>2. ASSUME NEW t \in Tickets
        PROVE  DetectPendingChange(t) \in PendingTypes \cup {"none"}
    BY DEF DetectPendingChange, PendingTypes
  <1>3. ASSUME NEW t \in Tickets \ used
        PROVE  DetectOpenChange(t) = "none" /\ DetectPendingChange(t) = "none"
    <2>1. account[t] = NoOrder /\ snapshot[t] = NoOrder
      BY DEF IInv, Fresh
    <2>2. /\ ~IsOpen(account, t) /\ ~IsOpen(snapshot, t)
          /\ ~IsPending(account, t) /\ ~IsPending(snapshot, t)
      BY <2>1 DEF IsOpen, IsPending, NoOrder
    <2>3. QED BY <2>2 DEF DetectOpenChange, DetectPendingChange
  <1>4. QED BY <1>1, <1>2, <1>3

\* What is detected, listed.
LEMMA DetectedListed ==
  ASSUME IInv
  PROVE  /\ Detected \in Seq(OpenChanges \cup PendingChanges)
         /\ \A c \in OpenChanges : \E i \in DOMAIN Detected : Detected[i] = c
         /\ \A i, j \in DOMAIN Detected :
              Detected[i] = Detected[j] /\ Detected[i] \notin PendingChanges => i = j
  <1> DEFINE all == OpenChanges \cup PendingChanges
             s == SetToSeq(OpenChanges)
             t == SetToSeq(PendingChanges)
  <1>1. IsFiniteSet(used) /\ used \subseteq Tickets
    BY DEF IInv, TypeOK, Fresh
  <1>2. IsFiniteSet(OpenChanges)
    <2> DEFINE T == {x \in Tickets : DetectOpenChange(x) # "none"}
               f == [x \in T |-> <<DetectOpenChange(x), x>>]
    <2>1. T \subseteq used
      BY DetectTypes
    <2>2. IsFiniteSet({f[x] : x \in T})
      <3> HIDE DEF f, T
      <3>1. QED BY <1>1, <2>1, ChangesFinite
    <2>3. OpenChanges = {f[x] : x \in T}
      BY DEF OpenChanges
    <2>4. QED BY <2>2, <2>3
  <1>3. IsFiniteSet(PendingChanges)
    <2> DEFINE T == {x \in Tickets : DetectPendingChange(x) # "none"}
               f == [x \in T |-> <<DetectPendingChange(x), x>>]
    <2>1. T \subseteq used
      BY DetectTypes
    <2>2. IsFiniteSet({f[x] : x \in T})
      <3> HIDE DEF f, T
      <3>1. QED BY <1>1, <2>1, ChangesFinite
    <2>3. PendingChanges = {f[x] : x \in T}
      BY DEF PendingChanges
    <2>4. QED BY <2>2, <2>3
  <1>4. /\ s \in Seq(OpenChanges)
        /\ \A i, j \in DOMAIN s : s[i] = s[j] => i = j
        /\ \A c \in OpenChanges : \E i \in DOMAIN s : s[i] = c
    BY <1>2, Listed
  <1>5. t \in Seq(PendingChanges)
    BY <1>3, Listed
  <1>6. Detected = s \o t
    BY DEF Detected
  <1> HIDE DEF s, t
  <1>7. s \in Seq(all) /\ t \in Seq(all)
    BY <1>4, <1>5
  <1>8. /\ Detected \in Seq(all)
        /\ \A i \in DOMAIN s : i \in DOMAIN Detected /\ Detected[i] = s[i]
        /\ \A j \in DOMAIN t : Len(s) + j \in DOMAIN Detected /\ Detected[Len(s) + j] = t[j]
        /\ \A k \in DOMAIN Detected : k \in DOMAIN s \/ \E j \in DOMAIN t : k = Len(s) + j
    BY <1>6, <1>7, Positions
  <1>9. \A c \in OpenChanges : \E i \in DOMAIN Detected : Detected[i] = c
    BY <1>4, <1>8
  <1>10. ASSUME NEW i \in DOMAIN Detected, Detected[i] \notin PendingChanges
         PROVE  i \in DOMAIN s /\ Detected[i] = s[i]
    <2>1. \A j \in DOMAIN t : t[j] \in PendingChanges
      BY <1>5, ElementOfSeq, LenProperties
    <2>2. QED BY <1>8, <1>10, <2>1
  <1>11. QED BY <1>4, <1>8, <1>9, <1>10

\* How many of the first events are numbered.
LEMMA Counts ==
  ASSUME NEW S, NEW found \in Seq(S), NEW i \in DOMAIN found
  PROVE  /\ CountNumbered(found, i) \in Nat /\ CountNumbered(found, Len(found)) \in Nat
         /\ CountNumbered(found, i) <= CountNumbered(found, Len(found))
         /\ found[i][1] \in Numbered => CountNumbered(found, i) # 0
  <1> DEFINE N(k) == {j \in 1..k : found[j][1] \in Numbered}
  <1>1. i \in 1..Len(found) /\ Len(found) \in Nat
    BY LenProperties
  <1>2. N(i) \subseteq N(Len(found)) /\ N(Len(found)) \subseteq 1..Len(found)
    BY <1>1
  <1>3. IsFiniteSet(1..Len(found))
    BY <1>1, FS_Interval
  <1>4. IsFiniteSet(N(Len(found)))
    BY <1>2, <1>3, FS_Subset
  <1>5. /\ IsFiniteSet(N(i))
        /\ Cardinality(N(i)) <= Cardinality(N(Len(found)))
    BY <1>2, <1>4, FS_Subset
  <1>6. Cardinality(N(i)) \in Nat /\ Cardinality(N(Len(found))) \in Nat
    BY <1>4, <1>5, FS_CardinalityType
  <1>7. found[i][1] \in Numbered => i \in N(i)
    BY <1>1
  <1>8. found[i][1] \in Numbered => Cardinality(N(i)) # 0
    BY <1>5, <1>7, FS_EmptySet
  <1>9. QED BY <1>5, <1>6, <1>8 DEF CountNumbered

LEMMA ScanFinds ==
  ASSUME IInv, ScanAndDetect
  PROVE  /\ eventSeq' \in Nat /\ eventSeq <= eventSeq'
         /\ \E events \in Seq(Event) : Send(events) /\ Found(events)
  <1> DEFINE S == OpenChanges \cup PendingChanges
             found == Detected
             number(i) == IF found[i][1] \in Numbered THEN eventSeq + CountNumbered(found, i) ELSE 0
             event(i) == EventOf(found[i][1], found[i][2], number(i),
                                 LevelSent(found[i][1], found[i][2]))
             events == [i \in DOMAIN found |-> event(i)]
  <1>1. /\ Send(events) /\ eventSeq' = eventSeq + CountNumbered(found, Len(found))
    BY DEF ScanAndDetect
  <1>2. /\ found \in Seq(S)
        /\ \A c \in OpenChanges : \E i \in DOMAIN found : found[i] = c
        /\ \A i, j \in DOMAIN found : found[i] = found[j] /\ found[i] \notin PendingChanges => i = j
    BY DetectedListed
  <1>3. eventSeq \in Nat /\ account \in [Tickets -> Order \cup {NoOrder}]
    BY DEF IInv, TypeOK, Orders
  <1>4. \A type, t : t \in Tickets => LevelSent(type, t) \in Levels \cup {"none"}
    BY <1>3 DEF LevelSent, IsOpen, Order, NoOrder
  <1>5. /\ \A t \in Tickets : /\ DetectOpenChange(t) \in OpenTypes \cup {"none"}
                              /\ DetectPendingChange(t) \in PendingTypes \cup {"none"}
        /\ \A t \in Tickets \ used : DetectOpenChange(t) = "none" /\ DetectPendingChange(t) = "none"
    BY DetectTypes
  <1> HIDE DEF found
  <1>6. CountNumbered(found, Len(found)) \in Nat
    <2> DEFINE N == {j \in 1..Len(found) : found[j][1] \in Numbered}
    <2>1. IsFiniteSet(1..Len(found)) /\ N \subseteq 1..Len(found)
      BY <1>2, LenProperties, FS_Interval
    <2>2. IsFiniteSet(N)
      BY <2>1, FS_Subset
    <2>3. QED BY <2>2, FS_CardinalityType DEF CountNumbered
  <1>7. ASSUME NEW i \in DOMAIN found
        PROVE  /\ found[i][2] \in used
               /\ \/ /\ found[i][1] = DetectOpenChange(found[i][2])
                     /\ found[i][1] \in OpenTypes
                     /\ found[i] \notin PendingChanges
                  \/ /\ found[i][1] = DetectPendingChange(found[i][2])
                     /\ found[i][1] \in PendingTypes
               /\ found[i] = <<found[i][1], found[i][2]>>
    <2>1. found[i] \in OpenChanges \/ found[i] \in PendingChanges
      BY <1>2, ElementOfSeq, LenProperties
    <2>2. CASE found[i] \in OpenChanges
      <3>1. PICK t \in Tickets : DetectOpenChange(t) # "none" /\ found[i] = <<DetectOpenChange(t), t>>
        BY <2>2 DEF OpenChanges
      <3>2. DetectOpenChange(t) \in OpenTypes /\ t \in used
        BY <1>5, <3>1
      <3>3. found[i] \notin PendingChanges
        BY <1>5, <3>1, <3>2 DEF PendingChanges, OpenTypes, PendingTypes
      <3>4. QED BY <3>1, <3>2, <3>3
    <2>3. CASE found[i] \in PendingChanges
      <3>1. PICK t \in Tickets :
              DetectPendingChange(t) # "none" /\ found[i] = <<DetectPendingChange(t), t>>
        BY <2>3 DEF PendingChanges
      <3>2. DetectPendingChange(t) \in PendingTypes /\ t \in used
        BY <1>5, <3>1
      <3>3. QED BY <3>1, <3>2
    <2>4. QED BY <2>1, <2>2, <2>3
  <1>8. \A i \in DOMAIN found :
          /\ CountNumbered(found, i) \in Nat
          /\ CountNumbered(found, i) <= CountNumbered(found, Len(found))
          /\ found[i][1] \in Numbered => CountNumbered(found, i) # 0
    BY <1>2, Counts
  <1>9. used \subseteq Tickets
    BY DEF IInv, TypeOK
  <1> HIDE DEF S
  <1>10. \A i \in DOMAIN found :
           /\ events[i] = event(i)
           /\ event(i).type = found[i][1] /\ event(i).ticket = found[i][2]
           /\ event(i).n = number(i)
           /\ event(i).level = LevelSent(found[i][1], found[i][2])
    BY DEF EventOf
  <1>11. ASSUME NEW i \in DOMAIN found PROVE event(i) \in Event
    <2>1. found[i][1] \in OpenTypes \cup PendingTypes /\ found[i][2] \in Tickets
      BY <1>7, <1>9
    <2>2. number(i) \in Nat
      BY <1>3, <1>8
    <2>3. QED BY <1>4, <2>1, <2>2 DEF EventOf, Event, OpenTypes, PendingTypes
  <1> HIDE DEF event
  <1>12. events \in Seq(Event)
    <2>1. DOMAIN found = 1..Len(found) /\ Len(found) \in Nat
      BY <1>2, LenProperties
    <2>2. events \in [1..Len(found) -> Event]
      BY <1>11, <2>1
    <2>3. QED BY <2>1, <2>2, SeqDef
  <1>13. \A i \in DOMAIN found : found[i][1] = "MODIFY" =>
           eventSeq < number(i) /\ number(i) <= eventSeq'
    BY <1>1, <1>3, <1>6, <1>8 DEF Numbered
  <1>14. DOMAIN events = DOMAIN found
    OBVIOUS
  <1> HIDE DEF number, events
  <1>15. Found(events)
    <2>1. \A i \in DOMAIN events :
            /\ events[i].ticket \in used
            /\ \/ /\ events[i].type = DetectOpenChange(events[i].ticket)
                  /\ events[i].type \in OpenTypes
               \/ /\ events[i].type = DetectPendingChange(events[i].ticket)
                  /\ events[i].type \in PendingTypes
            /\ events[i].level = LevelSent(events[i].type, events[i].ticket)
            /\ events[i].type = "MODIFY" => eventSeq < events[i].n /\ events[i].n <= eventSeq'
      BY <1>7, <1>10, <1>13, <1>14
    <2>2. ASSUME NEW i \in DOMAIN events, NEW j \in DOMAIN events,
                 events[i].ticket = events[j].ticket,
                 events[i].type \in OpenTypes, events[j].type \in OpenTypes
          PROVE  i = j
      <3>1. /\ found[i][2] = found[j][2]
            /\ found[i][1] \in OpenTypes /\ found[j][1] \in OpenTypes
        BY <1>10, <1>14, <2>2
      <3>2. OpenTypes \cap PendingTypes = {}
        BY DEF OpenTypes, PendingTypes
      <3>3. /\ found[i][1] = DetectOpenChange(found[i][2])
            /\ found[j][1] = DetectOpenChange(found[j][2])
            /\ found[i] \notin PendingChanges
        BY <1>7, <1>14, <3>1, <3>2
      <3>4. found[i] = found[j]
        BY <1>7, <1>14, <3>1, <3>3
      <3>5. QED BY <1>2, <1>14, <3>3, <3>4
    <2>3. ASSUME NEW t \in Tickets, DetectOpenChange(t) # "none"
          PROVE  \E i \in DOMAIN events : events[i].ticket = t /\ events[i].type = DetectOpenChange(t)
      <3>1. <<DetectOpenChange(t), t>> \in OpenChanges
        BY <2>3 DEF OpenChanges
      <3>2. PICK i \in DOMAIN found : found[i] = <<DetectOpenChange(t), t>>
        BY <1>2, <3>1
      <3>3. QED BY <1>10, <1>14, <3>2
    <2>4. QED BY <2>1, <2>2, <2>3 DEF Found
  <1>16. eventSeq' \in Nat /\ eventSeq <= eventSeq'
    BY <1>1, <1>3, <1>6
  <1>17. QED BY <1>1, <1>12, <1>15, <1>16

LEMMA ScanInv == IInv /\ ScanAndDetect => IInv'
  <1> SUFFICES ASSUME IInv, ScanAndDetect PROVE IInv'
    OBVIOUS
  <1>1. PICK events \in Seq(Event) : Send(events) /\ Found(events)
    BY ScanFinds
  <1>2. /\ platform = "MT4" /\ running /\ snapshot' = account
        /\ UNCHANGED <<platform, account, used, queue, running, changes, restarts>>
    BY DEF ScanAndDetect, worldVars
  <1>3. /\ log \in Seq(Event) /\ known \in [Tickets -> Known]
        /\ account \in [Tickets -> Order \cup {NoOrder}]
        /\ eventSeq \in Nat /\ eventSeq' \in Nat /\ eventSeq <= eventSeq'
        /\ used \subseteq Tickets
        /\ queue = <<>> /\ DOMAIN queue = {}
    BY <1>2, ScanFinds DEF IInv, TypeOK, Orders, Fresh
  <1>4. /\ log' \in Seq(Event) /\ log' = log \o events
        /\ \A i \in DOMAIN log : i \in DOMAIN log' /\ log'[i] = log[i]
        /\ \A j \in DOMAIN events : Len(log) + j \in DOMAIN log' /\ log'[Len(log) + j] = events[j]
        /\ \A k \in DOMAIN log' : k \in DOMAIN log \/ \E j \in DOMAIN events : k = Len(log) + j
        /\ DOMAIN log = 1..Len(log) /\ Len(log) \in Nat
        /\ DOMAIN events = 1..Len(events)
        /\ \A t, type : Told(t, type)' <=>
             Told(t, type) \/ \E j \in DOMAIN events : events[j].ticket = t /\ events[j].type = type
        /\ known' \in [Tickets -> Known]
        /\ \A t \in Tickets :
             (\A j \in DOMAIN events : events[j].ticket = t => events[j].type \notin Counting)
               => known'[t] = known[t]
        /\ \A i \in DOMAIN events :
             /\ events[i].type \in Counting /\ New(events[i])
             /\ \A j \in DOMAIN events :
                  events[j].ticket = events[i].ticket /\ events[j].type \in Counting => j = i
             => known'[events[i].ticket] = Accepts(known[events[i].ticket], events[i])
    BY <1>1, <1>3, Sent
  <1>5. \A j \in DOMAIN events : events[j] \in Event /\ events[j].ticket \in used
    BY <1>1, ElementOfSeq, LenProperties DEF Found
  <1> HIDE DEF Told, Due
  \* Each type, and what it says of the ticket.
  <1>6. ASSUME NEW j \in DOMAIN events, NEW t, t = events[j].ticket
        PROVE  /\ events[j].type = "OPEN" => IsOpen(account, t) /\ ~IsOpen(snapshot, t)
               /\ events[j].type \in {"MODIFY", "PARTIAL_CLOSE"} =>
                    IsOpen(account, t) /\ IsOpen(snapshot, t)
               /\ events[j].type = "CLOSE" => ~IsOpen(account, t) /\ IsOpen(snapshot, t)
               /\ events[j].type = "PENDING_CANCEL" => IsPending(snapshot, t) /\ ~IsOpen(account, t)
               /\ events[j].type \in PendingTypes => IsPending(snapshot, t) \/ IsPending(account, t)
               /\ events[j].type \in {"OPEN", "MODIFY"} => events[j].level = account[t].level
               /\ events[j].type \in OpenTypes \cup PendingTypes
    <2>1. /\ \/ events[j].type = DetectOpenChange(t) /\ events[j].type \in OpenTypes
             \/ events[j].type = DetectPendingChange(t) /\ events[j].type \in PendingTypes
          /\ events[j].level = LevelSent(events[j].type, t)
      BY <1>1, <1>6 DEF Found
    <2>2. CASE events[j].type = DetectOpenChange(t) /\ events[j].type \in OpenTypes
      <3>1. /\ DetectOpenChange(t) = "OPEN" => IsOpen(account, t) /\ ~IsOpen(snapshot, t)
            /\ DetectOpenChange(t) \in {"MODIFY", "PARTIAL_CLOSE"} =>
                 IsOpen(account, t) /\ IsOpen(snapshot, t)
            /\ DetectOpenChange(t) = "CLOSE" => ~IsOpen(account, t) /\ IsOpen(snapshot, t)
        BY DEF DetectOpenChange
      <3>2. QED BY <2>1, <2>2, <3>1 DEF OpenTypes, PendingTypes, LevelSent
    <2>3. CASE events[j].type = DetectPendingChange(t) /\ events[j].type \in PendingTypes
      <3>1. /\ DetectPendingChange(t) = "PENDING_CANCEL" => IsPending(snapshot, t) /\ ~IsOpen(account, t)
            /\ DetectPendingChange(t) \in PendingTypes => IsPending(snapshot, t) \/ IsPending(account, t)
        BY DEF DetectPendingChange, PendingTypes
      <3>2. QED BY <2>3, <3>1 DEF OpenTypes, PendingTypes
    <2>4. QED BY <2>1, <2>2, <2>3
  <1>7. \A t \in Tickets : ~(IsOpen(account, t) /\ IsPending(account, t))
    BY DEF IsOpen, IsPending
  <1>8. \A t \in Tickets : ~(IsOpen(snapshot, t) /\ IsPending(snapshot, t))
    BY DEF IsOpen, IsPending
  \* What was told before.
  <1>9. \A t \in Tickets :
          /\ Told(t, "OPEN") => /\ ~IsPending(snapshot, t) /\ ~IsPending(account, t)
                                /\ IsOpen(account, t) => IsOpen(snapshot, t)
          /\ Told(t, "CLOSE") => /\ account[t] = NoOrder /\ ~IsOpen(account, t)
                                 /\ snapshot[t] = NoOrder /\ ~IsOpen(snapshot, t)
          /\ IsOpen(snapshot, t) => ~IsPending(account, t)
    BY <1>2 DEF IInv, InOrder, ScanInOrder, IsOpen, NoOrder
  <1>10. TypeOK'
    BY <1>2, <1>3, <1>4 DEF IInv, TypeOK
  <1>11. Fresh'
    <2>1. ASSUME NEW t \in Tickets \ used
          PROVE  known'[t] = Unknown /\ \A i \in DOMAIN log' : log'[i].ticket # t
      <3>1. known[t] = Unknown /\ \A i \in DOMAIN log : log[i].ticket # t
        BY DEF IInv, Fresh
      <3>2. QED BY <1>4, <1>5, <3>1
    <2>2. QED BY <1>2, <1>3, <2>1 DEF IInv, Fresh
  <1>12. \A t \in Tickets : (Told(t, "CLOSE"))' => account[t] = NoOrder
    <2>1. SUFFICES ASSUME NEW j \in DOMAIN events, events[j].type = "CLOSE"
                   PROVE  account[events[j].ticket] = NoOrder
      BY <1>4, <1>9
    <2>2. ~IsOpen(account, events[j].ticket) /\ ~IsPending(account, events[j].ticket)
      BY <1>3, <1>5, <1>6, <1>9, <2>1
    <2>3. QED BY <1>3, <1>5, <2>2 DEF Order, IsOpen, IsPending
  <1>13. \A t \in Tickets : (Told(t, "OPEN"))' => ~IsPending(account, t)
    BY <1>4, <1>6, <1>7, <1>9
  <1>14. \A t, type : ~(Due(t, type))'
    BY <1>2, <1>3 DEF Due
  <1>15. InOrder' /\ ScanInOrder'
    <2>1. InOrder'
      BY <1>2, <1>12, <1>13, <1>14 DEF InOrder, IsPending, IInv
    <2>2. ScanInOrder'
      BY <1>2, <1>12, <1>13 DEF ScanInOrder, IsOpen, IsPending
    <2>3. QED BY <2>1, <2>2
  <1>16. DealsInOrder' /\ DealsDiffer' /\ QueueKnown'
    BY <1>2, <1>3 DEF DealsInOrder, DealsDiffer, QueueKnown
  <1>17. Counted'
    <2>1. SUFFICES ASSUME restarts = 0, NEW i \in DOMAIN log', log'[i].type = "MODIFY"
                   PROVE  log'[i].n <= eventSeq'
      BY <1>2 DEF Counted
    <2>2. CASE i \in DOMAIN log
      <3>1. log'[i] = log[i] /\ log[i].n <= eventSeq
        BY <1>4, <2>1, <2>2 DEF IInv, Counted
      <3>2. log[i] \in Event
        BY <1>3, <2>2, ElementOfSeq, LenProperties
      <3>3. QED BY <1>3, <3>1, <3>2 DEF Event
    <2>3. CASE i \notin DOMAIN log
      <3>1. PICK j \in DOMAIN events : log'[i] = events[j]
        BY <1>4, <2>3
      <3>2. QED BY <1>1, <2>1, <3>1 DEF Found
    <2>4. QED BY <2>2, <2>3
  <1>18. LifeInOrder'
    <2>1. ASSUME NEW j \in DOMAIN events, NEW i \in DOMAIN log, log[i].ticket = events[j].ticket
          PROVE  MayFollow(log[i], events[j])
      <3> DEFINE t == events[j].ticket
      <3>1. Told(t, log[i].type) /\ t \in Tickets
        BY <1>3, <1>5, <2>1 DEF Told
      <3>2. events[j].type = "OPEN" => log[i].type \notin {"OPEN", "CLOSE"}
        BY <1>6, <1>9, <3>1
      <3>3. events[j].type = "MODIFY" => log[i].type # "CLOSE"
        BY <1>6, <1>9, <3>1
      <3>4. events[j].type = "PENDING_CANCEL" => log[i].type # "OPEN"
        BY <1>6, <1>9, <3>1
      <3>5. QED BY <3>2, <3>3, <3>4 DEF MayFollow
    <2>2. ASSUME NEW j \in DOMAIN events, NEW i \in 1..(j - 1), events[i].ticket = events[j].ticket
          PROVE  MayFollow(events[i], events[j])
      <3>1. i \in DOMAIN events /\ i # j
        BY <1>4, <2>2
      <3>2. ~(events[i].type \in OpenTypes /\ events[j].type \in OpenTypes)
        BY <1>1, <2>2, <3>1 DEF Found
      <3>3. ~(events[i].type = "OPEN" /\ events[j].type = "PENDING_CANCEL")
        BY <1>6, <2>2, <3>1
      <3>4. QED BY <3>2, <3>3 DEF MayFollow, OpenTypes
    <2>3. LifeInOrder
      BY DEF IInv
    <2>4. QED BY <1>2, <1>3, <1>4, <2>1, <2>2, <2>3, Extended
  <1>19. ScanKnown'
    <2>1. SUFFICES ASSUME restarts = 0, NEW t \in Tickets
                   PROVE  /\ IsOpen(account, t) <=> known'[t].state = "open"
                          /\ IsOpen(account, t) =>
                               known'[t].level = account[t].level \/ LastIsPartial(t)'
      BY <1>2 DEF ScanKnown, IsOpen
    <2>2. /\ IsOpen(snapshot, t) <=> known[t].state = "open"
          /\ IsOpen(snapshot, t) => known[t].level = snapshot[t].level \/ LastIsPartial(t)
      BY <1>2, <2>1 DEF IInv, ScanKnown
    <2>3. CASE DetectOpenChange(t) = "none"
      <3>1. \A j \in DOMAIN events : events[j].ticket = t => events[j].type \notin OpenTypes
        BY <1>1, <2>3 DEF Found, OpenTypes, PendingTypes
      <3>2. known'[t] = known[t]
        BY <1>4, <3>1 DEF OpenTypes, Counting
      <3>3. /\ IsOpen(account, t) <=> IsOpen(snapshot, t)
            /\ IsOpen(account, t) => account[t].level = snapshot[t].level
        BY <2>3 DEF DetectOpenChange
      <3>4. ASSUME IsOpen(account, t), LastIsPartial(t) PROVE LastIsPartial(t)'
        <4>1. \A j \in DOMAIN events : events[j].ticket # t
          BY <1>5, <1>6, <1>7, <1>8, <3>1, <3>3, <3>4
        <4>2. PICK i \in DOMAIN log :
                /\ log[i].ticket = t /\ log[i].type = "PARTIAL_CLOSE"
                /\ \A j \in DOMAIN log : j > i => log[j].ticket # t
          BY <3>4 DEF LastIsPartial
        <4>3. /\ i \in DOMAIN log' /\ log'[i].ticket = t /\ log'[i].type = "PARTIAL_CLOSE"
              /\ \A j \in DOMAIN log' : j > i => log'[j].ticket # t
          BY <1>4, <4>1, <4>2
        <4>4. QED BY <4>3 DEF LastIsPartial
      <3>5. QED BY <2>2, <3>2, <3>3, <3>4
    <2>4. CASE DetectOpenChange(t) # "none"
      <3>1. PICK i \in DOMAIN events : events[i].ticket = t /\ events[i].type = DetectOpenChange(t)
        BY <1>1, <2>4 DEF Found
      <3>2. events[i].type \in OpenTypes
        BY <2>4, <3>1, DetectTypes
      <3>3. \A j \in DOMAIN events : events[j].ticket = t /\ events[j].type \in OpenTypes => j = i
        BY <1>1, <3>1, <3>2 DEF Found
      <3>4. ASSUME events[i].type \in Counting, New(events[i])
            PROVE  known'[t] = Accepts(known[t], events[i])
        BY <1>4, <3>1, <3>3, <3>4 DEF OpenTypes, Counting
      <3>5. \A k \in DOMAIN log : log[k] \in Event
        BY <1>3, ElementOfSeq, LenProperties
      <3>6. ASSUME NEW k \in DOMAIN log, IdOf(log[k]) = IdOf(events[i])
            PROVE  /\ log[k].ticket = t /\ log[k].n = events[i].n
                   /\ log[k].type = events[i].type
        <4>1. \A type : platform = "MT4" => Prefix(type) = type
          BY DEF Prefix
        <4>2. QED BY <1>2, <3>1, <3>6, <4>1 DEF IdOf
      <3>7. CASE events[i].type = "OPEN"
        <4>1. IsOpen(account, t) /\ ~IsOpen(snapshot, t) /\ events[i].level = account[t].level
          BY <1>6, <3>1, <3>7
        <4>2. ~Told(t, "OPEN")
          BY <1>9, <4>1
        <4>3. New(events[i])
          BY <3>6, <3>7, <4>2 DEF New, Told
        <4>4. known'[t] = [state |-> "open", level |-> account[t].level]
          BY <3>4, <3>7, <4>1, <4>3 DEF Accepts, Counting
        <4>5. QED BY <4>1, <4>4
      <3>8. CASE events[i].type = "MODIFY"
        <4>1. IsOpen(account, t) /\ IsOpen(snapshot, t) /\ events[i].level = account[t].level
          BY <1>6, <3>1, <3>8
        <4>2. eventSeq < events[i].n
          BY <1>1, <3>8 DEF Found
        <4>3. \A k \in DOMAIN log : log[k].type = "MODIFY" => log[k].n <= eventSeq
          BY <2>1 DEF IInv, Counted
        <4>4. New(events[i])
          <5>1. events[i].n \in Nat
            BY <1>5 DEF Event
          <5>2. QED BY <1>3, <3>6, <3>8, <4>2, <4>3, <5>1 DEF New
        <4>5. known'[t] = [known[t] EXCEPT !.level = account[t].level]
          BY <3>4, <3>8, <4>1, <4>4 DEF Accepts, Counting
        <4>6. known[t] \in Known
          BY <1>3
        <4>7. known'[t].state = known[t].state /\ known'[t].level = account[t].level
          BY <4>5, <4>6 DEF Known
        <4>8. QED BY <2>2, <4>1, <4>7
      <3>9. CASE events[i].type = "PARTIAL_CLOSE"
        <4>1. IsOpen(account, t) /\ IsOpen(snapshot, t)
          BY <1>6, <3>1, <3>9
        <4>2. known'[t] = known[t]
          <5>1. \A j \in DOMAIN events : events[j].ticket = t => events[j].type \notin Counting
            BY <3>3, <3>9 DEF OpenTypes, Counting
          <5>2. QED BY <1>4, <5>1
        <4>3. \A j \in DOMAIN events : events[j].ticket = t => j = i
          BY <1>5, <1>6, <1>7, <1>8, <3>3, <4>1
        <4>4. /\ Len(log) + i \in DOMAIN log' /\ log'[Len(log) + i] = events[i]
              /\ \A k \in DOMAIN log' : k > Len(log) + i => log'[k].ticket # t
          <5>1. ASSUME NEW k \in DOMAIN log', k > Len(log) + i PROVE log'[k].ticket # t
            <6>1. k \notin DOMAIN log
              BY <1>4, <5>1
            <6>2. PICK j \in DOMAIN events : k = Len(log) + j
              BY <1>4, <6>1
            <6>3. j # i
              BY <1>4, <5>1, <6>2
            <6>4. QED BY <1>4, <4>3, <6>2, <6>3
          <5>2. QED BY <1>4, <5>1
        <4>5. LastIsPartial(t)'
          BY <3>1, <3>9, <4>4 DEF LastIsPartial
        <4>6. QED BY <2>2, <4>1, <4>2, <4>5
      <3>10. CASE events[i].type = "CLOSE"
        <4>1. ~IsOpen(account, t) /\ IsOpen(snapshot, t)
          BY <1>6, <3>1, <3>10
        <4>2. ~Told(t, "CLOSE")
          BY <1>9, <4>1
        <4>3. New(events[i])
          BY <3>6, <3>10, <4>2 DEF New, Told
        <4>4. known'[t] = [state |-> "closed", level |-> "none"]
          BY <3>4, <3>10, <4>3 DEF Accepts, Counting
        <4>5. QED BY <4>1, <4>4
      <3>11. QED BY <3>2, <3>7, <3>8, <3>9, <3>10 DEF OpenTypes
    <2>5. QED BY <2>3, <2>4
  <1>20. QED BY <1>10, <1>11, <1>15, <1>16, <1>17, <1>18, <1>19 DEF IInv

(***************************************************************************)
(* The EA is removed and attached again.                                   *)
(***************************************************************************)
LEMMA RestartInv == IInv /\ (OnDeinit \/ OnInit) => IInv'
  <1> SUFFICES ASSUME IInv, OnDeinit \/ OnInit PROVE IInv'
    OBVIOUS
  <1>1. /\ UNCHANGED <<platform, account, used, log, known, changes>>
        /\ restarts' \in Nat
        /\ running' \in BOOLEAN /\ eventSeq' \in Nat
        /\ queue' = <<>> \/ queue' = queue
        /\ snapshot' = snapshot \/ snapshot' = account
        /\ restarts' # 0
    <2>0. restarts = 0 => running
      BY DEF IInv, Fresh
    <2>1. restarts \in Nat /\ eventSeq \in Nat
      BY DEF IInv, TypeOK
    <2>2. CASE OnDeinit
      <3>1. restarts' = restarts + 1 /\ running' = FALSE
        BY <2>2 DEF OnDeinit
      <3>2. UNCHANGED <<platform, account, used, log, known, changes, eventSeq, snapshot>>
        BY <2>2 DEF OnDeinit, worldVars, eaVars
      <3>3. queue' = <<>>
        BY <2>2 DEF OnDeinit
      <3>4. restarts' \in Nat /\ restarts' # 0 /\ eventSeq' \in Nat
        BY <2>1, <3>1, <3>2
      <3>5. QED BY <3>1, <3>2, <3>3, <3>4, Zenon
    <2>3. CASE OnInit
      <3>1. running' = TRUE /\ restarts' = restarts
        BY <2>3 DEF OnInit
      <3>2. restarts # 0
        BY <2>0, <2>3, Zenon DEF OnInit
      <3>3. /\ UNCHANGED <<platform, account, used, log, known, changes, queue>>
            /\ eventSeq' = 0 /\ (snapshot' = snapshot \/ snapshot' = account)
        BY <2>3 DEF OnInit, worldVars
      <3>4. QED BY <2>1, <3>1, <3>2, <3>3
    <2>4. QED BY <2>2, <2>3
  <1>2. DOMAIN queue' = {} \/ queue' = queue
    BY <1>1
  <1>3. TypeOK'
    <2>1. queue' \in Seq(Transaction)
      BY <1>1, EmptySeq DEF IInv, TypeOK
    <2>2. QED BY <1>1, <2>1 DEF IInv, TypeOK
  <1>4. Fresh'
    BY <1>1, <1>2 DEF IInv, Fresh
  <1>5. InOrder' /\ ScanInOrder'
    <2>1. \A t, type : Due(t, type)' => Due(t, type)
      BY <1>2 DEF Due
    <2>2. \A t, type : Told(t, type)' <=> Told(t, type)
      BY <1>1 DEF Told
    <2>3. InOrder'
      BY <1>1, <2>1, <2>2 DEF IInv, InOrder, IsPending
    <2>4. ScanInOrder'
      BY <1>1, <2>2 DEF IInv, InOrder, ScanInOrder, IsPending, IsOpen
    <2>5. QED BY <2>3, <2>4
  <1>6. DealsInOrder' /\ DealsDiffer'
    BY <1>1, <1>2 DEF IInv, DealsInOrder, DealsDiffer
  <1>7. Counted' /\ ScanKnown' /\ QueueKnown'
    BY <1>1 DEF Counted, ScanKnown, QueueKnown
  <1>8. LifeInOrder'
    BY <1>1 DEF IInv, LifeInOrder, MayFollow
  <1>9. QED BY <1>3, <1>4, <1>5, <1>6, <1>7, <1>8 DEF IInv

LEMMA StutterInv == IInv /\ UNCHANGED vars => IInv'
  <1> SUFFICES ASSUME IInv, UNCHANGED vars PROVE IInv'
    OBVIOUS
  <1>0. UNCHANGED <<platform, account, used, snapshot, queue, eventSeq, running, log, known,
                    changes, restarts>>
    BY DEF vars, worldVars, eaVars
  <1>1. TypeOK' /\ Fresh'
    BY <1>0 DEF IInv, TypeOK, Fresh
  <1>2. InOrder' /\ ScanInOrder'
    <2>1. \A t, type : (Told(t, type)' <=> Told(t, type)) /\ (Due(t, type)' <=> Due(t, type))
      BY <1>0 DEF Told, Due
    <2>2. QED BY <1>0, <2>1 DEF IInv, InOrder, ScanInOrder, IsOpen, IsPending
  <1>3. DealsInOrder' /\ DealsDiffer' /\ Counted'
    BY <1>0 DEF IInv, DealsInOrder, DealsDiffer, Counted
  <1>4. ScanKnown' /\ QueueKnown'
    <2>1. ScanKnown'
      BY <1>0 DEF IInv, ScanKnown, IsOpen, LastIsPartial
    <2>2. \A t, type : Due(t, type)' <=> Due(t, type)
      BY <1>0 DEF Due
    <2>3. QueueKnown'
      BY <1>0, <2>2 DEF IInv, QueueKnown, IsOpen
    <2>4. QED BY <2>1, <2>3
  <1>5. LifeInOrder'
    BY <1>0 DEF IInv, LifeInOrder, MayFollow
  <1>6. QED BY <1>1, <1>2, <1>3, <1>4, <1>5 DEF IInv

(***************************************************************************)
(* The theorems.                                                           *)
(***************************************************************************)
\* The invariant is inductive: it holds at the start, and every change of the
\* account, scan, transaction and restart keeps it.
THEOREM Invariance == Spec => []IInv
  <1>1. Init => IInv
    BY InitInv
  <1>2. IInv /\ [Next]_vars => IInv'
    BY AccountInv, ScanInv, TransactionInv, RestartInv, StutterInv DEF Next
  <1>3. QED BY <1>1, <1>2, PTL DEF Spec

\* Every variable keeps its type, whatever the sizes.
THEOREM TypesHold == Spec => []TypeOK
  <1>1. IInv => TypeOK
    BY DEF IInv
  <1>2. QED BY <1>1, Invariance, PTL

\* A ticket's life is told in order: no second OPEN, nothing to copy after its
\* CLOSE, and the MT4 scan does not call a filled order cancelled; whatever was
\* missed between two scans, before a transaction was handled or across a
\* restart.
THEOREM LivesAreInOrder == Spec => []LifeInOrder
  <1>1. IInv => LifeInOrder
    BY DEF IInv
  <1>2. QED BY <1>1, Invariance, PTL

\* An EA that was never restarted and has caught up has told which positions
\* are open, and no other.
THEOREM CaughtUpKnowsOpen == Spec => []OpenIsKnown
  <1>1. ASSUME IInv, CaughtUp, NEW t \in Tickets
        PROVE  IsOpen(account, t) <=> known[t].state = "open"
    <2>1. CASE platform = "MT4"
      <3>1. snapshot = account /\ restarts = 0
        BY <1>1, <2>1 DEF CaughtUp
      <3>2. IsOpen(snapshot, t) <=> known[t].state = "open"
        BY <1>1, <2>1, <3>1 DEF IInv, ScanKnown
      <3>3. QED BY <3>1, <3>2
    <2>2. CASE platform # "MT4"
      <3>1. platform = "MT5" /\ restarts = 0 /\ queue = <<>> /\ DOMAIN queue = {}
        BY <1>1, <2>2 DEF CaughtUp, IInv, TypeOK
      <3>2. QED BY <1>1, <3>1 DEF IInv, QueueKnown, Due
    <2>3. QED BY <2>1, <2>2
  <1>2. IInv => OpenIsKnown
    BY <1>1 DEF OpenIsKnown
  <1>3. QED BY <1>2, Invariance, PTL

\* It has told their levels too, but for a position whose last event is a
\* partial close found by a scan, which hides a change of the levels.
THEOREM CaughtUpKnowsLevels == Spec => []LevelIsKnown
  <1>1. ASSUME IInv, CaughtUp, NEW t \in Tickets, IsOpen(account, t)
        PROVE  known[t].level = account[t].level \/ (platform = "MT4" /\ LastIsPartial(t))
    <2>1. CASE platform = "MT4"
      <3>1. snapshot = account /\ restarts = 0
        BY <1>1, <2>1 DEF CaughtUp
      <3>2. IsOpen(snapshot, t) => known[t].level = snapshot[t].level \/ LastIsPartial(t)
        BY <1>1, <2>1, <3>1 DEF IInv, ScanKnown
      <3>3. QED BY <1>1, <2>1, <3>1, <3>2
    <2>2. CASE platform # "MT4"
      <3>1. platform = "MT5" /\ restarts = 0 /\ queue = <<>> /\ DOMAIN queue = {}
        BY <1>1, <2>2 DEF CaughtUp, IInv, TypeOK
      <3>2. QED BY <1>1, <3>1 DEF IInv, QueueKnown, Due
    <2>3. QED BY <2>1, <2>2
  <1>2. IInv => LevelIsKnown
    BY <1>1 DEF LevelIsKnown
  <1>3. QED BY <1>2, Invariance, PTL
=============================================================================
