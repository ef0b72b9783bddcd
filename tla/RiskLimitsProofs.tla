-------------------------- MODULE RiskLimitsProofs --------------------------
(***************************************************************************)
(* RiskLimits keeps its types, every volume on record is the one the       *)
(* settings call for, and OPENs that took turns stay within the limits,    *)
(* for every set of trades, every settings and every account.              *)
(***************************************************************************)
EXTENDS RiskLimits, FiniteSetTheorems, FunctionTheorems, WellFoundedInduction, TLAPS

(***************************************************************************)
(* Arithmetic.                                                             *)
(***************************************************************************)
\* Division rounds down.
LEMMA Division ==
  ASSUME NEW a \in Nat, NEW b \in Nat \ {0}
  PROVE  /\ a \div b \in Nat
         /\ (a \div b) * b <= a
         /\ a < (a \div b) * b + b
  OBVIOUS

LEMMA Products ==
  ASSUME NEW a \in Nat, NEW b \in Nat
  PROVE  a * b \in Nat
  OBVIOUS

LEMMA PositiveProducts ==
  ASSUME NEW a \in Nat \ {0}, NEW b \in Nat \ {0}
  PROVE  a * b \in Nat \ {0}
  OBVIOUS

LEMMA TimesIsMonotone ==
  ASSUME NEW a \in Nat, NEW b \in Nat, NEW c \in Nat, a <= b
  PROVE  a * c <= b * c
  OBVIOUS

LEMMA TimesCancels ==
  ASSUME NEW a \in Nat, NEW b \in Nat, NEW c \in Nat, a * c < b * c
  PROVE  a < b
  <1>1. SUFFICES ASSUME b <= a PROVE FALSE
    OBVIOUS
  <1>2. b * c <= a * c
    BY <1>1, TimesIsMonotone
  <1>3. a * c \in Nat /\ b * c \in Nat
    BY Products
  <1>4. QED BY <1>2, <1>3

LEMMA Euclid ==
  ASSUME NEW a \in Nat, NEW b \in Nat \ {0}
  PROVE  /\ a = (a \div b) * b + (a % b)
         /\ a % b \in Nat
  OBVIOUS

LEMMA Successors ==
  ASSUME NEW a \in Nat, NEW b \in Nat
  PROVE  (a + 1) * b = a * b + b
  OBVIOUS

LEMMA Multiples ==
  ASSUME NEW q \in Nat, NEW b \in Nat \ {0}
  PROVE  (q * b) % b = 0
  <1> DEFINE k == (q * b) \div b
  <1>1. q * b \in Nat
    BY Products
  <1>2. k \in Nat /\ k * b <= q * b /\ q * b < k * b + b
    BY <1>1, Division
  <1>3. k < q + 1
    <2>1. q * b < (q + 1) * b /\ k * b \in Nat /\ (q + 1) * b \in Nat
      BY <1>1, <1>2, Successors, Products
    <2>2. k * b < (q + 1) * b
      BY <1>1, <1>2, <2>1
    <2>3. QED BY <1>2, <2>2, TimesCancels
  <1>4. q < k + 1
    <2>1. q * b < (k + 1) * b
      BY <1>2, Successors
    <2>2. QED BY <1>2, <2>1, TimesCancels
  <1>5. k = q
    BY <1>2, <1>3, <1>4
  <1>6. q * b = k * b + ((q * b) % b) /\ (q * b) % b \in Nat
    BY <1>1, Euclid
  <1>7. QED BY <1>1, <1>5, <1>6

LEMMA NoRemainder ==
  ASSUME NEW n \in Nat, NEW b \in Nat \ {0}, n % b = 0
  PROVE  n = (n \div b) * b
  <1>1. n = (n \div b) * b + (n % b)
    BY Euclid
  <1>2. (n \div b) * b \in Nat
    BY Division, Products
  <1>3. QED BY <1>1, <1>2

(***************************************************************************)
(* The calculator.                                                         *)
(***************************************************************************)
\* What is worth a number of hundredths is stored as that number.
LEMMA WholeIsStored ==
  ASSUME NEW n \in Nat
  PROVE  Stored(Over(n, 1)) = n
  BY DEF Stored, Over

LEMMA RawVolumeType ==
  ASSUME NEW s \in Settings, NEW v \in Nat, NEW a \in Account, InputsKnown(s, a)
  PROVE  RawVolume(s, v, a) \in Fraction
  <1> USE DEF Settings, CopyModes, Account, Optional, InputsKnown, RawVolume, Over, Fraction
  <1>1. CASE s.copyMode = "FIXED_LOT"
    BY <1>1
  <1>2. CASE s.copyMode = "MULTIPLIER"
    <2>1. v * s.multiplier \in Nat
      BY Products
    <2>2. QED BY <1>2, <2>1, SizingAssumption
  <1>3. CASE s.copyMode \notin {"FIXED_LOT", "MULTIPLIER"}
    <2> DEFINE own == Basis(s.copyMode, s.account)
               theirs == Basis(s.copyMode, a)
    <2>1. own \in Nat /\ theirs \in Nat \ {0}
      BY <1>3 DEF Basis
    <2>2. v * own \in Nat
      BY <2>1, Products
    <2>3. QED BY <1>3, <2>1, <2>2
  <1>4. QED BY <1>1, <1>2, <1>3

\* Without a step a size is the raw volume or the cap.
LEMMA SizeWithoutStep ==
  ASSUME NEW s \in Settings, NEW raw \in Fraction, s.lotStep = 0
  PROVE  LET x == Cap(RoundDownToStep(raw, s.lotStep), s.maxLot)
         IN  /\ AtLeast(x, s.minLot) =>
                  Stored(x) \in Nat /\ ReferenceSize(s, raw, Stored(x))
             /\ ~AtLeast(x, s.minLot) =>
                  \A n \in s.minLot .. s.maxLot : ~ReferenceSize(s, raw, n)
  <1> DEFINE N == raw.num
             d == raw.den
             mn == s.minLot
             mx == s.maxLot
             x == Cap(RoundDownToStep(raw, s.lotStep), mx)
             n == Stored(x)
  <1>1. N \in Nat /\ d \in Nat \ {0} /\ mn \in Nat /\ mx \in Nat
    BY DEF Fraction, Settings
  <1>2. mn * d \in Nat /\ mx * d \in Nat
    BY <1>1, Products
  <1>3. CASE N <= mx * d
    <2>1. x = raw
      BY <1>3 DEF Cap, RoundDownToStep, AtMost
    <2>2. /\ n \in Nat
          /\ n * (2 * d) <= 2 * N + d
          /\ 2 * N + d < n * (2 * d) + 2 * d
      <3>1. 2 * N + d \in Nat /\ 2 * d \in Nat \ {0}
        BY <1>1
      <3>2. n = (2 * N + d) \div (2 * d)
        BY <2>1 DEF Stored
      <3>3. QED BY <3>1, <3>2, Division
    <2> HIDE DEF n
    <2>3. n * (2 * d) = 2 * n * d /\ (2 * n + 1) * d = 2 * n * d + d /\ 2 * n * d \in Nat
      BY <1>1, <2>2
    <2>4. 2 * n * d <= 2 * N + d /\ 2 * N < (2 * n + 1) * d
      BY <1>1, <2>2, <2>3
    <2>5. n <= mx
      <3>1. 2 * n * d <= 2 * (mx * d) + d
        BY <1>1, <1>2, <1>3, <2>3, <2>4
      <3>2. (2 * n) * d < (2 * mx + 2) * d
        <4>1. (2 * mx + 2) * d = 2 * (mx * d) + 2 * d
          BY <1>1
        <4>2. QED BY <1>1, <1>2, <2>3, <3>1, <4>1
      <3>3. 2 * n < 2 * mx + 2
        BY <1>1, <2>2, <3>2, TimesCancels
      <3>4. QED BY <1>1, <2>2, <3>3
    <2>6. ASSUME AtLeast(x, mn) PROVE ReferenceSize(s, raw, n)
      <3>1. mn * d <= N
        BY <2>1, <2>6 DEF AtLeast
      <3>2. (2 * mn) * d < (2 * n + 1) * d
        <4>1. (2 * mn) * d = 2 * (mn * d)
          BY <1>1
        <4>2. (2 * n + 1) * d \in Nat
          BY <1>1, <2>2, <2>3
        <4>3. QED BY <1>1, <1>2, <2>4, <3>1, <4>1, <4>2
      <3>3. 2 * mn < 2 * n + 1
        BY <1>1, <2>2, <3>2, TimesCancels
      <3>4. mn <= n
        BY <1>1, <2>2, <3>3
      <3>5. QED BY <2>4, <2>5, <3>1, <3>4 DEF ReferenceSize, AtLeast
    <2>7. ASSUME ~AtLeast(x, mn), NEW k \in mn .. mx, ReferenceSize(s, raw, k) PROVE FALSE
      BY <2>1, <2>7 DEF ReferenceSize
    <2>8. QED BY <2>2, <2>6, <2>7 DEF n
  <1>4. CASE ~(N <= mx * d)
    <2>1. x = Over(mx, 1)
      BY <1>4 DEF Cap, RoundDownToStep, AtMost
    <2>2. n = mx
      BY <1>1, <2>1, WholeIsStored
    <2>3. AtLeast(x, mn) <=> mn <= mx
      BY <1>1, <2>1 DEF AtLeast, Over
    <2>4. AtLeast(raw, mx)
      BY <1>1, <1>2, <1>4 DEF AtLeast
    <2>5. ASSUME mn <= mx PROVE ReferenceSize(s, raw, n)
      <3>1. mn * d <= mx * d
        BY <1>1, <2>5, TimesIsMonotone
      <3>2. AtLeast(raw, mn)
        BY <1>1, <1>2, <1>4, <3>1 DEF AtLeast
      <3>3. QED BY <1>1, <2>2, <2>4, <2>5, <3>2 DEF ReferenceSize
    <2>6. ~(mn <= mx) => mn .. mx = {}
      BY <1>1
    <2>7. QED BY <1>1, <2>2, <2>3, <2>5, <2>6
  <1>5. QED BY <1>3, <1>4

\* With a step it is the largest whole number of steps, or the cap.
LEMMA SizeWithStep ==
  ASSUME NEW s \in Settings, NEW raw \in Fraction, s.lotStep # 0
  PROVE  LET x == Cap(RoundDownToStep(raw, s.lotStep), s.maxLot)
         IN  /\ AtLeast(x, s.minLot) =>
                  Stored(x) \in Nat /\ ReferenceSize(s, raw, Stored(x))
             /\ ~AtLeast(x, s.minLot) =>
                  \A n \in s.minLot .. s.maxLot : ~ReferenceSize(s, raw, n)
  <1> DEFINE N == raw.num
             d == raw.den
             st == s.lotStep
             mn == s.minLot
             mx == s.maxLot
             q == N \div (d * st)
             k == q * st
             c == (mx + st - 1) \div st
             x == Cap(RoundDownToStep(raw, st), mx)
  <1>1. N \in Nat /\ d \in Nat \ {0} /\ st \in Nat \ {0} /\ mn \in Nat /\ mx \in Nat
    BY DEF Fraction, Settings
  \* q steps fit into the raw volume and q + 1 do not.
  <1>2. q \in Nat /\ k * d <= N /\ N < (k + st) * d /\ k \in Nat
    <2>1. d * st \in Nat \ {0}
      BY <1>1, PositiveProducts
    <2>2. q \in Nat /\ q * (d * st) <= N /\ N < q * (d * st) + d * st
      BY <1>1, <2>1, Division
    <2> HIDE DEF q
    <2>3. q * (d * st) = (q * st) * d
      BY <1>1, <2>2
    <2>4. (q * st + st) * d = (q * st) * d + d * st /\ q * st \in Nat
      BY <1>1, <2>2, Products
    <2>5. QED BY <2>2, <2>3, <2>4
  \* mx is at most c steps and more than c - 1.
  <1>3. c \in Nat /\ mx <= c * st /\ c * st <= mx + st - 1
    <2>1. mx + st - 1 \in Nat
      BY <1>1
    <2>2. c \in Nat /\ c * st <= mx + st - 1 /\ mx + st - 1 < c * st + st
      BY <1>1, <2>1, Division
    <2> HIDE DEF c
    <2>3. c * st \in Nat
      BY <1>1, <2>2, Products
    <2>4. QED BY <1>1, <2>2, <2>3
  <1>4. x = IF k <= mx THEN Over(k, 1) ELSE Over(mx, 1)
    BY <1>1, <1>2 DEF Cap, RoundDownToStep, AtMost, Over
  <1>5. CapReached(s, raw) <=> N >= c * st * d
    BY DEF CapReached
  <1>6. k % st = 0
    BY <1>1, <1>2, Multiples
  <1> HIDE DEF q, c, x
  <1>7. \A j \in Nat : j * st * d <= N => j <= q
    <2> SUFFICES ASSUME NEW j \in Nat, j * st * d <= N PROVE j <= q
      OBVIOUS
    <2>1. (j * st) * d < (k + st) * d
      <3>1. j * st \in Nat /\ (j * st) * d \in Nat /\ (k + st) * d \in Nat
        BY <1>1, <1>2, Products
      <3>2. QED BY <1>1, <1>2, <3>1
    <2>2. j * st < k + st
      BY <1>1, <1>2, <2>1, TimesCancels, Products
    <2>3. j * st < (q + 1) * st
      BY <1>1, <1>2, <2>2, Successors
    <2>4. j < q + 1
      BY <1>1, <1>2, <2>3, TimesCancels
    <2>5. QED BY <1>2, <2>4
  <1>8. CASE k <= mx
    <2>1. Stored(x) = k /\ (AtLeast(x, mn) <=> mn <= k)
      BY <1>1, <1>2, <1>4, <1>8, WholeIsStored DEF AtLeast, Over
    <2>2. ASSUME mn <= k PROVE ReferenceSize(s, raw, k)
      <3>1. (k + st) * d \in Nat
        BY <1>1, <1>2, Products
      <3>2. AtLeast(raw, k) /\ ~AtLeast(raw, k + st)
        BY <1>1, <1>2, <3>1 DEF AtLeast
      <3>3. QED BY <1>1, <1>6, <1>8, <2>2, <3>2 DEF ReferenceSize
    <2>3. ASSUME ~(mn <= k), NEW n \in mn .. mx, ReferenceSize(s, raw, n) PROVE FALSE
      <3>1. n \in Nat /\ mn <= n /\ n <= mx
        BY <1>1, <2>3
      <3>2. CASE n = mx /\ CapReached(s, raw)
        <4>1. c <= q
          BY <1>1, <1>3, <1>5, <1>7, <3>2, Products
        <4>2. c * st <= k
          BY <1>1, <1>2, <1>3, <4>1, TimesIsMonotone
        <4>3. c * st \in Nat
          BY <1>1, <1>3, Products
        <4>4. QED BY <1>1, <1>2, <1>3, <2>3, <3>1, <3>2, <4>2, <4>3
      <3>3. CASE n % st = 0 /\ AtLeast(raw, n)
        <4> DEFINE j == n \div st
        <4>1. j \in Nat /\ n = j * st
          BY <1>1, <3>1, <3>3, Division, NoRemainder
        <4> HIDE DEF j
        <4>2. j <= q
          BY <1>7, <3>3, <4>1 DEF AtLeast
        <4>3. n <= k
          BY <1>1, <1>2, <4>1, <4>2, TimesIsMonotone
        <4>4. QED BY <1>1, <1>2, <2>3, <3>1, <4>3
      <3>4. QED BY <1>1, <2>3, <3>2, <3>3 DEF ReferenceSize
    <2>4. QED BY <1>2, <2>1, <2>2, <2>3 DEF x
  <1>9. CASE ~(k <= mx)
    <2>1. Stored(x) = mx /\ (AtLeast(x, mn) <=> mn <= mx)
      BY <1>1, <1>4, <1>9, WholeIsStored DEF AtLeast, Over
    <2>2. CapReached(s, raw)
      <3>1. c * st < (q + 1) * st
        <4>1. c * st \in Nat
          BY <1>1, <1>3, Products
        <4>2. QED BY <1>1, <1>2, <1>3, <1>9, <4>1, Successors
      <3>2. c <= q
        BY <1>1, <1>2, <1>3, <3>1, TimesCancels
      <3>3. c * st <= k
        BY <1>1, <1>2, <1>3, <3>2, TimesIsMonotone
      <3>4. c * st * d <= k * d
        BY <1>1, <1>2, <1>3, <3>3, TimesIsMonotone, Products
      <3>5. c * st * d \in Nat /\ k * d \in Nat
        BY <1>1, <1>2, <1>3, Products
      <3>6. QED BY <1>1, <1>2, <1>5, <3>4, <3>5
    <2>3. mn <= mx => ReferenceSize(s, raw, mx)
      BY <1>1, <2>2 DEF ReferenceSize
    <2>4. ~(mn <= mx) => mn .. mx = {}
      BY <1>1
    <2>5. QED BY <1>1, <2>1, <2>3, <2>4 DEF x
  <1>10. QED BY <1>8, <1>9

\* Whatever the settings, the calculator finds the size they call for, and
\* none only if they leave none.
LEMMA SizeIsReference ==
  ASSUME NEW s \in Settings, NEW v \in Nat, NEW a \in Account
  PROVE  /\ HasSize(s, v, a) =>
              /\ Stored(Size(s, v, a)) \in Nat
              /\ ReferenceSize(s, RawVolume(s, v, a), Stored(Size(s, v, a)))
         /\ ~HasSize(s, v, a) =>
              \/ ~InputsKnown(s, a)
              \/ \A n \in s.minLot .. s.maxLot : ~ReferenceSize(s, RawVolume(s, v, a), n)
  <1> DEFINE raw == RawVolume(s, v, a)
  <1>1. CASE ~InputsKnown(s, a)
    BY <1>1 DEF HasSize
  <1>2. CASE InputsKnown(s, a)
    <2>1. raw \in Fraction
      BY <1>2, RawVolumeType
    <2>2. Size(s, v, a) = Cap(RoundDownToStep(raw, s.lotStep), s.maxLot)
      BY DEF Size
    <2> HIDE DEF raw
    <2>3. QED BY <1>2, <2>1, <2>2, SizeWithStep, SizeWithoutStep DEF HasSize, raw
  <1>3. QED BY <1>1, <1>2

(***************************************************************************)
(* The invariant.                                                          *)
(***************************************************************************)
\* What a job has read by the time it goes by it.
JobsInformed ==
  \A t \in Trades :
    /\ job[t].pc \in {"account", "gather"} => job[t].row \in Settings
    /\ job[t].pc = "gather" => job[t].account \in Account
    /\ job[t].pc \in {"idle", "account"} => job[t].read = {}

\* There is a row once the checks are behind the job, so nothing that the row
\* went by changes any more.
RowsDecided ==
  \A t \in Trades :
    order[t].status # "ABSENT" \/ order[t].reason # "NONE" =>
      /\ job[t].pc \in {"markSent", "markUnsent", "done"}
      /\ job[t].row \in Settings
      /\ job[t].read = {"opens", "closes"}

\* Only what was admitted is marked, asked for and reported.
RunsAdmitted ==
  \A t \in Trades :
    (\/ job[t].pc \in {"markSent", "markUnsent"}
     \/ terminal[t] # "none"
     \/ \E r \in results : r.trade = t)
    => Admitted(order[t])

\* Reports and what was recorded of them are true.
ReportsTrue ==
  \A t \in Trades :
    /\ order[t].status = "EXECUTED" => terminal[t] \in {"open", "gone"}
    /\ [trade |-> t, is |-> "opened"] \in results => terminal[t] \in {"open", "gone"}
    /\ [trade |-> t, is |-> "failed"] \in results => terminal[t] = "none"
    /\ close[t].status = "EXECUTED" => terminal[t] = "gone"
    /\ [trade |-> t, is |-> "closed"] \in results => terminal[t] = "gone"

Gone == {t \in Trades : terminal[t] = "gone"}

\* What a job counted was opened and what it took off is gone; it found what
\* was settled before it began, which is settled still.
ReadsKept ==
  \A t \in Trades :
    /\ job[t].opens \subseteq Opened
    /\ job[t].closes \subseteq Gone
    /\ job[t].before \subseteq SettledOpens
    /\ job[t].closedBefore \subseteq SettledCloses
    /\ "opens" \in job[t].read => job[t].before \subseteq job[t].opens
    /\ "closes" \in job[t].read => job[t].closedBefore \subseteq job[t].closes

\* SizedAsConfigured of one OPEN: settings, the Master's volume and account, row.
AsConfigured(s, v, a, o) ==
  /\ Admitted(o) => ReferenceSize(s, RawVolume(s, v, a), o.requestedVolume)
  /\ o.reason = "SIZE" =>
       \/ ~InputsKnown(s, a)
       \/ \A n \in s.minLot .. s.maxLot : ~ReferenceSize(s, RawVolume(s, v, a), n)

IInv ==
  /\ TypeOK
  /\ JobsInformed
  /\ RowsDecided
  /\ RunsAdmitted
  /\ ReportsTrue
  /\ ReadsKept
  /\ SizedAsConfigured
  /\ RoomIsMade

LEMMA InitInv == Init => IInv
  <1> SUFFICES ASSUME Init PROVE IInv
    OBVIOUS
  <1> USE RiskLimitsAssumption DEF Init
  <1>1. TypeOK
    BY DEF TypeOK, Job, JobStates, Order, Close, Result, Row
  <1>2. JobsInformed /\ RowsDecided /\ SizedAsConfigured /\ RoomIsMade
    BY DEF JobsInformed, RowsDecided, SizedAsConfigured, RoomIsMade, Admitted, Row
  <1>3. RunsAdmitted /\ ReportsTrue /\ ReadsKept
    BY DEF RunsAdmitted, ReportsTrue, ReadsKept, Row
  <1>4. QED BY <1>1, <1>2, <1>3 DEF IInv

LEMMA OpenedIsFinite == IsFiniteSet(Opened)
  BY RiskLimitsAssumption, FS_Subset DEF Opened

\* A step that decides nothing keeps the two properties.
LEMMA PropertiesKept ==
  ASSUME IInv, Opened \subseteq Opened',
         \A t \in Trades :
           /\ order'[t].requestedVolume = order[t].requestedVolume
           /\ Admitted(order'[t]) => Admitted(order[t])
           /\ order'[t].reason \in {"ENTRY", "SIZE"} => order'[t].reason = order[t].reason
           /\ order[t].status # "ABSENT" \/ order[t].reason # "NONE" =>
                /\ job'[t].row = job[t].row
                /\ job'[t].account = job[t].account
                /\ job'[t].closedBefore = job[t].closedBefore
  PROVE  SizedAsConfigured' /\ RoomIsMade'
  <1>1. SizedAsConfigured'
    <2> SUFFICES ASSUME NEW t \in Trades
                 PROVE  AsConfigured(job'[t].row, VolumeOf[t], job'[t].account, order'[t])
      BY DEF SizedAsConfigured, AsConfigured
    <2>1. AsConfigured(job[t].row, VolumeOf[t], job[t].account, order[t])
      BY DEF IInv, SizedAsConfigured, AsConfigured
    <2>2. CASE order[t].status # "ABSENT" \/ order[t].reason # "NONE"
      BY <2>1, <2>2 DEF AsConfigured
    <2>3. CASE ~(order[t].status # "ABSENT" \/ order[t].reason # "NONE")
      BY <2>3 DEF AsConfigured, Admitted
    <2>4. QED BY <2>2, <2>3
  <1>2. RoomIsMade'
    <2> SUFFICES ASSUME NEW u \in Trades, order'[u].reason = "ENTRY"
                 PROVE  \/ ~EntryAllowed(job'[u].row, SymbolOf[u], 0)
                        \/ /\ job'[u].row.maxPositions # Null
                           /\ Cardinality(Opened' \ job'[u].closedBefore)
                                >= job'[u].row.maxPositions
      BY DEF RoomIsMade
    <2>1. /\ order[u].reason = "ENTRY"
          /\ job'[u].row = job[u].row /\ job'[u].closedBefore = job[u].closedBefore
      OBVIOUS
    <2>2. IsFiniteSet(Opened' \ job[u].closedBefore)
      BY RiskLimitsAssumption, FS_Subset DEF Opened
    <2>3. Opened \ job[u].closedBefore \subseteq Opened' \ job[u].closedBefore
      OBVIOUS
    <2>4. /\ Cardinality(Opened \ job[u].closedBefore) \in Nat
          /\ Cardinality(Opened' \ job[u].closedBefore) \in Nat
          /\ Cardinality(Opened \ job[u].closedBefore)
               <= Cardinality(Opened' \ job[u].closedBefore)
      BY <2>2, <2>3, FS_Subset, FS_CardinalityType
    <2>5. job[u].row.maxPositions \in Nat \cup {Null}
      BY <2>1 DEF IInv, RowsDecided, Settings, Optional
    <2>6. CASE job[u].row.maxPositions = Null
      BY <2>1, <2>6 DEF IInv, RoomIsMade
    <2>7. CASE job[u].row.maxPositions \in Nat
      BY <2>1, <2>4, <2>7, SizingAssumption DEF IInv, RoomIsMade
    <2>8. QED BY <2>5, <2>6, <2>7
  <1>3. QED BY <1>1, <1>2

\* A step of a job that has yet to decide touches nothing but that job.
LEMMA JobStep ==
  ASSUME IInv, NEW u \in Trades,
         UNCHANGED <<order, close, terminal, results>>,
         job[u].pc \in {"idle", "account", "gather"},
         job'[u].pc \in {"account", "gather", "done"},
         \A t \in Trades \ {u} : job'[t] = job[t]
  PROVE  RowsDecided' /\ RunsAdmitted' /\ ReportsTrue' /\ SizedAsConfigured' /\ RoomIsMade'
  <1>1. order[u].status = "ABSENT" /\ order[u].reason = "NONE"
    BY DEF IInv, RowsDecided
  <1>2. RowsDecided'
    BY <1>1 DEF IInv, RowsDecided
  <1>3. RunsAdmitted'
    BY DEF IInv, RunsAdmitted
  <1>4. ReportsTrue'
    BY DEF IInv, ReportsTrue
  <1>5. SizedAsConfigured' /\ RoomIsMade'
    <2>1. Opened' = Opened
      BY DEF Opened
    <2>2. QED BY <1>1, <2>1, PropertiesKept
  <1>6. QED BY <1>2, <1>3, <1>4, <1>5

\* What is settled stays settled as long as no row is written and no settled
\* job begins again.
LEMMA SettledStays ==
  ASSUME UNCHANGED <<order, close, terminal>>,
         \A t \in Trades : job[t].pc = "done" => job'[t].pc = "done"
  PROVE  /\ Opened' = Opened /\ Gone' = Gone /\ Executed' = Executed /\ Closed' = Closed
         /\ SettledOpens \subseteq SettledOpens' /\ SettledCloses' = SettledCloses
  BY DEF Opened, Gone, Executed, Closed, SettledOpens, SettledCloses

LEMMA FanOutInv == ASSUME IInv, NEW t \in Trades, FanOut(t) PROVE IInv'
  <1> DEFINE new == [job[t] EXCEPT !.pc = "account", !.row = slave, !.before = SettledOpens,
                                   !.closedBefore = SettledCloses]
  <1>1. /\ job[t].pc = "idle" /\ job[t].read = {}
        /\ job' = [job EXCEPT ![t] = new]
        /\ UNCHANGED <<slave, master, order, close, terminal, results, changes>>
        /\ job \in [Trades -> Job] /\ slave \in Settings
    BY DEF FanOut, IInv, TypeOK, JobsInformed
  <1>2. /\ new \in Job /\ new.pc = "account" /\ new.row = slave /\ new.read = {}
        /\ new.opens = job[t].opens /\ new.closes = job[t].closes
        /\ new.before = SettledOpens /\ new.closedBefore = SettledCloses
    <2>1. job[t] \in Job /\ SettledOpens \subseteq Trades /\ SettledCloses \subseteq Trades
      BY <1>1 DEF SettledOpens, SettledCloses, Executed, Closed
    <2>2. QED BY <1>1, <2>1 DEF Job, JobStates
  <1> HIDE DEF new
  <1>3. job' \in [Trades -> Job] /\ job'[t] = new /\ \A u \in Trades \ {t} : job'[u] = job[u]
    BY <1>1, <1>2
  <1>4. TypeOK'
    BY <1>1, <1>3 DEF IInv, TypeOK
  <1>5. JobsInformed'
    BY <1>1, <1>2, <1>3 DEF IInv, JobsInformed
  <1>6. RowsDecided' /\ RunsAdmitted' /\ ReportsTrue' /\ SizedAsConfigured' /\ RoomIsMade'
    BY <1>1, <1>2, <1>3, JobStep
  <1>7. ReadsKept'
    <2>1. /\ Opened' = Opened /\ Gone' = Gone
          /\ SettledOpens \subseteq SettledOpens' /\ SettledCloses' = SettledCloses
      BY <1>1, <1>2, <1>3, SettledStays
    <2>2. QED BY <1>2, <1>3, <2>1 DEF IInv, ReadsKept
  <1>8. QED BY <1>4, <1>5, <1>6, <1>7 DEF IInv

LEMMA ReadAccountInv == ASSUME IInv, NEW t \in Trades, ReadAccount(t) PROVE IInv'
  <1> DEFINE new == [job[t] EXCEPT !.pc = "gather", !.account = master]
  <1>1. /\ job[t].pc = "account" /\ job[t].row \in Settings
        /\ job' = [job EXCEPT ![t] = new]
        /\ UNCHANGED <<slave, master, order, close, terminal, results, changes>>
        /\ job \in [Trades -> Job] /\ master \in Account
    BY DEF ReadAccount, IInv, TypeOK, JobsInformed
  <1>2. /\ new \in Job /\ new.pc = "gather" /\ new.row = job[t].row /\ new.account = master
        /\ new.opens = job[t].opens /\ new.closes = job[t].closes /\ new.read = job[t].read
        /\ new.before = job[t].before /\ new.closedBefore = job[t].closedBefore
    <2>1. job[t] \in Job
      BY <1>1
    <2>2. QED BY <1>1, <2>1 DEF Job, JobStates
  <1> HIDE DEF new
  <1>3. job' \in [Trades -> Job] /\ job'[t] = new /\ \A u \in Trades \ {t} : job'[u] = job[u]
    BY <1>1, <1>2
  <1>4. TypeOK'
    BY <1>1, <1>3 DEF IInv, TypeOK
  <1>5. JobsInformed'
    BY <1>1, <1>2, <1>3 DEF IInv, JobsInformed
  <1>6. RowsDecided' /\ RunsAdmitted' /\ ReportsTrue' /\ SizedAsConfigured' /\ RoomIsMade'
    BY <1>1, <1>2, <1>3, JobStep
  <1>7. ReadsKept'
    <2>1. /\ Opened' = Opened /\ Gone' = Gone
          /\ SettledOpens \subseteq SettledOpens' /\ SettledCloses' = SettledCloses
      BY <1>1, <1>2, <1>3, SettledStays
    <2>2. QED BY <1>2, <1>3, <2>1 DEF IInv, ReadsKept
  <1>8. QED BY <1>4, <1>5, <1>6, <1>7 DEF IInv

LEMMA ReadOpensInv == ASSUME IInv, NEW t \in Trades, ReadOpens(t) PROVE IInv'
  <1> DEFINE new == [job[t] EXCEPT !.read = @ \cup {"opens"}, !.opens = Executed]
  <1>1. /\ job[t].pc = "gather" /\ job[t].row \in Settings /\ job[t].account \in Account
        /\ job' = [job EXCEPT ![t] = new]
        /\ UNCHANGED <<slave, master, order, close, terminal, results, changes>>
        /\ job \in [Trades -> Job]
    BY DEF ReadOpens, IInv, TypeOK, JobsInformed
  <1>2. /\ new \in Job /\ new.pc = "gather" /\ new.row = job[t].row
        /\ new.account = job[t].account
        /\ new.opens = Executed /\ new.closes = job[t].closes
        /\ new.read = job[t].read \cup {"opens"}
        /\ new.before = job[t].before /\ new.closedBefore = job[t].closedBefore
    <2>1. job[t] \in Job /\ Executed \subseteq Trades
      BY <1>1 DEF Executed
    <2>2. QED BY <1>1, <2>1 DEF Job, JobStates
  <1> HIDE DEF new
  <1>3. job' \in [Trades -> Job] /\ job'[t] = new /\ \A u \in Trades \ {t} : job'[u] = job[u]
    BY <1>1, <1>2
  <1>4. TypeOK'
    BY <1>1, <1>3 DEF IInv, TypeOK
  <1>5. JobsInformed'
    BY <1>1, <1>2, <1>3 DEF IInv, JobsInformed
  <1>6. RowsDecided' /\ RunsAdmitted' /\ ReportsTrue' /\ SizedAsConfigured' /\ RoomIsMade'
    BY <1>1, <1>2, <1>3, JobStep
  <1>7. ReadsKept'
    <2>1. /\ Opened' = Opened /\ Gone' = Gone
          /\ SettledOpens \subseteq SettledOpens' /\ SettledCloses' = SettledCloses
      BY <1>1, <1>2, <1>3, SettledStays
    <2>2. Executed \subseteq Opened /\ SettledOpens \subseteq Executed
      BY DEF IInv, ReportsTrue, Executed, Opened, SettledOpens
    <2>3. QED BY <1>2, <1>3, <2>1, <2>2 DEF IInv, ReadsKept
  <1>8. QED BY <1>4, <1>5, <1>6, <1>7 DEF IInv

LEMMA ReadClosesInv == ASSUME IInv, NEW t \in Trades, ReadCloses(t) PROVE IInv'
  <1> DEFINE new == [job[t] EXCEPT !.read = @ \cup {"closes"}, !.closes = Closed]
  <1>1. /\ job[t].pc = "gather" /\ job[t].row \in Settings /\ job[t].account \in Account
        /\ job' = [job EXCEPT ![t] = new]
        /\ UNCHANGED <<slave, master, order, close, terminal, results, changes>>
        /\ job \in [Trades -> Job]
    BY DEF ReadCloses, IInv, TypeOK, JobsInformed
  <1>2. /\ new \in Job /\ new.pc = "gather" /\ new.row = job[t].row
        /\ new.account = job[t].account
        /\ new.opens = job[t].opens /\ new.closes = Closed
        /\ new.read = job[t].read \cup {"closes"}
        /\ new.before = job[t].before /\ new.closedBefore = job[t].closedBefore
    <2>1. job[t] \in Job /\ Closed \subseteq Trades
      BY <1>1 DEF Closed
    <2>2. QED BY <1>1, <2>1 DEF Job, JobStates
  <1> HIDE DEF new
  <1>3. job' \in [Trades -> Job] /\ job'[t] = new /\ \A u \in Trades \ {t} : job'[u] = job[u]
    BY <1>1, <1>2
  <1>4. TypeOK'
    BY <1>1, <1>3 DEF IInv, TypeOK
  <1>5. JobsInformed'
    BY <1>1, <1>2, <1>3 DEF IInv, JobsInformed
  <1>6. RowsDecided' /\ RunsAdmitted' /\ ReportsTrue' /\ SizedAsConfigured' /\ RoomIsMade'
    BY <1>1, <1>2, <1>3, JobStep
  <1>7. ReadsKept'
    <2>1. /\ Opened' = Opened /\ Gone' = Gone
          /\ SettledOpens \subseteq SettledOpens' /\ SettledCloses' = SettledCloses
      BY <1>1, <1>2, <1>3, SettledStays
    <2>2. Closed \subseteq Gone /\ SettledCloses \subseteq Closed
      BY DEF IInv, ReportsTrue, Closed, Gone, SettledCloses
    <2>3. QED BY <1>2, <1>3, <2>1, <2>2 DEF IInv, ReadsKept
  <1>8. QED BY <1>4, <1>5, <1>6, <1>7 DEF IInv

LEMMA JobThrowsInv == ASSUME IInv, NEW t \in Trades, JobThrows(t) PROVE IInv'
  <1> DEFINE new == [job[t] EXCEPT !.pc = "done"]
  <1>1. /\ job[t].pc \notin {"idle", "done"}
        /\ job' = [job EXCEPT ![t] = new]
        /\ UNCHANGED <<slave, master, order, close, terminal, results, changes>>
        /\ job \in [Trades -> Job]
    BY DEF JobThrows, IInv, TypeOK
  <1>2. /\ new \in Job /\ new.pc = "done" /\ new.row = job[t].row
        /\ new.account = job[t].account
        /\ new.opens = job[t].opens /\ new.closes = job[t].closes /\ new.read = job[t].read
        /\ new.before = job[t].before /\ new.closedBefore = job[t].closedBefore
    <2>1. job[t] \in Job
      BY <1>1
    <2>2. QED BY <1>1, <2>1 DEF Job, JobStates
  <1> HIDE DEF new
  <1>3. job' \in [Trades -> Job] /\ job'[t] = new /\ \A u \in Trades \ {t} : job'[u] = job[u]
    BY <1>1, <1>2
  <1>4. TypeOK'
    BY <1>1, <1>3 DEF IInv, TypeOK
  <1>5. JobsInformed' /\ RowsDecided'
    BY <1>1, <1>2, <1>3 DEF IInv, JobsInformed, RowsDecided
  <1>6. RunsAdmitted' /\ ReportsTrue'
    BY <1>1, <1>2, <1>3 DEF IInv, RunsAdmitted, ReportsTrue
  <1>7. /\ Opened' = Opened /\ Gone' = Gone
        /\ SettledOpens \subseteq SettledOpens' /\ SettledCloses' = SettledCloses
    BY <1>1, <1>2, <1>3, SettledStays
  <1>8. ReadsKept'
    BY <1>2, <1>3, <1>7 DEF IInv, ReadsKept
  <1>9. SizedAsConfigured' /\ RoomIsMade'
    BY <1>1, <1>2, <1>3, <1>7, PropertiesKept
  <1>10. QED BY <1>4, <1>5, <1>6, <1>8, <1>9 DEF IInv

\* What Decide makes of a job that has its reads.
LEMMA VerdictsAreRight ==
  ASSUME IInv, NEW t \in Trades, job[t].pc = "gather", job[t].read = {"opens", "closes"},
         NEW verdict \in Verdicts(t)
  PROVE  /\ verdict \in {"NONE", "ENTRY", "SIZE", "EXPOSURE"}
         /\ verdict = "NONE" =>
              /\ Stored(SizeOf(t)) \in Nat
              /\ ReferenceSize(job[t].row, RawVolume(job[t].row, VolumeOf[t], job[t].account),
                               Stored(SizeOf(t)))
         /\ verdict = "SIZE" =>
              \/ ~InputsKnown(job[t].row, job[t].account)
              \/ \A n \in job[t].row.minLot .. job[t].row.maxLot :
                   ~ReferenceSize(job[t].row,
                                  RawVolume(job[t].row, VolumeOf[t], job[t].account), n)
         /\ verdict = "ENTRY" =>
              \/ ~EntryAllowed(job[t].row, SymbolOf[t], 0)
              \/ /\ job[t].row.maxPositions # Null
                 /\ Cardinality(Opened \ job[t].closedBefore) >= job[t].row.maxPositions
  <1> DEFINE s == job[t].row
             a == job[t].account
             v == VolumeOf[t]
  <1>1. s \in Settings /\ a \in Account /\ v \in Nat
    BY RiskLimitsAssumption DEF IInv, JobsInformed
  <1>2. \/ verdict = "ENTRY" /\ ~EntryAllowed(s, SymbolOf[t], Cardinality(CountedOpens(t)))
        \/ verdict = "SIZE" /\ ~HasSize(s, v, a)
        \/ verdict \in {"NONE", "EXPOSURE"} /\ HasSize(s, v, a)
    BY DEF Verdicts
  <1>3. CASE verdict = "ENTRY"
    <2>1. CountedOpens(t) \subseteq Opened \ job[t].closedBefore
      BY DEF IInv, ReadsKept, CountedOpens
    <2>2. IsFiniteSet(Opened \ job[t].closedBefore)
      BY OpenedIsFinite, FS_Subset
    <2>3. /\ Cardinality(CountedOpens(t)) \in Nat
          /\ Cardinality(Opened \ job[t].closedBefore) \in Nat
          /\ Cardinality(CountedOpens(t)) <= Cardinality(Opened \ job[t].closedBefore)
      BY <2>1, <2>2, FS_Subset, FS_CardinalityType
    <2>4. s.maxPositions \in Nat \cup {Null}
      BY <1>1 DEF Settings, Optional
    <2>5. CASE s.maxPositions = Null
      BY <1>2, <1>3, <2>5 DEF EntryAllowed
    <2>6. CASE s.maxPositions \in Nat
      BY <1>2, <1>3, <2>3, <2>6, SizingAssumption DEF EntryAllowed
    <2>7. QED BY <1>3, <2>4, <2>5, <2>6
  <1>4. CASE verdict = "SIZE"
    BY <1>1, <1>2, <1>4, SizeIsReference
  <1>5. CASE verdict \in {"NONE", "EXPOSURE"}
    BY <1>1, <1>2, <1>5, SizeIsReference DEF SizeOf
  <1>6. QED BY <1>2, <1>3, <1>4, <1>5

\* Decide in one piece: what it does to the job, the row and the terminal.
Decision(t, verdict, pc) ==
  /\ verdict \in Verdicts(t)
  /\ pc \in IF verdict = "NONE" THEN {"markSent", "markUnsent"} ELSE {"done"}
  /\ order' = [order EXCEPT ![t] =
       IF verdict = "NONE" THEN Row("PENDING", "NONE", Stored(SizeOf(t)))
       ELSE Row("FAILED", verdict, 0)]
  /\ job' = [job EXCEPT ![t].pc = pc]
  /\ terminal' = IF pc = "markSent" THEN [terminal EXCEPT ![t] = "asked"] ELSE terminal

LEMMA DecideDecides ==
  ASSUME NEW t \in Trades, Decide(t)
  PROVE  \E verdict \in Verdicts(t), pc \in {"markSent", "markUnsent", "done"} :
           Decision(t, verdict, pc)
  <1>1. CASE \E verdict \in Verdicts(t) \ {"NONE"} :
               /\ order' = [order EXCEPT ![t] = Row("FAILED", verdict, 0)]
               /\ job' = [job EXCEPT ![t].pc = "done"]
               /\ UNCHANGED terminal
    <2>1. PICK verdict \in Verdicts(t) \ {"NONE"} :
               /\ order' = [order EXCEPT ![t] = Row("FAILED", verdict, 0)]
               /\ job' = [job EXCEPT ![t].pc = "done"]
               /\ UNCHANGED terminal
      BY <1>1
    <2>2. Decision(t, verdict, "done")
      BY <2>1 DEF Decision
    <2>3. QED BY <2>2
  <1>2. CASE /\ "NONE" \in Verdicts(t)
             /\ order' = [order EXCEPT ![t] = Row("PENDING", "NONE", Stored(SizeOf(t)))]
             /\ job' = [job EXCEPT ![t].pc = "markSent"]
             /\ terminal' = [terminal EXCEPT ![t] = "asked"]
    <2>1. Decision(t, "NONE", "markSent")
      BY <1>2 DEF Decision
    <2>2. QED BY <1>2, <2>1
  <1>3. CASE /\ "NONE" \in Verdicts(t)
             /\ order' = [order EXCEPT ![t] = Row("PENDING", "NONE", Stored(SizeOf(t)))]
             /\ job' = [job EXCEPT ![t].pc = "markUnsent"]
             /\ UNCHANGED terminal
    <2>1. Decision(t, "NONE", "markUnsent")
      BY <1>3 DEF Decision
    <2>2. QED BY <1>3, <2>1
  <1>4. QED BY <1>1, <1>2, <1>3 DEF Decide

LEMMA DecideInv == ASSUME IInv, NEW t \in Trades, Decide(t) PROVE IInv'
  <1>1. PICK verdict \in Verdicts(t), pc \in {"markSent", "markUnsent", "done"} :
          Decision(t, verdict, pc)
    BY DecideDecides
  <1> DEFINE row == IF verdict = "NONE" THEN Row("PENDING", "NONE", Stored(SizeOf(t)))
                    ELSE Row("FAILED", verdict, 0)
             new == [job[t] EXCEPT !.pc = pc]
  <1>2. /\ job[t].pc = "gather" /\ job[t].read = {"opens", "closes"}
        /\ job[t].row \in Settings
        /\ UNCHANGED <<slave, master, close, results, changes>>
    BY DEF Decide, IInv, JobsInformed
  <1>3. /\ verdict \in {"NONE", "ENTRY", "SIZE", "EXPOSURE"}
        /\ row \in Order
        /\ row.status # "ABSENT" /\ row.status # "EXECUTED"
        /\ pc # "done" => Admitted(row)
        /\ verdict = "NONE" => pc # "done"
    BY <1>1, <1>2, VerdictsAreRight DEF Decision, Order, Row, Admitted
  <1>4. /\ job \in [Trades -> Job] /\ order \in [Trades -> Order]
        /\ terminal \in [Trades -> {"none", "asked", "open", "gone"}]
    BY DEF IInv, TypeOK
  <1>5. order' \in [Trades -> Order] /\ order'[t] = row
        /\ \A u \in Trades \ {t} : order'[u] = order[u]
    BY <1>1, <1>3, <1>4 DEF Decision
  <1>6. /\ new \in Job /\ new.pc = pc /\ new.row = job[t].row
        /\ new.account = job[t].account
        /\ new.opens = job[t].opens /\ new.closes = job[t].closes /\ new.read = job[t].read
        /\ new.before = job[t].before /\ new.closedBefore = job[t].closedBefore
    <2>1. job[t] \in Job
      BY <1>4
    <2>2. QED BY <2>1 DEF Job, JobStates
  <1>7. job' \in [Trades -> Job] /\ job'[t] = new /\ \A u \in Trades \ {t} : job'[u] = job[u]
    <2>1. job' = [job EXCEPT ![t] = new]
      BY <1>1, <1>4 DEF Decision
    <2>2. QED BY <1>4, <1>6, <2>1
  <1>8. order[t].status = "ABSENT" /\ order[t].reason = "NONE"
    BY <1>2 DEF IInv, RowsDecided
  <1>9. ~Admitted(order[t]) /\ terminal[t] = "none" /\ \A r \in results : r.trade # t
    <2>1. ~Admitted(order[t])
      BY <1>8 DEF Admitted
    <2>2. QED BY <2>1 DEF IInv, RunsAdmitted
  <1>10. /\ terminal' \in [Trades -> {"none", "asked", "open", "gone"}]
         /\ \A u \in Trades \ {t} : terminal'[u] = terminal[u]
         /\ terminal'[t] \in {"none", "asked"}
         /\ terminal'[t] # "none" => pc = "markSent"
    BY <1>1, <1>4, <1>9 DEF Decision
  <1> HIDE DEF row, new
  <1>11. TypeOK'
    BY <1>2, <1>5, <1>7, <1>10 DEF IInv, TypeOK
  <1>12. JobsInformed'
    BY <1>2, <1>6, <1>7 DEF IInv, JobsInformed
  <1>13. RowsDecided'
    BY <1>2, <1>5, <1>6, <1>7 DEF IInv, RowsDecided
  <1>14. RunsAdmitted'
    BY <1>2, <1>3, <1>5, <1>6, <1>7, <1>9, <1>10 DEF IInv, RunsAdmitted
  <1>15. ReportsTrue'
    BY <1>2, <1>3, <1>5, <1>9, <1>10 DEF IInv, ReportsTrue
  <1>16. Opened' = Opened /\ Gone' = Gone
    BY <1>9, <1>10 DEF Opened, Gone
  <1>17. SettledOpens \subseteq SettledOpens' /\ SettledCloses' = SettledCloses
    BY <1>2, <1>5, <1>7, <1>8 DEF SettledOpens, SettledCloses, Executed, Closed
  <1>18. ReadsKept'
    BY <1>6, <1>7, <1>16, <1>17 DEF IInv, ReadsKept
  <1>19. SizedAsConfigured'
    <2> SUFFICES ASSUME NEW u \in Trades
                 PROVE  AsConfigured(job'[u].row, VolumeOf[u], job'[u].account, order'[u])
      BY DEF SizedAsConfigured, AsConfigured
    <2>1. CASE u # t
      BY <1>5, <1>7, <2>1 DEF IInv, SizedAsConfigured, AsConfigured
    <2>2. CASE u = t
      <3>1. AsConfigured(job[t].row, VolumeOf[t], job[t].account, row)
        <4>1. CASE verdict = "NONE"
          <5>1. ReferenceSize(job[t].row, RawVolume(job[t].row, VolumeOf[t], job[t].account),
                              Stored(SizeOf(t)))
            BY <1>2, <4>1, VerdictsAreRight
          <5>2. row = Row("PENDING", "NONE", Stored(SizeOf(t)))
            BY <4>1 DEF row
          <5>3. QED BY <5>1, <5>2 DEF AsConfigured, Row
        <4>2. CASE verdict = "SIZE"
          <5>1. row = Row("FAILED", "SIZE", 0)
            BY <4>2 DEF row
          <5>2. \/ ~InputsKnown(job[t].row, job[t].account)
                \/ \A n \in job[t].row.minLot .. job[t].row.maxLot :
                     ~ReferenceSize(job[t].row,
                                    RawVolume(job[t].row, VolumeOf[t], job[t].account), n)
            BY <1>2, <4>2, VerdictsAreRight
          <5>3. QED BY <5>1, <5>2 DEF AsConfigured, Admitted, Row
        <4>3. CASE verdict \in {"ENTRY", "EXPOSURE"}
          BY <4>3 DEF AsConfigured, Admitted, Row, row
        <4>4. QED BY <1>3, <4>1, <4>2, <4>3
      <3>2. QED BY <1>5, <1>6, <1>7, <2>2, <3>1
    <2>3. QED BY <2>1, <2>2
  <1>20. RoomIsMade'
    <2> SUFFICES ASSUME NEW u \in Trades, order'[u].reason = "ENTRY"
                 PROVE  \/ ~EntryAllowed(job'[u].row, SymbolOf[u], 0)
                        \/ /\ job'[u].row.maxPositions # Null
                           /\ Cardinality(Opened \ job'[u].closedBefore)
                                >= job'[u].row.maxPositions
      BY <1>16 DEF RoomIsMade
    <2>1. CASE u # t
      BY <1>5, <1>7, <2>1 DEF IInv, RoomIsMade
    <2>2. CASE u = t
      <3>1. verdict = "ENTRY"
        BY <1>5, <2>2 DEF Row, row
      <3>2. QED BY <1>2, <1>6, <1>7, <2>2, <3>1, VerdictsAreRight
    <2>3. QED BY <2>1, <2>2
  <1>21. QED BY <1>11, <1>12, <1>13, <1>14, <1>15, <1>18, <1>19, <1>20 DEF IInv

\* Both updates after the insert: the row is admitted and stays so.
LEMMA MarkInv ==
  ASSUME IInv, NEW t \in Trades, MarkSent(t) \/ MarkUnsent(t)
  PROVE  IInv'
  <1> DEFINE new == [job[t] EXCEPT !.pc = "done"]
  <1>1. /\ job[t].pc \in {"markSent", "markUnsent"} /\ job[t].row \in Settings
        /\ job' = [job EXCEPT ![t] = new]
        /\ UNCHANGED <<slave, master, close, terminal, results, changes>>
        /\ job \in [Trades -> Job] /\ order \in [Trades -> Order]
        /\ Admitted(order[t]) /\ job[t].read = {"opens", "closes"}
    BY DEF MarkSent, MarkUnsent, IInv, TypeOK, RunsAdmitted, RowsDecided, Admitted
  <1>2. /\ order' \in [Trades -> Order] /\ order'[t].status \in {"SENT", "FAILED"}
        /\ Admitted(order'[t]) /\ order'[t].reason \notin {"ENTRY", "SIZE"}
        /\ order'[t].requestedVolume = order[t].requestedVolume
        /\ \A u \in Trades \ {t} : order'[u] = order[u]
    <2>1. order[t] \in Order
      BY <1>1
    <2>2. QED BY <1>1, <2>1 DEF MarkSent, MarkUnsent, Order, Admitted
  <1>3. /\ new \in Job /\ new.pc = "done" /\ new.row = job[t].row
        /\ new.account = job[t].account
        /\ new.opens = job[t].opens /\ new.closes = job[t].closes /\ new.read = job[t].read
        /\ new.before = job[t].before /\ new.closedBefore = job[t].closedBefore
    <2>1. job[t] \in Job
      BY <1>1
    <2>2. QED BY <2>1 DEF Job, JobStates
  <1> HIDE DEF new
  <1>4. job' \in [Trades -> Job] /\ job'[t] = new /\ \A u \in Trades \ {t} : job'[u] = job[u]
    BY <1>1, <1>3
  <1>5. TypeOK'
    BY <1>1, <1>2, <1>4 DEF IInv, TypeOK
  <1>6. JobsInformed' /\ RowsDecided'
    BY <1>1, <1>2, <1>3, <1>4 DEF IInv, JobsInformed, RowsDecided
  <1>7. RunsAdmitted' /\ ReportsTrue'
    BY <1>1, <1>2, <1>3, <1>4 DEF IInv, RunsAdmitted, ReportsTrue
  <1>8. Opened' = Opened /\ Gone' = Gone
    BY <1>1 DEF Opened, Gone
  <1>9. SettledOpens \subseteq SettledOpens' /\ SettledCloses' = SettledCloses
    BY <1>1, <1>2, <1>4 DEF SettledOpens, SettledCloses, Executed, Closed
  <1>10. ReadsKept'
    BY <1>3, <1>4, <1>8, <1>9 DEF IInv, ReadsKept
  <1>11. SizedAsConfigured' /\ RoomIsMade'
    BY <1>1, <1>2, <1>3, <1>4, <1>8, PropertiesKept
  <1>12. QED BY <1>5, <1>6, <1>7, <1>10, <1>11 DEF IInv

\* A step that leaves every job alone keeps IInv if it keeps the types, what
\* is admitted and what was true of the Slave.
LEMMA OutsideStep ==
  ASSUME IInv, TypeOK', job' = job,
         \A t \in Trades :
           /\ order'[t].requestedVolume = order[t].requestedVolume
           /\ order[t].status = "ABSENT" => order'[t] = order[t]
           /\ Admitted(order[t]) <=> Admitted(order'[t])
           /\ order'[t].reason \in {"ENTRY", "SIZE"} => order'[t].reason = order[t].reason,
         RunsAdmitted', ReportsTrue',
         Opened \subseteq Opened', Gone \subseteq Gone',
         SettledOpens \subseteq SettledOpens', SettledCloses \subseteq SettledCloses'
  PROVE  IInv'
  <1>1. JobsInformed'
    BY DEF IInv, JobsInformed
  <1>2. RowsDecided'
    BY DEF IInv, RowsDecided
  <1>3. ReadsKept'
    BY DEF IInv, ReadsKept
  <1>4. SizedAsConfigured' /\ RoomIsMade'
    BY PropertiesKept
  <1>5. QED BY <1>1, <1>2, <1>3, <1>4 DEF IInv

\* What every row keeps when none is written.
LEMMA OrdersStay ==
  ASSUME IInv, order' = order
  PROVE  \A t \in Trades :
           /\ order'[t].requestedVolume = order[t].requestedVolume
           /\ order[t].status = "ABSENT" => order'[t] = order[t]
           /\ Admitted(order[t]) <=> Admitted(order'[t])
           /\ order'[t].reason \in {"ENTRY", "SIZE"} => order'[t].reason = order[t].reason
  OBVIOUS

LEMMA SendCloseInv == ASSUME IInv, NEW t \in Trades, SendClose(t) PROVE IInv'
  <1>1. /\ UNCHANGED <<slave, master, job, order, terminal, results, changes>>
        /\ close[t].status = "ABSENT"
        /\ close' = [close EXCEPT ![t] = [status |-> "PENDING", marking |-> TRUE]]
        /\ close \in [Trades -> Close]
    BY DEF SendClose, IInv, TypeOK
  <1>2. /\ close' \in [Trades -> Close]
        /\ \A u \in Trades : close'[u] = close[u] \/ (u = t /\ close'[u].status = "PENDING")
    BY <1>1 DEF Close
  <1>3. TypeOK' /\ RunsAdmitted' /\ ReportsTrue'
    BY <1>1, <1>2 DEF IInv, TypeOK, RunsAdmitted, ReportsTrue
  <1>4. /\ Opened' = Opened /\ Gone' = Gone /\ SettledOpens' = SettledOpens
        /\ SettledCloses \subseteq SettledCloses'
    BY <1>1, <1>2 DEF Opened, Gone, SettledOpens, SettledCloses, Executed, Closed
  <1>5. QED BY <1>1, <1>3, <1>4, OrdersStay, OutsideStep

LEMMA MarkCloseSentInv == ASSUME IInv, NEW t \in Trades, MarkCloseSent(t) PROVE IInv'
  <1>1. PICK status \in {"SENT", close[t].status} :
          close' = [close EXCEPT ![t] = [status |-> status, marking |-> FALSE]]
    BY DEF MarkCloseSent
  <1>2. /\ UNCHANGED <<slave, master, job, order, terminal, results, changes>>
        /\ close[t].marking /\ close \in [Trades -> Close]
    BY DEF MarkCloseSent, IInv, TypeOK
  <1>3. /\ close' \in [Trades -> Close]
        /\ \A u \in Trades \ {t} : close'[u] = close[u]
        /\ close'[t].status \in {"SENT", close[t].status}
    BY <1>1, <1>2 DEF Close
  <1>4. TypeOK' /\ RunsAdmitted' /\ ReportsTrue'
    BY <1>2, <1>3 DEF IInv, TypeOK, RunsAdmitted, ReportsTrue
  <1>5. /\ Opened' = Opened /\ Gone' = Gone /\ SettledOpens' = SettledOpens
        /\ SettledCloses \subseteq SettledCloses'
    BY <1>2, <1>3 DEF Opened, Gone, SettledOpens, SettledCloses, Executed, Closed
  <1>6. QED BY <1>2, <1>4, <1>5, OrdersStay, OutsideStep

\* What the Slave does: an open position stays open or is gone.
LEMMA SlaveInv ==
  ASSUME IInv, NEW t \in Trades, OpenRuns(t) \/ CloseRuns(t) \/ BrokerCloses(t)
  PROVE  IInv'
  <1> DEFINE new(is) == [trade |-> t, is |-> is]
  <1>1. /\ UNCHANGED <<slave, master, job, order, close, changes>>
        /\ terminal \in [Trades -> {"none", "asked", "open", "gone"}]
        /\ results \subseteq Result
        /\ Admitted(order[t])
    BY DEF OpenRuns, CloseRuns, BrokerCloses, IInv, TypeOK, RunsAdmitted
  <1>2. /\ terminal' \in [Trades -> {"none", "asked", "open", "gone"}]
        /\ \A u \in Trades \ {t} : terminal'[u] = terminal[u]
        /\ \/ /\ terminal[t] = "asked" /\ terminal'[t] = "open"
              /\ results' = results \cup {new("opened")}
           \/ /\ terminal[t] = "asked" /\ terminal'[t] = "none"
              /\ results' = results \cup {new("failed")}
           \/ /\ terminal[t] = "open" /\ terminal'[t] = "gone"
              /\ results' \in {results, results \cup {new("closed")}}
    BY <1>1 DEF OpenRuns, CloseRuns, BrokerCloses, Reported
  <1>3. results \subseteq results' /\ results' \subseteq Result
        /\ \A r \in results' \ results : r.trade = t
    BY <1>1, <1>2 DEF Result
  <1>4. TypeOK'
    BY <1>1, <1>2, <1>3 DEF IInv, TypeOK
  <1>5. RunsAdmitted'
    BY <1>1, <1>2, <1>3 DEF IInv, RunsAdmitted
  <1>6. ReportsTrue'
    <2> SUFFICES ASSUME NEW u \in Trades
                 PROVE
                   /\ order[u].status = "EXECUTED" => terminal'[u] \in {"open", "gone"}
                   /\ [trade |-> u, is |-> "opened"] \in results' => terminal'[u] \in {"open", "gone"}
                   /\ [trade |-> u, is |-> "failed"] \in results' => terminal'[u] = "none"
                   /\ close[u].status = "EXECUTED" => terminal'[u] = "gone"
                   /\ [trade |-> u, is |-> "closed"] \in results' => terminal'[u] = "gone"
      BY <1>1 DEF ReportsTrue
    <2>1. /\ order[u].status = "EXECUTED" => terminal[u] \in {"open", "gone"}
          /\ [trade |-> u, is |-> "opened"] \in results => terminal[u] \in {"open", "gone"}
          /\ [trade |-> u, is |-> "failed"] \in results => terminal[u] = "none"
          /\ close[u].status = "EXECUTED" => terminal[u] = "gone"
          /\ [trade |-> u, is |-> "closed"] \in results => terminal[u] = "gone"
      BY DEF IInv, ReportsTrue
    <2>2. CASE u # t
      BY <1>2, <1>3, <2>1, <2>2
    <2>3. CASE u = t
      BY <1>2, <2>1, <2>3
    <2>4. QED BY <2>2, <2>3
  <1>7. /\ Opened \subseteq Opened' /\ Gone \subseteq Gone'
        /\ SettledOpens' = SettledOpens /\ SettledCloses' = SettledCloses
    BY <1>1, <1>2 DEF Opened, Gone, SettledOpens, SettledCloses, Executed, Closed
  <1>8. QED BY <1>1, <1>4, <1>5, <1>6, <1>7, OrdersStay, OutsideStep

LEMMA RecordOpenInv == ASSUME IInv, NEW t \in Trades, RecordOpen(t) PROVE IInv'
  <1>1. PICK r \in results :
          /\ r.trade = t
          /\ \/ /\ r.is = "opened"
                /\ order' = [order EXCEPT ![t].status = "EXECUTED"]
             \/ /\ r.is = "failed"
                /\ order' = [order EXCEPT ![t].status = "FAILED", ![t].reason = "REPORTED"]
          /\ results' = results \ {r}
          /\ UNCHANGED <<slave, master, job, close, terminal, changes>>
    BY DEF RecordOpen
  <1>2. /\ order \in [Trades -> Order] /\ order[t] \in Order
        /\ Admitted(order[t]) /\ r \in Result
    BY <1>1 DEF IInv, TypeOK, RunsAdmitted
  <1>3. /\ order' \in [Trades -> Order] /\ Admitted(order'[t])
        /\ order'[t].status \in {"EXECUTED", "FAILED"}
        /\ order'[t].reason \notin {"ENTRY", "SIZE"}
        /\ order'[t].requestedVolume = order[t].requestedVolume
        /\ \A u \in Trades \ {t} : order'[u] = order[u]
    BY <1>1, <1>2 DEF Order, Admitted
  <1>4. \/ order'[t].status = "EXECUTED" /\ terminal[t] \in {"open", "gone"}
        \/ order'[t].status = "FAILED" /\ terminal[t] = "none"
    <2>1. r = [trade |-> t, is |-> r.is]
      BY <1>1, <1>2 DEF Result
    <2>2. CASE r.is = "opened"
      <3>1. [trade |-> t, is |-> "opened"] \in results
        BY <2>1, <2>2
      <3>2. terminal[t] \in {"open", "gone"}
        BY <3>1 DEF IInv, ReportsTrue
      <3>3. order'[t].status = "EXECUTED"
        BY <1>1, <1>2, <2>2 DEF Order
      <3>4. QED BY <3>2, <3>3
    <2>3. CASE r.is = "failed"
      <3>1. [trade |-> t, is |-> "failed"] \in results
        BY <2>1, <2>3
      <3>2. terminal[t] = "none"
        BY <3>1 DEF IInv, ReportsTrue
      <3>3. order'[t].status = "FAILED"
        BY <1>1, <1>2, <2>3 DEF Order
      <3>4. QED BY <3>2, <3>3
    <2>4. QED BY <1>1, <2>2, <2>3
  <1>5. TypeOK' /\ RunsAdmitted'
    BY <1>1, <1>2, <1>3 DEF IInv, TypeOK, RunsAdmitted
  <1>6. ReportsTrue'
    BY <1>1, <1>3, <1>4 DEF IInv, ReportsTrue
  <1>7. Opened' = Opened /\ Gone' = Gone /\ SettledCloses' = SettledCloses
    BY <1>1 DEF Opened, Gone, SettledCloses, Closed
  <1>8. Executed \subseteq Executed'
    BY <1>1, <1>3, <1>4 DEF IInv, ReportsTrue, Executed
  <1>9. SettledOpens \subseteq SettledOpens'
    BY <1>1, <1>8 DEF SettledOpens
  <1>10. \A u \in Trades :
           /\ order'[u].requestedVolume = order[u].requestedVolume
           /\ order[u].status = "ABSENT" => order'[u] = order[u]
           /\ Admitted(order[u]) <=> Admitted(order'[u])
           /\ order'[u].reason \in {"ENTRY", "SIZE"} => order'[u].reason = order[u].reason
    BY <1>2, <1>3 DEF Admitted
  <1>11. QED BY <1>1, <1>5, <1>6, <1>7, <1>9, <1>10, OutsideStep

LEMMA RecordCloseInv == ASSUME IInv, NEW t \in Trades, RecordClose(t) PROVE IInv'
  <1>1. /\ UNCHANGED <<slave, master, job, order, terminal, changes>>
        /\ [trade |-> t, is |-> "closed"] \in results
        /\ results' = results \ {[trade |-> t, is |-> "closed"]}
        /\ close' = [close EXCEPT ![t].status = "EXECUTED"]
        /\ close \in [Trades -> Close] /\ terminal[t] = "gone"
    BY DEF RecordClose, IInv, TypeOK, ReportsTrue
  <1>2. /\ close' \in [Trades -> Close]
        /\ \A u \in Trades \ {t} : close'[u] = close[u]
        /\ close'[t].status = "EXECUTED" /\ close'[t].marking = close[t].marking
    BY <1>1 DEF Close
  <1>3. TypeOK' /\ RunsAdmitted' /\ ReportsTrue'
    BY <1>1, <1>2 DEF IInv, TypeOK, RunsAdmitted, ReportsTrue
  <1>4. /\ Opened' = Opened /\ Gone' = Gone /\ SettledOpens' = SettledOpens
        /\ SettledCloses \subseteq SettledCloses'
    BY <1>1, <1>2 DEF Opened, Gone, SettledOpens, SettledCloses, Executed, Closed
  <1>5. QED BY <1>1, <1>3, <1>4, OrdersStay, OutsideStep

\* The admin, the heartbeats and a stutter leave everything else alone.
LEMMA ElsewhereInv ==
  ASSUME IInv, UNCHANGED <<job, order, close, terminal, results>>,
         slave' \in Settings, master' \in Account, changes' \in Nat
  PROVE  IInv'
  <1>1. TypeOK' /\ RunsAdmitted' /\ ReportsTrue'
    BY DEF IInv, TypeOK, RunsAdmitted, ReportsTrue
  <1>2. /\ Opened' = Opened /\ Gone' = Gone
        /\ SettledOpens' = SettledOpens /\ SettledCloses' = SettledCloses
    BY DEF Opened, Gone, SettledOpens, SettledCloses, Executed, Closed
  <1>3. QED BY <1>1, <1>2, OrdersStay, OutsideStep

LEMMA NextInv == IInv /\ [Next]_vars => IInv'
  <1> SUFFICES ASSUME IInv, [Next]_vars PROVE IInv'
    OBVIOUS
  <1>1. slave \in Settings /\ master \in Account /\ changes \in Nat
    BY DEF IInv, TypeOK
  <1>2. CASE UNCHANGED vars
    BY <1>1, <1>2, ElsewhereInv DEF vars
  <1>3. CASE ChangeSlave
    BY <1>1, <1>3, ElsewhereInv, RiskLimitsAssumption DEF ChangeSlave
  <1>4. CASE MasterHeartbeat
    BY <1>1, <1>4, ElsewhereInv, RiskLimitsAssumption DEF MasterHeartbeat
  <1>5. ASSUME NEW t \in Trades, FanOut(t) PROVE IInv'
    BY <1>5, FanOutInv
  <1>6. ASSUME NEW t \in Trades, ReadAccount(t) PROVE IInv'
    BY <1>6, ReadAccountInv
  <1>7. ASSUME NEW t \in Trades, ReadOpens(t) PROVE IInv'
    BY <1>7, ReadOpensInv
  <1>8. ASSUME NEW t \in Trades, ReadCloses(t) PROVE IInv'
    BY <1>8, ReadClosesInv
  <1>9. ASSUME NEW t \in Trades, Decide(t) PROVE IInv'
    BY <1>9, DecideInv
  <1>10. ASSUME NEW t \in Trades, MarkSent(t) \/ MarkUnsent(t) PROVE IInv'
    BY <1>10, MarkInv
  <1>11. ASSUME NEW t \in Trades, JobThrows(t) PROVE IInv'
    BY <1>11, JobThrowsInv
  <1>12. ASSUME NEW t \in Trades, SendClose(t) PROVE IInv'
    BY <1>12, SendCloseInv
  <1>13. ASSUME NEW t \in Trades, MarkCloseSent(t) PROVE IInv'
    BY <1>13, MarkCloseSentInv
  <1>14. ASSUME NEW t \in Trades, OpenRuns(t) \/ CloseRuns(t) \/ BrokerCloses(t) PROVE IInv'
    BY <1>14, SlaveInv
  <1>15. ASSUME NEW t \in Trades, RecordOpen(t) PROVE IInv'
    BY <1>15, RecordOpenInv
  <1>16. ASSUME NEW t \in Trades, RecordClose(t) PROVE IInv'
    BY <1>16, RecordCloseInv
  <1>17. QED BY <1>2, <1>3, <1>4, <1>5, <1>6, <1>7, <1>8, <1>9, <1>10, <1>11, <1>12,
                <1>13, <1>14, <1>15, <1>16 DEF Next

\* The invariant holds throughout.
THEOREM LimitsInvariance == Spec => []IInv
  BY InitInv, NextInv, PTL DEF Spec

\* Rows, jobs and what the Slave and the Master report keep their types.
THEOREM LimitsTypes == Spec => []TypeOK
  BY LimitsInvariance, PTL DEF IInv

\* Every volume on record is what the settings and the account read by its own
\* fan-out make of it, and an OPEN is refused for its size only if they leave
\* it none: whatever the lot step, the limits and the raw volume are
\* (calculateVolume, volumeCalculator.ts).
THEOREM SizesAreRight == Spec => []SizedAsConfigured
  BY LimitsInvariance, PTL DEF IInv

\* A position whose CLOSE was on record for good when an OPEN arrived makes
\* room for it: if the number of positions refuses the OPEN, that many others
\* were opened (getCopyOrderPositions, copyOrderQueries.ts).
THEOREM ClosesMakeRoom == Spec => []RoomIsMade
  BY LimitsInvariance, PTL DEF IInv

(***************************************************************************)
(* Limits.                                                                 *)
(*                                                                         *)
(* A second invariant, on top of the first: no OPEN was on record before   *)
(* it arrived, what was on record before an OPEN arrived had less on       *)
(* record before it, and the row of an admitted OPEN fits its limits       *)
(* beside the ones the job counted.                                        *)
(***************************************************************************)
SeesEarlier ==
  \A t \in Trades :
    /\ t \notin job[t].before
    /\ \A u \in job[t].before : job[u].before \subseteq job[t].before

Fits(t) ==
  LET s == job[t].row
      open == CountedOpens(t)
  IN  /\ s.maxPositions = Null \/ Cardinality(open) < s.maxPositions
      /\ \/ s.maxExposure = Null
         \/ TotalVolume(open) + order[t].requestedVolume <= s.maxExposure

AdmittedFit ==
  \A t \in Trades : Admitted(order[t]) => Fits(t)

LInv == SeesEarlier /\ AdmittedFit

\* The hundredths that some trades hold.
Units(trades) == UNION {{t} \X (1..order[t].requestedVolume) : t \in trades}

LEMMA UnitsAreFinite ==
  ASSUME TypeOK, NEW trades \in SUBSET Trades
  PROVE  IsFiniteSet(Units(trades)) /\ TotalVolume(trades) \in Nat
  <1> DEFINE of(t) == {t} \X (1..order[t].requestedVolume)
             all == {of(t) : t \in trades}
  <1>1. IsFiniteSet(trades)
    BY RiskLimitsAssumption, FS_Subset
  <1>2. IsFiniteSet(all)
    <2> HIDE DEF of
    <2> DEFINE f == [t \in trades |-> of(t)]
    <2>1. f \in [trades -> all] /\ \A T \in all : \E t \in trades : f[t] = T
      OBVIOUS
    <2>2. f \in Surjection(trades, all)
      BY <2>1, Fun_IsSurj
    <2>3. QED BY <1>1, <2>2, FS_Surjection
  <1>3. ASSUME NEW t \in trades PROVE IsFiniteSet(of(t))
    <2>1. order[t].requestedVolume \in Nat
      BY DEF TypeOK, Order
    <2>2. IsFiniteSet(1..order[t].requestedVolume)
      BY <2>1, FS_Interval
    <2>3. IsFiniteSet({t})
      BY FS_Singleton
    <2>4. QED BY <2>2, <2>3, FS_Product
  <1>4. IsFiniteSet(UNION all)
    BY <1>2, <1>3, FS_UNION
  <1>5. QED BY <1>4, FS_CardinalityType DEF Units, TotalVolume

\* Some trades and one more hold no more than the sum of both.
LEMMA OneMoreVolume ==
  ASSUME TypeOK, NEW open \in SUBSET Trades, NEW t \in Trades,
         NEW trades \in SUBSET (open \cup {t})
  PROVE  TotalVolume(trades) <= TotalVolume(open) + order[t].requestedVolume
  <1> DEFINE v == order[t].requestedVolume
             mine == {t} \X (1..v)
  <1>1. v \in Nat
    BY DEF TypeOK, Order
  <1>2. IsFiniteSet(1..v) /\ Cardinality(1..v) = v
    <2>1. \A n \in Nat : IsFiniteSet(1..n) /\ Cardinality(1..n) = n
      BY FS_Interval
    <2>2. QED BY <1>1, <2>1
  <1>3. IsFiniteSet(mine) /\ Cardinality(mine) = v
    <2>1. IsFiniteSet({t}) /\ Cardinality({t}) = 1
      BY FS_Singleton
    <2>2. IsFiniteSet(mine) /\ Cardinality(mine) = Cardinality({t}) * Cardinality(1..v)
      BY <1>2, <2>1, FS_Product
    <2>3. QED BY <1>1, <1>2, <2>1, <2>2
  <1>4. IsFiniteSet(Units(open)) /\ Cardinality(Units(open)) = TotalVolume(open)
    BY UnitsAreFinite DEF Units, TotalVolume
  <1>5. Units(trades) \subseteq Units(open) \cup mine
    BY DEF Units
  <1> HIDE DEF mine, v
  <1>6. /\ IsFiniteSet(Units(open) \cup mine)
        /\ Cardinality(Units(open) \cup mine)
             = Cardinality(Units(open)) + Cardinality(mine)
                 - Cardinality(Units(open) \cap mine)
    BY <1>3, <1>4, FS_Union
  <1>7. Cardinality(Units(open) \cap mine) \in Nat
    BY <1>4, FS_Intersection, FS_CardinalityType
  <1>8. Cardinality(Units(trades)) <= Cardinality(Units(open) \cup mine)
    BY <1>5, <1>6, FS_Subset
  <1>9. /\ TotalVolume(trades) = Cardinality(Units(trades)) /\ TotalVolume(trades) \in Nat
        /\ TotalVolume(open) \in Nat
    <2>1. trades \in SUBSET Trades
      OBVIOUS
    <2>2. QED BY <2>1, UnitsAreFinite DEF Units, TotalVolume
  <1>10. TotalVolume(trades) <= TotalVolume(open) + v
    BY <1>1, <1>3, <1>4, <1>6, <1>7, <1>8, <1>9
  <1>11. QED BY <1>10 DEF v

\* What is stored of a size fits where the size did: it is rounded, but to
\* the unit the limit is counted in.
LEMMA StoredFits ==
  ASSUME NEW x \in Fraction, NEW e \in Nat, NEW m \in Nat,
         e * x.den + x.num <= m * x.den
  PROVE  e + Stored(x) <= m
  <1> DEFINE N == x.num
             d == x.den
             k == Stored(x)
  <1>1. N \in Nat /\ d \in Nat \ {0}
    BY DEF Fraction
  <1>2. k \in Nat /\ k * (2 * d) <= 2 * N + d
    <2>1. 2 * N + d \in Nat /\ 2 * d \in Nat \ {0}
      BY <1>1
    <2>2. k = (2 * N + d) \div (2 * d)
      BY DEF Stored
    <2>3. QED BY <2>1, <2>2, Division
  <1> HIDE DEF k
  <1>3. e * d \in Nat /\ m * d \in Nat /\ k * d \in Nat /\ k * (2 * d) = 2 * (k * d)
    BY <1>1, <1>2
  <1>4. 2 * (k * d) + 2 * (e * d) < 2 * (m * d) + 2 * d
    BY <1>1, <1>2, <1>3
  <1>5. (e + k) * d = e * d + k * d /\ (m + 1) * d = m * d + d
    BY <1>1, <1>2
  <1>6. (e + k) * d < (m + 1) * d
    BY <1>1, <1>3, <1>4, <1>5
  <1>7. e + k < m + 1
    BY <1>1, <1>2, <1>6, TimesCancels
  <1>8. QED BY <1>2, <1>7 DEF k

\* A size is a fraction.
LEMMA SizeType ==
  ASSUME NEW s \in Settings, NEW v \in Nat, NEW a \in Account, InputsKnown(s, a)
  PROVE  Size(s, v, a) \in Fraction
  <1> DEFINE raw == RawVolume(s, v, a)
             y == RoundDownToStep(raw, s.lotStep)
  <1>1. raw \in Fraction
    BY RawVolumeType
  <1>2. s.lotStep \in Nat /\ s.maxLot \in Nat
    BY DEF Settings
  <1> HIDE DEF raw
  <1>3. y \in Fraction
    <2>1. CASE s.lotStep = 0
      BY <1>1, <2>1 DEF RoundDownToStep
    <2>2. CASE s.lotStep # 0
      <3>1. raw.num \in Nat /\ raw.den * s.lotStep \in Nat \ {0}
        BY <1>1, <1>2, <2>2, PositiveProducts DEF Fraction
      <3>2. (raw.num \div (raw.den * s.lotStep)) * s.lotStep \in Nat
        BY <1>2, <3>1, Division, Products
      <3>3. QED BY <2>2, <3>2 DEF RoundDownToStep, Over, Fraction
    <2>3. QED BY <2>1, <2>2
  <1> HIDE DEF y
  <1>4. Cap(y, s.maxLot) \in Fraction
    BY <1>2, <1>3 DEF Cap, Over, Fraction
  <1>5. QED BY <1>4 DEF Size, raw, y

\* A row keeps fitting while what its job counted and the volumes stay.
LEMMA FitsStay ==
  ASSUME NEW t \in Trades, Fits(t),
         job'[t].row = job[t].row, job'[t].opens = job[t].opens,
         job'[t].closes = job[t].closes,
         order'[t].requestedVolume = order[t].requestedVolume,
         \A u \in job[t].opens : order'[u].requestedVolume = order[u].requestedVolume
  PROVE  Fits(t)'
  <1> DEFINE open == CountedOpens(t)
  <1>1. CountedOpens(t)' = open /\ open \subseteq job[t].opens
    BY DEF CountedOpens
  <1>2. UNION {{u} \X (1..order'[u].requestedVolume) : u \in open}
          = UNION {{u} \X (1..order[u].requestedVolume) : u \in open}
    BY <1>1
  <1>3. TotalVolume(CountedOpens(t))' = TotalVolume(open)
    BY <1>1, <1>2 DEF TotalVolume
  <1> HIDE DEF open
  <1>4. QED BY <1>1, <1>3 DEF Fits, open

LEMMA LimitsInit == Init => LInv
  <1> SUFFICES ASSUME Init PROVE LInv
    OBVIOUS
  <1>1. SeesEarlier
    BY DEF Init, SeesEarlier
  <1>2. AdmittedFit
    BY DEF Init, AdmittedFit, Admitted, Row
  <1>3. QED BY <1>1, <1>2 DEF LInv

\* A step of a job that has admitted nothing yet, and does not begin.
LEMMA LimitsJobStep ==
  ASSUME IInv, LInv, NEW u \in Trades,
         order' = order, job[u].pc \in {"account", "gather"},
         job'[u].before = job[u].before,
         \A t \in Trades \ {u} : job'[t] = job[t]
  PROVE  LInv'
  <1>1. ~Admitted(order[u])
    BY DEF IInv, RowsDecided, Admitted
  <1>2. \A t \in Trades : job'[t].before = job[t].before /\ job[t].before \subseteq Trades
    BY DEF IInv, ReadsKept, SettledOpens, Executed
  <1>3. SeesEarlier'
    BY <1>2 DEF LInv, SeesEarlier
  <1>4. AdmittedFit'
    <2> SUFFICES ASSUME NEW t \in Trades, Admitted(order'[t])
                 PROVE  Fits(t)'
      BY DEF AdmittedFit
    <2>1. t # u /\ Fits(t)
      BY <1>1 DEF LInv, AdmittedFit
    <2>2. QED BY <2>1, FitsStay
  <1>5. QED BY <1>3, <1>4 DEF LInv

\* A step that leaves alone what the jobs went by and the volumes, and admits
\* nothing.
LEMMA LimitsRowStep ==
  ASSUME IInv, LInv,
         \A t \in Trades :
           /\ job'[t].row = job[t].row /\ job'[t].opens = job[t].opens
           /\ job'[t].closes = job[t].closes /\ job'[t].before = job[t].before
           /\ order'[t].requestedVolume = order[t].requestedVolume
           /\ Admitted(order'[t]) => Admitted(order[t])
  PROVE  LInv'
  <1>1. \A t \in Trades : job[t].opens \subseteq Trades /\ job[t].before \subseteq Trades
    BY DEF IInv, ReadsKept, Opened, SettledOpens, Executed
  <1>2. SeesEarlier'
    BY <1>1 DEF LInv, SeesEarlier
  <1>3. AdmittedFit'
    <2> SUFFICES ASSUME NEW t \in Trades, Admitted(order'[t])
                 PROVE  Fits(t)'
      BY DEF AdmittedFit
    <2>1. Fits(t)
      BY DEF LInv, AdmittedFit
    <2>2. QED BY <1>1, <2>1, FitsStay
  <1>4. QED BY <1>2, <1>3 DEF LInv

\* An OPEN that arrives finds on record what has less on record before it.
LEMMA LimitsFanOut ==
  ASSUME IInv, LInv, NEW u \in Trades, FanOut(u)
  PROVE  LInv'
  <1>1. /\ job[u].pc = "idle" /\ order' = order
        /\ job'[u].before = SettledOpens
        /\ \A t \in Trades \ {u} : job'[t] = job[t]
    BY DEF FanOut, IInv, TypeOK, Job
  <1>2. ~Admitted(order[u])
    BY <1>1 DEF IInv, RowsDecided, Admitted
  <1>3. u \notin SettledOpens /\ SettledOpens \subseteq Trades
    BY <1>1 DEF SettledOpens, Executed
  <1>4. \A t \in Trades : job[t].before \subseteq SettledOpens
    BY DEF IInv, ReadsKept
  <1>5. SeesEarlier'
    <2> SUFFICES ASSUME NEW t \in Trades
                 PROVE  /\ t \notin job'[t].before
                        /\ \A w \in job'[t].before : job'[w].before \subseteq job'[t].before
      BY DEF SeesEarlier
    <2>1. CASE t = u
      BY <1>1, <1>3, <1>4, <2>1
    <2>2. CASE t # u
      <3>1. job'[t].before = job[t].before
        BY <1>1, <2>2
      <3>2. ASSUME NEW w \in job[t].before PROVE job'[w].before = job[w].before
        BY <1>1, <1>3, <1>4
      <3>3. QED BY <3>1, <3>2 DEF LInv, SeesEarlier
    <2>3. QED BY <2>1, <2>2
  <1>6. AdmittedFit'
    <2> SUFFICES ASSUME NEW t \in Trades, Admitted(order'[t])
                 PROVE  Fits(t)'
      BY DEF AdmittedFit
    <2>1. t # u /\ Fits(t)
      BY <1>1, <1>2 DEF LInv, AdmittedFit
    <2>2. QED BY <1>1, <2>1, FitsStay
  <1>7. QED BY <1>5, <1>6 DEF LInv

\* What Decide admits fits beside what the job counted.
LEMMA AdmittedFits ==
  ASSUME IInv, NEW t \in Trades, job[t].pc = "gather", "NONE" \in Verdicts(t)
  PROVE  LET s == job[t].row
             open == CountedOpens(t)
         IN  /\ s.maxPositions = Null \/ Cardinality(open) < s.maxPositions
             /\ \/ s.maxExposure = Null
                \/ TotalVolume(open) + Stored(SizeOf(t)) <= s.maxExposure
  <1> DEFINE s == job[t].row
             a == job[t].account
             open == CountedOpens(t)
             e == TotalVolume(open)
  <1>1. s \in Settings /\ a \in Account /\ VolumeOf[t] \in Nat
    BY RiskLimitsAssumption DEF IInv, JobsInformed
  <1>2. /\ EntryAllowed(s, SymbolOf[t], Cardinality(open))
        /\ HasSize(s, VolumeOf[t], a)
        /\ ExposureAllowed(s, e, SizeOf(t))
    BY DEF Verdicts
  <1>3. SizeOf(t) \in Fraction
    BY <1>1, <1>2, SizeType DEF SizeOf, HasSize
  <1>4. e \in Nat
    <2>1. open \in SUBSET Trades
      BY DEF IInv, TypeOK, Job, CountedOpens
    <2>2. QED BY <2>1, UnitsAreFinite DEF IInv
  <1>5. s.maxPositions = Null \/ Cardinality(open) < s.maxPositions
    BY <1>2 DEF EntryAllowed
  <1>6. ASSUME s.maxExposure # Null PROVE e + Stored(SizeOf(t)) <= s.maxExposure
    <2>1. s.maxExposure \in Nat
      BY <1>1, <1>6 DEF Settings, Optional
    <2>2. e * SizeOf(t).den + SizeOf(t).num <= s.maxExposure * SizeOf(t).den
      BY <1>2, <1>6 DEF ExposureAllowed
    <2> HIDE DEF s, e
    <2>3. QED BY <1>3, <1>4, <2>1, <2>2, StoredFits
  <1>7. QED BY <1>5, <1>6

LEMMA LimitsDecide ==
  ASSUME IInv, LInv, NEW u \in Trades, Decide(u)
  PROVE  LInv'
  <1>1. PICK verdict \in Verdicts(u), pc \in {"markSent", "markUnsent", "done"} :
          Decision(u, verdict, pc)
    BY DecideDecides
  <1>2. /\ job[u].pc = "gather"
        /\ order \in [Trades -> Order] /\ job \in [Trades -> Job]
        /\ job' = [job EXCEPT ![u].pc = pc]
        /\ order' = [order EXCEPT ![u] =
             IF verdict = "NONE" THEN Row("PENDING", "NONE", Stored(SizeOf(u)))
             ELSE Row("FAILED", verdict, 0)]
        /\ verdict \in {"NONE", "ENTRY", "SIZE", "EXPOSURE"}
    BY <1>1, VerdictsAreRight DEF Decide, Decision, IInv, TypeOK
  <1>3. \A t \in Trades : /\ job'[t].row = job[t].row
                          /\ job'[t].opens = job[t].opens
                          /\ job'[t].closes = job[t].closes
                          /\ job'[t].before = job[t].before
                          /\ job[t].before \subseteq Trades
    BY <1>2 DEF Job
  <1>4. u \notin Opened
    <2>1. ~Admitted(order[u])
      BY <1>2 DEF IInv, RowsDecided, Admitted
    <2>2. QED BY <2>1 DEF IInv, RunsAdmitted, Opened
  <1>5. /\ \A t \in Trades : job[t].opens \subseteq Trades \ {u}
        /\ \A t \in Trades \ {u} : order'[t] = order[t]
    BY <1>2, <1>4 DEF IInv, ReadsKept, Opened
  <1>6. SeesEarlier'
    BY <1>3 DEF LInv, SeesEarlier
  <1>7. AdmittedFit'
    <2> SUFFICES ASSUME NEW t \in Trades, Admitted(order'[t])
                 PROVE  Fits(t)'
      BY DEF AdmittedFit
    <2>1. CASE t # u
      <3>1. Fits(t)
        BY <1>5, <2>1 DEF LInv, AdmittedFit
      <3>2. QED BY <1>3, <1>5, <2>1, <3>1, FitsStay
    <2>2. CASE t = u
      <3>1. verdict = "NONE" /\ order'[u] = Row("PENDING", "NONE", Stored(SizeOf(u)))
        BY <1>2, <2>2 DEF Row, Admitted
      <3>2. order'[u].requestedVolume = Stored(SizeOf(u))
        BY <3>1 DEF Row
      <3>3. CountedOpens(u)' = CountedOpens(u)
        BY <1>3 DEF CountedOpens
      <3>4. TotalVolume(CountedOpens(u))' = TotalVolume(CountedOpens(u))
        <4> DEFINE open == CountedOpens(u)
        <4>1. \A v \in open : order'[v].requestedVolume = order[v].requestedVolume
          BY <1>5 DEF CountedOpens
        <4> HIDE DEF open
        <4>2. UNION {{v} \X (1..order'[v].requestedVolume) : v \in open}
                = UNION {{v} \X (1..order[v].requestedVolume) : v \in open}
          BY <4>1
        <4>3. QED BY <3>3, <4>2 DEF TotalVolume, open
      <3>5. LET s == job[u].row
            IN  /\ s.maxPositions = Null \/ Cardinality(CountedOpens(u)) < s.maxPositions
                /\ \/ s.maxExposure = Null
                   \/ TotalVolume(CountedOpens(u)) + Stored(SizeOf(u)) <= s.maxExposure
        BY <1>1, <1>2, <3>1, AdmittedFits
      <3>6. QED BY <1>3, <2>2, <3>2, <3>3, <3>4, <3>5 DEF Fits
    <2>3. QED BY <2>1, <2>2
  <1>8. QED BY <1>6, <1>7 DEF LInv

LEMMA LimitsNext == IInv /\ LInv /\ [Next]_vars => LInv'
  <1> SUFFICES ASSUME IInv, LInv, [Next]_vars PROVE LInv'
    OBVIOUS
  <1>1. /\ job \in [Trades -> Job] /\ order \in [Trades -> Order]
        /\ \A t \in Trades : job[t].pc \in {"markSent", "markUnsent"} => Admitted(order[t])
        /\ \A r \in results : r \in Result /\ Admitted(order[r.trade])
    BY DEF IInv, TypeOK, RunsAdmitted, Result
  <1>2. CASE UNCHANGED <<job, order>>
    BY <1>2, LimitsRowStep
  <1>3. ASSUME NEW t \in Trades, FanOut(t) PROVE LInv'
    BY <1>3, LimitsFanOut
  <1>4. ASSUME NEW t \in Trades, ReadAccount(t) PROVE LInv'
    BY <1>1, <1>4, LimitsJobStep DEF ReadAccount, Job
  <1>5. ASSUME NEW t \in Trades, ReadOpens(t) PROVE LInv'
    BY <1>1, <1>5, LimitsJobStep DEF ReadOpens, Job
  <1>6. ASSUME NEW t \in Trades, ReadCloses(t) PROVE LInv'
    BY <1>1, <1>6, LimitsJobStep DEF ReadCloses, Job
  <1>7. ASSUME NEW t \in Trades, Decide(t) PROVE LInv'
    BY <1>7, LimitsDecide
  <1>8. ASSUME NEW t \in Trades, JobThrows(t) PROVE LInv'
    BY <1>1, <1>8, LimitsRowStep DEF JobThrows, Job
  <1>9. ASSUME NEW t \in Trades, MarkSent(t) \/ MarkUnsent(t) PROVE LInv'
    <2>1. \A u \in Trades :
            /\ order'[u].requestedVolume = order[u].requestedVolume
            /\ Admitted(order'[u]) => Admitted(order[u])
            /\ job'[u].row = job[u].row /\ job'[u].opens = job[u].opens
            /\ job'[u].closes = job[u].closes /\ job'[u].before = job[u].before
      BY <1>1, <1>9 DEF MarkSent, MarkUnsent, Order, Job
    <2>2. QED BY <2>1, LimitsRowStep
  <1>10. ASSUME NEW t \in Trades, RecordOpen(t) PROVE LInv'
    <2>1. \A u \in Trades :
            /\ order'[u].requestedVolume = order[u].requestedVolume
            /\ Admitted(order'[u]) => Admitted(order[u])
      BY <1>1, <1>10 DEF RecordOpen, Order
    <2>2. QED BY <1>10, <2>1, LimitsRowStep DEF RecordOpen
  <1>11. QED
    BY <1>2, <1>3, <1>4, <1>5, <1>6, <1>7, <1>8, <1>9, <1>10
    DEF Next, vars, SendClose, MarkCloseSent, OpenRuns, CloseRuns, BrokerCloses, RecordClose,
        ChangeSlave, MasterHeartbeat

\* Of OPENs that took turns one was last: it arrived after all the others.
LEMMA OneWasLast ==
  ASSUME IInv, LInv, NEW trades \in SUBSET Trades, trades # {}, InTurn(trades)
  PROVE  \E t \in trades : \A u \in trades \ {t} : After(t, u)
  <1> DEFINE unseen(t) == Trades \ job[t].before
             T == {unseen(t) : t \in trades}
  <1>1. T \subseteq SUBSET Trades /\ T # {}
    OBVIOUS
  <1>2. IsWellFoundedOn(StrictSubsetOrdering(Trades), SUBSET Trades)
    BY RiskLimitsAssumption, FS_FiniteSubsetsOfFinite, FS_StrictSubsetOrderingWellFounded
  <1> HIDE DEF T
  <1>3. PICK m \in T : \A y \in T : ~(<<y, m>> \in StrictSubsetOrdering(Trades))
    BY <1>1, <1>2, WFMin
  <1>4. PICK t \in trades : m = unseen(t)
    BY DEF T
  <1>5. ASSUME NEW u \in trades \ {t} PROVE After(t, u)
    <2>1. SUFFICES ASSUME After(u, t) PROVE FALSE
      BY DEF InTurn
    <2>2. /\ t \in job[u].before /\ t \notin job[t].before
          /\ job[t].before \subseteq job[u].before
      BY <2>1 DEF After, LInv, SeesEarlier
    <2>3. unseen(u) \subseteq unseen(t) /\ unseen(u) # unseen(t)
      BY <2>2
    <2>4. <<unseen(u), unseen(t)>> \in StrictSubsetOrdering(Trades)
      BY <2>3 DEF StrictSubsetOrdering
    <2>5. unseen(u) \in T
      BY DEF T
    <2>6. QED BY <1>3, <1>4, <2>4, <2>5
  <1>6. QED BY <1>5

LEMMA LimitsImplied == IInv /\ LInv => LimitsHold
  <1> SUFFICES ASSUME IInv, LInv,
                      NEW trades \in (SUBSET Open) \ {{}}, InTurn(trades)
               PROVE  \E t \in trades : WithinLimits(job[t].row, trades)
    BY DEF LimitsHold
  <1>1. /\ trades \in SUBSET Trades /\ trades # {}
        /\ \A t \in trades : terminal[t] = "open" /\ Admitted(order[t])
    BY DEF Open, IInv, RunsAdmitted
  <1>2. PICK t \in trades : \A u \in trades \ {t} : After(t, u)
    BY <1>1, OneWasLast
  <1> DEFINE open == CountedOpens(t)
             s == job[t].row
  <1>3. t \in Trades /\ Fits(t)
    BY <1>1 DEF LInv, AdmittedFit
  <1>4. trades \subseteq open \cup {t} /\ open \in SUBSET Trades
    <2>1. job[t].read = {"opens", "closes"}
      BY <1>1, <1>3 DEF IInv, RowsDecided, Admitted
    <2>2. job[t].before \subseteq job[t].opens /\ job[t].closes \subseteq Gone
      BY <1>3, <2>1 DEF IInv, ReadsKept
    <2>3. job[t].opens \subseteq Trades
      BY <1>3 DEF IInv, TypeOK, Job
    <2>4. QED BY <1>1, <1>2, <2>2, <2>3 DEF After, CountedOpens, Gone
  <1>5. s \in Settings
    BY <1>1, <1>3 DEF IInv, RowsDecided, Admitted
  <1>6. s.maxPositions = Null \/ Cardinality(trades) <= s.maxPositions
    <2> SUFFICES ASSUME s.maxPositions # Null PROVE Cardinality(trades) <= s.maxPositions
      OBVIOUS
    <2>1. s.maxPositions \in Nat /\ Cardinality(open) < s.maxPositions
      BY <1>3, <1>5 DEF Fits, Settings, Optional
    <2>2. IsFiniteSet(open)
      BY <1>4, RiskLimitsAssumption, FS_Subset
    <2>3. /\ IsFiniteSet(open \cup {t}) /\ Cardinality(open) \in Nat
          /\ Cardinality(open \cup {t}) <= Cardinality(open) + 1
          /\ Cardinality(open \cup {t}) \in Nat
      <3> HIDE DEF open
      <3>1. Cardinality(open) \in Nat
        BY <2>2, FS_CardinalityType
      <3>2. /\ IsFiniteSet(open \cup {t})
            /\ Cardinality(open \cup {t})
                 = IF t \in open THEN Cardinality(open) ELSE Cardinality(open) + 1
        BY <2>2, FS_AddElement
      <3>3. QED BY <3>1, <3>2
    <2>4. Cardinality(trades) \in Nat /\ Cardinality(trades) <= Cardinality(open \cup {t})
      BY <1>4, <2>3, FS_Subset, FS_CardinalityType
    <2> HIDE DEF s, open
    <2>5. QED BY <2>1, <2>3, <2>4
  <1>7. s.maxExposure = Null \/ TotalVolume(trades) <= s.maxExposure
    <2> SUFFICES ASSUME s.maxExposure # Null PROVE TotalVolume(trades) <= s.maxExposure
      OBVIOUS
    <2>1. /\ s.maxExposure \in Nat
          /\ TotalVolume(open) + order[t].requestedVolume <= s.maxExposure
      BY <1>3, <1>5 DEF Fits, Settings, Optional
    <2>2. TotalVolume(trades) <= TotalVolume(open) + order[t].requestedVolume
      BY <1>3, <1>4, OneMoreVolume DEF IInv
    <2>3. TotalVolume(trades) \in Nat /\ TotalVolume(open) \in Nat
      BY <1>1, <1>4, UnitsAreFinite DEF IInv
    <2>4. order[t].requestedVolume \in Nat
      BY <1>3 DEF IInv, TypeOK, Order
    <2> HIDE DEF s, open
    <2>5. QED BY <2>1, <2>2, <2>3, <2>4
  <1>8. QED BY <1>6, <1>7 DEF WithinLimits

\* Positions the Slave really has, of which each outcome was on record for
\* good before the next OPEN arrived, are never more and never hold more on
\* record than the settings of the last of them allow, whatever else is under
\* way, was closed or was lost (copyToSlave, copyEngine.ts).
THEOREM TurnsRespectLimits == Spec => []LimitsHold
  <1>1. Spec => [](IInv /\ LInv)
    BY InitInv, NextInv, LimitsInit, LimitsNext, PTL DEF Spec
  <1>2. QED BY <1>1, LimitsImplied, PTL
=============================================================================
