------------------------------- MODULE Sizing -------------------------------
(***************************************************************************)
(* The arithmetic behind an OPEN: calculateVolume                          *)
(* (backend/src/modules/copy-engine/volumeCalculator.ts) and the two       *)
(* checks of riskChecks.ts, as operators.                                  *)
(*                                                                         *)
(* Lots are counted in hundredths, the resolution of the columns that keep *)
(* them, so everything stored is a natural number.  A size on its way      *)
(* through the calculator need not be: it is a fraction num / den.  (The   *)
(* code computes in doubles and adds 1e-9 before it rounds down, so that   *)
(* an exact multiple of the step counts as one; fractions are exact.)      *)
(***************************************************************************)
EXTENDS Integers

CONSTANTS
  Symbols,          \* the Master's names of instruments
  Null,             \* a column without a value
  MultiplierScale   \* the multiplier's units in 1 (10000 in the schema)

ASSUME SizingAssumption ==
  /\ Null \notin Nat
  /\ MultiplierScale \in Nat \ {0}

Optional == Nat \cup {Null}

CopyModes == {"FIXED_LOT", "MULTIPLIER", "BALANCE_PROPORTIONAL", "EQUITY_PROPORTIONAL"}

Account == [balance : Optional, equity : Optional]

\* A Slave's row, as far as an OPEN depends on it.  The API accepts positive
\* numbers only, but a column keeps two decimals: a lot step of 0.004 is
\* stored as 0.
Settings == [copyMode : CopyModes, fixedLot : Optional, multiplier : Nat,
             minLot : Nat, maxLot : Nat, lotStep : Nat,
             account : Account, emergencyStop : BOOLEAN,
             maxPositions : Optional, maxExposure : Optional,
             allowedSymbols : SUBSET Symbols, blockedSymbols : SUBSET Symbols]

Fraction == [num : Nat, den : Nat \ {0}]

Over(n, d) == [num |-> n, den |-> d]
AtMost(x, n) == x.num <= n * x.den
AtLeast(x, n) == n * x.den <= x.num

(***************************************************************************)
(* calculateVolume: a size, or a refusal when the mode lacks its input or  *)
(* the size comes out below the minimum.                                   *)
(***************************************************************************)
Basis(mode, account) ==
  IF mode = "BALANCE_PROPORTIONAL" THEN account.balance ELSE account.equity

\* None of the early returns of the switch: zero counts as missing for the
\* fixed lot and the Master's account, but not for the Slave's.
InputsKnown(s, master) ==
  /\ s.copyMode = "FIXED_LOT" => s.fixedLot \notin {Null, 0}
  /\ s.copyMode \in {"BALANCE_PROPORTIONAL", "EQUITY_PROPORTIONAL"} =>
       /\ Basis(s.copyMode, master) \notin {Null, 0}
       /\ Basis(s.copyMode, s.account) # Null

RawVolume(s, v, master) ==
  CASE s.copyMode = "FIXED_LOT" -> Over(s.fixedLot, 1)
    [] s.copyMode = "MULTIPLIER" -> Over(v * s.multiplier, MultiplierScale)
    [] OTHER -> Over(v * Basis(s.copyMode, s.account), Basis(s.copyMode, master))

\* Mutant: rounds to the nearest step.
RoundToStep(x, step) ==
  IF step = 0 THEN x
  ELSE Over(((2 * x.num + x.den * step) \div (2 * x.den * step)) * step, 1)

RoundDownToStep(x, step) ==
  IF step = 0 THEN x
  ELSE Over((x.num \div (x.den * step)) * step, 1)

Cap(x, maxLot) == IF AtMost(x, maxLot) THEN x ELSE Over(maxLot, 1)

Size(s, v, master) ==
  Cap(RoundDownToStep(RawVolume(s, v, master), s.lotStep), s.maxLot)

HasSize(s, v, master) ==
  InputsKnown(s, master) /\ AtLeast(Size(s, v, master), s.minLot)

\* What the requestedVolume column keeps of a size: two decimals, rounded.
Stored(x) == (2 * x.num + x.den) \div (2 * x.den)

(***************************************************************************)
(* riskChecks.ts.                                                          *)
(***************************************************************************)
EntryAllowed(s, symbol, count) ==
  /\ ~s.emergencyStop
  /\ symbol \notin s.blockedSymbols
  /\ s.allowedSymbols = {} \/ symbol \in s.allowedSymbols
  /\ s.maxPositions = Null \/ count < s.maxPositions

ExposureAllowed(s, exposure, x) ==
  s.maxExposure = Null \/ exposure * x.den + x.num <= s.maxExposure * x.den

\* The volumes are added up as doubles: a sum that is exactly the limit may
\* come out above it (0.1 + 0.2 > 0.3).
ExposureRefused(s, exposure, x) ==
  /\ s.maxExposure # Null
  /\ \/ ~ExposureAllowed(s, exposure, x)
     \/ exposure > 0 /\ exposure * x.den + x.num = s.maxExposure * x.den
=============================================================================
