---------------------------- MODULE MCRiskLimits ----------------------------
(***************************************************************************)
(* Trades on two instruments, and settings that reach every refusal and    *)
(* every corner of the calculator.  Volumes and balances are in            *)
(* hundredths.                                                             *)
(***************************************************************************)
EXTENDS RiskLimits, TLC

CONSTANTS t1, t2, t3, gold, euro

MCSymbolOf == [t \in Trades |-> IF t = t1 THEN gold ELSE euro]
MCVolumeOf == [t \in Trades |-> IF t = t1 THEN 100 ELSE 62]

NoAccount == [balance |-> Null, equity |-> Null]
SomeAccount == [balance |-> 5000, equity |-> 3001]

\* The defaults of the schema, with a lower maximum.
Default == [copyMode |-> "MULTIPLIER", fixedLot |-> Null, multiplier |-> 10000,
            minLot |-> 1, maxLot |-> 120, lotStep |-> 1, account |-> SomeAccount,
            emergencyStop |-> FALSE, maxPositions |-> Null, maxExposure |-> Null,
            allowedSymbols |-> {}, blockedSymbols |-> {}]

TwoPositions == [Default EXCEPT !.maxPositions = 2]

MCSettings ==
  { TwoPositions,
    \* less volume than two trades hold
    [Default EXCEPT !.maxExposure = 110],
    \* 0.333 of the Master's volume in steps of 3, of which none lies in 19 .. 20
    [Default EXCEPT !.multiplier = 3330, !.lotStep = 3, !.minLot = 19, !.maxLot = 20,
                    !.maxPositions = 1],
    \* a fixed lot that is no step; two of them reach the exposure
    [Default EXCEPT !.copyMode = "FIXED_LOT", !.fixedLot = 17, !.lotStep = 5, !.maxExposure = 30],
    \* a step stored as 0; 20.67 is stored as 21 and refused as less than 21
    [Default EXCEPT !.copyMode = "EQUITY_PROPORTIONAL", !.lotStep = 0, !.minLot = 21,
                    !.maxLot = 33, !.maxExposure = 45,
                    !.blockedSymbols = {gold}],
    \* no size lies between the two
    [Default EXCEPT !.copyMode = "BALANCE_PROPORTIONAL", !.minLot = 10, !.maxLot = 9,
                    !.allowedSymbols = {gold}] }

MCMasters == {NoAccount, [balance |-> 10000, equity |-> 9000]}

\* All three trades under a limit that stays as it is, or two of them under
\* settings that change.
OneAtATime ==
  (\A t \in Trades : job[t].pc # "idle") =>
    changes = 0 /\ slave = TwoPositions /\ master = NoAccount

\* The Master closes t1 only; the others are the same volume of one instrument.
MCSymmetry == Permutations({t2, t3})
=============================================================================
