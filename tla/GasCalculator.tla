---------------------------- MODULE GasCalculator ----------------------------
(***************************************************************************)
(* pkg/tx/gas.go: the gas price and its adjustment to the load.            *)
(*                                                                         *)
(* The floating-point factors are ratios of integers here.  A product of   *)
(* floats that is a whole number may come out a little below it and lose a *)
(* unit in the conversion to uint64 (3 * 0.95 + 3 * 0.05 is truncated to   *)
(* 2): Truncated leaves both outcomes open.                                *)
(***************************************************************************)
EXTENDS Integers, Sequences

CONSTANTS
    BaseGasPrice,   \* the first price
    MinGasPrice,    \* the least price
    Adjustments,    \* the values PriceAdjustmentFactor (0-1) may have, as <<p, q>>
    Utilizations,   \* how full the last block may be, 0.0 to 1.0, in percent
    PoolSizes,      \* the sizes the pool may have, in hundreds (MaxPoolSize is 10000)
    maxHistory,     \* how many prices are remembered (100)
    MaxPrice        \* bound on prices

ASSUME GasAssumption ==
    /\ MinGasPrice \in Nat \ {0} /\ MaxPrice \in Nat
    /\ BaseGasPrice \in MinGasPrice .. MaxPrice
    /\ maxHistory \in Nat \ {0}

ASSUME GasInputsAssumption ==
    /\ \A f \in Adjustments : f \in Nat \X (Nat \ {0}) /\ f[1] <= f[2]
    /\ Utilizations \subseteq 0 .. 100 /\ PoolSizes \subseteq 0 .. 100

VARIABLES
    currentPrice,
    priceHistory,
    adjustment      \* GasConfig.PriceAdjustmentFactor

gasVars == <<currentPrice, priceHistory, adjustment>>

GasTypeOK ==
    /\ currentPrice \in MinGasPrice .. MaxPrice
    /\ priceHistory \in Seq(MinGasPrice .. MaxPrice)
    /\ Len(priceHistory) <= maxHistory
    /\ adjustment \in Adjustments

GasInit ==
    /\ currentPrice = BaseGasPrice
    /\ priceHistory = <<>>
    /\ adjustment \in Adjustments

\* uint64(x) of the float x that stands for num / den.
Truncated(num, den) ==
    IF num > 0 /\ num % den = 0 THEN {num \div den, (num \div den) - 1} ELSE {num \div den}

AtLeastMin(price) == IF price < MinGasPrice THEN MinGasPrice ELSE price

\* In 40ths: above 80 % up to 1.5 times, below 20 % down to a half.
utilizationFactor(u) ==
    IF u > 80 THEN 40 + (u - 80) ELSE IF u < 20 THEN 20 + u ELSE 40

\* In hundredths: above 5000 transactions up to 1.5 times.
poolFactor(n) == IF n > 50 THEN 100 + (n - 50) ELSE 100

calculateTargetPrice(u, n) ==
    {AtLeastMin(x) : x \in Truncated(currentPrice * (utilizationFactor(u) * poolFactor(n)),
                                     4000)}

\* Mutant: the price follows the target at once.
SmoothedNot(target) == {AtLeastMin(target)}

\* currentPrice * (1 - factor) + target * factor.
Smoothed(target) ==
    {AtLeastMin(x) : x \in Truncated((adjustment[2] - adjustment[1]) * currentPrice
                                         + adjustment[1] * target, adjustment[2])}

Remembered(history) ==
    LET longer == Append(history, currentPrice)
    IN  IF Len(longer) > maxHistory THEN Tail(longer) ELSE longer

UpdateGasPrice(u, n) ==
    \E target \in calculateTargetPrice(u, n) : \E price \in Smoothed(target) :
        /\ price <= MaxPrice
        /\ priceHistory' = Remembered(priceHistory)
        /\ currentPrice' = price
        /\ UNCHANGED adjustment

\* Mutant: the history survives.
GasResetKeeping ==
    /\ currentPrice' = BaseGasPrice
    /\ UNCHANGED <<priceHistory, adjustment>>

GasReset ==
    /\ currentPrice' = BaseGasPrice
    /\ priceHistory' = <<>>
    /\ UNCHANGED adjustment

GasNext == (\E u \in Utilizations, n \in PoolSizes : UpdateGasPrice(u, n)) \/ GasReset

GasSpec == GasInit /\ [][GasNext]_gasVars

-----------------------------------------------------------------------------

\* One adjustment takes the price from p to q: up by at most the adjustment
\* factor of 1.25 p (1.5 times for a full block, 1.5 times for a full pool),
\* down by at most the factor of p / 2, and by what two truncations lose.
SmoothMove(p, q) ==
    /\ 4 * (adjustment[2] * (q - p)) <= 5 * (adjustment[1] * p)
    /\ 2 * (adjustment[2] * (p - q)) <= adjustment[1] * p + 4 * adjustment[2]

\* The comment of UpdateGasPrice promises smooth adjustment, no drastic
\* fluctuation: the remembered prices, with the current one at their end, are
\* a sequence of small moves, also across a Reset and where the oldest price
\* is forgotten.
PriceSmooth ==
    /\ \A i \in 1 .. Len(priceHistory) - 1 : SmoothMove(priceHistory[i], priceHistory[i + 1])
    /\ Len(priceHistory) > 0 => SmoothMove(priceHistory[Len(priceHistory)], currentPrice)

=============================================================================
