--------------------------- MODULE TradeValidation ---------------------------
(***************************************************************************)
(* The validation of a strategy from its closed trades (validation/): the  *)
(* equity curve, the performance metrics, the walk-forward windows, the    *)
(* go-live gate and the robustness scorecard.                              *)
(*                                                                         *)
(* Money is whole units.  A ratio is compared by multiplying out; scores   *)
(* and coefficients of variation are hundredths, rounded down.             *)
(***************************************************************************)
EXTENDS Integers, Sequences, FiniteSets, SequencesExt, FiniteSetsExt, Functions

CONSTANTS Closings,     \* trades a strategy may close: [symbol, day, regime, pnl]
          Evidences,    \* the rest of RobustnessValidationInput and of the gate's input
          StartCapital,
          MinTrades,    \* minimum_trades and min_trades
          Windows,      \* walk-forward requests: [length, train, test]
          MaxTrades     \* bound: trades closed in one run

\* RobustnessValidationInput's counts, costs and flags.
IsEvidence(e) ==
    /\ e.slippage \in Int /\ e.brokerage \in Int
    /\ {e.outOfSample, e.lookahead, e.repainting} \subseteq BOOLEAN
    /\ IsFiniteSet(DOMAIN e.reports)

ASSUME ValidationAssumption ==
    /\ StartCapital \in Nat \ {0} /\ MinTrades \in Nat \ {0}
    /\ \A t \in Closings : t.pnl \in Int
    /\ \A e \in Evidences : IsEvidence(e)
    /\ \A w \in Windows : {w.length, w.train, w.test} \subseteq Nat

VARIABLES trades,   \* the closed trades, in order
          verdict,  \* the last judgement of them
          folds     \* the last walk-forward split

validationVars == <<trades, verdict, folds>>

Count(condition) == IF condition THEN 1 ELSE 0

-----------------------------------------------------------------------------
\* The numbers of the trades with a profit, with a loss, and with a value of a field.
Winners(ts) == {i \in DOMAIN ts : ts[i].pnl > 0}

Losers(ts) == {i \in DOMAIN ts : ts[i].pnl < 0}

Having(ts, field, v) == {i \in DOMAIN ts : ts[i][field] = v}

\* What some of the trades came to.
Made(ts, I) == SumFunction([i \in I |-> ts[i].pnl])

Profit(ts) == Made(ts, Winners(ts))
Loss(ts)   == 0 - Made(ts, Losers(ts))
Net(ts)    == Made(ts, DOMAIN ts)

\* build_equity_curve
Equity(ts) == [i \in 1 .. Len(ts) + 1 |-> StartCapital + Made(ts, 1 .. i - 1)]

\* peak_equity_curve
Peaks(equity) == [i \in DOMAIN equity |-> Max({equity[k] : k \in 1 .. i})]

\* drawdown_curve
Falls(equity) == [i \in DOMAIN equity |-> Peaks(equity)[i] - equity[i]]

\* max_drawdown against a percentage.
FallBeyond(equity, percent) ==
    \E i \in DOMAIN equity : Falls(equity)[i] * 100 > percent * Peaks(equity)[i]

\* _max_streak of losses: how many losses in a row end at each trade.
LosingRuns(ts) ==
    LET run[i \in 0 .. Len(ts)] ==
            IF i = 0 THEN 0 ELSE IF ts[i].pnl < 0 THEN run[i - 1] + 1 ELSE 0
    IN run

LosingRun(ts) == Max(Range(LosingRuns(ts)))

\* profit_factor below n tenths; without losses it is infinite, or zero without profit.
ProfitFactorBelow(ts, n) ==
    IF Loss(ts) = 0 THEN Profit(ts) = 0 ELSE Profit(ts) * 10 < n * Loss(ts)

WinRateBelow(ts, percent) ==
    Len(ts) = 0 \/ Cardinality(Winners(ts)) * 100 < percent * Len(ts)

-----------------------------------------------------------------------------
\* evaluate_go_live_gate: a walk-forward result that is not there is no failure.
GateFailures(ts, e) ==
    {f \in {"trades"} : Len(ts) < MinTrades}
    \cup {f \in {"profit factor"} : ProfitFactorBelow(ts, 15)}
    \cup {f \in {"drawdown"} : FallBeyond(Equity(ts), 15)}
    \cup {f \in {"win rate"} : WinRateBelow(ts, 50)}
    \cup {f \in {"no trade"} : e.noTrade < 5}
    \cup {f \in {"data"} : e.badData > 0}
    \cup {f \in {"walk forward"} : e.walkForward # <<>> /\ SumFunction(e.walkForward) < 0}
    \cup {f \in {"streak"} : LosingRun(ts) > 8}
    \cup {f \in {"expectancy"} : Net(ts) <= 0}

GateVerdict(ts, e) ==
    IF GateFailures(ts, e) = {} THEN "PASS"
    ELSE IF Len(ts) < MinTrades THEN "NEEDS_MORE_DATA" ELSE "FAIL"

-----------------------------------------------------------------------------
\* n squared times the variance of n values.
Spread(s) ==
    Cardinality(DOMAIN s) * SumFunction([i \in DOMAIN s |-> s[i] * s[i]]) - SumFunction(s) * SumFunction(s)

Unsigned(s) == [i \in DOMAIN s |-> Max({s[i], 0 - s[i]})]

\* _coefficient_of_variation, of values without their signs, at n / d or more.
VariesBy(s, n, d) ==
    LET a   == Unsigned(s)
        sum == SumFunction(a)
    IN Cardinality(DOMAIN s) > 1 /\ sum > 0 /\ d * d * Spread(a) >= n * n * sum * sum

\* The same in hundredths.
Variation(s) == Max({0} \cup {k \in 1 .. 100 * Cardinality(DOMAIN s) : VariesBy(s, k, 100)})

\* A figure of the trades by the value of a field.
Kinds(ts, field) == {ts[i][field] : i \in DOMAIN ts}

Figures(ts, field, figure(_)) ==
    [v \in Kinds(ts, field) |-> figure(SelectSeq(ts, LAMBDA t : t[field] = v))]

\* _concentration: more than half of the profits under one value.
Concentrated(ts, field) ==
    \E v \in Kinds(ts, field) : Made(ts, Winners(ts) \cap Having(ts, field, v)) * 100 > 50 * Profit(ts)

\* _drawdown_clusters: falls of more than five percent, with a new peak between them.
FallClusters(equity) ==
    FoldLeft(LAMBDA acc, i :
                LET fall  == Falls(equity)[i]
                    start == fall * 100 > 5 * Peaks(equity)[i] /\ ~acc.inside
                IN [inside |-> fall # 0 /\ (start \/ acc.inside), n |-> acc.n + Count(start)],
             [inside |-> FALSE, n |-> 0], [i \in DOMAIN equity |-> i]).n

\* _stability_score of the net profits of groups of trades.
Stability(nets) ==
    LET n == Cardinality(DOMAIN nets)
    IN IF n = 0 THEN 0 ELSE IF n = 1 THEN 6000
       ELSE Max({0, 10000 - Variation(nets) * 25 - 1500 * Cardinality({v \in DOMAIN nets : nets[v] < 0})})

\* _summary's profit factor, in hundredths, 999 when there is no loss.
ProfitFactor(ts) ==
    IF Loss(ts) # 0 THEN (Profit(ts) * 100) \div Loss(ts)
    ELSE IF Winners(ts) # {} THEN 99900 ELSE 0

WinRate(ts) == (Cardinality(Winners(ts)) * 100) \div Len(ts)

\* _parameter_sensitivity: unstable below fifty points.
Unstable(profits) == VariesBy(profits, 101, 100)

RobustFailures(ts, e) ==
    {f \in {"trades"} : Len(ts) < MinTrades}
    \cup {f \in {"out of sample"} : ~e.outOfSample}
    \cup {f \in {"walk forward"} : e.walkForward = <<>>}
    \cup {f \in {"symbol"} : Concentrated(ts, "symbol")}
    \cup {f \in {"day"} : Concentrated(ts, "day")}

\* The warnings are counted, one that is given twice twice.
RobustWarnings(ts, e) ==
    LET factors == Figures(ts, "day", LAMBDA s : Min({99900, ProfitFactor(s)}) \div 100)
        rates   == Figures(ts, "day", WinRate)
        days    == Cardinality(DOMAIN rates)
        n       == Len(ts)
    IN Count(\E i \in DOMAIN e.walkForward : e.walkForward[i] <= 0)
       + Count(VariesBy(factors, 9, 10))
       + Count(days >= 2 /\ Spread(rates) > 625 * days * days)
       + Count(Spread([i \in DOMAIN ts |-> ts[i].pnl]) > Max({9 * Net(ts) * Net(ts), n * n}))
       + Count(FallClusters(Equity(ts)) > 2)
       + Count(n >= Max({MinTrades, 20}) /\ Losers(ts) = {} /\ ~FallBeyond(Equity(ts), 0))
       + Count(e.noTrade < 40 \/ e.noTrade > 95)
       + SumFunction([i \in DOMAIN e.reports |->
                   Count(e.reports[i].ratio < 80) + Count(e.reports[i].idealized)
                   + Count(e.reports[i].impact)])
       + Len(SelectSeq(e.parameters, Unstable))

RobustCritical(e) ==
    Count(e.slippage <= 0 \/ e.brokerage <= 0)
    + Cardinality({i \in DOMAIN e.reports : e.reports[i].quality < 50})
    + Count(e.lookahead) + Count(e.repainting)

\* The scorecard's overall score.
RobustScore(ts, e) ==
    LET share    == IF Profit(ts) = 0 THEN 0
                    ELSE (Max(Range(Figures(ts, "symbol", Profit))) * 10000) \div Profit(ts)
        equity   == Equity(ts)
        worst    == Max({(Falls(equity)[i] * 10000) \div Peaks(equity)[i] : i \in DOMAIN equity})
        nets     == Figures(ts, "regime", Net)
    IN (Max({0, 10000 - 1000 * e.badData - 200 * e.gaps})
        + Min({(Len(ts) * 10000) \div MinTrades, 10000})
        + Stability(nets)
        + Max({0, 10000 - 2 * Max({0, share - 5000})})
        + (IF ts = <<>> THEN 0 ELSE 6000)
        + Max({0, 10000 - 4 * worst - 1000 * FallClusters(equity)})
        + (IF e.slippage > 0 /\ e.brokerage > 0 THEN 10000 ELSE 0)
        + Max({0, 10000 - 1200 * Cardinality(RobustFailures(ts, e))
                    - 700 * RobustWarnings(ts, e) - 3000 * RobustCritical(e)})) \div 8

Recommendation(ts, e) ==
    IF RobustCritical(e) > 0 THEN "REDESIGN_STRATEGY"
    ELSE IF RobustScore(ts, e) >= 7000 /\ RobustFailures(ts, e) = {}
    THEN "READY_FOR_MANUAL_REVIEW" ELSE "CONTINUE_VALIDATION"

-----------------------------------------------------------------------------
\* walk_forward_splits: windows over positions from 0, each end excluded.
Splits(w) ==
    LET n == IF w.length < w.train + w.test THEN 0
             ELSE (w.length - w.train - w.test) \div w.test + 1
    IN [k \in 1 .. n |-> LET s == (k - 1) * w.test
                         IN [train |-> s, test |-> s + w.train, end |-> s + w.train + w.test]]

-----------------------------------------------------------------------------
ValidationInit == trades = <<>> /\ verdict = <<>> /\ folds = <<>>

CloseTrade ==
    /\ Len(trades) < MaxTrades /\ verdict = <<>> /\ folds = <<>>
    /\ \E t \in Closings : trades' = Append(trades, t)
    /\ UNCHANGED <<verdict, folds>>

\* The gate and the validator on the same trades.
Judge ==
    /\ verdict = <<>> /\ folds = <<>>
    /\ \E e \in Evidences :
          verdict' = [gate |-> GateVerdict(trades, e), robust |-> Recommendation(trades, e),
                      evidence |-> e]
    /\ UNCHANGED <<trades, folds>>

WalkForward ==
    /\ trades = <<>> /\ verdict = <<>> /\ folds = <<>>
    /\ \E w \in Windows : w.train > 0 /\ w.test > 0 /\ folds' = [asked |-> w, splits |-> Splits(w)]
    /\ UNCHANGED <<trades, verdict>>

-----------------------------------------------------------------------------
\* What the gate passed has made money and has at no time lost more than fifteen percent
\* of any earlier equity.
PassedTradesArePassable ==
    (verdict # <<>> /\ verdict.gate = "PASS") =>
        LET equity == Equity(trades)
        IN /\ equity[Len(equity)] > equity[1] /\ Len(trades) >= MinTrades
           /\ \A i, j \in DOMAIN equity : i < j => (equity[i] - equity[j]) * 100 <= 15 * equity[i]

\* The longest run of losses is one that is there, and there is no longer one.
LosingRunIsLongest ==
    LET lost(i, n) == \A k \in i .. i + n - 1 : trades[k].pnl < 0
        runs == {n \in 0 .. Len(trades) : \E i \in 1 .. Len(trades) - n + 1 : lost(i, n)}
    IN LosingRun(trades) = Max(runs)

\* A strategy recommended for review has out-of-sample and walk-forward evidence and trades
\* enough, and earns half of its profits without any one symbol and without any one day.
ReviewIsEvidenced ==
    (verdict # <<>> /\ verdict.robust = "READY_FOR_MANUAL_REVIEW") =>
        LET e == verdict.evidence
            without(field, v) == {i \in Winners(trades) : trades[i][field] # v}
        IN /\ e.outOfSample /\ e.walkForward # <<>> /\ Len(trades) >= MinTrades
           /\ ~e.lookahead /\ ~e.repainting /\ e.slippage > 0 /\ e.brokerage > 0
           /\ \A field \in {"symbol", "day"} : \A v \in Kinds(trades, field) :
                 2 * Made(trades, without(field, v)) >= Profit(trades)

\* Walk-forward windows never test on what they or a later window train before it, test no
\* candle twice, and leave fewer than one window's candles untested.
WindowsDoNotLeak ==
    folds # <<>> =>
        LET f == folds.splits
            w == folds.asked
        IN /\ \A k \in DOMAIN f : f[k].train + w.train = f[k].test /\ f[k].end <= w.length
           /\ \A j, k \in DOMAIN f : j < k => f[j].end <= f[k].test
           /\ w.length >= w.train + w.test =>
                 f # <<>> /\ f[1].train = 0 /\ w.length - f[Len(f)].end < w.test
=============================================================================
