------------------------------ MODULE Backtest ------------------------------
(***************************************************************************)
(* The backtest of market_data_spine.py: a tape of candles is validated,   *)
(* each candle but the last may give a signal from the history up to it,   *)
(* the trade is entered at the next candle's open and left within that     *)
(* candle; metrics summarize the trades.                                   *)
(*                                                                         *)
(* The tape grows by one candle per step, so that runs over a longer and a *)
(* shorter tape can be compared.  The scorer, which a caller passes in, is *)
(* one fixed function of the history.  Ratios are pairs of integers.       *)
(***************************************************************************)
EXTENDS AlphaGateX

CONSTANTS Bars,            \* candles a tape may hold: [gap, open, high, low, close, volume, complete]
          StartingEquity, TradeBrokerage, BacktestSlippage,
          ScoredStop,      \* distance of the stop a scored signal carries, 0 for none
          ScoredTarget,    \* distance of its first target, 0 for none
          MaxTape          \* bound: length of a tape

\* An account starts with no debt; candles and charges are numbers.
ASSUME BacktestAssumption ==
    /\ StartingEquity \in Nat
    /\ {TradeBrokerage, BacktestSlippage, ScoredStop, ScoredTarget} \subseteq Int
    /\ \A b \in Bars : /\ {b.gap, b.open, b.high, b.low, b.close, b.volume} \subseteq Int
                       /\ b.complete \in BOOLEAN

VARIABLE tape \* the candles, each with its start; every candle lasts 1

StartOf(t) == IF t = <<>> THEN 0 ELSE Last(t).start + 1

-----------------------------------------------------------------------------
\* OHLCVCandle.validate and the volume check_candle adds to it.
CandleValid(c) ==
    /\ {c.open, c.high, c.low, c.close} \subseteq Nat \ {0}
    /\ c.high >= Max({c.open, c.close}) /\ c.low <= Min({c.open, c.close})
    /\ c.volume >= 0

CandleFails(c) == ~CandleValid(c) \/ c.volume = 0

\* _validate_candles: neither overlap nor gap between neighbours.
TapeFails(t) ==
    \/ \E i \in DOMAIN t : CandleFails(t[i])
    \/ \E i \in DOMAIN t \ {1} : t[i].start # t[i - 1].start + 1

-----------------------------------------------------------------------------
\* The scorer: with the last candle's body, against it after three in a row.
Score(history) ==
    LET c == Last(history)
        rising(i) == history[i].close > history[i].open
    IN IF c.close = c.open THEN "HOLD"
       ELSE IF Len(history) = 3 /\ \A i \in 1 .. 3 : rising(i) THEN "SELL"
       ELSE IF rising(Len(history)) THEN "BUY" ELSE "SELL"

Slipped(price, side, entry) ==
    LET adjustment == (price * BacktestSlippage) \div 100 IN
    IF (side = "BUY") <=> entry THEN price + adjustment ELSE price - adjustment

ScoredLevels(c, side) ==
    LET up == IF side = "BUY" THEN 1 ELSE -1 IN
    [stop   |-> IF ScoredStop = 0 THEN 0 ELSE c.close - up * ScoredStop,
     target |-> IF ScoredTarget = 0 THEN 0 ELSE c.close + up * ScoredTarget]

\* Where a trade leaves the next candle: the stop is looked at first.
ExitWithin(c, side, lv) ==
    IF lv.stop # 0 /\ (IF side = "BUY" THEN c.low <= lv.stop ELSE c.high >= lv.stop)
    THEN lv.stop
    ELSE IF lv.target # 0 /\ (IF side = "BUY" THEN c.high >= lv.target
                                              ELSE c.low <= lv.target)
    THEN lv.target ELSE c.close

\* The decision of run(): the engine on the scores of the history, with a gate
\* that sees the candle's own volume and a stop at its low.
GateContext(c) ==
    [kill |-> FALSE, connected |-> TRUE, stale |-> FALSE, loss |-> 0, trades |-> 0,
     positions |-> 0, spread |-> 0, volume |-> Max({c.volume, 1}), volatility |-> 0,
     early |-> FALSE, time |-> -1, entry |-> c.close,
     stop |-> IF c.low # c.close THEN c.low ELSE (c.close * 99) \div 100]

FactorScores(side) == [n \in DOMAIN Weights |-> IF side = "BUY" THEN 10 ELSE -10]

\* Mutant: the scorer sees the whole tape.
Decision_WholeTape(kind, t, i) == [side |-> Score(t), quantity |-> 1]

\* Side and quantity at one index of one kind of run.
Decision(kind, t, i) ==
    LET side     == Score(SubSeq(t, 1, i))
        decision == GateDecision(GateContext(t[i]))
    IN IF side # "HOLD" /\ kind = "run"
       THEN [side     |-> EngineSignal(FactorScores(side), decision.status, "NEUTRAL"),
             quantity |-> Max({1, decision.quantity})]
       ELSE [side |-> side, quantity |-> 1]

TradePnl(side, entry, exit, quantity) ==
    (IF side = "BUY" THEN exit - entry ELSE entry - exit) * quantity - 2 * TradeBrokerage

\* The trade a decision taken on one candle makes within the next, <<>> when it
\* makes none; only a scored run has levels.
TradeOn(kind, c, next, d) ==
    LET entry == Slipped(next.open, d.side, TRUE)
        exit  == Slipped(IF kind = "scored"
                         THEN ExitWithin(next, d.side, ScoredLevels(c, d.side))
                         ELSE next.close, d.side, FALSE)
    IN IF d.side \in {"BUY", "SELL"}
       THEN <<[side |-> d.side, at |-> next.start, entry |-> entry, exit |-> exit,
               pnl |-> TradePnl(d.side, entry, exit, d.quantity)]>>
       ELSE <<>>

TradeAt(kind, t, i) == TradeOn(kind, t[i], t[i + 1], Decision(kind, t, i))

Kinds == {"run", "scored", "multi"}

\* run() takes the candles as they are, the other two only the complete ones.
Ordered(kind, t) ==
    LET upTo[n \in 0 .. Len(t)] ==
            IF n = 0 THEN <<>>
            ELSE IF kind = "run" \/ t[n].complete THEN Append(upTo[n - 1], t[n]) ELSE upTo[n - 1]
    IN upTo[Len(t)]

\* Every candle but the last is traded on.
Steps(t) == Max({0, Len(t) - 1})

TradesOf(kind, t) ==
    LET ordered == Ordered(kind, t)
        made[n \in 0 .. Steps(ordered)] ==
            IF n = 0 THEN <<>> ELSE made[n - 1] \o TradeAt(kind, ordered, n)
    IN IF TapeFails(ordered) THEN <<>> ELSE made[Steps(ordered)]

\* Candles that asked for a decision and got no trade; the multi-symbol run skips
\* a tape that fails without counting it.
NoTrades(kind, t) ==
    LET ordered == Ordered(kind, t) IN
    IF TapeFails(ordered) THEN IF kind = "multi" THEN 0 ELSE Len(ordered)
    ELSE Steps(ordered) - Len(TradesOf(kind, t))

\* run() counts a signal it does not trade on among the signals and again among
\* the candles without a trade.
Opportunities(kind, t) ==
    LET ordered == Ordered(kind, t)
        signals == {i \in 1 .. Steps(ordered) : Score(SubSeq(ordered, 1, i)) # "HOLD"}
    IN IF TapeFails(ordered) THEN IF kind = "multi" THEN 1 ELSE Len(ordered)
       ELSE Max({1, Len(ordered) - 1, IF kind = "run"
                                      THEN Cardinality(signals) + NoTrades(kind, t) ELSE 0})

\* What some of the trades came to.
Total(trades, I) == SumFunction([i \in I |-> trades[i].pnl])

EquityCurve(trades) == [i \in 1 .. Len(trades) + 1 |-> StartingEquity + Total(trades, 1 .. i - 1)]

-----------------------------------------------------------------------------
\* a/b is less than c/d
Less(r, s) == r[1] * s[2] < s[1] * r[2]

PeakAt(curve, i) == Max({curve[k] : k \in 1 .. i})

\* The falls from the running peak, as <<fall, peak>>, and none.
FallsFromPeak(curve) ==
    {<<0, 1>>} \cup {<<PeakAt(curve, i) - curve[i], PeakAt(curve, i)>> :
                      i \in {j \in DOMAIN curve : PeakAt(curve, j) # 0}}

MaxDrawdown(curve) ==
    CHOOSE f \in FallsFromPeak(curve) : \A g \in FallsFromPeak(curve) : ~Less(f, g)

BacktestMetrics(trades, curve, none, opportunities) ==
    LET wins   == {i \in DOMAIN trades : trades[i].pnl > 0}
        losses == {i \in DOMAIN trades : trades[i].pnl < 0}
    IN [total      |-> Len(trades),
        winRate    |-> <<Cardinality(wins), Len(trades)>>,
        profit     |-> <<Total(trades, wins), 0 - Total(trades, losses)>>,
        drawdown   |-> MaxDrawdown(curve),
        expectancy |-> <<Total(trades, DOMAIN trades), Len(trades)>>,
        noTrade    |-> <<none, opportunities>>]

Metrics(kind, t) ==
    LET trades == TradesOf(kind, t) IN
    BacktestMetrics(trades, EquityCurve(trades), NoTrades(kind, t), Opportunities(kind, t))

-----------------------------------------------------------------------------
BacktestInit == tape = <<>>

AppendCandle ==
    \E b \in Bars :
        /\ Len(tape) < MaxTape
        /\ tape' = Append(tape, [start |-> StartOf(tape) + b.gap, open |-> b.open,
                                 high |-> b.high, low |-> b.low, close |-> b.close,
                                 volume |-> b.volume, complete |-> b.complete])

BacktestNext == AppendCandle

-----------------------------------------------------------------------------
\* No look-ahead: a candle added to the tape changes no trade but the one entered
\* at its open, unless the longer tape is refused as a whole.
NoLookAhead ==
    [][\A kind \in Kinds :
          \/ TapeFails(Ordered(kind, tape'))
          \/ IsPrefix(TradesOf(kind, tape), TradesOf(kind, tape'))]_tape

\* What the metrics say of an equity curve.
MetricsTrue(curve, m) ==
    LET fall(i, j) == <<curve[i] - curve[j], curve[i]>> IN
    /\ \A i, j \in DOMAIN curve :
          /\ i <= j /\ curve[i] > 0
          /\ curve[j] >= 0 \/ \A k \in 1 .. j : curve[k] <= curve[i]
          => ~Less(m.drawdown, fall(i, j))
    /\ \/ m.drawdown[1] = 0
       \/ \E i, j \in DOMAIN curve : i <= j /\ m.drawdown = fall(i, j)
    /\ m.expectancy[1] = Last(curve) - StartingEquity
    /\ m.profit[1] - m.profit[2] = m.expectancy[1]
    /\ m.noTrade[1] + m.total <= m.noTrade[2]

\* The drawdown of the running peak is the worst fall from any earlier point (once the equity
\* is below zero, from the highest one: there the greater share is lost from a lower point), and
\* profit, loss and expectancy add up to what the equity curve gained.
DrawdownIsWorstFall ==
    \A kind \in Kinds : MetricsTrue(EquityCurve(TradesOf(kind, tape)), Metrics(kind, tape))
=============================================================================
