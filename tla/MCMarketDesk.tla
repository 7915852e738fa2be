---------------------------- MODULE MCMarketDesk ----------------------------
(***************************************************************************)
(* The trading core of the runtime for TLC: the live paper runtime, the    *)
(* gate and router, the indicators feeding it, the order lifecycle and the *)
(* backtest.  They share operators, never a run: the desk chosen at the    *)
(* start moves, the others keep their initial state.                       *)
(***************************************************************************)
EXTENDS LivePaperRuntime, Backtest, IndicatorSignals

CONSTANT Desks \* the parts that may move

VARIABLE desk

MCFrames == <<1, 2, 4>>

Good(after, price) == [after |-> after, price |-> price, id |-> 0, delay |-> 0,
                       wide |-> FALSE, naive |-> FALSE]

MCFeed == {Good(1, 10000), Good(2, 9900), Good(2, 10200), Good(5, 10000), Good(0, 12000),
           [Good(-2, 10000) EXCEPT !.id = 1],
           [Good(1, 0) EXCEPT !.naive = TRUE], [Good(1, 10000) EXCEPT !.naive = TRUE]}

-----------------------------------------------------------------------------
MCModes == {"PAPER_TRADING", "APPROVAL_MODE", "LIVE_AUTO"}

MCGateConfig ==
    [capital |-> 50000, riskPercent |-> 50, lossPercent |-> 100, maxTrades |-> 5,
     maxQuantity |-> 10, maxOpen |-> 2, maxSpread |-> 15, minVolume |-> 100000,
     maxVolatility |-> 8]

Calm == [kill |-> FALSE, connected |-> TRUE, stale |-> FALSE, loss |-> 499, trades |-> 4,
         positions |-> 1, spread |-> 15, volume |-> 100000, volatility |-> 8,
         early |-> FALSE, time |-> 560, entry |-> 1000, stop |-> 990]

\* At each limit, one past it, and a stop too wide to size a share.
MCContexts ==
    {[Calm EXCEPT !.stop = s] : s \in {990, 900, 1300}}
    \cup {[Calm EXCEPT !.loss = 500],
          [Calm EXCEPT !.kill = TRUE], [Calm EXCEPT !.connected = FALSE],
          [Calm EXCEPT !.stale = TRUE], [Calm EXCEPT !.trades = 5],
          [Calm EXCEPT !.positions = 2], [Calm EXCEPT !.spread = 16],
          [Calm EXCEPT !.volume = 99999], [Calm EXCEPT !.volatility = 9],
          [Calm EXCEPT !.time = 559], [Calm EXCEPT !.time = 559, !.early = TRUE]}

Scores(trend, book, rest) ==
    [trend_regime |-> trend, liquidity_sweep |-> rest, vwap_pressure |-> rest,
     order_book_imbalance |-> book, volume_confirmation |-> rest, market_breadth |-> rest]

\* Just at the threshold, both ways, one step below it, and out of range.
MCScores == {Scores(6, 2, 9), Scores(-6, -2, -9), Scores(6, 1, 9), Scores(11, 0, 8)}

MCRegimes == {"NEUTRAL", "DANGER"}

-----------------------------------------------------------------------------
Bar(o, h, l, c) == [gap |-> 0, open |-> o, high |-> h, low |-> l, close |-> c,
                    volume |-> 100000, complete |-> TRUE]

MCBars ==
    {Bar(1000, 1100, 900, 1000), Bar(1000, 1100, 1000, 1100), Bar(1100, 1100, 900, 900),
     [Bar(900, 1200, 800, 1100) EXCEPT !.volume = 99999],
     [Bar(1000, 1000, 1000, 1000) EXCEPT !.gap = 1],
     [Bar(1000, 1000, 1000, 1000) EXCEPT !.volume = 0],
     [Bar(1000, 1000, 900, 900) EXCEPT !.complete = FALSE]}

-----------------------------------------------------------------------------
Reading == [scores |-> Scores(9, 9, 9), unavailable |-> {}, danger |-> FALSE, atr |-> 10,
            close |-> 1000, quality |-> "OK", early |-> FALSE, status |-> "PASS"]

Reversed(c) == [c EXCEPT !.scores = [n \in DOMAIN Weights |-> -c.scores[n]]]

\* Around the threshold and the four fifths, with readings missing, bad data, danger,
\* an early minute, a refused trade, and levels that cannot be given.
MCReadings ==
    LET hidden == {[Reading EXCEPT !.unavailable = u, !.scores = sc] :
                     u \in {{}} \cup {{n} : n \in DOMAIN Weights}
                          \cup {{"order_book_imbalance", "market_breadth"}},
                     sc \in {Scores(9, 9, 9), Scores(10, 10, 10), Scores(9, -9, 9), Scores(6, 2, 9)}}
    IN hidden
       \cup {[c EXCEPT !.quality = q] : c \in hidden, q \in {"FAIL", "DATA_UNAVAILABLE", "NONE"}}
       \cup {[Reading EXCEPT !.early = TRUE], [Reading EXCEPT !.status = "FAIL"],
             [Reading EXCEPT !.danger = TRUE], [Reading EXCEPT !.atr = 0],
             [Reading EXCEPT !.atr = -1], [Reading EXCEPT !.close = 0]}

MCCompositions == MCReadings \cup {Reversed(c) : c \in MCReadings}

MCSnapshots == [advancing : 0 .. 3, declining : 0 .. 3, unchanged : 0 .. 1]
\* Candles inside, above, below and around each other, with and without volume.
MCChartBars ==
    LET bar(o, h, l, c, v) == [open |-> o, high |-> h, low |-> l, close |-> c, volume |-> v,
                               complete |-> TRUE]
    IN {bar(1000, 1010, 990, 1000, 2), bar(1000, 1020, 980, 1010, 4), bar(1000, 1020, 990, 990, 1),
        bar(990, 1000, 970, 990, 2), bar(1000, 1000, 1000, 1000, 0),
        bar(1010, 1030, 990, 1020, 3), [bar(1000, 1040, 960, 1000, 3) EXCEPT !.complete = FALSE]}
MCCharts == UNION {[1 .. n -> MCChartBars] : n \in 1 .. 4}

MCTrendReadings ==
    LET bar(h, l) == [open |-> l, high |-> h, low |-> l, close |-> h]
    IN [fast : {990, 1000, 1010}, slow : {1000}, before : {985, 1000, 1015}, atrp : {3, 7, 8},
        last : {bar(1010, 990), bar(1020, 1000), bar(1000, 980)}, previous : {bar(1010, 990)}]

MCOrderBooks == [bid : {0, 10, 70}, ask : {0, 10, 30}, spread : {15, 16}]

-----------------------------------------------------------------------------
vars == <<desk, runtimeVars, gateVars, lifecycle, tape, indicatorVars>>

\* Only the gate's own desk starts from every mode and every refused trade.
Init ==
    /\ desk \in Desks
    /\ RuntimeInit /\ GateInit /\ LifecycleInit /\ BacktestInit /\ IndicatorInit
    /\ trade = CHOOSE ctx \in Contexts : GateBlocks(ctx)
    /\ gateMode.mode # "LIVE_AUTO" => gateMode.live /\ gateMode.broker
    /\ desk # "gate" => gateMode.mode = "PAPER_TRADING"

Next ==
    \/ /\ desk = "runtime" /\ RuntimeNext
       /\ UNCHANGED <<desk, gateVars, lifecycle, tape, indicatorVars>>
    \/ /\ desk = "gate" /\ AssessRisk
       /\ UNCHANGED <<desk, runtimeVars, lifecycle, tape, indicatorVars>>
    \/ /\ desk = "gate" /\ Evaluate
       /\ UNCHANGED <<desk, runtimeVars, lifecycle, tape, indicatorVars>>
    \/ /\ desk = "gate" /\ Route
       /\ UNCHANGED <<desk, runtimeVars, lifecycle, tape, indicatorVars>>
    \/ /\ desk = "lifecycle" /\ LifecycleNext
       /\ UNCHANGED <<desk, runtimeVars, gateVars, tape, indicatorVars>>
    \/ /\ desk = "tape" /\ BacktestNext
       /\ UNCHANGED <<desk, runtimeVars, gateVars, lifecycle, indicatorVars>>
    \/ /\ desk = "indicator" /\ IndicatorNext
       /\ UNCHANGED <<desk, runtimeVars, gateVars, lifecycle, tape>>

Spec == Init /\ [][Next]_vars

-----------------------------------------------------------------------------
\* From readings to a signal to an order's life: no indicator or gate makes a trade by
\* knowing less, none prefers a side, and an order goes through its states in their order.
SignalsRead ==
    /\ desk = "gate" => GateMonotone
    /\ SignalSymmetric /\ LifecycleOrdered
    /\ HidingNeverTrades /\ TradeGraded /\ GaugesSound /\ ChartsReadBothWays

\* The backtest: the drawdown it reports is the worst fall of its equity, and a candle added
\* to the tape changes no trade that was made before it.
BacktestSound == [](desk = "tape" => DrawdownIsWorstFall) /\ NoLookAhead
=============================================================================
