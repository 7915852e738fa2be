--------------------------- MODULE MCExecutionDesk ---------------------------
(***************************************************************************)
(* The institutional layer for TLC: orders and fills, the fill simulator,  *)
(* the portfolio and tail measures, the validation of closed trades, the   *)
(* strategies, the two signal engines and the research.  The desk chosen   *)
(* at the start moves, the others keep their initial state.                *)
(***************************************************************************)
EXTENDS OrderExecution, FillSimulator, PortfolioConstruction, TradeValidation,
        StrategyDesk, FinalSignal, LiveSignal, ResearchDesk

CONSTANT ExecutionDesks \* the parts that may move

VARIABLE desk

\* A good value and each of the changes made to it alone.
Variants(good, changes) == {good} \cup {changes[i] @@ good : i \in DOMAIN changes}

-----------------------------------------------------------------------------
Idea(side, instrument, quantity) ==
    [decision |-> side, entry |-> 100, size |-> 1, instrument |-> instrument,
     quantity |-> quantity]

MCApproved == {Idea("BUY", "a", 2), Idea("SELL", "a", 0), Idea("SELL", "b", 3), Idea("HOLD", "a", 1)}
MCMarkets  == {[last |-> 100, volume |-> 20, halted |-> FALSE], [last |-> 102, volume |-> 40, halted |-> FALSE],
               [last |-> 100, volume |-> 40, halted |-> TRUE], [last |-> 100, volume |-> 0, halted |-> FALSE]}
MCPolicy   == [notional |-> 300, quantity |-> 3, rate |-> <<1, 10>>, slippage |-> 250]
MCBooks    == {[i \in {"a", "b"} |-> 0], [i \in {"a", "b"} |-> IF i = "a" THEN 2 ELSE 0]}

Ask(style, total, n, volumes) ==
    [style |-> style, total |-> total, n |-> n, volumes |-> volumes, rate |-> <<1, 4>>]
MCSchedules ==
    {Ask("TWAP", q, n, <<>>) : q \in 1 .. 12, n \in 1 .. 5}
    \cup {Ask("ICEBERG", q, n, <<>>) : q \in 1 .. 12, n \in 1 .. 5}
    \cup {Ask("VWAP", q, 0, v) : q \in 1 .. 9, v \in {<<1, 2>>, <<3, 1, 3>>, <<0, 5, 1, 1>>, <<7>>}}
    \cup {Ask("PARTICIPATION", q, 0, v) : q \in 1 .. 9, v \in {<<4, 9>>, <<0, 3, 12>>, <<40>>}}

-----------------------------------------------------------------------------
Level(p, q) == [price |-> p, quantity |-> q]

\* Spreads of some basis points, as the score is about them.
MCSimBase ==
    [side |-> "BUY", type |-> "MARKET", quantity |-> 10, reference |-> 10000, limit |-> -1,
     traded |-> 100000, volatility |-> 0, spread |-> 2, hasDepth |-> TRUE,
     bids |-> <<Level(9999, 10), Level(9998, 4), Level(9997, 2), Level(9996, 2), Level(9995, 2),
                Level(9994, 50)>>,
     asks |-> <<Level(10001, 3), Level(10002, 4), Level(10004, 5), Level(10005, 2), Level(10006, 2),
                Level(10007, 50)>>,
     delay |-> 100]
MCSimRequests ==
    {[MCSimBase EXCEPT !.side = s, !.type = t, !.quantity = q, !.limit = l, !.hasDepth = d, !.delay = ms] :
        s \in {"BUY", "SELL"}, t \in {"MARKET", "LIMIT"}, q \in {0, 1, 3, 10, 20, 200},
        l \in {-1, 9997, 9999, 10000, 10002}, d \in BOOLEAN, ms \in {100, 1000}}
    \cup Variants(MCSimBase, <<[spread |-> 5], [volatility |-> 3], [traded |-> 50], [traded |-> 0],
                               [bids |-> <<>>, asks |-> <<>>]>>)

-----------------------------------------------------------------------------
Candidate(symbol, sector, expected) ==
    [symbol |-> symbol, sector |-> sector, entry |-> 100, stop |-> 95, win |-> 60, ratio |-> 20,
     volatility |-> 20, confidence |-> 80, expected |-> expected]
Holding(symbol, sector, quantity) ==
    [symbol |-> symbol, sector |-> sector, quantity |-> quantity, price |-> 100]

\* The defaults of PortfolioRiskLimits.
MCCaps == [kelly |-> 2500, correlation |-> 80, volatility |-> 12, symbol |-> 2000, sector |-> 3500,
           risk |-> 50, gross |-> 10000, var |-> 500, cvar |-> 800, drawdown |-> 1500]

Two  == <<Candidate("a", "bank", 500), Candidate("b", "steel", 300)>>
Four == Two \o <<Candidate("c", "bank", 500), Candidate("d", "bank", 500)>>
Bank == [k \in 1 .. 4 |-> [Four[k] EXCEPT !.sector = "bank"]]

Portfolio(candidates) ==
    [candidates |-> candidates, held |-> <<>>, correlations |-> <<>>, equity |-> <<100, 110, 105>>,
     returns |-> <<>>]

\* The good portfolio and single departures from it: no candidate, a stop so tight that the
\* cap is passed, no edge, something held, falls in the equity, losses in the returns.
MCPortfolios ==
    Variants(Portfolio(Two),
      <<[candidates |-> <<>>], [candidates |-> Bank],
        [candidates |-> <<[Candidate("a", "bank", 500) EXCEPT !.stop = 99], Two[2]>>],
        [candidates |-> <<[Candidate("c", "oil", 500) EXCEPT !.stop = 100]>> \o Two],
        [candidates |-> <<[Candidate("c", "bank", 0) EXCEPT !.win = 30], Candidate("b", "steel", 0)>>],
        [candidates |-> <<Candidate("a", "bank", 0), Candidate("b", "steel", 0)>>],
        [held |-> <<Holding("a", "bank", 150)>>], [held |-> <<Holding("c", "oil", 360)>>],
        [held |-> <<Holding("c", "oil", 100)>>, correlations |-> (<<"a", "c">> :> 90)],
        [held |-> <<Holding("c", "oil", 100)>>, correlations |-> (<<"c", "a">> :> 80)],
        [correlations |-> (<<"a", "b">> :> 90)],
        [equity |-> <<100, 80, 120>>], [equity |-> <<>>],
        [returns |-> [x \in {"a", "b"} |-> <<100, -4000, 50>>]],
        [returns |-> [x \in {"a"} |-> <<100, -200, 50>>]]>>)
MCReturnSeries ==
    {<<a, b, c>> : a, b, c \in {-500, -100, 0, 300}} \cup {<<-100>>, <<200>>, <<-100, 50>>}

-----------------------------------------------------------------------------
Closing(sym, day, pnl) ==
    [symbol |-> sym, day |-> day, regime |-> IF pnl < 0 THEN "range" ELSE "trend", pnl |-> pnl]
MCClosings == {Closing("x", 1, 40), Closing("y", 2, 40), Closing("y", 1, -20), Closing("x", 2, 0)}

Report(quality) == [ratio |-> 90, idealized |-> FALSE, impact |-> FALSE, quality |-> quality]
MCEvidences ==
    Variants([noTrade |-> 50, badData |-> 0, gaps |-> 0, walkForward |-> <<10>>, outOfSample |-> TRUE,
              slippage |-> 1, brokerage |-> 1, lookahead |-> FALSE, repainting |-> FALSE,
              reports |-> <<Report(90)>>, parameters |-> <<<<10, 11>>>>],
             <<[noTrade |-> 4], [badData |-> 1], [walkForward |-> <<>>], [walkForward |-> <<-10, 5>>],
               [outOfSample |-> FALSE], [slippage |-> 0], [lookahead |-> TRUE], [repainting |-> TRUE],
               [reports |-> <<Report(40)>>], [parameters |-> <<<<0, 0, 30>>>>]>>)
MCWindows == [length : 0 .. 9, train : 1 .. 3, test : 1 .. 3]

-----------------------------------------------------------------------------
MCStrategies ==
    {[id |-> 1, enabled |-> TRUE], [id |-> 2, enabled |-> TRUE], [id |-> 3, enabled |-> TRUE],
     [id |-> 1, enabled |-> FALSE]}

Window(n, rate, factor, expectancy, fall) ==
    [trades |-> n, winRate |-> rate, factor |-> factor, expectancy |-> expectancy, drawdown |-> fall,
     volatility |-> 10, robustness |-> 70]
Tracked(current, recent) == [current |-> current, recent |-> recent, execution |-> 80]
MCPerformances ==
    {Tracked(Window(30, 60, 25, 8, 5), Window(5, 60, 25, 8, 5)),
     Tracked(Window(30, 60, 25, 8, 5), Window(5, 40, 10, -2, 5)),
     Tracked(Window(30, 50, 12, 1, 20), Window(4, 20, 5, -5, 5)),
     Tracked(Window(30, 10, 2, -9, 40), Window(5, 10, 2, -9, 40))}
MCMethods == {"EQUAL_WEIGHT", "PERFORMANCE_WEIGHT", "ROBUSTNESS_WEIGHT", "VOLATILITY_ADJUSTED", "HYBRID"}
MCVotes ==
    {[signal |-> d, confidence |-> c, robustness |-> 50] :
        d \in {"BUY", "SELL", "HOLD"}, c \in {50, 90}}

Pair(a, b) == <<a, b>>
Compared(pnl, said, times) == [pnl |-> pnl, signals |-> said, times |-> times]
MCHistories ==
    {Compared(p, s, t) :
        p \in {Pair(<<1, 2, -1>>, <<1, 2, -1>>), Pair(<<1, 2>>, <<2, 1>>), Pair(<<1, 2, 3>>, <<2, 4, 5>>),
               Pair(<<5>>, <<5>>), Pair(<<1, 1>>, <<1, 1>>)},
        s \in {Pair(<<"BUY", "SELL">>, <<"BUY", "SELL">>), Pair(<<"BUY", "HOLD">>, <<"SELL", "HOLD">>),
               Pair(<<>>, <<"BUY">>)},
        t \in {Pair(<<>>, <<>>), Pair(<<1, 2, 3, 4>>, <<1, 2, 3, 4>>), Pair(<<1, 2, 3, 4, 5>>, <<1, 2, 3, 4>>),
               Pair(<<1, 2, 3>>, <<1, 2>>)}}

-----------------------------------------------------------------------------
All(value, names) == [n \in names |-> value]

MCPanels ==
    LET full == FoldSet(LAMBDA n, acc : Append(acc, [name |-> n, approved |-> TRUE]), <<>>,
                           RequiredGates)
    IN {full, Tail(full)}
MCStances ==
    {[name |-> n, approved |-> a] : n \in {"Risk", "Data"}, a \in BOOLEAN}
    \cup {[name |-> "Conflict Resolution", approved |-> FALSE]}

Input(bull, bear, profit) ==
    [bull |-> bull, bear |-> bear, profit |-> profit, scores |-> All(60, RequiredScores),
     votes |-> [n \in {"ml"} |-> 60]]
MCSignalInputs ==
    Variants(Input(6000, 3000, 5000),
             <<[bull |-> 5000, bear |-> 4501], [bull |-> 3000, bear |-> 7000], [bull |-> 4000, profit |-> 4000],
               [votes |-> <<>>], [votes |-> [n \in {"ml", "rl"} |-> 10]],
               [scores |-> All(60, RequiredScores \ {"risk"})],
               [scores |-> [All(60, RequiredScores) EXCEPT !["risk"] = 49]],
               [scores |-> [All(50, RequiredScores) EXCEPT !["risk"] = 90], bull |-> 7000]>>)

Model(source, probability, confidence) ==
    [source |-> source, probability |-> probability, confidence |-> confidence,
     scores |-> <<>>]
MCModelPanels ==
    {<<Model("ml", p, c), Model("flow", q, 80)>> :
        p \in {10, 50, 53, 90}, q \in {5, 40, 70, 95}, c \in {0, 60, 100}}
    \cup {<<[Model("ml", 80, 70) EXCEPT !.scores = All(x, {"risk", "other"})],
            [Model("flow", 70, 70) EXCEPT !.scores = All(60, {"risk"})]>> : x \in {30, 40, 90}}
MCPriors == {<<>>, [n \in {"ml"} |-> 3], [n \in {"ml"} |-> -1]}

-----------------------------------------------------------------------------
Bull == [candles |-> 21, ema |-> 1, vwap |-> 1, flat |-> FALSE, volume |-> TRUE, rsi |-> 60,
         atr |-> 100, up |-> 300, down |-> 300]
Bear == [Bull EXCEPT !.ema = -1, !.vwap = -1, !.rsi = 40]
MCReadings ==
    {[d EXCEPT !.rsi = r, !.atr = x, !.volume = v, !.up = up, !.vwap = IF w THEN @ ELSE -@] :
        d \in {Bull, Bear}, r \in {31, 40, 60, 69}, x \in {0, 100, 300, 6000}, v \in BOOLEAN,
        up \in {100, 301}, w \in BOOLEAN}
    \cup {[Bull EXCEPT !.flat = TRUE], [Bull EXCEPT !.candles = 20], [Bear EXCEPT !.down = 100],
          [Bull EXCEPT !.ema = 0], [Bull EXCEPT !.atr = 6000, !.up = 7000],
           [Bear EXCEPT !.atr = 6000, !.down = 7000]}
MCOutcomes == {-20, -5, 0, 10, NoOutcome}

MCFrameSets ==
    [primary : MCReadings, confirmation : {NotGiven, Bull, Bear}, trend : {NotGiven, Bull, Bear}]
    \cup {[primary |-> Bull, confirmation |-> [Bull EXCEPT !.candles = 20], trend |-> NotGiven]}

-----------------------------------------------------------------------------
\* Every side of every threshold of the adapters.
MCStudyFeatures ==
    [lead : -1 .. 1, slow : -1 .. 1, fast : -1 .. 1, ret : {-3, -2, 2, 3},
     volume : {54, 55, 79, 80}, rsi : {27, 28, 34, 35, 65, 66, 72, 73}]

\* Inside the levels, at and beyond each, and a candle that touches both.
MCForward ==
    {[high |-> 102, low |-> 97, close |-> 99], [high |-> 109, low |-> 96, close |-> 109],
     [high |-> 110, low |-> 99, close |-> 100], [high |-> 101, low |-> 95, close |-> 98],
     [high |-> 111, low |-> 94, close |-> 104], [high |-> 93, low |-> 90, close |-> 92]}

MCSplitPlans == [candles : 0 .. 12, train : 1 .. 4, test : 1 .. 3, step : 1 .. 4]

MCDossier ==
    [rows |-> 5, samples |-> 100, names |-> {"plain"}, periods |-> <<1, 2, 2, 3, 3, 4>>,
     evidence |-> {"oos", "walkforward", "calibration"}, importance |-> {1}, regimes |-> {40, 75},
     metrics |-> {60}, drift |-> FALSE]
MCDossiers ==
    LET flaws == <<[rows |-> 0], [samples |-> 99], [names |-> {"plain", "label"}],
                   [names |-> {"future"}], [periods |-> <<1, 3, 2, 3, 3, 4>>], [evidence |-> {}],
                   [evidence |-> {"oos", "calibration"}], [importance |-> {-1, 2}],
                   [importance |-> {}], [regimes |-> {40, 76}], [regimes |-> {}],
                   [metrics |-> {60, 99}], [drift |-> TRUE]>>
    IN Variants(MCDossier, flaws)
       \cup UNION {Variants(flaws[i] @@ MCDossier, flaws) : i \in DOMAIN flaws}

-----------------------------------------------------------------------------
executionDesks == <<executionVars, fillVars, portfolioVars>>
judgementDesks == <<validationVars, strategyVars, signalVars, liveVars>>

vars == <<desk, executionDesks, judgementDesks, researchVars>>

\* Where the signals are not ruled on, the panel does not matter.
Init ==
    /\ desk \in ExecutionDesks
    /\ ExecutionInit /\ FillInit /\ PortfolioInit /\ ValidationInit
    /\ StrategyInit /\ SignalInit /\ LiveInit /\ ResearchInit
    /\ desk = "signals" \/ gates = CHOOSE p \in Panels : TRUE

OrderStep ==
    /\ desk = "orders"
    /\ ExecutionNext \/ Slice
    /\ UNCHANGED <<desk, fillVars, portfolioVars, judgementDesks, researchVars>>

FillStep ==
    /\ desk = "fills" /\ FillNext
    /\ UNCHANGED <<desk, executionVars, portfolioVars, judgementDesks, researchVars>>

PortfolioStep ==
    /\ desk = "portfolio"
    /\ Propose \/ Measure
    /\ UNCHANGED <<desk, executionVars, fillVars, judgementDesks, researchVars>>

ValidationStep ==
    /\ desk = "validation"
    /\ CloseTrade \/ Judge \/ WalkForward
    /\ UNCHANGED <<desk, executionDesks, strategyVars, signalVars, liveVars, researchVars>>

StrategyStep ==
    /\ desk = "strategies"
    /\ RegisterStrategy \/ AllocateCapital \/ Decide \/ Compare
    /\ UNCHANGED <<desk, executionDesks, validationVars, signalVars, liveVars, researchVars>>

SignalStep ==
    /\ desk = "signals"
    /\ ReportGate \/ Rule \/ MetaRule
    /\ UNCHANGED <<desk, executionDesks, validationVars, strategyVars, liveVars, researchVars>>

LiveStep ==
    /\ desk = "live"
    /\ AskSignal \/ KeepSignal
    /\ UNCHANGED <<desk, executionDesks, validationVars, strategyVars, signalVars, researchVars>>

ResearchStep ==
    /\ \/ desk = "research" /\ StudyNext /\ UNCHANGED <<judged, catalog>>
       \/ desk = "review" /\ (SplitCandles \/ JudgeModel) /\ UNCHANGED <<studyVars, catalog>>
       \/ desk = "catalog" /\ CatalogNext /\ UNCHANGED <<studyVars, judged>>
    /\ UNCHANGED <<desk, executionDesks, judgementDesks>>

Next ==
    \/ OrderStep \/ FillStep \/ PortfolioStep \/ ValidationStep
    \/ StrategyStep \/ SignalStep \/ LiveStep \/ ResearchStep

Spec == Init /\ [][Next]_vars

-----------------------------------------------------------------------------
\* Orders become positions by their fills alone: late and split reports show as breaks,
\* positions and schedules keep the policy, and fills keep the book's depth and prices.
OrdersSound ==
    /\ BreaksAreUndelivered /\ PositionsWithinPolicy /\ ScheduleSound
    /\ DepthFillSound /\ GoodScoreMeansGoodFill

\* Capital is spent within its limits, by symbol, by risk and by strategy, and only on the
\* word of strategies that earned it.
CapitalSound ==
    /\ ApprovedWithinLimits /\ SizedByRisk /\ TailsOrdered
    /\ AllocationsHold /\ DecisionsAreEarned /\ TwinsAreWarned

\* A trade of either engine has all its evidence for it, depends on each piece, treats both
\* sides alike, and brings levels on the right sides of the price.
SignalsSound ==
    /\ TradeIsUnanimous /\ DoubtIsHeard /\ MetaMirrors
    /\ LevelsSound /\ SignalMirrors /\ TradesAreConfirmed /\ ReportIsHonest

\* What trades, strategies and models are passed on was seen out of sample, is neither
\* counted twice nor known beforehand, and can be followed to its data.
EvidenceSound ==
    /\ PassedTradesArePassable /\ LosingRunIsLongest /\ ReviewIsEvidenced /\ WindowsDoNotLeak
    /\ EnsembleBuysOnly /\ TrialsArePessimistic /\ SummaryIsWhole /\ SplitsDoNotLeak
    /\ ReadyModelsAreClean /\ LineageNeverDangles
=============================================================================
