----------------------------- MODULE MCOrderDesk -----------------------------
(***************************************************************************)
(* The guarded order path for TLC: the kill switch's file, the paper order *)
(* manager, the shadow engine behind its checks, the trade plan, the       *)
(* readiness gates, the web page's live orders, and the virtual broker     *)
(* called on its own.  The desk chosen at the start moves.                 *)
(***************************************************************************)
EXTENDS KillSwitch, SafeOrders, TradePlan, SafeReadiness, LiveTerminal, PaperBroker

VARIABLE desk

\* s with one field changed: every way of leaving the good case by one step.
Variants(good, change) ==
    {good} \cup UNION {{[good EXCEPT ![f] = v] : v \in change[f]} : f \in DOMAIN change}

-----------------------------------------------------------------------------
MCLimits == [dailyLoss |-> 1000, maxOpen |-> 2, maxQuantity |-> 1, minConfidence |-> 70,
             minRatio |-> 15]

GoodOrder == [symbol |-> "reliance", side |-> "BUY", quantity |-> 1]
GoodQuote == [error |-> FALSE, valid |-> TRUE, ltp |-> 100, age |-> 10]
GoodRaw   == [action |-> "BUY", stop |-> 90, target |-> 120, ratio |-> 20, confidence |-> 70,
              blocked |-> FALSE]
GoodNow   == [weekday |-> 4, minute |-> 930, path |-> "SHADOW", liveEnabled |-> FALSE,
              openOrders |-> <<>>, dailyPnl |-> -999, weeklyLoss |-> 4999, drawdown |-> 999,
              losingRun |-> 2, cooldown |-> FALSE, kill |-> FALSE, drift |-> FALSE]
GoodCase  == [order |-> GoodOrder, quote |-> GoodQuote, raw |-> GoodRaw,
              situation |-> GoodNow]

MCAsked ==
    Variants(GoodOrder, [symbol |-> {"tcs"}, side |-> {"SELL", "HOLD"}, quantity |-> {0, 2}])
MCQuotes ==
    Variants(GoodQuote, [valid |-> {FALSE}, ltp |-> {0, NoPrice, 130}])

MCCases ==
    Variants(GoodCase,
        [order     |-> Variants(GoodOrder, [symbol |-> {"tcs", "other"},
                                            side |-> {"SELL", "HOLD"}, quantity |-> {0, 2}]),
         quote     |-> Variants(GoodQuote, [error |-> {TRUE}, valid |-> {FALSE},
                                            ltp |-> {0, NoPrice}, age |-> {-1, 11, 31}]),
         raw       |-> Variants(GoodRaw, [action |-> {"SELL", "HOLD", "UNKNOWN"},
                                          stop |-> {NoPrice}, target |-> {NoPrice},
                                          ratio |-> {NoPrice, 14}, confidence |-> {69},
                                          blocked |-> {TRUE}]),
         situation |-> Variants(GoodNow, [weekday |-> {5}, minute |-> {554, 931},
                                          path |-> {"LIVE"}, dailyPnl |-> {-1000},
                                          weeklyLoss |-> {5000}, drawdown |-> {1000},
                                          losingRun |-> {3}, cooldown |-> {TRUE},
                                          kill |-> {TRUE}, drift |-> {TRUE},
                                          openOrders |->
                                            {<<[symbol |-> "reliance", side |-> "BUY"]>>,
                                             <<[symbol |-> "reliance", side |-> "SELL"]>>}])])
    \cup {[GoodCase EXCEPT !.order.side = "SELL", !.raw.action = "SELL"],
          [GoodCase EXCEPT !.order.symbol = "tcs", !.order.side = "SELL", !.raw.action = "SELL"]}

-----------------------------------------------------------------------------
Candle(o, h, l, c) == [open |-> o, high |-> h, low |-> l, close |-> c]

\* Alternating, gapping up at the end, and one with a candle that is dropped.
Calm   == [i \in 1 .. 21 |-> IF i % 2 = 0 THEN Candle(9800, 10000, 9800, 9800)
                                          ELSE Candle(9800, 10000, 9800, 10000)]
Gapped == [Calm EXCEPT ![21] = Candle(11400, 11400, 11200, 11400)]
Holed  == [Calm EXCEPT ![3] = Candle(9800, 10000, 0, 9800)]
Flat   == [i \in 1 .. 22 |-> Candle(9800, 9800, 9800, 9800)]

MCPlanRequests ==
    {[quote |-> q, valid |-> v, candles |-> c, history |-> TRUE, action |-> a, bull |-> b[1],
      bear |-> b[2], volumeOk |-> w, confidence |-> f, atr |-> t, support |-> s,
      resistance |-> z] :
        q \in {0, 9900, 300}, v \in BOOLEAN, c \in {Calm, Gapped, Holed, Flat},
        a \in {"BUY", "SELL", "NO_TRADE"}, b \in {<<3, 2>>, <<1, 3>>, <<3, 3>>},
        w \in {TRUE}, f \in {-1, 70}, t \in {0, 500}, s \in {0, 9700}, z \in {0, 10500}}
    \cup {[quote |-> 9900, valid |-> TRUE, candles |-> Calm, history |-> h, action |-> "HOLD",
           bull |-> 3, bear |-> 0, volumeOk |-> w, confidence |-> f, atr |-> 0,
           support |-> 0, resistance |-> 0] : h, w \in BOOLEAN, f \in {69, 70}}

-----------------------------------------------------------------------------
MCEnvironments ==
    [requested : {"PAPER", "LIVE_ENABLED", "LIVE_DISABLED", "WRONG"}, live : BOOLEAN,
     broker : BOOLEAN, database : BOOLEAN, quantity : {-1}, confidence : {101}]

GoodReport == [broker |-> "readonly", market |-> TRUE, kill |-> "inactive",
               audit |-> "events", live |-> "blocked", mutation |-> "blocked",
               paper |-> TRUE, shadow |-> TRUE]
Faults     == [broker |-> {"none", "mutating", "silent"}, market |-> {FALSE},
               kill |-> {"none", "active"}, audit |-> {"none", "empty"},
               live |-> {"none", "open"}, mutation |-> {"none", "open", "ordered"},
               paper |-> {FALSE}, shadow |-> {FALSE}]
MCReports  == UNION {Variants(r, Faults) : r \in Variants(GoodReport, Faults)}

-----------------------------------------------------------------------------
GoodSettings == [key |-> TRUE, secret |-> TRUE, token |-> TRUE, user |-> TRUE, live |-> TRUE,
                 manual |-> TRUE, kill |-> FALSE, submit |-> TRUE, whitelist |-> {"tcs", "infy"},
                 most |-> 2]
MCSettings ==
    Variants(GoodSettings, [key |-> {FALSE}, token |-> {FALSE}, live |-> {FALSE}, kill |-> {TRUE},
                            whitelist |-> {{"infy"}}, most |-> {1}])
    \cup {[GoodSettings EXCEPT !.secret = FALSE, !.user = FALSE, !.manual = FALSE, !.submit = FALSE]}
GoodLive == [symbol |-> "tcs", nse |-> TRUE, side |-> "BUY", limit |-> TRUE, product |-> "MIS",
             quantity |-> 2, price |-> 100]
MCLiveOrders ==
    {GoodLive, [symbol |-> "tcs", nse |-> FALSE, side |-> "HOLD", limit |-> FALSE, product |-> "NRML",
                quantity |-> 0, price |-> 0]}
MCConfirms == {[typed |-> TRUE, approval |-> TRUE], [typed |-> FALSE, approval |-> FALSE]}

Margin(required, available) == [reason |-> "none", required |-> required, available |-> available]
MCMargins == {Margin(100, 100), Margin(100, 99), Margin(NaN, 100), Margin(100, NoNumber)}

-----------------------------------------------------------------------------
MCOrders ==
    {[corr |-> c, symbol |-> "reliance", side |-> s, quantity |-> 1, limit |-> l,
      stop |-> 9900, target |-> 10200] :
        c \in 1 .. 3, s \in Sides, l \in {0, 9950}}
    \cup {[corr |-> 1, symbol |-> "reliance", side |-> "HOLD", quantity |-> 1, limit |-> 0,
           stop |-> 0, target |-> 0]}
MCOrderPrices == {9900, 10000}

-----------------------------------------------------------------------------
vars == <<desk, killVars, safeVars, planVars, readyVars, liveTerminalVars, acct>>

\* The gates start from any evidence at their own desk, from the good case elsewhere.
Init ==
    /\ desk \in {"kill", "paper", "shadow", "plan", "gates", "web", "broker"}
    /\ KillInit /\ SafeInit /\ PlanInit
    /\ environment = CHOOSE e \in Environments : TRUE
    /\ reported = GoodReport
    /\ LiveTerminalInit /\ BrokerInit
    /\ desk # "web" => settings = GoodSettings /\ instrumentFile

Next ==
    \/ /\ desk = "kill" /\ KillNext
       /\ UNCHANGED <<desk, safeVars, planVars, readyVars, liveTerminalVars, acct>>
    \/ /\ desk = "paper" /\ PaperNext
       /\ UNCHANGED <<desk, killVars, planVars, readyVars, liveTerminalVars, acct>>
    \/ /\ desk = "shadow" /\ ShadowNext
       /\ UNCHANGED <<desk, killVars, planVars, readyVars, liveTerminalVars, acct>>
    \/ /\ desk = "plan" /\ plan.decision = "NONE" /\ PlanNext
       /\ UNCHANGED <<desk, killVars, safeVars, readyVars, liveTerminalVars, acct>>
    \/ /\ desk = "gates" /\ reported = GoodReport /\ ReadyNext
       /\ UNCHANGED <<desk, killVars, safeVars, planVars, liveTerminalVars, acct>>
    \/ /\ desk = "web" /\ LiveTerminalNext
       /\ UNCHANGED <<desk, killVars, safeVars, planVars, readyVars, acct>>
    \/ /\ desk = "broker" /\ BrokerNext
       /\ UNCHANGED <<desk, killVars, safeVars, planVars, readyVars, liveTerminalVars>>

Spec == Init /\ [][Next]_vars

-----------------------------------------------------------------------------
\* What is decided before an order: a plan is sound and plans both sides alike, and the
\* verdict on the readiness of a setup agrees with its checklist and its mode.
DecisionsSound == PlanSound /\ PlanMirrors /\ ReadyMatchesChecklist /\ LiveNeedsEverything
=============================================================================
