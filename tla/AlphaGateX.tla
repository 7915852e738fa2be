----------------------------- MODULE AlphaGateX -----------------------------
(***************************************************************************)
(* From factor scores to a routed order (alpha_gate_x.py): the risk gate   *)
(* sizes or refuses a trade, the engine turns scores and the gate's answer *)
(* into a signal, the router sends an actionable signal to a broker, and   *)
(* OrderStateMachine follows the life of one order.                        *)
(*                                                                         *)
(* Scores are in tenths, weights and thresholds in hundredths, so that a   *)
(* final score of 1 is 1000; percentages are in hundredths of a percent.   *)
(* Reasons and the times of signals are left out.                          *)
(***************************************************************************)
EXTENDS Integers, Sequences, FiniteSets, SequencesExt, FiniteSetsExt

CONSTANTS Modes,        \* trading modes the settings may have
          Contexts,     \* risk contexts with the trade asked for: entry and stop
          ScoreSets,    \* factor scores
          Regimes,      \* market regimes
          Corrs,        \* correlation ids of signals
          GateConfig    \* RiskConfig

VARIABLES
  gateMode,  \* AlphaGateXSettings: [mode, live] and whether a live broker is attached
  trade,     \* the RiskContext in hand
  risk,      \* the RiskDecision made of it
  signal,    \* the AlphaGateXSignal in hand
  spentIds,  \* DuplicateOrderGuard._seen
  routed,    \* history: what reached a broker, [corr, to, quantity, manual]
  lifecycle  \* history: the states one OrderStateMachine went through

gateVars == <<gateMode, trade, risk, signal, spentIds, routed>>

-----------------------------------------------------------------------------
FactorNames == {"trend_regime", "liquidity_sweep", "vwap_pressure", "order_book_imbalance",
                "volume_confirmation", "market_breadth"}

\* RiskConfig.validate
ConfigValid(c) ==
    /\ c.capital > 0 /\ c.riskPercent \in 25 .. 75
    /\ c.lossPercent > 0 /\ c.lossPercent <= 200
    /\ c.maxTrades > 0 /\ c.maxQuantity > 0 /\ c.maxOpen > 0

ASSUME GateAssumption == ConfigValid(GateConfig)

\* What a context measures are numbers; scores are given of every factor.
ASSUME ContextAssumption ==
    /\ {GateConfig.capital, GateConfig.riskPercent, GateConfig.lossPercent,
        GateConfig.maxQuantity} \subseteq Nat
    /\ {GateConfig.maxTrades, GateConfig.maxOpen, GateConfig.maxSpread, GateConfig.minVolume,
        GateConfig.maxVolatility} \subseteq Int
    /\ \A ctx \in Contexts :
          /\ {ctx.kill, ctx.connected, ctx.stale, ctx.early} \subseteq BOOLEAN
          /\ {ctx.loss, ctx.trades, ctx.positions, ctx.spread, ctx.volume, ctx.volatility,
              ctx.time, ctx.entry, ctx.stop} \subseteq Int
    /\ \A scores \in ScoreSets : scores \in [FactorNames -> Int]

LiveOrdersEnabled(s) == s.mode = "LIVE_AUTO" /\ s.live

\* validate_live_trading, and from_env which calls it
SettingsValid(s) == s.mode = "LIVE_AUTO" => s.live

StopWidth(entry, stop) == IF entry >= stop THEN entry - stop ELSE stop - entry

\* risk_amount, times 10000
RiskBudget == GateConfig.capital * GateConfig.riskPercent

\* PositionSizer.quantity: an entry equal to its stop raises.
SizedQuantity(ctx) ==
    Min({GateConfig.maxQuantity, RiskBudget \div (10000 * StopWidth(ctx.entry, ctx.stop))})

SizingRaises(ctx) == ctx.entry <= 0 \/ ctx.stop <= 0 \/ ctx.entry = ctx.stop

\* Times of day in minutes: the first five of the session.
FirstFive(ctx) == ~ctx.early /\ ctx.time >= 555 /\ ctx.time < 560

GateBlocks(ctx) ==
    \/ ctx.kill \/ ~ctx.connected \/ ctx.stale
    \/ ctx.loss * 10000 >= GateConfig.capital * GateConfig.lossPercent
    \/ ctx.trades >= GateConfig.maxTrades
    \/ ctx.positions >= GateConfig.maxOpen
    \/ ctx.spread > GateConfig.maxSpread
    \/ ctx.volume < GateConfig.minVolume
    \/ ctx.volatility > GateConfig.maxVolatility
    \/ FirstFive(ctx)

Failed == [status |-> "FAIL", quantity |-> 0]

\* RiskGate.assess: sizing is asked for only when nothing blocks.
GateDecision(ctx) ==
    IF GateBlocks(ctx) THEN Failed
    ELSE IF SizedQuantity(ctx) <= 0 THEN Failed
    ELSE [status |-> "PASS", quantity |-> SizedQuantity(ctx)]

-----------------------------------------------------------------------------
Weights == [trend_regime |-> 25, liquidity_sweep |-> 20, vwap_pressure |-> 15,
            order_book_imbalance |-> 15, volume_confirmation |-> 15,
            market_breadth |-> 10]

ScoresValid(scores) == \A name \in DOMAIN scores : scores[name] \in -10 .. 10

FinalScore(scores) == SumFunction([name \in DOMAIN Weights |-> scores[name] * Weights[name]])

Threshold == 720

EngineSignal(scores, status, regime) ==
    IF status = "FAIL" \/ regime = "DANGER" THEN "NO_TRADE"
    ELSE IF FinalScore(scores) >= Threshold THEN "BUY"
    ELSE IF FinalScore(scores) <= -Threshold THEN "SELL"
    ELSE "HOLD"

IsActionable(sig) == sig.side \in {"BUY", "SELL"} /\ sig.status = "PASS"

-----------------------------------------------------------------------------
(* A caller asks the gate, then the engine, then routes; each answer stays *)
(* in hand, so a signal may be routed with a decision made after it.       *)

AssessRisk ==
    \E ctx \in Contexts :
        /\ GateBlocks(ctx) \/ ~SizingRaises(ctx)
        /\ trade' = ctx
        /\ risk' = GateDecision(ctx)
        /\ UNCHANGED <<gateMode, signal, spentIds, routed>>

Evaluate ==
    \E scores \in ScoreSets, regime \in Regimes, corr \in Corrs :
        /\ ScoresValid(scores)
        /\ signal' = [corr |-> corr, side |-> EngineSignal(scores, risk.status, regime),
                      status |-> risk.status, scores |-> scores, regime |-> regime]
        /\ UNCHANGED <<gateMode, trade, risk, spentIds, routed>>

\* OrderRequest.validate: a broker refuses a quantity that is not positive.
Send(to, manual) ==
    IF risk.quantity > 0
    THEN routed' = Append(routed, [corr |-> signal.corr, to |-> to,
                                   quantity |-> risk.quantity, manual |-> manual])
    ELSE UNCHANGED routed

\* Mutant: the guard remembers and never refuses.
Register_Anyway(corr) == spentIds' = spentIds \cup {corr}

Register(corr) == corr \notin spentIds /\ spentIds' = spentIds \cup {corr}

PaperModes == {"PAPER_TRADING", "BACKTEST", "APPROVAL_MODE"}

\* The correlation id is spent before the live checks: an order they refuse
\* can never be routed again by this router.
Deliver(manual) ==
    IF gateMode.mode \in PaperModes THEN Send("paper", manual)
    ELSE IF LiveOrdersEnabled(gateMode) /\ gateMode.broker THEN Send("live", manual)
    ELSE UNCHANGED routed

Route ==
    \E manual \in BOOLEAN :
        /\ IsActionable(signal)
        /\ gateMode.mode = "APPROVAL_MODE" => manual
        /\ Register(signal.corr)
        /\ Deliver(manual)
        /\ UNCHANGED <<gateMode, trade, risk, signal>>

-----------------------------------------------------------------------------
AllowedNext ==
    [SIGNAL_CREATED     |-> {"RISK_CHECK_PENDING"},
     RISK_CHECK_PENDING |-> {"RISK_APPROVED", "RISK_REJECTED"},
     RISK_APPROVED      |-> {"ORDER_PLACED"},
     RISK_REJECTED      |-> {},
     ORDER_PLACED       |-> {"ORDER_OPEN", "ORDER_FILLED", "ORDER_REJECTED",
                             "ORDER_CANCELLED"},
     ORDER_OPEN         |-> {"ORDER_FILLED", "ORDER_REJECTED", "ORDER_CANCELLED"},
     ORDER_FILLED       |-> {"POSITION_OPEN"},
     ORDER_REJECTED     |-> {},
     ORDER_CANCELLED    |-> {},
     POSITION_OPEN      |-> {"EXIT_PENDING", "POSITION_CLOSED"},
     EXIT_PENDING       |-> {"POSITION_CLOSED"},
     POSITION_CLOSED    |-> {}]

\* A transition that is not allowed raises and leaves the state alone.
Transition ==
    \E next \in DOMAIN AllowedNext :
        /\ next \in AllowedNext[Last(lifecycle)]
        /\ lifecycle' = Append(lifecycle, next)

GateInit ==
    /\ gateMode \in {s \in [mode : Modes, live : BOOLEAN, broker : BOOLEAN] :
                        SettingsValid(s)}
    /\ trade \in {ctx \in Contexts : GateBlocks(ctx)} /\ risk = GateDecision(trade)
    /\ signal = [corr |-> CHOOSE c \in Corrs : TRUE, side |-> "NO_TRADE", status |-> "FAIL",
                 scores |-> CHOOSE s \in ScoreSets : TRUE, regime |-> "NEUTRAL"]
    /\ spentIds = {} /\ routed = <<>>

GateNext == AssessRisk \/ Evaluate \/ Route

GateSpec == GateInit /\ [][GateNext]_gateVars

LifecycleInit == lifecycle = <<"SIGNAL_CREATED">>
LifecycleNext == Transition

-----------------------------------------------------------------------------
\* Conditions that make a trade riskier, the same stop and size asked for.
Riskier(a, b) ==
    /\ a.entry = b.entry /\ a.stop = b.stop /\ a.time = b.time /\ a.early = b.early
    /\ b.kill => a.kill
    /\ a.connected => b.connected
    /\ b.stale => a.stale
    /\ a.loss >= b.loss /\ a.trades >= b.trades /\ a.positions >= b.positions
    /\ a.spread >= b.spread /\ a.volume <= b.volume /\ a.volatility >= b.volatility

\* The gate is monotone: no change for the worse turns a refusal into an approval,
\* and what it approves never puts more at risk than the configured share.
GateMonotone ==
    /\ risk.status = "FAIL" =>
          \A ctx \in Contexts : Riskier(ctx, trade) => GateDecision(ctx) = Failed
    /\ risk.status = "PASS" =>
          /\ risk.quantity \in 1 .. GateConfig.maxQuantity
          /\ risk.quantity * StopWidth(trade.entry, trade.stop) * 10000 <= RiskBudget

\* Turning every score round turns the signal round: weights and thresholds treat
\* buying and selling alike, and no score trades against a refusal.
Opposite == [BUY |-> "SELL", SELL |-> "BUY", HOLD |-> "HOLD", NO_TRADE |-> "NO_TRADE"]

SignalSymmetric ==
    /\ Opposite[signal.side] =
          EngineSignal([n \in DOMAIN Weights |-> -signal.scores[n]], signal.status,
                       signal.regime)
    /\ signal.status = "FAIL" => signal.side = "NO_TRADE"

\* Whatever is routed and retried, a correlation id reaches a broker once at most,
\* the live broker only with both settings, and a human said yes in approval mode.
RoutedOnce ==
    /\ IsInjective([i \in DOMAIN routed |-> routed[i].corr])
    /\ \A i \in DOMAIN routed :
          /\ routed[i].corr \in spentIds /\ routed[i].quantity > 0
          /\ routed[i].to = "live" => LiveOrdersEnabled(gateMode)
          /\ gateMode.mode = "APPROVAL_MODE" => routed[i].manual

\* A life of an order ends: no state comes twice, a position is opened only by a
\* fill, placed after the risk check, and closed only after it was opened.
LifecycleOrdered ==
    LET at(s) == SelectInSeq(lifecycle, LAMBDA x : x = s)
        follows(s, t) == at(t) > 0 => at(s) > 0 /\ at(s) < at(t)
    IN /\ IsInjective(lifecycle)
       /\ follows("RISK_APPROVED", "ORDER_PLACED")
       /\ follows("ORDER_FILLED", "POSITION_OPEN")
       /\ follows("ORDER_PLACED", "ORDER_FILLED")
       /\ follows("POSITION_OPEN", "POSITION_CLOSED")
       /\ at("RISK_REJECTED") > 0 => at("ORDER_PLACED") = 0
=============================================================================
