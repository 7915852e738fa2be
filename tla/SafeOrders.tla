----------------------------- MODULE SafeOrders -----------------------------
(***************************************************************************)
(* The guarded order path: market data health (market_data_safety.py), the *)
(* safe signal (signal_safety.py) and the risk engine (risk_engine.py) in  *)
(* front of the shadow engine (shadow_trading.py), wired as the scripts    *)
(* patch it into the web server, and the paper order manager               *)
(* (paper_order_manager.py), whose caller brings a risk answer of its own. *)
(*                                                                         *)
(* Prices and money are integers, NoPrice is None or DATA_UNAVAILABLE.     *)
(* Reasons are kept only where one is told from another.                   *)
(***************************************************************************)
EXTENDS Integers, Sequences, FiniteSets, SequencesExt

CONSTANTS Asked,       \* orders: [symbol, side, quantity], side in upper case
          Quotes,      \* what the quote fetcher answers: [error, valid, ltp, age]
          Cases,       \* what meets in the shadow path: an order, a quote, the signal
                       \* engine's answer [action, stop, target, ratio, confidence, blocked]
                       \* and the rest of RiskInput with the clock
          Limits,      \* RiskLimits
          TradingMode, \* tradingMode of the configuration
          Instruments, \* allowed_instruments
          InitialCash,
          MaxOrders    \* bound: orders created by one manager, resets included

\* Prices, sizes, ratings and losses are numbers; what is in force is a dataclass.
ASSUME SafeAssumption ==
    /\ InitialCash \in Nat /\ MaxOrders \in Nat
    /\ \A o \in Asked : o.quantity \in Int
    /\ \A q \in Quotes : q.ltp \in Int
    /\ \A c \in Cases :
          /\ {c.order.quantity, c.quote.ltp, c.quote.age, c.situation.dailyPnl} \subseteq Int
          /\ c.raw = [action |-> c.raw.action, stop |-> c.raw.stop, target |-> c.raw.target,
                      ratio |-> c.raw.ratio, confidence |-> c.raw.confidence,
                      blocked |-> c.raw.blocked]
          /\ {c.raw.ratio, c.raw.confidence} \subseteq Int
    /\ Limits.dailyLoss \in Nat
    /\ {Limits.maxOpen, Limits.maxQuantity, Limits.minConfidence, Limits.minRatio} \subseteq Int

VARIABLES
  paper,   \* PaperExecutionState
  shadow,  \* ShadowTradingState, with a cash no one looks at
  judged   \* history: the last order the shadow engine evaluated and what came of it

safeVars == <<paper, shadow, judged>>

NoPrice   == -1
OrderSides == {"BUY", "SELL"}

-----------------------------------------------------------------------------
\* health(): an age of -1 is a tick without a time, which counts as fresh.
Missing(q) == q.error \/ ~q.valid \/ q.ltp = NoPrice

HealthState(q) ==
    IF q.error THEN "DISCONNECTED"
    ELSE IF Missing(q) THEN "DATA_UNAVAILABLE"
    ELSE IF q.age > 30 THEN "RECONNECTING"
    ELSE IF q.age > 10 THEN "STALE"
    ELSE "CONNECTED"

IsActionable(q) == HealthState(q) = "CONNECTED" /\ ~Missing(q)

\* Minutes of the day, both ends of the session included.
IsMarketOpen(s) == s.weekday < 5 /\ s.minute \in 555 .. 930

-----------------------------------------------------------------------------
AllowedActions == {"BUY", "SELL", "HOLD", "NO_TRADE", "DATA_UNAVAILABLE"}

Incomplete(raw) ==
    \/ raw.stop = NoPrice \/ raw.target = NoPrice \/ raw.ratio = NoPrice
    \/ raw.confidence < Limits.minConfidence \/ raw.blocked

\* safe_signal_from_existing_signal
SafeSignal(raw, q) ==
    IF ~IsActionable(q)
    THEN [raw EXCEPT !.action = "DATA_UNAVAILABLE", !.stop = NoPrice, !.target = NoPrice,
                     !.ratio = NoPrice]
    ELSE [raw EXCEPT !.action =
             IF @ \notin AllowedActions THEN "DATA_UNAVAILABLE"
             ELSE IF @ \in OrderSides /\ Incomplete(raw) THEN "NO_TRADE" ELSE @]

-----------------------------------------------------------------------------
\* A long position or a buy of the symbol counts as a duplicate for both sides.
HasDuplicate(o, rows) ==
    \E r \in Range(rows) : r.symbol = o.symbol /\ r.side \in {o.side, "LONG", "BUY"}

ModeRefuses(s) ==
    \/ TradingMode \in {"READ_ONLY", "LIVE_DISABLED"}
    \/ TradingMode = "LIVE_ENABLED" /\ ~s.liveEnabled
    \/ s.path = "LIVE"

\* What the engine holds against a signal, whatever the account and the market.
SignalReasons(sig, o) ==
    {r \in {"SIGNAL_NOT_ACTIONABLE"} : sig.action \notin OrderSides}
    \cup {r \in {"ORDER_SIDE_DOES_NOT_MATCH_SIGNAL"} :
            sig.action \in OrderSides /\ sig.action # o.side}
    \cup {r \in {"SIGNAL_CONFIDENCE_BELOW_MINIMUM"} : sig.confidence < Limits.minConfidence}
    \cup {r \in {"STOP_LOSS_REQUIRED"} : sig.stop = NoPrice}
    \cup {r \in {"TARGET_REQUIRED"} : sig.target = NoPrice}
    \cup {r \in {"RISK_REWARD"} : sig.ratio = NoPrice \/ sig.ratio < Limits.minRatio}

\* Losses against their limits; a daily limit of zero switches three of them off.
LossesRefuse(s) ==
    \/ Limits.dailyLoss > 0 /\ (\/ s.dailyPnl <= 0 - Limits.dailyLoss
                                \/ s.weeklyLoss >= 5 * Limits.dailyLoss
                                \/ s.drawdown >= Limits.dailyLoss)
    \/ s.losingRun >= 3

AccountRefuses(o, open, orders, s) ==
    \/ o.quantity <= 0 \/ o.quantity > Limits.maxQuantity
    \/ Len(open) >= Limits.maxOpen
    \/ HasDuplicate(o, open) \/ HasDuplicate(o, orders)
    \/ LossesRefuse(s)

\* RiskEngine.evaluate: allowed when no reason was found.
RiskAllows(o, sig, q, open, s) ==
    /\ ~ModeRefuses(s)
    /\ IsMarketOpen(s) /\ o.symbol \in Instruments /\ IsActionable(q)
    /\ o.side \in OrderSides
    /\ SignalReasons(sig, o) = {}
    /\ ~AccountRefuses(o, open, s.openOrders, s)
    /\ ~s.cooldown /\ ~s.kill /\ ~s.drift

-----------------------------------------------------------------------------
(* The two managers differ in their names for states, in the cash, and in  *)
(* the signal the shadow engine looks at: kind tells them apart.           *)

NewBook == [cash |-> InitialCash, open |-> <<>>, closed |-> <<>>, realized |-> 0,
            unrealized |-> 0, orders |-> <<>>,
            audit |-> [e \in {"CREATED", "BLOCKED", "FILLED", "CANCELLED"} |-> 0]]

Audited(b, event) == [b EXCEPT !.audit[event] = @ + 1]

Ended(b, status) == Audited([b EXCEPT !.orders[Len(b.orders)] = status], status)

OpenAt(b, symbol) == SelectInSeq(b.open, LAMBDA p : p.symbol = symbol)

ValidOrder(kind, o, q, action) ==
    /\ o.side \in OrderSides /\ o.quantity >= 1
    /\ q.valid /\ q.ltp > 0
    /\ kind = "shadow" => action \notin {"NO_TRADE", "HOLD", "DATA_UNAVAILABLE"}

FillBuy(kind, b, o, ltp) ==
    IF \/ kind = "paper" /\ ltp * o.quantity > b.cash
       \/ OpenAt(b, o.symbol) # 0
    THEN Ended(b, "BLOCKED")
    ELSE Ended([b EXCEPT !.cash = @ - ltp * o.quantity,
                         !.open = Append(@, [symbol |-> o.symbol, side |-> "LONG",
                                             quantity |-> o.quantity, entry |-> ltp,
                                             ltp |-> ltp])], "FILLED")

\* Mutant: the quantity of the order is paid for, not that of the position.
FillSell_OrderQuantity(b, o, ltp) ==
    LET i == OpenAt(b, o.symbol) IN
    IF i = 0 THEN Ended(b, "BLOCKED")
    ELSE LET p == b.open[i] IN
         Ended([b EXCEPT !.cash = @ + ltp * o.quantity,
                         !.open = RemoveAt(@, i),
                         !.closed = Append(@, (ltp - p.entry) * p.quantity),
                         !.realized = @ + (ltp - p.entry) * p.quantity], "FILLED")

\* A sale closes the whole position, whatever quantity was asked for.
FillSell(b, o, ltp) ==
    LET i == OpenAt(b, o.symbol) IN
    IF i = 0 THEN Ended(b, "BLOCKED")
    ELSE LET p == b.open[i] IN
         Ended([b EXCEPT !.cash = @ + ltp * p.quantity,
                         !.open = RemoveAt(@, i),
                         !.closed = Append(@, (ltp - p.entry) * p.quantity),
                         !.realized = @ + (ltp - p.entry) * p.quantity], "FILLED")

\* The order is on record before anything is checked.
CreateOrder(kind, b, o, q, action, allowed) ==
    LET c == Audited([b EXCEPT !.orders = Append(@, "CREATED")], "CREATED") IN
    IF ~ValidOrder(kind, o, q, action) \/ ~allowed THEN Ended(c, "BLOCKED")
    ELSE IF o.side = "BUY" THEN FillBuy(kind, c, o, q.ltp)
    ELSE FillSell(c, o, q.ltp)

\* A blocked order may be cancelled, a filled one not.
Cancellable(b, i) == b.orders[i] \notin {"FILLED", "CANCELLED"}

CancelOrder(b, i) ==
    IF Cancellable(b, i) THEN Audited([b EXCEPT !.orders[i] = "CANCELLED"], "CANCELLED")
                         ELSE b

\* A position whose symbol has no quote keeps the last price it was marked with.
MarkToMarket(b, symbol, q) ==
    LET ltp(p) == IF p.symbol = symbol /\ q.ltp # NoPrice THEN q.ltp ELSE p.ltp
        open   == [i \in DOMAIN b.open |-> [b.open[i] EXCEPT !.ltp = ltp(b.open[i])]]
    IN [b EXCEPT !.open = open,
                 !.unrealized = SumFunction([i \in DOMAIN open |->
                     (open[i].ltp - open[i].entry) * open[i].quantity])]

-----------------------------------------------------------------------------
PaperOrder ==
    \E o \in Asked, q \in Quotes, allowed \in BOOLEAN :
        /\ paper.audit["CREATED"] < MaxOrders
        /\ paper' = CreateOrder("paper", paper, o, q, "", allowed)
        /\ UNCHANGED <<shadow, judged>>

PaperCancel ==
    \E i \in DOMAIN paper.orders :
        /\ paper' = CancelOrder(paper, i)
        /\ UNCHANGED <<shadow, judged>>

PaperMark ==
    \E o \in Asked, q \in Quotes :
        /\ paper' = MarkToMarket(paper, o.symbol, q)
        /\ UNCHANGED <<shadow, judged>>

\* _shadow_evaluate: one quote, one signal and one risk answer per order.
ShadowOrder ==
    \E c \in Cases :
        LET sig     == SafeSignal(c.raw, c.quote)
            allowed == RiskAllows(c.order, sig, c.quote, shadow.open, c.situation)
            after   == CreateOrder("shadow", shadow, c.order, c.quote, sig.action, allowed)
        IN /\ shadow.audit["CREATED"] < MaxOrders
           /\ shadow' = after
           /\ judged' = [order |-> c.order, quote |-> c.quote, raw |-> c.raw,
                         situation |-> c.situation, open |-> shadow.open,
                         status |-> Last(after.orders)]
           /\ UNCHANGED paper

ShadowCancel ==
    \E i \in DOMAIN shadow.orders :
        /\ shadow' = CancelOrder(shadow, i)
        /\ UNCHANGED <<paper, judged>>

\* The audit log survives.
ShadowReset ==
    /\ shadow' = [NewBook EXCEPT !.audit = shadow.audit]
    /\ UNCHANGED <<paper, judged>>

SafeInit == paper = NewBook /\ shadow = NewBook /\ judged = [status |-> "NONE"]

PaperNext  == PaperOrder \/ PaperCancel \/ PaperMark
ShadowNext == ShadowOrder \/ ShadowCancel \/ ShadowReset

SafeSpec == SafeInit /\ [][PaperNext \/ ShadowNext]_safeVars

-----------------------------------------------------------------------------
Invested(b) == SumFunction([i \in DOMAIN b.open |-> b.open[i].entry * b.open[i].quantity])

StatusCount(b, status) == Cardinality({i \in DOMAIN b.orders : b.orders[i] = status})

\* Money is neither made nor lost but by sales: cash and what the open positions
\* cost are the capital and the realized profit, the manager never overdraws, and
\* there is one position per symbol, whatever is ordered, cancelled and marked.
PaperBooksBalance ==
    /\ paper.cash + Invested(paper) = InitialCash + paper.realized
    /\ paper.cash >= 0
    /\ paper.realized = SumFunction(paper.closed)
    /\ \A b \in {paper, shadow} : IsInjective([i \in DOMAIN b.open |-> b.open[i].symbol])

\* Every order leaves its trace: fills are positions and sales, the audit log has
\* one creation and one fill for each, and no fill is ever taken back.
OrdersAudited ==
    /\ paper.audit["CREATED"] = Len(paper.orders)
    /\ paper.audit["FILLED"] = StatusCount(paper, "FILLED")
    /\ paper.audit["CANCELLED"] = StatusCount(paper, "CANCELLED")
    /\ paper.audit["BLOCKED"] = Len(paper.orders) - StatusCount(paper, "FILLED")
    /\ \A b \in {paper, shadow} :
          StatusCount(b, "FILLED") = Len(b.open) + 2 * Len(b.closed)

\* From the raw inputs to the fill: a shadow order is filled only on a quote that
\* is valid and not known to be old, in the session, with the stop off, in the
\* direction of a complete and confident signal, and within every limit.
FilledOnlyWhenSafe ==
    judged.status = "FILLED" =>
        LET o == judged.order raw == judged.raw s == judged.situation q == judged.quote IN
        /\ q.valid /\ ~q.error /\ q.ltp > 0 /\ q.age <= 10
        /\ s.weekday < 5 /\ ~s.kill /\ ~s.drift /\ ~s.cooldown /\ s.path # "LIVE"
        /\ raw.action = o.side /\ ~Incomplete(raw) /\ raw.ratio >= Limits.minRatio
        /\ o.quantity <= Limits.maxQuantity /\ o.symbol \in Instruments
        /\ Len(judged.open) < Limits.maxOpen
        /\ s.dailyPnl > 0 - Limits.dailyLoss \/ Limits.dailyLoss = 0

\* The two checks of a signal agree: one the safe signal lets through with the
\* side of the order meets the engine's demands, but for the ratio, which only the
\* engine compares; one it turned away meets them never.
SignalChecksAgree ==
    judged.status # "NONE" =>
        LET sig     == SafeSignal(judged.raw, judged.quote)
            reasons == SignalReasons(sig, judged.order)
        IN IF sig.action = judged.order.side /\ sig.action \in OrderSides
           THEN reasons \subseteq {"RISK_REWARD"}
           ELSE reasons # {}

\* The paper manager and the shadow engine: money and positions add up, every order leaves
\* its trace, and nothing is filled that one of the checks in a row should have stopped.
PaperOrdersSound ==
    PaperBooksBalance /\ OrdersAudited /\ FilledOnlyWhenSafe /\ SignalChecksAgree
=============================================================================
