----------------------------- MODULE PaperBroker -----------------------------
(***************************************************************************)
(* The virtual broker of the paper runtime (paper_trading/): PaperBroker   *)
(* fills orders into a PaperPortfolio, PaperRiskMonitor decides whether    *)
(* another entry is allowed.  Handlers are operators from an account to an *)
(* account; prices are integers, a stop or target of 0 is None, percent-   *)
(* age limits of the capital are given as amounts.                         *)
(***************************************************************************)
EXTENDS Integers, Sequences, FiniteSets, SequencesExt, Functions

CONSTANTS StartCapital,     \* initial_capital
          Brokerage,        \* brokerage_per_order
          SlippagePercent,  \* slippage_percent, a whole number here
          MaxOpenPositions, \* max_open_positions
          MaxTradesPerDay,  \* max_trades_per_day
          MaxDailyLoss,     \* initial_capital * max_daily_loss_percent / 100
          MaxExposure,      \* initial_capital * max_exposure_percent / 100
          Orders,           \* orders a caller of the broker may place
          OrderPrices,      \* market prices at which it places them
          MaxBookLength     \* bound: orders placed

ASSUME BrokerAssumption ==
    /\ StartCapital \in Nat /\ Brokerage \in Nat /\ SlippagePercent \in Nat
    /\ MaxOpenPositions \in Nat /\ MaxTradesPerDay \in Nat
    /\ MaxDailyLoss \in Nat /\ MaxExposure \in Nat /\ MaxBookLength \in Nat
    /\ \A o \in Orders : {o.quantity, o.stop, o.target} \subseteq Int
    /\ OrderPrices \subseteq Int

VARIABLE acct \* [cash, open, closed, book]: PaperPortfolio and the order book

Sides       == {"BUY", "SELL"}
OrderStates == {"ORDER_FILLED", "ORDER_OPEN", "ORDER_REJECTED"}

NewAccount == [cash   |-> StartCapital,
               open   |-> <<>>, \* positions in the order they were opened
               closed |-> <<>>,
               book   |-> [s \in OrderStates |-> 0]] \* results per status

-----------------------------------------------------------------------------
\* Bad for the trader both ways: a buyer pays more, a seller gets less.
FillPrice(price, side, entry) ==
    LET slippage == (price * SlippagePercent) \div 100 IN
    IF (side = "BUY") <=> entry THEN price + slippage ELSE price - slippage

Gross(p, exit) == IF p.side = "BUY" THEN (exit - p.entry) * p.quantity
                                    ELSE (p.entry - exit) * p.quantity

RealizedPnl(a) == SumFunction([i \in DOMAIN a.closed |-> a.closed[i].pnl])

DailyPnl(a, day) ==
    FoldLeft(LAMBDA sum, c : IF c.day = day THEN sum + c.pnl ELSE sum, 0, a.closed)

\* prices[s] = 0: no price seen, the entry price stands in.
Mark(p, prices) == IF prices[p.symbol] = 0 THEN p.entry ELSE prices[p.symbol]

UnrealizedPnl(a, prices) ==
    FoldLeft(LAMBDA sum, p : sum + Gross(p, Mark(p, prices)), 0, a.open)

TotalEquity(a, prices) == a.cash + UnrealizedPnl(a, prices)

Exposure(a, prices) ==
    FoldLeft(LAMBDA sum, p : sum + Mark(p, prices) * p.quantity, 0, a.open)

CanOpen(a) == Len(a.open) < MaxOpenPositions

-----------------------------------------------------------------------------
Entered(a, status) == [a EXCEPT !.book[status] = @ + 1]

Holds(a, corr) == \E i \in DOMAIN a.open : a.open[i].corr = corr

Marketable(o, price) ==
    \/ o.limit = 0
    \/ o.side = "BUY" /\ price <= o.limit
    \/ o.side = "SELL" /\ price >= o.limit

\* The charge and the book entry come before the portfolio is asked: for a
\* correlation id it holds already, open_position raises with both in place.
Fill(a, o, price) ==
    LET charged == [Entered(a, "ORDER_FILLED") EXCEPT !.cash = @ - Brokerage] IN
    IF Holds(a, o.corr)
    THEN [acct |-> charged, status |-> "RAISED"]
    ELSE [acct |-> [charged EXCEPT !.open = Append(@,
                       [corr |-> o.corr, symbol |-> o.symbol, side |-> o.side,
                        quantity |-> o.quantity, stop |-> o.stop, target |-> o.target,
                        entry |-> FillPrice(price, o.side, TRUE)])],
          status |-> "ORDER_FILLED"]

Refused(a, o) == o.quantity <= 0 \/ ~CanOpen(a) \/ o.side \notin Sides

PlaceOrder(a, o, price) ==
    IF Refused(a, o)
    THEN [acct |-> Entered(a, "ORDER_REJECTED"), status |-> "ORDER_REJECTED"]
    ELSE IF ~Marketable(o, price)
         THEN [acct |-> Entered(a, "ORDER_OPEN"), status |-> "ORDER_OPEN"]
         ELSE Fill(a, o, price)

\* The open positions are a dict by correlation id: one entry is popped.
Popped(open, corr) == RemoveAt(open, CHOOSE i \in DOMAIN open : open[i].corr = corr)

\* Mutant: the charge of an exit is in the profit and not in the cash.
ClosePosition_NoCharge(a, p, price, day) ==
    LET gross == Gross(p, FillPrice(price, p.side, FALSE)) IN
    [a EXCEPT !.open   = Popped(@, p.corr),
              !.closed = Append(@, [corr |-> p.corr, day |-> day, pnl |-> gross - Brokerage]),
              !.cash   = @ + gross]

ClosePosition(a, p, price, day) ==
    LET pnl == Gross(p, FillPrice(price, p.side, FALSE)) - Brokerage IN
    [a EXCEPT !.open   = Popped(@, p.corr),
              !.closed = Append(@, [corr |-> p.corr, day |-> day, pnl |-> pnl]),
              !.cash   = @ + pnl]

\* The loop over the positions that were open: `exits' has the price of each that leaves.
CloseOne(a, exits, day, n, b) ==
    IF n \in DOMAIN exits THEN ClosePosition(b, a.open[n], exits[n], day) ELSE b

CloseAll(a, exits, day) ==
    LET after[n \in 0 .. Len(a.open)] ==
            IF n = 0 THEN a ELSE CloseOne(a, exits, day, n, after[n - 1])
    IN after[Len(a.open)]

Stopped(p, high, low) ==
    p.stop # 0 /\ IF p.side = "BUY" THEN low <= p.stop ELSE high >= p.stop

Reached(p, high, low) ==
    p.target # 0 /\ IF p.side = "BUY" THEN high >= p.target ELSE low <= p.target

\* A candle that touches both is taken to have touched the stop first.
CheckExits(a, symbol, high, low, day) ==
    LET leaving == {i \in DOMAIN a.open :
                      /\ a.open[i].symbol = symbol
                      /\ Stopped(a.open[i], high, low) \/ Reached(a.open[i], high, low)}
    IN CloseAll(a, [i \in leaving |-> IF Stopped(a.open[i], high, low)
                                      THEN a.open[i].stop ELSE a.open[i].target], day)

SquareOffAll(a, prices, day) ==
    CloseAll(a, [i \in DOMAIN a.open |-> Mark(a.open[i], prices)], day)

-----------------------------------------------------------------------------
\* PaperRiskMonitor.assess, as the set of its reasons.
Assess(a, kill, stale, trades, day, prices) ==
    {r \in {"kill switch active"} : kill}
    \cup {r \in {"stale data block"} : stale}
    \cup {r \in {"daily loss limit hit"} :
            DailyPnl(a, day) <= 0 - MaxDailyLoss \/ MaxDailyLoss = 0}
    \cup {r \in {"max trades per day hit"} : trades >= MaxTradesPerDay}
    \cup {r \in {"max open positions hit"} : Len(a.open) >= MaxOpenPositions}
    \cup {r \in {"max exposure hit"} : Exposure(a, prices) > MaxExposure}

-----------------------------------------------------------------------------
(* The broker on its own, called with any order, candle or price.          *)

CallPlaceOrder ==
    \E o \in Orders, price \in OrderPrices :
        /\ SumFunction(acct.book) < MaxBookLength
        /\ acct' = PlaceOrder(acct, o, price).acct

CallCheckExits ==
    \E o \in Orders, low, high \in OrderPrices :
        /\ low <= high
        /\ acct' = CheckExits(acct, o.symbol, high, low, 0)

CallSquareOff ==
    \E price \in OrderPrices :
        acct' = SquareOffAll(acct, [s \in {o.symbol : o \in Orders} |-> price], 0)

BrokerInit == acct = NewAccount
BrokerNext == CallPlaceOrder \/ CallCheckExits \/ CallSquareOff
BrokerSpec == BrokerInit /\ [][BrokerNext]_acct

-----------------------------------------------------------------------------
\* Whatever is asked in whatever order, the cash is the capital with every
\* closed profit and the charge of every fill: no exit, rejection or resting
\* order moves money, and realized_pnl leaves only the entry charges out.
CashExplained ==
    acct.cash = StartCapital + RealizedPnl(acct) - Brokerage * acct.book["ORDER_FILLED"]

\* Resting, rejected and closed orders leave no position behind, and the limit
\* on open positions holds through fills, exits and square-offs.
PositionsBounded ==
    /\ Len(acct.open) <= MaxOpenPositions
    /\ IsInjective([i \in DOMAIN acct.open |-> acct.open[i].corr])
    /\ Len(acct.open) + Len(acct.closed) <= acct.book["ORDER_FILLED"]

\* The account of a broker called on its own, with any orders, candles and prices: its
\* cash is explained by what was closed and charged, its positions by its fills.
AccountSound == CashExplained /\ PositionsBounded
=============================================================================
