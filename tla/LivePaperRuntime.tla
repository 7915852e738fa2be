-------------------------- MODULE LivePaperRuntime --------------------------
(***************************************************************************)
(* The live paper runtime (runtime/live_paper_engine.py): one object that  *)
(* takes ticks one after the other through the quality check, the candle   *)
(* builder, the exits, the risk monitor and the signal composer to the     *)
(* paper broker, and publishes an event for each thing it does.            *)
(*                                                                         *)
(* on_tick is one action.  The composer is an input: any signal may come   *)
(* out of a finalized candle, with a correlation id that is new or, since  *)
(* a composer can be passed in, one that was used before.  What is kept of *)
(* the event bus, of the audit store subscribed to it and of the counters  *)
(* of the report is how often each thing happened.                         *)
(***************************************************************************)
EXTENDS PaperBroker, MarketDataSpine

CONSTANTS Allowed,          \* allowed_symbols
          Foreign,          \* a symbol that is not allowed
          Feed,             \* ticks the feed may deliver, their time relative to the last
          EntryFrame,       \* index of _entry_timeframe() in Frames
          StopDistance,     \* of the stop a signal carries, 0 for none
          TargetDistance,   \* of its first target, 0 for none
          SessionStart, SquareOffTime, SessionEnd, \* local times of the session
          FirstMinutes,     \* length of the block after SessionStart
          MaxPerSecond,     \* max_ticks_per_second
          ReadyTrades,      \* ready_for_approval_min_trades
          ReadyFactor,      \* ready_for_approval_min_profit_factor, in tenths
          MaxTicks          \* bound: ticks delivered

ASSUME RuntimeAssumption ==
    /\ Foreign \notin Allowed
    /\ EntryFrame \in DOMAIN Frames
    /\ \A f \in DOMAIN Frames : DayLength % Frames[f] = 0 \* as CandleTimeframe.duration does
    /\ SessionStart \in Nat /\ SquareOffTime \in Nat /\ SessionEnd \in Nat
    /\ SessionStart <= SquareOffTime /\ SquareOffTime <= SessionEnd
    /\ SessionEnd < DayLength /\ FirstMinutes \in Nat
    /\ MaxPerSecond \in Nat \ {0} /\ MaxTicks \in Nat
    /\ ReadyTrades \in Nat /\ ReadyFactor \in Nat
    /\ IsFiniteSet(Allowed) /\ StopDistance \in Nat /\ TargetDistance \in Nat
    /\ \A t \in Feed : {t.after, t.price, t.delay} \subseteq Int /\ {t.wide, t.naive} \subseteq BOOLEAN

VARIABLES
  clock,     \* the latest time a tick carried: what the feed measures from
  checker,   \* DataQualityChecker: [last |-> per symbol, seen |-> tick ids]
  forming,   \* CandleBuilder._current: per symbol and timeframe
  completed, \* CandleBuilder._completed: volume and end of the last, per symbol and timeframe
  ordered,   \* _ordered_correlations
  trades,    \* risk_monitor.trades_today
  prices,    \* last_prices
  seconds,   \* _tick_second_counts: the (symbol, second) of every tick, with its count
  tally,     \* the counters of the report
  events     \* event_bus.events and audit_store: how many of each type

runtimeOwn  == <<clock, checker, forming, completed, ordered, trades, prices, seconds,
                 tally, events>>
runtimeVars == <<runtimeOwn, acct>>

Counters   == {"ticks", "finalized", "signals", "blocks", "quality", "errors"}
EventTypes == {"TickReceived", "CandleFinalized", "SignalGenerated", "RiskBlocked",
               "PaperOrderCreated", "PaperOrderFilled", "PaperPositionOpened",
               "PaperPositionClosed", "PaperPnLUpdated", "RuntimeError"}

Day(time)  == time \div DayLength
Hour(time) == time % DayLength

-----------------------------------------------------------------------------
SessionState(time) ==
    CASE Hour(time) < SessionStart   -> "PRE_OPEN"
      [] Hour(time) >= SessionEnd    -> "MARKET_CLOSED"
      [] Hour(time) \in SquareOffTime .. (SessionEnd - 1) -> "SQUARE_OFF"
      [] OTHER                       -> "MARKET_OPEN"

ShouldSquareOff(time) == SessionState(time) = "SQUARE_OFF"

FirstMinutesBlocked(time) ==
    Hour(time) >= SessionStart /\ Hour(time) < SessionStart + FirstMinutes

-----------------------------------------------------------------------------
(* The engine while it works on a tick: e is a record of acct, ordered,    *)
(* trades, tally and events.                                               *)

Emit(e, type, n) == [e EXCEPT !.events[type] = @ + n]

RiskBlock(e) == [Emit(e, "RiskBlocked", 1) EXCEPT !.tally.blocks = @ + 1]

\* Each position an account lost to an exit is published, then the equity.
Closed(e, after) ==
    LET n == Len(after.closed) - Len(e.acct.closed) IN
    [Emit(Emit(e, "PaperPositionClosed", n), "PaperPnLUpdated", n) EXCEPT !.acct = after]

SignalOrder(symbol, sig, close) ==
    LET up == IF sig.side = "BUY" THEN 1 ELSE -1 IN
    [corr |-> sig.corr, symbol |-> symbol, side |-> sig.side, quantity |-> 1, limit |-> 0,
     stop   |-> IF StopDistance = 0 THEN 0 ELSE close - up * StopDistance,
     target |-> IF TargetDistance = 0 THEN 0 ELSE close + up * TargetDistance]

\* Raising would end the tick here and now; FillsArePositions says it never does.
Placed(e, result) ==
    LET f == [e EXCEPT !.acct = result.acct] IN
    CASE result.status = "ORDER_FILLED" ->
             [Emit(Emit(Emit(f, "PaperOrderFilled", 1), "PaperPositionOpened", 1),
                   "PaperPnLUpdated", 1) EXCEPT !.trades = @ + 1]
      [] result.status = "ORDER_REJECTED" -> RiskBlock(f)
      [] OTHER -> [Emit(f, "RuntimeError", 1) EXCEPT !.tally.errors = @ + 1]

Order(e, symbol, sig, close) ==
    Placed([Emit(e, "PaperOrderCreated", 1) EXCEPT !.ordered = @ \cup {sig.corr}],
           PlaceOrder(e.acct, SignalOrder(symbol, sig, close), close))

\* Mutant: no look at the correlation ids that were used.
RouteSignal_Again(e, symbol, sig, close) ==
    LET f == [Emit(e, "SignalGenerated", 1) EXCEPT !.tally.signals = @ + 1] IN
    IF sig.side \in Sides THEN Order(f, symbol, sig, close) ELSE f

RouteSignal(e, symbol, sig, close) ==
    LET f == [Emit(e, "SignalGenerated", 1) EXCEPT !.tally.signals = @ + 1] IN
    IF sig.side \notin Sides THEN f
    ELSE IF sig.corr \in e.ordered THEN RiskBlock(f)
    ELSE Order(f, symbol, sig, close)

GenerateAndRoute(e, symbol, sig, candle, marks) ==
    IF \/ Assess(e.acct, FALSE, FALSE, e.trades, Day(candle.end), marks) # {}
       \/ FirstMinutesBlocked(candle.end)
    THEN RiskBlock(e)
    ELSE RouteSignal(e, symbol, sig, candle.close)

\* One finalized candle: exits first, then an entry if it is of the entry timeframe.
OnCandle(e, symbol, sig, frame, candle, marks) ==
    LET counted == [Emit(e, "CandleFinalized", 1) EXCEPT !.tally.finalized = @ + 1]
        exited  == Closed(counted, CheckExits(e.acct, symbol, candle.high, candle.low,
                                              Day(candle.end)))
    IN IF frame = EntryFrame THEN GenerateAndRoute(exited, symbol, sig, candle, marks)
                             ELSE exited

\* Mutant: the positions to close are those from before the tick's candles.
SquareOff_Snapshot(e, tick, marks) ==
    LET now    == e.acct.open
        before == {i \in DOMAIN now : \E j \in DOMAIN acct.open : acct.open[j].corr = now[i].corr}
    IN IF ShouldSquareOff(tick.time)
       THEN Closed(e, CloseAll(e.acct, [i \in before |-> Mark(now[i], marks)], Day(tick.time)))
       ELSE e

SquareOff(e, tick, marks) ==
    IF ShouldSquareOff(tick.time)
    THEN Closed(e, SquareOffAll(e.acct, marks, Day(tick.time)))
    ELSE e

-----------------------------------------------------------------------------
Engine == [acct |-> acct, ordered |-> ordered, trades |-> trades, tally |-> tally,
           events |-> events]

Becomes(e) == /\ acct' = e.acct /\ ordered' = e.ordered /\ trades' = e.trades
              /\ tally' = e.tally /\ events' = e.events

InSecond(tick) == LET key == <<tick.symbol, tick.time>> IN
                  IF key \in DOMAIN seconds THEN seconds[key] ELSE 0

CountSecond(tick) == LET key == <<tick.symbol, tick.time>> IN
    seconds' = [k \in DOMAIN seconds \cup {key} |->
                    IF k = key THEN InSecond(tick) + 1 ELSE seconds[k]]

Received == [Emit(Engine, "TickReceived", 1) EXCEPT !.tally.ticks = @ + 1]

Blocked(tick) == tick.symbol \notin Allowed \/ InSecond(tick) >= MaxPerSecond

\* The symbol and the rate of ticks are checked before anything is counted.
TickBlocked(tick) ==
    /\ Blocked(tick)
    /\ IF tick.symbol \in Allowed THEN CountSecond(tick) ELSE UNCHANGED seconds
    /\ Becomes(RiskBlock(Engine))
    /\ UNCHANGED <<checker, forming, completed, prices>>

\* A tick the check rejects has set the last price already.  A received_at
\* without a zone makes the check raise after that, before it remembers the tick.
TickRejected(tick) ==
    /\ ~Blocked(tick)
    /\ CountSecond(tick)
    /\ prices' = [prices EXCEPT ![tick.symbol] = tick.price]
    /\ LET reasons == TickReasons(checker.last[tick.symbol], checker.seen, tick)
           fails   == TickValid(tick) /\ tick.naive
       IN /\ fails \/ reasons # {}
          /\ IF fails
             THEN /\ Becomes([Emit(Received, "RuntimeError", 1) EXCEPT !.tally.errors = @ + 1])
                  /\ UNCHANGED checker
             ELSE /\ Becomes([RiskBlock(Received) EXCEPT !.tally.quality = @ + 1])
                  /\ checker' = [last |-> [checker.last EXCEPT ![tick.symbol] =
                                               Remembered(@, tick)],
                                 seen |-> SeenIds(checker.seen, tick)]
    /\ UNCHANGED <<forming, completed>>

\* The loop over the candles that the tick completes, in the order of the timeframes.
HandleFrame(tick, sig, marks, n, e) ==
    IF Completes(forming[tick.symbol][n], tick)
    THEN OnCandle(e, tick.symbol, sig, n, forming[tick.symbol][n], marks)
    ELSE e

AfterCandles(tick, sig, marks) ==
    LET after[n \in 0 .. Len(Frames)] ==
            IF n = 0 THEN Received ELSE HandleFrame(tick, sig, marks, n, after[n - 1])
    IN after[Len(Frames)]

TickAccepted(tick, sig) ==
    LET s     == tick.symbol
        marks == [prices EXCEPT ![s] = tick.price]
    IN
    /\ ~Blocked(tick)
    /\ ~tick.naive
    /\ TickReasons(checker.last[s], checker.seen, tick) = {}
    /\ CountSecond(tick)
    /\ prices' = marks
    /\ checker' = [last |-> [checker.last EXCEPT ![s] = Remembered(@, tick)],
                   seen |-> SeenIds(checker.seen, tick)]
    /\ forming' = [forming EXCEPT ![s] = Forming(@, tick)]
    /\ completed' = [completed EXCEPT ![s] =
           [f \in DOMAIN Frames |->
               IF Completes(forming[s][f], tick)
               THEN [volume |-> @[f].volume + forming[s][f].volume, end |-> forming[s][f].end]
               ELSE @[f]]]
    /\ Becomes(SquareOff(AfterCandles(tick, sig, marks), tick, marks))

-----------------------------------------------------------------------------
ProfitOf(Test(_)) ==
    FoldLeft(LAMBDA sum, c : IF Test(c.pnl) THEN sum + c.pnl ELSE sum, 0, acct.closed)

\* profit_factor is infinite with a profit and no loss, zero with neither.
Profitable == LET gain == ProfitOf(LAMBDA pnl : pnl > 0)
                  loss == 0 - ProfitOf(LAMBDA pnl : pnl < 0)
              IN IF loss = 0 THEN gain > 0 \/ ReadyFactor = 0
                             ELSE gain * 10 >= ReadyFactor * loss

Recommendation ==
    IF tally.errors > 0 THEN "FAIL"
    ELSE IF Len(acct.closed) >= ReadyTrades /\ Profitable THEN "READY_FOR_APPROVAL_MODE"
    ELSE "CONTINUE_PAPER"

\* build_report: read at any moment, it changes nothing.
Report ==
    [ticks |-> tally.ticks, finalized |-> tally.finalized, signals |-> tally.signals,
     orders |-> SumFunction(acct.book), fills |-> acct.book["ORDER_FILLED"],
     open |-> Len(acct.open), closed |-> Len(acct.closed),
     realized |-> RealizedPnl(acct), equity |-> TotalEquity(acct, prices),
     blocks |-> tally.blocks, quality |-> tally.quality, errors |-> tally.errors,
     recommendation |-> Recommendation]

-----------------------------------------------------------------------------
Signals == [side : Sides \cup {"HOLD"}, corr : ordered \cup {Cardinality(ordered) + 1}]

OnTick ==
    \E t \in Feed, s \in Allowed \cup {Foreign} :
        LET tick == [symbol |-> s, time |-> clock + t.after, price |-> t.price,
                     quantity |-> 1, id |-> t.id, received |-> clock + t.after + t.delay,
                     wide |-> t.wide, naive |-> t.naive]
        IN /\ tick.time >= 0
           /\ SumFunction(seconds) + events["RiskBlocked"] < MaxTicks
           /\ clock' = Max({clock, tick.time})
           /\ \/ TickBlocked(tick)
              \/ TickRejected(tick)
              \/ \E sig \in Signals : TickAccepted(tick, sig)

RuntimeInit ==
    /\ clock = SessionStart
    /\ checker = [last |-> [s \in Allowed |-> NoTick], seen |-> {}]
    /\ forming = [s \in Allowed |-> [f \in DOMAIN Frames |-> NoCandle]]
    /\ completed = [s \in Allowed |-> [f \in DOMAIN Frames |-> [volume |-> 0, end |-> 0]]]
    /\ ordered = {} /\ trades = 0
    /\ prices = [s \in Allowed |-> 0]
    /\ seconds = <<>>
    /\ tally = [c \in Counters |-> 0]
    /\ events = [e \in EventTypes |-> 0]
    /\ BrokerInit

RuntimeNext == OnTick
RuntimeSpec == RuntimeInit /\ [][RuntimeNext]_runtimeVars

-----------------------------------------------------------------------------
RuntimeTypeOK ==
    /\ clock \in Nat /\ trades \in Nat /\ ordered \subseteq Nat \ {0}
    /\ \A s \in Allowed :
          /\ prices[s] \in Int
          /\ \A f \in DOMAIN Frames :
                LET c == forming[s][f] IN
                c # NoCandle => /\ c.end = c.start + Frames[f]
                                /\ {c.open, c.close} \subseteq c.low .. c.high
    /\ tally \in [Counters -> Nat] /\ events \in [EventTypes -> Nat]
    /\ \A k \in DOMAIN seconds : seconds[k] \in 1 .. MaxTicks
    /\ DOMAIN acct.book = OrderStates

\* A fill opens exactly one position and counts as one trade, whatever the
\* composer's correlation ids: the charge of place_order is never taken for a
\* position the portfolio then refuses.
FillsArePositions ==
    LET held   == [i \in DOMAIN acct.open |-> acct.open[i].corr]
        gone   == [i \in DOMAIN acct.closed |-> acct.closed[i].corr]
        filled == acct.book["ORDER_FILLED"]
    IN /\ filled = trades
       /\ filled = Len(held) + Len(gone)
       /\ IsInjective(held \o gone) /\ Range(held \o gone) \subseteq ordered

\* The report's counters, the order book and the portfolio agree with the audit
\* trail at every moment, after any mix of accepted, rejected and blocked ticks.
ReportMatchesAudit ==
    /\ Report.ticks = events["TickReceived"] /\ Report.finalized = events["CandleFinalized"]
    /\ Report.signals = events["SignalGenerated"] /\ Report.blocks = events["RiskBlocked"]
    /\ Report.errors = events["RuntimeError"]
    /\ Report.orders = events["PaperOrderCreated"] /\ Report.orders = Cardinality(ordered)
    /\ Report.fills = events["PaperOrderFilled"] /\ Report.fills = events["PaperPositionOpened"]
    /\ Report.fills = Report.open + Report.closed
    /\ Report.closed = events["PaperPositionClosed"]
    /\ Report.fills + Report.closed = events["PaperPnLUpdated"]
    /\ Report.recommendation = "FAIL" <=> events["RuntimeError"] > 0

\* Every accepted tick's volume is in exactly one candle of each timeframe, and
\* no rejected tick's is: late ticks, gaps and new days lose or repeat nothing.
VolumeConserved ==
    \A f \in DOMAIN Frames :
        SumFunction([s \in Allowed |-> completed[s][f].volume + forming[s][f].volume])
            = tally.ticks - tally.quality - tally.errors

\* Candles of a timeframe never overlap: what is forming starts at or after the
\* end of what was finalized, even after ticks out of order.
CandlesNeverOverlap ==
    \A s \in Allowed, f \in DOMAIN Frames :
        forming[s][f] # NoCandle => forming[s][f].start >= completed[s][f].end

\* The runtime's books: each order was asked for by one signal and is in the audit trail
\* and in the report once; each accepted tick's volume is in one candle of every
\* timeframe, and the candles never overlap.
RuntimeSound == /\ RuntimeTypeOK /\ CashExplained /\ FillsArePositions /\ ReportMatchesAudit
                /\ VolumeConserved /\ CandlesNeverOverlap

\* A tick accepted in the square-off window leaves no position open, not even the
\* one its own candle opened.
SquareOffLeavesNothing ==
    [][\A s \in Allowed :
          forming'[s] # forming[s] /\ ShouldSquareOff(checker'.last[s].time)
              => acct'.open = <<>>]_runtimeVars
=============================================================================
