------------------------------ MODULE LiveSignal ------------------------------
(***************************************************************************)
(* The strict live signal engine (live_signal_engine.py): three time       *)
(* frames' readings become a direction, a regime and a score, these a      *)
(* decision with its levels, and the accuracy report counts the rows of a  *)
(* trade history.                                                          *)
(*                                                                         *)
(* What the averages of a series of candles come to is an input, a         *)
(* reading: the signs of the two averages' and the price's differences     *)
(* (ema, vwap), whether the prices stay in the sideways band (flat),       *)
(* volume against its mean, the RSI in points, the ATR and the distances   *)
(* to the extremes (up, down) in the unit of the price.                    *)
(***************************************************************************)
EXTENDS Integers, Sequences, FiniteSets, FiniteSetsExt, Functions

CONSTANTS FrameSets,   \* [primary, confirmation, trend], the last two perhaps NotGiven
          NotGiven,
          LastClose,   \* the primary frame's last close
          Outcomes,    \* profits and losses noted for a signal later, NoOutcome among them
          NoOutcome,
          MaxRows      \* bound: rows of the history

\* What the engine can measure of a time frame.
Measured == [candles : Nat, ema : -1 .. 1, vwap : -1 .. 1, flat : BOOLEAN, volume : BOOLEAN,
             rsi : Int, atr : Nat, up : Int, down : Int]

\* Prices are counted in ticks, and a price is more than a few of them.
ASSUME LiveAssumption ==
    /\ LastClose \in Nat /\ LastClose > 3
    /\ NotGiven \notin Measured
    /\ FrameSets \subseteq [primary : Measured, confirmation : Measured \cup {NotGiven},
                            trend : Measured \cup {NotGiven}]
    /\ NoOutcome \notin Int /\ Outcomes \subseteq Int \cup {NoOutcome}

VARIABLES live,   \* the last frames and their signal
          rows    \* the history the report is asked for: [decision, pnl]

liveVars == <<live, rows>>

-----------------------------------------------------------------------------
\* _analyze_timeframe's direction
Trend(t) ==
    IF t.flat THEN "SIDEWAYS" ELSE IF t.ema > 0 /\ t.vwap > 0 THEN "BULLISH"
    ELSE IF t.ema < 0 /\ t.vwap < 0 THEN "BEARISH" ELSE "SIDEWAYS"

Directed == {"BULLISH", "BEARISH"}

RsiOk(t) ==
    \/ Trend(t) = "BULLISH" /\ t.rsi \in 45 .. 68
    \/ Trend(t) = "BEARISH" /\ t.rsi \in 32 .. 55

AtrOk(t) == t.atr * 10000 >= 5 * LastClose /\ t.atr * 1000 <= 35 * LastClose

\* _market_regime: of the primary frame alone but for the directions.
MarketRegime(p, c, t) ==
    IF ~p.volume THEN "LOW_VOLUME"
    ELSE IF p.atr * 1000 > 35 * LastClose THEN "HIGH_VOLATILITY"
    ELSE CASE {Trend(p), Trend(c), Trend(t)} = {"BULLISH"} -> "TRENDING_UP"
           [] {Trend(p), Trend(c), Trend(t)} = {"BEARISH"} -> "TRENDING_DOWN"
           [] OTHER -> "SIDEWAYS"

\* Room of more than an ATR to the extreme ahead; without a direction none is asked for.
HasRoom(p) ==
    CASE Trend(p) = "BULLISH" -> p.up > p.atr
      [] Trend(p) = "BEARISH" -> p.down > p.atr
      [] OTHER -> TRUE

Points(n, condition) == IF condition THEN n ELSE 0

\* A frame that is not given is the primary one again.
Confirming(f) == IF f.confirmation = NotGiven THEN f.primary ELSE f.confirmation
Trending(f)   == IF f.trend = NotGiven THEN Confirming(f) ELSE f.trend

NoSignal == [decision |-> "DATA_UNAVAILABLE", score |-> 0, levels |-> <<>>, regime |-> "unknown"]

Levels(decision, atr) ==
    LET s == IF decision = "BUY" THEN 1 ELSE -1
    IN [stop |-> LastClose - s * atr, first |-> LastClose + 2 * s * atr,
        second |-> LastClose + 3 * s * atr]

\* signal_from_candles
SignalOf(f) ==
    LET p == f.primary
        c == Confirming(f)
        t == Trending(f)
        regime  == MarketRegime(p, c, t)
        aligned == Trend(p) \in Directed /\ Trend(c) = Trend(p) /\ Trend(t) = Trend(p)
        score   == Points(25, aligned) + Points(15, regime \in {"TRENDING_UP", "TRENDING_DOWN"})
                     + Points(10, Trend(p) \in Directed /\ HasRoom(p))
                     + Points(22, Trend(p) \in Directed)
                     + Points(10, RsiOk(p)) + Points(8, AtrOk(p)) + Points(10, p.volume)
        strict  == /\ aligned /\ HasRoom(p) /\ p.volume /\ score >= 75
                   /\ regime \notin {"SIDEWAYS", "LOW_VOLUME", "HIGH_VOLATILITY"}
        decision == IF strict THEN (IF Trend(p) = "BULLISH" THEN "BUY" ELSE "SELL")
                    ELSE IF score \in 55 .. 74 /\ aligned THEN "HOLD" ELSE "NO_TRADE"
    IN IF \E frame \in {p, c, t} : frame.candles < 21 THEN NoSignal
       ELSE [decision |-> decision, score |-> Min({100, score}), regime |-> regime,
             levels |-> IF strict THEN Levels(decision, Max({p.atr, 1})) ELSE <<>>]

-----------------------------------------------------------------------------
Known(rs) == {i \in DOMAIN rs : rs[i].pnl # NoOutcome}

\* A row nothing is known of changes no equity.
Gain(row) == IF row.pnl = NoOutcome THEN 0 ELSE row.pnl

\* _max_drawdown
DeepestFall(rs) ==
    LET run[n \in 0 .. Len(rs)] ==
            IF n = 0 THEN [equity |-> 0, peak |-> 0, fall |-> 0]
            ELSE LET equity == run[n - 1].equity + Gain(rs[n])
                     peak   == Max({run[n - 1].peak, equity})
                 IN [equity |-> equity, peak |-> peak,
                     fall |-> Max({run[n - 1].fall, peak - equity})]
    IN run[Len(rs)].fall

\* accuracy_report: the rate in percent, the factor as a pair, "INF" where nothing was lost.
Accuracy(rs) ==
    LET known == Known(rs)
        won   == {i \in known : rs[i].pnl > 0}
        lost  == {i \in known : rs[i].pnl < 0}
        sum(S) == SumFunction([i \in S |-> rs[i].pnl])
        of(d)  == Cardinality({i \in DOMAIN rs : rs[i].decision = d})
    IN [total |-> Len(rs), buy |-> of("BUY"), sell |-> of("SELL"), none |-> of("NO_TRADE"),
        rate |-> IF known = {} THEN "DATA_UNAVAILABLE"
                 ELSE (Cardinality(won) * 100) \div Cardinality(known),
        factor |-> IF lost # {} THEN <<sum(won), 0 - sum(lost)>>
                   ELSE IF won # {} THEN "INF" ELSE "DATA_UNAVAILABLE",
        fall |-> IF known = {} THEN "DATA_UNAVAILABLE" ELSE DeepestFall(rs),
        status |-> IF known = {} THEN "DATA_UNAVAILABLE" ELSE "VALIDATED"]

-----------------------------------------------------------------------------
LiveInit == live = <<>> /\ rows = <<>>

AskSignal ==
    /\ live = <<>> /\ rows = <<>>
    /\ \E f \in FrameSets : live' = [frames |-> f, signal |-> SignalOf(f)]
    /\ UNCHANGED rows

\* The caller keeps the signal in its history, with what came of it when that is known.
KeepSignal ==
    /\ live = <<>> /\ Len(rows) < MaxRows
    /\ \E d \in {"BUY", "SELL", "HOLD", "NO_TRADE"}, x \in Outcomes :
          /\ d \in {"HOLD", "NO_TRADE"} => x = NoOutcome
          /\ rows' = Append(rows, [decision |-> d, pnl |-> x])
    /\ UNCHANGED live

-----------------------------------------------------------------------------
Traded == live # <<>> /\ live.signal.decision \in {"BUY", "SELL"}

\* Levels come with a trade and only with one: positive prices, the stop behind the price
\* and the targets ahead of it, the first at twice the stop's distance; in a market so
\* volatile that three ATRs exceed the price nothing is traded.
LevelsSound ==
    live # <<>> =>
        LET l == live.signal.levels
            s == IF live.signal.decision = "BUY" THEN 1 ELSE -1
        IN /\ Traded <=> l # <<>>
           /\ Traded => /\ l.stop > 0 /\ l.first > 0 /\ l.second > 0
                        /\ s * (LastClose - l.stop) > 0 /\ s * (l.second - l.first) > 0
                        /\ l.first - LastClose = 2 * (LastClose - l.stop)

\* The market turned upside down.
Mirror(t) ==
    IF t = NotGiven THEN t
    ELSE [t EXCEPT !.ema = -@, !.vwap = -@, !.rsi = 100 - @, !.up = t.down, !.down = t.up]

\* The engine has no preferred side: the market turned upside down gives the opposite
\* trade with the same score.
SignalMirrors ==
    live # <<>> =>
        LET f     == live.frames
            other == SignalOf([primary |-> Mirror(f.primary),
                               confirmation |-> Mirror(f.confirmation), trend |-> Mirror(f.trend)])
            turned(d) == IF d = "BUY" THEN "SELL" ELSE IF d = "SELL" THEN "BUY" ELSE d
        IN other.decision = turned(live.signal.decision) /\ other.score = live.signal.score

\* The averages of every frame and the price's side of every VWAP agree with a trade.
TradesAreConfirmed ==
    Traded =>
        \A t \in {live.frames.primary, Confirming(live.frames), Trending(live.frames)} :
            LET s == IF live.signal.decision = "BUY" THEN 1 ELSE -1
            IN t.ema = s /\ t.vwap = s /\ ~t.flat /\ t.candles >= 21

\* The report's largest fall is the largest sum lost over consecutive known outcomes, and
\* it is validated only when some outcome is known.
ReportIsHonest ==
    LET part(i, j) == SumFunction([k \in i .. j |-> Gain(rows[k])])
        a == Accuracy(rows)
    IN /\ a.status = "VALIDATED" <=> Known(rows) # {}
       /\ Known(rows) # {} =>
             a.fall = Max({0} \cup {0 - part(i, j) : i, j \in DOMAIN rows})
       /\ a.buy + a.sell + a.none <= a.total
=============================================================================
