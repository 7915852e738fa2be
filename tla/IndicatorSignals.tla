--------------------------- MODULE IndicatorSignals ---------------------------
(***************************************************************************)
(* IndicatorSignalComposer (alpha_gate_x_indicators.py): the scores of six *)
(* indicators, some of them unavailable, are handed to the engine of       *)
(* AlphaGateX, whose signal is then downgraded, graded and given levels.   *)
(*                                                                         *)
(* Scores are tenths, confidence ten-thousandths; the final score is       *)
(* AlphaGateX's, in thousandths.  The indicators of indicators/ are        *)
(* functions of charts, books and counts, measured on their own; an EMA is *)
(* an input of the trend, and lengths of windows are constants.            *)
(***************************************************************************)
EXTENDS AlphaGateX

CONSTANTS Compositions,   \* [scores, unavailable, danger, atr, close, quality, early, status]
          Snapshots,      \* market breadth: [advancing, declining, unchanged]
          OrderBooks,     \* depth: [bid, ask, spread], the spread in basis points
          Charts,         \* sequences of [open, high, low, close, volume, complete]
          TrendReadings,  \* [fast, before, slow, atrp, last, previous]: averages and candles
          Lookback,       \* candles a sweep is compared with, and a volume averaged over
          VwapPeriod      \* candles the volume of the VWAP pressure is averaged over

Prices == [open : Nat \ {0}, high : Nat \ {0}, low : Nat \ {0}, close : Nat \ {0}]

ChartCandles == [open : Nat \ {0}, high : Nat \ {0}, low : Nat \ {0}, close : Nat \ {0},
                 volume : Nat, complete : BOOLEAN]

\* Inputs are numbers, prices positive (OHLCVCandle.validate), and windows are not empty.
ASSUME IndicatorAssumption ==
    /\ Lookback \in Nat \ {0} /\ VwapPeriod \in Nat \ {0}
    /\ \A c \in Compositions :
          /\ c.scores \in [FactorNames -> Int] /\ c.unavailable \subseteq FactorNames
          /\ c.danger \in BOOLEAN /\ c.early \in BOOLEAN /\ c.atr \in Int /\ c.close \in Int
          /\ c.quality \in {"OK", "NONE", "FAIL", "DATA_UNAVAILABLE"}
    /\ Snapshots \subseteq [advancing : Nat, declining : Nat, unchanged : Nat]
    /\ OrderBooks \subseteq [bid : Nat, ask : Nat, spread : Int]
    /\ \A c \in Charts : c \in Seq(ChartCandles) /\ c # <<>>
    /\ TrendReadings \subseteq [fast : Int, before : Int, slow : Int, atrp : Int,
                                last : Prices, previous : Prices]

VARIABLES composed,   \* the last composition and its IndicatorSignalOutput
          gauge       \* the last breadth, depth, chart or trend scored

indicatorVars == <<composed, gauge>>

Critical == {"trend_regime", "vwap_pressure", "volume_confirmation"}

\* The score of an indicator without data, outside every score's range.
Unavailable == 1000

Lesser(a, b) == IF a < b THEN a ELSE b

AbsScore(n) == IF n < 0 THEN -n ELSE n

\* An unavailable indicator scores 0, one in danger -1.
ComponentScores(c) ==
    [n \in DOMAIN Weights |->
        IF n \in c.unavailable THEN 0
        ELSE IF n = "trend_regime" /\ c.danger THEN -10 ELSE c.scores[n]]

InDanger(c) == c.danger /\ "trend_regime" \notin c.unavailable

DataBlocked(c) == c.quality \in {"FAIL", "DATA_UNAVAILABLE"}

\* Mutant: bad data is noted and the gate's answer kept.
ComposedRisk_Noted(c) == IF c.early THEN "FAIL" ELSE c.status

\* The risk decision handed on: bad data and the first five minutes refuse.
ComposedRisk(c) == IF DataBlocked(c) \/ c.early THEN "FAIL" ELSE c.status

EngineConfidence(c) == AbsScore(FinalScore(ComponentScores(c))) * 10

\* Without a critical indicator, or without any other and below four fifths, no trade.
Downgraded(c, side) ==
    IF /\ side \in {"BUY", "SELL"}
       /\ \/ c.unavailable \cap Critical # {}
          \/ c.unavailable # {} /\ EngineConfidence(c) < 8000
    THEN "HOLD" ELSE side

\* _confidence
ComposedConfidence(c) ==
    LET n    == Cardinality(c.unavailable)
        less == (EngineConfidence(c) * (10 - n)) \div 10
        half == IF c.unavailable \cap Critical # {} THEN less \div 2 ELSE less
    IN IF DataBlocked(c) \/ InDanger(c) THEN Lesser(half, 2000) ELSE half

Grade(confidence) ==
    IF confidence >= 8000 THEN "A" ELSE IF confidence >= 6500 THEN "B"
    ELSE IF confidence >= 5000 THEN "C" ELSE "D"

\* atr_stop_loss and atr_targets
AtrLevels(side, close, atr) ==
    LET s == IF side = "BUY" THEN 1 ELSE -1
    IN [stop |-> close - s * ((atr * 3) \div 2), first |-> close + s * atr * 2,
        second |-> close + s * atr * 3]

\* _compose; an ATR of -1 is unavailable, a close of 0 no candle.
Composed(c) ==
    LET regime == IF InDanger(c) THEN "DANGER" ELSE "NEUTRAL"
        side   == Downgraded(c, EngineSignal(ComponentScores(c), ComposedRisk(c), regime))
    IN [side |-> side, status |-> ComposedRisk(c), confidence |-> ComposedConfidence(c),
        grade |-> Grade(ComposedConfidence(c)),
        levels |-> IF c.close > 0 /\ c.atr >= 0 /\ side \in {"BUY", "SELL"}
                   THEN AtrLevels(side, c.close, c.atr) ELSE <<>>]

\* atr_stop_loss raises on an ATR of zero, so nothing is composed of it.
ComposeRaises(c) == Composed(c).levels # <<>> /\ c.atr = 0

\* market_breadth_score, in tenths: unavailable without a sample.
BreadthScore(s) ==
    LET total == s.advancing + s.declining + s.unchanged
    IN IF total = 0 THEN Unavailable
       ELSE LET gap == s.advancing - s.declining
            IN IF gap >= 0 THEN (gap * 10) \div total ELSE 0 - ((-gap * 10) \div total)

\* order_book_imbalance_score, in hundredths: halved when the spread is wide.
PressureScore(b) ==
    IF b.bid + b.ask = 0 THEN Unavailable
    ELSE LET gap  == b.bid - b.ask
             size == (AbsScore(gap) * 100) \div ((b.bid + b.ask) * (IF b.spread > 15 THEN 2 ELSE 1))
         IN IF gap >= 0 THEN size ELSE -size

-----------------------------------------------------------------------------
\* The candles of a chart that are complete.
Complete(chart) ==
    LET upTo[n \in 0 .. Len(chart)] ==
            IF n = 0 THEN <<>>
            ELSE IF chart[n].complete THEN Append(upTo[n - 1], chart[n]) ELSE upTo[n - 1]
    IN upTo[Len(chart)]

\* The candles of a chart before its last, at most Lookback of them.
Before(chart) == {chart[i] : i \in Len(chart) - Lookback .. Len(chart) - 1}

\* liquidity_sweep_score, in tenths: the sweep of the low is looked for first.
SweepScore(chart) ==
    LET c == Complete(chart)
    IN IF Len(c) <= Lookback THEN Unavailable
       ELSE LET last == c[Len(c)]
                top  == Max({b.high : b \in Before(c)})
                low  == Min({b.low : b \in Before(c)})
            IN IF last.low < low /\ last.close > low THEN 8
               ELSE IF last.high > top /\ last.close < top THEN -8
               ELSE IF last.high > top /\ last.close <= last.open THEN -5
               ELSE IF last.low < low /\ last.close >= last.open THEN 5 ELSE 0

VolumeOf(chart, from) == SumFunction([i \in from .. Len(chart) |-> chart[i].volume])

\* Three times the turnover: a typical price is a third of high, low and close.
TurnoverOf(chart) ==
    SumFunction([i \in DOMAIN chart |->
                   (chart[i].high + chart[i].low + chart[i].close) * chart[i].volume])

\* vwap_pressure_score, in hundredths: the distance to the VWAP in hundredths of a per cent,
\* at most one per cent, weighted by half the volume ratio, never less than a quarter.
VwapScore(chart) ==
    LET c == Complete(chart)
    IN IF Len(c) < VwapPeriod \/ VolumeOf(c, 1) = 0 THEN Unavailable
       ELSE LET last   == c[Len(c)]
                off    == 3 * last.close * VolumeOf(c, 1) - TurnoverOf(c)
                far    == (AbsScore(off) * 10000) \div TurnoverOf(c)
                recent == VolumeOf(c, Len(c) - VwapPeriod + 1)
                ratio  == IF recent = 0 THEN 0 ELSE (50 * last.volume * VwapPeriod) \div recent
                boost  == IF ratio < 25 THEN 25 ELSE Lesser(100, ratio)
                size   == (Lesser(100, far) * boost) \div 100
            IN IF far < 5 THEN 0 ELSE IF off > 0 THEN size ELSE -size

\* volume_confirmation_score, in hundredths: what exceeds the average of the candles before.
VolumeScore(chart) ==
    LET c == Complete(chart)
    IN IF Len(c) <= Lookback THEN Unavailable
       ELSE LET last == c[Len(c)]
                past == VolumeOf(c, Len(c) - Lookback) - last.volume
                over == last.volume * Lookback - past
                size == Lesser(100, (over * 200) \div (3 * past))
            IN IF past = 0 THEN Unavailable
               ELSE IF over < 0 \/ last.close = last.open THEN 0
               ELSE IF last.close > last.open THEN size ELSE -size

\* trend_regime, in hundredths, the ATR in per cent: danger scores -1 whatever the trend.
TrendScore(r) ==
    LET apart == Lesser(35, (AbsScore(r.fast - r.slow) * 2000) \div r.last.close)
        rises == r.last.high > r.previous.high /\ r.last.low > r.previous.low
        falls == r.last.high < r.previous.high /\ r.last.low < r.previous.low
    IN IF r.atrp >= 8 THEN -100
       ELSE IF r.fast > r.slow /\ r.fast > r.before /\ rises THEN 55 + apart
       ELSE IF r.fast < r.slow /\ r.fast < r.before /\ falls THEN -55 - apart ELSE 0

IndicatorInit == composed = <<>> /\ gauge = <<>>

Compose ==
    /\ composed = <<>> /\ gauge = <<>>
    /\ \E c \in Compositions :
          /\ ScoresValid(ComponentScores(c)) /\ ~ComposeRaises(c)
          /\ composed' = [of |-> c, output |-> Composed(c)]
    /\ UNCHANGED gauge

Measure ==
    /\ composed = <<>> /\ gauge = <<>>
    /\ \/ \E s \in Snapshots : gauge' = [kind |-> "breadth", of |-> s, score |-> BreadthScore(s)]
       \/ \E b \in OrderBooks : gauge' = [kind |-> "depth", of |-> b, score |-> PressureScore(b)]
       \/ \E c \in Charts :
             gauge' = [kind |-> "chart", of |-> c, score |->
                          [sweep |-> SweepScore(c), vwap |-> VwapScore(c), volume |-> VolumeScore(c)]]
       \/ \E r \in TrendReadings : gauge' = [kind |-> "trend", of |-> r, score |-> TrendScore(r)]
    /\ UNCHANGED composed

IndicatorNext == Compose \/ Measure

ComposedTrade ==
    /\ composed # <<>> /\ composed.output.status = "PASS"
    /\ composed.output.side \in {"BUY", "SELL"}

-----------------------------------------------------------------------------
\* What may be traded rests on good data and on every critical indicator; and hiding an
\* indicator's reading never makes a trade of what was none.
HidingNeverTrades ==
    composed # <<>> =>
        LET c == composed.of
            trades(o) == o.status = "PASS" /\ o.side \in {"BUY", "SELL"}
        IN /\ trades(composed.output) =>
                 c.quality \in {"OK", "NONE"} /\ ~c.early /\ c.unavailable \cap Critical = {}
           /\ \A n \in DOMAIN Weights \ c.unavailable :
                 LET less == [c EXCEPT !.unavailable = @ \cup {n}]
                 IN (trades(Composed(less)) /\ c.scores[n] * FinalScore(ComponentScores(c)) >= 0)
                        => trades(composed.output)

\* A tradeable signal of the composer can be graded D or C by its own confidence rules only
\* when indicators are missing; its levels are on the right sides of the close.
TradeGraded ==
    ComposedTrade =>
        LET o == composed.output
            s == IF o.side = "BUY" THEN 1 ELSE -1
        IN /\ o.grade \in {"C", "D"} => Cardinality(composed.of.unavailable) >= 2
           /\ o.levels # <<>> =>
                 /\ s * (composed.of.close - o.levels.stop) > 0
                 /\ s * (o.levels.first - composed.of.close) > 0
                 /\ s * (o.levels.second - o.levels.first) > 0

\* A gauge never exceeds its range, favours neither side, and a doubtful book is never
\* trusted as much as a good one.
GaugesSound ==
    (gauge # <<>> /\ gauge.kind \in {"breadth", "depth"} /\ gauge.score # Unavailable) =>
        IF gauge.kind = "breadth"
        THEN LET s == gauge.of
             IN /\ gauge.score \in -10 .. 10
                /\ BreadthScore([s EXCEPT !.advancing = s.declining, !.declining = s.advancing])
                      = -gauge.score
        ELSE LET b == gauge.of
             IN /\ PressureScore([b EXCEPT !.bid = b.ask, !.ask = b.bid]) = -gauge.score
                /\ b.spread > 15 => gauge.score \in -50 .. 50

\* A candle upside down, turned over at a price.
Turned(b, p) ==
    [b EXCEPT !.open = 2 * p - @, !.close = 2 * p - @, !.high = 2 * p - b.low, !.low = 2 * p - b.high]

\* A chart turned over at its last close reads the other way round, but for a candle that swept
\* both extremes, which is read in the order of the tests.  Pressure is on the side of the
\* VWAP the price is on, and a chart with a candle still forming reads as without it.
ChartReadsBack(c, score) ==
    LET back == [i \in DOMAIN c |-> Turned(c[i], c[Len(c)].close)]
        done == Complete(c)
        last == done[Len(done)]
    IN /\ score.sweep # Unavailable =>
             \/ SweepScore(back) = -score.sweep
             \/ /\ \A b \in Before(done) : last.low < b.low /\ last.high > b.high
                /\ SweepScore(back) = score.sweep
       /\ score.volume # Unavailable => VolumeScore(back) = -score.volume
       /\ score.vwap \notin {0, Unavailable} =>
             (score.vwap > 0 <=> 3 * last.close * VolumeOf(done, 1) > TurnoverOf(done))
       /\ ~c[Len(c)].complete =>
             /\ SweepScore(done) = score.sweep /\ VwapScore(done) = score.vwap
             /\ VolumeScore(done) = score.volume

\* So does a trend, but for danger, which is a sale either way.
TrendReadsBack(r, score) ==
    LET p    == r.last.close
        back == [r EXCEPT !.fast = 2 * p - @, !.slow = 2 * p - @, !.before = 2 * p - @,
                          !.last = Turned(@, p), !.previous = Turned(@, p)]
    IN TrendScore(back) = IF r.atrp >= 8 THEN score ELSE -score

\* The gauges of price favour neither side.
ChartsReadBothWays ==
    gauge # <<>> =>
        /\ gauge.kind = "chart" => ChartReadsBack(gauge.of, gauge.score)
        /\ gauge.kind = "trend" => TrendReadsBack(gauge.of, gauge.score)
=============================================================================
