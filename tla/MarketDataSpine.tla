--------------------------- MODULE MarketDataSpine ---------------------------
(***************************************************************************)
(* Ticks on their way to candles (market_data_spine.py): the quality check *)
(* with its memory of the last tick and the ids it saw, and the builder of *)
(* candles of several timeframes.  Time is in units of the shortest        *)
(* timeframe; a tick id, a price or a quantity is an integer, id 0 is None *)
(* and `wide' says that the depth of the tick has an abnormal spread.      *)
(***************************************************************************)
EXTENDS Integers, Sequences, FiniteSets, FiniteSetsExt, SequencesExt

CONSTANTS Frames,       \* durations of the timeframes, in the configured order
          DayLength,    \* one day
          StaleAfter,   \* stale_after
          JumpPercent   \* max_price_jump_percent

ASSUME SpineAssumption ==
    /\ Frames \in Seq(Nat \ {0})
    /\ DayLength \in Nat \ {0} /\ StaleAfter \in Nat /\ JumpPercent \in Nat

NoTick   == [time |-> -1, price |-> 0, quantity |-> 0]
NoCandle == [start |-> -1, end |-> -1, open |-> 0, high |-> 0, low |-> 0,
             close |-> 0, volume |-> 0]

DayStart(time) == (time \div DayLength) * DayLength

-----------------------------------------------------------------------------
\* Tick.validate: zone, symbol and exchange are always there in this model.
TickValid(tick) == tick.price > 0 /\ tick.quantity >= 0

Distance(a, b) == IF a >= b THEN a - b ELSE b - a

SameTick(tick, last) ==
    tick.time = last.time /\ tick.price = last.price /\ tick.quantity = last.quantity

\* check_tick, as the set of its reasons: a tick without any is accepted.
TickReasons(last, seen, tick) ==
    IF ~TickValid(tick) THEN {"invalid tick"} ELSE
    {r \in {"stale data"} : tick.received - tick.time > StaleAfter}
    \cup {r \in {"duplicate tick"} : tick.id # 0 /\ tick.id \in seen}
    \cup {r \in {"timestamp disorder"} : last # NoTick /\ tick.time < last.time}
    \cup {r \in {"duplicate tick"} : tick.id = 0 /\ SameTick(tick, last)}
    \cup {r \in {"outlier price jump"} :
            /\ last # NoTick
            /\ Distance(tick.price, last.price) * 100 > JumpPercent * last.price}
    \cup {r \in {"abnormal spread"} : tick.wide}

\* A rejected tick is remembered like an accepted one, unless it was invalid.
Remembered(last, tick) ==
    IF TickValid(tick)
    THEN [time |-> tick.time, price |-> tick.price, quantity |-> tick.quantity]
    ELSE last

SeenIds(seen, tick) == IF TickValid(tick) THEN seen \cup ({tick.id} \ {0}) ELSE seen

-----------------------------------------------------------------------------
FloorTimestamp(time, frame) ==
    DayStart(time) + ((time - DayStart(time)) \div frame) * frame

NewCandle(tick, frame) ==
    LET start == FloorTimestamp(tick.time, frame) IN
    [start |-> start, end |-> start + frame, open |-> tick.price, high |-> tick.price,
     low |-> tick.price, close |-> tick.price, volume |-> tick.quantity]

UpdateCandle(c, tick) ==
    [c EXCEPT !.high = Max({@, tick.price}), !.low = Min({@, tick.price}),
              !.close = tick.price, !.volume = @ + tick.quantity]

\* A tick at or past the end of a forming candle completes it.
Completes(c, tick) == c # NoCandle /\ tick.time >= c.end

\* update_tick on the forming candles of one symbol, one per timeframe.
Forming(current, tick) ==
    [f \in DOMAIN Frames |->
        IF current[f] = NoCandle \/ Completes(current[f], tick)
        THEN NewCandle(tick, Frames[f])
        ELSE UpdateCandle(current[f], tick)]
=============================================================================
