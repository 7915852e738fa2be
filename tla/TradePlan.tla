------------------------------ MODULE TradePlan ------------------------------
(***************************************************************************)
(* The safe trade plan (safe_trade_plan.py): from a quote, a history of    *)
(* candles and a signal to entry, stop and targets, or to the reason why   *)
(* there are none.  Prices are integers and the levels of a plan are in    *)
(* hundredths of their unit, so that a tenth of the range and MinReward    *)
(* tenths of a risk are exact; 0 is a level that is not given.  Confidence *)
(* -1 is none.                                                             *)
(***************************************************************************)
EXTENDS Integers, Sequences, FiniteSets, FiniteSetsExt, Functions

CONSTANTS PlanRequests, \* what the builder may be asked: see PlanAssumption
          MinConfidence,
          MinReward     \* min_risk_reward, in tenths

Candles == [open : Int, high : Int, low : Int, close : Int]

ASSUME PlanAssumption ==
    /\ MinConfidence \in Nat /\ MinReward \in Nat
    /\ \A r \in PlanRequests :
          r \in [quote : Int, valid : BOOLEAN, candles : Seq(Candles), history : BOOLEAN,
                action : STRING, bull : Nat, bear : Nat, volumeOk : BOOLEAN,
                confidence : Int, atr : Int, support : Int, resistance : Int]

VARIABLES planned, \* the request in hand
          plan     \* its answer

planVars == <<planned, plan>>

-----------------------------------------------------------------------------
Positive(c) == c.open > 0 /\ c.high > 0 /\ c.low > 0 /\ c.close > 0

\* _normalise_candles drops what has a price that is not positive.
Usable(candles) ==
    LET rows[i \in 0 .. Len(candles)] ==
            IF i = 0 THEN <<>>
            ELSE IF Positive(candles[i]) THEN Append(rows[i - 1], candles[i]) ELSE rows[i - 1]
    IN rows[Len(candles)]

Apart(a, b) == IF a >= b THEN a - b ELSE b - a

TrueRange(rows, i) ==
    Max({rows[i].high - rows[i].low, Apart(rows[i].high, rows[i - 1].close),
         Apart(rows[i].low, rows[i - 1].close)})

\* The mean of the last fourteen true ranges: the cut to 21 candles keeps them all.
AverageTrueRange(rows) ==
    IF Len(rows) < 15 THEN 0
    ELSE SumFunction([i \in (Len(rows) - 13) .. Len(rows) |-> TrueRange(rows, i)]) \div 14

Given(value, fallback) == IF value > 0 THEN value ELSE fallback

\* The levels of a request: given by the signal, or taken from the last twenty candles.
Evidence(r) ==
    LET rows   == Usable(r.candles)
        recent == Max({1, Len(rows) - 19}) .. Len(rows)
    IN [atr        |-> Given(r.atr, AverageTrueRange(rows)),
        support    |-> Given(r.support, Min({rows[i].low : i \in recent})),
        resistance |-> Given(r.resistance, Max({rows[i].high : i \in recent}))]

\* An action of the signal stands; otherwise three votes and the volume make one.
DerivedAction(r) ==
    IF r.action \in {"BUY", "SELL"} THEN r.action
    ELSE IF r.volumeOk /\ r.bull >= 3 /\ r.bull > r.bear THEN "BUY"
    ELSE IF r.volumeOk /\ r.bear >= 3 /\ r.bear > r.bull THEN "SELL"
    ELSE "NO_TRADE"

DataMissing(r) == \/ ~r.valid \/ r.quote <= 0 \/ ~r.history
                  \/ Len(Usable(r.candles)) < 21

\* The better of two prices for a side, and where better lies.
Best(side, a, b) == IF side = "BUY" THEN Max({a, b}) ELSE Min({a, b})
Up(side)         == IF side = "BUY" THEN 1 ELSE -1

\* Mutant: the stop of a sale is one range away, wherever the resistance is.
StopOf_SupportOnly(side, entry, e) ==
    IF side = "BUY" THEN Min({10 * (entry - e.atr), 10 * e.support - e.atr})
                    ELSE 10 * (entry + e.atr)

\* In tenths: one range away, and a tenth of a range beyond the support or resistance.
StopOf(side, entry, e) ==
    IF side = "BUY" THEN Min({10 * (entry - e.atr), 10 * e.support - e.atr})
                    ELSE Max({10 * (entry + e.atr), 10 * e.resistance + e.atr})

\* The level ahead, unless the reward asked for lies beyond it.
FirstTarget(side, entry, e, risk) ==
    Best(side, 100 * (IF side = "BUY" THEN e.resistance ELSE e.support),
               100 * entry + Up(side) * (MinReward * risk))

\* One risk beyond the first, and no less than the reward asked for and one more.
SecondTarget(side, entry, first, risk) ==
    Best(side, first + Up(side) * (10 * risk), 100 * entry + Up(side) * ((MinReward + 10) * risk))

\* The levels of a plan, in hundredths.
Levels(side, entry, e) ==
    LET stop  == StopOf(side, entry, e)
        risk  == Up(side) * (10 * entry - stop)
        first == FirstTarget(side, entry, e, risk)
    IN [stop |-> 10 * stop, target1 |-> first,
        target2 |-> SecondTarget(side, entry, first, risk)]

\* In hundredths, rounded.
RiskReward(entry, lv) ==
    LET risk == Apart(entry, lv.stop) IN
    IF risk = 0 THEN 0 ELSE (200 * Apart(lv.target1, entry) + risk) \div (2 * risk)

\* The sides are not checked alike: a stop of a buy and a target of a sale may
\* fall to zero, and only the whole plan is asked to be positive.
LevelsFail(side, entry, lv) ==
    \/ IF side = "BUY" THEN lv.stop <= 0 \/ lv.stop >= entry \/ lv.target1 <= entry
                       ELSE lv.stop <= entry \/ lv.target1 >= entry \/ lv.target1 <= 0
    \/ RiskReward(entry, lv) < 10 * MinReward
    \/ ~({entry, lv.stop, lv.target1, lv.target2} \subseteq Nat \ {0})

NoPlan(action) == [action |-> action, entry |-> 0, stop |-> 0, target1 |-> 0, target2 |-> 0,
                   ratio |-> 0]

\* SafeTradePlanBuilder.build
Build(r) ==
    LET e      == Evidence(r)
        action == DerivedAction(r)
        lv     == Levels(action, r.quote, e)
        entry  == 100 * r.quote
    IN IF DataMissing(r) THEN NoPlan("DATA_UNAVAILABLE")
       ELSE IF \/ r.confidence < MinConfidence
               \/ e.atr <= 0 \/ action = "NO_TRADE"
            THEN NoPlan("NO_TRADE")
       ELSE IF LevelsFail(action, entry, lv) THEN NoPlan("NO_TRADE")
       ELSE [action |-> action, entry |-> entry, stop |-> lv.stop, target1 |-> lv.target1,
             target2 |-> lv.target2, ratio |-> RiskReward(entry, lv)]

\* enrich_signal_with_safe_trade_plan: the signal leaves with the plan's action and
\* status, and every level replaced, by nothing when there is no plan.
Enriched(r) ==
    [plan |-> Build(r), decision |-> Build(r).action,
     status |-> CASE Build(r).action \in {"BUY", "SELL"} -> "VALIDATED"
                  [] Build(r).action = "DATA_UNAVAILABLE" -> "DATA_UNAVAILABLE"
                  [] OTHER -> "NO_TRADE_SAFE_PLAN_BLOCKED"]

-----------------------------------------------------------------------------
Plan ==
    \E r \in PlanRequests : planned' = r /\ plan' = Enriched(r)

PlanInit == planned = 0 /\ plan = [decision |-> "NONE"]
PlanNext == Plan

-----------------------------------------------------------------------------
\* A plan is complete and the right way round, risks at least one range, pays at
\* least the ratio asked for, and contradicts neither the evidence nor a decided
\* signal; without one the signal keeps no level of its own.
PlanSound ==
    LET p == plan.plan
        e == Evidence(planned)
        up == IF p.action = "BUY" THEN 1 ELSE -1
    IN /\ plan.decision \in {"BUY", "SELL"} =>
             /\ up * (p.entry - p.stop) >= 100 * e.atr /\ e.atr > 0
             /\ up * (p.target1 - p.entry) * 10 >= MinReward * (up * (p.entry - p.stop))
             /\ up * (p.target2 - p.target1) >= up * (p.entry - p.stop)
             /\ p.ratio >= 10 * MinReward
             /\ IF p.action = "BUY" THEN p.stop < 100 * e.support
                                    ELSE p.stop > 100 * e.resistance
             /\ planned.action \in {"BUY", "SELL"} => p.action = planned.action
             /\ planned.confidence >= MinConfidence
       /\ plan.decision \in {"NO_TRADE", "DATA_UNAVAILABLE"} => p = NoPlan(plan.decision)

Turned(x, quote) == 2 * quote - x

TurnedSide(side) == CASE side = "BUY" -> "SELL" [] side = "SELL" -> "BUY" [] OTHER -> side

TurnedCandle(c, quote) ==
    [open |-> Turned(c.open, quote), high |-> Turned(c.low, quote),
     low |-> Turned(c.high, quote), close |-> Turned(c.close, quote)]

\* Every price turned round the quote, and the sides with them.
Mirror(r) ==
    LET rows == Usable(r.candles) IN
    [r EXCEPT !.candles = [i \in DOMAIN rows |-> TurnedCandle(rows[i], r.quote)],
              !.action = TurnedSide(@), !.bull = r.bear, !.bear = r.bull,
              !.support = IF r.resistance <= 0 THEN 0 ELSE Turned(r.resistance, r.quote),
              !.resistance = IF r.support <= 0 THEN 0 ELSE Turned(r.support, r.quote)]

\* The prices of a request and of its plan stay positive when they are turned.
Turnable(r, p) ==
    /\ r.support < 2 * r.quote /\ r.resistance < 2 * r.quote
    /\ \A i \in DOMAIN Usable(r.candles) :
          Positive(TurnedCandle(Usable(r.candles)[i], r.quote))
    /\ \A x \in {p.stop, p.target1, p.target2} : x < 2 * p.entry

\* Buying and selling are planned alike: a market turned upside down gives the
\* plan turned upside down, as long as all its prices stay positive.
PlanMirrors ==
    plan.decision \in {"BUY", "SELL"} =>
        LET m == Build(Mirror(planned)) p == plan.plan IN
        Turnable(planned, p) =>
            /\ m.action = TurnedSide(p.action) /\ m.entry = p.entry
            /\ m.stop = Turned(p.stop, p.entry) /\ m.target1 = Turned(p.target1, p.entry)
            /\ m.target2 = Turned(p.target2, p.entry) /\ m.ratio = p.ratio
=============================================================================
