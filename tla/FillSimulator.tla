---------------------------- MODULE FillSimulator ----------------------------
(***************************************************************************)
(* Execution realism for paper and shadow evidence                         *)
(* (execution_simulation.py): how much of an order would have been filled, *)
(* at what price, how late, and how good that was.                         *)
(*                                                                         *)
(* Prices are whole ticks, slippage and impact thousandths of a basis      *)
(* point, the score thousandths of a point.  NoLimit is None.              *)
(***************************************************************************)
EXTENDS Integers, Sequences, SequencesExt, FiniteSetsExt, Functions

CONSTANTS SimMode,      \* ExecutionMode of the configuration
          SimRequests   \* [side, type, quantity, reference, limit, traded, volatility, spread,
                        \*  hasDepth, bids, asks, delay], levels [price, quantity]

DepthLevels == [price : Int, quantity : Nat]

\* Requests are of two types and about numbers, and a book has its best level first: best_bid and best_ask
\* are the first of their side.
ASSUME SimAssumption ==
    \A r \in SimRequests :
        /\ \A n \in {r.quantity, r.reference, r.limit, r.traded, r.volatility, r.delay} : n \in Int
        /\ r.type \in {"MARKET", "LIMIT"} /\ r.spread \in Nat /\ r.hasDepth \in BOOLEAN
        /\ r.bids \in Seq(DepthLevels)
        /\ \A i, j \in DOMAIN r.bids : i < j => r.bids[i].price >= r.bids[j].price
        /\ r.asks \in Seq(DepthLevels)
        /\ \A i, j \in DOMAIN r.asks : i < j => r.asks[i].price <= r.asks[j].price

VARIABLE fill    \* the last request simulated and its report

fillVars == <<fill>>

NoLimit   == -1
NotFilled == [quantity |-> 0, price |-> 0]

-----------------------------------------------------------------------------
\* LatencyModel.report, in milliseconds
Bucket(total) ==
    IF total >= 3000 THEN "CRITICAL" ELSE IF total >= 1000 THEN "HIGH"
    ELSE IF total >= 300 THEN "NORMAL" ELSE "LOW"

LatencyWarning(r) == Bucket(r.delay) \in {"HIGH", "CRITICAL"}

\* round_to_tick of n / d, against the trader.
ToTick(n, d, side) == IF side = "BUY" THEN (n + d - 1) \div d ELSE n \div d

FirstFive(levels) == SubSeq(levels, 1, Min({5, Len(levels)}))

Beyond(r, price) ==
    /\ r.type = "LIMIT" /\ r.limit # NoLimit
    /\ IF r.side = "BUY" THEN price > r.limit ELSE price < r.limit

Side(r) == IF r.side = "BUY" THEN r.asks ELSE r.bids

\* What a level has to give: nothing once one before it is beyond the limit.
Offered(r, levels) ==
    [k \in 1 .. Len(levels) |->
        IF \E j \in 1 .. k : Beyond(r, levels[j].price) THEN 0 ELSE levels[k].quantity]

\* What is still wanted after each level.
Wanted(quantity, offers) ==
    LET left[k \in 0 .. Len(offers)] ==
            IF k = 0 THEN quantity ELSE left[k - 1] - Min({left[k - 1], offers[k]})
    IN left

\* _depth_fill: level by level until the order is filled or the limit is passed.
DepthFill(r) ==
    LET levels == FirstFive(Side(r))
        n      == Len(levels)
        left   == Wanted(r.quantity, Offered(r, levels))
        filled == r.quantity - left[n]
        paid   == SumFunction([k \in 1 .. n |-> (left[k - 1] - left[k]) * levels[k].price])
    IN [quantity |-> filled,
        price |-> IF filled = 0 THEN r.reference ELSE ToTick(paid, filled, r.side)]

\* _fill: without a depth an order fills whole, half the spread or two basis points away,
\* and a limit is compared with the reference, not with that price.
Fill(r) ==
    LET away == Max({r.spread * 5000, r.reference * 2})
    IN CASE SimMode = "IDEALIZED" -> [quantity |-> r.quantity, price |-> r.reference]
         [] SimMode # "IDEALIZED" /\ r.hasDepth -> DepthFill(r)
         [] OTHER ->
              IF Beyond(r, r.reference) THEN [quantity |-> 0, price |-> r.reference]
              ELSE [quantity |-> r.quantity,
                    price |-> ToTick(r.reference * 10000 + (IF r.side = "BUY" THEN away ELSE -away),
                                     10000, r.side)]

VisibleDepth(r) ==
    IF ~r.hasDepth THEN 0
    ELSE LET levels == FirstFive(r.bids) \o FirstFive(r.asks)
         IN SumFunction([k \in DOMAIN levels |-> levels[k].quantity])

SpreadBps(r) == (r.spread * 10000000) \div r.reference

Share(r) == (r.quantity * 100000) \div Max({r.traded, 1})

\* calculate_slippage
Slippage(r) == 2000 + Max({0, r.volatility}) * 10000 + SpreadBps(r) + (Share(r) * 11) \div 10

\* estimate_market_impact
Impact(r) ==
    LET depth == VisibleDepth(r)
    IN Share(r) + (IF depth = 0 THEN 0 ELSE (r.quantity * 10000) \div depth)
         + Max({0, r.volatility}) * 10000 + SpreadBps(r)

HighImpact(r) == r.quantity * 10 > Max({r.traded, 1})

LowLiquidity(r) == VisibleDepth(r) = 0 \/ r.quantity > VisibleDepth(r)

Impossible(r) == VisibleDepth(r) > 0 /\ r.quantity > VisibleDepth(r) * 5

Score(r, filled) ==
    Max({0, 100000 - (100000 * (r.quantity - filled)) \div r.quantity
              - Min({Slippage(r), 50000}) - Min({Impact(r), 50000})
              - (IF LatencyWarning(r) THEN 25000 ELSE 0) - (IF Impossible(r) THEN 50000 ELSE 0)})

Warnings(r, filled) ==
    {w \in {"low fill"} : filled * 10 < r.quantity * 8}
    \cup {w \in {"slippage"} : Slippage(r) > 15000}
    \cup {w \in {"latency"} : LatencyWarning(r)}
    \cup {w \in {"high-impact"} : HighImpact(r)} \cup {w \in {"low-liquidity"} : LowLiquidity(r)}
    \cup {w \in {"impossible"} : Impossible(r)}

\* simulate
Simulate(r) ==
    IF SimMode = "MICROSTRUCTURE_AWARE" /\ ~r.hasDepth
    THEN [status |-> "DATA_UNAVAILABLE", got |-> NotFilled, score |-> 0, warnings |-> {"depth"}]
    ELSE LET got == Fill(r)
         IN [status |-> "OK", got |-> got, score |-> Score(r, got.quantity),
             warnings |-> Warnings(r, got.quantity)]

FillInit == fill = <<>>

\* The simulator keeps nothing between requests: one is enough.
FillNext ==
    /\ fill = <<>>
    /\ \E r \in SimRequests :
          r.quantity > 0 /\ r.reference > 0 /\ fill' = [request |-> r, report |-> Simulate(r)]

-----------------------------------------------------------------------------
\* Against an order book an order gets what the first five levels hold within its limit
\* and no more, at an average the limit allows, never better than the best level.
DepthFillSound ==
    (fill # <<>> /\ fill.request.hasDepth /\ SimMode # "IDEALIZED") =>
        LET r      == fill.request
            got    == fill.report.got
            within == {k \in DOMAIN Side(r) :
                         k <= 5 /\ (r.type = "MARKET" \/ r.limit = NoLimit
                                      \/ (IF r.side = "BUY" THEN Side(r)[k].price <= r.limit
                                                            ELSE Side(r)[k].price >= r.limit))}
        IN /\ got.quantity = Min({r.quantity, SumFunction([k \in within |-> Side(r)[k].quantity])})
           /\ got.quantity > 0 =>
                 \E worst \in within :
                     IF r.side = "BUY"
                     THEN got.price \in Side(r)[1].price .. Side(r)[worst].price
                     ELSE got.price \in Side(r)[worst].price .. Side(r)[1].price

GoodScore == 80000

\* A good score cannot hide what a warning says: at eighty points and more the order was
\* filled to four fifths, in time, against a depth that can bear it.
GoodScoreMeansGoodFill ==
    fill # <<>> =>
        LET w == fill.report.warnings
        IN /\ fill.report.score >= GoodScore => w \cap {"low fill", "latency", "impossible", "depth"} = {}
           /\ fill.report.got.quantity = 0 => fill.report.score = 0
=============================================================================
