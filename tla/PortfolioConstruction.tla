------------------------ MODULE PortfolioConstruction ------------------------
(***************************************************************************)
(* Portfolio construction (PortfolioConstructionEngine of portfolio.py)    *)
(* and the historical tail measures of risk.py.                            *)
(*                                                                         *)
(* Weights, Kelly fractions, returns and limits are basis points, target   *)
(* weights rounded down where the code divides; confidence, probability    *)
(* and volatility are percents, the reward-to-risk ratio tenths.  What a   *)
(* symbol or a sector weighs is its value, compared with its share of the  *)
(* capital.                                                                *)
(***************************************************************************)
EXTENDS Integers, Sequences, FiniteSets, SequencesExt, FiniteSetsExt, Functions

CONSTANTS Portfolios,   \* [candidates, held, correlations, equity, returns]
          Caps,         \* PortfolioRiskLimits
          Capital,
          ReturnSeries  \* series of returns for the tail measures

NoCorrelation == -200

\* PortfolioRiskLimits
ASSUME CapsAssumption ==
    /\ Capital \in Nat \ {0} /\ Caps.correlation \in Int /\ Caps.correlation > NoCorrelation
    /\ {Caps.kelly, Caps.volatility, Caps.symbol, Caps.sector, Caps.risk, Caps.gross,
        Caps.drawdown} \subseteq Nat

\* PortfolioSignalAllocation
IsCandidate(c) ==
    /\ c.entry \in Int /\ c.stop \in Int /\ c.expected \in Int /\ c.volatility \in Int
    /\ c.confidence \in Int /\ c.win \in 0 .. 100 /\ c.ratio \in Nat \ {0}

\* Weights, rejections and exposures are kept by symbol: no two candidates have the same.
IsPortfolio(p) ==
    /\ \A i, j \in DOMAIN p.candidates : p.candidates[i].symbol = p.candidates[j].symbol => i = j
    /\ p.candidates \in Seq(Range(p.candidates)) /\ \A c \in Range(p.candidates) : IsCandidate(c)
    /\ p.held \in Seq(Range(p.held))
    /\ \A h \in Range(p.held) : h.quantity \in Nat /\ h.price \in Nat
    /\ \A k \in DOMAIN p.correlations : p.correlations[k] \in Int
    /\ p.equity \in Seq(Nat)

ASSUME PortfolioAssumption == \A p \in Portfolios : IsPortfolio(p)
ASSUME SeriesAssumption == \A r \in ReturnSeries : r \in Seq(Int) /\ r # <<>>

VARIABLES portfolio,    \* the last request and its PortfolioConstructionResult
          tail          \* the last series measured

portfolioVars == <<portfolio, tail>>

Ascending(s) == SortSeq(s, <)

-----------------------------------------------------------------------------
\* kelly_fraction
Kelly(c) ==
    Max({0, Min({c.win * 100 - ((100 - c.win) * 1000) \div c.ratio, Caps.kelly})})

Correlation(table, a, b) ==
    IF <<a, b>> \in DOMAIN table THEN table[<<a, b>>]
    ELSE IF <<b, a>> \in DOMAIN table THEN table[<<b, a>>] ELSE NoCorrelation

\* _candidate_rejections
Rejected(c, accepted, p) ==
    \/ c.entry <= 0 \/ c.stop <= 0 \/ c.entry = c.stop
    \/ c.volatility <= 0 \/ c.confidence \notin 0 .. 100 \/ Kelly(c) <= 0
    \/ \E o \in Range(accepted) \cup Range(p.held) :
          Correlation(p.correlations, c.symbol, o.symbol) > Caps.correlation

\* The candidates in turn, each looked at with those taken before it.
Accepted(p) ==
    LET took[n \in 0 .. Len(p.candidates)] ==
            IF n = 0 THEN <<>>
            ELSE IF Rejected(p.candidates[n], took[n - 1], p) THEN took[n - 1]
                 ELSE Append(took[n - 1], p.candidates[n])
    IN took[Len(p.candidates)]

\* _base_weights, before they are divided by their sum: the edge, or when no candidate
\* has one the inverse of the volatility.
RawWeights(cs) ==
    LET edge == [i \in DOMAIN cs |->
                   (((Max({0, cs[i].expected}) * cs[i].confidence * Kelly(cs[i])) \div 10000)
                      * Caps.volatility) \div cs[i].volatility]
    IN IF SumFunction(edge) # 0 THEN edge
       ELSE [i \in DOMAIN cs |-> 10000 \div cs[i].volatility]

Normalised(w) ==
    LET total == SumFunction(w)
    IN [i \in DOMAIN w |-> IF total = 0 THEN 0 ELSE (w[i] * 10000) \div total]

\* _apply_symbol_and_sector_caps: the division at the end gives back what the caps took.
Capped(cs, w) ==
    LET clipped   == [i \in DOMAIN w |-> Min({w[i], Caps.symbol})]
        sector(i) == SumFunction([j \in {k \in DOMAIN cs : cs[k].sector = cs[i].sector} |-> clipped[j]])
    IN Normalised([i \in DOMAIN w |->
           IF sector(i) > Caps.sector THEN (clipped[i] * Caps.sector) \div sector(i)
           ELSE clipped[i]])

\* What is lost of a share at its stop.
StopDistance(entry, stop) == IF entry > stop THEN entry - stop ELSE stop - entry

\* _allocation: the weight and the risk budget of a trade, whichever is less.
Quantity(c, w) ==
    Min({(Capital * w) \div (10000 * c.entry),
         (Capital * Caps.risk) \div (10000 * StopDistance(c.entry, c.stop))})

Allocations(p) ==
    LET cs == Accepted(p)
        w  == Capped(cs, Normalised(RawWeights(cs)))
        of(i) == [symbol |-> cs[i].symbol, sector |-> cs[i].sector, entry |-> cs[i].entry,
                  stop |-> cs[i].stop, quantity |-> Quantity(cs[i], w[i]), weight |-> w[i]]
    IN [i \in {i \in DOMAIN cs : w[i] > 0} |-> of(i)]

Invested(allocations, s) ==
    SumFunction([k \in DOMAIN allocations |->
                   IF allocations[k].symbol = s THEN allocations[k].quantity * allocations[k].entry ELSE 0])

Held(held, s) ==
    SumFunction([k \in DOMAIN held |->
                   IF held[k].symbol = s THEN held[k].quantity * held[k].price ELSE 0])

\* Mutant: what is already held does not count.
Exposure_New(allocations, held, s) == Invested(allocations, s)

Exposure(allocations, held, s) == Invested(allocations, s) + Held(held, s)

Symbols(allocations, held) == {r.symbol : r \in Range(allocations) \cup Range(held)}

Exposures(allocations, held) ==
    [s \in Symbols(allocations, held) |-> Exposure(allocations, held, s)]

-----------------------------------------------------------------------------
\* The days' losses of exposures x, over the shortest series there is.
DayLosses(x, returns) ==
    LET given == {s \in DOMAIN returns : returns[s] # <<>>}
    IN IF given = {} \/ DOMAIN x = {} THEN <<>>
       ELSE [d \in 1 .. Min({Len(returns[s]) : s \in given}) |->
               0 - SumFunction([s \in DOMAIN x \cap given |-> x[s] * returns[s][d]])]

\* portfolio_var_cvar_pct
TailStart(n) == Max({0, Min({n - 1, (95 * n) \div 100 - 1})}) + 1

PortfolioVar(losses) ==
    IF losses = <<>> THEN 0 ELSE Max({0, Ascending(losses)[TailStart(Len(losses))]})

PortfolioCvar(losses) ==
    LET worst == SelectSeq(SubSeq(Ascending(losses), TailStart(Len(losses)), Len(losses)),
                           LAMBDA l : l >= PortfolioVar(losses))
    IN IF losses = <<>> \/ worst = <<>> THEN PortfolioVar(losses)
       ELSE FoldLeft(+, 0, worst) \div Len(worst)

\* _drawdown_pct: some equity lies further below the highest so far than the limit.
FarBelow(value, peak, limit) == (peak - value) * 10000 > limit * peak

FellBeyond(equity, limit) ==
    \E n \in DOMAIN equity : FarBelow(equity[n], Max({equity[i] : i \in 1 .. n}), limit)

HeldInSector(held, sector) ==
    SumFunction([k \in DOMAIN held |->
                   IF held[k].sector = sector THEN held[k].quantity * held[k].price ELSE 0])

\* _risk_report: sectors are looked at for what is held, not for the targets.
RiskReasons(p, allocations) ==
    LET x      == Exposures(allocations, p.held)
        losses == DayLosses(x, p.returns)
        Above(value, cap) == value * 10000 > cap * Capital
    IN {r \in {"gross"} : Above(SumFunction(x), Caps.gross)}
       \cup {r \in {"var"} : PortfolioVar(losses) > Caps.var * Capital}
       \cup {r \in {"cvar"} : PortfolioCvar(losses) > Caps.cvar * Capital}
       \cup {r \in {"drawdown"} : FellBeyond(p.equity, Caps.drawdown)}
       \cup {r \in {"symbol"} : \E s \in DOMAIN x : Above(x[s], Caps.symbol)}
       \cup {r \in {"sector"} : \E h \in Range(p.held) : Above(HeldInSector(p.held, h.sector), Caps.sector)}
       \cup {r \in {"correlation"} :
                \E k \in DOMAIN p.correlations :
                    /\ {k[1], k[2]} \subseteq DOMAIN x
                    /\ p.correlations[k] > Caps.correlation}

\* construct
Construct(p) ==
    LET a == Allocations(p)
    IN [allocations |-> a,
        recommendation |-> IF Accepted(p) = <<>> THEN "CONTINUE_PAPER"
                           ELSE IF DOMAIN a # {} /\ RiskReasons(p, a) = {} THEN "PORTFOLIO_APPROVED"
                           ELSE "PORTFOLIO_BLOCKED"]

-----------------------------------------------------------------------------
\* The k-th of the numbers of r in ascending order.
Ranked(r, k) == Min({v \in Range(r) : Cardinality({i \in DOMAIN r : r[i] <= v}) >= k})

\* value_at_risk at 95%, of a series of returns.
ValueAtRisk(r) == 0 - Min({0, Ranked(r, Max({0, (5 * Len(r)) \div 100 - 1}) + 1)})

\* conditional_value_at_risk: the mean of what is no better than the value at risk.
ConditionalVaR(r) ==
    LET worst == {i \in DOMAIN r : r[i] <= 0 - ValueAtRisk(r)}
    IN IF worst = {} THEN 0 ELSE 0 - SumFunction([i \in worst |-> r[i]]) \div Cardinality(worst)

Power(b, n) ==
    LET power[k \in 0 .. n] == IF k = 0 THEN 1 ELSE b * power[k - 1] IN power[n]

\* The weight of the i-th of n returns, decaying by 94 in 100 from the latest.
Decay(i, n) == Power(94, n - i) * Power(100, i - 1)

\* dynamic_value_at_risk: the first return, worst first, whose weights reach a twentieth.
DynamicVaR(r) ==
    LET n        == Len(r)
        below(v) == SumFunction([i \in DOMAIN r |-> IF r[i] <= v THEN Decay(i, n) ELSE 0])
        total    == SumFunction([i \in DOMAIN r |-> Decay(i, n)])
    IN 0 - Min({0, Min({v \in Range(r) : below(v) * 20 >= total})})

-----------------------------------------------------------------------------
PortfolioInit ==
    /\ portfolio = <<>>
    /\ tail = <<>>

\* Neither engine keeps anything between requests: one of each kind is enough.
Propose ==
    /\ portfolio = <<>> /\ tail = <<>>
    /\ \E p \in Portfolios : portfolio' = [asked |-> p, result |-> Construct(p)]
    /\ UNCHANGED tail

Measure ==
    /\ portfolio = <<>> /\ tail = <<>>
    /\ \E r \in ReturnSeries :
          tail' = [returns |-> r, var |-> ValueAtRisk(r), cvar |-> ConditionalVaR(r),
                   dynamic |-> DynamicVaR(r)]
    /\ UNCHANGED portfolio

PortfolioApproved == portfolio # <<>> /\ portfolio.result.recommendation = "PORTFOLIO_APPROVED"

-----------------------------------------------------------------------------
\* What a symbol would be worth after the trades, with what is held of it.
FinalValue(s) == Invested(portfolio.result.allocations, s) + Held(portfolio.asked.held, s)

\* An approved portfolio is within every limit once its trades are added to what is held:
\* each symbol, the whole, the pairs, and the falls its equity has been through; although
\* the caps applied to the weights are undone by the division that follows them.
ApprovedWithinLimits ==
    PortfolioApproved =>
        LET p    == portfolio.asked
            all  == Symbols(portfolio.result.allocations, p.held)
            fall(i, j) == (p.equity[i] - p.equity[j]) * 10000
        IN /\ \A s \in all : FinalValue(s) * 10000 <= Caps.symbol * Capital
           /\ SumFunction([s \in all |-> FinalValue(s)]) * 10000 <= Caps.gross * Capital
           /\ \A s, t \in all : Correlation(p.correlations, s, t) <= Caps.correlation
           /\ \A i, j \in DOMAIN p.equity : i < j => fall(i, j) <= Caps.drawdown * p.equity[i]

\* No trade risks more than its budget and nothing without an edge is bought, approved or
\* not; nor is anything that moves with what is already held.
SizedByRisk ==
    portfolio # <<>> =>
        \A a \in Range(portfolio.result.allocations) :
            /\ a.quantity * StopDistance(a.entry, a.stop) * 10000 <= Caps.risk * Capital
            /\ \E c \in Range(portfolio.asked.candidates) : c.symbol = a.symbol /\ Kelly(c) > 0
            /\ \A h \in Range(portfolio.asked.held) :
                  Correlation(portfolio.asked.correlations, a.symbol, h.symbol) <= Caps.correlation

\* The tail measures are losses, none beyond the worst return, and the mean of the tail is
\* no less than its threshold.
TailsOrdered ==
    tail # <<>> =>
        LET worst == Max({0, 0 - Min(Range(tail.returns))})
        IN /\ tail.var \in 0 .. worst /\ tail.dynamic \in 0 .. worst
           /\ tail.var <= tail.cvar /\ tail.cvar <= worst

\* An approved portfolio keeps every sector's cap, as the report's comment on the targets
\* says the caps before allocation see to.
ApprovedWithinSectors ==
    PortfolioApproved =>
        LET a == portfolio.result.allocations
            h == portfolio.asked.held
        IN \A sector \in {r.sector : r \in Range(a) \cup Range(h)} :
              (SumFunction([k \in DOMAIN a |->
                              IF a[k].sector = sector THEN a[k].quantity * a[k].entry ELSE 0])
               + HeldInSector(h, sector)) * 10000 <= Caps.sector * Capital
=============================================================================
