---------------------------- MODULE StrategyDesk ----------------------------
(***************************************************************************)
(* Several strategies under one capital (strategy_orchestration.py): the   *)
(* registry, the health scores, the allocation, the similarity report and  *)
(* the one decision made of all their signals.                             *)
(*                                                                         *)
(* Scores are points out of a hundred, allocations and confidence          *)
(* percents, profit factors tenths; the weights of a decision are          *)
(* ten-thousandths.  What the trades of a window come to is an input.      *)
(***************************************************************************)
EXTENDS Integers, Sequences, FiniteSets, SequencesExt, FiniteSetsExt, Functions

CONSTANTS Strategies,    \* metadata to register: [id, enabled]
          Performances,  \* [current, recent, execution], windows [trades, winRate, factor,
                         \*  expectancy, drawdown, volatility, robustness]
          Methods,       \* AllocationMethods asked for
          MinAllocation, MaxAllocation,
          Votes,         \* [signal, confidence, robustness]
          Histories      \* pairs to compare: [pnl, signals, times], each a pair of sequences

ASSUME AllocationAssumption ==
    MinAllocation \in Nat /\ MaxAllocation \in 1 .. 100 /\ MinAllocation <= MaxAllocation

\* StrategyPerformanceSnapshot
IsWindow(w) ==
    /\ {w.trades, w.winRate, w.drawdown, w.volatility} \subseteq Nat
    /\ {w.factor, w.expectancy, w.robustness} \subseteq Int

ASSUME RegistryAssumption == \A s \in Strategies : s.enabled \in BOOLEAN
ASSUME TrackedAssumption ==
    \A p \in Performances : IsWindow(p.current) /\ IsWindow(p.recent) /\ p.execution \in Int

ASSUME VoteAssumption ==
    \A v \in Votes : /\ v.signal \in {"BUY", "SELL", "HOLD", "NO_TRADE"}
                     /\ v.confidence \in 0 .. 100 /\ v.robustness \in Int

SignalValue == [BUY |-> 1, SELL |-> -1, HOLD |-> 0, NO_TRADE |-> 0]

IsPair(p, S) == p = <<p[1], p[2]>> /\ p[1] \in Seq(S) /\ p[2] \in Seq(S)

\* What two strategies earned, said, and when they traded.
IsHistory(h) ==
    /\ DOMAIN h = {"pnl", "signals", "times"}
    /\ IsPair(h.pnl, Int) /\ IsPair(h.signals, DOMAIN SignalValue)
    /\ IsPair(h.times, Range(h.times[1]) \cup Range(h.times[2]))

ASSUME HistoryAssumption == \A h \in Histories : IsHistory(h)

VARIABLES
  registry,    \* StrategyRegistry: metadata by id
  shares,      \* the last scoring: [scores, allocations]
  decision,    \* the last UnifiedSignalDecision, with the votes
  similarity   \* the last pair compared, and whether it was warned about

strategyVars == <<registry, shares, decision, similarity>>

Within(n, low, high) == Max({low, Min({n, high})})

-----------------------------------------------------------------------------
RegisterStrategy ==
    /\ \E s \in Strategies :
          /\ s.id \notin DOMAIN registry
          /\ registry' = [i \in DOMAIN registry \cup {s.id} |->
                             IF i = s.id THEN s ELSE registry[i]]
    /\ shares = <<>> /\ similarity = <<>>
    /\ UNCHANGED <<shares, decision, similarity>>

\* track
Degraded(p) ==
    /\ p.recent.trades >= 5 /\ p.current.trades >= 20
    /\ \/ p.recent.expectancy < 0
       \/ p.recent.winRate + 15 < p.current.winRate
       \/ 2 * p.recent.factor < Max({p.current.factor, 16})

Robustness(p) == Within(p.current.robustness, 0, 100)

Overall(p) ==
    LET performance == Within((p.current.factor * 5) \div 2 + p.current.winRate \div 2, 0, 100)
        stability   == IF Degraded(p) THEN 35 ELSE 100 - Min({p.current.volatility, 100})
        drawdown    == Max({0, 100 - 4 * p.current.drawdown})
    IN (performance + Robustness(p) + stability + drawdown + Within(p.execution, 0, 100)) \div 5

\* StrategyHealthScorer.score
Health(s, p) ==
    IF ~s.enabled THEN [status |-> "DISABLED", overall |-> 0, robustness |-> 0]
    ELSE [status |-> IF /\ Overall(p) >= 75 /\ ~Degraded(p)
                        /\ p.current.drawdown <= 15 /\ Robustness(p) >= 50 THEN "HEALTHY"
                     ELSE IF Overall(p) >= 60 THEN "WATCHLIST"
                     ELSE IF Overall(p) >= 35 THEN "DEGRADED" ELSE "DISABLED",
          overall |-> Overall(p), robustness |-> Robustness(p)]

\* The raw score of a strategy under a method, in tenths of a point.
RawShare(method, h, p) ==
    IF h.status = "DISABLED" THEN 0
    ELSE CASE method = "EQUAL_WEIGHT" -> 10
           [] method = "PERFORMANCE_WEIGHT" ->
                10 * Max({0, p.current.expectancy}) + Max({0, p.current.factor})
           [] method = "ROBUSTNESS_WEIGHT" -> 10 * h.robustness
           [] method = "VOLATILITY_ADJUSTED" ->
                (10 * h.overall) \div Max({1, p.current.volatility})
           [] OTHER -> 4 * h.overall + 3 * h.robustness + 10 * Max({0, p.current.factor})
                         + Max({0, p.current.expectancy})

\* _normalize_with_caps
NormalizeWithCaps(raw) ==
    LET total  == SumFunction(raw)
        capped == [i \in DOMAIN raw |->
                     IF raw[i] = 0 THEN 0
                     ELSE Within((raw[i] * 100) \div total, MinAllocation, MaxAllocation)]
        sum    == SumFunction(capped)
    IN IF sum > 100 THEN [i \in DOMAIN raw |-> (capped[i] * 100) \div sum] ELSE capped

\* Every registered strategy is scored, and the capital shared among them.
AllocateCapital ==
    /\ registry # <<>> /\ shares = <<>>
    /\ \E m \in Methods, ps \in [DOMAIN registry -> Performances] :
          LET scores == [i \in DOMAIN registry |-> Health(registry[i], ps[i])]
          IN shares' = [scores |-> scores, of |-> ps,
                        allocations |->
                          NormalizeWithCaps([i \in DOMAIN registry |->
                                               RawShare(m, scores[i], ps[i])])]
    /\ UNCHANGED <<registry, decision, similarity>>

-----------------------------------------------------------------------------
Heard(votes) ==
    {i \in DOMAIN votes \cap DOMAIN shares.scores : shares.scores[i].status # "DISABLED"}

Weight(votes, i) ==
    (((shares.allocations[i] * votes[i].confidence) \div 100)
       * ((shares.scores[i].overall
           * Max({votes[i].robustness, shares.scores[i].robustness})) \div 100))

\* What the strategies that are heard put behind some signals.
WeightOf(votes, signals) ==
    SumFunction([i \in Heard(votes) |-> IF votes[i].signal \in signals THEN Weight(votes, i) ELSE 0])

\* aggregate: up to a half of the opposing share is taken off the difference.
Aggregate(votes) ==
    LET buy   == WeightOf(votes, {"BUY"})
        sell  == WeightOf(votes, {"SELL"})
        hold  == WeightOf(votes, {"HOLD", "NO_TRADE"})
        score == IF buy > sell THEN buy - sell ELSE sell - buy
    IN IF votes = <<>> THEN [signal |-> "NO_TRADE", confidence |-> 0]
       ELSE IF hold >= Max({buy, sell}) THEN [signal |-> "HOLD", confidence |-> 0]
       ELSE [signal |-> IF buy > sell THEN "BUY" ELSE IF sell > buy THEN "SELL" ELSE "NO_TRADE",
             confidence |-> Min({10000, score - (score * Min({buy, sell})) \div (2 * (buy + sell))})]

Decide ==
    /\ shares # <<>> /\ decision = <<>>
    /\ \E heard \in SUBSET DOMAIN registry : \E votes \in [heard -> Votes] :
          decision' = [votes |-> votes, outcome |-> Aggregate(votes)]
    /\ UNCHANGED <<registry, shares, similarity>>

-----------------------------------------------------------------------------
Shorter(pair) == Min({Len(pair[1]), Len(pair[2])})

\* How far the i-th of the first n numbers of x is from their mean, n times; what two lists
\* have in common of that.
Deviation(x, n, i) == n * x[i] - SumFunction([j \in 1 .. n |-> x[j]])

Covariance(x, y, n) == SumFunction([i \in 1 .. n |-> Deviation(x, n, i) * Deviation(y, n, i)])

\* _corr at four fifths or more; a series that does not move correlates with nothing.
Correlated(pair) ==
    LET n   == Shorter(pair)
        cov == Covariance(pair[1], pair[2], n)
    IN /\ n >= 2 /\ cov > 0
       /\ 25 * cov * cov >= 16 * Covariance(pair[1], pair[1], n) * Covariance(pair[2], pair[2], n)

\* _overlap_ratio at four fifths or more.
Overlapping(pair) ==
    LET a == Range(pair[1])
        b == Range(pair[2])
    IN a # {} /\ b # {} /\ 5 * Cardinality(a \cap b) >= 4 * Cardinality(a \cup b)

Values(said) == [i \in DOMAIN said |-> SignalValue[said[i]]]

\* analyze, for two strategies.
Similar(h) ==
    \/ Correlated(h.pnl) \/ Overlapping(h.times)
    \/ Correlated(<<Values(h.signals[1]), Values(h.signals[2])>>)

Compare ==
    /\ registry = <<>> /\ similarity = <<>>
    /\ \E h \in Histories : similarity' = [of |-> h, warned |-> Similar(h)]
    /\ UNCHANGED <<registry, shares, decision>>

-----------------------------------------------------------------------------
StrategyInit == registry = <<>> /\ shares = <<>> /\ decision = <<>> /\ similarity = <<>>

\* No strategy gets more than its cap and all together no more than the capital, a disabled
\* one gets nothing, and two that do the same get the same.
AllocationsHold ==
    shares # <<>> =>
        LET a == shares.allocations
            h == shares.scores
        IN /\ \A i \in DOMAIN a : a[i] \in 0 .. MaxAllocation
           /\ SumFunction(a) <= 100
           /\ \A i \in DOMAIN a : h[i].status = "DISABLED" => a[i] = 0
           /\ \A i, j \in DOMAIN a : shares.of[i] = shares.of[j] /\ h[i] = h[j] => a[i] = a[j]

\* A decision to trade rests on strategies in health that voted for it, and taking away the
\* votes against it never makes it less sure.
DecisionsAreEarned ==
    (decision # <<>> /\ decision.outcome.signal \in {"BUY", "SELL"}) =>
        LET votes   == decision.votes
            side    == decision.outcome.signal
            behind  == {i \in DOMAIN votes : votes[i].signal = side}
            agreed  == {i \in DOMAIN votes : votes[i].signal \notin {"BUY", "SELL"} \ {side}}
        IN /\ \E i \in behind : /\ shares.allocations[i] > 0
                                /\ registry[i].enabled /\ shares.scores[i].status # "DISABLED"
           /\ Aggregate([i \in agreed |-> votes[i]]).confidence >= decision.outcome.confidence

\* Strategies that trade at the same times, or earn in proportion, are warned about whichever
\* way round they are compared.
TwinsAreWarned ==
    similarity # <<>> =>
        LET h == similarity.of
            same(pair) == pair[1] = pair[2] /\ Cardinality(Range(pair[1])) > 1
        IN /\ same(h.pnl) \/ same(h.times) \/ (h.times[1] = h.times[2] /\ h.times[1] # <<>>)
                => similarity.warned
           /\ similarity.warned
                = Similar([f \in DOMAIN h |-> <<h[f][2], h[f][1]>>])
=============================================================================
