----------------------------- MODULE ResearchDesk -----------------------------
(***************************************************************************)
(* The research side, none of which places an order: the ensemble of five  *)
(* adapters and its backtest (advanced_research_pipeline.py), the gate,    *)
(* risk report and recommendation for a model (research_ml.py), and the    *)
(* catalog of contracts, datasets and features (data_engineering.py).      *)
(*                                                                         *)
(* The features of a chart are inputs, differences by their sign: the lead *)
(* of the fast average, two momenta; returns are in thousandths and the    *)
(* volume ratio in hundredths.                                             *)
(***************************************************************************)
EXTENDS Integers, Sequences, FiniteSets, SequencesExt, FiniteSetsExt, Functions

CONSTANTS StudyFeatures,   \* [lead, slow, fast, ret, volume, rsi]: signs, return, ratio, RSI
          StudyClose,      \* the close a signal is given at
          StudyAtr,        \* its average true range
          ForwardCandles,  \* the candles that may follow: [high, low, close]
          ForwardBars,     \* how many candles a trial is followed for
          MinCompleted,    \* MIN_COMPLETED_BACKTEST_OUTCOMES
          MaxTrials,       \* bound: trials of a backtest
          SplitPlans,      \* [candles, train, test, step] of walk_forward_splits
          Dossiers,        \* what a model is judged by: see ModelFailures
          MinSamples,      \* min_samples of the gate
          Contracts, Datasets, Features   \* names in the catalog

\* A chart's features, and a candle that closes where it traded (MarketBar's validation).
IsFeatures(f) == {f.lead, f.slow, f.fast, f.ret, f.volume, f.rsi} \subseteq Int

IsCandle(b) == {b.high, b.low, b.close} \subseteq Int /\ b.low <= b.close /\ b.close <= b.high

ASSUME StudyAssumption ==
    /\ ForwardBars \in Nat \ {0} /\ StudyAtr \in Nat \ {0}
    /\ StudyClose \in Int /\ MinCompleted \in Nat
    /\ \A f \in StudyFeatures : IsFeatures(f)
    /\ \A b \in ForwardCandles : IsCandle(b)

ASSUME SplitAssumption ==
    \A p \in SplitPlans : {p.candles, p.train, p.test} \subseteq Nat /\ p.step \in Nat \ {0}

ModelEvidence == {"oos", "walkforward", "calibration"}

\* ResearchDataset's rows and periods, and what the experiments report.
AllDossiers ==
    [rows : Nat, samples : Nat, names : SUBSET {"plain", "future", "label"},
     periods : [1 .. 6 -> Int], evidence : SUBSET ModelEvidence, importance : SUBSET Int,
     regimes : SUBSET Int, metrics : SUBSET Int, drift : BOOLEAN]

ASSUME DossierAssumption ==
    /\ MinSamples \in Nat
    /\ \A d \in Dossiers : d \in AllDossiers /\ IsFiniteSet(d.regimes)

VARIABLES idea,      \* the signal being followed, or <<>>
          followed,  \* the candles seen after it
          trials,    \* the outcomes of the backtest so far
          judged,    \* the last split or dossier and what became of it
          catalog    \* contracts, dataset -> contract, feature -> datasets

studyVars   == <<idea, followed, trials>>
researchVars == <<studyVars, judged, catalog>>

-----------------------------------------------------------------------------
StudyAdapters == {"lean", "vectorbt", "backtrader", "finrl", "mlquant"}

StudyTrend(f) ==
    IF f.lead > 0 /\ f.slow > 0 THEN "BUY" ELSE IF f.lead < 0 /\ f.slow < 0 THEN "SELL" ELSE "NONE"

HasTrend(f) == StudyTrend(f) # "NONE" /\ f.volume >= 55

Adapter(score, vote) == [score |-> score, vote |-> vote]

\* _ml_quant_score: any movement counts for a purchase, whichever its direction.
MlQuantAlpha(f) ==
    (IF StudyTrend(f) = "BUY" THEN 25 ELSE IF StudyTrend(f) = "SELL" THEN -25 ELSE 0)
    + (IF f.fast # 0 THEN 20 ELSE 0) + (IF f.volume >= 80 THEN 20 ELSE -20)

\* The five adapters.
AdapterScores(f) ==
    [a \in StudyAdapters |->
        CASE a = "lean" ->
                IF StudyTrend(f) = "NONE" THEN Adapter(40, "NONE") ELSE Adapter(75, StudyTrend(f))
          [] a = "vectorbt" ->
                IF f.ret > 2 THEN Adapter(78, "BUY")
                ELSE IF f.ret < -2 THEN Adapter(78, "SELL") ELSE Adapter(45, "NONE")
          [] a = "backtrader" ->
                IF f.lead = 0 \/ f.volume < 80 THEN Adapter(42, "NONE")
                ELSE Adapter(76, IF f.lead > 0 THEN "BUY" ELSE "SELL")
          [] a = "finrl" ->
                IF /\ HasTrend(f)
                   /\ IF StudyTrend(f) = "BUY" THEN f.rsi \in 35 .. 72 ELSE f.rsi \in 28 .. 65
                THEN Adapter(70, StudyTrend(f)) ELSE Adapter(35, "NONE")
          [] a = "mlquant" ->
                IF MlQuantAlpha(f) >= 35 THEN Adapter(80, "BUY")
                ELSE IF MlQuantAlpha(f) <= -35 THEN Adapter(80, "SELL") ELSE Adapter(45, "NONE")]

VotesFor(f, side) == Cardinality({a \in StudyAdapters : AdapterScores(f)[a].vote = side})

ScoreSum(f) == SumFunction([a \in StudyAdapters |-> AdapterScores(f)[a].score])

\* evaluate_signal's decision: three votes, a mean of 72 and a regime to trade in.
StudyDecision(f) ==
    IF /\ VotesFor(f, "BUY") >= 3 \/ VotesFor(f, "SELL") >= 3
       /\ ScoreSum(f) >= 5 * 72
       /\ HasTrend(f)
    THEN IF VotesFor(f, "BUY") > VotesFor(f, "SELL") THEN "BUY" ELSE "SELL"
    ELSE "NO_TRADE"

\* The signal with its levels, an ATR away and two.
StudySignal(f) ==
    LET s == IF StudyDecision(f) = "BUY" THEN 1 ELSE -1
    IN [features |-> f, side |-> StudyDecision(f), entry |-> StudyClose,
        stop |-> StudyClose - s * StudyAtr, target |-> StudyClose + 2 * s * StudyAtr]

Stops(signal, b) ==
    IF signal.side = "BUY" THEN b.low <= signal.stop ELSE b.high >= signal.stop

Reaches(signal, b) ==
    IF signal.side = "BUY" THEN b.high >= signal.target ELSE b.low <= signal.target

\* Mutant: the target is looked at before the stop.
ForwardOutcome_TargetFirst(signal, forward) ==
    LET ends == {i \in DOMAIN forward : Stops(signal, forward[i]) \/ Reaches(signal, forward[i])}
        s    == IF signal.side = "BUY" THEN 1 ELSE -1
    IN IF ends = {}
       THEN [result |-> "EXPIRED",
             pnl |-> IF forward = <<>> THEN 0 ELSE s * (Last(forward).close - signal.entry)]
       ELSE IF Reaches(signal, forward[Min(ends)])
       THEN [result |-> "TARGET_HIT", pnl |-> s * (signal.target - signal.entry)]
       ELSE [result |-> "STOP_HIT", pnl |-> s * (signal.stop - signal.entry)]

\* _evaluate_forward_outcome: the first candle that touches a level, the stop before the target.
ForwardOutcome(signal, forward) ==
    LET ends == {i \in DOMAIN forward : Stops(signal, forward[i]) \/ Reaches(signal, forward[i])}
        s    == IF signal.side = "BUY" THEN 1 ELSE -1
    IN IF ends = {}
       THEN [result |-> "EXPIRED",
             pnl |-> IF forward = <<>> THEN 0 ELSE s * (Last(forward).close - signal.entry)]
       ELSE IF Stops(signal, forward[Min(ends)])
       THEN [result |-> "STOP_HIT", pnl |-> s * (signal.stop - signal.entry)]
       ELSE [result |-> "TARGET_HIT", pnl |-> s * (signal.target - signal.entry)]

ResultCount(results, r) == Cardinality({i \in DOMAIN results : results[i].result = r})

\* _summary: an accuracy, in per cent, from MinCompleted outcomes on, -1 before.
Summary(results) ==
    LET done == Len(results) - ResultCount(results, "NO_TRADE")
    IN [total |-> Len(results), completed |-> done, hits |-> ResultCount(results, "TARGET_HIT"),
        none |-> ResultCount(results, "NO_TRADE"),
        accuracy |-> IF done < MinCompleted THEN -1
                     ELSE (ResultCount(results, "TARGET_HIT") * 100) \div done]

\* backtest: the signal of one window of the past.
JudgeWindow ==
    /\ idea = <<>> /\ Len(trials) < MaxTrials
    /\ \E f \in StudyFeatures :
          IF StudyDecision(f) = "NO_TRADE"
          THEN trials' = Append(trials, [result |-> "NO_TRADE", pnl |-> 0]) /\ UNCHANGED idea
          ELSE idea' = <<StudySignal(f)>> /\ UNCHANGED trials
    /\ UNCHANGED followed

FollowCandle ==
    /\ idea # <<>> /\ Len(followed) < ForwardBars
    /\ \E b \in ForwardCandles : followed' = Append(followed, b)
    /\ UNCHANGED <<idea, trials>>

\* Only whole windows of the future are used.
EndTrial ==
    /\ idea # <<>> /\ Len(followed) = ForwardBars
    /\ trials' = Append(trials, ForwardOutcome(idea[1], followed))
    /\ idea' = <<>> /\ followed' = <<>>

StudyNext == JudgeWindow \/ FollowCandle \/ EndTrial

-----------------------------------------------------------------------------
\* walk_forward_splits, of candles numbered from 0, the ends excluded.
StudySplits(p) ==
    {[trainStart |-> k, trainEnd |-> k + p.train, testStart |-> k + p.train,
      testEnd |-> k + p.train + p.test] :
        k \in {n \in 0 .. p.candles : n % p.step = 0 /\ n + p.train + p.test <= p.candles}}

SplitCandles ==
    /\ judged = <<>>
    /\ \E p \in SplitPlans : judged' = [kind |-> "split", of |-> p, result |-> StudySplits(p)]

\* _chronological_split: parts may touch.
Chronological(periods) == \A i \in 1 .. Len(periods) - 1 : periods[i] <= periods[i + 1]

\* MLValidationGate.evaluate, the checks that fail; a feature's name is plain, of the future,
\* or of the label.
ModelFailures(d) ==
    {c \in {"chronological", "lookahead", "leakage", "samples", "oos", "walkforward", "importance",
            "regime", "calibration"} :
        CASE c = "chronological" -> ~Chronological(d.periods)
          [] c = "lookahead" -> "future" \in d.names
          [] c = "leakage" -> d.names \cap {"future", "label"} # {}
          [] c = "samples" -> d.samples < MinSamples
          [] c = "importance" -> d.importance = {} \/ \E v \in d.importance : v < 0
          [] c = "regime" -> d.regimes = {} \/ Max(d.regimes) - Min(d.regimes) > 35
          [] OTHER -> c \notin d.evidence}

\* ModelRiskReporter.generate: its metrics are of any experiments, in per cent.
RiskWarnings(d) ==
    {w \in {"samples", "leakage", "regime", "drift", "suspicious"} :
        CASE w = "samples" -> "samples" \in ModelFailures(d)
          [] w = "leakage" -> ModelFailures(d) \cap {"leakage", "lookahead"} # {}
          [] w = "regime" -> "regime" \in ModelFailures(d)
          [] w = "drift" -> d.drift
          [] w = "suspicious" -> \E v \in d.metrics : v > 98}

\* ResearchReportGenerator.generate
Recommend(d) ==
    IF d.rows = 0 \/ "samples" \in ModelFailures(d) THEN "COLLECT_MORE_DATA"
    ELSE IF "leakage" \in RiskWarnings(d) \/ "chronological" \in ModelFailures(d) THEN "REJECT_MODEL"
    ELSE IF ModelFailures(d) = {} /\ RiskWarnings(d) = {} THEN "READY_FOR_MANUAL_RESEARCH_REVIEW"
    ELSE "CONTINUE_RESEARCH"

JudgeModel ==
    /\ judged = <<>>
    /\ \E d \in Dossiers : judged' = [kind |-> "model", of |-> d, result |-> Recommend(d)]

-----------------------------------------------------------------------------
\* register_contract, which replaces without a word.
RegisterContract(c) ==
    catalog' = [catalog EXCEPT !.contracts = @ \cup {c}]

RegisterDataset(d, c) ==
    /\ c \in catalog.contracts
    /\ catalog' = [catalog EXCEPT !.datasets = [x \in DOMAIN @ \cup {d} |-> IF x = d THEN c ELSE @[x]]]

\* register_feature: every source is known, and there is one.
RegisterFeature(f, sources) ==
    /\ sources # {} /\ sources \subseteq DOMAIN catalog.datasets
    /\ catalog' = [catalog EXCEPT !.features =
                        [x \in DOMAIN @ \cup {f} |-> IF x = f THEN sources ELSE @[x]]]

CatalogNext ==
    \/ \E c \in Contracts : RegisterContract(c)
    \/ \E d \in Datasets, c \in Contracts : RegisterDataset(d, c)
    \/ \E f \in Features, s \in SUBSET Datasets : RegisterFeature(f, s)

ResearchInit ==
    /\ idea = <<>> /\ followed = <<>> /\ trials = <<>> /\ judged = <<>>
    /\ catalog = [contracts |-> {}, datasets |-> <<>>, features |-> <<>>]

-----------------------------------------------------------------------------
\* The ensemble trades one way: no features lead to a sale, for any movement counts for the
\* alpha of a purchase; and a purchase has a vote of every adapter, of which one may be
\* against it, since the mean takes the score of a vote for the other side too.
EnsembleBuysOnly ==
    idea # <<>> =>
        LET f == idea[1].features
        IN /\ idea[1].side = "BUY" /\ VotesFor(f, "NONE") = 0
           /\ VotesFor(f, "SELL") = 1 => AdapterScores(f)["vectorbt"].vote = "SELL"
           /\ VotesFor(f, "SELL") <= 1

\* A trial is not judged in hindsight: once a level is hit, later candles change nothing; a
\* target counts only if no candle up to it touched the stop; and what expires stayed
\* between the levels.
TrialsArePessimistic ==
    idea # <<>> =>
        LET signal == idea[1]
            after(n) == ForwardOutcome(signal, SubSeq(followed, 1, n))
            now == ForwardOutcome(signal, followed)
        IN /\ \A n \in 0 .. Len(followed) : after(n).result # "EXPIRED" => after(n) = now
           /\ now.result = "TARGET_HIT" =>
                 \E i \in DOMAIN followed :
                    /\ Reaches(signal, followed[i])
                    /\ \A j \in 1 .. i : ~Stops(signal, followed[j])
           /\ now.pnl \in -StudyAtr .. 2 * StudyAtr
           /\ now.result = "EXPIRED" => now.pnl \notin {-StudyAtr, 2 * StudyAtr}

\* Every trial is in the summary once, and a known accuracy is that of enough of them: hits
\* out of it pay twice what the others can lose.
SummaryIsWhole ==
    LET s   == Summary(trials)
        sum == SumFunction([i \in DOMAIN trials |-> trials[i].pnl])
    IN /\ s.total = s.completed + s.none
       /\ s.accuracy # -1 => s.completed >= MinCompleted
       /\ sum >= (2 * s.hits - (s.completed - s.hits)) * StudyAtr

\* No part of a split lies beyond the candles, no test precedes its training, and a candle
\* is tested by two splits only when the step is shorter than the test.
SplitsDoNotLeak ==
    (judged # <<>> /\ judged.kind = "split") =>
        LET p == judged.of
        IN /\ \A s \in judged.result : s.trainEnd = s.testStart /\ s.testEnd <= p.candles
           /\ p.step >= p.test =>
                 \A s, u \in judged.result :
                    s = u \/ s.testEnd <= u.testStart \/ u.testEnd <= s.testStart

\* A model is ready only on every piece of evidence and without a doubt, one that has seen
\* its label is never ready, and no evidence, once added, makes the answer worse.
ReadyModelsAreClean ==
    (judged # <<>> /\ judged.kind = "model") =>
        LET d == judged.of
            rank(r) == CASE r = "REJECT_MODEL" -> 0 [] r = "COLLECT_MORE_DATA" -> 0
                         [] r = "CONTINUE_RESEARCH" -> 1 [] OTHER -> 2
        IN /\ judged.result = "READY_FOR_MANUAL_RESEARCH_REVIEW" =>
                 /\ d.evidence = ModelEvidence /\ d.rows > 0
                 /\ d.names \subseteq {"plain"} /\ ~d.drift /\ \A v \in d.metrics : v <= 98
                 /\ \A v, u \in d.regimes : v - u <= 35
                 /\ d.periods[1] <= d.periods[6]
           /\ \A e \in ModelEvidence :
                 rank(Recommend([d EXCEPT !.evidence = @ \cup {e}])) >= rank(judged.result)

\* The lineage of a feature can always be followed to the contracts of its sources.
LineageNeverDangles ==
    \A f \in DOMAIN catalog.features :
        /\ catalog.features[f] # {}
        /\ \A d \in catalog.features[f] :
              d \in DOMAIN catalog.datasets /\ catalog.datasets[d] \in catalog.contracts
=============================================================================
