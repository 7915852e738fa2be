----------------------------- MODULE FinalSignal -----------------------------
(***************************************************************************)
(* The last word on a trade: FinalSignalEngine (signal_engine.py) trades   *)
(* only when every required gate and score approves; MetaDecisionEngine    *)
(* (meta_decision.py) merges the models' signals into one and asks it.     *)
(*                                                                         *)
(* Scores, votes, thresholds and the models' probabilities are percents;   *)
(* the probabilities of a signal input and its confidence are rounded to   *)
(* ten-thousandths.                                                        *)
(***************************************************************************)
EXTENDS Integers, Sequences, FiniteSets, FiniteSetsExt, Functions

CONSTANTS Panels,         \* the gates a caller starts from, sequences of [name, approved]
          Stances,        \* gates reported later
          MaxStances,     \* bound: gates reported after the panel
          SignalInputs,   \* [bull, bear, profit, scores, votes], the last two functions
          ModelPanels,    \* sequences of [source, probability, confidence, scores]
          Priors,         \* weights given to sources, partial functions
          MinConfidence, MinScore, MaxConflict

\* Thresholds, probabilities and scores are shares of a whole, as the engines' constructors,
\* validate and the models' own checks require.
ASSUME ThresholdAssumption ==
    MinConfidence \in 0 .. 100 /\ MinScore \in 0 .. 100 /\ MaxConflict \in 0 .. 100

\* SignalInput
IsInput(s) ==
    /\ s = [bull |-> s.bull, bear |-> s.bear, profit |-> s.profit,
            scores |-> s.scores, votes |-> s.votes]
    /\ s.bull \in Int /\ s.bear \in Int /\ s.profit \in Int
    /\ s.scores \in [DOMAIN s.scores -> 0 .. 100]
    /\ IsFiniteSet(DOMAIN s.votes) /\ s.votes \in [DOMAIN s.votes -> Int]

\* ModelSignal
IsModel(m) ==
    /\ m = [source |-> m.source, probability |-> m.probability,
            confidence |-> m.confidence, scores |-> m.scores]
    /\ m.probability \in 0 .. 100 /\ m.confidence \in 0 .. 100
    /\ m.scores \in [DOMAIN m.scores -> 0 .. 100]

\* The models of a decision, one of each source: the weights are kept by name.
IsPanel(models) ==
    /\ models \in Seq(Range(models)) /\ \A i \in DOMAIN models : IsModel(models[i])
    /\ \A i, j \in DOMAIN models : models[i].source = models[j].source => i = j

ASSUME PanelAssumption == \A p \in Panels : p \in Seq(Range(p))
ASSUME InputAssumption == \A s \in SignalInputs : IsInput(s)
ASSUME ModelAssumption == \A ms \in ModelPanels : IsPanel(ms)
ASSUME PriorAssumption == \A ps \in Priors : \A x \in DOMAIN ps : ps[x] \in Int

VARIABLES gates,    \* the gates reported so far, in order
          ruling    \* the last decision, with what it was asked

signalVars == <<gates, ruling>>

RequiredGates ==
    {"Data", "Research", "Alpha", "Regime", "Liquidity", "Spread", "Volume", "Trend",
     "Price Action", "Market Structure", "Flow", "Options", "Futures", "Sentiment", "Macro",
     "Risk", "Compliance", "Portfolio", "Execution", "AI Consensus"}

RequiredScores ==
    {"alpha", "regime", "technical", "flow", "sentiment", "macro", "options", "risk",
     "execution", "liquidity", "portfolio_impact"}

\* round: a half goes to the even neighbour.
Rounded(n, d) ==
    LET q == n \div d
        r == 2 * (n % d)
    IN IF r < d \/ (r = d /\ q % 2 = 0) THEN q ELSE q + 1

Distance(a, b) == IF a > b THEN a - b ELSE b - a

-----------------------------------------------------------------------------
\* gate_map: of two gates with one name the later one counts.
LastWord(gs, name) ==
    LET said == {i \in DOMAIN gs : gs[i].name = name}
    IN IF said = {} THEN "missing"
       ELSE IF gs[Max(said)].approved THEN "approved" ELSE "rejected"

\* Mutant: a gate nobody reported is no objection.
RejectedGates_Missing(gs) == {n \in RequiredGates : LastWord(gs, n) = "rejected"}

\* _rejected_gates: only the required gates are looked at.
RejectedGates(gs) == {n \in RequiredGates : LastWord(gs, n) # "approved"}

RejectedScores(scores) ==
    {s \in RequiredScores : s \notin DOMAIN scores \/ scores[s] < MinScore}

\* _confidence: the mean of the strongest probability, the mean score and the mean vote.
Confidence(s) ==
    LET scored == SumFunction([n \in RequiredScores |-> IF n \in DOMAIN s.scores THEN s.scores[n] ELSE 0])
        k      == Cardinality(DOMAIN s.votes)
        strong == Max({s.bull, s.bear, s.profit})
    IN IF k = 0 THEN Rounded(11 * strong + 200 * scored, 33)
       ELSE Rounded(11 * k * strong + 100 * (k * scored + 11 * SumFunction(s.votes)), 33 * k)

Direction(s) ==
    IF Distance(s.bull, s.bear) < 500 THEN "HOLD" ELSE IF s.bull > s.bear THEN "BUY" ELSE "SELL"

\* evaluate
Evaluate(s, gs) ==
    LET against == RejectedGates(gs) \cup RejectedScores(s.scores)
                   \cup {c \in {"Confidence Calibration"} : Confidence(s) < MinConfidence * 100}
    IN [decision |-> IF against = {} THEN Direction(s) ELSE "NO TRADE",
        confidence |-> Confidence(s), against |-> against]

-----------------------------------------------------------------------------
RawWeight(models, priors, i) ==
    (IF models[i].source \in DOMAIN priors THEN priors[models[i].source] ELSE 1)
       * models[i].confidence

Mass(models, priors) == SumFunction([i \in DOMAIN models |-> RawWeight(models, priors, i)])

\* dynamic_model_weighting raises without it.
PositiveMass(models, priors) ==
    /\ \A i \in DOMAIN models : RawWeight(models, priors, i) >= 0
    /\ Mass(models, priors) > 0

\* bayesian_aggregation
Posterior(models, priors) ==
    Rounded(100 * SumFunction([i \in DOMAIN models |->
                            models[i].probability * RawWeight(models, priors, i)]),
            Mass(models, priors))

\* conflict_score above max_conflict.
Conflicting(models) ==
    LET total == SumFunction([i \in DOMAIN models |-> models[i].probability])
        n     == Len(models)
    IN \E i \in DOMAIN models : Distance(n * models[i].probability, total) > MaxConflict * n

MeanOf(models, score) ==
    LET known == {i \in DOMAIN models : score \in DOMAIN models[i].scores}
    IN SumFunction([i \in known |-> models[i].scores[score]]) \div Cardinality(known)

\* _merge_with_base: a score some model reports is the mean of what the models report.
Merged(s, models, priors) ==
    LET p        == Posterior(models, priors)
        reported == UNION {DOMAIN models[i].scores : i \in DOMAIN models} \cap RequiredScores
    IN [bull |-> p, bear |-> 10000 - p, profit |-> s.profit,
        scores |-> [n \in DOMAIN s.scores \cup reported |->
                       IF n \in reported THEN MeanOf(models, n) ELSE s.scores[n]],
        votes |-> [x \in {models[i].source : i \in DOMAIN models} |->
                      models[CHOOSE i \in DOMAIN models : models[i].source = x].confidence]]

\* The gate added for a conflict is not one of the required ones.
WithConflictGate(gs, models) ==
    IF Conflicting(models) THEN Append(gs, [name |-> "Conflict Resolution", approved |-> FALSE])
    ELSE gs

\* MetaDecisionEngine.evaluate
MetaEvaluate(s, gs, models, priors) ==
    Evaluate(Merged(s, models, priors), WithConflictGate(gs, models))

-----------------------------------------------------------------------------
SignalInit == gates \in Panels /\ ruling = <<>>

ReportGate ==
    /\ ruling = <<>> /\ Len(gates) < 20 + MaxStances
    /\ \E g \in Stances : gates' = Append(gates, g)
    /\ UNCHANGED ruling

Rule ==
    /\ ruling = <<>>
    /\ \E s \in SignalInputs :
          ruling' = [signal |-> s, gates |-> gates, models |-> <<>>, output |-> Evaluate(s, gates)]
    /\ UNCHANGED gates

MetaRule ==
    /\ ruling = <<>>
    /\ \E s \in SignalInputs, ms \in ModelPanels, ps \in Priors :
          /\ PositiveMass(ms, ps)
          /\ ruling' = [signal |-> Merged(s, ms, ps), gates |-> gates, models |-> ms, priors |-> ps,
                        output |-> MetaEvaluate(s, gates, ms, ps)]
    /\ UNCHANGED gates

Trades(output) == output.decision \in {"BUY", "SELL"}

-----------------------------------------------------------------------------
\* The gates with none of that name, reported under one that nobody asks for.
WithoutGate(gs, n) ==
    [i \in DOMAIN gs |-> IF gs[i].name = n THEN [name |-> "Unasked", approved |-> TRUE] ELSE gs[i]]

\* A trade has every required gate's last word for it and depends on each: any of them
\* withdrawn or unreported, or any score taken away, leaves no trade; and a better score
\* never undoes one.
TradeIsUnanimous ==
    (ruling # <<>> /\ Trades(ruling.output)) =>
        LET s  == ruling.signal
            gs == ruling.gates
        IN /\ \A n \in RequiredGates :
                 /\ ~Trades(Evaluate(s, Append(gs, [name |-> n, approved |-> FALSE])))
                 /\ ~Trades(Evaluate(s, WithoutGate(gs, n)))
           /\ \A n \in RequiredScores :
                 ~Trades(Evaluate([s EXCEPT !.scores = [k \in DOMAIN @ \ {n} |-> @[k]]], gs))
           /\ \A n \in RequiredScores :
                 Trades(Evaluate([s EXCEPT !.scores = [@ EXCEPT ![n] = 100]], gs))

\* Models that do not believe in themselves are not traded on: unless the other evidence
\* makes up for it, votes below the threshold keep the confidence below it.
DoubtIsHeard ==
    (ruling # <<>> /\ ruling.signal.votes # <<>> /\ Trades(ruling.output)) =>
        LET s    == ruling.signal
            most == Max(Range(s.votes))
            best == Max({s.bull, s.bear, s.profit})
        IN 100 * most + best + 100 * Max(Range(s.scores)) >= 300 * MinConfidence - 1

\* The models' decision has no preferred side: with every probability mirrored a purchase
\* becomes a sale, and nothing else changes.
MetaMirrors ==
    (ruling # <<>> /\ ruling.models # <<>> /\ Trades(ruling.output)) =>
        LET mirrored == [i \in DOMAIN ruling.models |->
                            [ruling.models[i] EXCEPT !.probability = 100 - @]]
            other    == MetaEvaluate(ruling.signal, ruling.gates, mirrored, ruling.priors)
        IN {other.decision, ruling.output.decision} = {"BUY", "SELL"}

\* No trade is approved while the models disagree beyond the maximum conflict.
ConflictBlocks ==
    (ruling # <<>> /\ ruling.models # <<>> /\ Conflicting(ruling.models)) => ~Trades(ruling.output)
=============================================================================
