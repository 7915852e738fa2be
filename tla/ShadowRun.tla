------------------------------ MODULE ShadowRun ------------------------------
(***************************************************************************)
(* What is read off the runtime's event log, by parts that each count for  *)
(* themselves: the running metrics, the dashboard, the daily reports, the  *)
(* shadow-run status and the alerts; and the orchestrator that decides     *)
(* whether ticks reach the engine.  Events are stored, then observed, then *)
(* offered to the alert manager, which stores its alert if the bus did not.*)
(***************************************************************************)
EXTENDS Integers, FiniteSets, Sequences, SequencesExt, FiniteSetsExt

CONSTANTS Happenings,  \* the kinds of events that occur
          LastDay,     \* bound on the days
          MaxHappened, \* bound on the events other than alerts
          MinDays, MinSignals, MaxBadData, MinUptime, MaxRiskBlocks, MaxDrawdown

\* Alerts and refused ticks are made here; the thresholds are numbers.
ASSUME RunAssumption ==
    /\ {"alert", "shut"} \cap Happenings = {} /\ LastDay \in Nat \ {0}
    /\ {MinDays, MinSignals, MaxBadData, MinUptime, MaxRiskBlocks, MaxDrawdown} \subseteq Int

VARIABLES
  events,    \* the log: [kind, day]
  today,
  metrics,   \* RuntimeMetrics
  wired,     \* the store is subscribed to the bus
  sessions,  \* the orchestrator's state: "BLOCKED", "RUNNING" or "SAFE_RECOVERY"
  checks,    \* what its start-up checks would find now
  ingested   \* the ticks handed to the orchestrator

runVars == <<events, today, metrics, wired, sessions, checks, ingested>>

-----------------------------------------------------------------------------
\* RISK_BLOCKED comes with a stale feed, another data fault, the kill switch, a
\* closed orchestrator, or another reason; PAPER_PNL_UPDATED with a gain, a loss, or a loss in deep drawdown.
Blocks     == {"stale", "malformed", "killSwitch", "refused", "shut"}
BadData    == {"stale", "malformed"}
PnlUpdates == {"gain", "loss", "deepLoss"}
Ticks      == {"tick", "brokerTick"}
Down       == {"disconnected", "authFailed"}
Pnl        == [gain |-> 2, loss |-> -1, deepLoss |-> -1]
Drawdown   == [gain |-> 0, loss |-> 0, deepLoss |-> 16]

CountIn(log, kinds)    == Cardinality({i \in DOMAIN log : log[i].kind \in kinds})
CountOn(log, d, kinds) == Cardinality({i \in DOMAIN log : log[i].day = d /\ log[i].kind \in kinds})
LastOne(log, kinds) == Max({0} \cup {i \in DOMAIN log : log[i].kind \in kinds})

-----------------------------------------------------------------------------
NoMetrics == [ticks |-> 0, candles |-> 0, signals |-> 0, approvals |-> 0, previews |-> 0,
              realOrders |-> 0, passes |-> 0, fails |-> 0, stale |-> 0, kill |-> FALSE]

\* The counter an event belongs to.
Counter == [tick |-> "ticks", brokerTick |-> "ticks", candle |-> "candles",
            signal |-> "signals", approval |-> "approvals", preview |-> "previews",
            realOrder |-> "realOrders", reconciled |-> "passes", drift |-> "fails",
            stale |-> "stale"]

\* Mutant: the broker's ticks are not counted.
Observe_OneFeed(m, kind) ==
    IF kind = "killSwitch" THEN [m EXCEPT !.kill = TRUE]
    ELSE IF kind \in DOMAIN Counter \ {"brokerTick"} THEN [m EXCEPT ![Counter[kind]] = @ + 1]
    ELSE m

\* observe_event; the flag of the kill switch is never taken back.
Observe(m, kind) ==
    IF kind = "killSwitch" THEN [m EXCEPT !.kill = TRUE]
    ELSE IF kind \in DOMAIN Counter THEN [m EXCEPT ![Counter[kind]] = @ + 1] ELSE m

\* DashboardSummaryService.summary, counted anew from the log.
Dashboard(log) ==
    [candles |-> CountIn(log, {"candle"}), signals |-> CountIn(log, {"signal"}),
     approvals |-> CountIn(log, {"approval"}), previews |-> CountIn(log, {"preview"}),
     realOrders |-> CountIn(log, {"realOrder"}),
     reconciliation |->
         LET passed == LastOne(log, {"reconciled"})
             failed == LastOne(log, {"drift"})
         IN  IF passed = 0 /\ failed = 0 THEN "UNKNOWN"
             ELSE IF passed > failed THEN "PASSED" ELSE "FAILED",
     auth |-> IF LastOne(log, {"connected", "authFailed"}) = 0 THEN "UNKNOWN"
              ELSE IF LastOne(log, {"connected"}) > LastOne(log, {"authFailed"})
              THEN "CONNECTED" ELSE "AUTH_FAILED",
     websocket |-> IF CountIn(log, {"brokerTick"}) > 0 THEN "CONNECTED"
                   ELSE IF CountIn(log, {"disconnected"}) > 0 THEN "DISCONNECTED"
                   ELSE "UNKNOWN",
     staleFeed |-> CountIn(log, {"stale"}) > 0, kill |-> CountIn(log, {"killSwitch"}) > 0]

\* DailyShadowReportGenerator.generate: the events dated that day.
DailyReport(log, d) ==
    [ticks |-> CountOn(log, d, Ticks), signals |-> CountOn(log, d, {"signal"}),
     realOrders |-> CountOn(log, d, {"realOrder"}), drifts |-> CountOn(log, d, {"drift"}),
     stale |-> CountOn(log, d, {"stale"}), badData |-> CountOn(log, d, BadData),
     alerts |-> CountOn(log, d, {"alert"})]

\* ShadowRunValidator.status.
Total(log, of(_)) == FoldLeft(LAMBDA s, e : s + of(e.kind), 0, log)
Gain(k)  == IF k \in PnlUpdates /\ Pnl[k] > 0 THEN Pnl[k] ELSE 0
Fall(k)  == IF k \in PnlUpdates /\ Pnl[k] < 0 THEN 0 - Pnl[k] ELSE 0
Status(log) ==
    LET up == CountIn(log, {"connected", "brokerTick"})
    IN  [days |-> Cardinality({e.day : e \in {log[i] : i \in {j \in DOMAIN log :
                                              log[j].kind \in Ticks \cup {"signal"}}}}),
         signals |-> CountIn(log, {"signal"}), realOrders |-> CountIn(log, {"realOrder"}),
         drifts |-> CountIn(log, {"drift"}), stale |-> CountIn(log, {"stale"}),
         badData |-> CountIn(log, BadData), blocks |-> CountIn(log, Blocks),
         uptime |-> (up * 100) \div Max({up + CountIn(log, Down), 1}),
         drawdown |-> Max({0} \cup {Drawdown[log[i].kind] :
                             i \in {j \in DOMAIN log : log[j].kind \in PnlUpdates}}),
         gains |-> Total(log, Gain), losses |-> Total(log, Fall),
         updates |-> CountIn(log, PnlUpdates),
         wins |-> CountIn(log, {"gain"})]

\* Profit factor 1.5 and win rate 50 %, of the shadow run and of the gate alike.
ProfitEnough(s) == IF s.losses = 0 THEN s.gains > 0 ELSE 2 * s.gains >= 3 * s.losses
WinsEnough(s)   == s.updates > 0 /\ 2 * s.wins >= s.updates

\* _failures: what keeps the shadow run from READY_FOR_MANUAL_REVIEW.
ShadowFailures(s) ==
    {c \in {"days"} : s.days < MinDays} \cup {c \in {"samples"} : s.signals < MinSignals}
    \cup {c \in {"realOrders"} : s.realOrders # 0} \cup {c \in {"drift"} : s.drifts # 0}
    \cup {c \in {"uptime"} : s.uptime < MinUptime} \cup {c \in {"data"} : s.badData > MaxBadData}
    \cup {c \in {"drawdown"} : s.drawdown > MaxDrawdown}
    \cup {c \in {"profit"} : ~ProfitEnough(s)} \cup {c \in {"wins"} : ~WinsEnough(s)}
    \cup {c \in {"blocks"} : s.blocks > MaxRiskBlocks}

\* What the manual-review gate asks of the same status.
GateStatus(s) ==
    /\ s.days >= MinDays /\ s.signals >= MinSignals /\ s.drifts = 0 /\ s.realOrders = 0
    /\ s.badData <= MaxBadData /\ s.stale <= MaxBadData /\ s.drawdown <= MaxDrawdown
    /\ ProfitEnough(s) /\ WinsEnough(s)

-----------------------------------------------------------------------------
\* _alert_for: the events that raise an alert.
Alerting == Blocks \cup Down \cup {"drift", "approval", "exit", "unresolved", "deepLoss"}

\* handle_event publishes the alert and then stores it, unless the store, wired to the
\* bus, has it already.
Alerted(log, isWired, kind) == IF kind \in Alerting THEN <<"alert">> ELSE <<>>

Stored(log, kind) ==
    LET kinds == <<kind>> \o Alerted(log, wired, kind)
    IN  log \o [i \in DOMAIN kinds |-> [kind |-> kinds[i], day |-> today]]

Happened(log) == Cardinality({i \in DOMAIN log : log[i].kind # "alert"})

Happen(kind) ==
    /\ events' = Stored(events, kind)
    /\ metrics' = Observe(metrics, kind)

RunInit ==
    /\ events = <<>> /\ today = 1 /\ metrics = NoMetrics /\ wired \in BOOLEAN
    /\ sessions = "BLOCKED" /\ checks = "ok" /\ ingested = 0

RunEvent == \E kind \in Happenings \ Ticks :
    /\ Happened(events) < MaxHappened /\ Happen(kind)
    /\ UNCHANGED <<today, wired, sessions, checks, ingested>>

NextDay == /\ today < LastDay /\ today' = today + 1
           /\ UNCHANGED <<events, metrics, wired, sessions, checks, ingested>>

\* The configuration, the store, the recovery, the broker session or the
\* reconciliation turns bad or good.
ChangeChecks == /\ checks' \in {"ok", "failing", "unrecovered"} \ {checks}
                /\ UNCHANGED <<events, today, metrics, wired, sessions, ingested>>

\* start: every check passes or the orchestrator does not run, whatever it did before.
Start ==
    /\ sessions' = CASE checks = "ok" -> "RUNNING" [] checks = "failing" -> "BLOCKED"
                     [] checks = "unrecovered" -> "SAFE_RECOVERY"
    /\ UNCHANGED <<events, today, metrics, wired, checks, ingested>>

\* ingest_tick: handed to the engine, or a RISK_BLOCKED.
IngestTick == \E kind \in Ticks \cap Happenings :
    /\ Happened(events) < MaxHappened /\ ingested' = ingested + 1
    /\ IF sessions = "RUNNING" THEN Happen(kind) ELSE Happen("shut")
    /\ UNCHANGED <<today, wired, sessions, checks>>

RunNext == RunEvent \/ NextDay \/ ChangeChecks \/ Start \/ IngestTick

RunSpec == RunInit /\ [][RunNext]_runVars

-----------------------------------------------------------------------------
\* The counters that were kept event by event say what the log says.
MetricsAgree ==
    LET d == Dashboard(events)
    IN  /\ <<metrics.candles, metrics.signals, metrics.approvals, metrics.previews>>
             = <<d.candles, d.signals, d.approvals, d.previews>>
        /\ metrics.realOrders = d.realOrders /\ metrics.kill = d.kill
        /\ (metrics.stale > 0) = d.staleFeed
        /\ metrics.ticks = CountIn(events, Ticks)
        /\ (d.reconciliation = "PASSED") => metrics.passes > 0
        /\ metrics.passes + metrics.fails > 0 <=> d.reconciliation # "UNKNOWN"

\* The daily reports add up to the status of the whole run.
DaysAddUp ==
    LET s      == Status(events)
        sum(f) == SumFunction([d \in 1 .. LastDay |-> DailyReport(events, d)[f]])
    IN  /\ sum("signals") = s.signals /\ sum("realOrders") = s.realOrders
        /\ sum("drifts") = s.drifts /\ sum("stale") = s.stale /\ sum("badData") = s.badData
        /\ sum("ticks") = metrics.ticks

\* A shadow run that calls itself ready is accepted by the gate; and the other way
\* round but for the uptime and the number of risk blocks, which the gate leaves out.
ShadowAgreesWithGate ==
    LET s == Status(events)
    IN  GateStatus(s) <=> ShadowFailures(s) \subseteq {"uptime", "blocks"}

\* Each event that calls for an alert has one in the log, stored once.
AlertedOnce == CountIn(events, Alerting) = CountIn(events, {"alert"})

\* Every tick that came reached the engine or left a RISK_BLOCKED behind.
TicksAccountedFor == CountIn(events, Ticks) + CountIn(events, {"shut"}) = ingested

\* The counters kept while the shadow run goes, its dashboard, its days and the gate that
\* accepts it say what its log says, with one alert for each event that calls for one.
ShadowSound ==
    MetricsAgree /\ DaysAddUp /\ ShadowAgreesWithGate /\ AlertedOnce /\ TicksAccountedFor
=============================================================================
