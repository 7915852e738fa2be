# StakeBot-PredictorSoftware: a TLA+ verification project

This directory holds TLA+ models of the trading platform in `src/`, the TLC
configurations that check them on small instances, and proofs, checked by
TLAPS, of the properties that matter most for every size of the instance.
File names below are relative to `src/src/institutional_trading_platform/`;
`README.md:n` means line n of the repository's own `src/README.md`.

## 1. The system and its parts

The platform predicts trades on Indian equities, trades them on paper, and
prepares (but by default never sends) orders for the Zerodha broker. It is a
collection of Python packages around three stateful cores. The first is a *paper
account* in SQLite, served by a multi-threaded web server. The second is a
*terminal* with a paper account of its own, in memory. The third is a *runtime*: a tick
pipeline, an approval workflow, an audit store, recovery, and the evidence and
governance gates in front of any real trade.

| Component | State it keeps | Operations | Talks to |
|---|---|---|---|
| Paper account engine (`paper_engine.py`) | SQLite tables `paper_account`, `paper_positions`, `paper_trades`; one `RLock` | `reset`, `add_balance`, `place_order`, `close_position`, `mark_price`, `status` | called by the paper web server |
| Paper web server (`paper_web_app.py`) | module-level `ENGINE`, a thread per request | `POST /api/order`, `/api/exit`, `/api/reset`, `/api/balance`, `GET /api/quote` | engine; Zerodha quotes |
| Terminal paper account (`web_app.py`) | dicts `_PAPER`, `_PAPER_SETTINGS`, `_LAST_QUOTES`; no lock | paper orders, position close, automatic trades, deposits, reset, settings, quotes | Zerodha quotes and history |
| Live order terminal (`web_app.py`) | dict `_PREVIEWS`, the flag `_KILL_SWITCH_ENABLED`, settings in the environment | order preview, order submit, kill switch | Zerodha margins, instrument file |
| Approval mode (`broker/approval_mode.py`) | none of its own; the requests its callers hold | `request_approval`, `approve` | reconciliation, preview wrapper, event bus |
| Order preview (`broker/order_preview.py`) | idempotency keys in the audit store | `preview`, `submit_real_order` (refuses by default) | audit store, event bus |
| Stop/target monitor (`broker/sl_target_monitor.py`) | `plans` by correlation id | `track`, `on_ltp` | preview wrapper, event bus |
| Broker reconciliation (`broker/reconciliation.py`) | `last_result` | `reconcile` | event bus; read by approval mode |
| Audit store and bus (`runtime/persistence.py`, `runtime/event_bus.py`) | SQLite `runtime_events`, `runtime_snapshots`, `processed_idempotency_keys` | `append`, `register_idempotency_key`, `save_snapshot`, `publish` | everything in the runtime |
| Crash recovery (`runtime/recovery.py`) | `last_status` | `recover` | audit store, event bus |
| Live paper runtime (`runtime/live_paper_engine.py`, `session_manager.py`) | the account, candles, counters of the report, ticks of the second | `on_tick` | candle builder, paper broker, risk monitor |
| Paper broker, portfolio, risk monitor (`paper_trading/`) | orders, fills, cash, positions | `place_order`, `check_exits`, `square_off_all`, `assess` | live paper runtime |
| Order router (`alpha_gate_x.py`) | duplicate guard, state of an order | `evaluate`, `route`, `transition` | broker adapter |
| Kill switch (`persistent_kill_switch.py`) | a JSON file | `activate`, `reset`, `is_active` | order paths |
| Candles, data quality, backtest (`market_data_spine.py`) | last tick, seen ids, forming candles | `check_tick`, `update_tick`, `run` | live paper runtime |
| Paper orders and shadow trading (`paper_order_manager.py`, `shadow_trading.py`) | simulated orders, positions, audit rows | `create_order`, `evaluate_order`, `cancel_order`, `mark_to_market`, `reset` | quote, signal and risk checks, audit log |
| Readiness and plans (`safe_config.py`, `readiness_gates.py`, `safe_trade_plan.py`) | none | `validateEnv`, `evaluate`, `build_safe_trade_plan` | order paths |
| Governance and audit logs (`runtime/governance.py`, `durable_audit_log.py`) | hash chain, a log file | `append`, `verify_range`, `write_event` | evidence packs |
| Backup and recovery drills (`runtime/ha_dr.py`) | backup directories, manifests | `create_backup`, `verify_backup`, `restore`, drills | audit store, gate |
| Monitoring (`runtime/monitoring.py`, `alerting.py`, `dashboard.py`) | incidents, metrics, alerts | `create`, `acknowledge`, `resolve`, `observe_event`, `handle_event` | evidence packs |
| Review gates (`runtime/manual_review.py`, `certification.py`, `shadow_run.py`, `evidence_pack.py`) | sign-offs, certificates, shadow days | `record_decision`, `generate`, `certify`, `evaluate` | governance, monitoring |
| Execution layer (`execution.py`, `execution_simulation.py`) | orders, positions | `submit`, `apply_fill`, `reconcile_positions`, the schedules, `simulate` | broker |
| Strategies and portfolio (`strategy_orchestration.py`, `portfolio.py`, `risk.py`) | registry of strategies | `allocate`, `aggregate`, `construct` | execution layer |
| Signal engines and indicators | gates by name, accuracy history | `evaluate`, `intraday_signal`, `signal_from_candles` | live runtime, terminal |
| Research, validation | trials, catalog of data | walk-forward, robustness and go-live checks, `register` | review gates |
| Derivatives, machine learning, AI auditor | none that survives a call | pure computations | dashboards |
| Dashboards and APIs (`runtime/api.py`, ...) | none of their own | read-only views | all of the above |

`PROJECT.json` lists every component, with what is modelled of it or why it is
not, and the hazards of the code, each with the property that covers it.

### Where it is hard

* **Concurrency.** `ThreadingHTTPServer` runs one thread per request over one
  `PaperEngine`. Everything rests on a re-entrant lock and on the fact that a
  connection commits as a whole. A MARKET order is a request with *two*
  transactions: its own quote is marked first, and that mark can stop out the
  position the order meant to close. The terminal has the same threads over
  plain dicts and no lock at all. The kill-switch file has several writers and
  no lock either.
* **Partial failure.** The approval workflow is a sequence of separate SQLite
  transactions: idempotency key, preview row, approval row. Every one can fail
  (`PersistenceUnavailable`), and the process can die between any two. A torn
  line of the audit log swallows the next one; a backup that dies leaves half a
  directory under an id that can be used again.
* **Restarts.** Databases and files outlive the process. Volatile state (the
  reconciliation result, tracked plans, previews, requests in callers' hands)
  does not.
* **Ordering and stale state.** `last_result` is assigned before its event is
  written; a live preview is submitted long after it was made; a rejected tick
  becomes the one the next is compared with; fills are reported in parts, late
  and in any order.
* **Accumulation.** Rows, keys and exit suggestions repeat; counts made from
  them, by several readers that each count in their own way, are where long
  legal histories go wrong.
* **Decision tables.** Gates, plans, checklists and scorecards are written
  twice or three times over (a verdict and a checklist, a certificate and a
  gate), and a missing input has to count for something in each.

### What makes each part correct

* *Paper account*: money is conserved; a position closes once; longs and
  shorts of a symbol never coexist; opening never overdraws; history is never
  lost except by a reset; stops and targets are enforced for every row when a
  price arrives; the lock is always given back.
* *Terminal paper account*: cash and cost of what is held equal what was put in
  and earned; one position per symbol; automatic trades within the day's limit
  and never into an existing position.
* *Live order terminal*: no live order is ever sent; a preview without
  objections had margin and quantity that were real numbers; objections do not
  go away by waiting.
* *Approval workflow*: one entry preview per correlation id for the life of the
  database; no approval without preview, no exit without exit preview; nobody
  holds a request that is not audited; requests only after reconciliation.
* *Recovery*: it never reports `RECOVERED` without a snapshot and a
  reconciliation, and its counts mean what they say.
* *Live runtime and paper broker*: cash equals what fills and charges leave;
  candles hold every accepted tick once; report and audit trail agree;
  a square-off leaves nothing open.
* *Order router*: an id reaches a broker once, and the live one only with both
  settings; an order moves along `ALLOWED`.
* *Kill switch*: what was stopped stays stopped across crashes until a
  confirmed reset.
* *Paper orders*: money, positions, order states and audit rows tell one story.
* *Governance*: alterations show; a restore gives back what was backed up; a
  pack is ready only on signatures, a certificate and good reports; the five
  readers of a shadow run agree.
* *Execution, capital, signals, evidence*: positions are what was filled; capital
  stays within its caps; a trade needs everything for it; what is measured does
  not know the future.

## 2. Modules

| Module | Models | Role |
|---|---|---|
| `PaperBook` | data of the paper account: rows, orders, margins, P&L, stops | operators |
| `PaperAccount` | the account as a user should see it: atomic operations, cash computed and not stored | abstract specification |
| `PaperEngine` | `paper_engine.py` under the threads of `paper_web_app.py` | detailed specification, refines `PaperAccount` |
| `PaperTerminal` | paper account, automatic trades, settings and kill switch of `web_app.py`, by any number of request threads | detailed specification |
| `PreviewLedger` | what the audit store promises: an id is claimed, shown and approved at most once, in this order | abstract specification |
| `ApprovalWorkflow` | approval mode, previews, monitor, reconciliation, recovery over one audit store | detailed specification, refines `PreviewLedger` |
| `PaperBroker` | `paper_trading/`: orders, fills, portfolio, risk monitor | operators, actions on one account |
| `MarketDataSpine` | tick quality and candle building of `market_data_spine.py` | operators |
| `LivePaperRuntime` | `runtime/live_paper_engine.py` over the two modules above | composition |
| `AlphaGateX` | risk gate, signal engine, router, order lifecycle of `alpha_gate_x.py` | specification |
| `Backtest` | replay and metrics of `market_data_spine.py` | specification over a growing tape; uses `AlphaGateX` |
| `IndicatorSignals` | `alpha_gate_x_indicators.py` and the gauges of `indicators/`, feeding `AlphaGateX` | composition |
| `KillSwitch` | the file of `persistent_kill_switch.py` | specification |
| `SafeOrders` | `paper_order_manager.py`; `shadow_trading.py` behind `market_data_safety.py`, `signal_safety.py` and `risk_engine.py` | specification |
| `TradePlan` | `safe_trade_plan.py` | decision table against its reference |
| `SafeReadiness` | `safe_config.py`, `readiness_gates.py` | decision table |
| `LiveTerminal` | live previews, submits and kill switch of `web_app.py` | specification |
| `AuditTrail` | hash chain of `runtime/governance.py`, file of `durable_audit_log.py` | specification |
| `DisasterRecovery` | `runtime/ha_dr.py` | specification |
| `ReviewGate` | `runtime/evidence_pack.py`, `certification.py`, `manual_review.py`, `monitoring.py` | specification |
| `ShadowRun` | the readers of the event log: metrics, dashboard, daily report, shadow status, alerts, orchestrator | specification |
| `OrderExecution` | `execution.py` | specification |
| `FillSimulator` | `execution_simulation.py` | function against its reference |
| `PortfolioConstruction` | `portfolio.py`, `risk.py` | function against its reference |
| `TradeValidation` | `validation/` | functions over a growing trade list |
| `StrategyDesk` | `strategy_orchestration.py` | specification |
| `FinalSignal` | `signal_engine.py`, `meta_decision.py` | specification |
| `LiveSignal` | `live_signal_engine.py` | specification |
| `ResearchDesk` | `advanced_research_pipeline.py`, gate of `research_ml.py`, catalog of `data_engineering.py` | specification |
| `MCPaperEngine`, `MCApprovalWorkflow`, `MCPaperTerminal` | instances for TLC | |
| `MCMarketDesk`, `MCOrderDesk`, `MCGovernanceDesk`, `MCExecutionDesk` | instances for TLC of a group of modules, with the properties of the group | |
| `SumLemmas` | what a sum over a function is: empty, split, extended, shortened, renumbered; lists with an element more or less; the largest of some numbers, and the smallest of them turned | lemmas |
| `PaperEngineProofs`, `PaperTerminalProofs`, `ApprovalProofs`, `MarketDeskProofs`, `OrderDeskProofs`, `GovernanceProofs`, `ExecutionProofs` | proofs | theorems |

Definitions named `X_Something` directly in front of a definition `X`, under a
comment that starts with *Mutant*, are plausible faults of the code. They are
not used by the specifications; each shows that one property would notice.

**Desks.** The four group modules put together parts that share operators but no
run of the program: the *desk* chosen in the initial state moves, the others
keep their initial state. Inside a desk the parts that do interact are
composed: ticks, candles, exits, risk monitor and broker in one `OnTick`;
health, signal and risk checks in one `ShadowOrder`; packs, certificates,
board and incidents at the review desk.

### PaperEngine: state and actions

The six database variables are the *committed* contents of the SQLite file;
`trades` is the history in the order of closing. `tx[t]` is what the open
transaction of thread `t` has issued so far: rows it will delete, the relative
change of `cash_balance`, rows still to be visited by the loop of
`mark_price`. `lock` is the owner of the engine's `RLock`; `quoted[t]` is the
MARKET order that waits for its own quote.

| Action | Code |
|---|---|
| `Reset`, `AddBalance`, `ClosePosition`, `PlaceLimit` | the method up to its last statement: lock, connection, SELECTs, guards |
| `Quote`, `PlaceMarket`, `RefuseMarket` | the two transactions of a MARKET order in `do_POST` |
| `MarkRow` | one turn of the loop in `mark_price` |
| `Commit`, `Rollback` | end of the `_connection` context manager |
| `Crash`, `Start` | the process dies; a new one runs `_initialize` over the same file |

Orders that the code refuses before any statement change nothing and are not
actions, except a refused MARKET order, which has marked its quote before.
Prices are integers; margins are counted in fifths of a price unit so that the
20 % intraday margin is exact. Rounding to two decimals is left out.

### PaperTerminal: state and actions

`open` holds the ids in `_PAPER["open_positions"]`, `heap` the position dicts,
which a thread may still hold after another closed them. A request is the record
`work[t]` with its local variables; `at` is its next access to shared data.
`autos` and `slack` are history: the automatic buys of the day, and how far
rounding of averages to a paisa may have moved the books.

| Action | Code |
|---|---|
| `Buy`, `Sell`, `PositionClose` | `_paper_order` and `_paper_position_close` up to the function they call |
| `AutoTrade` | `_live_signal` with a signal that passes, and its plan |
| `CheckCost`, `FindExisting`, `AppendPosition`, `ReadLot`, `AverageLot` | `_paper_open_long` |
| `ReadCash`, `WriteCash` | `_PAPER["cash_balance"] = ... _PAPER.get("cash_balance") ...`, wherever it occurs |
| `PartialClose`, `Reduce` | `_paper_partial_close_long` |
| `ClosePosition`, `StillOpen`, `AssignOpen`, `AppendTrade` | `_paper_close_position` |
| `MarketQuote`, `EvaluateNext` | a quote and the loop of `_paper_evaluate_positions` |
| `BalanceAdd`, `ReadStarting`, `RaiseStarting` | `_paper_balance_add` |
| `Reset`, `UpdateAccount`, `RestoreDefaults` | `_paper_reset`, whose `clear()` and `update()` others can see between |
| `SettingsUpdate`, `SetKillSwitch`, `NewDay` | settings (with their lower bounds), kill switch, change of date |

Amounts are paise. Signals, quotes that fail, the statement ledger and values for
display (last price, unrealized profit, the automatic trading state) are left
out; saving settings is one step.

### ApprovalWorkflow: state and actions

`log[c][row]` counts the rows of `runtime_events` of type `row` for correlation
id `c`; `keys` are the ids whose `preview:{id}` key is registered; `snapshot` is
the mode of the latest snapshot. These are durable. `recon`, `requests`,
`plans`, `recovery` are attributes of the services and of their callers, and are
lost in a restart; `compared` is a history variable, the pair of states that the
last reconciliation compared.

An operation in progress is the record `op`: the write that comes next (`at`),
the row it ends with, the object it hands out when that row is written (`give`),
and, for the monitor, the plans its loop has still to look at (`rest`).

| Action | Code |
|---|---|
| `RequestApproval`, `Approve`, `Decline` | `ApprovalModeService.request_approval`, `.approve` with and without the user's consent |
| `Reconcile` | `reconcile`, the whole comparison (`Matches`) |
| `Track`, `OnLtp`, `Continue` | the monitor, one plan of its loop at a time |
| `Recover`, `AppendStarted`, `Load`, `RecoveryFails` | `recover` with its try block |
| `RegisterKey`, `Duplicate` | `register_idempotency_key` and its primary-key violation |
| `AppendPreview`, `AppendOutcome`, `AppendAudit` | `PersistentEventBus.publish` |
| `Unavailable` | `PersistenceUnavailable` out of any of these |
| `Restart` | the process dies and a new one opens the database |

The two services may be wired in two ways the constructors allow: the wrapper
given to the monitor has the idempotency store, or has not. The constant
`ExitsKeyed` says which; the theorems hold for both. `SLTargetMonitor.track` has
no caller in the sources; it is modelled as called with plans of approved ids,
which is what its class docstring and README.md:361 say it is for.

### The market desk

`OnTick` is the whole of `on_tick`, for a tick that is accepted, rejected or
blocked: quality check, candles of all time frames, exits, square-off, risk
monitor, order, fill, and the event of each. The signal generator is passed to
the engine and is external: a completed candle gives a signal or none, with a
correlation id that is new or used before. `account` is the broker with its
portfolio; prices are in hundredths; time is in units of the shortest frame and
goes on over midnight.

| Action | Code |
|---|---|
| `OnTick` | `LivePaperTradingEngine.on_tick` and everything it calls |
| `AssessRisk`, `Evaluate`, `Route` | `RiskGate.assess`, `AlphaGateXEngine.evaluate`, `OrderRouter.route` in each mode, with or without an approval and an attached broker |
| `Transition` | `OrderStateMachine.transition` |
| `AppendCandle` | one more candle, and `run` of both kinds over the longer tape |
| `Compose`, `Measure` | `IndicatorSignalComposer` over six readings; an indicator over a chart, a book or counts |

### The order desk

`switchFile` is the file itself: missing, torn (truncated and not yet written)
or what it says; `keeping[k]` the call of one process. In `SafeOrders` the two
books have the same shape; `judged` is the last shadow order with everything it
was judged by. `LiveTerminal.settings` is the environment of the process,
`previews` the dict `_PREVIEWS`.

| Action | Code |
|---|---|
| `BeginActivate`, `BeginReset`, `Truncate`, `WriteState`, `Die` | `activate`, `reset` with or without confirmation, the two steps of `write_text`, a crash between them |
| `PaperOrder`, `PaperCancel`, `PaperMark` | `create_order`, `cancel_order`, `mark_to_market` of the paper manager |
| `ShadowOrder`, `ShadowCancel`, `ShadowReset` | the order path as `_shadow_evaluate` wires it: quote, `SafeSignal`, `RiskAllows`, `evaluate_order`; `mark_to_market` of the shadow engine has no caller |
| `Plan` | `build_safe_trade_plan` and the enriched signal |
| `EvaluateGates` | `validateEnv` and `ReadinessGateEvaluator.evaluate` |
| `PreviewLiveOrder`, `SubmitLiveOrder`, `SetWebKill` | the three routes of `web_app.py` |
| `InstrumentsChange`, `ServerRestarts` | the instrument file appears or goes; a new process with other settings |
| `CallPlaceOrder`, `CallCheckExits`, `CallSquareOff` | `place_order`, `check_exits`, `square_off_all` of the paper broker, called on its own in any order |

Prices and margins of a live preview may be NaN, which `float` makes of a text,
or missing; `Below` is Python's `<`, false whenever NaN takes part.

### The governance desk

| Action | Code |
|---|---|
| `AppendEvent`, `AlterChain` | `append`; one change of the stored list: an entry altered, taken out, moved, or the tail cut |
| `WriteEvent`, `WriteFails` | `write_event`, which may raise after writing part of a line |
| `EditSource`, `CreateBackup`, `CrashBackup`, `Damage`, `VerifyBackup`, `Restore`, `Assess` | the program rewrites its files; `create_backup`, dying inside `copytree`; a copy rots; `verify_backup`; `restore` into an empty or the live directory; drills, readiness, retention and continuity |
| `Supply`, `Generate`, `Certify`, `Decide` | a report of a component; an evidence pack; a certificate made of a pack; `record_decision` |
| `CreateIncident`, `Acknowledge`, `Resolve` | `IncidentManager` |
| `RunEvent`, `NextDay`, `ChangeChecks`, `Start`, `IngestTick` | an event is stored, observed and offered to the alerts; `ShadowTradingOrchestrator.start` and `.ingest_tick` |

`altered`, `acked`, `restored` and the pack's `signed` are history: what was done to the
chain, which writes returned, what a restore was of, who had signed when the pack was made.
Hashes and checksums are taken to be injective.

### The execution desk

| Action | Code |
|---|---|
| `SubmitOrder`, `BrokerFills`, `ApplyFill` | `order_from_signal` and `submit`; the broker (external) fills a part; its report arrives, in any order, `apply_fill` |
| `Slice` | the TWAP, VWAP, iceberg and participation schedules |
| `FillNext` | `ExecutionSimulator.simulate` |
| `Propose`, PortfolioConstruction's `Measure` | `PortfolioConstructionEngine.construct`; historical VaR, CVaR, drawdown |
| `CloseTrade`, `Judge`, `WalkForward` | one more closed trade; go-live gate, robustness score and recommendation; the windows |
| `RegisterStrategy`, `AllocateCapital`, `Decide`, `Compare` | registry, health and allocation, joint decision, similarity |
| `ReportGate`, `Rule`, `MetaRule` | a gate is reported; `FinalSignalEngine.evaluate`; `MetaDecisionEngine.evaluate` |
| `AskSignal`, `KeepSignal` | `signal_from_candles`; a row of the history that `accuracy_report` reads |
| `JudgeWindow`, `FollowCandle`, `EndTrial` | the ensemble's signal, the candles after it one by one, the outcome |
| `SplitCandles`, `JudgeModel` | walk-forward splits; gate, risk report and recommendation for a model |
| `RegisterContract`, `RegisterDataset`, `RegisterFeature` | the catalog of `data_engineering.py` |

Percentages, ratios and scores are integers in the unit each module names in its
header; what the code rounds or truncates is rounded or truncated the same way
where a comparison follows.

## 3. Runs

| Run | Instance | Shows |
|---|---|---|
| `paper_engine` | 2 threads, 1 symbol, 2 prices, 4 kinds of order (long with stop, delivery long with target, short with far target, delivery sale), 2 position ids, 1 reset amount, 1 top-up | `TypeOK`, `MoneyConserved`, `ClosedOnce`, `OneSidedBook`, `OpensAreFunded`, `HistoryKept`, `ExitsEnforced`, and refinement of `PaperAccount` |
| `paper_engine_live` | 2 threads, intraday longs, fairness | `LockReleased` |
| `paper_terminal` | 1 thread, 1 symbol, 2 prices (their average is a rounding tie), brackets, 2 kinds of settings, 2 position ids, 1 deposit | `TypeOK`, `MoneyConserved`, `OnePositionPerSymbol`, `NeverOverdrawn`, `AutoNeverScalesIn`, `AutoWithinLimits` when requests come one at a time |
| `terminal_lost_update` | 2 threads, 1 symbol | `MoneyConserved` when requests overlap: violated, see below |
| `approval_workflow` | 2 ids, 1 plan per id, 2 broker states, 2 exits per id | `TypeOK` (in particular of what recovery reports), `PreviewedOnce`, `DecisionsPreviewed`, `RequestsAudited`, `ReconciledFirst`, and refinement of `PreviewLedger` |
| `approval_recovery` | 1 id, 6 broker and 3 local states, repeated rows, two kinds of plan, two snapshot modes, the monitor's wrapper with the key store | `ShownOnce` |
| `market_desk` | 5 ticks of 8 kinds (next, later, late, repeated, stale, without price, without time zone), 3 time frames; 3 trading modes, risk contexts at each limit and one past it; tapes of 4 candles | `RuntimeSound`, `SignalsRead`, `RoutedOnce`, `SquareOffLeavesNothing`, `BacktestSound` |
| `order_desk` | 3 writers of the kill switch; 4 orders per book, one deviation from the good case at a time; every plan request; every pair of faults before the gates; 2 live previews; 3 orders of the broker | `KillSound`, `PaperOrdersSound`, `DecisionsSound`, `PreviewsSound`, `AccountSound` |
| `governance_desk` | chains of 4, 5 log writes, 2 files and 2 backups with 2 changes, 2 board roles, 1 incident, one report missing or bad at a time, 3 events over 2 days | `AuditSound`, `RestoreSound`, `ReviewSound`, `ShadowSound` |
| `execution_desk` | 3 submits, 5 closed trades, 4 rows of accuracy, 3 research trials, small sets of portfolios, books, votes and time frames | `OrdersSound`, `CapitalSound`, `SignalsSound`, `EvidenceSound` |
| `meta_conflict`, `portfolio_sector` | one desk of `MCExecutionDesk` | a disagreement each, see below |

A property of a desk is the conjunction of the named claims of its modules; each
claim is defined, with what it says, in the module it is about:

| Property | Its claims |
|---|---|
| `RuntimeSound` | every order is one signal's, in the trail and in the report (`FillsArePositions`, `ReportMatchesAudit`); every accepted tick's volume is in one candle of every frame, candles do not overlap (`VolumeConserved`, `CandlesNeverOverlap`) |
| `AccountSound` | cash is explained by closings and charges (`CashExplained`), positions by fills (`PositionsBounded`) |
| `SignalsRead` | a riskier context is never let through where a calmer one is not (`GateMonotone`); longs and shorts are judged alike (`SignalSymmetric`, `ChartsReadBothWays`); hiding an indicator never makes a trade (`HidingNeverTrades`); `LifecycleOrdered`, `TradeGraded`, `GaugesSound` |
| `RoutedOnce` | an id reaches a broker once, the live one only with both settings, in approval mode only with a yes |
| `BacktestSound` | reported drawdown is the worst fall (`DrawdownIsWorstFall`); profit, loss and expectancy add up to it; later candles change no earlier trade (`NoLookAhead`) |
| `KillSound` | a stop holds (`StopHolds`) and ends only by a confirmed reset (`ResumedByReset`) |
| `PaperOrdersSound` | `PaperBooksBalance`, `OrdersAudited`, `FilledOnlyWhenSafe`, `SignalChecksAgree` |
| `DecisionsSound` | a plan's levels are on the right sides and treat both sides alike (`PlanSound`, `PlanMirrors`); verdict and checklist agree (`ReadyMatchesChecklist`, `LiveNeedsEverything`) |
| `PreviewsSound` | only the deliberate refusal can remain (`OnlyRefusalRemains`), clean previews are covered by real numbers (`CleanPreviewIsCovered`), blocked ones stay blocked (`BlockedStaysBlocked`) |
| `AuditSound` | every alteration but a lost tail shows, however the range is split (`AlterationsShow`, `RangesCompose`); a torn line costs one event at most (`TornCostsOne`) |
| `RestoreSound` | a verified restore gives back the backup (`RestoreGivesBack`, `RestoreCovers`); gate and continuity report agree |
| `ReviewSound` | a ready pack had good reports, every signature and a certificate (`ReadyPackIsSound`, `ReadyWasSigned`); certificate, gate and quality report agree but for the sections named there (`JudgesAgree`); doing everything right gets there (`CycleCloses`) |
| `ShadowSound` | metrics, dashboard, days, status and gate count alike (`MetricsAgree`, `DaysAddUp`, `ShadowAgreesWithGate`), one alert per event (`AlertedOnce`), no tick unaccounted for (`TicksAccountedFor`) |
| `OrdersSound` | breaks are what is undelivered (`BreaksAreUndelivered`), `PositionsWithinPolicy`, `ScheduleSound`, `DepthFillSound`, `GoodScoreMeansGoodFill` |
| `CapitalSound` | `ApprovedWithinLimits`, `SizedByRisk`, `TailsOrdered`, `AllocationsHold`, `DecisionsAreEarned`, `TwinsAreWarned` |
| `SignalsSound` | `TradeIsUnanimous`, `DoubtIsHeard`, `MetaMirrors`, `LevelsSound`, `SignalMirrors`, `TradesAreConfirmed`, `ReportIsHonest` |
| `EvidenceSound` | nothing is passed that the evidence does not carry, seen out of sample (`PassedTradesArePassable`, `LosingRunIsLongest`, `ReviewIsEvidenced`, `WindowsDoNotLeak`, `SplitsDoNotLeak`, `ReadyModelsAreClean`, `TrialsArePessimistic`, `SummaryIsWhole`, `LineageNeverDangles`, `EnsembleBuysOnly`) |

**Bounds.** `Ids` bounds how many positions are ever opened, `MaxDeposit` how
far top-ups go, `MaxRows` how often one id is requested or rejected, `MaxExits`
how often its exit is suggested. Two ids of positions are enough for a position
and its successor, or two rows in one loop of `mark_price`. Two threads are
enough for every race of two operations; the theorems cover any number. Two
prices give a stop that is and one that is not reached. Two correlation ids
let rows of one id mask those of another in recovery's counts. Threads and ids
are symmetric where the properties are safety properties. In the terminal
`MaxIds` bounds the positions ever opened, `MaxLots` the shares of a symbol,
`MaxTrades` when manual exits still start; the balance is topped up only while it
is at most the initial one. One thread is the point of its passing run: it says
that the arithmetic and the rules are right when requests do not overlap; the
run with two threads shows what happens when they do.

At the desks: `MaxTicks` = 5 is enough for an entry, its exit, a second entry and
the square-off, and for a night in between; `MaxBookLength` and `MaxOrders` let
a position be opened, closed and opened again; `MaxTape` = 4 gives two trades and
a candle after them; `MaxChain` = 4 lets an entry in the middle be taken out or
moved; `MaxWrites` = 5 a torn line, its victim and good lines around them;
`MaxBackups` = 2 an id used twice or two ids; `MaxHappened` = 3 with `LastDay` = 2
an event whose effect crosses midnight; `MaxSubmits` = 3 a replaced order with an
earlier one still being filled; `MaxTrades` = 5 a losing run on either side of a
win; `MaxStances` = 2 a gate reported twice under one name; `MaxPreviews` = 2,
`MaxRows`, `MaxTrials` and `ForwardBars` = 2 likewise a case and its neighbour.
Inputs of decision tables sit at each threshold and one step to either side.

**Fairness.** Only `LockReleased` needs any: a thread that holds the lock keeps
running its statements and commits (`WF` of `MarkRow(t) \/ Commit(t)` per
thread). Python and SQLite do run the holder of a lock; nothing is assumed of
requests arriving, of threads that wait, or of the process not crashing.

**Deadlock** is checked for the paper engine, the terminal and the approval
workflow: a server that is down can start, and one that is idle can serve. At
the desks it is not: they stop when their bounded inputs are used up, or after
the one question a decision table is asked.

### Disagreements between documents, tests and code

With a run that shows them:

* `terminal_lost_update`: the tests say what a deposit and a reset leave; when
  they overlap, one balance is increased and the other is not
  (`web_app.py:563`).
* `meta_conflict`: `meta_decision.py:63` adds a refused gate when the models
  disagree; `FinalSignalEngine` looks at the required gates only
  (`signal_engine.py:204`) and trades.
* `portfolio_sector`: `portfolio.py:455` says target sectors are handled before
  allocation and README.md:861 that allocations are clipped; the division at
  `portfolio.py:430` undoes the clip, and candidates of one sector are approved
  above its cap.

Read in the code and followed by the models, without a run of their own:

* Two overlapping buys open two positions of a symbol (`web_app.py:652`), where
  the tests say the second averages into the first: with two threads
  `OnePositionPerSymbol` fails too.
* KILL_SWITCH_RUNBOOK.md:12 and PAPER_TRADING_GUIDE.md:35 say an active kill
  switch blocks paper orders; `_paper_order` does not look at one. The switch of
  the web page is in memory only and a restart takes it back.
* README.md:351 and :367 say that requests are blocked unless reconciliation
  passed; `approve` does not look at the status of the request it is handed, so
  a `BLOCKED` one is approved (with the quantity zero it carries).
* README.md:361 says the monitor suggests exits; with the idempotency store in
  its wrapper the exit preview reuses the key of the entry preview, is refused
  as a duplicate, and `on_ltp` raises.
* README.md:523 speaks of *unresolved* approvals; the count includes those that
  were approved. README.md:351 speaks of comparing positions; only symbols the
  broker reports are compared.
* README.md:1265 lists robustness evidence; a pack without it can be certified,
  because a missing robustness, strategy, option or execution section says so
  in its text alone. `ReviewSound` names the sections.
* README.md:285 speaks of daily reset support; nothing calls
  `PaperRiskMonitor.reset_daily`, so the limit on trades is one of the life of
  the process.

Other behaviour the models follow and the properties are stated with: the
research ensemble can never decide to sell; a SELL of the paper manager closes
the whole position whatever its quantity; the RSI and ATR remarks of the live
engine do not block a trade; losing the tail of a hash chain does not show; a
kill switch whose status is unavailable does not block `PAPER_READY`; the exit
inside a backtest candle is assumed to be the stop when both levels are
touched; an order id the live checks refused is spent.

## 4. Proofs

Theorems hold for every value of the constants that satisfies the named
assumptions `BookAssumption`, `EngineAssumption`, `ApprovalAssumption`,
`TerminalAssumption`, `GateAssumption`, `NumbersAssumption`, `SafeAssumption`,
`FlawsAssumption`, `DRAssumption`, `RunAssumption`, `BrokerAssumption`,
`SpineAssumption`, `RuntimeAssumption`, `PlanAssumption`, `ReadyAssumption`,
`ExecutionAssumption`, `SimAssumption`, `ContextAssumption`,
`IndicatorAssumption`, `ThresholdAssumption`, `PanelAssumption`, `InputAssumption`,
`ModelAssumption`, `PriorAssumption`, `LiveAssumption`, `CapsAssumption`,
`PortfolioAssumption`, `SeriesAssumption`, `AllocationAssumption`, `RegistryAssumption`,
`TrackedAssumption`, `VoteAssumption`, `HistoryAssumption`, `ValidationAssumption`,
`StudyAssumption`, `SplitAssumption`, `DossierAssumption`, `BacktestAssumption`: any number
of threads, symbols, ids, prices, orders, plans, broker states, processes, settings, roles,
files, events, scores, ticks, timeframes, gates, models, portfolios, strategies, closed
trades, candles and sessions. The assumptions say that prices, sizes and thresholds are
numbers of the sign the code's own guards ask for and that inputs have the fields the code
reads. Three ask for more than the function that takes the input looks at: a backtest starts
with no debt (`BacktestAssumption`; `BacktestConfig` takes any number, 100000 unless told
otherwise); a candle a trial is followed through closes between its low and its high
(`StudyAssumption`), as `MarketBar` (`domain.py:89`) refuses any other, though
`clean_candles` takes one as it comes; and the step of a split is positive
(`SplitAssumption`), since with zero `walk_forward_splits` of the research pipeline would
not end. Every inductive invariant below was an invariant of a TLC run before it was proved.

**Sums.** Money is a sum over a table or a list. `SumLemmas` proves what the
other modules need to know about `SumFunction`: it does not depend on the order
in which its fold chooses elements (`FoldTotals`), is a number, is 0 over
nothing, adds up over two disjoint parts, grows and shrinks by the term that is
added or taken out, and does not change when its terms are renumbered. The
induction is over subsets of a finite set: a set of counterexamples that is not
empty has a smallest member, and that one cannot be.

**PaperEngine.** None of `ClosedOnce`, `OneSidedBook`, `OpensAreFunded` is
inductive: each depends on what the open transaction read before it commits.
`EngineInv` adds it. `LockInv` says an active transaction belongs to the owner
of the lock, so there is at most one. `Inserting` and `Closing` say that the
statements of that transaction still fit the database: the rows it deletes are
there, the id it inserts is new and on the right side of the book, and the cash
it takes is there. Because nobody else can commit in between, what was read is
still true at the commit. `EngineInvariant` proves this for each action, with a
lemma per action, and the others follow: `TypeCorrect`, `PositionsCloseOnce`,
`BookIsOneSided`, `OpensFunded`, `HistoryIsKept`.

For the money, `AccountInv` adds `Unopened` (an account no start has created is
empty) and `StatementsFit`: the statements of an open transaction are those one
request issues, with a change of cash worth the margin it reserves, or the
margins and profits of the rows it closes, and the rows its loop has left
behind were not reached by the price. A commit then changes cash, margins and
realized profit by the same amounts, which is `MoneyIsConserved`;
`ExitsAreEnforced` is what `StatementsFit` says of a loop that has ended. With
the spendable cash computed from conserved money, a commit is exactly one atomic
operation of `PaperAccount` and everything else is a stutter:
`EngineImplementsAccount`.

**PaperTerminal.** Two invariants. `Typed` holds for any number of threads: a
step finds the locals it uses set by the steps before it, and the dicts it holds
still exist, because a position dict is never deleted, only left out of the open
list. From it `TypesAreKept`. `Serial` needs `OneThread`: what a request read is
still so when it writes (`Current`), what it pays or is paid is what its position
changes by (`Exact`), and what it has moved in one of cash and open list but not
yet in the other is what the books are out by (`Balanced`). Without a lock this
is all the code gives: `terminal_lost_update` shows it fail for two threads. From
it `OnePositionIsHeld`, `BalanceIsNeverOverdrawn`, `AutoBuysOpenPositions`,
`TerminalConservesMoney`, `AutoBuysWithinLimits`.

**ApprovalWorkflow.** `WorkflowInv` says what an operation may rely on between
two durable writes. When the preview of an approval is about to be written, its
key is registered and no preview exists; when the approval row is about to be
written there is exactly one preview and no approval; the object about to be
handed out is the one whose row is being written; a pending request row means
this process has compared and agreed. `WorkflowInvariant` proves it; from it
follow `PreviewsOnce`, `DecisionsRestOnPreviews`, `HeldRequestsAreAudited`,
`RequestsReconciled`, and `LedgerImplemented`: every step of the workflow is a
step of `PreviewLedger` or a stutter. `WorkflowTypes` adds the counts recovery
reports. `IdsAreShownOnce` is about the wiring in which the monitor's wrapper has
the key store (`ExitsKeyed`): there every preview, of an entry or of an exit,
stands behind a key of its own.

**KillSwitch.** `StopHolds` is not inductive without the types of the calls under
way and the fact that a stop stands only while no confirmed reset is running;
`KillInvariant` adds both. A truncated file counts as active, so neither step of
`write_text` of an activation, nor a crash in it, lets go; a reset takes the
promise back when it begins. `StopIsDurable` is the invariant, `KillIsSound`
adds the action property `ResumedByReset`.

**SafeOrders.** `SafeInv`: per book, positions have different symbols and fills
are positions plus twice the sales; for the paper manager, costs, cash, profit
and audit rows. `OrderOutcome` reduces `create_order` to its three ends (blocked,
bought, sold), each end keeps the invariant by one lemma about sums and one about
counts, and so do cancellations, marks and resets. That a fill went by every
check is a walk through `RiskAllows` and `SafeSignal` (`FillsAreSafe`,
`ChecksAgree`). Together they are `PaperOrdersAreSound`.

**Paper broker.** Between two calls an account has no two open positions of one
id, at most `MaxOpenPositions` of them, no more positions than fills, and cash
that its closings and charges explain (`AccountInv`). Both exits are one loop over
the positions that were open, a recursive function; `CloseAllPasses` says what is
true after n turns of it (`Passed`): what was not looked at is still there, each
closing moved cash and realized profit by the same amount, and if every position
had a price nothing is left. That the equation has a solution is proved too
(`LoopExists`). A fill opens a position or, for an id that is held, is charged and
raises; the invariant holds of both. `AccountIsSound` follows.

**Live runtime.** `RuntimeInv` is about the engine between two ticks (`EngineOK`):
each id that was ordered is one fill, one position held or closed, and one event
of each of three kinds; each counter of the report is a number of events; the
account is one of a broker, with no id used twice, even after it was closed. A
tick takes the engine through candles, exits, a route and a square-off; each is an
operator from an engine to an engine and keeps `EngineOK`, and none but the last
reject touches the counts of ticks, bad ticks and errors (`Kept`), so the lemmas
chain along the loop over the timeframes (`AfterCandlesKeeps`). An order is never
refused: the risk assessment before it has seen a free place, its quantity is one,
and its id is in no position because it is not among those ordered
(`SignalOrderFills`). For the candles the invariant needs the grid: what is forming
begins at a multiple of its timeframe. A tick that completes it is at or past its
end, the next multiple, and the candle it begins is at the last multiple not after
the tick, so never before that end (`CandleSteps`); timeframes divide the day, or
the grid would start anew at midnight. The volumes are a sum over the symbols of
which one term grows by one (`SumReplaced`). `RuntimeIsSound` and, because the
square-off is the last step of a tick and closes all that is open after its
candles, `SquareOffIsComplete`.

**AlphaGateX router.** `RouterInvariant`: what was sent has a spent id, a positive
quantity, and fits the mode the router was built with, which never changes. An
id is spent before anything is sent, so the next one sent is not among them:
`RoutesOnce`.

**Signals and gauges.** `SignalsInv` says what the last decision, signal, composition
and gauge are: the gate's answer to the context in hand, the engine's answer to scores
and status, the composer's and the gauge's to their inputs; and that the states an
order went through lie each at a later stage than the one before (`Stage`, a rank the
table of allowed moves respects), so none comes twice. The rest is about operators. The
final score is a sum over the six factors: negated scores negate each term
(`FinalTurns`), a hidden reading takes a term out, and the threshold leaves no room for
that to make a trade (`HiddenLess`). What a chart turned over at its last close scores
is followed candle by candle through the filter of complete candles
(`CompleteTurns`), then through the extremes before a sweep, which swap
(`BeforeTurns`), the volumes, which stay, and the averages of a trend, whose
differences change sign. A candle that sweeps both extremes is the one that may read the same
both ways, since the code looks for the low first; danger is a sale either way; both
are exceptions of the property. The pressure on the VWAP is not turned over, as its ratio is not
symmetric; its side is proved (`PressureSide`). `SignalsAreRead`.

**Backtest.** `TapeInv` says only that the tape holds candles; the trades are worked out
from it anew. Both the candles a kind of run takes and the trades it makes are recursive
functions over the steps, so a tape that is a candle longer takes the same candles and then
perhaps one (`OrderedGrows`), a trade depends on no candle after the one it is entered at
(`SameTrade`), and what was made before is a prefix of what is made now (`TradesGrow`). Of
finitely many falls one is the largest (`LargestShare`, by a smallest set without one:
comparing by cross multiplication is transitive where the wholes are positive). A fall
from a lower point is a lesser share than that from the running peak (`LesserFall`), but
only to a point that is not below zero: an equity of 100, 200, -100 has lost 3/2 of its peak
and twice its start. `DrawdownIsWorstFall` therefore asks for a low that is not in debt, or for
a high none was above before the low. `_metrics` reports the first of the two figures; nothing in
the engine stops a backtest at zero. Profit and loss are the sums over two
disjoint sets of trades and the rest add nothing (`ProfitLessLoss`). `BacktestIsSound`.

**LiveTerminal.** `TerminalInvariant`: settings change only in a restart, which
forgets every preview, so the objections kept with a preview are those the
settings in force have; and the last answer is that of the present state. From
it `PreviewsAreSound`. NaN is only assumed to be no integer: the theorem holds
because every comparison that admits an order is written to fail on it.

**Plans and readiness.** A plan and the verdict on a setup are worked out anew each
time, so `DecisionInv` says only that the plan in hand is the one of the request in
hand; the work is about `Build`. Its levels are integers in hundredths, so a tenth
of a range and `MinReward` tenths of a risk are exact, and the ratio, which is
rounded, still reaches what is asked (`BuiltIsSound`). For the mirror image the loop
over the candles is followed turn by turn: what is usable stays usable, the true
ranges are the same, so is their sum, and the lowest low becomes the highest high
because turning a set of numbers swaps its extremes (`TurnedExtremes`). The levels
then swap with it, and what was not refused on one side is not refused on the other
as long as all prices stay positive, which is what `Turnable` asks; there the two
sides of the code do differ. `DecisionsAreSound`.

**Governance.** `ChainInv`: a chain is valid, entry by entry, exactly when nothing
inside it was altered; the failures a range reports are those of its entries,
each judged by the one before it, so ranges compose. `LogInv`: readable lines
stand in the order of their events, and a write that returned without leaving its
line follows one that failed. With both, `AuditIsSound`. `DRInv`: an id under
which nothing was begun has no files, and a drill says what its evidence says;
`RestoreIsSound` follows from what a merge of directories is. `GateInv`: reports
are wrong only in the ways they can be, and a certificate that is ready has no
failures; `ReviewIsSound` is a walk through the four judges. `RunInv`: each metric
is the count of its kinds of events and the counts of the days add up to the
count of the log; `ShadowIsSound` compares the readers from it.

**Execution layer.** `OrdersInv` says what orders, fills and reports owe each other:
the reports under way about an order add up to no more than the broker filled of it
(`OwedOf`); a position is the sum, over the orders of its instrument, of what was
filled and is not owed (`AppliedTo`); with what is late it is the sum of what was
filled. A fill adds a term to two of these sums, an applied report moves one from the
last to the first, so the breaks are exactly what is late, and a position stays
within the sum of the orders' shares of the volume. A schedule is a list of
quantities, the differences of what is left after each slice, so they add up to what
was asked (`SumTelescopes`); rounding a volume curve down leaves less than one per
bucket, which the first of the largest takes. In the simulator what is taken from
the levels is at most what each offers and all of what is filled, so the average
price lies between the best and the worst level touched (`SumCompares`); a good
score leaves no room for what each of the four warnings costs. `OrdersAreSound`.

**Signal engines.** `SignalsInv` says where a decision comes from: a ruling is what
the final engine answers to the gates reported so far and an input, or the meta engine
to models of positive weight; a live signal is that of its frames; the history is rows of
decisions and outcomes. The rest is about what the engines compute.
A trade has nothing against it (`TradeIs`); each gate withdrawn, unreported, or score
taken away is something against it, and a better score only raises the mean and,
because rounding keeps order (`RoundedGrows`), the confidence (`UnanimityHolds`). The
confidence is at most the mean of the best probability, score and vote (`ConfidenceCosts`).
Weights of mirrored models are the same and their beliefs add up to the whole; Python's
`round` takes a half to the even neighbour, so what is rounded still does
(`RoundedMirrors`), and both sides are merely exchanged (`MirroredMerge`). In the live
engine a frame turned upside down has the opposite trend, the same score and the same
remarks (`MirrorKeeps`). The loop of the report keeps, after every row, the highest sum
so far and the deepest fall from one, and these are sums of consecutive rows
(`DeepestIs`). `SignalsAreSound`.

**Portfolios and strategies.** `CapitalInv` says that what the engines hold was worked out
from what they were given: a portfolio from its request, the measures from their series, the
shares from the scores of the strategies registered, the decision from its votes, the
comparison from its histories. The rest is about what is worked out. An approved portfolio
has no reason against it; each claim of `ApprovedWithinLimits` is one reason not given,
read back: a symbol's value is below its cap because the report compared it, the fall between any
two points of the equity is below the limit because the highest point so far is no lower
than the first of them (`FallsKept`), and a pair is looked up in either order. What is
bought is a candidate that nothing held it back (`Eligible`, kept along the recursive
function of those taken), and its quantity the lesser of two quotients, of which the second
times the distance to the stop is within the budget (`QuantityHolds`). In `TailsOrdered` a
value at risk is no worse than the worst return because it is one of them or zero, and the
conditional one no less because it is the mean of numbers none of which is better. Shares
are quotients that round down, so they sum to no more than the whole, and a share is a function
of what a strategy did and scored, so twins get the same (`AllocationsKept`). That taking the
opponents away never makes a decision less sure is an inequality between two rounded
quotients (`DecisionsEarned`): against y, x gains x - y less a part of it, and alone x. For
`TwinsAreWarned` a series is correlated with itself exactly when it moves, since its covariance is
a sum of squares, one of them positive; both the covariance and the overlap do not depend
on which of two strategies comes first. `CapitalIsSound`.

**Validation and research.** `EvidenceInv` has four parts, one for each desk: trades are
some of those a strategy may close, and a verdict is what the gate and the validator say of
them and of one piece of evidence (`ValidationKept`); a study follows a signal the ensemble
gave, through candles that may follow, and keeps outcomes that are possible (`StudyKept`); an
answer is that of what was judged (`JudgedKept`); every dataset has a known contract and every
feature known datasets (`CatalogKept`), which is inductive because nothing is ever taken out of
the catalog. The rest is about what is worked out.
The equity after a trade is the capital and the sum up to it, and the highest so far is
no lower than any before, so a fall within the limit from the peak is one from each earlier
point (`PassedIsPassable`). The loop that counts losses in a row is followed by what
stands behind each trade, so its largest value is a run that is there, and a longer one would
have been counted at its end (`LongestIsLongest`). Without failures no symbol and no day has
more than half of the profits, and the winners are those of a value and the others
(`SpreadProfits`). Windows and splits are multiples of their step (`WindowsApart`, `SplitsApart`).
A mean of seventy-two leaves no room for an adapter without a vote, so all five vote;
the alpha adapter is for a sale only on a volume on which another has no vote, hence for
a purchase, and so is the trend; only the adapter that looks at returns may be against it
(`TradedUnopposed`, `OnlyPurchases`). An outcome depends on
the first candle that touches a level, which is the same one in every longer future
(`FirstOfPrefix`, `Unhindsighted`); the trials of a backtest are the hits, those without a
trade and the rest, and the sum of their results is at least twice the ATR of each hit less
one of each of the rest (`WholeSummary`). Evidence added to a dossier removes a failure and
adds none, and no warning depends on it (`EvidenceHelps`). `EvidenceIsSound`.

**Model-checked only.** `LockReleased`: it is liveness under fairness, which the installed
provers cannot handle. Every other property of a passing run is stated by a theorem.

## 5. Not modelled, and why

* Option prices and Greeks, the training and statistics of `ml_ai.py` and
  `research.py`, alpha, regime and microstructure features: real arithmetic
  without state. EMA, RSI, covariances are inputs of the modules that use them.
* Zerodha authentication, instruments and market data: calls of an SDK; the
  quotes and ticks they make are inputs.
* Dashboards, pages and the runtime API: read-only. The AI auditor: a call to an
  external model. `submit_real_order` keeps no state: it answers that real
  orders are blocked.
* Configuration hardening, security checks, cost reports: checks of one input.
* A portfolio is asked for with one candidate per symbol, and what is held is long
  (`IsPortfolio`): the engine keeps weights, rejections and exposures by symbol, so a
  second candidate of the same one would be sized again and counted once.
* A panel of models holds one signal per source (`ModelAssumption`): the meta engine keeps
  weights and votes by name, and with two of one name would count the last one's twice.
* In the modelled parts, rounding of money (but for the terminal), reasons and
  message texts, timestamps where only their order or age matters, and
  read-only queries are abstracted. `create_json_backup` writes one file and is
  an instance of `CreateBackup`. Roles, four-eyes control and policy texts of
  governance, latency figures and SLO arithmetic of monitoring are reports the
  review desk is supplied with, good, bad or missing. A second process over the same SQLite file is outside the
  model of the paper account: the documented deployment has one.

## 6. Plan

What would add most next: a refinement for the live runtime (an abstract book of
orders, fills and closings that `OnTick` implements); the file race of the kill
switch composed with the order paths that read it; metrics and orchestrator with a
bus that drops or repeats events.
