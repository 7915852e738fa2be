---------------------------- MODULE SafeReadiness ----------------------------
(***************************************************************************)
(* From the environment to a verdict: validateEnv (safe_config.py) decides *)
(* the trading mode and the limits, ReadinessGateEvaluator (readiness_     *)
(* gates.py) says from them and from what the other parts report whether   *)
(* paper and shadow trading are ready.  Live trading never is.             *)
(***************************************************************************)
EXTENDS Integers, FiniteSets, FiniteSetsExt

CONSTANTS Environments, \* the environments that may be read: see EnvironmentSet
          Reports       \* what the parts may report: see Blocked

EnvironmentSet ==
    [requested : STRING, live : BOOLEAN, broker : BOOLEAN, database : BOOLEAN,
     quantity : Int, confidence : Int]

ReportSet ==
    [broker : {"none", "readonly", "mutating", "silent"}, market : BOOLEAN,
     kill : {"none", "active", "inactive"}, audit : {"none", "empty", "events"},
     live : {"none", "open", "blocked"}, mutation : {"none", "open", "ordered", "blocked"},
     paper : BOOLEAN, shadow : BOOLEAN]

ASSUME ReadyAssumption ==
    Environments # {} /\ Environments \subseteq EnvironmentSet /\ Reports \subseteq ReportSet

VARIABLES environment, \* the environment read
          reported     \* the parts' reports, "none" where a part did not answer

readyVars == <<environment, reported>>

-----------------------------------------------------------------------------
KnownModes == {"READ_ONLY", "PAPER", "SHADOW", "LIVE_DISABLED", "LIVE_ENABLED"}

\* Three checks in a row, each of which may only take LIVE_ENABLED away.
ConfiguredMode(env) ==
    IF env.requested \notin KnownModes THEN "PAPER"
    ELSE IF env.requested = "LIVE_ENABLED" /\ ~(env.live /\ env.broker /\ env.database)
    THEN "LIVE_DISABLED"
    ELSE env.requested

LiveTradingEnabled(env) == env.live /\ ConfiguredMode(env) = "LIVE_ENABLED"

RiskLimitsOf(env) ==
    [quantity   |-> Max({0, env.quantity}),
     confidence |-> Max({0, Min({100, env.confidence})})]

-----------------------------------------------------------------------------
SafeModes == {"PAPER", "SHADOW", "READ_ONLY", "LIVE_DISABLED"}

\* The reasons of evaluate.  A silent broker reports no mutation_enabled, an
\* "ordered" mutation endpoint is blocked and yet names a broker order.
Blocked(env, r) ==
    {x \in {"UNSAFE_TRADING_MODE"} : ConfiguredMode(env) \notin SafeModes}
    \cup {x \in {"LIVE_TRADING_ENABLED"} : LiveTradingEnabled(env)}
    \cup {x \in {"BROKER_MUTATION_NOT_DISABLED"} : r.broker \in {"mutating", "silent"}}
    \cup {x \in {"KILL_SWITCH_STATUS_UNAVAILABLE"} : r.kill = "none"}
    \cup {x \in {"KILL_SWITCH_ACTIVE"} : r.kill = "active"}
    \cup {x \in {"AUDIT_REPORT_UNAVAILABLE"} : r.audit = "none"}
    \cup {x \in {"AUDIT_EVIDENCE_MISSING"} : r.audit = "empty"}
    \cup {x \in {"LIVE_ORDER_NOT_BLOCKED"} : r.live = "open"}
    \cup {x \in {"BROKER_MUTATION_NOT_BLOCKED"} : r.mutation \in {"open", "ordered"}}
    \cup {x \in {"PAPER_ENDPOINT_UNAVAILABLE"} : ~r.paper}
    \cup {x \in {"SHADOW_ENDPOINT_UNAVAILABLE"} : ~r.shadow}

\* A kill switch that cannot be read is not among them.
PaperBlockers ==
    {"UNSAFE_TRADING_MODE", "KILL_SWITCH_ACTIVE", "AUDIT_REPORT_UNAVAILABLE",
     "AUDIT_EVIDENCE_MISSING", "PAPER_ENDPOINT_UNAVAILABLE"}

PaperReady(env, r)  == r.paper /\ Blocked(env, r) \cap PaperBlockers = {}
ShadowReady(env, r) == PaperReady(env, r) /\ r.shadow

\* checklist: the items that fail.  A part that did not answer fails its item.
FailedItems(env, r) ==
    {x \in {"trading_mode_safe"} : ConfiguredMode(env) \notin SafeModes}
    \cup {x \in {"live_trading_disabled"} : LiveTradingEnabled(env)}
    \cup {x \in {"broker_read_only_health_available"} : r.broker = "none"}
    \cup {x \in {"broker_mutation_disabled"} : r.broker = "mutating"}
    \cup {x \in {"paper_order_manager_available"} : ~r.paper}
    \cup {x \in {"shadow_engine_available"} : ~r.shadow}
    \cup {x \in {"persistent_kill_switch_readable"} : r.kill = "none"}
    \cup {x \in {"kill_switch_inactive"} : r.kill # "inactive"}
    \cup {x \in {"durable_audit_log_has_evidence"} : r.audit # "events"}
    \cup {x \in {"live_order_submit_blocked"} : r.live # "blocked"}
    \cup {x \in {"broker_mutation_endpoint_blocked"} : r.mutation \notin {"blocked", "ordered"}}
    \cup {x \in {"market_data_health_available"} : ~r.market}

Level(env, r) == IF ShadowReady(env, r) THEN "SHADOW_READY"
                 ELSE IF PaperReady(env, r) THEN "PAPER_READY" ELSE "BLOCKED"

-----------------------------------------------------------------------------
EvaluateGates == \E env \in Environments, r \in Reports : environment' = env /\ reported' = r

ReadyNext == EvaluateGates

-----------------------------------------------------------------------------
\* The verdict and the checklist are made apart from the same evidence and agree:
\* what is ready fails no item but those of the live path, of the broker, and of a
\* kill switch that did not answer; a blocked verdict always shows a failed item,
\* but two reasons of the broker show in no item.
ReadyMatchesChecklist ==
    LET failed == FailedItems(environment, reported)
        level  == Level(environment, reported)
    IN /\ level # "BLOCKED" =>
             failed \subseteq {"live_trading_disabled", "broker_read_only_health_available",
                               "broker_mutation_disabled", "shadow_engine_available",
                               "persistent_kill_switch_readable", "kill_switch_inactive",
                               "live_order_submit_blocked", "broker_mutation_endpoint_blocked",
                               "market_data_health_available"}
       /\ level # "BLOCKED" /\ "kill_switch_inactive" \in failed => reported.kill = "none"
       /\ level = "SHADOW_READY" => "shadow_engine_available" \notin failed
       /\ level = "BLOCKED" => failed # {}
       /\ failed = {} => Blocked(environment, reported) \subseteq
             {"BROKER_MUTATION_NOT_DISABLED", "BROKER_MUTATION_NOT_BLOCKED"}

\* No environment that lacks one of the four settings enables live trading, one
\* that has them all is never ready for paper, and the mode that came out, asked
\* for again, stays what it is.
LiveNeedsEverything ==
    LET env == environment IN
    /\ LiveTradingEnabled(env)
          <=> env.requested = "LIVE_ENABLED" /\ env.live /\ env.broker /\ env.database
    /\ LiveTradingEnabled(env) => Level(env, reported) = "BLOCKED"
    /\ ConfiguredMode([env EXCEPT !.requested = ConfiguredMode(env)]) = ConfiguredMode(env)
    /\ RiskLimitsOf(env).quantity >= 0 /\ RiskLimitsOf(env).confidence \in 0 .. 100
=============================================================================
