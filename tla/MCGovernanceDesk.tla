-------------------------- MODULE MCGovernanceDesk --------------------------
(***************************************************************************)
(* Governance for TLC: the audit chain and log, backups and restores, the  *)
(* reading of the event log, and the manual-review gate.  The desk chosen  *)
(* at the start moves.                                                     *)
(***************************************************************************)
EXTENDS AuditTrail, DisasterRecovery, ReviewGate, ShadowRun

VARIABLE desk

\* s with one field changed: every way of leaving the good case by one step.
Variants(good, change) ==
    {good} \cup UNION {{[good EXCEPT ![f] = v] : v \in change[f]} : f \in DOMAIN change}

MCAssessments ==
    Variants([ages |-> <<1>>, run |-> {"process_crash"}, chain |-> TRUE, database |-> TRUE],
             [ages |-> {<<2>>, <<2, 1>>, <<1, 372>>, <<1, 373>>},
              run |-> {{}, {"process_crash", "missing_backup"}, {"snapshot_corruption"},
                       {"stale_backup"}},
              chain |-> {FALSE}, database |-> {FALSE}])

\* Some reports can be missing, some can be bad, some both.
MCFlaws ==
    {[report |-> x, as |-> "none"] : x \in Reports \ AlwaysThere}
    \cup {[report |-> x, as |-> "bad"] : x \in Reports \ Unjudged}

-----------------------------------------------------------------------------
vars == <<desk, chainVars, logVars, drVars, gateVars, runVars>>

\* Where the desk does not move, the flaw and the wiring do not matter.
Init ==
    /\ desk \in {"chain", "log", "recovery", "review", "shadow"}
    /\ AuditInit /\ DRInit /\ GateInit /\ RunInit
    /\ desk = "review" \/ flaw = CHOOSE f \in Flaws : TRUE
    /\ desk = "shadow" \/ wired = FALSE

Next ==
    \/ /\ desk = "chain" /\ ChainNext
       /\ UNCHANGED <<desk, drVars, gateVars, runVars>>
    \/ /\ desk = "log" /\ LogNext
       /\ UNCHANGED <<desk, drVars, gateVars, runVars>>
    \/ /\ desk = "recovery" /\ ~drill.asked /\ DRNext
       /\ UNCHANGED <<desk, chainVars, logVars, gateVars, runVars>>
    \/ /\ desk = "review" /\ GateNext
       /\ UNCHANGED <<desk, chainVars, logVars, drVars, runVars>>
    \/ /\ desk = "shadow" /\ RunNext
       /\ UNCHANGED <<desk, chainVars, logVars, drVars, gateVars>>

Spec == Init /\ [][Next]_vars
=============================================================================
