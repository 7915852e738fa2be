----------------------------- MODULE ReviewGate -----------------------------
(***************************************************************************)
(* From evidence to the manual-review verdict (runtime/evidence_pack.py,   *)
(* certification.py, manual_review.py, monitoring.py, governance.py).  A   *)
(* pack is a snapshot of the reports supplied by then; a certificate is    *)
(* made from a pack and goes into the next one; a board of reviewers       *)
(* signs; incidents come and go.  The gate reads one pack.                 *)
(***************************************************************************)
EXTENDS Integers, FiniteSets, FiniteSetsExt

CONSTANTS Flaws, \* [report, as]: the report that may be wrong, and what it is then
          Roles, \* of the review board
          Incidents

Reports ==
    {"validation", "snapshot", "robustness", "strategies", "options", "execution", "research",
     "dr", "slo", "routing", "compliance", "approvals", "policies", "chain", "status", "config"}

\* Reports whose contents nobody judges: they are there or they are not.
Unjudged == {"validation", "snapshot", "config", "research"}

\* What the generator computes or takes as empty is never missing.
AlwaysThere == {"policies", "chain", "status"}

\* A report goes wrong in a way that it can.
ASSUME FlawsAssumption ==
    Flaws \subseteq {[report |-> x, as |-> "none"] : x \in Reports \ AlwaysThere}
                  \cup {[report |-> x, as |-> "bad"] : x \in Reports \ Unjudged}

VARIABLES
  flaw,      \* the one that may happen
  supplied,  \* per report "good", "bad" or "none" (not supplied)
  incidents, \* per critical incident: not yet "created", then its status
  resolvedAt,\* the incidents whose resolution time is recorded
  board,     \* per role the last decision, "none" before
  pack,      \* the last pack: [reports, open, signed, certificate], or NoPack
  certificate\* the last certificate: see Certified

gateVars == <<flaw, supplied, incidents, resolvedAt, board, pack, certificate>>

NoCertificate == [made |-> FALSE]
NoPack        == [made |-> FALSE]

-----------------------------------------------------------------------------
\* The sections of a pack.  A missing report leaves an empty section (validation,
\* snapshot, config), one marked DATA_UNAVAILABLE (research, dr, certificate), one
\* that says so in its texts alone (robustness, strategies, options, execution), or
\* one like a good report's (slo, routing, compliance, approvals).
EmptySections(r)       == {x \in {"validation", "snapshot", "config"} : r[x] = "none"}
UnavailableSections(r) == {x \in {"research", "dr"} : r[x] = "none"}
SpokenSections         == {"robustness", "strategies", "options", "execution"}
DefaultedReports       == {"slo", "routing", "compliance", "approvals"}

\* EvidenceQualityValidator: the required sections that are missing.  The section for
\* the certificate itself is not required of the pack that is certified.
Missing(r) == EmptySections(r) \cup UnavailableSections(r)

\* certify_area: the areas that fail or lack their data.  A report that is bad in any
\* other way passes, at most with warnings.
FailedAreas(r) ==
    UnavailableSections(r) \cup {x \in {"policies"} : r[x] = "bad"}
UnavailableAreas(r) == EmptySections(r) \ {"config"}

ScorecardReady(r) == FailedAreas(r) = {} /\ UnavailableAreas(r) = {}

\* The scorecard, the quality report and the final readiness made of them.
Certified(p) ==
    LET missing == Missing(p.reports)
    IN  [made |-> TRUE, failed |-> FailedAreas(p.reports), missing |-> missing,
         acceptable |-> missing = {}, ready |-> ScorecardReady(p.reports) /\ missing = {}]

-----------------------------------------------------------------------------
Good == [x \in Reports |-> "good"]

GateInit ==
    /\ flaw \in Flaws /\ supplied = Good
    /\ incidents = [i \in Incidents |-> "none"] /\ resolvedAt = {}
    /\ board = [r \in Roles |-> "none"]
    /\ pack = NoPack /\ certificate = NoCertificate

\* The flaw comes and goes.
Supply(v) ==
    /\ supplied[flaw.report] # v
    /\ supplied' = [supplied EXCEPT ![flaw.report] = v]
    /\ UNCHANGED <<flaw, incidents, resolvedAt, board, pack, certificate>>

CreateIncident(i) ==
    /\ incidents[i] = "none"
    /\ incidents' = [incidents EXCEPT ![i] = "open"]
    /\ UNCHANGED <<flaw, supplied, resolvedAt, board, pack, certificate>>

\* acknowledge asks nothing of the incident's status: a resolved one is open again.
Acknowledge(i) ==
    /\ incidents[i] # "none"
    /\ incidents' = [incidents EXCEPT ![i] = "acknowledged"]
    /\ UNCHANGED <<flaw, supplied, resolvedAt, board, pack, certificate>>

Resolve(i) ==
    /\ incidents[i] # "none"
    /\ incidents' = [incidents EXCEPT ![i] = "resolved"]
    /\ resolvedAt' = resolvedAt \cup {i}
    /\ UNCHANGED <<flaw, supplied, board, pack, certificate>>

Unresolved == {i \in Incidents : incidents[i] \in {"open", "acknowledged"}}

\* A decision replaces the role's earlier one; it names no pack and no certificate.
Decide(r, approved) ==
    /\ board' = [board EXCEPT ![r] = IF approved THEN "approved" ELSE "rejected"]
    /\ UNCHANGED <<flaw, supplied, incidents, resolvedAt, pack, certificate>>

\* Mutant: no rejection is enough.
BoardCompleted_NoRejection == \A r \in Roles : board[r] # "rejected"

BoardCompleted == \A r \in Roles : board[r] = "approved"

Generate ==
    /\ pack' = [made |-> TRUE, reports |-> supplied, unresolved |-> Unresolved,
                signed |-> BoardCompleted, certificate |-> certificate]
    /\ UNCHANGED <<flaw, supplied, incidents, resolvedAt, board, certificate>>

Certify ==
    /\ pack.made
    /\ certificate' = Certified(pack)
    /\ UNCHANGED <<flaw, supplied, incidents, resolvedAt, board, pack>>

GateNext ==
    \/ \E v \in {"good", flaw.as} : Supply(v)
    \/ \E i \in Incidents : CreateIncident(i) \/ Acknowledge(i) \/ Resolve(i)
    \/ \E r \in Roles, approved \in BOOLEAN : Decide(r, approved)
    \/ Generate \/ Certify

GateSpec == GateInit /\ [][GateNext]_gateVars

-----------------------------------------------------------------------------
\* The checks of the gate, per group of sections.  Without a report on them, service
\* levels, routing and compliance pass, and so does the absence of approvals.
EvidencePasses(r)   == \A x \in SpokenSections : r[x] = "good"
MonitoringPasses(p) == p.unresolved = {} /\ \A x \in {"slo", "routing"} : p.reports[x] # "bad"

\* A supplied compliance report stands for itself; without one the default has only
\* the chain to fail on.
GovernancePasses(r) == /\ r["chain"] = "good" /\ r["policies"] # "bad"
                       /\ r["approvals"] # "bad" /\ r["compliance"] # "bad"
DRPasses(r)         == r["dr"] = "good"
CertificatePasses(p) ==
    /\ p.certificate.made
    /\ p.certificate.acceptable /\ p.signed
    /\ p.certificate.failed = {} /\ p.certificate.missing = {}

\* ManualReviewGate.evaluate, given the shadow status of the moment.
Verdict(p, status, runbook) ==
    IF ~p.made \/ ~runbook THEN "BLOCKED_FOR_REVIEW"
    ELSE IF /\ status = "good"
            /\ EvidencePasses(p.reports) /\ MonitoringPasses(p) /\ GovernancePasses(p.reports)
            /\ DRPasses(p.reports) /\ CertificatePasses(p)
    THEN "READY_FOR_MANUAL_REVIEW" ELSE "CONTINUE_SHADOW"

ReadyForReview == Verdict(pack, supplied["status"], TRUE) = "READY_FOR_MANUAL_REVIEW"

-----------------------------------------------------------------------------
\* No report known to be bad when the pack was made is in a pack that is ready, and the
\* only reports that may be missing from it are those whose absence counts as good,
\* and those that only the certificate looks for.
ReadyPackIsSound ==
    ReadyForReview =>
        /\ \A x \in Reports \ {"status"} : pack.reports[x] # "bad"
        /\ \A x \in Reports : pack.reports[x] = "none" =>
              x \in DefaultedReports \cup Unjudged

\* A pack that is ready was made when no critical incident was open, acknowledged or
\* not, all roles had approved, and a certificate without failures had been made.
ReadyWasSigned ==
    [][~ReadyForReview /\ ReadyForReview' =>
          \/ /\ Generate /\ (\A r \in Roles : board[r] = "approved") /\ certificate.made /\ certificate.failed = {}
             /\ \A i \in Incidents : incidents[i] \in {"none", "resolved"}
          \/ pack' = pack /\ supplied["status"] # "good"]_gateVars

\* The scorecard and the quality report judge the same sections through different code:
\* what makes an area fail or lack data is missing to the other, but for policies.
JudgesAgree ==
    pack.made =>
        LET r == pack.reports
        IN  /\ FailedAreas(r) \cup UnavailableAreas(r) \subseteq Missing(r) \cup {"policies"}
            /\ Missing(r) = {} /\ r["policies"] # "bad" => ScorecardReady(r)
            /\ Missing(r) \ {"config"} # {} => ~ScorecardReady(r)

\* Certification can begin and end: a pack of good evidence is certified though it has
\* no certificate of its own yet, and the pack made next, when the board has signed and
\* no incident is open, passes.
CycleCloses ==
    /\ pack.made /\ pack.reports = Good => Certified(pack).ready
    /\ pack.made /\ pack.reports = Good /\ pack.unresolved = {} /\ pack.signed
         /\ pack.certificate.made /\ pack.certificate.ready
         => Verdict(pack, "good", TRUE) = "READY_FOR_MANUAL_REVIEW"

\* A pack is ready on good reports, all signatures and a certificate; the judges of its
\* sections agree; and a team that does everything right gets there.
ReviewSound == [](ReadyPackIsSound /\ JudgesAgree /\ CycleCloses) /\ ReadyWasSigned
=============================================================================
