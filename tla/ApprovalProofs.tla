--------------------------- MODULE ApprovalProofs ---------------------------
(***************************************************************************)
(* Proofs about ApprovalWorkflow, for every set of correlation ids, plans, *)
(* prices, broker states and local states, in both wirings of the monitor: *)
(* WorkflowInv is inductive, and the workflow implements PreviewLedger.    *)
(***************************************************************************)
EXTENDS ApprovalWorkflow, SumLemmas, TLAPS

\* Beginning an operation, and going on, keep the operation well-formed.
LEMMA StepType ==
    ASSUME NEW at \in {"key", "preview", "outcome", "audit", "started"},
           NEW c \in Corrs \cup {NoCorr}, NEW row \in Outcomes,
           NEW give \in SUBSET Requests
    PROVE  /\ Step(at, c, row, give) \in Operations
           /\ Step(at, c, row, give).at = at
           /\ Step(at, c, row, give).corr = c
           /\ Step(at, c, row, give).row = row
           /\ Step(at, c, row, give).give = give
           /\ Step(at, c, row, give).rest = {}
  BY DEF Step, Idle, Operations

\* The fields of the idle operation.
LEMMA IdleType ==
    /\ Idle \in Operations /\ Idle.at = "idle" /\ Idle.row = "REJECTED"
    /\ Idle.give = {} /\ Idle.rest = {}
  BY DEF Idle, Operations, Outcomes

\* An exit in the monitor's loop is a well-formed operation.
LEMMA ExitStepType ==
    ASSUME NEW c \in Corrs, NEW rest \in SUBSET Corrs
    PROVE  /\ ExitStep(c, rest) \in Operations
           /\ ExitStep(c, rest).at \in {"key", "preview"}
           /\ ExitStep(c, rest).corr = c
           /\ ExitStep(c, rest).row = "EXIT"
           /\ ExitStep(c, rest).give = {}
           /\ ExitStep(c, rest).rest = rest
  <1>1. FirstWrite \in {"key", "preview"}
    BY DEF FirstWrite
  <1>2. Step(FirstWrite, c, "EXIT", {}) \in Operations
        /\ Step(FirstWrite, c, "EXIT", {}).at = FirstWrite
        /\ Step(FirstWrite, c, "EXIT", {}).corr = c
        /\ Step(FirstWrite, c, "EXIT", {}).row = "EXIT"
        /\ Step(FirstWrite, c, "EXIT", {}).give = {}
    BY <1>1, StepType DEF Outcomes
  <1>3. QED
    BY <1>1, <1>2 DEF ExitStep, Operations

\* The store and the requests are untouched, and no row is being written that
\* was not already being written: the invariant is that of the operation.
LEMMA StoreUntouched ==
    ASSUME WorkflowInv, UNCHANGED <<log, keys, requests>>, plans' \subseteq Plans,
           op' \in Operations, OpInv', GiveInv', ReconInv'
    PROVE  WorkflowInv'
  BY DEF WorkflowInv, StoreTypes, StoreInv, PreviewedOnce, DecisionsPreviewed,
         RequestsAudited

\* An operation that ends or is not running asks nothing of the store.
LEMMA IdleInv ==
    ASSUME WorkflowInv, op' = Idle
    PROVE  op' \in Operations /\ OpInv' /\ GiveInv'
  BY IdleType DEF OpInv, GiveInv, Pending

\* Requesting an approval preserves the invariant.
LEMMA RequestApprovalStep ==
    ASSUME WorkflowInv, NEW c \in Corrs, NEW a \in BOOLEAN, RequestApproval(c, a)
    PROVE  WorkflowInv'
  <1> DEFINE status == RequestStatus(a)
             row == IF status = "APPROVAL_REQUIRED" THEN "REQUESTED" ELSE "REJECTED"
             r == Request(c, status)
  <1>1. op' = Step("outcome", c, row, {r}) /\ UNCHANGED <<durable, volatile>>
    BY DEF RequestApproval, Begin
  <1>2. status \in {"BLOCKED", "REJECTED", "APPROVAL_REQUIRED"}
        /\ (status = "APPROVAL_REQUIRED" => recon)
    BY DEF RequestStatus
  <1>3. r \in Requests /\ r.corr = c /\ r.status = status
    BY <1>2 DEF Request, Requests, Statuses
  <1>4. row \in {"REQUESTED", "REJECTED"} /\ row = RowOf(status)
        /\ (row = "REQUESTED" => recon)
    BY <1>2 DEF RowOf
  <1> HIDE DEF status, row, r
  <1>5. op' \in Operations /\ op'.at = "outcome" /\ op'.corr = c /\ op'.row = row
        /\ op'.give = {r} /\ op'.rest = {}
    BY <1>1, <1>3, <1>4, StepType DEF Outcomes
  <1>6. OpInv' /\ GiveInv'
    BY <1>3, <1>4, <1>5 DEF OpInv, GiveInv, Pending
  <1>7. ReconInv'
    BY <1>1, <1>4, <1>5 DEF ReconInv, WorkflowInv, volatile
  <1>8. QED
    BY <1>1, <1>5, <1>6, <1>7, StoreUntouched
    DEF durable, volatile, WorkflowInv, StoreTypes

\* Approving a request preserves the invariant.
LEMMA ApproveStep ==
    ASSUME WorkflowInv, NEW r \in requests, Approve(r)
    PROVE  WorkflowInv'
  <1> DEFINE g == Request(r.corr, "APPROVED")
  <1>1. op' = Step("key", r.corr, "APPROVED", {g}) /\ UNCHANGED <<durable, volatile>>
    BY DEF Approve, Begin
  <1>2. r.corr \in Corrs
    BY DEF WorkflowInv, StoreTypes, Requests
  <1>3. g \in Requests /\ g.corr = r.corr /\ g.status = "APPROVED"
    BY <1>2 DEF Request, Requests, Statuses
  <1> HIDE DEF g
  <1>4. op' \in Operations /\ op'.at = "key" /\ op'.corr = r.corr
        /\ op'.row = "APPROVED" /\ op'.give = {g} /\ op'.rest = {}
    BY <1>1, <1>2, <1>3, StepType DEF Outcomes
  <1>5. OpInv' /\ GiveInv'
    BY <1>2, <1>3, <1>4 DEF OpInv, GiveInv, Pending, RowOf
  <1>6. ReconInv'
    BY <1>1, <1>4 DEF ReconInv, WorkflowInv, volatile
  <1>7. QED
    BY <1>1, <1>4, <1>5, <1>6, StoreUntouched
    DEF durable, volatile, WorkflowInv, StoreTypes

\* Declining a request preserves the invariant.
LEMMA DeclineStep ==
    ASSUME WorkflowInv, NEW r \in requests, Decline(r)
    PROVE  WorkflowInv'
  <1> DEFINE g == Request(r.corr, "REJECTED")
  <1>1. op' = Step("outcome", r.corr, "REJECTED", {g})
        /\ UNCHANGED <<durable, volatile>>
    BY DEF Decline, Begin
  <1>2. r.corr \in Corrs
    BY DEF WorkflowInv, StoreTypes, Requests
  <1>3. g \in Requests /\ g.corr = r.corr /\ g.status = "REJECTED"
    BY <1>2 DEF Request, Requests, Statuses
  <1> HIDE DEF g
  <1>4. op' \in Operations /\ op'.at = "outcome" /\ op'.corr = r.corr
        /\ op'.row = "REJECTED" /\ op'.give = {g} /\ op'.rest = {}
    BY <1>1, <1>2, <1>3, StepType DEF Outcomes
  <1>5. OpInv' /\ GiveInv'
    BY <1>2, <1>3, <1>4 DEF OpInv, GiveInv, Pending, RowOf
  <1>6. ReconInv'
    BY <1>1, <1>4 DEF ReconInv, WorkflowInv, volatile
  <1>7. QED
    BY <1>1, <1>4, <1>5, <1>6, StoreUntouched
    DEF durable, volatile, WorkflowInv, StoreTypes

\* Beginning an operation that writes no row of a correlation id.
LEMMA AuditStep ==
    ASSUME NEW o \in Operations, o.at \in {"audit", "started", "load", "report"},
           o.row = "REJECTED", o.give = {}, o.rest = {}, op' = o
    PROVE  op' \in Operations /\ OpInv' /\ GiveInv'
  BY DEF OpInv, GiveInv, Pending

\* A reconciliation preserves the invariant.
LEMMA ReconcileStep ==
    ASSUME WorkflowInv, NEW b \in Brokers, NEW l \in Locals, Reconcile(b, l)
    PROVE  WorkflowInv'
  <1> DEFINE o == Step("audit", NoCorr, "REJECTED", {})
  <1>1. op' = o /\ UNCHANGED <<durable, requests, plans>>
        /\ recon' = Matches(b, l) /\ compared' = {[broker |-> b, local |-> l]}
    BY DEF Reconcile, Begin
  <1>2. o \in Operations /\ o.at = "audit" /\ o.row = "REJECTED" /\ o.give = {}
        /\ o.rest = {}
    BY StepType DEF Outcomes
  <1> HIDE DEF o
  <1>3. op' \in Operations /\ OpInv' /\ GiveInv'
    BY <1>1, <1>2, AuditStep
  <1>4. recon' => \E x \in compared' : Matches(x.broker, x.local)
    BY <1>1
  <1>5. ReconInv'
    BY <1>1, <1>2, <1>4 DEF ReconInv
  <1>6. QED
    BY <1>1, <1>3, <1>5, StoreUntouched DEF durable, WorkflowInv, StoreTypes

\* An LTP that reaches plans preserves the invariant.
LEMMA OnLtpStep ==
    ASSUME WorkflowInv, NEW s \in Symbols, NEW ltp \in Ltps, OnLtp(s, ltp)
    PROVE  WorkflowInv'
  <1> DEFINE hit == {p.corr : p \in {q \in plans : q.symbol = s /\ Reached(q, ltp)}}
  <1>1. hit \subseteq Corrs
    BY ApprovalAssumption DEF WorkflowInv, StoreTypes, PlanType
  <1>2. PICK c \in hit : op' = ExitStep(c, hit \ {c})
                         /\ UNCHANGED <<durable, volatile>>
    BY DEF OnLtp, Begin
  <1> HIDE DEF hit
  <1>3. c \in Corrs /\ hit \ {c} \in SUBSET Corrs
    BY <1>1
  <1>4. /\ op' \in Operations /\ op'.at \in {"key", "preview"} /\ op'.corr = c
        /\ op'.row = "EXIT" /\ op'.give = {}
    BY <1>2, <1>3, ExitStepType
  <1>5. OpInv' /\ GiveInv'
    BY <1>3, <1>4 DEF OpInv, GiveInv, Pending
  <1>6. ReconInv'
    BY <1>2, <1>4 DEF ReconInv, WorkflowInv, volatile
  <1>7. QED
    BY <1>2, <1>4, <1>5, <1>6, StoreUntouched
    DEF durable, volatile, WorkflowInv, StoreTypes

(***************************************************************************)
(* The durable writes.                                                     *)
(***************************************************************************)
\* The operation that registers a key, and the one that records a preview, go
\* on to the next write of the same operation.
LEMMA AdvanceType ==
    ASSUME op \in Operations,
           NEW at \in {"preview", "outcome", "load", "report", "audit"},
           op' = [op EXCEPT !.at = at]
    PROVE  /\ op' \in Operations /\ op'.at = at /\ op'.corr = op.corr
           /\ op'.row = op.row /\ op'.give = op.give /\ op'.rest = op.rest
  BY DEF Operations

\* Registering a fresh key preserves the invariant.
LEMMA RegisterKeyStep ==
    ASSUME WorkflowInv, RegisterKey
    PROVE  WorkflowInv'
  <1>1. /\ op.at = "key" /\ op.corr \notin keys /\ keys' = keys \cup {op.corr}
        /\ op' = [op EXCEPT !.at = "preview"] /\ UNCHANGED <<log, volatile>>
    BY DEF RegisterKey
  <1>2. op \in Operations /\ op.corr \in Corrs /\ op.row \in {"APPROVED", "EXIT"}
    BY <1>1 DEF WorkflowInv, StoreTypes, OpInv, Pending
  <1>3. /\ op' \in Operations /\ op'.at = "preview" /\ op'.corr = op.corr
        /\ op'.row = op.row /\ op'.give = op.give /\ op'.rest = op.rest
    BY <1>1, <1>2, AdvanceType
  <1>4. log[op.corr].PREVIEW = 0
    BY <1>1, <1>2 DEF WorkflowInv, StoreInv
  <1>5. StoreTypes' /\ StoreInv'
    BY <1>1, <1>2, <1>3 DEF WorkflowInv, StoreTypes, StoreInv, PreviewedOnce,
       DecisionsPreviewed, volatile
  <1>6. OpInv' /\ GiveInv'
    BY <1>1, <1>2, <1>3, <1>4 DEF WorkflowInv, OpInv, GiveInv, Pending
  <1>7. RequestsAudited' /\ ReconInv'
    BY <1>1, <1>2, <1>3 DEF WorkflowInv, RequestsAudited, ReconInv, volatile
  <1>8. QED
    BY <1>5, <1>6, <1>7 DEF WorkflowInv

\* What appending one row does to the counts.
LEMMA AppendRowCounts ==
    ASSUME log \in [Corrs -> [RowTypes -> Nat]], NEW c \in Corrs,
           NEW row \in RowTypes, AppendRow(c, row)
    PROVE  /\ log' \in [Corrs -> [RowTypes -> Nat]]
           /\ \A d \in Corrs, x \in RowTypes :
                log'[d][x] = IF d = c /\ x = row THEN log[d][x] + 1 ELSE log[d][x]
  BY DEF AppendRow

\* Recording a preview preserves the invariant: the key it stands behind was
\* registered by this operation, so it is the first one of its id.
LEMMA AppendPreviewStep ==
    ASSUME WorkflowInv, AppendPreview
    PROVE  WorkflowInv'
  <1> DEFINE row == IF op.row = "EXIT" THEN "EXIT_PREVIEW" ELSE "PREVIEW"
  <1>1. /\ op.at = "preview" /\ AppendRow(op.corr, row)
        /\ op' = [op EXCEPT !.at = "outcome"] /\ UNCHANGED <<keys, volatile>>
    BY DEF AppendPreview
  <1>2. op \in Operations /\ op.corr \in Corrs /\ op.row \in {"APPROVED", "EXIT"}
    BY <1>1 DEF WorkflowInv, StoreTypes, OpInv, Pending
  <1>3. row \in RowTypes /\ (op.row = "EXIT" => row = "EXIT_PREVIEW")
        /\ (op.row = "APPROVED" => row = "PREVIEW")
    BY DEF RowTypes
  <1> HIDE DEF row
  <1>4. /\ op' \in Operations /\ op'.at = "outcome" /\ op'.corr = op.corr
        /\ op'.row = op.row /\ op'.give = op.give /\ op'.rest = op.rest
    BY <1>1, <1>2, AdvanceType
  <1>5. log \in [Corrs -> [RowTypes -> Nat]]
    BY DEF WorkflowInv, StoreTypes
  <1>6. /\ log' \in [Corrs -> [RowTypes -> Nat]]
        /\ \A d \in Corrs, x \in RowTypes :
             log'[d][x] = IF d = op.corr /\ x = row THEN log[d][x] + 1 ELSE log[d][x]
    BY <1>1, <1>2, <1>3, <1>5, AppendRowCounts
  <1>7. \A d \in Corrs, x \in RowTypes : log[d][x] \in Nat /\ log'[d][x] \in Nat
    BY <1>5, <1>6
  <1>8. op.row = "APPROVED" =>
            /\ op.corr \in keys /\ log[op.corr]["PREVIEW"] = 0
            /\ log[op.corr]["APPROVED"] = 0
    <2>1. op.row = "APPROVED" => op.corr \in keys /\ log[op.corr]["PREVIEW"] = 0
      BY <1>1, <1>2 DEF WorkflowInv, OpInv
    <2>2. log[op.corr]["APPROVED"] <= log[op.corr]["PREVIEW"]
      BY <1>2 DEF WorkflowInv, StoreInv, DecisionsPreviewed
    <2>3. QED
      BY <1>2, <1>7, <2>1, <2>2 DEF RowTypes, Outcomes
  <1>9. StoreTypes'
    BY <1>1, <1>4, <1>6 DEF WorkflowInv, StoreTypes, volatile
  <1>10. StoreInv'
    <2>1. ASSUME NEW d \in Corrs \ keys' PROVE log'[d]["PREVIEW"] = 0
      <3>1. log[d]["PREVIEW"] = 0
        BY <1>1, <2>1 DEF WorkflowInv, StoreInv
      <3>2. CASE op.row = "APPROVED"
        BY <1>1, <1>6, <1>8, <2>1, <3>1, <3>2 DEF RowTypes
      <3>3. CASE op.row = "EXIT"
        BY <1>3, <1>6, <2>1, <3>1, <3>3 DEF RowTypes
      <3>4. QED
        BY <1>2, <3>2, <3>3
    <2>2. ASSUME NEW d \in Corrs PROVE log'[d]["PREVIEW"] <= 1
      BY <1>2, <1>3, <1>6, <1>7, <1>8 DEF WorkflowInv, StoreInv, PreviewedOnce, RowTypes
    <2>3. ASSUME NEW d \in Corrs
          PROVE  /\ log'[d]["APPROVED"] <= log'[d]["PREVIEW"]
                 /\ log'[d]["EXIT"] <= log'[d]["EXIT_PREVIEW"]
      <3>1. /\ log[d]["APPROVED"] <= log[d]["PREVIEW"]
            /\ log[d]["EXIT"] <= log[d]["EXIT_PREVIEW"]
        BY DEF WorkflowInv, StoreInv, DecisionsPreviewed
      <3>2. QED
        BY <1>2, <1>3, <1>6, <1>7, <3>1 DEF RowTypes, Outcomes
    <2>4. QED
      BY <2>1, <2>2, <2>3 DEF StoreInv, PreviewedOnce, DecisionsPreviewed
  <1>11. OpInv'
    <2>1. op.row = "EXIT" => log'[op.corr]["EXIT"] < log'[op.corr]["EXIT_PREVIEW"]
      <3>1. log[op.corr]["EXIT"] <= log[op.corr]["EXIT_PREVIEW"]
        BY <1>2 DEF WorkflowInv, StoreInv, DecisionsPreviewed
      <3>2. QED
        BY <1>2, <1>3, <1>6, <1>7, <3>1 DEF RowTypes, Outcomes
    <2>2. op.row = "APPROVED" => /\ log'[op.corr]["PREVIEW"] = 1
                                 /\ log'[op.corr]["APPROVED"] = 0
      BY <1>2, <1>3, <1>6, <1>7, <1>8 DEF RowTypes, Outcomes
    <2>3. op.row # "EXIT" => op.rest = {}
      BY DEF WorkflowInv, OpInv
    <2>4. QED
      BY <1>2, <1>4, <2>1, <2>2, <2>3 DEF OpInv, Pending
  <1>12. GiveInv' /\ ReconInv'
    BY <1>1, <1>4 DEF WorkflowInv, GiveInv, ReconInv, volatile
  <1>13. RequestsAudited'
    <2>1. ASSUME NEW r \in requests PROVE log'[r.corr][RowOf(r.status)] > 0
      <3>1. r.corr \in Corrs /\ RowOf(r.status) \in RowTypes
        BY DEF WorkflowInv, StoreTypes, Requests, RowOf, RowTypes, Outcomes
      <3>2. log[r.corr][RowOf(r.status)] > 0
        BY DEF WorkflowInv, RequestsAudited
      <3>3. QED
        BY <1>6, <1>7, <3>1, <3>2
    <2>2. QED
      BY <1>1, <2>1 DEF RequestsAudited, volatile
  <1>14. QED
    BY <1>9, <1>10, <1>11, <1>12, <1>13 DEF WorkflowInv

\* Where a loop or an operation goes on after an outcome: to the next exit or
\* to the idle operation, neither of which asks anything of the store.
LEMMA ContinueInv ==
    ASSUME WorkflowInv, op.at = "outcome", Continue
    PROVE  op' \in Operations /\ OpInv' /\ GiveInv' /\ op'.row # "REQUESTED"
  <1>1. CASE op.rest = {}
    <2>1. op' = Idle
      BY <1>1 DEF Continue
    <2>2. QED
      BY <2>1, IdleInv, IdleType
  <1>2. CASE op.rest # {}
    <2>1. PICK c \in op.rest : op' = ExitStep(c, op.rest \ {c})
      BY <1>2 DEF Continue
    <2>2. c \in Corrs /\ op.rest \ {c} \in SUBSET Corrs
      BY <2>1 DEF WorkflowInv, StoreTypes, Operations
    <2>3. /\ op' \in Operations /\ op'.at \in {"key", "preview"} /\ op'.corr = c
          /\ op'.row = "EXIT" /\ op'.give = {}
      BY <2>1, <2>2, ExitStepType
    <2>4. QED
      BY <2>2, <2>3 DEF OpInv, GiveInv, Pending
  <1>3. QED
    BY <1>1, <1>2

\* Recording an outcome, and handing out its request, preserves the invariant.
LEMMA AppendOutcomeStep ==
    ASSUME WorkflowInv, AppendOutcome
    PROVE  WorkflowInv'
  <1>1. /\ op.at = "outcome" /\ AppendRow(op.corr, op.row)
        /\ requests' = requests \cup op.give /\ Continue
        /\ UNCHANGED <<keys, recon, compared, plans>>
    BY DEF AppendOutcome
  <1>2. op \in Operations /\ op.corr \in Corrs /\ op.row \in Outcomes
        /\ op.row \in RowTypes
    BY <1>1 DEF WorkflowInv, StoreTypes, OpInv, Pending, Operations, RowTypes
  <1>3. log \in [Corrs -> [RowTypes -> Nat]]
    BY DEF WorkflowInv, StoreTypes
  <1>4. /\ log' \in [Corrs -> [RowTypes -> Nat]]
        /\ \A d \in Corrs, x \in RowTypes :
             log'[d][x] = IF d = op.corr /\ x = op.row THEN log[d][x] + 1
                                                     ELSE log[d][x]
    BY <1>1, <1>2, <1>3, AppendRowCounts
  <1>5. \A d \in Corrs, x \in RowTypes : log[d][x] \in Nat /\ log'[d][x] \in Nat
    BY <1>3, <1>4
  <1>6. op' \in Operations /\ OpInv' /\ GiveInv' /\ op'.row # "REQUESTED"
    BY <1>1, ContinueInv
  <1>7. StoreTypes'
    <2>1. op.give \subseteq Requests
      BY <1>2 DEF Operations
    <2>2. QED
      BY <1>1, <1>4, <1>6, <2>1 DEF WorkflowInv, StoreTypes
  <1>8. StoreInv'
    <2>1. op.row # "PREVIEW" /\ op.row # "EXIT_PREVIEW"
      BY <1>2 DEF Outcomes
    <2>2. \A d \in Corrs : /\ log'[d]["PREVIEW"] = log[d]["PREVIEW"]
                           /\ log'[d]["EXIT_PREVIEW"] = log[d]["EXIT_PREVIEW"]
      BY <1>4, <2>1 DEF RowTypes
    <2>3. ASSUME NEW d \in Corrs
          PROVE  /\ log'[d]["APPROVED"] <= log'[d]["PREVIEW"]
                 /\ log'[d]["EXIT"] <= log'[d]["EXIT_PREVIEW"]
      <3>1. /\ log[d]["APPROVED"] <= log[d]["PREVIEW"]
            /\ log[d]["EXIT"] <= log[d]["EXIT_PREVIEW"]
        BY DEF WorkflowInv, StoreInv, DecisionsPreviewed
      <3>2. op.row = "APPROVED" => /\ log[op.corr]["PREVIEW"] = 1
                                   /\ log[op.corr]["APPROVED"] = 0
        BY <1>1 DEF WorkflowInv, OpInv
      <3>3. op.row = "EXIT" => log[op.corr]["EXIT"] < log[op.corr]["EXIT_PREVIEW"]
        BY <1>1 DEF WorkflowInv, OpInv
      <3>4. log'[d]["APPROVED"] <= log'[d]["PREVIEW"]
        BY <1>2, <1>4, <1>5, <2>2, <3>1, <3>2 DEF RowTypes, Outcomes
      <3>5. log'[d]["EXIT"] <= log'[d]["EXIT_PREVIEW"]
        BY <1>2, <1>4, <1>5, <2>2, <3>1, <3>3 DEF RowTypes, Outcomes
      <3>6. QED
        BY <3>4, <3>5
    <2>4. QED
      BY <1>1, <2>2, <2>3 DEF WorkflowInv, StoreInv, PreviewedOnce,
         DecisionsPreviewed
  <1>9. RequestsAudited'
    <2>1. ASSUME NEW r \in requests' PROVE log'[r.corr][RowOf(r.status)] > 0
      <3>1. r.corr \in Corrs /\ RowOf(r.status) \in RowTypes
        BY <1>7 DEF StoreTypes, Requests, RowOf, RowTypes, Outcomes
      <3>2. CASE r \in requests
        <4>1. log[r.corr][RowOf(r.status)] > 0
          BY <3>2 DEF WorkflowInv, RequestsAudited
        <4>2. QED
          BY <1>4, <1>5, <3>1, <4>1
      <3>3. CASE r \in op.give
        <4>1. r.corr = op.corr /\ op.row = RowOf(r.status)
          BY <3>3 DEF WorkflowInv, GiveInv
        <4>2. QED
          BY <1>2, <1>4, <1>5, <3>1, <4>1
      <3>4. QED
        BY <1>1, <3>2, <3>3
    <2>2. QED
      BY <2>1 DEF RequestsAudited
  <1>10. ReconInv'
    BY <1>1, <1>6 DEF WorkflowInv, ReconInv
  <1>11. QED
    BY <1>6, <1>7, <1>8, <1>9, <1>10 DEF WorkflowInv

(***************************************************************************)
(* The steps that write nothing the properties count.                      *)
(***************************************************************************)
\* A refused duplicate, the end of an audit row and a failed write preserve
\* the invariant: the operation is over and what it wrote stays.
LEMMA EndStep ==
    ASSUME WorkflowInv, op' = Idle, UNCHANGED <<durable, volatile>>
    PROVE  WorkflowInv'
  <1>1. op' \in Operations /\ OpInv' /\ GiveInv'
    BY IdleInv
  <1>2. ReconInv'
    BY IdleType DEF ReconInv, WorkflowInv, volatile
  <1>3. QED
    BY <1>1, <1>2, StoreUntouched
    DEF durable, volatile, WorkflowInv, StoreTypes

\* The steps of a recovery preserve the invariant: only its status changes.
LEMMA RecoveryStep ==
    ASSUME WorkflowInv, NEW at \in {"load", "report", "audit"},
           op.at \in {"started", "load", "report"},
           op' = [op EXCEPT !.at = at],
           UNCHANGED <<durable, recon, compared, requests, plans>>
    PROVE  WorkflowInv'
  <1>1. op \in Operations
    BY DEF WorkflowInv, StoreTypes
  <1>2. /\ op' \in Operations /\ op'.at = at /\ op'.corr = op.corr
        /\ op'.row = op.row /\ op'.give = op.give /\ op'.rest = op.rest
    BY <1>1, AdvanceType
  <1>3. OpInv'
    BY <1>2 DEF WorkflowInv, OpInv, Pending
  <1>4. GiveInv' /\ ReconInv'
    BY <1>2 DEF WorkflowInv, GiveInv, ReconInv
  <1>5. QED
    BY <1>2, <1>3, <1>4, StoreUntouched DEF durable, WorkflowInv, StoreTypes

\* Starting a recovery preserves the invariant.
LEMMA RecoverStep ==
    ASSUME WorkflowInv, NEW passed \in BOOLEAN, Recover(passed)
    PROVE  WorkflowInv'
  <1> DEFINE s == Step("started", NoCorr, "REJECTED", {})
  <1>1. op' = [s EXCEPT !.passed = passed] /\ UNCHANGED <<durable, volatile>>
    BY DEF Recover, Begin
  <1>2. s \in Operations /\ s.at = "started" /\ s.row = "REJECTED"
        /\ s.give = {} /\ s.rest = {}
    BY StepType DEF Outcomes
  <1> HIDE DEF s
  <1>3. op' \in Operations /\ op'.at = "started" /\ op'.row = "REJECTED"
        /\ op'.give = {} /\ op'.rest = {}
    BY <1>1, <1>2 DEF Operations
  <1>4. OpInv' /\ GiveInv'
    BY <1>3 DEF OpInv, GiveInv, Pending
  <1>5. ReconInv'
    BY <1>1, <1>3 DEF ReconInv, WorkflowInv, volatile
  <1>6. QED
    BY <1>1, <1>3, <1>4, <1>5, StoreUntouched
    DEF durable, volatile, WorkflowInv, StoreTypes

\* Tracking a plan and saving a snapshot preserve the invariant.
LEMMA QuietStep ==
    ASSUME WorkflowInv, UNCHANGED <<log, keys, recon, compared, requests, op>>,
           plans' \subseteq Plans
    PROVE  WorkflowInv'
  <1>1. op' \in Operations /\ OpInv' /\ GiveInv' /\ ReconInv'
    BY DEF WorkflowInv, StoreTypes, OpInv, GiveInv, ReconInv, Pending
  <1>2. QED
    BY <1>1, StoreUntouched

\* A crash and restart preserve the invariant.
LEMMA RestartStep ==
    ASSUME WorkflowInv, Restart
    PROVE  WorkflowInv'
  <1>1. /\ op' = Idle /\ recon' = FALSE /\ requests' = {} /\ plans' = {}
        /\ UNCHANGED <<log, keys>>
    BY DEF Restart, durable
  <1>2. op' \in Operations /\ OpInv' /\ GiveInv'
    BY <1>1, IdleInv
  <1>3. ReconInv'
    BY <1>1, IdleType DEF ReconInv
  <1>4. StoreTypes' /\ StoreInv' /\ RequestsAudited'
    BY <1>1, <1>2 DEF WorkflowInv, StoreTypes, StoreInv, PreviewedOnce,
       DecisionsPreviewed, RequestsAudited
  <1>5. QED
    BY <1>2, <1>3, <1>4 DEF WorkflowInv

(***************************************************************************)
(* WorkflowInv is inductive.                                               *)
(***************************************************************************)
\* The invariant holds of an empty store.
LEMMA WorkflowInit == Init => WorkflowInv
  <1> SUFFICES ASSUME Init PROVE WorkflowInv
    OBVIOUS
  <1>1. op = Idle /\ op \in Operations /\ op.at = "idle" /\ op.row = "REJECTED"
        /\ op.give = {} /\ op.rest = {}
    BY IdleType DEF Init
  <1>2. /\ log \in [Corrs -> [RowTypes -> Nat]]
        /\ \A c \in Corrs, x \in RowTypes : log[c][x] = 0
    BY DEF Init
  <1>3. StoreTypes
    BY <1>1, <1>2 DEF Init, StoreTypes
  <1>4. StoreInv
    BY <1>2 DEF StoreInv, PreviewedOnce, DecisionsPreviewed, RowTypes, Outcomes
  <1>5. OpInv /\ GiveInv
    BY <1>1 DEF OpInv, GiveInv, Pending
  <1>6. RequestsAudited /\ ReconInv
    BY <1>1 DEF Init, RequestsAudited, ReconInv
  <1>7. QED
    BY <1>3, <1>4, <1>5, <1>6 DEF WorkflowInv

\* Every call of the workflow's services preserves the invariant.
LEMMA CallStep == ASSUME WorkflowInv, Call PROVE WorkflowInv'
  <1>1. CASE \E c \in Corrs, a \in BOOLEAN : RequestApproval(c, a)
    BY <1>1, RequestApprovalStep
  <1>2. CASE \E r \in requests : Approve(r)
    BY <1>2, ApproveStep
  <1>3. CASE \E r \in requests : Decline(r)
    BY <1>3, DeclineStep
  <1>4. CASE \E b \in Brokers, l \in Locals : Reconcile(b, l)
    BY <1>4, ReconcileStep
  <1>5. CASE \E p \in Plans : Track(p)
    BY <1>5, QuietStep DEF Track, durable, WorkflowInv, StoreTypes
  <1>6. CASE \E s \in Symbols, ltp \in Ltps : OnLtp(s, ltp)
    BY <1>6, OnLtpStep
  <1>7. CASE \E mode \in SavedModes : SaveSnapshot(mode)
    BY <1>7, QuietStep DEF SaveSnapshot, volatile, WorkflowInv, StoreTypes
  <1>8. CASE \E passed \in BOOLEAN : Recover(passed)
    BY <1>8, RecoverStep
  <1>9. QED
    BY <1>1, <1>2, <1>3, <1>4, <1>5, <1>6, <1>7, <1>8 DEF Call

\* Every durable write, refused or failed write preserves the invariant.
LEMMA WriteStep == ASSUME WorkflowInv, Write PROVE WorkflowInv'
  <1>1. CASE RegisterKey
    BY <1>1, RegisterKeyStep
  <1>2. CASE AppendPreview
    BY <1>2, AppendPreviewStep
  <1>3. CASE AppendOutcome
    BY <1>3, AppendOutcomeStep
  <1>4. CASE Duplicate \/ AppendAudit \/ Unavailable
    BY <1>4, EndStep DEF Duplicate, AppendAudit, Unavailable
  <1>5. CASE AppendStarted
    BY <1>5, RecoveryStep DEF AppendStarted, volatile
  <1>6. CASE Load
    BY <1>6, RecoveryStep DEF Load
  <1>7. CASE RecoveryFails
    BY <1>7, RecoveryStep DEF RecoveryFails
  <1>8. QED
    BY <1>1, <1>2, <1>3, <1>4, <1>5, <1>6, <1>7 DEF Write

\* Every step preserves the invariant.
LEMMA WorkflowNext == WorkflowInv /\ [Next]_vars => WorkflowInv'
  <1> SUFFICES ASSUME WorkflowInv, [Next]_vars PROVE WorkflowInv'
    OBVIOUS
  <1>1. CASE UNCHANGED vars
    BY <1>1, QuietStep DEF vars, WorkflowInv, StoreTypes
  <1>2. QED
    BY <1>1, CallStep, WriteStep, RestartStep DEF Next

\* Between any two writes of any operation the store is consistent with what
\* the operation has still to do.
THEOREM WorkflowInvariant == Spec => []WorkflowInv
  BY WorkflowInit, WorkflowNext, PTL DEF Spec

\* No correlation id gets a second entry preview, across all failures and
\* restarts.
THEOREM PreviewsOnce == Spec => []PreviewedOnce
  <1>1. WorkflowInv => PreviewedOnce
    BY DEF WorkflowInv, StoreInv
  <1>2. QED
    BY <1>1, WorkflowInvariant, PTL

\* Approvals and exit suggestions rest on recorded previews.
THEOREM DecisionsRestOnPreviews == Spec => []DecisionsPreviewed
  <1>1. WorkflowInv => DecisionsPreviewed
    BY DEF WorkflowInv, StoreInv
  <1>2. QED
    BY <1>1, WorkflowInvariant, PTL

\* Whatever request a caller holds is in the audit store.
THEOREM HeldRequestsAreAudited == Spec => []RequestsAudited
  <1>1. WorkflowInv => RequestsAudited
    BY DEF WorkflowInv
  <1>2. QED
    BY <1>1, WorkflowInvariant, PTL

(***************************************************************************)
(* The action property and the refinement, from the invariant.             *)
(***************************************************************************)
\* Only a preview and an outcome add a row, and only a registration adds a key.
LEMMA OnlyAppendsWrite ==
    ASSUME [Next]_vars
    PROVE  \/ AppendPreview \/ AppendOutcome \/ RegisterKey
           \/ UNCHANGED <<log, keys>>
  <1>1. CASE Call
    BY <1>1 DEF Call, RequestApproval, Approve, Decline, Reconcile, Track, OnLtp,
       SaveSnapshot, Recover, Begin, durable
  <1>2. CASE Write
    BY <1>2 DEF Write, Duplicate, AppendAudit, AppendStarted, Load,
       RecoveryFails, Unavailable, durable
  <1>3. CASE Restart \/ UNCHANGED vars
    BY <1>3 DEF Restart, vars, durable
  <1>4. QED
    BY <1>1, <1>2, <1>3 DEF Next

\* What an appended preview and an appended outcome do to the counts.
LEMMA PreviewCounts ==
    ASSUME WorkflowInv, AppendPreview
    PROVE  /\ keys' = keys /\ op.corr \in Corrs
           /\ \A d \in Corrs : /\ log'[d]["REQUESTED"] = log[d]["REQUESTED"]
                               /\ log'[d]["APPROVED"] = log[d]["APPROVED"]
           /\ \/ \A d \in Corrs : log'[d]["PREVIEW"] = log[d]["PREVIEW"]
              \/ /\ op.corr \in keys /\ log[op.corr]["PREVIEW"] = 0
                 /\ \A d \in Corrs : log'[d]["PREVIEW"] =
                        IF d = op.corr THEN 1 ELSE log[d]["PREVIEW"]
  <1> DEFINE row == IF op.row = "EXIT" THEN "EXIT_PREVIEW" ELSE "PREVIEW"
  <1>1. /\ op.at = "preview" /\ AppendRow(op.corr, row) /\ UNCHANGED keys
    BY DEF AppendPreview
  <1>2. op.corr \in Corrs /\ op.row \in {"APPROVED", "EXIT"}
    BY <1>1 DEF WorkflowInv, OpInv, Pending
  <1>3. row \in RowTypes /\ (op.row = "EXIT" => row = "EXIT_PREVIEW")
        /\ (op.row = "APPROVED" => row = "PREVIEW")
    BY DEF RowTypes
  <1> HIDE DEF row
  <1>4. log \in [Corrs -> [RowTypes -> Nat]]
    BY DEF WorkflowInv, StoreTypes
  <1>5. \A d \in Corrs, x \in RowTypes :
          log'[d][x] = IF d = op.corr /\ x = row THEN log[d][x] + 1 ELSE log[d][x]
    BY <1>1, <1>2, <1>3, <1>4, AppendRowCounts
  <1>6. \A d \in Corrs : /\ log'[d]["REQUESTED"] = log[d]["REQUESTED"]
                         /\ log'[d]["APPROVED"] = log[d]["APPROVED"]
    BY <1>2, <1>3, <1>5 DEF RowTypes, Outcomes
  <1>7. CASE op.row = "EXIT"
    BY <1>1, <1>2, <1>3, <1>5, <1>6, <1>7 DEF RowTypes
  <1>8. CASE op.row = "APPROVED"
    <2>1. op.corr \in keys /\ log[op.corr]["PREVIEW"] = 0
      BY <1>1, <1>8 DEF WorkflowInv, OpInv
    <2>2. \A d \in Corrs : log'[d]["PREVIEW"] =
              IF d = op.corr THEN 1 ELSE log[d]["PREVIEW"]
      BY <1>3, <1>5, <1>8, <2>1 DEF RowTypes
    <2>3. QED
      BY <1>1, <1>2, <1>6, <2>1, <2>2
  <1>9. QED
    BY <1>2, <1>7, <1>8

\* The counterpart for an outcome.
LEMMA OutcomeCounts ==
    ASSUME WorkflowInv, AppendOutcome
    PROVE  /\ keys' = keys /\ op.corr \in Corrs
           /\ \A d \in Corrs : log'[d]["PREVIEW"] = log[d]["PREVIEW"]
           /\ \A d \in Corrs : log'[d]["REQUESTED"] # log[d]["REQUESTED"] => recon
           /\ \/ \A d \in Corrs : log'[d]["APPROVED"] = log[d]["APPROVED"]
              \/ /\ log[op.corr]["PREVIEW"] = 1 /\ log[op.corr]["APPROVED"] = 0
                 /\ \A d \in Corrs : log'[d]["APPROVED"] =
                        IF d = op.corr THEN 1 ELSE log[d]["APPROVED"]
  <1>1. /\ op.at = "outcome" /\ AppendRow(op.corr, op.row) /\ UNCHANGED keys
    BY DEF AppendOutcome
  <1>2. op.corr \in Corrs /\ op.row \in Outcomes /\ op.row \in RowTypes
    BY <1>1 DEF WorkflowInv, StoreTypes, OpInv, Pending, Operations, RowTypes
  <1>3. log \in [Corrs -> [RowTypes -> Nat]]
    BY DEF WorkflowInv, StoreTypes
  <1>4. \A d \in Corrs, x \in RowTypes :
          log'[d][x] = IF d = op.corr /\ x = op.row THEN log[d][x] + 1 ELSE log[d][x]
    BY <1>1, <1>2, <1>3, AppendRowCounts
  <1>5. \A d \in Corrs : log'[d]["PREVIEW"] = log[d]["PREVIEW"]
    BY <1>2, <1>4 DEF RowTypes, Outcomes
  <1>6. \A d \in Corrs : log'[d]["REQUESTED"] # log[d]["REQUESTED"] => recon
    BY <1>2, <1>4 DEF RowTypes, Outcomes, WorkflowInv, ReconInv
  <1>7. CASE op.row # "APPROVED"
    BY <1>1, <1>2, <1>4, <1>5, <1>6, <1>7 DEF RowTypes, Outcomes
  <1>8. CASE op.row = "APPROVED"
    <2>1. log[op.corr]["PREVIEW"] = 1 /\ log[op.corr]["APPROVED"] = 0
      BY <1>1, <1>8 DEF WorkflowInv, OpInv
    <2>2. \A d \in Corrs : log'[d]["APPROVED"] =
              IF d = op.corr THEN 1 ELSE log[d]["APPROVED"]
      BY <1>2, <1>4, <1>8, <2>1
    <2>3. QED
      BY <1>1, <1>2, <1>5, <1>6, <2>1, <2>2
  <1>9. QED
    BY <1>7, <1>8

\* Approvals are requested only after this process has found the broker in
\* agreement with the local state.
THEOREM RequestsReconciled == Spec => ReconciledFirst
  <1>1. ASSUME WorkflowInv, [Next]_vars,
               NEW c \in Corrs, log'[c]["REQUESTED"] # log[c]["REQUESTED"]
        PROVE  \E x \in compared : Matches(x.broker, x.local)
    <2>1. AppendOutcome
      BY <1>1, OnlyAppendsWrite, PreviewCounts DEF RegisterKey
    <2>2. recon
      BY <1>1, <2>1, OutcomeCounts
    <2>3. QED
      BY <1>1, <2>2 DEF WorkflowInv, ReconInv
  <1>2. WorkflowInv /\ [Next]_vars =>
            [\A c \in Corrs : log'[c].REQUESTED # log[c].REQUESTED =>
                \E x \in compared : Matches(x.broker, x.local)]_vars
    BY <1>1
  <1>3. QED
    BY <1>2, WorkflowInvariant, PTL DEF Spec, ReconciledFirst

\* The initial store is an empty ledger.
LEMMA LedgerInit == Init => Ledger!Init
  <1> SUFFICES ASSUME Init PROVE Ledger!Init
    OBVIOUS
  <1>1. \A c \in Corrs : log[c].PREVIEW = 0 /\ log[c].APPROVED = 0
    BY DEF Init, RowTypes, Outcomes
  <1>2. keys = {}
    BY DEF Init
  <1>3. QED
    BY <1>1, <1>2 DEF Ledger!Init

\* Every step of the workflow is a step of the ledger or leaves it alone.
LEMMA LedgerStep ==
    ASSUME WorkflowInv, [Next]_vars
    PROVE  Ledger!Next \/ UNCHANGED Ledger!lvars
  <1> DEFINE P == [c \in Corrs |-> log[c]["PREVIEW"]]
             A == [c \in Corrs |-> log[c]["APPROVED"]]
  <1>1. CASE RegisterKey
    <2>1. op.corr \in Corrs /\ op.corr \notin keys
          /\ keys' = keys \cup {op.corr} /\ log' = log
      BY <1>1 DEF RegisterKey, WorkflowInv, OpInv, Pending
    <2>2. Ledger!Claim(op.corr)
      BY <2>1 DEF Ledger!Claim
    <2>3. QED
      BY <2>1, <2>2 DEF Ledger!Next
  <1>2. CASE AppendPreview
    <2>1. A' = A
      BY <1>2, PreviewCounts
    <2>2. CASE \A d \in Corrs : log'[d]["PREVIEW"] = log[d]["PREVIEW"]
      BY <1>2, <2>1, <2>2, PreviewCounts DEF Ledger!lvars
    <2>3. CASE /\ op.corr \in keys /\ log[op.corr]["PREVIEW"] = 0
               /\ \A d \in Corrs : log'[d]["PREVIEW"] =
                      IF d = op.corr THEN 1 ELSE log[d]["PREVIEW"]
      <3>0. op.corr \in Corrs
        BY <1>2, PreviewCounts
      <3>1. keys' = keys
        BY <1>2, PreviewCounts
      <3>2. P' = [P EXCEPT ![op.corr] = 1] /\ P[op.corr] = 0
        <4>1. P' = [d \in Corrs |-> IF d = op.corr THEN 1 ELSE P[d]]
          BY <2>3, <3>0
        <4>2. QED
          BY <2>3, <3>0, <4>1
      <3>3. \E c \in Corrs : Ledger!Show(c)
        <4>1. ASSUME NEW c \in Corrs, c = op.corr
              PROVE  Ledger!Show(c)
          BY <4>1, <2>1, <2>3, <3>0, <3>1, <3>2 DEF Ledger!Show
        <4>2. QED
          BY <3>0, <4>1
      <3>4. QED
        BY <3>3 DEF Ledger!Next
    <2>4. QED
      BY <1>2, <2>2, <2>3, PreviewCounts
  <1>3. CASE AppendOutcome
    <2>1. P' = P
      BY <1>3, OutcomeCounts
    <2>2. CASE \A d \in Corrs : log'[d]["APPROVED"] = log[d]["APPROVED"]
      BY <1>3, <2>1, <2>2, OutcomeCounts DEF Ledger!lvars
    <2>3. CASE /\ log[op.corr]["PREVIEW"] = 1 /\ log[op.corr]["APPROVED"] = 0
               /\ \A d \in Corrs : log'[d]["APPROVED"] =
                      IF d = op.corr THEN 1 ELSE log[d]["APPROVED"]
      <3>0. op.corr \in Corrs
        BY <1>3, OutcomeCounts
      <3>1. keys' = keys
        BY <1>3, OutcomeCounts
      <3>2. A' = [A EXCEPT ![op.corr] = 1] /\ A[op.corr] = 0 /\ P[op.corr] = 1
        <4>1. A' = [d \in Corrs |-> IF d = op.corr THEN 1 ELSE A[d]]
          BY <2>3, <3>0
        <4>2. QED
          BY <2>3, <3>0, <4>1
      <3>3. \E c \in Corrs : Ledger!Approve(c)
        <4>1. ASSUME NEW c \in Corrs, c = op.corr
              PROVE  Ledger!Approve(c)
          BY <4>1, <2>1, <3>0, <3>1, <3>2 DEF Ledger!Approve
        <4>2. QED
          BY <3>0, <4>1
      <3>4. QED
        BY <3>3 DEF Ledger!Next
    <2>4. QED
      BY <1>3, <2>2, <2>3, OutcomeCounts
  <1>4. CASE UNCHANGED <<log, keys>>
    BY <1>4 DEF Ledger!lvars
  <1>5. QED
    BY <1>1, <1>2, <1>3, <1>4, OnlyAppendsWrite

\* The workflow, with its crashes, failed writes and half-done operations,
\* implements the ledger in which every id is claimed, shown and approved once.
THEOREM LedgerImplemented == Spec => ImplementsLedger
  <1>1. WorkflowInv /\ [Next]_vars => [Ledger!Next]_(Ledger!lvars)
    BY LedgerStep
  <1>2. QED
    BY <1>1, LedgerInit, WorkflowInvariant, PTL
    DEF Spec, ImplementsLedger, Ledger!Spec

(***************************************************************************)
(* Every table, attribute and operation has its type: the store's by the   *)
(* invariant, the rest by the steps that assign it.                        *)
(***************************************************************************)
Held ==
    /\ snapshot \in SavedModes \cup {"NONE"}
    /\ recon \in BOOLEAN
    /\ compared \subseteq Comparisons
    /\ recovery \in [mode : Modes, unresolved : Nat, open : Nat]

\* The greater of 0 and a number.
LEMMA AtLeastZero ==
    ASSUME NEW n \in Int
    PROVE  Max({0, n}) \in Nat
  <1>1. PICK x : x = CHOOSE y \in {0, n} : \A z \in {0, n} : y >= z
    OBVIOUS
  <1>2. \E y \in {0, n} : \A z \in {0, n} : y >= z
    OBVIOUS
  <1>3. x \in {0, n} /\ \A z \in {0, n} : x >= z
    BY <1>1, <1>2
  <1>4. x \in Nat
    BY <1>3
  <1>5. QED
    BY <1>1, <1>4 DEF Max

\* What a recovery finds is counted in natural numbers.
LEMMA StatusType ==
    ASSUME log \in [Corrs -> [RowTypes -> Nat]], NEW passed
    PROVE  Status(passed) \in [mode : Modes, unresolved : Nat, open : Nat]
  <1>1. ASSUME NEW row \in RowTypes PROVE RowCount(row) \in Nat
    <2>1. PICK f : f = [c \in Corrs |-> log[c][row]]
      OBVIOUS
    <2>2. \A c \in Corrs : f[c] \in Nat
      BY <2>1
    <2>3. Summable(f, Corrs)
      BY <2>1, <2>2, ApprovalAssumption DEF Summable
    <2>4. QED
      BY <2>1, <2>2, <2>3, SumIsNatural DEF RowCount
  <1>2. {"REQUESTED", "APPROVED", "EXIT"} \subseteq RowTypes
    BY DEF RowTypes, Outcomes
  <1>3. PICK a \in Nat, b \in Nat : a = RowCount("APPROVED") /\ b = RowCount("EXIT")
    BY <1>1, <1>2
  <1>4. Max({0, a - b}) \in Nat
    BY AtLeastZero
  <1>5. QED
    BY <1>1, <1>2, <1>3, <1>4 DEF Status, Modes

\* Every step keeps them.
LEMMA HeldStep ==
    ASSUME WorkflowInv, Held, [Next]_vars
    PROVE  Held'
  <1>1. CASE UNCHANGED vars \/ (Write /\ ~Load /\ ~RecoveryFails)
    <2>1. UNCHANGED <<snapshot, recon, compared, recovery>>
      BY <1>1 DEF vars, Write, RegisterKey, Duplicate, AppendPreview, AppendOutcome, AppendAudit,
         AppendStarted, Unavailable, durable, volatile
    <2>2. QED
      BY <2>1 DEF Held
  <1>2. CASE Load
    <2>1. recovery' \in [mode : Modes, unresolved : Nat, open : Nat]
      BY <1>2, StatusType DEF Load, WorkflowInv, StoreTypes
    <2>2. QED
      BY <1>2, <2>1 DEF Load, durable, Held
  <1>3. CASE RecoveryFails \/ Restart
    <2>1. NotRecovered \in [mode : Modes, unresolved : Nat, open : Nat]
      BY DEF NotRecovered, Modes
    <2>2. QED
      BY <1>3, <2>1 DEF RecoveryFails, Restart, durable, Held
  <1>4. CASE Call
    <2>1. CASE \E b \in Brokers, l \in Locals : Reconcile(b, l)
      <3>1. PICK b \in Brokers, l \in Locals : Reconcile(b, l)
        BY <2>1
      <3>2. recon' = Matches(b, l) /\ compared' = {[broker |-> b, local |-> l]}
            /\ UNCHANGED <<snapshot, recovery>>
        BY <3>1 DEF Reconcile, Begin, durable
      <3>3. Matches(b, l) \in BOOLEAN
        BY DEF Matches
      <3>4. compared' \subseteq Comparisons
        BY <3>2 DEF Comparisons
      <3>5. QED
        BY <3>2, <3>3, <3>4 DEF Held
    <2>2. CASE \E mode \in SavedModes : SaveSnapshot(mode)
      BY <2>2 DEF SaveSnapshot, volatile, Held
    <2>3. CASE ~(\E b \in Brokers, l \in Locals : Reconcile(b, l))
               /\ ~(\E mode \in SavedModes : SaveSnapshot(mode))
      <3>1. UNCHANGED <<snapshot, recon, compared, recovery>>
        BY <1>4, <2>3 DEF Call, RequestApproval, Approve, Decline, Track, OnLtp, Recover, Begin,
           durable, volatile
      <3>2. QED
        BY <3>1 DEF Held
    <2>4. QED
      BY <2>1, <2>2, <2>3
  <1>5. QED
    BY <1>1, <1>2, <1>3, <1>4 DEF Next

\* Whatever the brokers, the plans and the failures, every table, attribute and pending
\* operation has its type; the recovery's counts, sums over the audit rows, are never negative.
THEOREM WorkflowTypes == Spec => []TypeOK
  <1>1. Init => Held
    <2>1. NotRecovered \in [mode : Modes, unresolved : Nat, open : Nat]
      BY DEF NotRecovered, Modes
    <2>2. QED
      BY <2>1 DEF Init, Held
  <1>2. WorkflowInv /\ Held /\ [Next]_vars => Held'
    BY HeldStep
  <1>3. WorkflowInv /\ Held => TypeOK
    BY DEF WorkflowInv, StoreTypes, Held, TypeOK
  <1>4. QED
    BY <1>1, <1>2, <1>3, WorkflowInvariant, PTL DEF Spec

(***************************************************************************)
(* Where the monitor's wrapper has the key store too.                      *)
(***************************************************************************)
Shown(c) == log[c].PREVIEW + log[c].EXIT_PREVIEW

\* What was shown stands behind its key, and a preview that is about to be recorded is
\* the first thing shown of its id.
ShownInv ==
    /\ \A c \in Corrs : Shown(c) <= 1
    /\ \A c \in Corrs \ keys : Shown(c) = 0
    /\ op.at = "preview" => op.corr \in keys /\ Shown(op.corr) = 0

\* With the key store no operation begins at a preview, nor goes on with one, unless it
\* has just registered its key.
LEMMA OnlyKeysLeadToPreviews ==
    ASSUME ExitsKeyed, WorkflowInv, [Next]_vars, op'.at = "preview"
    PROVE  RegisterKey \/ UNCHANGED vars
  <1>1. \A c, rest : ExitStep(c, rest).at = "key"
    BY DEF ExitStep, FirstWrite, Step, Idle
  <1>2. Idle.at = "idle" /\ \A at, c, row, give : Step(at, c, row, give).at = at
    BY DEF Step, Idle
  <1>3. op \in Operations
    BY DEF WorkflowInv, StoreTypes
  <1>4. CASE Call
    <2>1. op = Idle \/ UNCHANGED op
      BY <1>4 DEF Call, RequestApproval, Approve, Decline, Reconcile, Track, OnLtp,
         SaveSnapshot, Recover, Begin
    <2>2. op'.at \in {"idle", "outcome", "key", "audit", "started"}
      <3>1. CASE \E c \in Corrs, a \in BOOLEAN : RequestApproval(c, a)
        BY <1>2, <3>1 DEF RequestApproval, Begin
      <3>2. CASE \E r \in requests : Approve(r) \/ Decline(r)
        BY <1>2, <3>2 DEF Approve, Decline, Begin
      <3>3. CASE \E b \in Brokers, l \in Locals : Reconcile(b, l)
        BY <1>2, <3>3 DEF Reconcile, Begin
      <3>4. CASE \E p \in Plans : Track(p)
        BY <1>2, <3>4 DEF Track
      <3>5. CASE \E s \in Symbols, ltp \in Ltps : OnLtp(s, ltp)
        BY <1>1, <3>5 DEF OnLtp, Begin
      <3>6. CASE \E mode \in SavedModes : SaveSnapshot(mode)
        BY <1>2, <3>6 DEF SaveSnapshot
      <3>7. CASE \E passed \in BOOLEAN : Recover(passed)
        <4>1. PICK o : o = Step("started", NoCorr, "REJECTED", {}) /\ o.at = "started"
          BY <1>2
        <4>2. o \in [{"at", "corr", "row", "give", "rest", "passed"} -> {o[f] : f \in {"at", "corr", "row", "give", "rest", "passed"}}]
          BY <4>1 DEF Step, Idle
        <4>3. \E passed \in BOOLEAN : op' = [o EXCEPT !.passed = passed]
          BY <3>7, <4>1 DEF Recover, Begin
        <4>4. QED
          BY <4>1, <4>2, <4>3
      <3>8. QED
        BY <1>4, <3>1, <3>2, <3>3, <3>4, <3>5, <3>6, <3>7 DEF Call
    <2>3. QED
      BY <2>2
  <1>5. CASE Write
    <2>1. CASE AppendOutcome
      <3>1. op' = Idle \/ \E c \in op.rest : op' = ExitStep(c, op.rest \ {c})
        BY <2>1 DEF AppendOutcome, Continue
      <3>2. op'.at \in {"idle", "key"}
        BY ZenonT(40), <1>1, <1>2, <3>1
      <3>3. QED
        BY <3>2
    <2>2. CASE AppendPreview \/ AppendStarted \/ Load \/ RecoveryFails
      BY <1>3, <2>2, AdvanceType DEF AppendPreview, AppendStarted, Load, RecoveryFails
    <2>3. CASE Duplicate \/ AppendAudit \/ Unavailable
      BY <1>2, <2>3 DEF Duplicate, AppendAudit, Unavailable
    <2>4. QED
      BY <1>5, <2>1, <2>2, <2>3 DEF Write
  <1>6. CASE Restart
    BY <1>2, <1>6 DEF Restart
  <1>7. QED
    BY <1>4, <1>5, <1>6 DEF Next

\* Every step keeps it.
LEMMA ShownStep ==
    ASSUME ExitsKeyed, WorkflowInv, ShownInv, [Next]_vars
    PROVE  ShownInv'
  <1>1. /\ log \in [Corrs -> [RowTypes -> Nat]] /\ op \in Operations
        /\ log' \in [Corrs -> [RowTypes -> Nat]]
    BY WorkflowNext DEF WorkflowInv, StoreTypes
  <1>2. {"PREVIEW", "EXIT_PREVIEW"} \subseteq RowTypes
        /\ \A c \in Corrs : Shown(c) \in Nat /\ Shown(c)' \in Nat
    BY <1>1 DEF RowTypes, Outcomes, Shown
  <1>3. CASE RegisterKey
    <2>1. /\ op.at = "key" /\ op.corr \notin keys /\ keys' = keys \cup {op.corr}
          /\ op' = [op EXCEPT !.at = "preview"] /\ UNCHANGED log
      BY <1>3 DEF RegisterKey
    <2>2. op'.corr = op.corr /\ op.corr \in Corrs
      BY <1>1, <2>1, AdvanceType DEF WorkflowInv, OpInv, Pending
    <2>3. \A c : Shown(c)' = Shown(c)
      BY <2>1 DEF Shown
    <2>4. Shown(op.corr) = 0
      BY <2>1, <2>2 DEF ShownInv
    <2>5. Shown(op.corr)' = Shown(op.corr)
      BY <2>1, <2>2 DEF Shown
    <2>6. QED
      BY <2>1, <2>2, <2>3, <2>4, <2>5 DEF ShownInv
  <1>4. CASE UNCHANGED vars
    BY <1>4 DEF vars, ShownInv, Shown
  <1>5. CASE ~RegisterKey /\ ~UNCHANGED vars
    <2>1. op'.at # "preview"
      BY <1>5, OnlyKeysLeadToPreviews
    <2>2. CASE AppendPreview
      <3>1. PICK row \in {"PREVIEW", "EXIT_PREVIEW"} : AppendRow(op.corr, row)
        BY <2>2 DEF AppendPreview
      <3>2. op.corr \in keys /\ op.corr \in Corrs /\ Shown(op.corr) = 0 /\ UNCHANGED keys
        BY <2>2 DEF AppendPreview, ShownInv, WorkflowInv, OpInv, Pending
      <3>3. row \in RowTypes
        BY <1>2, <3>1
      <3>4. \A d \in Corrs, x \in RowTypes :
              log'[d][x] = IF d = op.corr /\ x = row THEN log[d][x] + 1 ELSE log[d][x]
        BY <1>1, <3>1, <3>2, <3>3, AppendRowCounts
      <3>5. \A d \in Corrs : d # op.corr => Shown(d)' = Shown(d)
        BY <1>2, <3>4 DEF Shown
      <3>6. Shown(op.corr) + 1 = log'[op.corr].PREVIEW + log'[op.corr].EXIT_PREVIEW
        <4>1. PICK p \in Nat, q \in Nat : p = log[op.corr].PREVIEW /\ q = log[op.corr].EXIT_PREVIEW
          BY <1>1, <1>2, <3>2
        <4>2. CASE row = "PREVIEW"
          <5>1. log'[op.corr].PREVIEW = p + 1 /\ log'[op.corr].EXIT_PREVIEW = q
            BY <1>2, <3>2, <3>4, <4>1, <4>2
          <5>2. QED
            BY <4>1, <5>1 DEF Shown
        <4>3. CASE row = "EXIT_PREVIEW"
          <5>1. log'[op.corr].PREVIEW = p /\ log'[op.corr].EXIT_PREVIEW = q + 1
            BY <1>2, <3>2, <3>4, <4>1, <4>3
          <5>2. QED
            BY <4>1, <5>1 DEF Shown
        <4>4. QED
          BY <4>2, <4>3
      <3>7. \A d \in Corrs : d = op.corr => Shown(d)' = 1
        BY <3>2, <3>6 DEF Shown
      <3>8. QED
        BY <2>1, <3>2, <3>5, <3>7 DEF ShownInv
    <2>3. CASE ~AppendPreview
      <3>1. AppendOutcome \/ UNCHANGED <<log, keys>>
        BY <1>5, <2>3, OnlyAppendsWrite
      <3>2. \A d \in Corrs : Shown(d)' = Shown(d)
        <4>1. CASE AppendOutcome
          <5>1. op.row \in RowTypes /\ op.corr \in Corrs /\ op.row \notin {"PREVIEW", "EXIT_PREVIEW"}
            BY <1>1, <4>1 DEF AppendOutcome, Operations, Outcomes, RowTypes, WorkflowInv, OpInv, Pending
          <5>2. AppendRow(op.corr, op.row)
            BY <4>1 DEF AppendOutcome
          <5>3. \A d \in Corrs, x \in RowTypes :
                  log'[d][x] = IF d = op.corr /\ x = op.row THEN log[d][x] + 1 ELSE log[d][x]
            BY <1>1, <5>1, <5>2, AppendRowCounts
          <5>4. QED
            BY <1>2, <5>1, <5>3 DEF Shown
        <4>2. CASE UNCHANGED <<log, keys>>
          BY <4>2 DEF Shown
        <4>3. QED
          BY <3>1, <4>1, <4>2
      <3>3. keys' = keys
        BY <3>1 DEF AppendOutcome
      <3>4. QED
        BY <2>1, <3>2, <3>3 DEF ShownInv
    <2>4. QED
      BY <2>2, <2>3
  <1>6. QED
    BY <1>3, <1>4, <1>5

\* With the key store in both wrappers an id is shown once in all, be it as an entry or
\* as an exit, across all failures and restarts.
THEOREM IdsAreShownOnce ==
    ASSUME ExitsKeyed
    PROVE  Spec => []ShownOnce
  <1>1. Init => ShownInv
    <2>1. SUFFICES ASSUME Init PROVE ShownInv
      OBVIOUS
    <2>2. \A c \in Corrs : Shown(c) = 0
      BY <2>1 DEF Init, Shown, RowTypes, Outcomes
    <2>3. op.at = "idle"
      BY <2>1 DEF Init, Idle
    <2>4. QED
      BY <2>2, <2>3 DEF ShownInv
  <1>2. WorkflowInv /\ ShownInv /\ [Next]_vars => ShownInv'
    BY ShownStep
  <1>3. ShownInv => ShownOnce
    BY DEF ShownInv, ShownOnce, Shown
  <1>4. QED
    BY <1>1, <1>2, <1>3, WorkflowInvariant, PTL DEF Spec
=============================================================================
