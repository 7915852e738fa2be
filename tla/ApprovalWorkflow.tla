-------------------------- MODULE ApprovalWorkflow --------------------------
(***************************************************************************)
(* The approval-required workflow of the Zerodha integration: broker       *)
(* reconciliation, approval requests, order previews behind an idempotency *)
(* key, the stop/target monitor, and the crash recovery service, all of    *)
(* them on one SQLite audit store through a PersistentEventBus.            *)
(*                                                                         *)
(* Every operation is a sequence of durable writes, each in a transaction  *)
(* of its own.  Between any two of them the process may crash, and any of  *)
(* them may fail with PersistenceUnavailable, which ends the operation.    *)
(* Audit rows without a correlation id are written (and can fail) but not  *)
(* kept, nor are the failure markers of the bus: nothing reads them here.  *)
(***************************************************************************)
EXTENDS Integers, FiniteSets, FiniteSetsExt

CONSTANTS Corrs,      \* correlation ids of signals
          NoCorr,     \* an operation without a correlation id
          Symbols,    \* traded symbols
          Plans,      \* trade plans the user may have the monitor track
          Ltps,       \* last traded prices
          Brokers,    \* broker states as they are fetched for reconciliation
          Locals,     \* local approval states they are compared with
          SavedModes, \* modes the runtime snapshots carry
          ExitsKeyed, \* does the monitor's order wrapper have the key store?
          MaxRows,    \* bound: requests, and rejections, of one correlation id
          MaxExits    \* bound: exit previews of one correlation id

Outcomes == {"REQUESTED", "REJECTED", "APPROVED", "EXIT"}
RowTypes == Outcomes \cup {"PREVIEW", "EXIT_PREVIEW"}
Statuses == {"APPROVAL_REQUIRED", "APPROVED", "REJECTED", "BLOCKED"}
Modes    == {"RECOVERED", "SAFE_RECOVERY"}

\* stop and target hold at most one price: None is the empty set.
PlanType == [corr : Corrs, symbol : Symbols, side : {"BUY", "SELL"}, stop : SUBSET Ltps,
             target : SUBSET Ltps]

ASSUME ApprovalAssumption ==
    /\ NoCorr \notin Corrs
    /\ IsFiniteSet(Corrs)
    /\ Ltps \subseteq Nat
    /\ Plans \subseteq PlanType
    /\ "NONE" \notin SavedModes
    /\ ExitsKeyed \in BOOLEAN
    /\ MaxRows \in Nat
    /\ MaxExits \in Nat

VARIABLES
  log,       \* durable: rows of runtime_events per correlation id and type
  keys,      \* durable: processed_idempotency_keys "preview:{correlation_id}"
  snapshot,  \* durable: mode of the latest runtime snapshot
  recon,     \* BrokerReconciliationService.last_result.passed
  compared,  \* history: the states the last reconciliation compared
  requests,  \* TradeApprovalRequest objects the caller holds
  plans,     \* SLTargetMonitor.plans in insertion order
  recovery,  \* CrashRecoveryService.last_status
  op         \* the operation that runs: its next write and what follows

durable  == <<log, keys, snapshot>>
volatile == <<recon, compared, requests, plans, recovery>>
vars     == <<log, keys, snapshot, recon, compared, requests, plans, recovery,
              op>>

(***************************************************************************)
(* Reconciliation: the reasons for which a broker state and a local state  *)
(* do not match.  Positions are functions from symbols, orders from        *)
(* correlation ids; average prices are in paise.                           *)
(***************************************************************************)
Drifted(b, l, s) ==
    IF s \in DOMAIN l.positions
    THEN \/ b.positions[s].quantity # l.positions[s].quantity
         \/ b.positions[s].average > l.positions[s].average + 1
         \/ l.positions[s].average > b.positions[s].average + 1
    ELSE b.positions[s].quantity # 0

OrderMissing(b, c) == c \notin DOMAIN b.orders \/ b.orders[c] = "REJECTED"

Matches(b, l) ==
    /\ ~b.stale
    /\ \A s \in DOMAIN b.positions : ~Drifted(b, l, s)
    /\ \A c \in l.orders : ~OrderMissing(b, c)

(***************************************************************************)
(* Operations.  at is the write that comes next; row and corr say which    *)
(* audit row; give is the request the caller gets when it is written; rest *)
(* are the plans of the monitor's loop still to be looked at.              *)
(***************************************************************************)
Idle == [at |-> "idle", corr |-> NoCorr, row |-> "REJECTED", give |-> {},
         rest |-> {}, passed |-> FALSE]

Request(c, status) == [corr |-> c, status |-> status]

Step(at, c, row, give) ==
    [Idle EXCEPT !.at = at, !.corr = c, !.row = row, !.give = give]

Begin(o) ==
    /\ op = Idle
    /\ op' = o
    /\ UNCHANGED durable

Room(c, row) == log[c][row] < MaxRows

RequestStatus(actionable) ==
    IF ~recon THEN "BLOCKED"
    ELSE IF ~actionable THEN "REJECTED" ELSE "APPROVAL_REQUIRED"

RequestApproval(c, actionable) ==
    LET status == RequestStatus(actionable)
        row == IF status = "APPROVAL_REQUIRED" THEN "REQUESTED" ELSE "REJECTED"
    IN  /\ Room(c, row)
        /\ Begin(Step("outcome", c, row, {Request(c, status)}))
        /\ UNCHANGED volatile

\* Mutant: the approval is recorded before its preview.
Approve_DecidesFirst(r) ==
    /\ r \in requests
    /\ Begin(Step("outcome", r.corr, "APPROVED", {Request(r.corr, "APPROVED")}))
    /\ UNCHANGED volatile

\* approve(request, user_approved=True): the request's own status and the
\* reconciliation are not looked at again.
Approve(r) ==
    /\ r \in requests
    /\ Begin(Step("key", r.corr, "APPROVED", {Request(r.corr, "APPROVED")}))
    /\ UNCHANGED volatile

Decline(r) ==
    /\ r \in requests
    /\ Room(r.corr, "REJECTED")
    /\ Begin(Step("outcome", r.corr, "REJECTED", {Request(r.corr, "REJECTED")}))
    /\ UNCHANGED volatile

\* Mutant: a reconciliation that fails leaves the last result as it was.
Reconcile_KeepsPass(b, l) ==
    /\ Begin(Step("audit", NoCorr, "REJECTED", {}))
    /\ recon' = (recon \/ Matches(b, l))
    /\ compared' = {[broker |-> b, local |-> l]}
    /\ UNCHANGED <<requests, plans, recovery>>

\* last_result is assigned before its event is published.
Reconcile(b, l) ==
    /\ Begin(Step("audit", NoCorr, "REJECTED", {}))
    /\ recon' = Matches(b, l)
    /\ compared' = {[broker |-> b, local |-> l]}
    /\ UNCHANGED <<requests, plans, recovery>>

(***************************************************************************)
(* The stop/target monitor.  Its plans are a dict keyed by correlation id. *)
(* The loop takes them in the order they were tracked, which is any order: *)
(* an iteration depends on earlier ones only through the key store, and    *)
(* their ids differ.  The user has approved plans tracked, also after a    *)
(* restart (external: nothing in src/ calls track).                        *)
(***************************************************************************)
Track(p) ==
    /\ op = Idle
    /\ log[p.corr].APPROVED > 0
    /\ plans' = {q \in plans : q.corr # p.corr} \cup {p}
    /\ UNCHANGED <<durable, recon, compared, requests, recovery, op>>

Reached(p, ltp) ==
    IF p.side = "BUY"
    THEN (\E s \in p.stop : ltp <= s) \/ (\E g \in p.target : ltp >= g)
    ELSE (\E s \in p.stop : ltp >= s) \/ (\E g \in p.target : ltp <= g)

\* Mutant: exits bypass the key store even where the monitor has it.
FirstWrite_NoKey == "preview"

FirstWrite == IF ExitsKeyed THEN "key" ELSE "preview"

ExitStep(c, rest) == [Step(FirstWrite, c, "EXIT", {}) EXCEPT !.rest = rest]

OnLtp(s, ltp) ==
    LET hit == {p.corr : p \in {q \in plans : q.symbol = s /\ Reached(q, ltp)}}
    IN  /\ \A c \in hit : log[c].EXIT_PREVIEW < MaxExits
        /\ \E c \in hit : Begin(ExitStep(c, hit \ {c}))
        /\ UNCHANGED volatile

(***************************************************************************)
(* Snapshots and recovery.  The caller says whether the broker was         *)
(* reconciled.                                                             *)
(***************************************************************************)
SaveSnapshot(mode) ==
    /\ op = Idle
    /\ snapshot' = mode
    /\ UNCHANGED <<log, keys, volatile, op>>

Recover(passed) ==
    /\ Begin([Step("started", NoCorr, "REJECTED", {}) EXCEPT !.passed = passed])
    /\ UNCHANGED volatile

RowCount(row) == SumFunction([c \in Corrs |-> log[c][row]])

NotRecovered == [mode |-> "SAFE_RECOVERY", unresolved |-> 0, open |-> 0]

\* Mutant: the number of open plans is not cut off at zero.
Status_Unclamped(passed) ==
    [mode |-> IF snapshot \in {"NONE", "SAFE_RECOVERY"} \/ ~passed
              THEN "SAFE_RECOVERY" ELSE "RECOVERED",
     unresolved |-> RowCount("REQUESTED"),
     open |-> RowCount("APPROVED") - RowCount("EXIT")]

Status(passed) ==
    [mode |-> IF snapshot \in {"NONE", "SAFE_RECOVERY"} \/ ~passed
              THEN "SAFE_RECOVERY" ELSE "RECOVERED",
     unresolved |-> RowCount("REQUESTED"),
     open |-> Max({0, RowCount("APPROVED") - RowCount("EXIT")})]

(***************************************************************************)
(* Durable writes.                                                         *)
(***************************************************************************)
\* Mutant: a key that exists is replaced instead of refused.
RegisterKey_Replaces ==
    /\ op.at = "key"
    /\ keys' = keys \cup {op.corr}
    /\ op' = [op EXCEPT !.at = "preview"]
    /\ UNCHANGED <<log, snapshot, volatile>>

RegisterKey ==
    /\ op.at = "key"
    /\ op.corr \notin keys
    /\ keys' = keys \cup {op.corr}
    /\ op' = [op EXCEPT !.at = "preview"]
    /\ UNCHANGED <<log, snapshot, volatile>>

Duplicate ==
    /\ op.at = "key"
    /\ op.corr \in keys
    /\ op' = Idle
    /\ UNCHANGED <<durable, volatile>>

\* The monitor's loop goes on; any other operation returns.
Continue ==
    IF op.rest = {} THEN op' = Idle
    ELSE \E c \in op.rest : op' = ExitStep(c, op.rest \ {c})

AppendRow(c, row) == log' = [log EXCEPT ![c][row] = @ + 1]

AppendPreview ==
    /\ op.at = "preview"
    /\ AppendRow(op.corr, IF op.row = "EXIT" THEN "EXIT_PREVIEW" ELSE "PREVIEW")
    /\ op' = [op EXCEPT !.at = "outcome"]
    /\ UNCHANGED <<keys, snapshot, volatile>>

\* Mutant: the object is handed out although its row is not written.
AppendOutcome_NotDurable ==
    /\ op.at = "outcome"
    /\ UNCHANGED log
    /\ requests' = requests \cup op.give
    /\ Continue
    /\ UNCHANGED <<keys, snapshot, recon, compared, plans, recovery>>

AppendOutcome ==
    /\ op.at = "outcome"
    /\ AppendRow(op.corr, op.row)
    /\ requests' = requests \cup op.give
    /\ Continue
    /\ UNCHANGED <<keys, snapshot, recon, compared, plans, recovery>>

AppendAudit ==
    /\ op.at \in {"audit", "report"}
    /\ op' = Idle
    /\ UNCHANGED <<durable, volatile>>

AppendStarted ==
    /\ op.at = "started"
    /\ op' = [op EXCEPT !.at = "load"]
    /\ UNCHANGED <<durable, volatile>>

Load ==
    /\ op.at = "load"
    /\ recovery' = Status(op.passed)
    /\ op' = [op EXCEPT !.at = "report"]
    /\ UNCHANGED <<durable, recon, compared, requests, plans>>

\* A query of recover() or the publication of its result fails: whatever was
\* found is replaced by safe recovery, and that is published instead.
RecoveryFails ==
    /\ op.at \in {"load", "report"}
    /\ recovery' = NotRecovered
    /\ op' = [op EXCEPT !.at = "audit"]
    /\ UNCHANGED <<durable, recon, compared, requests, plans>>

\* PersistenceUnavailable ends the operation; what it has written stays.
Unavailable ==
    /\ op.at \in {"key", "preview", "outcome", "audit", "started"}
    /\ op' = Idle
    /\ UNCHANGED <<durable, volatile>>

\* Mutant: the idempotency keys live in memory.
Restart_ForgetsKeys ==
    /\ op' = Idle
    /\ keys' = {}
    /\ recon' = FALSE /\ compared' = {}
    /\ requests' = {} /\ plans' = {} /\ recovery' = NotRecovered
    /\ UNCHANGED <<log, snapshot>>

\* The process crashes and a new one opens the same database.
Restart ==
    /\ op' = Idle
    /\ recon' = FALSE /\ compared' = {}
    /\ requests' = {} /\ plans' = {} /\ recovery' = NotRecovered
    /\ UNCHANGED durable

Init ==
    /\ log = [c \in Corrs |-> [row \in RowTypes |-> 0]]
    /\ keys = {}
    /\ snapshot = "NONE"
    /\ recon = FALSE /\ compared = {}
    /\ requests = {} /\ plans = {} /\ recovery = NotRecovered
    /\ op = Idle

Call ==
    \/ \E c \in Corrs, a \in BOOLEAN : RequestApproval(c, a)
    \/ \E r \in requests : Approve(r) \/ Decline(r)
    \/ \E b \in Brokers, l \in Locals : Reconcile(b, l)
    \/ \E p \in Plans : Track(p)
    \/ \E s \in Symbols, ltp \in Ltps : OnLtp(s, ltp)
    \/ \E mode \in SavedModes : SaveSnapshot(mode)
    \/ \E passed \in BOOLEAN : Recover(passed)

Write ==
    \/ RegisterKey \/ Duplicate \/ AppendPreview \/ AppendOutcome
    \/ AppendAudit \/ AppendStarted \/ Load \/ RecoveryFails \/ Unavailable

Next == Call \/ Write \/ Restart

Spec == Init /\ [][Next]_vars
-----------------------------------------------------------------------------
(***************************************************************************)
(* Properties.                                                             *)
(***************************************************************************)
Requests == [corr : Corrs, status : Statuses]

Operations ==
    [at : {"idle", "key", "preview", "outcome", "audit", "started", "load",
           "report"},
     corr : Corrs \cup {NoCorr}, row : Outcomes, give : SUBSET Requests,
     rest : SUBSET Corrs, passed : BOOLEAN]

Comparisons == [broker : Brokers, local : Locals]

\* Every table, attribute and pending operation has its type.
TypeOK ==
    /\ log \in [Corrs -> [RowTypes -> Nat]]
    /\ keys \subseteq Corrs
    /\ snapshot \in SavedModes \cup {"NONE"}
    /\ recon \in BOOLEAN
    /\ compared \subseteq Comparisons
    /\ requests \subseteq Requests
    /\ plans \subseteq Plans
    /\ recovery \in [mode : Modes, unresolved : Nat, open : Nat]
    /\ op \in Operations

\* A correlation id gets at most one entry preview in the life of the
\* database, whatever fails between the key, the preview and the approval,
\* however often the process restarts and the same request is approved again.
PreviewedOnce == \A c \in Corrs : log[c].PREVIEW <= 1

\* No decision is recorded without what it rests on: an approval with its
\* preview and at most once, an exit suggestion with its exit preview.
DecisionsPreviewed ==
    \A c \in Corrs :
        /\ log[c].APPROVED <= log[c].PREVIEW
        /\ log[c].EXIT <= log[c].EXIT_PREVIEW

\* The audit row that stands for a request in each status.
RowOf(status) ==
    CASE status = "APPROVAL_REQUIRED" -> "REQUESTED"
      [] status = "APPROVED" -> "APPROVED"
      [] OTHER -> "REJECTED"

\* Nobody holds a request whose creation, approval or rejection is not in the
\* audit store: writes that fail and processes that die hand nothing out.
RequestsAudited ==
    \A r \in requests : log[r.corr][RowOf(r.status)] > 0

\* An approval is requested only while the last comparison of this process
\* found broker and local state in agreement, also when the row of an earlier
\* reconciliation could not be written, and never after a mere restart.
ReconciledFirst ==
    [][\A c \in Corrs : log'[c].REQUESTED # log[c].REQUESTED =>
          \E x \in compared : Matches(x.broker, x.local)]_vars

\* With the key store in both wrappers an id is shown once in all, be it as
\* an entry or as an exit.
ShownOnce == \A c \in Corrs : log[c].PREVIEW + log[c].EXIT_PREVIEW <= 1

(***************************************************************************)
(* The inductive invariant behind these properties: what an operation may  *)
(* rely on between two of its writes.                                      *)
(***************************************************************************)
StoreTypes ==
    /\ log \in [Corrs -> [RowTypes -> Nat]]
    /\ keys \subseteq Corrs
    /\ requests \subseteq Requests
    /\ plans \subseteq Plans
    /\ op \in Operations

\* A preview stands behind its key, an approval behind its preview.
StoreInv ==
    /\ \A c \in Corrs \ keys : log[c].PREVIEW = 0
    /\ PreviewedOnce
    /\ DecisionsPreviewed

Pending == op.at \in {"key", "preview", "outcome"}

OpInv ==
    /\ Pending => op.corr \in Corrs
    /\ op.at \in {"key", "preview"} => op.row \in {"APPROVED", "EXIT"}
    /\ op.row # "EXIT" => op.rest = {}
    /\ op.row = "APPROVED" =>
         /\ op.at = "preview" => op.corr \in keys /\ log[op.corr].PREVIEW = 0
         /\ op.at = "outcome" => /\ log[op.corr].PREVIEW = 1
                                 /\ log[op.corr].APPROVED = 0
    /\ op.row = "EXIT" /\ op.at = "outcome" =>
         log[op.corr].EXIT < log[op.corr].EXIT_PREVIEW

\* The object that is handed out is the one whose row is being written.
GiveInv ==
    \A r \in op.give : r.corr = op.corr /\ op.row = RowOf(r.status)

\* What counts as reconciled was compared and found equal by this process.
ReconInv ==
    /\ recon => \E x \in compared : Matches(x.broker, x.local)
    /\ op.row = "REQUESTED" => recon

WorkflowInv ==
    StoreTypes /\ StoreInv /\ OpInv /\ GiveInv /\ RequestsAudited /\ ReconInv

(***************************************************************************)
(* The workflow implements the ledger of previews.                         *)
(***************************************************************************)
Ledger == INSTANCE PreviewLedger WITH
              claimed <- keys,
              previews <- [c \in Corrs |-> log[c].PREVIEW],
              approvals <- [c \in Corrs |-> log[c].APPROVED]

ImplementsLedger == Ledger!Spec
=============================================================================
