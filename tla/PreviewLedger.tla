--------------------------- MODULE PreviewLedger ---------------------------
(***************************************************************************)
(* What the audit store promises a reader about the order previews of the  *)
(* approval workflow, with no processes, operations, failed writes or      *)
(* crashes: a correlation id is claimed at most once, shown to the user as *)
(* a preview at most once and only if claimed, and approved at most once   *)
(* and only if shown.  An id that is claimed and never shown stays claimed.*)
(***************************************************************************)
EXTENDS Naturals

CONSTANT Corrs      \* correlation ids of signals

VARIABLES claimed,  \* ids whose idempotency key is registered
          previews, \* number of entry previews recorded per id
          approvals \* number of approvals recorded per id

lvars == <<claimed, previews, approvals>>

Init ==
    /\ claimed = {}
    /\ previews = [c \in Corrs |-> 0]
    /\ approvals = [c \in Corrs |-> 0]

Claim(c) ==
    /\ c \notin claimed
    /\ claimed' = claimed \cup {c}
    /\ UNCHANGED <<previews, approvals>>

Show(c) ==
    /\ c \in claimed
    /\ previews[c] = 0
    /\ previews' = [previews EXCEPT ![c] = 1]
    /\ UNCHANGED <<claimed, approvals>>

Approve(c) ==
    /\ previews[c] = 1
    /\ approvals[c] = 0
    /\ approvals' = [approvals EXCEPT ![c] = 1]
    /\ UNCHANGED <<claimed, previews>>

Next == \E c \in Corrs : Claim(c) \/ Show(c) \/ Approve(c)

Spec == Init /\ [][Next]_lvars
=============================================================================
