------------------------- MODULE MCApprovalWorkflow -------------------------
(***************************************************************************)
(* Small instances of ApprovalWorkflow for TLC.                            *)
(***************************************************************************)
EXTENDS ApprovalWorkflow, TLC

Flat == [s \in {} |-> 0]

Holding(q, avg) == [s \in Symbols |-> [quantity |-> q, average |-> avg]]

NoOrders == [c \in {} |-> "OPEN"]

Broker(stale, positions, orders) ==
    [stale |-> stale, positions |-> positions, orders |-> orders]

Local(positions, orders) == [positions |-> positions, orders |-> orders]

\* One fresh broker state, and one in which the local position has grown.
MCBrokers == {Broker(FALSE, Holding(1, 100), NoOrders),
              Broker(FALSE, Holding(2, 100), NoOrders)}
MCLocals == {Local(Holding(1, 101), {})}

\* A stale state, an empty account, one share, an average price out of
\* tolerance, and the order of the first correlation id open or rejected.
MCManyBrokers ==
    {Broker(TRUE, Flat, NoOrders), Broker(FALSE, Flat, NoOrders),
     Broker(FALSE, Holding(1, 100), NoOrders),
     Broker(FALSE, Holding(1, 102), NoOrders),
     Broker(FALSE, Holding(0, 0), [c \in Corrs |-> "OPEN"]),
     Broker(FALSE, Flat, [c \in Corrs |-> "REJECTED"])}
MCManyLocals == {Local(Flat, {}), Local(Flat, Corrs), Local(Holding(1, 100), {})}

\* A long with its stop and a short without one, on the same symbol.
MCPlans ==
    {[corr |-> c, symbol |-> s, side |-> "BUY", stop |-> {1}, target |-> {3}] :
        c \in Corrs, s \in Symbols}

MCTwoPlans ==
    MCPlans \cup
    {[corr |-> c, symbol |-> s, side |-> "SELL", stop |-> {}, target |-> {2}] :
        c \in Corrs, s \in Symbols}

CorrSymmetry == Permutations(Corrs)
=============================================================================
