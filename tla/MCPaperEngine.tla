---------------------------- MODULE MCPaperEngine ----------------------------
(***************************************************************************)
(* Small instances of PaperEngine for TLC.                                 *)
(***************************************************************************)
EXTENDS PaperEngine, TLC

Bracket(s, t1, t2) == [stop |-> s, target1 |-> t1, target2 |-> t2]

Off == Bracket(0, 0, 0)

Order(s, side, product, q, b) ==
    [symbol |-> s, side |-> side, product |-> product, quantity |-> q,
     bracket |-> b]

\* An intraday long with a stop, a delivery long with its near target, an
\* intraday short with its far target, and a delivery sale.
MCOrders ==
    {Order(s, "BUY", "MIS", 1, Bracket(1, 0, 0)) : s \in Symbols} \cup
    {Order(s, "BUY", "CNC", 1, Bracket(0, 2, 0)) : s \in Symbols} \cup
    {Order(s, "SELL", "MIS", 1, Bracket(0, 0, 1)) : s \in Symbols} \cup
    {Order(s, "SELL", "CNC", 1, Off) : s \in Symbols}

\* Intraday longs only, with a stop: two rows can wait in one mark_price loop.
MCLiveOrders == {Order(s, "BUY", "MIS", 1, Bracket(1, 0, 0)) : s \in Symbols}

ThreadSymmetry == Permutations(Threads)
=============================================================================
