----------------------------- MODULE PaperBook -----------------------------
(***************************************************************************)
(* The arithmetic and the order rules of the SQLite paper account          *)
(* (paper_engine.py), shared by the abstract account (PaperAccount) and by *)
(* the engine that implements it (PaperEngine).                            *)
(*                                                                         *)
(* Money is counted in fifths of a price unit, so that the 20% margin of   *)
(* an MIS order is an exact integer.  The code's round(_, 2) is therefore  *)
(* not modelled: prices are whole numbers of the smallest tick.            *)
(***************************************************************************)
EXTENDS Integers, FiniteSets, Functions

CONSTANTS Symbols,     \* tradable symbols
          Prices,      \* prices a quote or a limit order can carry, all > 0
          Quantities,  \* order quantities, all > 0
          Orders,      \* orders as place_order has normalised and validated them
          Ids          \* uuid4 position ids, numbered in the order they are drawn

Sides    == {"BUY", "SELL"}
Products == {"MIS", "CNC"}
Reasons  == {"STOP_LOSS_HIT", "TARGET_2_HIT", "TARGET_1_HIT", "MANUAL_EXIT",
             "BUY_CLOSE_OPPOSITE", "SELL_CLOSE_OPPOSITE"}

(***************************************************************************)
(* An order as place_order has normalised and validated it, a row of       *)
(* paper_positions, and a row of paper_trades.                             *)
(***************************************************************************)
\* stop_loss, target_1 and target_2; 0 means "not set".
Brackets == [stop : Nat, target1 : Nat, target2 : Nat]

OrderType == [symbol : Symbols, side : Sides, product : Products,
              quantity : Quantities, bracket : Brackets]

ASSUME BookAssumption ==
    /\ Prices \subseteq Nat \ {0}
    /\ Quantities \subseteq Nat \ {0}
    /\ Orders \subseteq OrderType
    /\ Ids \subseteq Nat \ {0}

Positions == [symbol : Symbols, side : Sides, product : Products,
              quantity : Quantities, bracket : Brackets, entry : Prices,
              last : Prices, margin : Nat]

Trades == [id : Ids, symbol : Symbols, side : Sides, quantity : Quantities,
           entry : Prices, exit : Prices, pnl : Int, reason : Reasons]

\* round(turnover * 0.20) for MIS and the whole turnover for CNC, in fifths.
MarginRequired(product, price, quantity) ==
    IF product = "MIS" THEN price * quantity ELSE 5 * price * quantity

NewPosition(o, price) ==
    [symbol |-> o.symbol, side |-> o.side, product |-> o.product,
     quantity |-> o.quantity, bracket |-> o.bracket, entry |-> price,
     last |-> price, margin |-> MarginRequired(o.product, price, o.quantity)]

Pnl(p, price) ==
    IF p.side = "BUY" THEN 5 * (price - p.entry) * p.quantity
                      ELSE 5 * (p.entry - price) * p.quantity

NewTrade(i, p, price, reason) ==
    [id |-> i, symbol |-> p.symbol, side |-> p.side, quantity |-> p.quantity,
     entry |-> p.entry, exit |-> price, pnl |-> Pnl(p, price),
     reason |-> reason]

(***************************************************************************)
(* Automatic exits.  A level of 0 is off; the stop is looked at first,     *)
(* then the far target, then the near one.                                 *)
(***************************************************************************)
StopHit(p, price) ==
    /\ p.bracket.stop > 0
    /\ IF p.side = "BUY" THEN price <= p.bracket.stop ELSE price >= p.bracket.stop

TargetHit(p, level, price) ==
    /\ level > 0
    /\ IF p.side = "BUY" THEN price >= level ELSE price <= level

ExitHit(p, price) ==
    \/ StopHit(p, price)
    \/ TargetHit(p, p.bracket.target2, price)
    \/ TargetHit(p, p.bracket.target1, price)

\* Mutant: the near target is forgotten in the chain of reasons.
ExitReason_NoNearTarget(p, price) ==
    IF StopHit(p, price) THEN "STOP_LOSS_HIT"
    ELSE IF TargetHit(p, p.bracket.target2, price) THEN "TARGET_2_HIT"
    ELSE ""

ExitReason(p, price) ==
    IF StopHit(p, price) THEN "STOP_LOSS_HIT"
    ELSE IF TargetHit(p, p.bracket.target2, price) THEN "TARGET_2_HIT"
    ELSE "TARGET_1_HIT"

(***************************************************************************)
(* The rows place_order's SELECT looks for, and the totals of a book.      *)
(***************************************************************************)
Opposite(book, o) ==
    {i \in DOMAIN book : book[i].symbol = o.symbol /\ book[i].side # o.side}

OnSymbol(book, s) == {i \in DOMAIN book : book[i].symbol = s}

Reserved(book) == SumFunction([i \in DOMAIN book |-> book[i].margin])

Marked(p, s, price) == IF p.symbol = s THEN [p EXCEPT !.last = price] ELSE p

TotalPnl(trades) == SumFunction([t \in trades |-> t.pnl])
=============================================================================
