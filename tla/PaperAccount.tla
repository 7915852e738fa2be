---------------------------- MODULE PaperAccount ----------------------------
(***************************************************************************)
(* What the paper account promises, with no threads, locks, transactions   *)
(* or crashes: an account is created once; every operation happens at one  *)
(* instant; and the cash that can be spent is not stored at all but is     *)
(* what the deposits, the closed trades and the open margins leave.        *)
(***************************************************************************)
EXTENDS PaperBook

CONSTANTS Balances,   \* starting balances an account may be created or reset with
          TopUps      \* amounts of virtual balance that can be added

VARIABLES account,    \* has the account row been created?
          deposited,  \* starting balance plus every top-up
          book,       \* open positions: id -> position
          trades      \* closed trades since the last reset

avars == <<account, deposited, book, trades>>

NoBook == [i \in {} |-> {}]

Spendable == deposited + TotalPnl(trades) - Reserved(book)

TradedIds == {t.id : t \in trades}

Init ==
    /\ account = FALSE
    /\ deposited = 0
    /\ book = NoBook
    /\ trades = {}

Create(b) ==
    /\ ~account
    /\ account' = TRUE
    /\ deposited' = b
    /\ UNCHANGED <<book, trades>>

Reset(b) ==
    /\ account
    /\ deposited' = b
    /\ book' = NoBook
    /\ trades' = {}
    /\ UNCHANGED account

TopUp(a) ==
    /\ account
    /\ deposited' = deposited + a
    /\ UNCHANGED <<account, book, trades>>

\* A position opens only when nothing opposite is open on its symbol, never
\* as a delivery short, and only when its margin is spendable.
Open(i, o, price) ==
    /\ account
    /\ i \notin DOMAIN book \cup TradedIds
    /\ Opposite(book, o) = {}
    /\ ~(o.side = "SELL" /\ o.product = "CNC")
    /\ NewPosition(o, price).margin <= Spendable
    /\ book' = [j \in DOMAIN book \cup {i} |->
                    IF j = i THEN NewPosition(o, price) ELSE book[j]]
    /\ UNCHANGED <<account, deposited, trades>>

\* One position becomes one trade.
Close(i, price, reason) ==
    /\ i \in DOMAIN book
    /\ book' = [j \in DOMAIN book \ {i} |-> book[j]]
    /\ trades' = trades \cup {NewTrade(i, book[i], price, reason)}
    /\ UNCHANGED <<account, deposited>>

\* A price reaches every position of its symbol at once, and those whose stop
\* or target it reaches are closed at it, all of them or none.
Mark(s, price) ==
    LET hit == {i \in OnSymbol(book, s) : ExitHit(book[i], price)}
    IN  /\ account
        /\ book' = [j \in DOMAIN book \ hit |-> Marked(book[j], s, price)]
        /\ trades' = trades \cup
               {NewTrade(i, book[i], price, ExitReason(book[i], price)) : i \in hit}
        /\ UNCHANGED <<account, deposited>>

Next ==
    \/ \E b \in Balances : Create(b) \/ Reset(b)
    \/ \E a \in TopUps : TopUp(a)
    \/ \E i \in Ids, o \in Orders, price \in Prices : Open(i, o, price)
    \/ \E i \in DOMAIN book, price \in Prices, r \in Reasons : Close(i, price, r)
    \/ \E s \in Symbols, price \in Prices : Mark(s, price)

Spec == Init /\ [][Next]_avars
=============================================================================
