----------------------------- MODULE PaperEngine -----------------------------
(***************************************************************************)
(* The SQLite paper account (paper_engine.py) as the threads of the paper  *)
(* web server (paper_web_app.py) use it.                                   *)
(*                                                                         *)
(* Every operation takes the engine's RLock and opens a connection; it     *)
(* SELECTs what it needs, then issues relative statements (DELETE by id,   *)
(* cash_balance + ?, INSERT) that reach the database when the connection   *)
(* commits.  Beginning, the row-by-row loop of mark_price, the commit, a   *)
(* rollback and a crash of the process are separate steps.                 *)
(***************************************************************************)
EXTENDS PaperBook, Sequences

CONSTANTS Threads,     \* threads of the ThreadingHTTPServer
          NoThread,    \* the lock is free
          Balances,    \* starting balances configured or asked for in a reset
          TopUps,      \* amounts of virtual balance added
          MaxDeposit   \* bound: top-ups stop once they would pass it

ASSUME EngineAssumption ==
    /\ NoThread \notin Threads
    /\ Balances \subseteq Nat \ {0}
    /\ TopUps \subseteq Nat \ {0}
    /\ MaxDeposit \in Nat

VARIABLES
  up,        \* is the server process running?
  account,   \* committed: does the account row exist?
  deposited, \* committed: paper_account.starting_balance
  cash,      \* committed: paper_account.cash_balance
  realized,  \* committed: paper_account.realized_pnl
  book,      \* committed: paper_positions, id -> row
  trades,    \* committed: paper_trades in the order they were closed
  issued,    \* number of position ids drawn so far
  lock,      \* owner of PaperEngine._lock
  tx,        \* per thread, the statements its open transaction has issued
  quoted     \* per thread, the MARKET order waiting for its own quote

database == <<account, deposited, cash, realized, book, trades>>
vars == <<up, account, deposited, cash, realized, book, trades, issued, lock,
          tx, quoted>>

NoBook == [i \in {} |-> {}]

(***************************************************************************)
(* The statements of a transaction: what it read and has still to look at  *)
(* (rows), and what a commit will do to the database.                      *)
(***************************************************************************)
NoTx == [active |-> FALSE, wipe |-> FALSE, deposit |-> 0, credit |-> 0,
         pnl |-> 0, marks |-> {}, price |-> 0, rows |-> {},
         deleted |-> {}, closed |-> <<>>, insert |-> {}]

Row(i, p) == [id |-> i, pos |-> p]

Started == [NoTx EXCEPT !.active = TRUE]

\* Mutant: the margin is not given back with the P&L.
CloseRow_KeepsMargin(x, i, p, price, reason) ==
    [x EXCEPT !.deleted = @ \cup {i},
              !.credit = @ + Pnl(p, price),
              !.pnl = @ + Pnl(p, price),
              !.closed = Append(@, NewTrade(i, p, price, reason))]

\* _close_row: delete the row, credit margin and P&L, insert the trade.
CloseRow(x, i, p, price, reason) ==
    [x EXCEPT !.deleted = @ \cup {i},
              !.credit = @ + p.margin + Pnl(p, price),
              !.pnl = @ + Pnl(p, price),
              !.closed = Append(@, NewTrade(i, p, price, reason))]

Oldest(S) == CHOOSE i \in S : \A j \in S : i <= j

(***************************************************************************)
(* Taking the lock.  A thread serves one request at a time; a MARKET order *)
(* is one request with two transactions, its quote's and its own.          *)
(***************************************************************************)
\* Mutant: the operations do not take the engine's lock.
LockFree_NoLock == TRUE

LockFree == lock = NoThread

Enter(t, x) ==
    /\ up
    /\ LockFree
    /\ ~tx[t].active
    /\ lock' = t
    /\ tx' = [tx EXCEPT ![t] = x]
    /\ UNCHANGED <<up, account, deposited, cash, realized, book, trades>>

Idle(t) == quoted[t] = {}

Reset(t, b) ==
    /\ Idle(t)
    /\ Enter(t, [Started EXCEPT !.wipe = TRUE, !.deposit = b, !.credit = b])
    /\ UNCHANGED <<issued, quoted>>

AddBalance(t, a) ==
    /\ Idle(t)
    /\ deposited + a <= MaxDeposit
    /\ Enter(t, [Started EXCEPT !.deposit = a, !.credit = a])
    /\ UNCHANGED <<issued, quoted>>

ClosePosition(t, i, price) ==
    /\ Idle(t)
    /\ i \in DOMAIN book
    /\ Enter(t, CloseRow(Started, i, book[i], price, "MANUAL_EXIT"))
    /\ UNCHANGED <<issued, quoted>>

CloseOpposite(t, o, price) ==
    LET i == Oldest(Opposite(book, o))
        reason == IF o.side = "BUY" THEN "BUY_CLOSE_OPPOSITE"
                                    ELSE "SELL_CLOSE_OPPOSITE"
    IN  /\ Opposite(book, o) # {}
        /\ Enter(t, CloseRow(Started, i, book[i], price, reason))
        /\ UNCHANGED issued

DeliveryShort(o) == o.side = "SELL" /\ o.product = "CNC"

\* Mutant: a new position is opened without netting the opposite one first.
Admitted_NoNetting(o, price) ==
    /\ ~DeliveryShort(o)
    /\ cash >= NewPosition(o, price).margin

\* Mutant: the margin is compared with the deposits, not with the cash.
Admitted_OnDeposits(o, price) ==
    /\ Opposite(book, o) = {}
    /\ ~DeliveryShort(o)
    /\ deposited >= NewPosition(o, price).margin

Admitted(o, price) ==
    /\ Opposite(book, o) = {}
    /\ ~DeliveryShort(o)
    /\ cash >= NewPosition(o, price).margin

OpenNew(t, o, price) ==
    /\ Admitted(o, price)
    /\ issued + 1 \in Ids
    /\ issued' = issued + 1
    /\ Enter(t, [Started EXCEPT
                   !.credit = - NewPosition(o, price).margin,
                   !.insert = {Row(issued + 1, NewPosition(o, price))}])

PlaceOrder(t, o, price) == CloseOpposite(t, o, price) \/ OpenNew(t, o, price)

PlaceLimit(t, o, price) ==
    /\ Idle(t)
    /\ PlaceOrder(t, o, price)
    /\ UNCHANGED quoted

(***************************************************************************)
(* /api/quote, and the quote a MARKET order takes first: the broker's      *)
(* price is marked on the account in a transaction of its own.  "wanted"   *)
(* is the order that waits for it, if any.                                 *)
(***************************************************************************)
Quote(t, s, price, wanted) ==
    /\ Idle(t)
    /\ \A o \in wanted : o.symbol = s
    /\ Enter(t, [Started EXCEPT !.marks = {s}, !.price = price,
                   !.rows = {Row(i, Marked(book[i], s, price)) :
                                i \in OnSymbol(book, s)}])
    /\ quoted' = [quoted EXCEPT ![t] = {[order |-> o, price |-> price] : o \in wanted}]
    /\ UNCHANGED issued

PlaceMarket(t) ==
    \E q \in quoted[t] :
        /\ PlaceOrder(t, q.order, q.price)
        /\ quoted' = [quoted EXCEPT ![t] = {}]

\* The order is refused (delivery short, margin) after its quote was marked.
RefuseMarket(t) ==
    \E q \in quoted[t] :
        /\ up /\ LockFree /\ ~tx[t].active
        /\ Opposite(book, q.order) = {}
        /\ ~Admitted(q.order, q.price)
        /\ quoted' = [quoted EXCEPT ![t] = {}]
        /\ UNCHANGED <<up, account, deposited, cash, realized, book, trades,
                       issued, lock, tx>>

(***************************************************************************)
(* Inside a transaction.                                                   *)
(***************************************************************************)
\* Mutant: the loop stops at the first row it closes.
MarkRow_FirstHitOnly(t) ==
    LET x    == tx[t]
        r    == CHOOSE r \in x.rows : \A q \in x.rows : r.id <= q.id
        rest == [x EXCEPT !.rows = @ \ {r}]
    IN  /\ x.active
        /\ x.rows # {}
        /\ tx' = [tx EXCEPT ![t] =
                     IF ExitHit(r.pos, x.price)
                     THEN CloseRow([x EXCEPT !.rows = {}], r.id, r.pos, x.price,
                                   ExitReason(r.pos, x.price))
                     ELSE rest]
        /\ UNCHANGED <<up, account, deposited, cash, realized, book, trades,
                       issued, lock, quoted>>

\* Mutant: the loop does not advance past a row it leaves open.
MarkRow_Stuck(t) ==
    LET x    == tx[t]
        r    == CHOOSE r \in x.rows : \A q \in x.rows : r.id <= q.id
        rest == [x EXCEPT !.rows = @ \ {r}]
    IN  /\ x.active
        /\ x.rows # {}
        /\ tx' = [tx EXCEPT ![t] =
                     IF ExitHit(r.pos, x.price)
                     THEN CloseRow(rest, r.id, r.pos, x.price,
                                   ExitReason(r.pos, x.price))
                     ELSE x]
        /\ UNCHANGED <<up, account, deposited, cash, realized, book, trades,
                       issued, lock, quoted>>

\* The next fetched row of mark_price's loop is closed, or left open.
MarkRow(t) ==
    LET x    == tx[t]
        r    == CHOOSE r \in x.rows : \A q \in x.rows : r.id <= q.id
        rest == [x EXCEPT !.rows = @ \ {r}]
    IN  /\ x.active
        /\ x.rows # {}
        /\ tx' = [tx EXCEPT ![t] =
                     IF ExitHit(r.pos, x.price)
                     THEN CloseRow(rest, r.id, r.pos, x.price,
                                   ExitReason(r.pos, x.price))
                     ELSE rest]
        /\ UNCHANGED <<up, account, deposited, cash, realized, book, trades,
                       issued, lock, quoted>>

RowIds(rows) == {r.id : r \in rows}

Kept(x) == IF x.wipe THEN {} ELSE DOMAIN book \ x.deleted

BookAfter(x) ==
    [i \in Kept(x) \cup RowIds(x.insert) |->
        IF i \in Kept(x)
        THEN [book[i] EXCEPT !.last = IF book[i].symbol \in x.marks
                                     THEN x.price ELSE @]
        ELSE (CHOOSE r \in x.insert : r.id = i).pos]

Commit(t) ==
    LET x == tx[t]
    IN  /\ x.active
        /\ x.rows = {}
        /\ deposited' = IF x.wipe THEN x.deposit ELSE deposited + x.deposit
        /\ cash' = IF x.wipe THEN x.credit ELSE cash + x.credit
        /\ realized' = IF x.wipe THEN 0 ELSE realized + x.pnl
        /\ book' = BookAfter(x)
        /\ trades' = IF x.wipe THEN <<>> ELSE trades \o x.closed
        /\ lock' = NoThread
        /\ tx' = [tx EXCEPT ![t] = NoTx]
        /\ UNCHANGED <<up, account, issued, quoted>>

\* Any exception: the connection rolls back and the lock is released.  A quote
\* that failed leaves its MARKET order without a price, and it is refused.
Rollback(t) ==
    /\ tx[t].active
    /\ lock' = NoThread
    /\ tx' = [tx EXCEPT ![t] = NoTx]
    /\ quoted' = [quoted EXCEPT ![t] = {}]
    /\ UNCHANGED <<up, account, deposited, cash, realized, book, trades, issued>>

(***************************************************************************)
(* The process: a crash loses locks, transactions and requests; a start    *)
(* creates the account only if no earlier start committed one.             *)
(***************************************************************************)
Crash ==
    /\ up
    /\ up' = FALSE
    /\ lock' = NoThread
    /\ tx' = [t \in Threads |-> NoTx]
    /\ quoted' = [t \in Threads |-> {}]
    /\ UNCHANGED <<account, deposited, cash, realized, book, trades, issued>>

\* Mutant: every start creates the account anew.
Start_Recreates(b) ==
    /\ ~up
    /\ up' = TRUE
    /\ account' = TRUE
    /\ deposited' = b /\ cash' = b
    /\ book' = NoBook
    /\ UNCHANGED <<realized, trades, issued, lock, tx, quoted>>

\* Mutant: a restart pays the configured balance into an existing account.
Start_PaysAgain(b) ==
    /\ ~up
    /\ up' = TRUE
    /\ account' = TRUE
    /\ deposited' = IF account THEN deposited ELSE b
    /\ cash' = IF account THEN cash + b ELSE b
    /\ UNCHANGED <<realized, book, trades, issued, lock, tx, quoted>>

Start(b) ==
    /\ ~up
    /\ up' = TRUE
    /\ account' = TRUE
    /\ deposited' = IF account THEN deposited ELSE b
    /\ cash' = IF account THEN cash ELSE b
    /\ UNCHANGED <<realized, book, trades, issued, lock, tx, quoted>>

Init ==
    /\ up = FALSE
    /\ account = FALSE
    /\ deposited = 0 /\ cash = 0 /\ realized = 0
    /\ book = NoBook
    /\ trades = <<>>
    /\ issued = 0
    /\ lock = NoThread
    /\ tx = [t \in Threads |-> NoTx]
    /\ quoted = [t \in Threads |-> {}]

Request(t) ==
    \/ \E b \in Balances : Reset(t, b)
    \/ \E a \in TopUps : AddBalance(t, a)
    \/ \E i \in DOMAIN book, price \in Prices : ClosePosition(t, i, price)
    \/ \E o \in Orders, price \in Prices : PlaceLimit(t, o, price)
    \/ \E s \in Symbols, price \in Prices : Quote(t, s, price, {})
    \/ \E o \in Orders, price \in Prices : Quote(t, o.symbol, price, {o})
    \/ PlaceMarket(t)
    \/ RefuseMarket(t)

Next ==
    \/ \E t \in Threads : Request(t) \/ MarkRow(t) \/ Commit(t) \/ Rollback(t)
    \/ Crash
    \/ \E b \in Balances : Start(b)

\* Python and SQLite keep running the thread that holds the lock.
Fairness == \A t \in Threads : WF_vars(MarkRow(t) \/ Commit(t))

Spec == Init /\ [][Next]_vars
FairSpec == Spec /\ Fairness
-----------------------------------------------------------------------------
(***************************************************************************)
(* Properties.                                                             *)
(***************************************************************************)
Rows == [id : Ids, pos : Positions]

Transactions ==
    [active : BOOLEAN, wipe : BOOLEAN, deposit : Nat, credit : Int, pnl : Int,
     marks : SUBSET Symbols, price : Prices \cup {0}, rows : SUBSET Rows,
     deleted : SUBSET Ids, closed : Seq(Trades), insert : SUBSET Rows]

\* Every variable has the type its column, lock or request has in the code.
TypeOK ==
    /\ up \in BOOLEAN /\ account \in BOOLEAN
    /\ deposited \in Nat /\ cash \in Int /\ realized \in Int
    /\ DOMAIN book \subseteq Ids
    /\ book \in [DOMAIN book -> Positions]
    /\ trades \in Seq(Trades)
    /\ issued \in Nat
    /\ lock \in Threads \cup {NoThread}
    /\ tx \in [Threads -> Transactions]
    /\ quoted \in [Threads -> SUBSET [order : Orders, price : Prices]]

Elements(s) == {s[k] : k \in DOMAIN s}

SumPnl(s) == SumFunction([k \in DOMAIN s |-> s[k].pnl])

Margins(b, ids) == SumFunction([i \in ids |-> b[i].margin])

ClosedTrades == Elements(trades)

ClosedIds == {trades[k].id : k \in DOMAIN trades}

\* Money is neither made nor lost by any interleaving of orders, marks, manual
\* exits, resets, top-ups, rollbacks and crashes: what status() reports as cash
\* plus reserved margin is what was deposited plus the realized P&L, and the
\* realized P&L is the sum over the trade history.
MoneyConserved ==
    /\ cash + Reserved(book) = deposited + realized
    /\ realized = SumPnl(trades)

\* A position ends as at most one trade and is no longer open then, however
\* the EXIT button, an opposite order and an automatic exit race for it.
ClosedOnce ==
    /\ \A j, k \in DOMAIN trades : trades[j].id = trades[k].id => j = k
    /\ DOMAIN book \cap ClosedIds = {}

\* place_order nets before it opens, so long and short positions on one symbol
\* never coexist, and no open delivery position is ever short.
OneSidedBook ==
    \A i, j \in DOMAIN book :
        /\ book[i].symbol = book[j].symbol => book[i].side = book[j].side
        /\ ~DeliveryShort(book[i])

\* The margin check made on the balance that was read still holds for the
\* balance that is debited: opening a position never overdraws the cash
\* (closing one at a loss may).
OpensAreFunded ==
    [][DOMAIN book' \ DOMAIN book # {} => cash' >= 0]_vars

\* The account forgets nothing: unless a reset wipes it, the trade history only
\* grows and a position that is gone from the book is in the history.
HistoryKept ==
    [][\/ /\ \A k \in DOMAIN trades : k \in DOMAIN trades' /\ trades'[k] = trades[k]
          /\ DOMAIN book \ DOMAIN book' \subseteq ClosedIds'
       \/ trades' = <<>> /\ DOMAIN book' = {} /\ realized' = 0]_vars

\* A price that reaches the account leaves no position open behind the stop or
\* target it reaches, whichever of its siblings were closed first.
ExitsEnforced ==
    [][\A i \in DOMAIN book \cap DOMAIN book' :
          book'[i].last # book[i].last => ~ExitHit(book'[i], book'[i].last)]_vars

\* Whoever takes the engine's lock gives it back: the loop over the positions
\* ends and the transaction commits, rolls back or dies with the process.
LockReleased == \A t \in Threads : (lock = t) ~> (lock # t)

(***************************************************************************)
(* The inductive invariant behind ClosedOnce, OneSidedBook, OpensAreFunded  *)
(* and HistoryKept: what the transaction of the lock's owner may assume of  *)
(* the database it read.                                                    *)
(***************************************************************************)
LockInv ==
    /\ \A t \in Threads : tx[t].active => lock = t /\ up
    /\ \A t \in Threads : ~tx[t].active => tx[t] = NoTx
    /\ up => account

IdsDrawn ==
    /\ \A i \in DOMAIN book \cup ClosedIds : i <= issued
    /\ \A t \in Threads : \A r \in tx[t].insert : r.id <= issued

Inserting(x) ==
    \A r \in x.insert :
        /\ x.insert = {r}
        /\ r.id \notin DOMAIN book \cup ClosedIds
        /\ ~x.wipe /\ x.marks = {} /\ x.rows = {}
        /\ x.deleted = {} /\ x.closed = <<>>
        /\ ~DeliveryShort(r.pos)
        /\ \A j \in DOMAIN book : book[j].symbol = r.pos.symbol
                                    => book[j].side = r.pos.side
        /\ cash + x.credit >= 0

Closing(x) ==
    /\ x.deleted \subseteq DOMAIN book
    /\ RowIds(x.rows) \subseteq DOMAIN book \ x.deleted
    /\ \A r, q \in x.rows : r.id = q.id => r = q
    /\ {x.closed[k].id : k \in DOMAIN x.closed} = x.deleted
    /\ \A j, k \in DOMAIN x.closed : x.closed[j].id = x.closed[k].id => j = k
    /\ x.rows # {} \/ x.marks # {} => x.price \in Prices

TxInv == \A t \in Threads : Inserting(tx[t]) /\ Closing(tx[t])

EngineInv == TypeOK /\ LockInv /\ IdsDrawn /\ TxInv /\ ClosedOnce /\ OneSidedBook

(***************************************************************************)
(* The inductive invariant behind MoneyConserved, ExitsEnforced and        *)
(* ImplementsAccount: the statements of an open transaction are those one  *)
(* request issues, computed from the rows the database still holds.        *)
(***************************************************************************)
WipeTx(b) == [Started EXCEPT !.wipe = TRUE, !.deposit = b, !.credit = b]

TopUpTx(a) == [Started EXCEPT !.deposit = a, !.credit = a]

OpenTx(i, p) == [Started EXCEPT !.credit = - p.margin, !.insert = {Row(i, p)}]

Wiping(x) == \E b \in Balances : x = WipeTx(b)

ToppingUp(x) == \E a \in TopUps : x = TopUpTx(a)

ClosingOne(x) ==
    \E i \in DOMAIN book, price \in Prices, r \in Reasons :
        x = CloseRow(Started, i, book[i], price, r)

Opening(x) ==
    \E i \in Ids \ (DOMAIN book \cup ClosedIds), o \in Orders, price \in Prices :
        Admitted(o, price) /\ x = OpenTx(i, NewPosition(o, price))

\* What mark_price will close at this price, and the trade each becomes.
Hit(s, price) == {i \in OnSymbol(book, s) : ExitHit(book[i], price)}

AutoTrade(i, price) == NewTrade(i, book[i], price, ExitReason(book[i], price))

\* The loop has closed some of the rows the price reaches and has still to
\* look at the others.
Marking(x, s, price) ==
    /\ ~x.wipe /\ x.deposit = 0 /\ x.insert = {}
    /\ x.marks = {s} /\ x.price = price
    /\ \A r \in x.rows : r.id \in OnSymbol(book, s)
                            /\ r.pos = Marked(book[r.id], s, price)
    /\ x.deleted \subseteq Hit(s, price)
    /\ Hit(s, price) \subseteq x.deleted \cup RowIds(x.rows)
    /\ Elements(x.closed) = {AutoTrade(i, price) : i \in x.deleted}
    /\ x.pnl = SumPnl(x.closed)
    /\ x.credit = x.pnl + Margins(book, x.deleted)

RequestOf(x) ==
    \/ Wiping(x) \/ ToppingUp(x) \/ ClosingOne(x) \/ Opening(x)
    \/ \E s \in Symbols, price \in Prices : Marking(x, s, price)

StatementsFit == \A t \in Threads : tx[t].active => RequestOf(tx[t])

\* An account that no start has created is empty.
Unopened == ~account => /\ deposited = 0 /\ cash = 0 /\ realized = 0
                        /\ book = NoBook /\ trades = <<>>

AccountInv == EngineInv /\ StatementsFit /\ Unopened /\ MoneyConserved

(***************************************************************************)
(* The engine implements the abstract account, whose operations are atomic *)
(* and whose spendable cash is computed rather than stored.                *)
(***************************************************************************)
Account == INSTANCE PaperAccount WITH trades <- ClosedTrades

ImplementsAccount == Account!Spec
=============================================================================
