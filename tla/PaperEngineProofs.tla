-------------------------- MODULE PaperEngineProofs --------------------------
(***************************************************************************)
(* Proofs about PaperEngine, for every set of threads, symbols, orders,    *)
(* prices and amounts.  EngineInv is inductive; the safety properties are  *)
(* its conjuncts, and the action properties follow from it step by step.   *)
(***************************************************************************)
EXTENDS PaperEngine, SumLemmas

(***************************************************************************)
(* The operators the engine is built from return what their types say.     *)
(***************************************************************************)
\* Prices, quantities and position ids are positive numbers.
LEMMA BookConstants ==
    /\ \A p \in Prices : p \in Nat /\ p > 0
    /\ \A q \in Quantities : q \in Nat /\ q > 0
    /\ \A i \in Ids : i \in Nat /\ i > 0
  BY BookAssumption

\* Natural numbers are closed under multiplication.
LEMMA ProductNat == ASSUME NEW a \in Nat, NEW b \in Nat PROVE a * b \in Nat
  OBVIOUS

\* Integers are closed under multiplication.
LEMMA ProductInt == ASSUME NEW a \in Int, NEW b \in Int PROVE a * b \in Int
  OBVIOUS

\* The fields of a position that its money is computed from.
LEMMA PositionFields ==
    ASSUME NEW p \in Positions
    PROVE  /\ p.quantity \in Quantities /\ p.entry \in Prices
           /\ p.margin \in Nat
  BY DEF Positions

\* place_order inserts a well-formed row with a non-negative margin.
LEMMA NewPositionType ==
    ASSUME NEW o \in Orders, NEW price \in Prices
    PROVE  NewPosition(o, price) \in Positions
  <1>1. o \in OrderType
    BY BookAssumption
  <1>2. o.quantity \in Quantities
    BY <1>1 DEF OrderType
  <1>3. price \in Nat /\ o.quantity \in Nat /\ 5 * price \in Nat
    BY <1>2, BookConstants
  <1>4. MarginRequired(o.product, price, o.quantity) \in Nat
    BY <1>3, ProductNat DEF MarginRequired
  <1>5. QED
    BY <1>1, <1>4 DEF NewPosition, Positions, OrderType

\* The P&L of a row at any price is an integer.
LEMMA PnlType ==
    ASSUME NEW p \in Positions, NEW price \in Prices
    PROVE  Pnl(p, price) \in Int
  <1>1. p.quantity \in Int /\ p.entry \in Int /\ price \in Int
    BY PositionFields, BookConstants
  <1>2. 5 * (price - p.entry) \in Int /\ 5 * (p.entry - price) \in Int
    BY <1>1
  <1>3. QED
    BY <1>1, <1>2, ProductInt DEF Pnl

\* _close_row inserts a well-formed trade.
LEMMA NewTradeType ==
    ASSUME NEW p \in Positions, NEW price \in Prices, NEW i \in Ids,
           NEW r \in Reasons
    PROVE  NewTrade(i, p, price, r) \in Trades
  BY PnlType DEF NewTrade, Trades, Positions

\* An automatic exit gives one of the documented exit reasons.
LEMMA ExitReasonType ==
    ASSUME NEW p, NEW price
    PROVE  ExitReason(p, price) \in Reasons
  BY DEF ExitReason, Reasons

\* Marking a price leaves a row well-formed.
LEMMA MarkedType ==
    ASSUME NEW p \in Positions, NEW s, NEW price \in Prices
    PROVE  Marked(p, s, price) \in Positions
  BY DEF Marked, Positions

\* Closing a row leaves the transaction well-formed.
LEMMA CloseRowType ==
    ASSUME NEW x \in Transactions, NEW i \in Ids, NEW p \in Positions,
           NEW price \in Prices, NEW r \in Reasons
    PROVE  CloseRow(x, i, p, price, r) \in Transactions
  <1>1. Append(x.closed, NewTrade(i, p, price, r)) \in Seq(Trades)
    BY NewTradeType DEF Transactions
  <1>2. p.margin \in Nat /\ Pnl(p, price) \in Int
    BY PositionFields, PnlType
  <1>3. /\ x.credit + p.margin + Pnl(p, price) \in Int
        /\ x.pnl + Pnl(p, price) \in Int
        /\ x.deleted \cup {i} \in SUBSET Ids
    BY <1>2 DEF Transactions
  <1>4. QED
    BY <1>1, <1>3 DEF CloseRow, Transactions

\* A thread without a transaction has a well-formed record.
LEMMA NoTxType == NoTx \in Transactions
  <1>1. <<>> \in Seq(Trades)
    OBVIOUS
  <1>2. QED
    BY <1>1 DEF NoTx, Transactions

\* A transaction that has just begun has issued no statement.
LEMMA StartedFields ==
    /\ Started \in Transactions
    /\ Started.active /\ ~Started.wipe
    /\ Started.deposit = 0 /\ Started.credit = 0 /\ Started.pnl = 0
    /\ Started.marks = {} /\ Started.rows = {} /\ Started.deleted = {}
    /\ Started.closed = <<>> /\ Started.insert = {}
  BY NoTxType DEF Started, NoTx, Transactions

\* A trade carries the id of a position.
LEMMA TradeIds ==
    ASSUME NEW s \in Seq(Trades), NEW k \in DOMAIN s
    PROVE  s[k] \in Trades /\ s[k].id \in Ids
  <1>1. s[k] \in Trades
    OBVIOUS
  <1>2. QED
    BY <1>1 DEF Trades

\* Open and closed ids are numbers, so they can be compared with issued.
LEMMA IdsAreNumbers ==
    ASSUME TypeOK
    PROVE  DOMAIN book \subseteq Nat /\ ClosedIds \subseteq Nat
  <1>1. DOMAIN book \subseteq Ids /\ trades \in Seq(Trades)
    BY DEF TypeOK
  <1>2. ClosedIds \subseteq Ids
    BY <1>1, TradeIds DEF ClosedIds
  <1>3. QED
    BY <1>1, <1>2, BookConstants

(***************************************************************************)
(* A transaction that starts: what Enter preserves, whatever its           *)
(* statements are, as long as they fit the database that was read.         *)
(***************************************************************************)
LEMMA EnterStep ==
    ASSUME EngineInv, NEW t \in Threads, NEW x \in Transactions, x.active,
           Enter(t, x),
           issued' \in Nat, issued <= issued',
           quoted' \in [Threads -> SUBSET [order : Orders, price : Prices]],
           Inserting(x), Closing(x), \A r \in x.insert : r.id <= issued'
    PROVE  EngineInv'
  <1> USE DEF EngineInv
  <1>1. TypeOK'
    BY DEF Enter, TypeOK
  <1>2. LockInv'
    BY EngineAssumption DEF Enter, LockInv, LockFree, TypeOK
  <1>3. ClosedIds' = ClosedIds /\ book' = book /\ trades' = trades
    BY DEF Enter, ClosedIds
  <1>4. tx'[t] = x /\ \A u \in Threads \ {t} : tx'[u] = NoTx
    BY EngineAssumption DEF Enter, LockInv, LockFree, TypeOK
  <1>5. TxInv'
    <2>1. Inserting(x)' /\ Closing(x)'
      BY <1>3 DEF Inserting, Closing, Enter
    <2>2. Inserting(NoTx)' /\ Closing(NoTx)'
      BY DEF Inserting, Closing, NoTx, RowIds
    <2>3. QED
      BY <1>4, <2>1, <2>2 DEF TxInv, Inserting, Closing
  <1>6. IdsDrawn'
    <2>1. \A i \in DOMAIN book \cup ClosedIds : i <= issued'
      BY IdsAreNumbers DEF IdsDrawn, TypeOK
    <2>2. NoTx.insert = {}
      BY DEF NoTx
    <2>3. QED
      BY <1>3, <1>4, <2>1, <2>2 DEF IdsDrawn
  <1>7. ClosedOnce' /\ OneSidedBook'
    BY <1>3 DEF ClosedOnce, OneSidedBook
  <1>8. QED
    BY <1>1, <1>2, <1>5, <1>6, <1>7

\* A transaction that touches no row fits every database.
LEMMA NothingTouched ==
    ASSUME NEW x, x.rows = {}, x.deleted = {}, x.closed = <<>>,
           x.insert = {}, x.marks = {}
    PROVE  Inserting(x) /\ Closing(x)
  BY DEF Inserting, Closing, RowIds

\* Starting a reset preserves the invariant.
LEMMA ResetStep ==
    ASSUME EngineInv, NEW t \in Threads, NEW b \in Balances, Reset(t, b)
    PROVE  EngineInv'
  <1> DEFINE x == [Started EXCEPT !.wipe = TRUE, !.deposit = b, !.credit = b]
  <1>1. b \in Nat /\ b \in Int
    BY EngineAssumption
  <1>2. /\ x.active /\ x.rows = {} /\ x.deleted = {} /\ x.closed = <<>>
        /\ x.insert = {} /\ x.marks = {}
    BY StartedFields DEF Transactions
  <1>3. x \in Transactions
    BY <1>1, StartedFields DEF Transactions
  <1>4. Enter(t, x) /\ issued' = issued /\ quoted' = quoted
    BY DEF Reset
  <1> HIDE DEF x
  <1>5. QED
    BY <1>2, <1>3, <1>4, NothingTouched, EnterStep DEF EngineInv, TypeOK

\* Starting a top-up preserves the invariant.
LEMMA AddBalanceStep ==
    ASSUME EngineInv, NEW t \in Threads, NEW a \in TopUps, AddBalance(t, a)
    PROVE  EngineInv'
  <1> DEFINE x == [Started EXCEPT !.deposit = a, !.credit = a]
  <1>1. a \in Nat /\ a \in Int
    BY EngineAssumption
  <1>2. /\ x.active /\ x.rows = {} /\ x.deleted = {} /\ x.closed = <<>>
        /\ x.insert = {} /\ x.marks = {}
    BY StartedFields DEF Transactions
  <1>3. x \in Transactions
    BY <1>1, StartedFields DEF Transactions
  <1>4. Enter(t, x) /\ issued' = issued /\ quoted' = quoted
    BY DEF AddBalance
  <1> HIDE DEF x
  <1>5. QED
    BY <1>2, <1>3, <1>4, NothingTouched, EnterStep DEF EngineInv, TypeOK

(***************************************************************************)
(* Closing one row, by the EXIT button or by an opposite order.            *)
(***************************************************************************)
LEMMA CloseOneStep ==
    ASSUME EngineInv, NEW t \in Threads, NEW i \in DOMAIN book,
           NEW price \in Prices, NEW r \in Reasons,
           Enter(t, CloseRow(Started, i, book[i], price, r)),
           issued' = issued,
           quoted' \in [Threads -> SUBSET [order : Orders, price : Prices]]
    PROVE  EngineInv'
  <1> DEFINE x == CloseRow(Started, i, book[i], price, r)
             n == NewTrade(i, book[i], price, r)
  <1>1. i \in Ids /\ book[i] \in Positions
    BY DEF EngineInv, TypeOK
  <1>2. x \in Transactions
    BY <1>1, CloseRowType, StartedFields
  <1>3. /\ x.active /\ x.rows = {} /\ x.insert = {} /\ x.marks = {}
        /\ x.deleted = {i} /\ x.closed = <<n>>
    BY StartedFields DEF CloseRow, Transactions
  <1>4. n.id = i
    BY DEF NewTrade
  <1> HIDE DEF x, n
  <1>5. Inserting(x)
    BY <1>3 DEF Inserting
  <1>6. Closing(x)
    BY <1>3, <1>4 DEF Closing, RowIds
  <1>7. QED
    BY <1>2, <1>3, <1>5, <1>6, EnterStep DEF EngineInv, TypeOK, x

\* A manual exit preserves the invariant.
LEMMA ClosePositionStep ==
    ASSUME EngineInv, NEW t \in Threads, NEW i \in DOMAIN book,
           NEW price \in Prices, ClosePosition(t, i, price)
    PROVE  EngineInv'
  BY CloseOneStep DEF ClosePosition, Reasons, EngineInv, TypeOK

\* A non-empty set of position ids has a least one.
LEMMA LeastId ==
    ASSUME NEW S, S \subseteq Ids, S # {}
    PROVE  \E i \in S : \A j \in S : i <= j
  <1>1. S \in SUBSET Nat
    BY BookConstants
  <1>2. PICK m \in S : \A y \in S : <<y, m>> \notin OpToRel(<, Nat)
    BY <1>1, NatLessThanWellFounded, WFMin
  <1>3. \A y \in S : ~(y < m)
    BY <1>1, <1>2 DEF OpToRel
  <1>4. QED
    BY <1>1, <1>3

\* The opposite row place_order picks is one of those it selected.
LEMMA OldestIn ==
    ASSUME NEW S, S \subseteq Ids, S # {}
    PROVE  Oldest(S) \in S
  BY LeastId DEF Oldest

\* An order, whether it nets or opens, preserves the invariant.
LEMMA PlaceOrderStep ==
    ASSUME EngineInv, NEW t \in Threads, NEW o \in Orders, NEW price \in Prices,
           PlaceOrder(t, o, price),
           quoted' \in [Threads -> SUBSET [order : Orders, price : Prices]]
    PROVE  EngineInv'
  <1>1. CASE CloseOpposite(t, o, price)
    <2>1. Opposite(book, o) \subseteq DOMAIN book /\ Opposite(book, o) # {}
      BY <1>1 DEF Opposite, CloseOpposite
    <2>2. Oldest(Opposite(book, o)) \in DOMAIN book
      BY <2>1, OldestIn DEF EngineInv, TypeOK
    <2>3. QED
      BY <1>1, <2>2, CloseOneStep DEF CloseOpposite, Reasons
  <1>2. CASE OpenNew(t, o, price)
    <2> DEFINE p == NewPosition(o, price)
               i == issued + 1
               x == [Started EXCEPT !.credit = - p.margin, !.insert = {Row(i, p)}]
    <2>1. Admitted(o, price) /\ i \in Ids /\ issued' = i /\ Enter(t, x)
      BY <1>2 DEF OpenNew
    <2>2. p \in Positions /\ p.symbol = o.symbol /\ p.side = o.side
          /\ p.product = o.product
      BY NewPositionType DEF NewPosition
    <2>3. - p.margin \in Int /\ cash - p.margin >= 0 /\ cash + (- p.margin) >= 0
      BY <2>1, <2>2, PositionFields DEF Admitted, EngineInv, TypeOK
    <2>4. {Row(i, p)} \in SUBSET Rows
      BY <2>1, <2>2 DEF Row, Rows
    <2>5. Row(i, p).id = i /\ Row(i, p).pos = p
      BY DEF Row
    <2>6. x \in Transactions
      BY <2>3, <2>4, StartedFields DEF Transactions
    <2>7. /\ x.active /\ x.rows = {} /\ x.deleted = {} /\ x.closed = <<>>
          /\ x.marks = {} /\ ~x.wipe
          /\ x.insert = {Row(i, p)} /\ x.credit = - p.margin
      BY StartedFields DEF Transactions
    <2>8. i \notin DOMAIN book \cup ClosedIds
      BY IdsAreNumbers DEF EngineInv, IdsDrawn, TypeOK
    <2>9. /\ ~DeliveryShort(p)
          /\ \A j \in DOMAIN book : book[j].symbol = p.symbol
                                      => book[j].side = p.side
      BY <2>1, <2>2 DEF Admitted, DeliveryShort, Opposite
    <2> HIDE DEF x, p, i
    <2>10. Inserting(x)
      BY <2>3, <2>5, <2>7, <2>8, <2>9 DEF Inserting
    <2>11. Closing(x)
      BY <2>7 DEF Closing, RowIds
    <2>12. issued' \in Nat /\ issued <= issued' /\ \A r \in x.insert : r.id <= issued'
      BY <2>1, <2>5, <2>7, BookConstants DEF EngineInv, TypeOK, i
    <2>13. QED
      BY <2>1, <2>6, <2>7, <2>10, <2>11, <2>12, EnterStep
  <1>3. QED
    BY <1>1, <1>2 DEF PlaceOrder

\* The order that waits for its quote is an order with a price.
LEMMA QuotedOrders ==
    ASSUME EngineInv, NEW t \in Threads, NEW q \in quoted[t]
    PROVE  q.order \in Orders /\ q.price \in Prices
  BY DEF EngineInv, TypeOK

\* Starting a mark, of a quote or of a MARKET order, preserves the
\* invariant.
LEMMA QuoteStep ==
    ASSUME EngineInv, NEW t \in Threads, NEW s \in Symbols, NEW price \in Prices,
           NEW wanted \in SUBSET Orders, Quote(t, s, price, wanted)
    PROVE  EngineInv'
  <1> DEFINE rows == {Row(i, Marked(book[i], s, price)) : i \in OnSymbol(book, s)}
             x == [Started EXCEPT !.marks = {s}, !.price = price, !.rows = rows]
             w == {[order |-> o, price |-> price] : o \in wanted}
  <1>1. Enter(t, x) /\ issued' = issued /\ quoted' = [quoted EXCEPT ![t] = w]
    BY DEF Quote
  <1>2. quoted' \in [Threads -> SUBSET [order : Orders, price : Prices]]
    <2>1. w \in SUBSET [order : Orders, price : Prices]
      OBVIOUS
    <2> HIDE DEF w
    <2>2. QED
      BY <1>1, <2>1 DEF EngineInv, TypeOK
  <1>3. /\ \A i \in DOMAIN book : i \in Ids /\ Marked(book[i], s, price) \in Positions
        /\ OnSymbol(book, s) \subseteq DOMAIN book
    BY MarkedType DEF EngineInv, TypeOK, OnSymbol
  <1>4. /\ rows \in SUBSET Rows
        /\ RowIds(rows) \subseteq DOMAIN book
        /\ \A r, q \in rows : r.id = q.id => r = q
    BY <1>3 DEF Rows, Row, RowIds
  <1> HIDE DEF rows
  <1>5. x \in Transactions
    BY <1>4, StartedFields DEF Transactions
  <1>6. /\ x.active /\ x.rows = rows /\ x.deleted = {} /\ x.closed = <<>>
        /\ x.insert = {} /\ x.price = price
    BY StartedFields DEF Transactions
  <1> HIDE DEF x
  <1>7. Inserting(x)
    BY <1>6 DEF Inserting
  <1>8. Closing(x)
    BY <1>4, <1>6 DEF Closing
  <1>9. QED
    BY <1>1, <1>2, <1>5, <1>6, <1>7, <1>8, EnterStep DEF EngineInv, TypeOK

(***************************************************************************)
(* Steps inside a transaction, and its end.                                *)
(***************************************************************************)
LEMMA LeastRow ==
    ASSUME NEW S, S \subseteq Rows, S # {}
    PROVE  \E r \in S : \A q \in S : r.id <= q.id
  <1>1. RowIds(S) \subseteq Ids /\ RowIds(S) # {}
    BY DEF RowIds, Rows
  <1>2. \E i \in RowIds(S) : \A j \in RowIds(S) : i <= j
    BY <1>1, LeastId
  <1>3. QED
    BY <1>2 DEF RowIds

\* One turn of the mark_price loop preserves the invariant.
LEMMA MarkRowStep ==
    ASSUME EngineInv, NEW t \in Threads, MarkRow(t)
    PROVE  EngineInv'
  <1> DEFINE x == tx[t]
             r == CHOOSE r \in x.rows : \A q \in x.rows : r.id <= q.id
             rest == [x EXCEPT !.rows = @ \ {r}]
             hit == CloseRow(rest, r.id, r.pos, x.price, ExitReason(r.pos, x.price))
             y == IF ExitHit(r.pos, x.price) THEN hit ELSE rest
             n == NewTrade(r.id, r.pos, x.price, ExitReason(r.pos, x.price))
  <1>1. x \in Transactions /\ x.active /\ x.rows # {} /\ x.rows \in SUBSET Rows
    BY DEF MarkRow, EngineInv, TypeOK, Transactions
  <1>2. r \in x.rows /\ r.id \in Ids /\ r.pos \in Positions
    BY <1>1, LeastRow DEF Rows
  <1>3. tx' = [tx EXCEPT ![t] = y]
        /\ UNCHANGED <<up, account, deposited, cash, realized, book, trades,
                       issued, lock, quoted>>
    BY DEF MarkRow
  <1>4. Closing(x) /\ Inserting(x) /\ x.insert = {}
    BY <1>2 DEF EngineInv, TxInv, Closing, Inserting, RowIds
  <1>5. x.price \in Prices
    BY <1>1, <1>4 DEF Closing
  <1>6. n.id = r.id
    BY DEF NewTrade
  <1> HIDE DEF r, x, n
  <1>7. /\ rest \in Transactions /\ rest.active /\ rest.rows = x.rows \ {r}
        /\ rest.insert = {} /\ rest.deleted = x.deleted /\ rest.closed = x.closed
        /\ rest.marks = x.marks /\ rest.price = x.price
    BY <1>1, <1>4 DEF Transactions
  <1> HIDE DEF rest
  <1>8. /\ hit \in Transactions /\ hit.active /\ hit.rows = x.rows \ {r}
        /\ hit.insert = {} /\ hit.deleted = x.deleted \cup {r.id}
        /\ hit.closed = Append(x.closed, n)
        /\ hit.marks = x.marks /\ hit.price = x.price
    <2>1. hit \in Transactions
      BY <1>2, <1>5, <1>7, CloseRowType, ExitReasonType
    <2>2. hit.active /\ hit.rows = x.rows \ {r} /\ hit.insert = {}
          /\ hit.marks = x.marks /\ hit.price = x.price
      BY <1>7 DEF CloseRow, Transactions
    <2>3. hit.deleted = x.deleted \cup {r.id}
      BY <1>7 DEF CloseRow, Transactions
    <2>4. hit.closed = Append(x.closed, n)
      BY <1>7 DEF CloseRow, Transactions, n
    <2>5. QED
      BY <2>1, <2>2, <2>3, <2>4
  <1> HIDE DEF hit
  <1>9. y \in Transactions /\ y.active /\ y.insert = {}
    BY <1>7, <1>8
  <1>10. Closing(rest)
    BY <1>4, <1>5, <1>7 DEF Closing, RowIds
  <1>11. Closing(hit)
    <2>1. r.id \in DOMAIN book \ x.deleted
      BY <1>2, <1>4 DEF Closing, RowIds
    <2>2. hit.deleted \subseteq DOMAIN book
      BY <1>4, <1>8, <2>1 DEF Closing
    <2>3. RowIds(hit.rows) \subseteq DOMAIN book \ hit.deleted
      BY <1>2, <1>4, <1>8 DEF Closing, RowIds
    <2>4. \A p, q \in hit.rows : p.id = q.id => p = q
      BY <1>4, <1>8 DEF Closing
    <2>5. x.closed \in Seq(Trades) /\ DOMAIN x.closed = 1..Len(x.closed)
          /\ Len(x.closed) \in Nat
      BY <1>1 DEF Transactions
    <2>6. /\ DOMAIN hit.closed = 1..(Len(x.closed) + 1)
          /\ hit.closed[Len(x.closed) + 1] = n
          /\ \A k \in DOMAIN x.closed : hit.closed[k] = x.closed[k]
      BY <1>8, <2>5
    <2>7. {hit.closed[k].id : k \in DOMAIN hit.closed} = hit.deleted
      BY <1>4, <1>6, <1>8, <2>5, <2>6 DEF Closing
    <2>8. \A k \in DOMAIN x.closed : x.closed[k].id \in x.deleted
      BY <1>4 DEF Closing
    <2>9. ASSUME NEW j \in DOMAIN hit.closed, NEW k \in DOMAIN hit.closed,
                 hit.closed[j].id = hit.closed[k].id
          PROVE  j = k
      <3>1. \A m \in DOMAIN x.closed : hit.closed[m].id # n.id
        BY <1>6, <2>1, <2>6, <2>8
      <3>2. CASE j \in DOMAIN x.closed /\ k \in DOMAIN x.closed
        BY <1>4, <2>6, <2>9, <3>2 DEF Closing
      <3>3. CASE j \notin DOMAIN x.closed \/ k \notin DOMAIN x.closed
        <4>1. \A m \in DOMAIN hit.closed :
                 m \in DOMAIN x.closed \/ m = Len(x.closed) + 1
          BY <2>5, <2>6
        <4>2. QED
          BY <2>6, <2>9, <3>1, <3>3, <4>1
      <3>4. QED
        BY <3>2, <3>3
    <2>10. QED
      BY <1>5, <1>8, <2>2, <2>3, <2>4, <2>7, <2>9 DEF Closing
  <1>12. Closing(y) /\ Inserting(y)
    BY <1>9, <1>10, <1>11 DEF Inserting
  <1> HIDE DEF y
  <1>13. tx'[t] = y /\ \A u \in Threads \ {t} : tx'[u] = tx[u]
    BY <1>3 DEF EngineInv, TypeOK
  <1>14. TypeOK'
    BY <1>3, <1>9 DEF EngineInv, TypeOK
  <1>15. LockInv'
    BY <1>1, <1>3, <1>9, <1>13 DEF EngineInv, LockInv, x
  <1>16. IdsDrawn'
    BY <1>3, <1>9, <1>13 DEF EngineInv, IdsDrawn, ClosedIds
  <1>17. TxInv'
    BY <1>3, <1>12, <1>13 DEF EngineInv, TxInv, Inserting, Closing, ClosedIds
  <1>18. ClosedOnce' /\ OneSidedBook'
    BY <1>3 DEF EngineInv, ClosedOnce, OneSidedBook, ClosedIds
  <1>19. QED
    BY <1>14, <1>15, <1>16, <1>17, <1>18 DEF EngineInv

\* What a commit leaves in the book: the kept rows, with the marked price, and
\* the inserted row if there is one.
LEMMA BookAfterRows ==
    ASSUME EngineInv, NEW x \in Transactions, Inserting(x), Closing(x)
    PROVE  /\ DOMAIN BookAfter(x) = Kept(x) \cup RowIds(x.insert)
           /\ \A i \in Kept(x) :
                 /\ i \in DOMAIN book
                 /\ BookAfter(x)[i] \in Positions
                 /\ BookAfter(x)[i].symbol = book[i].symbol
                 /\ BookAfter(x)[i].side = book[i].side
                 /\ BookAfter(x)[i].product = book[i].product
           /\ \A r \in x.insert :
                 /\ RowIds(x.insert) = {r.id} /\ r.id \notin DOMAIN book
                 /\ BookAfter(x)[r.id] = r.pos /\ r.pos \in Positions
                 /\ r.id \in Ids
  <1>1. x \in Transactions /\ Inserting(x) /\ Closing(x)
    OBVIOUS
  <1>2. DOMAIN BookAfter(x) = Kept(x) \cup RowIds(x.insert)
    BY DEF BookAfter
  <1>3. ASSUME NEW i \in Kept(x)
        PROVE  /\ i \in DOMAIN book
               /\ BookAfter(x)[i] \in Positions
               /\ BookAfter(x)[i].symbol = book[i].symbol
               /\ BookAfter(x)[i].side = book[i].side
               /\ BookAfter(x)[i].product = book[i].product
    <2>1. i \in DOMAIN book /\ book[i] \in Positions
      BY DEF EngineInv, TypeOK, Kept
    <2>2. BookAfter(x)[i] = [book[i] EXCEPT !.last =
              IF book[i].symbol \in x.marks THEN x.price ELSE @]
      BY DEF BookAfter
    <2>3. x.marks # {} => x.price \in Prices
      BY <1>1 DEF Closing
    <2>4. QED
      BY <2>1, <2>2, <2>3 DEF Positions
  <1>4. ASSUME NEW r \in x.insert
        PROVE  /\ RowIds(x.insert) = {r.id} /\ r.id \notin DOMAIN book
               /\ BookAfter(x)[r.id] = r.pos /\ r.pos \in Positions
               /\ r.id \in Ids
    <2>1. x.insert = {r} /\ r.id \notin DOMAIN book
      BY <1>1 DEF Inserting
    <2>2. RowIds(x.insert) = {r.id}
      BY <2>1 DEF RowIds
    <2>3. r \in Rows
      BY <1>1 DEF Transactions
    <2>4. (CHOOSE q \in x.insert : q.id = r.id) = r
      BY <2>1
    <2>5. r.id \notin Kept(x)
      BY <2>1 DEF Kept
    <2>6. BookAfter(x)[r.id] = r.pos
      BY <2>2, <2>4, <2>5 DEF BookAfter
    <2>7. QED
      BY <2>1, <2>2, <2>3, <2>6 DEF Rows
  <1>5. QED
    BY <1>2, <1>3, <1>4

\* A commit adds to the history the ids of the rows it closed.
LEMMA CommitClosedIds ==
    ASSUME EngineInv, NEW t \in Threads, Commit(t)
    PROVE  /\ tx[t].wipe => ClosedIds' = {} /\ trades' = <<>>
           /\ ~tx[t].wipe => /\ ClosedIds' = ClosedIds \cup tx[t].deleted
                            /\ \A k \in DOMAIN trades :
                                  k \in DOMAIN trades' /\ trades'[k] = trades[k]
  <1> DEFINE x == tx[t]
  <1>1. x \in Transactions /\ Closing(x)
    BY DEF EngineInv, TypeOK, TxInv
  <1>2. trades' = IF x.wipe THEN <<>> ELSE trades \o x.closed
    BY DEF Commit
  <1>3. trades \in Seq(Trades) /\ x.closed \in Seq(Trades)
    BY <1>1 DEF EngineInv, TypeOK, Transactions
  <1>4. CASE x.wipe
    BY <1>2, <1>4 DEF ClosedIds
  <1>5. CASE ~x.wipe
    <2>1. trades' = trades \o x.closed
      BY <1>2, <1>5
    <2>2. /\ \A k \in DOMAIN trades : k \in DOMAIN trades' /\ trades'[k] = trades[k]
          /\ \A k \in DOMAIN x.closed : /\ Len(trades) + k \in DOMAIN trades'
                                        /\ trades'[Len(trades) + k] = x.closed[k]
      BY SMTT(20), <1>3, <2>1
    <2>3. \A k \in DOMAIN trades' : \/ k \in DOMAIN trades
                                    \/ /\ k - Len(trades) \in DOMAIN x.closed
                                       /\ trades'[k] = x.closed[k - Len(trades)]
      BY <1>3, <2>1
    <2>4. x.deleted = {x.closed[k].id : k \in DOMAIN x.closed}
      BY <1>1 DEF Closing
    <2> HIDE DEF x
    <2>5. ClosedIds' = ClosedIds \cup x.deleted
      BY <2>2, <2>3, <2>4 DEF ClosedIds
    <2>6. QED
      BY <1>5, <2>2, <2>5 DEF x
  <1>6. QED
    BY <1>4, <1>5

\* A commit preserves the invariant: the step that writes the database.
LEMMA CommitStep ==
    ASSUME EngineInv, NEW t \in Threads, Commit(t)
    PROVE  EngineInv'
  <1> DEFINE x == tx[t]
             after == BookAfter(x)
  <1>1. x \in Transactions /\ x.active /\ Inserting(x) /\ Closing(x)
    BY DEF Commit, EngineInv, TypeOK, TxInv
  <1>2. /\ deposited' = IF x.wipe THEN x.deposit ELSE deposited + x.deposit
        /\ cash' = IF x.wipe THEN x.credit ELSE cash + x.credit
        /\ realized' = IF x.wipe THEN 0 ELSE realized + x.pnl
        /\ book' = after
        /\ trades' = IF x.wipe THEN <<>> ELSE trades \o x.closed
        /\ lock' = NoThread
        /\ tx' = [tx EXCEPT ![t] = NoTx]
        /\ UNCHANGED <<up, account, issued, quoted>>
    BY DEF Commit
  <1>3. /\ DOMAIN after = Kept(x) \cup RowIds(x.insert)
        /\ \A i \in Kept(x) :
              /\ i \in DOMAIN book /\ after[i] \in Positions
              /\ after[i].symbol = book[i].symbol
              /\ after[i].side = book[i].side
              /\ after[i].product = book[i].product
        /\ \A r \in x.insert :
              /\ RowIds(x.insert) = {r.id} /\ r.id \notin DOMAIN book
              /\ after[r.id] = r.pos /\ r.pos \in Positions /\ r.id \in Ids
    <2>1. /\ x \in Transactions /\ Inserting(x) /\ Closing(x)
      BY <1>1
    <2> HIDE DEF x
    <2>2. QED
      BY <2>1, BookAfterRows
  <1>4. x.insert = {} => RowIds(x.insert) = {}
    BY DEF RowIds
  <1>5. after = [i \in DOMAIN after |-> after[i]]
    BY DEF BookAfter
  <1>6. trades \in Seq(Trades) /\ x.closed \in Seq(Trades)
    BY <1>1 DEF EngineInv, TypeOK, Transactions
  <1>7. \A u \in Threads : tx'[u] = NoTx
    BY <1>1, <1>2 DEF EngineInv, TypeOK, LockInv
  <1> HIDE DEF after
  <1>8. TypeOK'
    <2>1. after \in [DOMAIN after -> Positions] /\ DOMAIN after \subseteq Ids
      <3>1. Kept(x) \subseteq Ids
        BY DEF EngineInv, TypeOK, Kept
      <3>2. \A i \in DOMAIN after : i \in Ids /\ after[i] \in Positions
        BY <1>3, <1>4, <3>1
      <3>3. QED
        BY <1>5, <3>2
    <2>2. trades' \in Seq(Trades)
      BY <1>2, <1>6
    <2>3. deposited' \in Nat /\ cash' \in Int /\ realized' \in Int
      <3>1. x.deposit \in Nat /\ x.credit \in Int /\ x.pnl \in Int /\ x.wipe \in BOOLEAN
        BY <1>1 DEF Transactions
      <3> HIDE DEF x
      <3>2. QED
        BY SMTT(20), <1>2, <3>1 DEF EngineInv, TypeOK
    <2>4. tx' \in [Threads -> Transactions]
      BY <1>2, NoTxType DEF EngineInv, TypeOK
    <2>5. QED
      BY <1>2, <2>1, <2>2, <2>3, <2>4 DEF EngineInv, TypeOK
  <1>9. LockInv'
    BY <1>2, <1>7 DEF EngineInv, LockInv, NoTx
  <1>10. /\ x.wipe => ClosedIds' = {}
         /\ ~x.wipe => ClosedIds' = ClosedIds \cup x.deleted
    BY CommitClosedIds
  <1>11. IdsDrawn'
    <2>1. \A i \in DOMAIN after : i <= issued
      BY <1>1, <1>3, <1>4 DEF EngineInv, IdsDrawn, Kept
    <2>2. x.deleted \subseteq DOMAIN book
      BY <1>1 DEF Closing
    <2>3. \A u \in Threads : tx'[u].insert = {}
      BY <1>7 DEF NoTx
    <2>4. QED
      BY <1>2, <1>10, <2>1, <2>2, <2>3 DEF EngineInv, IdsDrawn
  <1>12. TxInv'
    <2>1. Inserting(NoTx)' /\ Closing(NoTx)'
      BY DEF Inserting, Closing, NoTx, RowIds
    <2>2. QED
      BY <1>7, <2>1 DEF TxInv, Inserting, Closing
  <1>13. ClosedOnce'
    <2>1. DOMAIN after \cap ClosedIds' = {}
      BY <1>1, <1>3, <1>4, <1>10 DEF EngineInv, ClosedOnce, Inserting, Closing, Kept
    <2>2. ASSUME NEW j \in DOMAIN trades', NEW k \in DOMAIN trades',
                 trades'[j].id = trades'[k].id
          PROVE  j = k
      <3>1. ~x.wipe /\ trades' = trades \o x.closed
        BY <1>2
      <3>2. \A m \in DOMAIN trades' :
                /\ m \in Nat
                /\ \/ m \in DOMAIN trades /\ trades'[m] = trades[m]
                   \/ /\ m - Len(trades) \in DOMAIN x.closed
                      /\ trades'[m] = x.closed[m - Len(trades)]
        BY <1>6, <3>1
      <3>3. \A m \in DOMAIN trades : trades[m].id \notin DOMAIN book
        BY DEF EngineInv, ClosedOnce, ClosedIds
      <3>4. \A m \in DOMAIN x.closed : x.closed[m].id \in DOMAIN book
        BY <1>1 DEF Closing
      <3>5. \A m, n \in DOMAIN trades : trades[m].id = trades[n].id => m = n
        BY DEF EngineInv, ClosedOnce
      <3>6. \A m, n \in DOMAIN x.closed : x.closed[m].id = x.closed[n].id => m = n
        BY <1>1 DEF Closing
      <3>7. Len(trades) \in Nat
        BY <1>6
      <3> HIDE DEF x
      <3>8. QED
        BY <2>2, <3>2, <3>3, <3>4, <3>5, <3>6, <3>7
    <2>3. QED
      BY <1>2, <2>1, <2>2 DEF ClosedOnce
  <1>14. OneSidedBook'
    <2>1. \A i, j \in DOMAIN after :
             /\ after[i].symbol = after[j].symbol => after[i].side = after[j].side
             /\ ~DeliveryShort(after[i])
      BY <1>1, <1>3, <1>4 DEF EngineInv, OneSidedBook, Inserting, DeliveryShort, Kept
    <2>2. QED
      BY <1>2, <2>1 DEF OneSidedBook
  <1>15. QED
    BY <1>8, <1>9, <1>11, <1>12, <1>13, <1>14 DEF EngineInv

(***************************************************************************)
(* The steps that touch no row.                                            *)
(***************************************************************************)
\* A step after which no transaction is open, and which leaves the rows
\* alone, preserves the invariant.
LEMMA QuietStep ==
    ASSUME EngineInv,
           UNCHANGED <<realized, book, trades, issued>>,
           up' \in BOOLEAN, account' \in BOOLEAN, up' => account',
           deposited' \in Nat, cash' \in Int,
           lock' \in Threads \cup {NoThread},
           quoted' \in [Threads -> SUBSET [order : Orders, price : Prices]],
           tx' \in [Threads -> Transactions],
           \A u \in Threads : tx'[u] = NoTx
    PROVE  EngineInv'
  <1>1. TypeOK'
    BY DEF EngineInv, TypeOK
  <1>2. LockInv'
    BY DEF LockInv, NoTx
  <1>3. ClosedIds' = ClosedIds
    BY DEF ClosedIds
  <1>4. NoTx.insert = {}
    BY DEF NoTx
  <1>5. IdsDrawn'
    BY <1>3, <1>4 DEF EngineInv, IdsDrawn
  <1>6. Inserting(NoTx)' /\ Closing(NoTx)'
    BY DEF Inserting, Closing, NoTx, RowIds
  <1>7. TxInv'
    BY <1>6 DEF TxInv, Inserting, Closing
  <1>8. ClosedOnce' /\ OneSidedBook'
    BY <1>3 DEF EngineInv, ClosedOnce, OneSidedBook
  <1>9. QED
    BY <1>1, <1>2, <1>5, <1>7, <1>8 DEF EngineInv

\* A rollback preserves the invariant.
LEMMA RollbackStep ==
    ASSUME EngineInv, NEW t \in Threads, Rollback(t)
    PROVE  EngineInv'
  <1>1. \A u \in Threads : tx'[u] = NoTx
    BY DEF Rollback, EngineInv, TypeOK, LockInv
  <1>2. tx' \in [Threads -> Transactions]
        /\ quoted' \in [Threads -> SUBSET [order : Orders, price : Prices]]
    BY NoTxType DEF Rollback, EngineInv, TypeOK
  <1>3. QED
    BY <1>1, <1>2, QuietStep DEF Rollback, EngineInv, TypeOK, LockInv

\* A crash of the process preserves the invariant.
LEMMA CrashStep == ASSUME EngineInv, Crash PROVE EngineInv'
  <1>1. \A u \in Threads : tx'[u] = NoTx
    BY DEF Crash
  <1>2. tx' \in [Threads -> Transactions]
        /\ quoted' \in [Threads -> SUBSET [order : Orders, price : Prices]]
    BY NoTxType DEF Crash
  <1>3. QED
    BY <1>1, <1>2, QuietStep DEF Crash, EngineInv, TypeOK, LockInv

\* A start, with or without an account on disk, preserves the invariant.
LEMMA StartStep ==
    ASSUME EngineInv, NEW b \in Balances, Start(b) PROVE EngineInv'
  <1>1. \A u \in Threads : tx'[u] = NoTx
    BY DEF Start, EngineInv, LockInv
  <1>2. b \in Nat /\ b \in Int
    BY EngineAssumption
  <1>3. deposited' \in Nat /\ cash' \in Int
    BY <1>2 DEF Start, EngineInv, TypeOK
  <1>4. QED
    BY <1>1, <1>3, QuietStep DEF Start, EngineInv, TypeOK

\* Refusing a MARKET order after its quote preserves the invariant.
LEMMA RefuseMarketStep ==
    ASSUME EngineInv, NEW t \in Threads, RefuseMarket(t) PROVE EngineInv'
  <1>1. /\ UNCHANGED <<up, account, deposited, cash, realized, book, trades,
                       issued, lock, tx>>
        /\ quoted' = [quoted EXCEPT ![t] = {}] /\ lock = NoThread
    BY DEF RefuseMarket, LockFree
  <1>2. quoted' \in [Threads -> SUBSET [order : Orders, price : Prices]]
    BY <1>1 DEF EngineInv, TypeOK
  <1>3. \A u \in Threads : tx'[u] = NoTx
    BY <1>1, EngineAssumption DEF EngineInv, LockInv, TypeOK
  <1>4. QED
    BY <1>1, <1>2, <1>3, QuietStep DEF EngineInv, TypeOK, LockInv

(***************************************************************************)
(* EngineInv is inductive.                                                 *)
(***************************************************************************)
\* The invariant holds of an empty database.
LEMMA EngineInit == Init => EngineInv
  <1> SUFFICES ASSUME Init PROVE EngineInv
    OBVIOUS
  <1>1. tx \in [Threads -> Transactions] /\ \A u \in Threads : tx[u] = NoTx
    BY NoTxType DEF Init
  <1>2. trades \in Seq(Trades) /\ ClosedIds = {} /\ DOMAIN trades = {}
        /\ book = NoBook /\ DOMAIN book = {}
    BY DEF Init, ClosedIds, NoBook
  <1>3. TypeOK
    <2>1. book \in [DOMAIN book -> Positions] /\ DOMAIN book \subseteq Ids
      BY <1>2 DEF NoBook
    <2>2. quoted \in [Threads -> SUBSET [order : Orders, price : Prices]]
      BY DEF Init
    <2>3. up \in BOOLEAN /\ account \in BOOLEAN /\ lock \in Threads \cup {NoThread}
      BY DEF Init
    <2>4. deposited \in Nat /\ cash \in Int /\ realized \in Int /\ issued \in Nat
      BY DEF Init
    <2>5. QED
      BY <1>1, <1>2, <2>1, <2>2, <2>3, <2>4 DEF TypeOK
  <1>4. LockInv
    BY <1>1 DEF Init, LockInv, NoTx
  <1>5. IdsDrawn
    BY <1>1, <1>2 DEF IdsDrawn, NoTx
  <1>6. Inserting(NoTx) /\ Closing(NoTx)
    BY DEF Inserting, Closing, NoTx, RowIds
  <1>7. TxInv
    BY <1>1, <1>6 DEF TxInv
  <1>8. ClosedOnce /\ OneSidedBook
    BY <1>2 DEF ClosedOnce, OneSidedBook
  <1>9. QED
    BY <1>3, <1>4, <1>5, <1>7, <1>8 DEF EngineInv

\* Every request of the web server preserves the invariant.
LEMMA RequestStep ==
    ASSUME EngineInv, NEW t \in Threads, Request(t) PROVE EngineInv'
  <1>1. CASE \E b \in Balances : Reset(t, b)
    BY <1>1, ResetStep
  <1>2. CASE \E a \in TopUps : AddBalance(t, a)
    BY <1>2, AddBalanceStep
  <1>3. CASE \E i \in DOMAIN book, price \in Prices : ClosePosition(t, i, price)
    BY <1>3, ClosePositionStep
  <1>4. CASE \E o \in Orders, price \in Prices : PlaceLimit(t, o, price)
    BY <1>4, PlaceOrderStep DEF PlaceLimit, EngineInv, TypeOK
  <1>5. CASE \E s \in Symbols, price \in Prices : Quote(t, s, price, {})
    BY <1>5, QuoteStep
  <1>6. CASE \E o \in Orders, price \in Prices : Quote(t, o.symbol, price, {o})
    <2>1. PICK o \in Orders, price \in Prices : Quote(t, o.symbol, price, {o})
      BY <1>6
    <2>2. o.symbol \in Symbols /\ {o} \in SUBSET Orders
      BY BookAssumption DEF OrderType
    <2>3. QED
      BY <2>1, <2>2, QuoteStep
  <1>7. CASE PlaceMarket(t)
    <2>1. PICK q \in quoted[t] : /\ PlaceOrder(t, q.order, q.price)
                                 /\ quoted' = [quoted EXCEPT ![t] = {}]
      BY <1>7 DEF PlaceMarket
    <2>2. quoted' \in [Threads -> SUBSET [order : Orders, price : Prices]]
      BY <2>1 DEF EngineInv, TypeOK
    <2>3. QED
      BY <2>1, <2>2, QuotedOrders, PlaceOrderStep
  <1>8. CASE RefuseMarket(t)
    BY <1>8, RefuseMarketStep
  <1>9. QED
    BY <1>1, <1>2, <1>3, <1>4, <1>5, <1>6, <1>7, <1>8 DEF Request

\* Every step preserves the invariant.
LEMMA EngineNext == EngineInv /\ [Next]_vars => EngineInv'
  <1> SUFFICES ASSUME EngineInv, [Next]_vars PROVE EngineInv'
    OBVIOUS
  <1>1. CASE \E t \in Threads : Request(t)
    BY <1>1, RequestStep
  <1>2. CASE \E t \in Threads : MarkRow(t)
    BY <1>2, MarkRowStep
  <1>3. CASE \E t \in Threads : Commit(t)
    BY <1>3, CommitStep
  <1>4. CASE \E t \in Threads : Rollback(t)
    BY <1>4, RollbackStep
  <1>5. CASE Crash
    BY <1>5, CrashStep
  <1>6. CASE \E b \in Balances : Start(b)
    BY <1>6, StartStep
  <1>7. CASE UNCHANGED vars
    BY <1>7 DEF vars, EngineInv, TypeOK, LockInv, IdsDrawn, TxInv, Inserting,
                Closing, ClosedOnce, OneSidedBook, ClosedIds
  <1>8. QED
    BY <1>1, <1>2, <1>3, <1>4, <1>5, <1>6, <1>7 DEF Next

\* In every run of the engine the transaction of the lock's owner fits the
\* database it read, and the properties that follow from it hold.
THEOREM EngineInvariant == Spec => []EngineInv
  BY EngineInit, EngineNext, PTL DEF Spec

\* The account's columns, the lock and the transactions keep their types in
\* every run of the engine.
THEOREM TypeCorrect == Spec => []TypeOK
  <1>1. EngineInv => TypeOK
    BY DEF EngineInv
  <1>2. QED
    BY <1>1, EngineInvariant, PTL

\* No position is ever closed twice, by whatever race of exits.
THEOREM PositionsCloseOnce == Spec => []ClosedOnce
  <1>1. EngineInv => ClosedOnce
    BY DEF EngineInv
  <1>2. QED
    BY <1>1, EngineInvariant, PTL

\* The book of every symbol is one-sided and holds no delivery short.
THEOREM BookIsOneSided == Spec => []OneSidedBook
  <1>1. EngineInv => OneSidedBook
    BY DEF EngineInv
  <1>2. QED
    BY <1>1, EngineInvariant, PTL

(***************************************************************************)
(* The action properties, from the invariant.                              *)
(***************************************************************************)
\* Everything but a commit leaves the book alone.
LEMMA OnlyCommitsWrite ==
    ASSUME EngineInv, [Next]_vars, ~\E t \in Threads : Commit(t)
    PROVE  UNCHANGED <<book, trades>>
  <1>1. ASSUME NEW t \in Threads, Request(t)
        PROVE  UNCHANGED <<book, trades>>
    BY <1>1 DEF Request, Reset, AddBalance, ClosePosition, PlaceLimit, Quote,
                PlaceMarket, RefuseMarket, PlaceOrder, CloseOpposite, OpenNew,
                Enter
  <1>2. ASSUME NEW t \in Threads, MarkRow(t) \/ Rollback(t)
        PROVE  UNCHANGED <<book, trades>>
    BY <1>2 DEF MarkRow, Rollback
  <1>3. Crash => UNCHANGED <<book, trades>>
    BY DEF Crash
  <1>4. ASSUME NEW b \in Balances, Start(b)
        PROVE  UNCHANGED <<book, trades>>
    BY <1>4 DEF Start
  <1>5. UNCHANGED vars => UNCHANGED <<book, trades>>
    BY DEF vars
  <1>6. QED
    BY <1>1, <1>2, <1>3, <1>4, <1>5 DEF Next

\* The margin that was checked against the cash is covered when it is debited.
THEOREM OpensFunded == Spec => OpensAreFunded
  <1>1. ASSUME EngineInv, [Next]_vars
        PROVE  [DOMAIN book' \ DOMAIN book # {} => cash' >= 0]_vars
    <2>1. CASE \E t \in Threads : Commit(t)
      <3>1. PICK t \in Threads : Commit(t)
        BY <2>1
      <3> DEFINE x == tx[t]
      <3>2. x \in Transactions /\ Inserting(x) /\ Closing(x)
        BY <1>1 DEF EngineInv, TypeOK, TxInv
      <3>3. book' = BookAfter(x)
            /\ cash' = IF x.wipe THEN x.credit ELSE cash + x.credit
        BY <3>1 DEF Commit
      <3> HIDE DEF x
      <3>4. DOMAIN BookAfter(x) = Kept(x) \cup RowIds(x.insert)
        BY DEF BookAfter
      <3>5. ASSUME DOMAIN book' \ DOMAIN book # {}
            PROVE  cash' >= 0
        <4>1. x.insert # {}
          BY <3>3, <3>4, <3>5 DEF Kept, RowIds
        <4>2. ~x.wipe /\ cash + x.credit >= 0
          BY <3>2, <4>1 DEF Inserting
        <4>3. QED
          BY <3>3, <4>2
      <3>6. QED
        BY <3>5
    <2>2. CASE ~\E t \in Threads : Commit(t)
      BY <1>1, <2>2, OnlyCommitsWrite
    <2>3. QED
      BY <2>1, <2>2
  <1>2. QED
    BY <1>1, EngineInvariant, PTL DEF Spec, OpensAreFunded

\* A position leaves the book only into the trade history, which only grows,
\* or with everything else in a reset.
THEOREM HistoryIsKept == Spec => HistoryKept
  <1> DEFINE A == \/ /\ \A k \in DOMAIN trades :
                           k \in DOMAIN trades' /\ trades'[k] = trades[k]
                     /\ DOMAIN book \ DOMAIN book' \subseteq ClosedIds'
                  \/ trades' = <<>> /\ DOMAIN book' = {} /\ realized' = 0
  <1>1. ASSUME EngineInv, [Next]_vars
        PROVE  [A]_vars
    <2>1. CASE \E t \in Threads : Commit(t)
      <3>1. PICK t \in Threads : Commit(t)
        BY <2>1
      <3> DEFINE x == tx[t]
      <3>2. Inserting(x) /\ Closing(x)
        BY <1>1 DEF EngineInv, TypeOK, TxInv
      <3>3. /\ book' = BookAfter(x)
            /\ realized' = IF x.wipe THEN 0 ELSE realized + x.pnl
        BY <3>1 DEF Commit
      <3>4. /\ x.wipe => trades' = <<>>
            /\ ~x.wipe => /\ ClosedIds' = ClosedIds \cup x.deleted
                         /\ \A k \in DOMAIN trades :
                               k \in DOMAIN trades' /\ trades'[k] = trades[k]
        BY <1>1, <3>1, CommitClosedIds
      <3> HIDE DEF x
      <3>5. DOMAIN BookAfter(x) = Kept(x) \cup RowIds(x.insert)
        BY DEF BookAfter
      <3>6. CASE x.wipe
        <4>1. x.insert = {}
          BY <3>2, <3>6 DEF Inserting
        <4>2. DOMAIN book' = {}
          BY <3>3, <3>5, <3>6, <4>1 DEF Kept, RowIds
        <4>3. QED
          BY <3>3, <3>4, <3>6, <4>2
      <3>7. CASE ~x.wipe
        BY <3>3, <3>4, <3>5, <3>7 DEF Kept
      <3>8. QED
        BY <3>6, <3>7
    <2>2. CASE ~\E t \in Threads : Commit(t)
      BY <1>1, <2>2, OnlyCommitsWrite
    <2>3. QED
      BY <2>1, <2>2
  <1>2. QED
    BY <1>1, EngineInvariant, PTL DEF Spec, HistoryKept

(***************************************************************************)
(* The statements of an open transaction are those of one request.         *)
(***************************************************************************)
\* Statements that fit go on fitting while the database is not written.
LEMMA StillFits ==
    ASSUME NEW u, NEW x, tx'[u] = x, RequestOf(x), UNCHANGED <<cash, book, trades>>
    PROVE  RequestOf(tx[u])'
  <1>1. Wiping(x) => Wiping(tx[u])'
    BY DEF Wiping
  <1>2. ToppingUp(x) => ToppingUp(tx[u])'
    BY DEF ToppingUp
  <1>3. ClosingOne(x) => ClosingOne(tx[u])'
    BY DEF ClosingOne
  <1>4. Opening(x) => Opening(tx[u])'
    BY DEF Opening, Admitted, Opposite, ClosedIds
  <1>5. ASSUME NEW s \in Symbols, NEW price \in Prices, Marking(x, s, price)
        PROVE  Marking(tx[u], s, price)'
    BY <1>5 DEF Marking, Hit, OnSymbol, AutoTrade, Margins
  <1>6. QED
    BY <1>1, <1>2, <1>3, <1>4, <1>5 DEF RequestOf

\* A transaction that begins with the statements of a request fits.
LEMMA EnterFits ==
    ASSUME AccountInv, NEW t \in Threads, NEW x, Enter(t, x), RequestOf(x)
    PROVE  StatementsFit'
  <1>1. tx'[t] = x /\ \A u \in Threads \ {t} : ~tx'[u].active
    BY EngineAssumption DEF AccountInv, EngineInv, Enter, LockInv, LockFree, TypeOK, NoTx
  <1>2. book' = book /\ cash' = cash /\ trades' = trades
    BY DEF Enter
  <1>3. RequestOf(tx[t])'
    BY <1>1, <1>2, StillFits
  <1>4. QED
    BY <1>1, <1>3 DEF StatementsFit

\* Orders, exits and quotes begin with the statements of their request.
LEMMA PlaceOrderFits ==
    ASSUME AccountInv, NEW t \in Threads, NEW o \in Orders, NEW price \in Prices,
           PlaceOrder(t, o, price)
    PROVE  StatementsFit'
  <1>1. CASE CloseOpposite(t, o, price)
    <2>1. Opposite(book, o) \subseteq DOMAIN book /\ Opposite(book, o) # {}
      BY <1>1 DEF Opposite, CloseOpposite
    <2>2. Oldest(Opposite(book, o)) \in DOMAIN book
      BY <2>1, OldestIn DEF AccountInv, EngineInv, TypeOK
    <2>3. PICK i \in DOMAIN book, r \in Reasons :
                Enter(t, CloseRow(Started, i, book[i], price, r))
      BY <1>1, <2>2 DEF CloseOpposite, Reasons
    <2>4. RequestOf(CloseRow(Started, i, book[i], price, r))
      BY DEF RequestOf, ClosingOne
    <2>5. QED
      BY <2>3, <2>4, EnterFits
  <1>2. CASE OpenNew(t, o, price)
    <2>1. /\ Admitted(o, price) /\ issued + 1 \in Ids
          /\ Enter(t, OpenTx(issued + 1, NewPosition(o, price)))
      BY <1>2 DEF OpenNew, OpenTx
    <2>2. issued + 1 \notin DOMAIN book \cup ClosedIds
      BY IdsAreNumbers DEF AccountInv, EngineInv, IdsDrawn, TypeOK
    <2>3. Opening(OpenTx(issued + 1, NewPosition(o, price)))
      BY <2>1, <2>2 DEF Opening
    <2>4. QED
      BY <2>1, <2>3, EnterFits DEF RequestOf
  <1>3. QED
    BY <1>1, <1>2 DEF PlaceOrder

\* A quote begins with every row of its symbol to look at and none closed.
LEMMA QuoteFits ==
    ASSUME AccountInv, NEW t \in Threads, NEW s \in Symbols, NEW price \in Prices,
           NEW wanted \in SUBSET Orders, Quote(t, s, price, wanted)
    PROVE  StatementsFit'
  <1> DEFINE rows == {Row(i, Marked(book[i], s, price)) : i \in OnSymbol(book, s)}
             x == [Started EXCEPT !.marks = {s}, !.price = price, !.rows = rows]
  <1>1. Enter(t, x)
    BY DEF Quote
  <1>2. /\ \A r \in rows : r.id \in OnSymbol(book, s)
                           /\ r.pos = Marked(book[r.id], s, price)
        /\ OnSymbol(book, s) \subseteq RowIds(rows)
        /\ Hit(s, price) \subseteq OnSymbol(book, s)
    <2>1. \A r \in rows : r.id \in OnSymbol(book, s)
                         /\ r.pos = Marked(book[r.id], s, price)
      BY DEF Row
    <2>2. ASSUME NEW i \in OnSymbol(book, s) PROVE i \in RowIds(rows)
      <3>1. Row(i, Marked(book[i], s, price)) \in rows
        OBVIOUS
      <3>2. Row(i, Marked(book[i], s, price)).id = i
        BY DEF Row
      <3> HIDE DEF rows
      <3>3. QED
        BY <3>1, <3>2 DEF RowIds
    <2>3. Hit(s, price) \subseteq OnSymbol(book, s)
      BY DEF Hit
    <2>4. QED
      BY <2>1, <2>2, <2>3
  <1> HIDE DEF rows
  <1>3. /\ ~x.wipe /\ x.deposit = 0 /\ x.insert = {}
        /\ x.marks = {s} /\ x.price = price /\ x.rows = rows
        /\ x.deleted = {} /\ x.closed = <<>> /\ x.pnl = 0 /\ x.credit = 0
    BY DEF Started, NoTx
  <1>4. Elements(<<>>) = {} /\ {AutoTrade(i, price) : i \in {}} = {}
    BY DEF Elements
  <1>5. SumPnl(<<>>) = 0 /\ Margins(book, {}) = 0
    BY SumEmpty DEF SumPnl, Margins
  <1> HIDE DEF x
  <1>6. Marking(x, s, price)
    BY <1>2, <1>3, <1>4, <1>5 DEF Marking
  <1>7. QED
    BY <1>1, <1>6, EnterFits DEF RequestOf

\* Every request leaves only transactions that fit.
LEMMA RequestFits ==
    ASSUME AccountInv, NEW t \in Threads, Request(t) PROVE StatementsFit'
  <1>1. ASSUME NEW b \in Balances, Reset(t, b) PROVE StatementsFit'
    <2>1. Enter(t, WipeTx(b)) /\ Wiping(WipeTx(b))
      BY <1>1 DEF Reset, WipeTx, Wiping
    <2>2. QED
      BY <2>1, EnterFits DEF RequestOf
  <1>2. ASSUME NEW a \in TopUps, AddBalance(t, a) PROVE StatementsFit'
    <2>1. Enter(t, TopUpTx(a)) /\ ToppingUp(TopUpTx(a))
      BY <1>2 DEF AddBalance, TopUpTx, ToppingUp
    <2>2. QED
      BY <2>1, EnterFits DEF RequestOf
  <1>3. ASSUME NEW i \in DOMAIN book, NEW price \in Prices, ClosePosition(t, i, price)
        PROVE  StatementsFit'
    <2>1. /\ Enter(t, CloseRow(Started, i, book[i], price, "MANUAL_EXIT"))
          /\ ClosingOne(CloseRow(Started, i, book[i], price, "MANUAL_EXIT"))
      BY <1>3 DEF ClosePosition, ClosingOne, Reasons
    <2>2. QED
      BY <2>1, EnterFits DEF RequestOf
  <1>4. CASE \E o \in Orders, price \in Prices : PlaceLimit(t, o, price)
    BY <1>4, PlaceOrderFits DEF PlaceLimit
  <1>5. CASE \E s \in Symbols, price \in Prices : Quote(t, s, price, {})
    BY <1>5, QuoteFits
  <1>6. CASE \E o \in Orders, price \in Prices : Quote(t, o.symbol, price, {o})
    <2>1. PICK o \in Orders, price \in Prices : Quote(t, o.symbol, price, {o})
      BY <1>6
    <2>2. o.symbol \in Symbols /\ {o} \in SUBSET Orders
      BY BookAssumption DEF OrderType
    <2>3. QED
      BY <2>1, <2>2, QuoteFits
  <1>7. CASE PlaceMarket(t)
    <2>1. PICK q \in quoted[t] : PlaceOrder(t, q.order, q.price)
      BY <1>7 DEF PlaceMarket
    <2>2. QED
      BY <2>1, QuotedOrders, PlaceOrderFits DEF AccountInv
  <1>8. CASE RefuseMarket(t)
    <2>1. lock = NoThread /\ tx' = tx
      BY <1>8 DEF RefuseMarket, LockFree
    <2>2. \A u \in Threads : ~tx'[u].active
      BY <2>1, EngineAssumption DEF AccountInv, EngineInv, LockInv
    <2>3. QED
      BY <2>2 DEF StatementsFit
  <1>9. QED
    BY <1>1, <1>2, <1>3, <1>4, <1>5, <1>6, <1>7, <1>8 DEF Request

(***************************************************************************)
(* Sums over a history and over the margins of a book.                     *)
(***************************************************************************)
\* The P&L of a trade is an integer.
LEMMA TradePnl == ASSUME NEW n \in Trades PROVE n.pnl \in Int
  BY DEF Trades

\* The P&L of one history after another is the sum of theirs.
LEMMA SumPnlConcat ==
    ASSUME NEW a \in Seq(Trades), NEW b \in Seq(Trades)
    PROVE  SumPnl(a \o b) = SumPnl(a) + SumPnl(b)
  <1> DEFINE P(s) == [k \in DOMAIN s |-> s[k].pnl]
  <1>1. \A s \in Seq(Trades) : P(s) \in Seq(Int) /\ Len(P(s)) = Len(s)
    BY TradePnl
  <1>2. P(a \o b) = P(a) \o P(b)
    <2>1. /\ Len(a) \in Nat /\ Len(b) \in Nat
          /\ DOMAIN a = 1 .. Len(a) /\ DOMAIN b = 1 .. Len(b)
          /\ a \o b \in Seq(Trades) /\ Len(a \o b) = Len(a) + Len(b)
      OBVIOUS
    <2>2. DOMAIN (a \o b) = 1 .. (Len(a) + Len(b))
      <3>1. DOMAIN (a \o b) = 1 .. Len(a \o b)
        BY <2>1
      <3>2. QED
        BY <2>1, <3>1
    <2>3. P(a) \o P(b) = [k \in 1 .. (Len(a) + Len(b)) |->
                              IF k <= Len(a) THEN P(a)[k] ELSE P(b)[k - Len(a)]]
      BY <1>1, <2>1
    <2>4. ASSUME NEW k \in 1 .. (Len(a) + Len(b))
          PROVE  (a \o b)[k].pnl = IF k <= Len(a) THEN P(a)[k] ELSE P(b)[k - Len(a)]
      <3>1. CASE k <= Len(a)
        <4>1. k \in DOMAIN a /\ (a \o b)[k] = a[k]
          BY <2>1, <3>1
        <4>2. QED
          BY <3>1, <4>1
      <3>2. CASE ~(k <= Len(a))
        <4>1. k - Len(a) \in DOMAIN b /\ (a \o b)[k] = b[k - Len(a)]
          BY <2>1, <3>2
        <4>2. QED
          BY <3>2, <4>1
      <3>3. QED
        BY <3>1, <3>2
    <2>5. QED
      BY <2>2, <2>3, <2>4
  <1>3. P(a) \in Seq(Int) /\ P(b) \in Seq(Int)
    BY <1>1
  <1>4. /\ SumPnl(a \o b) = SumFunction(P(a \o b))
        /\ SumPnl(a) = SumFunction(P(a)) /\ SumPnl(b) = SumFunction(P(b))
    BY DEF SumPnl
  <1> HIDE DEF P
  <1>5. SumFunction(P(a) \o P(b)) = SumFunction(P(a)) + SumFunction(P(b))
    BY <1>3, SumConcat
  <1>6. QED
    BY <1>2, <1>4, <1>5

\* Closing a position adds its P&L to the sum.
LEMMA SumPnlAppend ==
    ASSUME NEW c \in Seq(Trades), NEW n \in Trades
    PROVE  SumPnl(Append(c, n)) = SumPnl(c) + n.pnl
  <1>1. Append(c, n) = c \o <<n>> /\ <<n>> \in Seq(Trades)
    OBVIOUS
  <1>2. SumPnl(<<n>>) = n.pnl
    <2> DEFINE f == [k \in DOMAIN <<n>> |-> <<n>>[k].pnl]
    <2>1. DOMAIN <<n>> = {1} /\ <<n>>[1] = n
      OBVIOUS
    <2>2. f \in [{1} -> Int] /\ f[1] = n.pnl
      BY <2>1, TradePnl
    <2>3. IsFiniteSet({1})
      BY FS_Singleton
    <2>4. Summable(f, {1})
      BY <2>2, <2>3 DEF Summable
    <2> HIDE DEF f
    <2>5. SumFunction(f) = f[1]
      BY <2>4, SumOne
    <2>6. QED
      BY <2>2, <2>5 DEF SumPnl, f
  <1>3. SumPnl(c \o <<n>>) = SumPnl(c) + SumPnl(<<n>>)
    BY <1>1, SumPnlConcat
  <1>4. QED
    BY <1>1, <1>2, <1>3

\* The P&L of a history is an integer.
LEMMA SumPnlType == ASSUME NEW c \in Seq(Trades) PROVE SumPnl(c) \in Int
  <1> DEFINE f == [k \in DOMAIN c |-> c[k].pnl]
  <1>1. f \in [DOMAIN c -> Int]
    BY TradePnl
  <1>2. DOMAIN c = 1 .. Len(c) /\ Len(c) \in Nat /\ IsFiniteSet(1 .. Len(c))
    BY FS_Interval
  <1>3. Summable(f, DOMAIN c)
    BY <1>1, <1>2 DEF Summable
  <1> HIDE DEF f
  <1>4. SumFunction(f) \in Int
    BY <1>3, SumType
  <1>5. QED
    BY <1>4 DEF SumPnl, f

\* The margins of a finite set of rows can be summed.
LEMMA MarginsSummable ==
    ASSUME NEW b, NEW ids, IsFiniteSet(ids), \A i \in ids : b[i].margin \in Nat
    PROVE  /\ Summable([i \in ids |-> b[i].margin], ids)
           /\ Margins(b, ids) \in Int
  <1>1. Summable([i \in ids |-> b[i].margin], ids)
    BY DEF Summable
  <1>2. QED
    BY <1>1, SumType DEF Margins

\* One row more reserves its margin more.
LEMMA MarginsWith ==
    ASSUME NEW b, NEW ids, IsFiniteSet(ids), NEW j, j \notin ids,
           \A i \in ids \cup {j} : b[i].margin \in Nat
    PROVE  Margins(b, ids \cup {j}) = Margins(b, ids) + b[j].margin
  <1> DEFINE e == [i \in ids \cup {j} |-> b[i].margin]
             f == [i \in ids |-> b[i].margin]
  <1>1. IsFiniteSet(ids \cup {j})
    BY FS_AddElement
  <1>2. Summable(e, ids \cup {j}) /\ Summable(f, ids)
    BY <1>1, MarginsSummable
  <1>3. Agree(e, f, ids) /\ e[j] = b[j].margin
    BY DEF Agree
  <1> HIDE DEF e, f
  <1>4. SumFunction(e) = SumFunction(f) + e[j]
    BY <1>2, <1>3, SumWith
  <1>5. QED
    BY <1>3, <1>4 DEF Margins, e, f

\* The margins of a book are those of two parts of it.
LEMMA MarginsSplit ==
    ASSUME NEW b, NEW G, NEW D, NEW E, IsFiniteSet(G), SplitsInto(G, D, E),
           \A i \in G : b[i].margin \in Nat
    PROVE  Margins(b, G) = Margins(b, D) + Margins(b, E)
  <1> DEFINE f == [i \in G |-> b[i].margin]
             d == [i \in D |-> b[i].margin]
             e == [i \in E |-> b[i].margin]
  <1>1. D \subseteq G /\ E \subseteq G
    BY DEF SplitsInto
  <1>2. IsFiniteSet(D) /\ IsFiniteSet(E)
    BY <1>1, FS_Subset
  <1>3. Summable(f, G) /\ Summable(d, D) /\ Summable(e, E)
    BY <1>1, <1>2 DEF Summable
  <1>4. Agree(f, d, D) /\ Agree(f, e, E)
    BY <1>1 DEF Agree
  <1> HIDE DEF f, d, e
  <1>5. SumFunction(f) = SumFunction(d) + SumFunction(e)
    BY <1>3, <1>4, SumUnion
  <1>6. QED
    BY <1>5 DEF Margins, f, d, e

\* The book is finite: ids are drawn in order.
LEMMA BookFinite ==
    ASSUME EngineInv
    PROVE  /\ IsFiniteSet(DOMAIN book)
           /\ \A i \in DOMAIN book : book[i] \in Positions /\ book[i].margin \in Nat
  <1>1. /\ DOMAIN book \subseteq Ids /\ issued \in Nat
        /\ \A i \in DOMAIN book : i <= issued /\ book[i] \in Positions
    BY DEF EngineInv, TypeOK, IdsDrawn
  <1>2. DOMAIN book \subseteq 1 .. issued
    BY <1>1, BookConstants
  <1>3. IsFiniteSet(DOMAIN book)
    <2>1. IsFiniteSet(1 .. issued)
      BY <1>1, FS_Interval
    <2>2. QED
      BY <1>2, <2>1, FS_Subset
  <1>4. QED
    BY <1>1, <1>3, PositionFields

(***************************************************************************)
(* The mark_price loop keeps the statements of its transaction fitting.    *)
(***************************************************************************)
\* A marked row is judged, closed and paid out as the row it was read from.
LEMMA MarkedRow ==
    ASSUME NEW p \in Positions, NEW s, NEW price \in Prices
    PROVE  /\ Marked(p, s, price).margin = p.margin
           /\ ExitHit(Marked(p, s, price), price) = ExitHit(p, price)
           /\ ExitReason(Marked(p, s, price), price) = ExitReason(p, price)
           /\ Pnl(Marked(p, s, price), price) = Pnl(p, price)
           /\ \A i, r : NewTrade(i, Marked(p, s, price), price, r)
                            = NewTrade(i, p, price, r)
  <1> DEFINE q == Marked(p, s, price)
  <1>1. /\ q.symbol = p.symbol /\ q.side = p.side /\ q.quantity = p.quantity
        /\ q.bracket = p.bracket /\ q.entry = p.entry /\ q.margin = p.margin
    BY DEF Marked, Positions
  <1> HIDE DEF q
  <1>2. Pnl(q, price) = Pnl(p, price)
    BY <1>1 DEF Pnl
  <1>3. ExitHit(q, price) = ExitHit(p, price)
    BY <1>1 DEF ExitHit, StopHit, TargetHit
  <1>4. ExitReason(q, price) = ExitReason(p, price)
    BY <1>1 DEF ExitReason, StopHit, TargetHit
  <1>5. \A i, r : NewTrade(i, q, price, r) = NewTrade(i, p, price, r)
    BY <1>1, <1>2 DEF NewTrade
  <1>6. QED
    BY <1>1, <1>2, <1>3, <1>4, <1>5 DEF q

\* A history with one trade more.
LEMMA ElementsAppend ==
    ASSUME NEW c \in Seq(Trades), NEW n
    PROVE  Elements(Append(c, n)) = Elements(c) \cup {n}
  <1>1. /\ DOMAIN Append(c, n) = DOMAIN c \cup {Len(c) + 1}
        /\ Append(c, n)[Len(c) + 1] = n
        /\ \A k \in DOMAIN c : Append(c, n)[k] = c[k]
    OBVIOUS
  <1>2. QED
    BY <1>1 DEF Elements

\* The loop leaves a row open that the price does not reach.
LEMMA LeaveRowFits ==
    ASSUME EngineInv, NEW s \in Symbols, NEW price \in Prices,
           NEW x \in Transactions, Closing(x), Marking(x, s, price),
           NEW r \in x.rows, ~ExitHit(r.pos, price)
    PROVE  Marking([x EXCEPT !.rows = @ \ {r}], s, price)
  <1> DEFINE rest == [x EXCEPT !.rows = @ \ {r}]
  <1>1. /\ rest.rows = x.rows \ {r} /\ rest.wipe = x.wipe
        /\ rest.deposit = x.deposit /\ rest.insert = x.insert
        /\ rest.marks = x.marks /\ rest.price = x.price
        /\ rest.deleted = x.deleted /\ rest.closed = x.closed
        /\ rest.pnl = x.pnl /\ rest.credit = x.credit
    BY DEF Transactions
  <1>2. r.id \in DOMAIN book /\ r.pos = Marked(book[r.id], s, price)
    BY DEF Marking, OnSymbol
  <1>3. r.id \notin Hit(s, price)
    BY <1>2, BookFinite, MarkedRow DEF Hit
  <1>4. RowIds(x.rows) \subseteq RowIds(rest.rows) \cup {r.id}
    BY <1>1 DEF RowIds
  <1> HIDE DEF rest
  <1>5. QED
    BY <1>1, <1>3, <1>4 DEF Marking, rest

\* The loop closes a row the price reaches.
LEMMA CloseRowFits ==
    ASSUME EngineInv, NEW s \in Symbols, NEW price \in Prices,
           NEW x \in Transactions, Closing(x), Marking(x, s, price),
           NEW r \in x.rows, ExitHit(r.pos, price)
    PROVE  Marking(CloseRow([x EXCEPT !.rows = @ \ {r}], r.id, r.pos, price,
                            ExitReason(r.pos, price)), s, price)
  <1> DEFINE y == CloseRow([x EXCEPT !.rows = @ \ {r}], r.id, r.pos, price,
                           ExitReason(r.pos, price))
             n == NewTrade(r.id, r.pos, price, ExitReason(r.pos, price))
             p == book[r.id]
  <1>1. /\ y.rows = x.rows \ {r} /\ y.wipe = x.wipe
        /\ y.deposit = x.deposit /\ y.insert = x.insert
        /\ y.marks = x.marks /\ y.price = x.price
        /\ y.deleted = x.deleted \cup {r.id} /\ y.closed = Append(x.closed, n)
        /\ y.pnl = x.pnl + Pnl(r.pos, price)
        /\ y.credit = x.credit + r.pos.margin + Pnl(r.pos, price)
    BY DEF Transactions, CloseRow
  <1>2. /\ r.id \in OnSymbol(book, s) /\ r.pos = Marked(p, s, price)
        /\ r.id \in DOMAIN book /\ p \in Positions /\ r.id \in Ids
    BY BookFinite DEF Marking, OnSymbol, EngineInv, TypeOK
  <1>3. /\ r.pos.margin = p.margin /\ Pnl(r.pos, price) = Pnl(p, price)
        /\ ExitHit(p, price) /\ n = AutoTrade(r.id, price)
    BY <1>2, MarkedRow DEF AutoTrade
  <1>4. r.id \in Hit(s, price)
    BY <1>2, <1>3 DEF Hit
  <1>5. RowIds(x.rows) \subseteq RowIds(y.rows) \cup {r.id}
    BY <1>1 DEF RowIds
  <1>6. x.closed \in Seq(Trades) /\ n \in Trades /\ n.pnl = Pnl(p, price)
    <2>1. r.pos \in Positions
      BY <1>2, MarkedType
    <2>2. n \in Trades /\ n.pnl = Pnl(r.pos, price)
      BY <1>2, <2>1, NewTradeType, ExitReasonType DEF NewTrade
    <2>3. QED
      BY <1>3, <2>2 DEF Transactions
  <1> HIDE DEF n
  <1>7. Elements(y.closed) = Elements(x.closed) \cup {n}
    BY ZenonT(40), <1>1, <1>6, ElementsAppend
  <1>8. SumPnl(y.closed) = SumPnl(x.closed) + Pnl(p, price)
    BY <1>1, <1>6, SumPnlAppend
  <1>9. r.id \notin x.deleted /\ x.deleted \subseteq DOMAIN book
    BY DEF Closing, RowIds
  <1>10. Margins(book, y.deleted) = Margins(book, x.deleted) + p.margin
    <2>1. IsFiniteSet(x.deleted)
      BY <1>9, BookFinite, FS_Subset
    <2>2. \A i \in x.deleted \cup {r.id} : book[i].margin \in Nat
      BY <1>2, <1>9, BookFinite
    <2>3. Margins(book, x.deleted \cup {r.id}) = Margins(book, x.deleted) + p.margin
      BY <1>9, <2>1, <2>2, MarginsWith
    <2>4. QED
      BY <1>1, <2>3
  <1>11. /\ x.pnl \in Int /\ x.credit \in Int /\ Pnl(p, price) \in Int
         /\ p.margin \in Int /\ Margins(book, x.deleted) \in Int
    <2>1. p.margin \in Nat /\ Pnl(p, price) \in Int
      BY <1>2, PnlType, PositionFields
    <2>2. IsFiniteSet(x.deleted) /\ \A i \in x.deleted : book[i].margin \in Nat
      BY <1>9, BookFinite, FS_Subset
    <2>3. Margins(book, x.deleted) \in Int
      BY <2>2, MarginsSummable
    <2>4. x.pnl \in Int /\ x.credit \in Int
      BY DEF Transactions
    <2> HIDE DEF p
    <2>5. QED
      BY <2>1, <2>3, <2>4
  <1> HIDE DEF y, p
  <1>12. y.pnl = SumPnl(y.closed)
    BY <1>1, <1>3, <1>8 DEF Marking
  <1>13. y.credit = y.pnl + Margins(book, y.deleted)
    BY <1>1, <1>3, <1>10, <1>11 DEF Marking
  <1>14. Elements(y.closed) = {AutoTrade(i, price) : i \in y.deleted}
    BY <1>1, <1>3, <1>7 DEF Marking
  <1>15. /\ ~y.wipe /\ y.deposit = 0 /\ y.insert = {}
         /\ y.marks = {s} /\ y.price = price
         /\ \A q \in y.rows : q.id \in OnSymbol(book, s)
                               /\ q.pos = Marked(book[q.id], s, price)
         /\ y.deleted \subseteq Hit(s, price)
         /\ Hit(s, price) \subseteq y.deleted \cup RowIds(y.rows)
    BY <1>1, <1>4, <1>5 DEF Marking
  <1>16. Marking(y, s, price)
    BY <1>12, <1>13, <1>14, <1>15 DEF Marking
  <1>17. QED
    BY <1>16 DEF y

\* A turn of the loop leaves its transaction fitting.
LEMMA MarkRowFits ==
    ASSUME AccountInv, NEW t \in Threads, MarkRow(t) PROVE StatementsFit'
  <1> DEFINE x == tx[t]
             r == CHOOSE r \in x.rows : \A q \in x.rows : r.id <= q.id
             rest == [x EXCEPT !.rows = @ \ {r}]
             y == IF ExitHit(r.pos, x.price)
                  THEN CloseRow(rest, r.id, r.pos, x.price, ExitReason(r.pos, x.price))
                  ELSE rest
  <1>1. /\ x \in Transactions /\ x.active /\ x.rows # {} /\ x.rows \in SUBSET Rows
        /\ Closing(x) /\ RequestOf(x)
    BY DEF MarkRow, AccountInv, EngineInv, TypeOK, TxInv, Transactions, StatementsFit
  <1>2. r \in x.rows
    BY <1>1, LeastRow
  <1>3. tx' = [tx EXCEPT ![t] = y]
        /\ UNCHANGED <<cash, book, trades>>
    BY DEF MarkRow
  <1>4. /\ tx'[t] = y
        /\ \A u \in Threads \ {t} : ~tx'[u].active
    BY <1>1, <1>3, EngineAssumption DEF AccountInv, EngineInv, TypeOK, LockInv
  <1> HIDE DEF x, r
  <1>5. PICK s \in Symbols, price \in Prices : Marking(x, s, price)
    <2>1. ASSUME Wiping(x) \/ ToppingUp(x) \/ Opening(x) PROVE FALSE
      <3>1. \A b : WipeTx(b).rows = {} /\ TopUpTx(b).rows = {}
        BY StartedFields DEF WipeTx, TopUpTx, Transactions
      <3>2. \A i, q : OpenTx(i, q).rows = {}
        BY StartedFields DEF OpenTx, Transactions
      <3>3. QED
        BY <1>1, <2>1, <3>1, <3>2 DEF Wiping, ToppingUp, Opening
    <2>2. ASSUME ClosingOne(x) PROVE FALSE
      <3>1. PICK i, p, w, f : x = CloseRow(Started, i, p, w, f)
        BY <2>2 DEF ClosingOne
      <3>2. CloseRow(Started, i, p, w, f).rows = {}
        BY StartedFields DEF CloseRow, Transactions
      <3>3. QED
        BY <1>1, <3>1, <3>2
    <2>3. QED
      BY <1>1, <2>1, <2>2 DEF RequestOf
  <1>6. x.price = price
    BY <1>5 DEF Marking
  <1>7. Marking(y, s, price)
    <2>1. EngineInv
      BY DEF AccountInv
    <2>2. CASE ExitHit(r.pos, price)
      <3>1. Marking(CloseRow(rest, r.id, r.pos, price, ExitReason(r.pos, price)), s, price)
        BY <1>1, <1>2, <1>5, <2>1, <2>2, CloseRowFits
      <3>2. QED
        BY <1>6, <2>2, <3>1
    <2>3. CASE ~ExitHit(r.pos, price)
      <3>1. Marking(rest, s, price)
        BY <1>1, <1>2, <1>5, <2>1, <2>3, LeaveRowFits
      <3>2. QED
        BY <1>6, <2>3, <3>1
    <2>4. QED
      BY <2>2, <2>3
  <1>8. RequestOf(tx[t])'
    <2>1. PICK z : z = y
      OBVIOUS
    <2>2. RequestOf(z)
      BY <1>7, <2>1 DEF RequestOf
    <2> HIDE DEF y
    <2>3. QED
      BY <1>3, <1>4, <2>1, <2>2, StillFits
  <1> HIDE DEF y
  <1>9. QED
    BY <1>4, <1>8 DEF StatementsFit

(***************************************************************************)
(* What a commit does to the account: the request's effect, at one         *)
(* instant.                                                                *)
(***************************************************************************)
Wiped(b) ==
    /\ deposited' = b /\ cash' = b /\ realized' = 0
    /\ book' = NoBook /\ trades' = <<>>

ToppedUp(a) ==
    /\ deposited' = deposited + a /\ cash' = cash + a
    /\ UNCHANGED <<realized, book, trades>>

ClosedOne(i, price, r) ==
    /\ cash' = cash + book[i].margin + Pnl(book[i], price)
    /\ realized' = realized + Pnl(book[i], price)
    /\ book' = [j \in DOMAIN book \ {i} |-> book[j]]
    /\ trades' = Append(trades, NewTrade(i, book[i], price, r))
    /\ UNCHANGED deposited

Opened(i, o, price) ==
    /\ i \notin DOMAIN book \cup ClosedIds
    /\ Admitted(o, price)
    /\ cash' = cash - NewPosition(o, price).margin
    /\ book' = [j \in DOMAIN book \cup {i} |->
                   IF j = i THEN NewPosition(o, price) ELSE book[j]]
    /\ UNCHANGED <<deposited, realized, trades>>

MarkedRows(gone, s, price) ==
    [j \in DOMAIN book \ gone |-> Marked(book[j], s, price)]

MarkedAll(s, price) ==
    \E c \in Seq(Trades) :
        /\ Elements(c) = {AutoTrade(i, price) : i \in Hit(s, price)}
        /\ cash' = cash + SumPnl(c) + Margins(book, Hit(s, price))
        /\ realized' = realized + SumPnl(c)
        /\ book' = MarkedRows(Hit(s, price), s, price)
        /\ trades' = trades \o c
        /\ UNCHANGED deposited

Effect ==
    \/ \E b \in Balances : Wiped(b)
    \/ \E a \in TopUps : ToppedUp(a)
    \/ \E i \in DOMAIN book, price \in Prices, r \in Reasons : ClosedOne(i, price, r)
    \/ \E i \in Ids, o \in Orders, price \in Prices : Opened(i, o, price)
    \/ \E s \in Symbols, price \in Prices : MarkedAll(s, price)

\* The statements a reset, a top-up and a new position issue.
LEMMA PlainTx ==
    /\ \A b : /\ WipeTx(b).wipe /\ WipeTx(b).deposit = b /\ WipeTx(b).credit = b
              /\ WipeTx(b).insert = {}
    /\ \A a : /\ ~TopUpTx(a).wipe /\ TopUpTx(a).deposit = a /\ TopUpTx(a).credit = a
              /\ TopUpTx(a).pnl = 0 /\ TopUpTx(a).closed = <<>>
              /\ TopUpTx(a).insert = {} /\ TopUpTx(a).deleted = {}
              /\ TopUpTx(a).marks = {}
    /\ \A i, p : /\ ~OpenTx(i, p).wipe /\ OpenTx(i, p).deposit = 0
                 /\ OpenTx(i, p).credit = - p.margin
                 /\ OpenTx(i, p).pnl = 0 /\ OpenTx(i, p).closed = <<>>
                 /\ OpenTx(i, p).insert = {Row(i, p)}
                 /\ OpenTx(i, p).deleted = {} /\ OpenTx(i, p).marks = {}
  BY StartedFields DEF WipeTx, TopUpTx, OpenTx, Transactions

\* A commit that only deletes keeps the other rows as they are.
LEMMA BookAfterDeletes ==
    ASSUME EngineInv, NEW x, ~x.wipe, x.insert = {}, x.marks = {}
    PROVE  BookAfter(x) = [j \in DOMAIN book \ x.deleted |-> book[j]]
  <1>1. RowIds(x.insert) = {} /\ Kept(x) = DOMAIN book \ x.deleted
    BY DEF RowIds, Kept
  <1>2. \A j \in DOMAIN book : [book[j] EXCEPT !.last = @] = book[j]
    BY BookFinite DEF Positions
  <1>3. QED
    BY <1>1, <1>2 DEF BookAfter

\* A commit of a reset empties the book.
LEMMA BookAfterWipe ==
    ASSUME NEW x, x.wipe, x.insert = {}
    PROVE  BookAfter(x) = NoBook
  <1>1. RowIds(x.insert) = {} /\ Kept(x) = {}
    BY DEF RowIds, Kept
  <1>2. QED
    BY <1>1 DEF BookAfter, NoBook

\* A commit of a new position adds its row.
LEMMA BookAfterOpen ==
    ASSUME EngineInv, NEW i, i \notin DOMAIN book, NEW p
    PROVE  BookAfter(OpenTx(i, p)) =
              [j \in DOMAIN book \cup {i} |-> IF j = i THEN p ELSE book[j]]
  <1> DEFINE x == OpenTx(i, p)
  <1>1. /\ ~x.wipe /\ x.insert = {Row(i, p)} /\ x.deleted = {} /\ x.marks = {}
    BY PlainTx
  <1>2. RowIds(x.insert) = {i} /\ (CHOOSE r \in x.insert : r.id = i).pos = p
    BY <1>1 DEF RowIds, Row
  <1> HIDE DEF x
  <1>3. Kept(x) = DOMAIN book
    BY <1>1 DEF Kept
  <1>4. \A j \in DOMAIN book : [book[j] EXCEPT !.last = @] = book[j]
    BY BookFinite DEF Positions
  <1>5. QED
    BY <1>1, <1>2, <1>3, <1>4 DEF BookAfter, x

\* A commit of a quote marks the rows it keeps.
LEMMA BookAfterMarks ==
    ASSUME EngineInv, NEW s, NEW price, NEW x,
           ~x.wipe, x.insert = {}, x.marks = {s}, x.price = price
    PROVE  BookAfter(x) = MarkedRows(x.deleted, s, price)
  <1>1. RowIds(x.insert) = {} /\ Kept(x) = DOMAIN book \ x.deleted
    BY DEF RowIds, Kept
  <1>2. \A j \in DOMAIN book :
           [book[j] EXCEPT !.last = IF book[j].symbol \in x.marks THEN x.price ELSE @]
               = Marked(book[j], s, price)
    BY BookFinite DEF Positions, Marked
  <1>3. QED
    BY <1>1, <1>2 DEF BookAfter, MarkedRows

\* Every commit has the effect of one request.
LEMMA CommitEffect ==
    ASSUME AccountInv, NEW t \in Threads, Commit(t) PROVE Effect
  <1>1. EngineInv
    BY DEF AccountInv
  <1>2. PICK x : x = tx[t]
    OBVIOUS
  <1>3. /\ x \in Transactions /\ Closing(x) /\ RequestOf(x) /\ x.rows = {}
    BY <1>1, <1>2 DEF Commit, AccountInv, EngineInv, TypeOK, TxInv, StatementsFit
  <1>4. /\ deposited' = IF x.wipe THEN x.deposit ELSE deposited + x.deposit
        /\ cash' = IF x.wipe THEN x.credit ELSE cash + x.credit
        /\ realized' = IF x.wipe THEN 0 ELSE realized + x.pnl
        /\ book' = BookAfter(x)
        /\ trades' = IF x.wipe THEN <<>> ELSE trades \o x.closed
    BY <1>2 DEF Commit
  <1>5. /\ deposited \in Nat /\ cash \in Int /\ realized \in Int
        /\ trades \in Seq(Trades)
        /\ book = [j \in DOMAIN book |-> book[j]]
    BY <1>1 DEF EngineInv, TypeOK
  <1>6. CASE Wiping(x)
    <2>1. PICK b \in Balances : x = WipeTx(b)
      BY <1>6 DEF Wiping
    <2>2. x.wipe /\ x.deposit = b /\ x.credit = b /\ x.insert = {}
      BY <2>1, PlainTx
    <2>3. BookAfter(x) = NoBook
      BY <2>2, BookAfterWipe
    <2>4. Wiped(b)
      BY <1>4, <2>2, <2>3 DEF Wiped
    <2>5. QED
      BY <2>4 DEF Effect
  <1>7. CASE ToppingUp(x)
    <2>1. PICK a \in TopUps : x = TopUpTx(a)
      BY <1>7 DEF ToppingUp
    <2>2. /\ ~x.wipe /\ x.deposit = a /\ x.credit = a /\ x.pnl = 0
          /\ x.closed = <<>> /\ x.insert = {} /\ x.deleted = {} /\ x.marks = {}
      BY <2>1, PlainTx
    <2>3. BookAfter(x) = [j \in DOMAIN book \ x.deleted |-> book[j]]
      BY <1>1, <2>2, BookAfterDeletes
    <2>4. BookAfter(x) = book
      BY <1>5, <2>2, <2>3
    <2>5. trades \o x.closed = trades
      BY <1>5, <2>2
    <2>6. ToppedUp(a)
      BY <1>4, <1>5, <2>2, <2>4, <2>5 DEF ToppedUp
    <2>7. QED
      BY <2>6 DEF Effect
  <1>8. CASE ClosingOne(x)
    <2>1. PICK i \in DOMAIN book, price \in Prices, r \in Reasons :
                x = CloseRow(Started, i, book[i], price, r)
      BY <1>8 DEF ClosingOne
    <2>2. PICK n : n = NewTrade(i, book[i], price, r)
      OBVIOUS
    <2>3. /\ ~x.wipe /\ x.deposit = 0 /\ x.insert = {} /\ x.marks = {}
          /\ x.deleted = {i} /\ x.closed = <<n>> /\ x.pnl = Pnl(book[i], price)
          /\ x.credit = book[i].margin + Pnl(book[i], price)
      <3>1. book[i] \in Positions
        BY <1>1, BookFinite
      <3>2. Pnl(book[i], price) \in Int /\ book[i].margin \in Int
        BY <3>1, PnlType, PositionFields
      <3>3. /\ ~x.wipe /\ x.deposit = 0 /\ x.insert = {} /\ x.marks = {}
            /\ x.deleted = {} \cup {i} /\ x.closed = Append(<<>>, n)
            /\ x.pnl = 0 + Pnl(book[i], price)
            /\ x.credit = 0 + book[i].margin + Pnl(book[i], price)
        BY <2>1, <2>2, StartedFields DEF CloseRow, Transactions
      <3>4. QED
        BY <3>2, <3>3
    <2>4. BookAfter(x) = [j \in DOMAIN book \ {i} |-> book[j]]
      BY <1>1, <2>3, BookAfterDeletes
    <2>5. trades \o x.closed = Append(trades, n)
      BY <1>5, <2>3
    <2>6. Pnl(book[i], price) \in Int /\ book[i].margin \in Int
      BY <1>1, BookFinite, PnlType
    <2>7. ClosedOne(i, price, r)
      BY <1>4, <1>5, <2>2, <2>3, <2>4, <2>5, <2>6 DEF ClosedOne
    <2>8. QED
      BY <2>7 DEF Effect
  <1>9. CASE Opening(x)
    <2>1. PICK i \in Ids \ (DOMAIN book \cup ClosedIds), o \in Orders, price \in Prices :
                Admitted(o, price) /\ x = OpenTx(i, NewPosition(o, price))
      BY <1>9 DEF Opening
    <2>2. /\ ~x.wipe /\ x.deposit = 0 /\ x.pnl = 0 /\ x.closed = <<>>
          /\ x.credit = - NewPosition(o, price).margin
      BY <2>1, PlainTx
    <2>3. BookAfter(x) = [j \in DOMAIN book \cup {i} |->
                              IF j = i THEN NewPosition(o, price) ELSE book[j]]
      BY <1>1, <2>1, BookAfterOpen
    <2>4. trades \o x.closed = trades
      BY <1>5, <2>2
    <2>5. NewPosition(o, price).margin \in Int
      BY NewPositionType, PositionFields
    <2>6. Opened(i, o, price)
      BY <1>4, <1>5, <2>1, <2>2, <2>3, <2>4, <2>5 DEF Opened
    <2>7. QED
      BY <2>1, <2>6 DEF Effect
  <1>10. CASE \E s \in Symbols, price \in Prices : Marking(x, s, price)
    <2>1. PICK s \in Symbols, price \in Prices : Marking(x, s, price)
      BY <1>10
    <2>2. RowIds(x.rows) = {}
      BY <1>3 DEF RowIds
    <2>3. /\ ~x.wipe /\ x.deposit = 0 /\ x.insert = {} /\ x.marks = {s}
          /\ x.price = price /\ x.deleted = Hit(s, price)
          /\ Elements(x.closed) = {AutoTrade(i, price) : i \in Hit(s, price)}
          /\ x.pnl = SumPnl(x.closed)
          /\ x.credit = x.pnl + Margins(book, Hit(s, price))
      <3>1. x.deleted = Hit(s, price)
        BY <2>1, <2>2 DEF Marking
      <3>2. /\ {AutoTrade(i, price) : i \in x.deleted}
                  = {AutoTrade(i, price) : i \in Hit(s, price)}
            /\ Margins(book, x.deleted) = Margins(book, Hit(s, price))
        BY <3>1, Zenon
      <3>3. /\ ~x.wipe /\ x.deposit = 0 /\ x.insert = {} /\ x.marks = {s}
            /\ x.price = price /\ x.pnl = SumPnl(x.closed)
            /\ Elements(x.closed) = {AutoTrade(i, price) : i \in x.deleted}
            /\ x.credit = x.pnl + Margins(book, x.deleted)
        BY <2>1 DEF Marking
      <3>4. QED
        BY <3>1, <3>2, <3>3
    <2>4. BookAfter(x) = MarkedRows(Hit(s, price), s, price)
      <3>1. BookAfter(x) = MarkedRows(x.deleted, s, price)
        BY <1>1, <2>3, BookAfterMarks
      <3>2. QED
        BY <2>3, <3>1
    <2>5. x.closed \in Seq(Trades) /\ x.credit \in Int /\ x.pnl \in Int
      BY <1>3 DEF Transactions
    <2>6. Margins(book, Hit(s, price)) \in Int
      <3>1. Hit(s, price) \subseteq DOMAIN book
        BY DEF Hit, OnSymbol
      <3>2. IsFiniteSet(Hit(s, price)) /\ \A i \in Hit(s, price) : book[i].margin \in Nat
        BY <1>1, <3>1, BookFinite, FS_Subset
      <3>3. QED
        BY <3>2, MarginsSummable
    <2>7. cash' = cash + SumPnl(x.closed) + Margins(book, Hit(s, price))
      BY <1>4, <1>5, <2>3, <2>5, <2>6
    <2>8. MarkedAll(s, price)
      <3>1. /\ Elements(x.closed) = {AutoTrade(i, price) : i \in Hit(s, price)}
            /\ book' = MarkedRows(Hit(s, price), s, price)
            /\ trades' = trades \o x.closed
        BY <1>4, <2>3, <2>4
      <3>2. realized' = realized + SumPnl(x.closed) /\ deposited' = deposited
        BY <1>4, <1>5, <2>3
      <3>3. QED
        BY <2>5, <2>7, <3>1, <3>2 DEF MarkedAll
    <2>9. QED
      BY <2>8 DEF Effect
  <1>11. QED
    BY <1>3, <1>6, <1>7, <1>8, <1>9, <1>10 DEF RequestOf

(***************************************************************************)
(* Money: each effect keeps the balance.                                   *)
(***************************************************************************)
\* Margins depend on the rows' margins only.
LEMMA MarginsAgree ==
    ASSUME NEW b, NEW c, NEW ids, \A i \in ids : b[i].margin = c[i].margin
    PROVE  Margins(b, ids) = Margins(c, ids)
  <1>1. [i \in ids |-> b[i].margin] = [i \in ids |-> c[i].margin]
    OBVIOUS
  <1>2. QED
    BY <1>1 DEF Margins

\* What is reserved is an integer, and so is every sum of the balance.
LEMMA MoneyTypes ==
    ASSUME AccountInv
    PROVE  /\ deposited \in Int /\ cash \in Int /\ realized \in Int
           /\ Margins(book, DOMAIN book) \in Int
           /\ SumPnl(trades) \in Int
           /\ cash + Margins(book, DOMAIN book) = deposited + realized
           /\ realized = SumPnl(trades)
  <1>1. EngineInv /\ TypeOK
    BY DEF AccountInv, EngineInv
  <1>2. deposited \in Int /\ cash \in Int /\ realized \in Int /\ trades \in Seq(Trades)
    BY <1>1 DEF TypeOK
  <1>3. Margins(book, DOMAIN book) \in Int
    BY <1>1, BookFinite, MarginsSummable
  <1>4. SumPnl(trades) \in Int
    BY <1>2, SumPnlType
  <1>5. Reserved(book) = Margins(book, DOMAIN book)
    BY DEF Reserved, Margins
  <1>6. QED
    BY <1>2, <1>3, <1>4, <1>5 DEF AccountInv, MoneyConserved

\* The effect of a request keeps the balance.
LEMMA EffectConserves ==
    ASSUME AccountInv, Effect
    PROVE  /\ cash' + Margins(book', DOMAIN book') = deposited' + realized'
           /\ realized' = SumPnl(trades')
  <1> DEFINE D == DOMAIN book
             Goal == /\ cash' + Margins(book', DOMAIN book') = deposited' + realized'
                     /\ realized' = SumPnl(trades')
  <1>1. /\ EngineInv /\ IsFiniteSet(D)
        /\ \A i \in D : book[i] \in Positions /\ book[i].margin \in Nat
        /\ trades \in Seq(Trades)
    BY BookFinite DEF AccountInv, EngineInv, TypeOK
  <1>2. /\ deposited \in Int /\ cash \in Int /\ realized \in Int
        /\ Margins(book, D) \in Int /\ SumPnl(trades) \in Int
        /\ cash + Margins(book, D) = deposited + realized
        /\ realized = SumPnl(trades)
    BY MoneyTypes
  <1>3. ASSUME NEW b \in Balances, Wiped(b) PROVE Goal
    <2>1. deposited' = b /\ cash' = b /\ realized' = 0 /\ book' = NoBook /\ trades' = <<>>
      BY <1>3 DEF Wiped
    <2>2. DOMAIN book' = {}
      BY <2>1 DEF NoBook
    <2>3. Margins(book', DOMAIN book') = 0
      BY <2>2, SumEmpty DEF Margins
    <2>4. SumPnl(trades') = 0
      BY <2>1, SumEmpty DEF SumPnl
    <2>5. b \in Int
      BY EngineAssumption
    <2>6. QED
      BY <2>1, <2>3, <2>4, <2>5
  <1>4. ASSUME NEW a \in TopUps, ToppedUp(a) PROVE Goal
    <2>1. a \in Int
      BY EngineAssumption
    <2>2. /\ deposited' = deposited + a /\ cash' = cash + a
          /\ realized' = realized /\ book' = book /\ trades' = trades
      BY <1>4 DEF ToppedUp
    <2>3. Margins(book', DOMAIN book') = Margins(book, D) /\ SumPnl(trades') = SumPnl(trades)
      BY <2>2
    <2>4. QED
      BY <1>2, <2>1, <2>2, <2>3
  <1>5. ASSUME NEW i \in D, NEW price \in Prices, NEW r \in Reasons, ClosedOne(i, price, r)
        PROVE  Goal
    <2>1. PICK n : n = NewTrade(i, book[i], price, r)
      OBVIOUS
    <2>2. /\ cash' = cash + book[i].margin + Pnl(book[i], price)
          /\ realized' = realized + Pnl(book[i], price)
          /\ book' = [j \in D \ {i} |-> book[j]]
          /\ trades' = Append(trades, n) /\ deposited' = deposited
      BY <1>5, <2>1 DEF ClosedOne
    <2>3. book[i].margin \in Int /\ Pnl(book[i], price) \in Int
      BY <1>1, PnlType
    <2>4. n \in Trades /\ n.pnl = Pnl(book[i], price)
      <3>1. i \in Ids
        BY <1>1 DEF EngineInv, TypeOK
      <3>2. QED
        BY <1>1, <2>1, <3>1, NewTradeType DEF NewTrade
    <2>5. SumPnl(trades') = SumPnl(trades) + Pnl(book[i], price)
      BY <1>1, <2>2, <2>4, SumPnlAppend
    <2>6. Margins(book', DOMAIN book') = Margins(book, D \ {i})
      <3>1. DOMAIN book' = D \ {i}
        BY <2>2
      <3>2. \A j \in D \ {i} : book'[j].margin = book[j].margin
        BY <2>2
      <3>3. QED
        BY <3>1, <3>2, MarginsAgree
    <2>7. Margins(book, D) = Margins(book, D \ {i}) + book[i].margin
      <3>1. IsFiniteSet(D \ {i}) /\ (D \ {i}) \cup {i} = D
        BY <1>1, FS_Subset
      <3>2. \A j \in (D \ {i}) \cup {i} : book[j].margin \in Nat
        BY <1>1
      <3> HIDE DEF D
      <3>3. Margins(book, (D \ {i}) \cup {i}) = Margins(book, D \ {i}) + book[i].margin
        BY <3>1, <3>2, MarginsWith
      <3>4. QED
        BY <3>1, <3>3
    <2>8. Margins(book, D \ {i}) \in Int
      BY <1>1, FS_Subset, MarginsSummable
    <2>9. realized' = SumPnl(trades')
      BY <1>2, <2>2, <2>5
    <2>10. Margins(book', DOMAIN book') = Margins(book, D) - book[i].margin
      BY <2>3, <2>6, <2>7, <2>8
    <2> HIDE DEF D
    <2>11. /\ cash' = cash + book[i].margin + Pnl(book[i], price)
           /\ realized' = realized + Pnl(book[i], price) /\ deposited' = deposited
      BY <2>2
    <2>12. cash' + Margins(book', DOMAIN book') = deposited' + realized'
      BY <1>2, <2>3, <2>10, <2>11
    <2>13. QED
      BY <2>9, <2>12
  <1>6. ASSUME NEW i \in Ids, NEW o \in Orders, NEW price \in Prices, Opened(i, o, price)
        PROVE  Goal
    <2>1. PICK p : p = NewPosition(o, price)
      OBVIOUS
    <2>2. /\ i \notin D /\ cash' = cash - p.margin
          /\ book' = [j \in D \cup {i} |-> IF j = i THEN p ELSE book[j]]
          /\ deposited' = deposited /\ realized' = realized /\ trades' = trades
      BY <1>6, <2>1 DEF Opened
    <2>3. p.margin \in Nat
      BY <2>1, NewPositionType, PositionFields
    <2>4. /\ DOMAIN book' = D \cup {i} /\ book'[i] = p
          /\ \A j \in D : book'[j] = book[j]
      BY <2>2
    <2>5. Margins(book', D \cup {i}) = Margins(book', D) + p.margin
      <3>1. \A j \in D \cup {i} : book'[j].margin \in Nat
        BY <1>1, <2>3, <2>4
      <3> HIDE DEF D
      <3>2. QED
        BY <1>1, <2>2, <2>4, <3>1, MarginsWith
    <2>6. Margins(book', D) = Margins(book, D)
      BY <2>4, MarginsAgree
    <2>7. SumPnl(trades') = SumPnl(trades)
      BY <2>2
    <2>8. Margins(book', DOMAIN book') = Margins(book, D) + p.margin
      BY <2>4, <2>5, <2>6
    <2> HIDE DEF D
    <2>9. QED
      BY <1>2, <2>2, <2>3, <2>7, <2>8
  <1>7. ASSUME NEW s \in Symbols, NEW price \in Prices, MarkedAll(s, price)
        PROVE  Goal
    <2>1. PICK H : H = Hit(s, price)
      OBVIOUS
    <2>2. PICK c \in Seq(Trades) :
              /\ cash' = cash + SumPnl(c) + Margins(book, H)
              /\ realized' = realized + SumPnl(c)
              /\ book' = MarkedRows(H, s, price)
              /\ trades' = trades \o c
              /\ deposited' = deposited
      BY <1>7, <2>1 DEF MarkedAll
    <2>3. H \subseteq D
      BY <2>1 DEF Hit, OnSymbol
    <2>4. DOMAIN book' = D \ H /\ \A j \in D \ H : book'[j].margin = book[j].margin
      <3>1. DOMAIN book' = D \ H /\ \A j \in D \ H : book'[j] = Marked(book[j], s, price)
        BY <2>2 DEF MarkedRows
      <3>2. QED
        BY <1>1, <3>1, MarkedRow
    <2>5. Margins(book', DOMAIN book') = Margins(book, D \ H)
      BY <2>4, MarginsAgree
    <2>6. Margins(book, D) = Margins(book, D \ H) + Margins(book, H)
      <3>1. SplitsInto(D, D \ H, H)
        BY <2>3 DEF SplitsInto
      <3>2. QED
        BY <1>1, <3>1, MarginsSplit
    <2>7. SumPnl(trades') = SumPnl(trades) + SumPnl(c) /\ SumPnl(c) \in Int
      BY <1>1, <2>2, SumPnlConcat, SumPnlType
    <2>8. Margins(book, D \ H) \in Int /\ Margins(book, H) \in Int
      <3>1. IsFiniteSet(D \ H) /\ IsFiniteSet(H)
        BY <1>1, <2>3, FS_Subset
      <3>2. QED
        BY <1>1, <2>3, <3>1, MarginsSummable
    <2>9. realized' = SumPnl(trades')
      BY <1>2, <2>2, <2>7
    <2>10. Margins(book', DOMAIN book') = Margins(book, D) - Margins(book, H)
      BY <2>5, <2>6, <2>8
    <2> HIDE DEF D
    <2>11. /\ cash' = cash + SumPnl(c) + Margins(book, H)
           /\ realized' = realized + SumPnl(c) /\ deposited' = deposited
      BY <2>2
    <2>12. SumPnl(c) \in Int /\ Margins(book, H) \in Int
      BY <2>7, <2>8
    <2>13. /\ deposited \in Int /\ cash \in Int /\ realized \in Int
           /\ Margins(book, D) \in Int
           /\ cash + Margins(book, D) = deposited + realized
      BY <1>2
    <2>14. cash' + Margins(book', DOMAIN book') = deposited' + realized'
      BY SMTT(20), <2>10, <2>11, <2>12, <2>13
    <2>15. QED
      BY <2>9, <2>14
  <1>8. QED
    BY <1>3, <1>4, <1>5, <1>6, <1>7 DEF Effect

\* Every step that is not a commit leaves the money where it is, except that
\* the first start pays in.
LEMMA QuietMoney ==
    ASSUME AccountInv, [Next]_vars, ~\E t \in Threads : Commit(t)
    PROVE  \/ UNCHANGED <<account, deposited, cash, realized, book, trades>>
           \/ \E b \in Balances : Start(b)
  <1>1. ASSUME NEW t \in Threads, Request(t)
        PROVE  UNCHANGED <<account, deposited, cash, realized, book, trades>>
    BY <1>1 DEF Request, Reset, AddBalance, ClosePosition, PlaceLimit, Quote,
                PlaceMarket, RefuseMarket, PlaceOrder, CloseOpposite, OpenNew,
                Enter
  <1>2. ASSUME NEW t \in Threads, MarkRow(t) \/ Rollback(t)
        PROVE  UNCHANGED <<account, deposited, cash, realized, book, trades>>
    BY <1>2 DEF MarkRow, Rollback
  <1>3. Crash => UNCHANGED <<account, deposited, cash, realized, book, trades>>
    BY DEF Crash
  <1>4. UNCHANGED vars => UNCHANGED <<account, deposited, cash, realized, book, trades>>
    BY DEF vars
  <1>5. QED
    BY <1>1, <1>2, <1>3, <1>4 DEF Next

(***************************************************************************)
(* The stronger invariant, and what follows from it.                       *)
(***************************************************************************)
\* Initially nothing is open, and the account is empty.
LEMMA AccountInit == Init => AccountInv
  <1> SUFFICES ASSUME Init PROVE AccountInv
    OBVIOUS
  <1>1. EngineInv
    BY EngineInit
  <1>2. StatementsFit
    BY DEF Init, StatementsFit, NoTx
  <1>3. /\ deposited = 0 /\ cash = 0 /\ realized = 0 /\ book = NoBook /\ trades = <<>>
    BY DEF Init
  <1>4. DOMAIN book = {} /\ DOMAIN trades = {}
    BY <1>3 DEF NoBook
  <1>5. Reserved(book) = 0 /\ SumPnl(trades) = 0
    BY <1>4, SumEmpty DEF Reserved, SumPnl
  <1>6. MoneyConserved
    BY <1>3, <1>5 DEF MoneyConserved
  <1>7. QED
    BY <1>1, <1>2, <1>3, <1>6 DEF AccountInv, Unopened

\* Every step leaves only transactions whose statements fit.
LEMMA FitsNext ==
    ASSUME AccountInv, [Next]_vars PROVE StatementsFit'
  <1>1. CASE \E t \in Threads : Request(t)
    BY <1>1, RequestFits
  <1>2. CASE \E t \in Threads : MarkRow(t)
    BY <1>2, MarkRowFits
  <1>3. ASSUME NEW t \in Threads, Commit(t) \/ Rollback(t) PROVE StatementsFit'
    <2>1. tx' = [tx EXCEPT ![t] = NoTx] /\ tx[t].active
      BY <1>3 DEF Commit, Rollback
    <2>2. \A u \in Threads : ~tx'[u].active
      BY <2>1 DEF AccountInv, EngineInv, TypeOK, LockInv, NoTx
    <2>3. QED
      BY <2>2 DEF StatementsFit
  <1>4. CASE Crash
    BY <1>4 DEF Crash, StatementsFit, NoTx
  <1>5. CASE \E b \in Balances : Start(b)
    <2>1. ~up /\ tx' = tx
      BY <1>5 DEF Start
    <2>2. \A u \in Threads : ~tx'[u].active
      BY <2>1 DEF AccountInv, EngineInv, LockInv
    <2>3. QED
      BY <2>2 DEF StatementsFit
  <1>6. CASE UNCHANGED vars
    <2>1. UNCHANGED <<cash, book, trades>> /\ tx' = tx
      BY <1>6 DEF vars
    <2>2. ASSUME NEW u \in Threads, tx'[u].active PROVE RequestOf(tx[u])'
      <3>1. PICK x : x = tx[u] /\ RequestOf(x)
        BY <2>1, <2>2 DEF AccountInv, StatementsFit
      <3>2. QED
        BY <2>1, <3>1, StillFits
    <2>3. QED
      BY <2>2 DEF StatementsFit
  <1>7. QED
    BY <1>1, <1>2, <1>3, <1>4, <1>5, <1>6 DEF Next

\* Every step keeps the balance.
LEMMA MoneyNext ==
    ASSUME AccountInv, [Next]_vars PROVE MoneyConserved' /\ Unopened'
  <1>1. CASE \E t \in Threads : Commit(t)
    <2>1. PICK t \in Threads : Commit(t)
      BY <1>1
    <2>2. /\ cash' + Margins(book', DOMAIN book') = deposited' + realized'
          /\ realized' = SumPnl(trades')
      BY <2>1, CommitEffect, EffectConserves
    <2>3. MoneyConserved'
      BY <2>2 DEF MoneyConserved, Reserved, Margins
    <2>4. account'
      <3>1. account' = account /\ tx[t].active
        BY <2>1 DEF Commit
      <3>2. QED
        BY <3>1 DEF AccountInv, EngineInv, LockInv
    <2>5. QED
      BY <2>3, <2>4 DEF Unopened
  <1>2. CASE ~\E t \in Threads : Commit(t)
    <2>1. CASE UNCHANGED <<account, deposited, cash, realized, book, trades>>
      BY <2>1 DEF AccountInv, MoneyConserved, Unopened, Reserved
    <2>2. ASSUME NEW b \in Balances, Start(b) PROVE MoneyConserved' /\ Unopened'
      <3>1. /\ account' /\ deposited' = IF account THEN deposited ELSE b
            /\ cash' = IF account THEN cash ELSE b
            /\ realized' = realized /\ book' = book /\ trades' = trades
        BY <2>2 DEF Start
      <3>2. Unopened'
        BY <3>1 DEF Unopened
      <3>3. Reserved(book') = Reserved(book) /\ SumPnl(trades') = SumPnl(trades)
        BY <3>1
      <3>4. CASE account
        BY <3>1, <3>2, <3>3, <3>4 DEF AccountInv, MoneyConserved
      <3>5. CASE ~account
        <4>1. deposited = 0 /\ cash = 0 /\ realized = 0 /\ book = NoBook
              /\ MoneyConserved
          BY <3>5 DEF AccountInv, Unopened
        <4>2. b \in Int
          BY EngineAssumption
        <4>3. Reserved(book) = 0
          <5>1. DOMAIN book = {}
            BY <4>1 DEF NoBook
          <5>2. QED
            BY <5>1, SumEmpty DEF Reserved
        <4>4. QED
          BY <3>1, <3>2, <3>3, <3>5, <4>1, <4>2, <4>3 DEF MoneyConserved
      <3>6. QED
        BY <3>4, <3>5
    <2>3. QED
      BY <1>2, <2>1, <2>2, QuietMoney
  <1>3. QED
    BY <1>1, <1>2

\* Every step preserves the stronger invariant.
LEMMA AccountNext == AccountInv /\ [Next]_vars => AccountInv'
  <1> SUFFICES ASSUME AccountInv, [Next]_vars PROVE AccountInv'
    OBVIOUS
  <1>1. EngineInv'
    BY EngineNext DEF AccountInv
  <1>2. QED
    BY <1>1, FitsNext, MoneyNext DEF AccountInv

\* In every run the statements of the open transaction are those of one
\* request, computed from the rows the database still holds.
THEOREM AccountInvariant == Spec => []AccountInv
  BY AccountInit, AccountNext, PTL DEF Spec

\* Money is neither made nor lost: cash plus margins is deposits plus realized
\* P&L, and the realized P&L is the sum of the history.
THEOREM MoneyIsConserved == Spec => []MoneyConserved
  <1>1. AccountInv => MoneyConserved
    BY DEF AccountInv
  <1>2. QED
    BY <1>1, AccountInvariant, PTL

\* A price leaves no position open behind the stop or target it reaches.
THEOREM ExitsAreEnforced == Spec => ExitsEnforced
  <1> DEFINE A == \A i \in DOMAIN book \cap DOMAIN book' :
                    book'[i].last # book[i].last => ~ExitHit(book'[i], book'[i].last)
  <1>1. ASSUME AccountInv, [Next]_vars PROVE [A]_vars
    <2>1. CASE \E t \in Threads : Commit(t)
      <3>1. Effect
        BY <1>1, <2>1, CommitEffect
      <3>2. ASSUME NEW b \in Balances, Wiped(b) PROVE A
        BY <3>2 DEF Wiped, NoBook
      <3>3. ASSUME NEW a \in TopUps, ToppedUp(a) PROVE A
        BY <3>3 DEF ToppedUp
      <3>4. ASSUME NEW i \in DOMAIN book, NEW price \in Prices, NEW r \in Reasons,
                   ClosedOne(i, price, r)
            PROVE  A
        BY <3>4 DEF ClosedOne
      <3>5. ASSUME NEW i \in Ids, NEW o \in Orders, NEW price \in Prices,
                   Opened(i, o, price)
            PROVE  A
        BY <3>5 DEF Opened
      <3>6. ASSUME NEW s \in Symbols, NEW price \in Prices, MarkedAll(s, price)
            PROVE  A
        <4>1. book' = MarkedRows(Hit(s, price), s, price)
          BY <3>6 DEF MarkedAll
        <4>2. ASSUME NEW i \in DOMAIN book \cap DOMAIN book',
                     book'[i].last # book[i].last
              PROVE  ~ExitHit(book'[i], book'[i].last)
          <5>1. i \in DOMAIN book \ Hit(s, price) /\ book'[i] = Marked(book[i], s, price)
            BY <4>1 DEF MarkedRows
          <5>2. book[i] \in Positions
            BY <1>1, BookFinite DEF AccountInv
          <5>3. book[i].symbol = s /\ book'[i].last = price
            BY <4>2, <5>1, <5>2 DEF Marked, Positions
          <5>4. ~ExitHit(book[i], price)
            BY <5>1, <5>3 DEF Hit, OnSymbol
          <5>5. QED
            BY <5>1, <5>2, <5>3, <5>4, MarkedRow
        <4>3. QED
          BY <4>2
      <3>7. QED
        BY <3>1, <3>2, <3>3, <3>4, <3>5, <3>6 DEF Effect
    <2>2. CASE ~\E t \in Threads : Commit(t)
      <3>1. EngineInv
        BY <1>1 DEF AccountInv
      <3>2. QED
        BY <1>1, <2>2, <3>1, OnlyCommitsWrite
    <2>3. QED
      BY <2>1, <2>2
  <1>2. QED
    BY <1>1, AccountInvariant, PTL DEF Spec, ExitsEnforced

(***************************************************************************)
(* The engine implements the abstract account.                             *)
(***************************************************************************)
\* The abstract account computes with the same operators.
LEMMA SameOperators ==
    /\ Account!NoBook = NoBook
    /\ \A f : Account!SumFunction(f) = SumFunction(f)
    /\ \A o, price : Account!NewPosition(o, price) = NewPosition(o, price)
    /\ \A i, p, price, r : Account!NewTrade(i, p, price, r) = NewTrade(i, p, price, r)
    /\ \A b, o : Account!Opposite(b, o) = Opposite(b, o)
    /\ \A b, s : Account!OnSymbol(b, s) = OnSymbol(b, s)
    /\ \A p, price : Account!ExitHit(p, price) = ExitHit(p, price)
    /\ \A p, price : Account!ExitReason(p, price) = ExitReason(p, price)
    /\ \A p, s, price : Account!Marked(p, s, price) = Marked(p, s, price)
    /\ Account!Reasons = Reasons
  <1>1. Account!NoBook = NoBook
    BY DEF NoBook, Account!NoBook
  <1>2. \A f : Account!SumFunction(f) = SumFunction(f)
    BY DEF SumFunction, SumFunctionOnSet, FoldFunctionOnSet, MapThenFoldSet,
           Account!SumFunction, Account!SumFunctionOnSet,
           Account!FoldFunctionOnSet, Account!MapThenFoldSet
  <1>3. \A o, price : Account!NewPosition(o, price) = NewPosition(o, price)
    BY DEF NewPosition, MarginRequired, Account!NewPosition, Account!MarginRequired
  <1>4. \A i, p, price, r : Account!NewTrade(i, p, price, r) = NewTrade(i, p, price, r)
    BY DEF NewTrade, Pnl, Account!NewTrade, Account!Pnl
  <1>5. /\ \A b, o : Account!Opposite(b, o) = Opposite(b, o)
        /\ \A b, s : Account!OnSymbol(b, s) = OnSymbol(b, s)
    BY DEF Opposite, OnSymbol, Account!Opposite, Account!OnSymbol
  <1>6. /\ \A p, price : Account!StopHit(p, price) = StopHit(p, price)
        /\ \A p, l, price : Account!TargetHit(p, l, price) = TargetHit(p, l, price)
    BY DEF StopHit, TargetHit, Account!StopHit, Account!TargetHit
  <1>7. /\ \A p, price : Account!ExitHit(p, price) = ExitHit(p, price)
        /\ \A p, price : Account!ExitReason(p, price) = ExitReason(p, price)
    BY <1>6 DEF ExitHit, ExitReason, Account!ExitHit, Account!ExitReason
  <1>8. \A p, s, price : Account!Marked(p, s, price) = Marked(p, s, price)
    BY DEF Marked, Account!Marked
  <1>9. Account!Reasons = Reasons
    BY DEF Reasons, Account!Reasons
  <1>10. QED
    BY <1>1, <1>2, <1>3, <1>4, <1>5, <1>7, <1>8, <1>9

\* One history after another.
LEMMA ElementsConcat ==
    ASSUME NEW a \in Seq(Trades), NEW b \in Seq(Trades)
    PROVE  Elements(a \o b) = Elements(a) \cup Elements(b)
  <1>1. /\ Len(a) \in Nat /\ Len(b) \in Nat
        /\ DOMAIN a = 1 .. Len(a) /\ DOMAIN b = 1 .. Len(b)
        /\ DOMAIN (a \o b) = 1 .. (Len(a) + Len(b))
    <2>1. a \o b \in Seq(Trades) /\ Len(a \o b) = Len(a) + Len(b)
      OBVIOUS
    <2>2. DOMAIN (a \o b) = 1 .. Len(a \o b)
      BY <2>1
    <2>3. QED
      BY <2>1, <2>2
  <1>2. /\ \A k \in DOMAIN a : k \in DOMAIN (a \o b) /\ (a \o b)[k] = a[k]
        /\ \A k \in DOMAIN b : /\ Len(a) + k \in DOMAIN (a \o b)
                               /\ (a \o b)[Len(a) + k] = b[k]
    <2>1. ASSUME NEW k \in DOMAIN a
          PROVE  k \in DOMAIN (a \o b) /\ (a \o b)[k] = a[k]
      BY <1>1
    <2>2. ASSUME NEW k \in DOMAIN b
          PROVE  Len(a) + k \in DOMAIN (a \o b) /\ (a \o b)[Len(a) + k] = b[k]
      BY <1>1
    <2>3. QED
      BY <2>1, <2>2
  <1>3. ASSUME NEW k \in DOMAIN (a \o b)
        PROVE  \/ k \in DOMAIN a /\ (a \o b)[k] = a[k]
               \/ k - Len(a) \in DOMAIN b /\ (a \o b)[k] = b[k - Len(a)]
    <2>1. k \in 1 .. (Len(a) + Len(b))
      BY <1>1
    <2>2. CASE k <= Len(a)
      BY <1>1, <2>1, <2>2
    <2>3. CASE ~(k <= Len(a))
      BY <1>1, <2>1, <2>3
    <2>4. QED
      BY <2>2, <2>3
  <1>4. Elements(a \o b) \subseteq Elements(a) \cup Elements(b)
    BY <1>3 DEF Elements
  <1>5. Elements(a) \cup Elements(b) \subseteq Elements(a \o b)
    BY <1>2 DEF Elements
  <1>6. QED
    BY <1>4, <1>5

\* The sum over the set of trades is the sum over the history: no trade
\* occurs twice.
LEMMA TotalIsSum ==
    ASSUME EngineInv
    PROVE  Account!TotalPnl(ClosedTrades) = SumPnl(trades)
  <1> DEFINE D == DOMAIN trades
             e == [k \in DOMAIN trades |-> trades[k].pnl]
             f == [n \in ClosedTrades |-> n.pnl]
  <1>1. trades \in Seq(Trades) /\ \A j, k \in D : trades[j].id = trades[k].id => j = k
    BY DEF EngineInv, TypeOK, ClosedOnce
  <1>2. \A n \in ClosedTrades : n \in Trades
    BY <1>1 DEF ClosedTrades, Elements
  <1>3. f \in [ClosedTrades -> Int]
    BY <1>2, TradePnl
  <1>4. Summable(e, D)
    <2>1. e \in [D -> Int]
      BY <1>1, TradePnl
    <2>2. D = 1 .. Len(trades) /\ Len(trades) \in Nat /\ IsFiniteSet(1 .. Len(trades))
      BY <1>1, FS_Interval
    <2>3. QED
      BY <2>1, <2>2 DEF Summable
  <1>5. Renumbers(trades, D, ClosedTrades, e, f)
    <2>1. {trades[k] : k \in D} = ClosedTrades
      BY DEF ClosedTrades, Elements
    <2>2. \A k \in D : e[k] = f[trades[k]]
      BY <2>1
    <2>3. QED
      BY <1>1, <2>1, <2>2 DEF Renumbers
  <1>6. Account!TotalPnl(ClosedTrades) = SumFunction(f)
    BY SameOperators DEF Account!TotalPnl
  <1>7. SumPnl(trades) = SumFunction(e)
    BY DEF SumPnl
  <1> HIDE DEF e, f, D
  <1>8. SumFunction(e) = SumFunction(f)
    BY <1>3, <1>4, <1>5, SumImage
  <1>9. QED
    BY <1>6, <1>7, <1>8

\* The cash the engine stores is the cash the abstract account computes.
LEMMA SpendableIsCash ==
    ASSUME AccountInv
    PROVE  Account!Spendable = cash
  <1>1. Account!TotalPnl(ClosedTrades) = SumPnl(trades)
    BY TotalIsSum DEF AccountInv
  <1>2. Account!Reserved(book) = Margins(book, DOMAIN book)
    BY SameOperators DEF Account!Reserved, Margins
  <1>3. Account!Spendable = deposited + SumPnl(trades) - Margins(book, DOMAIN book)
    BY <1>1, <1>2 DEF Account!Spendable
  <1>4. QED
    BY <1>3, MoneyTypes

\* Initially the engine is an account that was never created.
LEMMA AccountStarts == Init => Account!Init
  <1>1. Elements(<<>>) = {}
    BY DEF Elements
  <1>2. QED
    BY <1>1, SameOperators DEF Init, Account!Init, ClosedTrades

\* The effect of a request is a step of the abstract account.
LEMMA EffectImplements ==
    ASSUME AccountInv, Effect, account, UNCHANGED account
    PROVE  Account!Next
  <1>1. trades \in Seq(Trades) /\ EngineInv
    BY DEF AccountInv, EngineInv, TypeOK
  <1>2. ASSUME NEW b \in Balances, Wiped(b) PROVE Account!Next
    <2>1. ClosedTrades' = {}
      BY <1>2 DEF Wiped, ClosedTrades, Elements
    <2>2. Account!Reset(b)
      BY <1>2, <2>1, SameOperators DEF Wiped, Account!Reset
    <2>3. QED
      BY <2>2 DEF Account!Next
  <1>3. ASSUME NEW a \in TopUps, ToppedUp(a) PROVE Account!Next
    <2>1. ClosedTrades' = ClosedTrades
      BY <1>3 DEF ToppedUp, ClosedTrades
    <2>2. Account!TopUp(a)
      BY <1>3, <2>1 DEF ToppedUp, Account!TopUp
    <2>3. QED
      BY <2>2 DEF Account!Next
  <1>4. ASSUME NEW i \in DOMAIN book, NEW price \in Prices, NEW r \in Reasons,
               ClosedOne(i, price, r)
        PROVE  Account!Next
    <2>1. PICK n : n = NewTrade(i, book[i], price, r)
      OBVIOUS
    <2>2. trades' = Append(trades, n)
      BY <1>4, <2>1 DEF ClosedOne
    <2>3. ClosedTrades' = ClosedTrades \cup {n}
      BY <1>1, <2>2, ElementsAppend DEF ClosedTrades
    <2>4. Account!Close(i, price, r)
      BY <1>4, <2>1, <2>3, SameOperators DEF ClosedOne, Account!Close
    <2>5. QED
      BY <2>4, SameOperators DEF Account!Next
  <1>5. ASSUME NEW i \in Ids, NEW o \in Orders, NEW price \in Prices, Opened(i, o, price)
        PROVE  Account!Next
    <2>1. /\ i \notin DOMAIN book \cup ClosedIds
          /\ Opposite(book, o) = {} /\ ~DeliveryShort(o)
          /\ cash >= NewPosition(o, price).margin
          /\ book' = [j \in DOMAIN book \cup {i} |->
                         IF j = i THEN NewPosition(o, price) ELSE book[j]]
          /\ deposited' = deposited /\ trades' = trades
      BY <1>5 DEF Opened, Admitted
    <2>2. Account!TradedIds = ClosedIds
      BY DEF Account!TradedIds, ClosedTrades, ClosedIds, Elements
    <2>3. ClosedTrades' = ClosedTrades
      BY <2>1 DEF ClosedTrades
    <2>4. NewPosition(o, price).margin <= Account!Spendable
      <3>1. NewPosition(o, price).margin \in Int /\ cash \in Int
        BY NewPositionType, PositionFields, MoneyTypes
      <3>2. QED
        BY <2>1, <3>1, SpendableIsCash
    <2>5. Account!Open(i, o, price)
      BY <2>1, <2>2, <2>3, <2>4, SameOperators DEF Account!Open, DeliveryShort
    <2>6. QED
      BY <2>5 DEF Account!Next
  <1>6. ASSUME NEW s \in Symbols, NEW price \in Prices, MarkedAll(s, price)
        PROVE  Account!Next
    <2>1. PICK H : H = Hit(s, price)
      OBVIOUS
    <2>2. PICK c \in Seq(Trades) :
              /\ Elements(c) = {AutoTrade(i, price) : i \in H}
              /\ book' = MarkedRows(H, s, price)
              /\ trades' = trades \o c
              /\ deposited' = deposited
      BY <1>6, <2>1 DEF MarkedAll
    <2>3. H = {i \in Account!OnSymbol(book, s) : Account!ExitHit(book[i], price)}
      BY <2>1, SameOperators DEF Hit
    <2>4. ClosedTrades' = ClosedTrades \cup {AutoTrade(i, price) : i \in H}
      BY <1>1, <2>2, ElementsConcat DEF ClosedTrades
    <2>5. {AutoTrade(i, price) : i \in H}
             = {Account!NewTrade(i, book[i], price, Account!ExitReason(book[i], price)) :
                   i \in H}
      BY SameOperators DEF AutoTrade
    <2>6. book' = [j \in DOMAIN book \ H |-> Account!Marked(book[j], s, price)]
      BY <2>2, SameOperators DEF MarkedRows
    <2>7. Account!Mark(s, price)
      BY <2>2, <2>3, <2>4, <2>5, <2>6 DEF Account!Mark
    <2>8. QED
      BY <2>7 DEF Account!Next
  <1>7. QED
    BY <1>2, <1>3, <1>4, <1>5, <1>6 DEF Effect

\* Every step of the engine is a step of the abstract account or leaves it
\* as it is.
LEMMA StepImplements ==
    ASSUME AccountInv, [Next]_vars
    PROVE  Account!Next \/ UNCHANGED Account!avars
  <1>1. CASE \E t \in Threads : Commit(t)
    <2>1. PICK t \in Threads : Commit(t)
      BY <1>1
    <2>2. account /\ account' = account
      <3>1. account' = account /\ tx[t].active
        BY <2>1 DEF Commit
      <3>2. QED
        BY <3>1 DEF AccountInv, EngineInv, LockInv
    <2>3. QED
      BY <2>1, <2>2, CommitEffect, EffectImplements
  <1>2. CASE ~\E t \in Threads : Commit(t)
    <2>1. CASE UNCHANGED <<account, deposited, cash, realized, book, trades>>
      BY <2>1 DEF Account!avars, ClosedTrades
    <2>2. ASSUME NEW b \in Balances, Start(b)
          PROVE  Account!Next \/ UNCHANGED Account!avars
      <3>1. /\ account' = TRUE /\ deposited' = IF account THEN deposited ELSE b
            /\ book' = book /\ ClosedTrades' = ClosedTrades
        BY <2>2 DEF Start, ClosedTrades
      <3>2. account \in BOOLEAN
        BY DEF AccountInv, EngineInv, TypeOK
      <3>3. CASE account
        BY <3>1, <3>2, <3>3 DEF Account!avars
      <3>4. CASE ~account
        BY <3>1, <3>4 DEF Account!Create, Account!Next
      <3>5. QED
        BY <3>3, <3>4
    <2>3. QED
      BY <1>2, <2>1, <2>2, QuietMoney
  <1>3. QED
    BY <1>1, <1>2

\* The engine, with its threads, locks, transactions and crashes, implements
\* the account whose operations are atomic and whose cash is computed.
THEOREM EngineImplementsAccount == Spec => ImplementsAccount
  <1>1. AccountInv /\ [Next]_vars => [Account!Next]_(Account!avars)
    BY StepImplements
  <1>2. QED
    BY <1>1, AccountInvariant, AccountStarts, PTL DEF Spec, ImplementsAccount, Account!Spec
=============================================================================
