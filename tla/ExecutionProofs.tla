-------------------------- MODULE ExecutionProofs --------------------------
(***************************************************************************)
(* The broker-neutral order layer and the fill simulator, for any signals, *)
(* markets, policy, schedules, books and requests; the signal engines, for *)
(* any panel of gates, models, time frames and histories; the portfolios,  *)
(* the measures of risk and the strategies under one capital; the closed   *)
(* trades, the ensemble's backtest, the gate for a model and the catalog.  *)
(*                                                                         *)
(* Positions are what was applied of each order: the part the broker       *)
(* filled that no report still under way accounts for.  From the one side  *)
(* this bounds a position by the orders behind it, each of which kept its  *)
(* share of the day; from the other, what is not applied is what           *)
(* reconciliation finds.  A schedule is a list of quantities that add up   *)
(* to the order, of which the empty ones are dropped; a fill takes from    *)
(* the levels in their order, so that it pays between the first and the    *)
(* last of those it may touch.                                             *)
(*                                                                         *)
(* A live signal is worked out again with every frame turned upside down.  *)
(* The report's loop keeps the highest sum so far and the deepest fall.  A *)
(* trade of the final engine has nothing against it, and each piece of     *)
(* evidence taken away is something; what the models believe and what the  *)
(* mirrored ones do add up to the whole, before and after rounding.        *)
(*                                                                         *)
(* An approved portfolio is one with no reason against it, for any limits, *)
(* candidates and holdings; what is bought, and what each strategy gets,   *)
(* are quotients rounded down, so they stay within what is divided.  A     *)
(* decision is compared with the one its opponents took no part in.        *)
(*                                                                         *)
(* What closed trades came to is summed by parts: up to a trade, the       *)
(* winners, those of a symbol or day.  The longest run of losses is looked *)
(* for backwards from each trade.  A trial ends at the first candle that   *)
(* touches a level, the same one whatever follows; and of five adapters    *)
(* at most one can be against a purchase and none is for a sale.           *)
(***************************************************************************)
EXTENDS MCExecutionDesk, SumLemmas, SequenceTheorems, FunctionTheorems

(***************************************************************************)
(* The orders, what the broker filled of them, and the reports under way.  *)
(***************************************************************************)
Instruments == {s.instrument : s \in Approved}

Orders  == [instrument : Instruments, side : {"BUY", "SELL"}, quantity : Nat, limit : Int]
Reports == [id : Nat, quantity : Nat]

\* Reports about order k that are under way.
OwedOf(s, k) == [j \in DOMAIN s.owed |-> IF s.owed[j].id = k THEN s.owed[j].quantity ELSE 0]

\* What a quantity of order k is to a position in i.
Counted(b, k, i, q) == IF b.orders[k].instrument = i THEN Sign(b.orders[k].side) * q ELSE 0

\* By order: what was applied and what was filled; by report: what is late.
AppliedTo(b, s, i) ==
    [k \in DOMAIN b.orders |-> Counted(b, k, i, s.filled[k] - SumFunction(OwedOf(s, k)))]
FilledFor(b, s, i) == [k \in DOMAIN s.filled |-> Counted(b, k, i, s.filled[k])]
LateFor(b, s, i)   == [j \in DOMAIN s.owed |-> Counted(b, s.owed[j].id, i, s.owed[j].quantity)]

BooksTyped(b, s) ==
    /\ b \in [orders : Seq(Orders), positions : [Instruments -> Int]]
    /\ s \in [filled : Seq(Nat), owed : Seq(Reports), checked : Seq(Markets)]
    /\ Len(s.filled) = Len(b.orders) /\ Len(s.checked) = Len(b.orders)
    /\ \A j \in DOMAIN s.owed : s.owed[j].id \in DOMAIN b.orders

\* Each order was within the day's share and is filled at most whole; no report is about
\* more than was filled.
OrdersKept(b, s) ==
    \A k \in DOMAIN b.orders :
        /\ b.orders[k].quantity * Policy.rate[2] <= Policy.rate[1] * s.checked[k].volume
        /\ s.filled[k] <= b.orders[k].quantity
        /\ SumFunction(OwedOf(s, k)) <= s.filled[k]

\* Positions are what was applied, and what is late makes them what was filled.
PositionsAdd(b, s) ==
    \A i \in Instruments :
        /\ b.positions[i] = SumFunction(AppliedTo(b, s, i))
        /\ b.positions[i] + SumFunction(LateFor(b, s, i)) = SumFunction(FilledFor(b, s, i))

BooksOK(b, s) == BooksTyped(b, s) /\ OrdersKept(b, s) /\ PositionsAdd(b, s)

\* The schedule and the report are those of something that was asked for.
SlicesOK ==
    slices = None \/ \E a \in Schedules : Schedulable(a) /\ slices = [ask |-> a, children |-> Scheduled(a)]

FillOK ==
    fill = <<>> \/ \E r \in SimRequests : /\ r.quantity > 0 /\ r.reference > 0
                                          /\ fill = [request |-> r, report |-> Simulate(r)]

OrdersInv == BooksOK(book, sent) /\ SlicesOK /\ FillOK

-----------------------------------------------------------------------------
\* What a quantity counts for is a number, none where there is no quantity.
LEMMA CountedType ==
    ASSUME NEW b, NEW k, NEW i, NEW q \in Int
    PROVE  /\ Counted(b, k, i, q) \in Int
           /\ q = 0 => Counted(b, k, i, q) = 0
  <1>1. Sign(b.orders[k].side) = 1 \/ Sign(b.orders[k].side) = -1
    BY DEF Sign
  <1>2. QED
    BY <1>1 DEF Counted

\* What counts for a position adds up.
LEMMA CountedAdds ==
    ASSUME NEW b, NEW k, NEW i, NEW p \in Int, NEW q \in Int
    PROVE  Counted(b, k, i, p + q) = Counted(b, k, i, p) + Counted(b, k, i, q)
  <1>1. Sign(b.orders[k].side) = 1 \/ Sign(b.orders[k].side) = -1
    BY DEF Sign
  <1>2. QED
    BY <1>1 DEF Counted

\* What the invariant adds up are numbers, by order or by report.
LEMMA BooksSummable ==
    ASSUME NEW b, NEW s, BooksTyped(b, s)
    PROVE  /\ \A k : /\ OwedOf(s, k) \in [1 .. Len(s.owed) -> Nat]
                     /\ Summable(OwedOf(s, k), 1 .. Len(s.owed))
                     /\ SumFunction(OwedOf(s, k)) \in Nat
           /\ \A i : /\ AppliedTo(b, s, i) \in [1 .. Len(b.orders) -> Int]
                     /\ FilledFor(b, s, i) \in [1 .. Len(b.orders) -> Int]
                     /\ LateFor(b, s, i) \in [1 .. Len(s.owed) -> Int]
  <1>1. /\ DOMAIN b.orders = 1 .. Len(b.orders) /\ DOMAIN s.filled = 1 .. Len(b.orders)
        /\ DOMAIN s.owed = 1 .. Len(s.owed)
        /\ \A k \in 1 .. Len(b.orders) : s.filled[k] \in Nat
        /\ \A j \in 1 .. Len(s.owed) : s.owed[j].quantity \in Nat
    <2>1. /\ b.orders \in Seq(Orders) /\ s.filled \in Seq(Nat) /\ s.owed \in Seq(Reports)
          /\ Len(s.filled) = Len(b.orders)
      BY DEF BooksTyped
    <2>2. \A j \in 1 .. Len(s.owed) : s.owed[j] \in Reports
      BY <2>1
    <2>3. \A j \in 1 .. Len(s.owed) : s.owed[j].quantity \in Nat
      BY <2>2 DEF Reports
    <2>4. /\ DOMAIN b.orders = 1 .. Len(b.orders) /\ DOMAIN s.filled = 1 .. Len(b.orders)
          /\ DOMAIN s.owed = 1 .. Len(s.owed)
      BY <2>1
    <2>5. \A k \in 1 .. Len(b.orders) : s.filled[k] \in Nat
      BY <2>1
    <2>6. QED
      BY <2>3, <2>4, <2>5
  <1>2. ASSUME NEW k
        PROVE  /\ OwedOf(s, k) \in [1 .. Len(s.owed) -> Nat]
               /\ Summable(OwedOf(s, k), 1 .. Len(s.owed))
               /\ SumFunction(OwedOf(s, k)) \in Nat
    <2>1. OwedOf(s, k) \in [1 .. Len(s.owed) -> Nat]
      BY <1>1 DEF OwedOf
    <2>2. IsFiniteSet(1 .. Len(s.owed))
      <3>1. 1 \in Int /\ Len(s.owed) \in Int
        BY DEF BooksTyped
      <3>2. QED
        BY <3>1, FS_Interval
    <2>3. Summable(OwedOf(s, k), 1 .. Len(s.owed))
      BY <2>1, <2>2 DEF Summable
    <2>4. \A j \in 1 .. Len(s.owed) : OwedOf(s, k)[j] \in Nat
      BY <2>1
    <2>5. QED
      BY <2>1, <2>3, <2>4, SumIsNatural
  <1>3. ASSUME NEW i
        PROVE  /\ AppliedTo(b, s, i) \in [1 .. Len(b.orders) -> Int]
               /\ FilledFor(b, s, i) \in [1 .. Len(b.orders) -> Int]
               /\ LateFor(b, s, i) \in [1 .. Len(s.owed) -> Int]
    <2>1. \A k \in 1 .. Len(b.orders) : s.filled[k] - SumFunction(OwedOf(s, k)) \in Int
      BY <1>1, <1>2
    <2>2. \A k \in 1 .. Len(b.orders) :
            /\ Counted(b, k, i, s.filled[k] - SumFunction(OwedOf(s, k))) \in Int
            /\ s.filled[k] \in Int /\ Counted(b, k, i, s.filled[k]) \in Int
      BY <1>1, <2>1, CountedType
    <2>3. \A j \in 1 .. Len(s.owed) :
            s.owed[j].quantity \in Int /\ Counted(b, s.owed[j].id, i, s.owed[j].quantity) \in Int
      BY <1>1, CountedType
    <2>4. QED
      BY <1>1, <2>2, <2>3 DEF AppliedTo, FilledFor, LateFor
  <1>4. QED
    BY <1>2, <1>3

\* At first there is nothing.
LEMMA BooksStart ==
    ASSUME ExecutionInit
    PROVE  BooksOK(book, sent)
  <1>1. book.orders = <<>> /\ sent.owed = <<>> /\ sent.filled = <<>> /\ sent.checked = <<>>
    BY DEF ExecutionInit
  <1>2. book.positions = [i \in Instruments |-> 0]
    BY DEF ExecutionInit, Instruments
  <1>3. BooksTyped(book, sent)
    BY <1>1, <1>2 DEF ExecutionInit, BooksTyped, Instruments
  <1>4. OrdersKept(book, sent)
    BY <1>1 DEF OrdersKept
  <1>5. ASSUME NEW i \in Instruments
        PROVE  /\ SumFunction(AppliedTo(book, sent, i)) = 0
               /\ SumFunction(LateFor(book, sent, i)) = 0
               /\ SumFunction(FilledFor(book, sent, i)) = 0
    <2>1. DOMAIN AppliedTo(book, sent, i) = {} /\ DOMAIN LateFor(book, sent, i) = {}
          /\ DOMAIN FilledFor(book, sent, i) = {}
      BY <1>1 DEF AppliedTo, LateFor, FilledFor
    <2>2. QED
      BY <2>1, SumEmpty
  <1>6. PositionsAdd(book, sent)
    BY <1>2, <1>5 DEF PositionsAdd
  <1>7. QED
    BY <1>3, <1>4, <1>6 DEF BooksOK

\* An order is recorded: nothing of it is filled, nothing is owed.
LEMMA FiledKeeps ==
    ASSUME NEW b, NEW s, BooksOK(b, s), NEW o \in Orders, NEW m \in Markets,
           o.quantity * Policy.rate[2] <= Policy.rate[1] * m.volume,
           NEW t, t = [s EXCEPT !.filled = Append(@, 0), !.checked = Append(@, m)]
    PROVE  BooksOK(Filed(b, o), t)
  <1>1. PICK n \in Nat : n = Len(b.orders)
    BY DEF BooksOK, BooksTyped
  <1>2. PICK c : c = Filed(b, o)
    OBVIOUS
  <1>3. BooksTyped(b, s) /\ OrdersKept(b, s) /\ PositionsAdd(b, s)
    BY DEF BooksOK
  <1>4. /\ b.orders \in Seq(Orders) /\ s.filled \in Seq(Nat) /\ s.checked \in Seq(Markets)
        /\ Len(s.filled) = n /\ Len(s.checked) = n /\ s.owed \in Seq(Reports)
    BY <1>1, <1>3 DEF BooksTyped
  <1>5. /\ c.orders = Append(b.orders, o) /\ c.positions = b.positions /\ t.owed = s.owed
        /\ t.filled = Append(s.filled, 0) /\ t.checked = Append(s.checked, m)
        /\ c \in [orders : Seq(Orders), positions : [Instruments -> Int]]
        /\ t \in [filled : Seq(Nat), owed : Seq(Reports), checked : Seq(Markets)]
    <2>1. /\ b \in [orders : Seq(Orders), positions : [Instruments -> Int]]
          /\ s \in [filled : Seq(Nat), owed : Seq(Reports), checked : Seq(Markets)]
      BY <1>3 DEF BooksTyped
    <2>2. Append(b.orders, o) \in Seq(Orders) /\ Append(s.checked, m) \in Seq(Markets)
          /\ Append(s.filled, 0) \in Seq(Nat)
      BY <1>4
    <2>3. QED
      BY <1>2, <2>1, <2>2 DEF Filed
  <1>6. /\ Len(c.orders) = n + 1 /\ Len(t.filled) = n + 1 /\ Len(t.checked) = n + 1
        /\ c.orders[n + 1] = o /\ t.filled[n + 1] = 0 /\ t.checked[n + 1] = m
        /\ \A k \in 1 .. n : /\ c.orders[k] = b.orders[k] /\ t.filled[k] = s.filled[k]
                             /\ t.checked[k] = s.checked[k]
    <2>1. /\ Len(c.orders) = n + 1 /\ c.orders[n + 1] = o
          /\ \A k \in 1 .. n : c.orders[k] = b.orders[k]
      BY <1>1, <1>4, <1>5
    <2>2. /\ Len(t.filled) = n + 1 /\ t.filled[n + 1] = 0
          /\ \A k \in 1 .. n : t.filled[k] = s.filled[k]
      BY <1>4, <1>5
    <2>3. /\ Len(t.checked) = n + 1 /\ t.checked[n + 1] = m
          /\ \A k \in 1 .. n : t.checked[k] = s.checked[k]
      BY <1>4, <1>5
    <2>4. QED
      BY <2>1, <2>2, <2>3
  <1>7. \A j \in DOMAIN s.owed : s.owed[j].id \in 1 .. n
    BY <1>1, <1>3, <1>4 DEF BooksTyped
  <1>8. BooksTyped(c, t)
    BY <1>5, <1>6, <1>7 DEF BooksTyped
  <1>9. \A k : OwedOf(t, k) = OwedOf(s, k)
    BY <1>5 DEF OwedOf
  <1>10. SumFunction(OwedOf(s, n + 1)) = 0
    <2>1. \A j \in 1 .. Len(s.owed) : OwedOf(s, n + 1)[j] = 0
      BY <1>4, <1>7 DEF OwedOf
    <2>2. Summable(OwedOf(s, n + 1), 1 .. Len(s.owed))
      BY <1>3, BooksSummable
    <2>3. QED
      BY <2>1, <2>2, SumZeros
  <1>11. OrdersKept(c, t)
    <2>1. SUFFICES ASSUME NEW k \in 1 .. n + 1
                   PROVE  /\ c.orders[k].quantity * Policy.rate[2] <= Policy.rate[1] * t.checked[k].volume
                          /\ t.filled[k] <= c.orders[k].quantity
                          /\ SumFunction(OwedOf(s, k)) <= t.filled[k]
      <3>1. DOMAIN c.orders = 1 .. n + 1
        BY <1>5, <1>6
      <3>2. QED
        BY <1>9, <3>1 DEF OrdersKept
    <2>2. CASE k = n + 1
      BY <1>6, <1>10, <2>2 DEF Orders
    <2>3. CASE k \in 1 .. n
      <3>1. k \in DOMAIN b.orders
        BY <1>1, <1>4, <2>3
      <3>2. QED
        BY <1>3, <1>6, <2>3, <3>1 DEF OrdersKept
    <2>4. k = n + 1 \/ k \in 1 .. n
      OBVIOUS
    <2>5. QED
      BY <2>2, <2>3, <2>4, Zenon
  <1>12. PositionsAdd(c, t)
    <2>1. ASSUME NEW i \in Instruments
          PROVE  /\ c.positions[i] = SumFunction(AppliedTo(c, t, i))
                 /\ c.positions[i] + SumFunction(LateFor(c, t, i)) = SumFunction(FilledFor(c, t, i))
      <3>1. PICK f, g : f = AppliedTo(b, s, i) /\ g = AppliedTo(c, t, i)
        OBVIOUS
      <3>2. PICK d, e : d = FilledFor(b, s, i) /\ e = FilledFor(c, t, i)
        OBVIOUS
      <3>3. \A k \in 1 .. n : \A q : Counted(c, k, i, q) = Counted(b, k, i, q)
        BY <1>6 DEF Counted
      <3>4. Counted(c, n + 1, i, 0) = 0 /\ 0 - 0 = 0
        <4>1. 0 \in Int
          OBVIOUS
        <4>2. QED
          BY <4>1, CountedType
      <3>5. /\ f \in [1 .. n -> Int] /\ g \in [1 .. n + 1 -> Int]
            /\ d \in [1 .. n -> Int] /\ e \in [1 .. n + 1 -> Int]
        BY <1>1, <1>3, <1>6, <1>8, <3>1, <3>2, BooksSummable
      <3>6. /\ DOMAIN b.orders = 1 .. n /\ DOMAIN c.orders = 1 .. n + 1
            /\ DOMAIN s.filled = 1 .. n /\ DOMAIN t.filled = 1 .. n + 1
        BY <1>1, <1>4, <1>5, <1>6
      <3>7. (\A k \in 1 .. n : g[k] = f[k]) /\ g[n + 1] = 0
        <4>1. \A k \in 1 .. n : g[k] = f[k]
          BY <1>6, <1>9, <3>1, <3>3, <3>6 DEF AppliedTo
        <4>2. n + 1 \in 1 .. n + 1
          OBVIOUS
        <4>3. g[n + 1] = Counted(c, n + 1, i, 0 - 0)
          BY <1>6, <1>9, <1>10, <3>1, <3>6, <4>2 DEF AppliedTo
        <4>4. QED
          BY <3>4, <4>1, <4>3
      <3>8. (\A k \in 1 .. n : e[k] = d[k]) /\ e[n + 1] = 0
        <4>1. \A k \in 1 .. n : e[k] = d[k]
          BY <1>6, <3>2, <3>3, <3>6 DEF FilledFor
        <4>2. n + 1 \in 1 .. n + 1
          OBVIOUS
        <4>3. e[n + 1] = Counted(c, n + 1, i, 0)
          BY <1>6, <3>2, <3>6, <4>2 DEF FilledFor
        <4>4. QED
          BY <3>4, <4>1, <4>3
      <3>9. SumFunction(g) = SumFunction(f) + g[n + 1] /\ SumFunction(e) = SumFunction(d) + e[n + 1]
        BY <3>5, <3>7, <3>8, SumAppended
      <3>10. LateFor(c, t, i) = LateFor(b, s, i)
        BY <1>5, <1>7, <3>3 DEF LateFor
      <3>11. SumFunction(f) \in Int /\ SumFunction(d) \in Int
        <4>1. IsFiniteSet(1 .. n)
          BY FS_Interval
        <4>2. QED
          BY <3>5, <4>1, SumType DEF Summable
      <3>12. SumFunction(g) = SumFunction(f) /\ SumFunction(e) = SumFunction(d)
        BY <3>7, <3>8, <3>9, <3>11
      <3>13. QED
        BY <1>3, <1>5, <3>1, <3>2, <3>10, <3>12 DEF PositionsAdd
    <2>2. QED
      BY <2>1 DEF PositionsAdd
  <1>13. QED
    BY <1>2, <1>8, <1>11, <1>12 DEF BooksOK

\* The broker fills a part of an order: it is owed until its report comes.
PartFilled(b, s, id, q, t) ==
    /\ id \in DOMAIN b.orders /\ q \in 1 .. b.orders[id].quantity - s.filled[id]
    /\ t = [s EXCEPT !.filled[id] = @ + q, !.owed = Append(@, [id |-> id, quantity |-> q])]

LEMMA PartKeeps ==
    ASSUME NEW b, NEW s, BooksOK(b, s), NEW id, NEW q, NEW t, PartFilled(b, s, id, q, t)
    PROVE  BooksOK(b, t)
  <1>1. BooksTyped(b, s) /\ OrdersKept(b, s) /\ PositionsAdd(b, s)
    BY DEF BooksOK
  <1>2. PICK n \in Nat, l \in Nat : n = Len(b.orders) /\ l = Len(s.owed)
    BY <1>1 DEF BooksTyped
  <1>3. /\ b.orders \in Seq(Orders) /\ s.filled \in Seq(Nat) /\ s.checked \in Seq(Markets)
        /\ Len(s.filled) = n /\ Len(s.checked) = n /\ s.owed \in Seq(Reports)
        /\ s \in [filled : Seq(Nat), owed : Seq(Reports), checked : Seq(Markets)]
    BY <1>1, <1>2 DEF BooksTyped
  <1>4. DOMAIN b.orders = 1 .. n /\ DOMAIN s.filled = 1 .. n /\ DOMAIN s.owed = 1 .. l
    BY <1>2, <1>3
  <1>5. /\ id \in 1 .. n /\ id \in Nat /\ s.filled[id] \in Nat /\ b.orders[id] \in Orders
        /\ b.orders[id].quantity \in Nat
    <2>1. id \in 1 .. n
      BY <1>4 DEF PartFilled
    <2>2. b.orders[id] \in Orders /\ s.filled[id] \in Nat
      BY <1>3, <1>4, <2>1
    <2>3. QED
      BY <2>1, <2>2 DEF Orders
  <1>6. q \in Nat /\ s.filled[id] + q <= b.orders[id].quantity
    BY <1>5 DEF PartFilled
  <1>7. PICK r : r = [id |-> id, quantity |-> q]
    OBVIOUS
  <1>8. r \in Reports /\ r.id = id /\ r.quantity = q
    BY <1>5, <1>6, <1>7 DEF Reports
  <1>9. t.filled = [s.filled EXCEPT ![id] = @ + q] /\ t.owed = Append(s.owed, r)
        /\ t.checked = s.checked
        /\ t = [s EXCEPT !.filled = t.filled, !.owed = t.owed]
    BY <1>3, <1>7 DEF PartFilled
  <1>10. /\ t.filled \in Seq(Nat) /\ Len(t.filled) = n /\ t.filled[id] = s.filled[id] + q
         /\ \A k \in 1 .. n : k # id => t.filled[k] = s.filled[k]
    BY <1>3, <1>4, <1>5, <1>6, <1>9
  <1>11. /\ t.owed \in Seq(Reports) /\ Len(t.owed) = l + 1 /\ t.owed[l + 1] = r
         /\ \A j \in 1 .. l : t.owed[j] = s.owed[j]
    BY <1>2, <1>3, <1>8, <1>9
  <1>12. BooksTyped(b, t)
    <2>1. t \in [filled : Seq(Nat), owed : Seq(Reports), checked : Seq(Markets)]
      BY <1>3, <1>9, <1>10, <1>11
    <2>2. \A j \in DOMAIN t.owed : t.owed[j].id \in DOMAIN b.orders
      <3>1. SUFFICES ASSUME NEW j \in 1 .. l + 1 PROVE t.owed[j].id \in DOMAIN b.orders
        BY <1>11
      <3>2. CASE j = l + 1
        BY <1>4, <1>5, <1>8, <1>11, <3>2
      <3>3. CASE j \in 1 .. l
        BY <1>1, <1>4, <1>11, <3>3 DEF BooksTyped
      <3>4. QED
        BY <3>2, <3>3
    <2>3. QED
      BY <1>1, <1>2, <1>3, <1>9, <1>10, <2>1, <2>2 DEF BooksTyped
  <1>13. \A k : SumFunction(OwedOf(t, k)) = SumFunction(OwedOf(s, k)) + (IF k = id THEN q ELSE 0)
    <2>1. SUFFICES ASSUME NEW k
                   PROVE  SumFunction(OwedOf(t, k))
                            = SumFunction(OwedOf(s, k)) + (IF k = id THEN q ELSE 0)
      OBVIOUS
    <2>2. PICK f, g : f = OwedOf(s, k) /\ g = OwedOf(t, k)
      OBVIOUS
    <2>3. f \in [1 .. l -> Int] /\ g \in [1 .. l + 1 -> Int]
      BY <1>1, <1>2, <1>11, <1>12, <2>2, BooksSummable
    <2>4. DOMAIN t.owed = 1 .. l + 1
      BY <1>11
    <2>5. \A j \in 1 .. l : g[j] = f[j]
      BY <1>4, <1>11, <2>2, <2>4 DEF OwedOf
    <2>6. g[l + 1] = IF k = id THEN q ELSE 0
      BY <1>8, <1>11, <2>2, <2>4 DEF OwedOf
    <2>7. SumFunction(g) = SumFunction(f) + g[l + 1]
      BY <2>3, <2>5, SumAppended
    <2>8. QED
      BY <2>2, <2>6, <2>7
  <1>14. \A k : SumFunction(OwedOf(s, k)) \in Nat
    BY <1>1, BooksSummable
  <1>15. OrdersKept(b, t)
    <2>1. ASSUME NEW k \in DOMAIN b.orders
          PROVE  /\ t.filled[k] <= b.orders[k].quantity
                 /\ SumFunction(OwedOf(t, k)) <= t.filled[k]
      <3>1. s.filled[k] <= b.orders[k].quantity /\ SumFunction(OwedOf(s, k)) <= s.filled[k]
        BY <1>1 DEF OrdersKept
      <3>2. s.filled[k] \in Nat
        BY <1>3, <1>4
      <3>3. SumFunction(OwedOf(t, k)) = SumFunction(OwedOf(s, k)) + (IF k = id THEN q ELSE 0)
        BY <1>13
      <3>4. SumFunction(OwedOf(s, k)) \in Nat
        BY <1>14
      <3>5. CASE k = id
        BY <1>6, <1>10, <3>1, <3>2, <3>3, <3>4, <3>5
      <3>6. CASE k # id
        BY <1>4, <1>10, <3>1, <3>3, <3>4, <3>6
      <3>7. QED
        BY <3>5, <3>6
    <2>2. QED
      BY <1>1, <1>9, <2>1 DEF OrdersKept
  <1>16. ASSUME NEW i
         PROVE  /\ SumFunction(AppliedTo(b, t, i)) = SumFunction(AppliedTo(b, s, i))
                /\ SumFunction(LateFor(b, t, i)) = SumFunction(LateFor(b, s, i)) + Counted(b, id, i, q)
                /\ SumFunction(FilledFor(b, t, i)) = SumFunction(FilledFor(b, s, i)) + Counted(b, id, i, q)
    <2>1. \A k \in 1 .. n : t.filled[k] - SumFunction(OwedOf(t, k)) = s.filled[k] - SumFunction(OwedOf(s, k))
      <3>1. SUFFICES ASSUME NEW k \in 1 .. n
                     PROVE  t.filled[k] - SumFunction(OwedOf(t, k))
                              = s.filled[k] - SumFunction(OwedOf(s, k))
        OBVIOUS
      <3>2. /\ SumFunction(OwedOf(t, k)) = SumFunction(OwedOf(s, k)) + (IF k = id THEN q ELSE 0)
            /\ SumFunction(OwedOf(s, k)) \in Nat /\ s.filled[k] \in Nat
        BY <1>3, <1>4, <1>13, <1>14
      <3>3. CASE k = id
        BY <1>6, <1>10, <3>2, <3>3
      <3>4. CASE k # id
        BY <1>10, <3>2, <3>4
      <3>5. QED
        BY <3>3, <3>4
    <2>2. AppliedTo(b, t, i) = AppliedTo(b, s, i)
      BY <1>4, <2>1, Zenon DEF AppliedTo
    <2>3. PICK f, g : f = LateFor(b, s, i) /\ g = LateFor(b, t, i)
      OBVIOUS
    <2>4. f \in [1 .. l -> Int] /\ g \in [1 .. l + 1 -> Int]
      BY <1>1, <1>2, <1>11, <1>12, <2>3, BooksSummable
    <2>5. DOMAIN t.owed = 1 .. l + 1 /\ l + 1 \in 1 .. l + 1
      BY <1>11
    <2>6. (\A j \in 1 .. l : g[j] = f[j]) /\ g[l + 1] = Counted(b, id, i, q)
      BY <1>4, <1>8, <1>11, <2>3, <2>5 DEF LateFor
    <2>7. SumFunction(g) = SumFunction(f) + g[l + 1]
      BY <2>4, <2>6, SumAppended
    <2>8. PICK d, e : d = FilledFor(b, s, i) /\ e = FilledFor(b, t, i)
      OBVIOUS
    <2>9. d \in [1 .. n -> Int] /\ e \in [1 .. n -> Int]
      BY <1>1, <1>2, <1>12, <2>8, BooksSummable
    <2>10. IsFiniteSet(1 .. n)
      BY FS_Interval
    <2>11. DOMAIN t.filled = 1 .. n
      BY <1>10
    <2>12. /\ \A k \in (1 .. n) \ {id} : e[k] = d[k]
           /\ d[id] = Counted(b, id, i, s.filled[id]) /\ e[id] = Counted(b, id, i, s.filled[id] + q)
      BY <1>4, <1>5, <1>10, <2>8, <2>11 DEF FilledFor
    <2>13. Summable(d, 1 .. n) /\ Summable(e, 1 .. n) /\ Agree(d, e, (1 .. n) \ {id})
      BY <2>9, <2>10, <2>12 DEF Summable, Agree
    <2>14. SumFunction(e) = SumFunction(d) + (e[id] - d[id])
      BY <1>5, <2>13, SumReplaced
    <2>15. e[id] = d[id] + Counted(b, id, i, q) /\ Counted(b, id, i, q) \in Int /\ d[id] \in Int
      <3>1. PICK x \in Int, y \in Int : x = s.filled[id] /\ y = q
        BY <1>5, <1>6
      <3>2. Counted(b, id, i, x + y) = Counted(b, id, i, x) + Counted(b, id, i, y)
        BY CountedAdds
      <3>3. Counted(b, id, i, y) \in Int
        BY CountedType
      <3>4. QED
        BY <1>5, <2>9, <2>12, <3>1, <3>2, <3>3
    <2>16. e[id] - d[id] = Counted(b, id, i, q)
      BY <2>15
    <2>17. QED
      BY <2>2, <2>3, <2>6, <2>7, <2>8, <2>14, <2>16
  <1>17. PositionsAdd(b, t)
    <2>1. ASSUME NEW i \in Instruments
          PROVE  /\ b.positions[i] = SumFunction(AppliedTo(b, t, i))
                 /\ b.positions[i] + SumFunction(LateFor(b, t, i)) = SumFunction(FilledFor(b, t, i))
      <3>1. /\ b.positions[i] = SumFunction(AppliedTo(b, s, i))
            /\ b.positions[i] + SumFunction(LateFor(b, s, i)) = SumFunction(FilledFor(b, s, i))
        BY <1>1 DEF PositionsAdd
      <3>2. b.positions[i] \in Int /\ SumFunction(LateFor(b, s, i)) \in Int /\ Counted(b, id, i, q) \in Int
        <4>1. IsFiniteSet(1 .. l)
          BY FS_Interval
        <4>2. LateFor(b, s, i) \in [1 .. l -> Int]
          BY <1>1, <1>2, BooksSummable
        <4>3. SumFunction(LateFor(b, s, i)) \in Int
          BY <4>1, <4>2, SumType DEF Summable
        <4>4. QED
          BY <1>1, <1>6, <4>3, CountedType DEF BooksTyped
      <3>3. QED
        BY <1>16, <3>1, <3>2
    <2>2. QED
      BY <2>1 DEF PositionsAdd
  <1>18. QED
    BY <1>12, <1>15, <1>17 DEF BooksOK

\* A report is applied: the position takes what was owed.
Applied(b, s, j, c, t) ==
    /\ j \in DOMAIN s.owed
    /\ c = Filled(b, s.owed[j].id, s.owed[j].quantity)
    /\ t = [s EXCEPT !.owed = RemoveAt(@, j)]

LEMMA AppliedKeeps ==
    ASSUME NEW b, NEW s, BooksOK(b, s), NEW j, NEW c, NEW t, Applied(b, s, j, c, t)
    PROVE  BooksOK(c, t)
  <1>1. BooksTyped(b, s) /\ OrdersKept(b, s) /\ PositionsAdd(b, s)
    BY DEF BooksOK
  <1>2. PICK n \in Nat, l \in Nat : n = Len(b.orders) /\ l = Len(s.owed)
    BY <1>1 DEF BooksTyped
  <1>3. /\ b.orders \in Seq(Orders) /\ s.filled \in Seq(Nat) /\ s.checked \in Seq(Markets)
        /\ Len(s.filled) = n /\ Len(s.checked) = n /\ s.owed \in Seq(Reports)
        /\ s \in [filled : Seq(Nat), owed : Seq(Reports), checked : Seq(Markets)]
        /\ b \in [orders : Seq(Orders), positions : [Instruments -> Int]]
    BY <1>1, <1>2 DEF BooksTyped
  <1>4. DOMAIN b.orders = 1 .. n /\ DOMAIN s.filled = 1 .. n /\ DOMAIN s.owed = 1 .. l
    BY <1>2, <1>3
  <1>5. PICK id, q : id = s.owed[j].id /\ q = s.owed[j].quantity
    OBVIOUS
  <1>6. j \in 1 .. l /\ id \in 1 .. n /\ q \in Nat
    <2>1. j \in 1 .. l
      BY <1>4 DEF Applied
    <2>2. s.owed[j] \in Reports /\ id \in DOMAIN b.orders
      BY <1>1, <1>3, <1>4, <1>5, <2>1 DEF BooksTyped
    <2>3. QED
      BY <1>4, <1>5, <2>1, <2>2 DEF Reports
  <1>7. b.orders[id].instrument \in Instruments
    <2>1. b.orders[id] \in Orders
      BY <1>3, <1>4, <1>6
    <2>2. QED
      BY <2>1 DEF Orders
  <1>8. /\ c.orders = b.orders
        /\ \A i \in Instruments : c.positions[i] = b.positions[i] + Counted(b, id, i, q)
        /\ c \in [orders : Seq(Orders), positions : [Instruments -> Int]]
    <2>1. c = [b EXCEPT !.positions[b.orders[id].instrument] = @ + Sign(b.orders[id].side) * q]
      BY <1>5 DEF Applied, Filled
    <2>2. b.positions \in [Instruments -> Int] /\ Sign(b.orders[id].side) * q \in Int
      BY <1>3, <1>6 DEF Sign
    <2>3. PICK x \in Int : x = Sign(b.orders[id].side) * q
      BY <2>2
    <2>4. c.orders = b.orders
          /\ c.positions = [b.positions EXCEPT ![b.orders[id].instrument] = @ + x]
          /\ c = [b EXCEPT !.positions = c.positions]
      BY <1>3, <2>1, <2>3
    <2>5. c.positions \in [Instruments -> Int]
      BY <1>7, <2>2, <2>4
    <2>6. ASSUME NEW i \in Instruments
          PROVE  c.positions[i] = b.positions[i] + Counted(b, id, i, q)
      BY <1>7, <2>2, <2>3, <2>4 DEF Counted
    <2>7. QED
      BY <1>3, <2>4, <2>5, <2>6
  <1>9. /\ t.filled = s.filled /\ t.checked = s.checked /\ t.owed = RemoveAt(s.owed, j)
        /\ t = [s EXCEPT !.owed = t.owed]
    BY <1>3 DEF Applied
  <1>10. /\ t.owed \in Seq(Reports) /\ Len(t.owed) = l - 1
         /\ \A k \in 1 .. l - 1 : t.owed[k] = IF k < j THEN s.owed[k] ELSE s.owed[k + 1]
    <2>1. s.owed \in Seq(Reports) /\ j \in 1 .. Len(s.owed)
      BY <1>2, <1>3, <1>6
    <2>2. /\ RemoveAt(s.owed, j) \in Seq(Reports) /\ Len(RemoveAt(s.owed, j)) = Len(s.owed) - 1
          /\ \A k \in 1 .. Len(s.owed) - 1 :
                RemoveAt(s.owed, j)[k] = IF k < j THEN s.owed[k] ELSE s.owed[k + 1]
      BY <2>1, ShorterList
    <2>3. QED
      BY <1>2, <1>9, <2>2
  <1>11. DOMAIN t.owed = 1 .. l - 1 /\ \A k \in 1 .. l - 1 : k \in 1 .. l /\ (~(k < j) => k + 1 \in 1 .. l)
    BY <1>10
  <1>12. BooksTyped(c, t)
    <2>1. ASSUME NEW k \in DOMAIN t.owed PROVE t.owed[k].id \in DOMAIN b.orders
      <3>1. k \in 1 .. l - 1
        BY <1>11
      <3>2. CASE k < j
        BY <1>1, <1>4, <1>10, <1>11, <3>1, <3>2 DEF BooksTyped
      <3>3. CASE ~(k < j)
        BY <1>1, <1>4, <1>10, <1>11, <3>1, <3>3 DEF BooksTyped
      <3>4. QED
        BY <3>2, <3>3
    <2>2. t \in [filled : Seq(Nat), owed : Seq(Reports), checked : Seq(Markets)]
      BY <1>3, <1>9, <1>10
    <2>3. QED
      BY <1>2, <1>3, <1>8, <1>9, <2>1, <2>2 DEF BooksTyped
  <1>13. \A x, i, y : Counted(c, x, i, y) = Counted(b, x, i, y)
    BY <1>8 DEF Counted
  <1>14. \A k : SumFunction(OwedOf(s, k)) = SumFunction(OwedOf(t, k)) + (IF k = id THEN q ELSE 0)
    <2>1. SUFFICES ASSUME NEW k
                   PROVE  SumFunction(OwedOf(s, k))
                            = SumFunction(OwedOf(t, k)) + (IF k = id THEN q ELSE 0)
      OBVIOUS
    <2>2. PICK f, g : f = OwedOf(s, k) /\ g = OwedOf(t, k)
      OBVIOUS
    <2>3. f \in [1 .. l -> Int] /\ g \in [1 .. l - 1 -> Int]
      BY <1>1, <1>2, <1>10, <1>12, <2>2, BooksSummable
    <2>4. \A x \in 1 .. l - 1 : g[x] = IF x < j THEN f[x] ELSE f[x + 1]
      BY <1>4, <1>10, <1>11, <2>2 DEF OwedOf
    <2>5. f[j] = IF k = id THEN q ELSE 0
      BY <1>4, <1>5, <1>6, <2>2 DEF OwedOf
    <2>6. SumFunction(f) = SumFunction(g) + f[j]
      BY <1>6, <2>3, <2>4, SumRemoved
    <2>7. QED
      BY <2>2, <2>5, <2>6
  <1>15. \A k : SumFunction(OwedOf(s, k)) \in Nat /\ SumFunction(OwedOf(t, k)) \in Nat
    BY <1>1, <1>12, BooksSummable
  <1>16. OrdersKept(c, t)
    <2>1. ASSUME NEW k \in DOMAIN b.orders
          PROVE  SumFunction(OwedOf(t, k)) <= s.filled[k]
      <3>1. SumFunction(OwedOf(s, k)) <= s.filled[k] /\ s.filled[k] \in Nat
        BY <1>1, <1>3, <1>4 DEF OrdersKept
      <3>2. SumFunction(OwedOf(s, k)) = SumFunction(OwedOf(t, k)) + (IF k = id THEN q ELSE 0)
        BY <1>14
      <3>3. SumFunction(OwedOf(s, k)) \in Nat /\ SumFunction(OwedOf(t, k)) \in Nat
        BY <1>15
      <3>4. QED
        BY <1>6, <3>1, <3>2, <3>3
    <2>2. QED
      BY <1>1, <1>8, <1>9, <2>1 DEF OrdersKept
  <1>17. ASSUME NEW i
         PROVE  /\ SumFunction(AppliedTo(c, t, i)) = SumFunction(AppliedTo(b, s, i)) + Counted(b, id, i, q)
                /\ SumFunction(LateFor(b, s, i)) = SumFunction(LateFor(c, t, i)) + Counted(b, id, i, q)
                /\ FilledFor(c, t, i) = FilledFor(b, s, i)
    <2>1. FilledFor(c, t, i) = FilledFor(b, s, i)
      BY <1>9, <1>13 DEF FilledFor
    <2>2. PICK f, g : f = LateFor(b, s, i) /\ g = LateFor(c, t, i)
      OBVIOUS
    <2>3. f \in [1 .. l -> Int] /\ g \in [1 .. l - 1 -> Int]
      BY <1>1, <1>2, <1>10, <1>12, <2>2, BooksSummable
    <2>4. \A x \in 1 .. l - 1 : g[x] = IF x < j THEN f[x] ELSE f[x + 1]
      <3>1. SUFFICES ASSUME NEW x \in 1 .. l - 1
                     PROVE  g[x] = IF x < j THEN f[x] ELSE f[x + 1]
        OBVIOUS
      <3>2. g[x] = Counted(b, t.owed[x].id, i, t.owed[x].quantity)
        BY <1>11, <1>13, <2>2 DEF LateFor
      <3>3. CASE x < j
        BY <1>4, <1>10, <1>11, <2>2, <3>2, <3>3 DEF LateFor
      <3>4. CASE ~(x < j)
        BY <1>4, <1>10, <1>11, <2>2, <3>2, <3>4 DEF LateFor
      <3>5. QED
        BY <3>3, <3>4
    <2>5. f[j] = Counted(b, id, i, q)
      BY <1>4, <1>5, <1>6, <2>2 DEF LateFor
    <2>6. SumFunction(f) = SumFunction(g) + f[j]
      BY <1>6, <2>3, <2>4, SumRemoved
    <2>7. PICK d, e : d = AppliedTo(b, s, i) /\ e = AppliedTo(c, t, i)
      OBVIOUS
    <2>8. d \in [1 .. n -> Int] /\ e \in [1 .. n -> Int]
      BY <1>1, <1>2, <1>8, <1>12, <2>7, BooksSummable
    <2>9. IsFiniteSet(1 .. n)
      BY FS_Interval
    <2>10. \A k \in 1 .. n :
              /\ d[k] = Counted(b, k, i, s.filled[k] - SumFunction(OwedOf(s, k)))
              /\ e[k] = Counted(b, k, i, s.filled[k] - SumFunction(OwedOf(t, k)))
      <3>1. d = [k \in 1 .. n |-> Counted(b, k, i, s.filled[k] - SumFunction(OwedOf(s, k)))]
        BY <1>4, <2>7 DEF AppliedTo
      <3>2. DOMAIN c.orders = 1 .. n
        BY <1>4, <1>8
      <3>3. e = [k \in 1 .. n |-> Counted(c, k, i, s.filled[k] - SumFunction(OwedOf(t, k)))]
        BY <1>9, <2>7, <3>2 DEF AppliedTo
      <3>4. QED
        BY <1>13, <3>1, <3>3, Zenon
    <2>11. \A k \in (1 .. n) \ {id} : SumFunction(OwedOf(s, k)) = SumFunction(OwedOf(t, k))
      <3>1. SUFFICES ASSUME NEW k \in (1 .. n) \ {id}
                     PROVE  SumFunction(OwedOf(s, k)) = SumFunction(OwedOf(t, k))
        OBVIOUS
      <3>2. /\ SumFunction(OwedOf(s, k)) = SumFunction(OwedOf(t, k)) + (IF k = id THEN q ELSE 0)
            /\ SumFunction(OwedOf(t, k)) \in Nat
        BY <1>14, <1>15
      <3>3. QED
        BY <3>2
    <2>12. \A k \in (1 .. n) \ {id} : e[k] = d[k]
      BY <2>10, <2>11
    <2>13. Summable(d, 1 .. n) /\ Summable(e, 1 .. n) /\ Agree(d, e, (1 .. n) \ {id})
      BY <2>8, <2>9, <2>12 DEF Summable, Agree
    <2>14. SumFunction(e) = SumFunction(d) + (e[id] - d[id])
      BY <1>6, <2>13, SumReplaced
    <2>15. PICK x \in Int : /\ x = s.filled[id] - SumFunction(OwedOf(s, id))
                            /\ x + q = s.filled[id] - SumFunction(OwedOf(t, id))
      <3>1. /\ SumFunction(OwedOf(s, id)) = SumFunction(OwedOf(t, id)) + q
            /\ SumFunction(OwedOf(s, id)) \in Nat /\ SumFunction(OwedOf(t, id)) \in Nat
            /\ s.filled[id] \in Nat
        BY <1>3, <1>4, <1>6, <1>14, <1>15
      <3>2. QED
        BY <1>6, <3>1
    <2>16. Counted(b, id, i, x + q) = Counted(b, id, i, x) + Counted(b, id, i, q)
      BY <1>6, CountedAdds
    <2>17. Counted(b, id, i, q) \in Int /\ d[id] \in Int
      BY <1>6, <2>8, CountedType
    <2>18. d[id] = Counted(b, id, i, x) /\ e[id] = Counted(b, id, i, x + q)
      BY <1>6, <2>10, <2>15
    <2>19. e[id] - d[id] = Counted(b, id, i, q)
      BY <2>16, <2>17, <2>18
    <2>20. QED
      BY <2>1, <2>2, <2>5, <2>6, <2>7, <2>14, <2>19
  <1>18. PositionsAdd(c, t)
    <2>1. ASSUME NEW i \in Instruments
          PROVE  /\ c.positions[i] = SumFunction(AppliedTo(c, t, i))
                 /\ c.positions[i] + SumFunction(LateFor(c, t, i)) = SumFunction(FilledFor(c, t, i))
      <3>1. /\ b.positions[i] = SumFunction(AppliedTo(b, s, i))
            /\ b.positions[i] + SumFunction(LateFor(b, s, i)) = SumFunction(FilledFor(b, s, i))
            /\ c.positions[i] = b.positions[i] + Counted(b, id, i, q)
        BY <1>1, <1>8 DEF PositionsAdd
      <3>2. b.positions[i] \in Int /\ SumFunction(LateFor(c, t, i)) \in Int /\ Counted(b, id, i, q) \in Int
        <4>1. 1 \in Int /\ l - 1 \in Int
          OBVIOUS
        <4>2. IsFiniteSet(1 .. l - 1)
          BY <4>1, FS_Interval
        <4>3. LateFor(c, t, i) \in [1 .. l - 1 -> Int]
          BY <1>10, <1>12, BooksSummable
        <4>4. SumFunction(LateFor(c, t, i)) \in Int
          BY <4>2, <4>3, SumType DEF Summable
        <4>5. b.positions[i] \in Int
          BY <1>3
        <4>6. QED
          BY <1>6, <4>4, <4>5, CountedType
      <3>3. QED
        BY <1>17, <3>1, <3>2
    <2>2. QED
      BY <2>1 DEF PositionsAdd
  <1>19. QED
    BY <1>12, <1>16, <1>18 DEF BooksOK

\* The sums of the properties are those of the invariant.
LEMMA SignedSumsAgree ==
    ASSUME BooksTyped(book, sent), NEW i
    PROVE  /\ SignedSum([k \in DOMAIN sent.owed |->
                           [instrument |-> book.orders[sent.owed[k].id].instrument,
                            quantity |-> Sign(book.orders[sent.owed[k].id].side)
                                           * sent.owed[k].quantity]], i)
                = SumFunction(LateFor(book, sent, i))
           /\ SignedSum([k \in DOMAIN sent.filled |->
                           [instrument |-> book.orders[k].instrument,
                            quantity |-> Sign(book.orders[k].side) * sent.filled[k]]], i)
                = SumFunction(FilledFor(book, sent, i))
  <1> DEFINE late == [k \in DOMAIN sent.owed |->
                        [instrument |-> book.orders[sent.owed[k].id].instrument,
                         quantity |-> Sign(book.orders[sent.owed[k].id].side)
                                        * sent.owed[k].quantity]]
             done == [k \in DOMAIN sent.filled |->
                        [instrument |-> book.orders[k].instrument,
                         quantity |-> Sign(book.orders[k].side) * sent.filled[k]]]
  <1>1. [k \in DOMAIN late |-> IF late[k].instrument = i THEN late[k].quantity ELSE 0]
          = LateFor(book, sent, i)
    BY DEF LateFor, Counted
  <1>2. [k \in DOMAIN done |-> IF done[k].instrument = i THEN done[k].quantity ELSE 0]
          = FilledFor(book, sent, i)
    BY DEF FilledFor, Counted
  <1>3. /\ SignedSum(late, i) = SumFunction(LateFor(book, sent, i))
        /\ SignedSum(done, i) = SumFunction(FilledFor(book, sent, i))
    BY <1>1, <1>2, Zenon DEF SignedSum
  <1>4. QED
    BY <1>3

\* Reconciliation finds what is late and what was never sent from here.
LEMMA UndeliveredBreak ==
    ASSUME BooksOK(book, sent)
    PROVE  BreaksAreUndelivered
  <1>1. BooksTyped(book, sent) /\ PositionsAdd(book, sent)
    BY DEF BooksOK
  <1>2. DOMAIN book.positions = Instruments /\ \A i \in Instruments : book.positions[i] \in Int
    BY <1>1 DEF BooksTyped
  <1>3. ASSUME NEW before \in Books, NEW i \in Instruments
        PROVE  LET late == SumFunction(LateFor(book, sent, i))
                   missing == before[i] + late
               IN IF missing = 0 THEN \A b \in Breaks(book, BrokerHolds(before)) : b.instrument # i
                  ELSE [instrument |-> i, difference |-> missing] \in Breaks(book, BrokerHolds(before))
    <2>1. before[i] \in Int
      BY ExecutionAssumption DEF Instruments
    <2>2. PICK late \in Int, filled \in Int : /\ late = SumFunction(LateFor(book, sent, i))
                                              /\ filled = SumFunction(FilledFor(book, sent, i))
      <3>1. PICK n \in Nat, l \in Nat : n = Len(book.orders) /\ l = Len(sent.owed)
        <4>1. Len(book.orders) \in Nat /\ Len(sent.owed) \in Nat
          BY <1>1 DEF BooksTyped
        <4>2. QED
          BY <4>1
      <3>2. IsFiniteSet(1 .. n) /\ IsFiniteSet(1 .. l)
        BY FS_Interval
      <3>3. LateFor(book, sent, i) \in [1 .. l -> Int] /\ FilledFor(book, sent, i) \in [1 .. n -> Int]
        BY <1>1, <3>1, BooksSummable
      <3>4. QED
        BY <3>2, <3>3, SumType DEF Summable
    <2>3. book.positions[i] + late = filled /\ book.positions[i] \in Int
      BY <1>1, <1>2, <2>2 DEF PositionsAdd
    <2>4. PICK theirs : theirs = BrokerHolds(before)
      OBVIOUS
    <2>5. theirs[i] = before[i] + filled
      BY <1>1, <1>2, <2>2, <2>4, SignedSumsAgree DEF BrokerHolds
    <2>6. theirs[i] - book.positions[i] = before[i] + late
      BY <2>1, <2>3, <2>5
    <2>7. CASE before[i] + late = 0
      <3>1. \A b \in Breaks(book, theirs) : b.instrument # i
        <4>1. \A b \in Breaks(book, theirs) :
                 \E x \in DOMAIN book.positions : /\ theirs[x] - book.positions[x] # 0
                                                  /\ b.instrument = x
          BY DEF Breaks
        <4>2. theirs[i] - book.positions[i] = 0
          BY <2>6, <2>7
        <4>3. QED
          BY <4>1, <4>2, Zenon
      <3>2. QED
        BY <2>2, <2>4, <2>7, <3>1
    <2>8. CASE before[i] + late # 0
      <3>1. [instrument |-> i, difference |-> theirs[i] - book.positions[i]] \in Breaks(book, theirs)
        BY <1>2, <2>6, <2>8, Zenon DEF Breaks
      <3>2. QED
        BY <2>2, <2>4, <2>6, <2>8, <3>1
    <2>9. QED
      BY <2>7, <2>8
  <1>4. QED
    BY <1>1, <1>2, <1>3, SignedSumsAgree, Zenon DEF BreaksAreUndelivered

\* A position is no more than the shares of the day that its orders kept.
LEMMA PositionsKeepShares ==
    ASSUME BooksOK(book, sent)
    PROVE  PositionsWithinPolicy
  <1>1. BooksTyped(book, sent) /\ OrdersKept(book, sent) /\ PositionsAdd(book, sent)
    BY DEF BooksOK
  <1>2. DOMAIN book.positions = Instruments
    BY <1>1 DEF BooksTyped
  <1>3. PICK n \in Nat : n = Len(book.orders)
    BY <1>1 DEF BooksTyped
  <1>4. /\ DOMAIN book.orders = 1 .. n
        /\ \A k \in 1 .. n : /\ book.orders[k].quantity \in Nat /\ sent.filled[k] \in Nat
                             /\ sent.checked[k].volume \in Nat
    <2>1. /\ book.orders \in Seq(Orders) /\ sent.filled \in Seq(Nat) /\ sent.checked \in Seq(Markets)
          /\ Len(sent.filled) = n /\ Len(sent.checked) = n
      BY <1>1, <1>3 DEF BooksTyped
    <2>2. \A k \in 1 .. n : book.orders[k] \in Orders /\ sent.filled[k] \in Nat /\ sent.checked[k] \in Markets
      BY <1>3, <2>1
    <2>3. QED
      <3>1. \A m \in Markets : m.volume \in Nat
        BY ExecutionAssumption
      <3>2. \A o \in Orders : o.quantity \in Nat
        BY DEF Orders
      <3>3. DOMAIN book.orders = 1 .. n
        BY <1>3, <2>1
      <3>4. QED
        BY <2>2, <3>1, <3>2, <3>3
  <1>5. PICK num \in Nat, den \in Nat : num = Policy.rate[1] /\ den = Policy.rate[2]
    BY ExecutionAssumption
  <1>6. ASSUME NEW i \in Instruments,
               NEW mine, mine = {k \in DOMAIN book.orders : book.orders[k].instrument = i}
        PROVE  Absolute(book.positions[i]) * den
                 <= SumFunction([k \in mine |-> sent.checked[k].volume * num])
    <2>1. PICK f, g, w : /\ f = AppliedTo(book, sent, i)
                         /\ g = [k \in mine |-> sent.checked[k].volume * num]
                         /\ w = [k \in 1 .. n |-> IF k \in mine THEN sent.checked[k].volume * num ELSE 0]
      OBVIOUS
    <2>2. mine \subseteq 1 .. n /\ IsFiniteSet(1 .. n)
      BY <1>4, <1>6, FS_Interval
    <2>3. IsFiniteSet(mine)
      BY <2>2, FS_Subset
    <2>4. \A k \in 1 .. n : sent.checked[k].volume * num \in Nat
      BY <1>4
    <2>5. Summable(f, 1 .. n) /\ Summable(w, 1 .. n) /\ Summable(g, mine)
      <3>1. f \in [1 .. n -> Int]
        BY <1>1, <1>3, <2>1, BooksSummable
      <3>2. w \in [1 .. n -> Int] /\ g \in [mine -> Int]
        BY <2>1, <2>2, <2>4
      <3>3. QED
        BY <2>2, <2>3, <3>1, <3>2 DEF Summable
    <2>6. SumFunction(w) = SumFunction(g)
      <3>1. PartOf(g, mine, w, 1 .. n)
        BY <2>1, <2>2 DEF PartOf
      <3>2. QED
        BY <2>5, <3>1, SumOfPart
    <2>7. ASSUME NEW k \in 1 .. n
          PROVE  /\ f[k] * den <= w[k] * 1
                 /\ f[k] * (-den) <= w[k] * 1
      <3>1. PICK a \in Int : a = sent.filled[k] - SumFunction(OwedOf(sent, k))
        BY <1>1, <1>4, BooksSummable
      <3>2. f[k] = Counted(book, k, i, a)
        BY <1>4, <2>1, <3>1 DEF AppliedTo
      <3>3. PICK x \in Nat, v \in Nat : x = book.orders[k].quantity /\ v = sent.checked[k].volume
        BY <1>4
      <3>4. 0 <= a /\ a <= x /\ x * den <= num * v
        <4>1. /\ x * den <= num * v /\ sent.filled[k] <= x
              /\ SumFunction(OwedOf(sent, k)) <= sent.filled[k]
          BY <1>1, <1>4, <1>5, <3>3 DEF OrdersKept
        <4>2. SumFunction(OwedOf(sent, k)) \in Nat /\ sent.filled[k] \in Nat
          BY <1>1, <1>4, BooksSummable
        <4>3. QED
          BY <3>1, <4>1, <4>2
      <3>5. 0 <= a * den /\ a * den <= num * v
        <4>1. a * den <= x * den /\ 0 <= a * den
          BY <3>4
        <4>2. a * den \in Int /\ x * den \in Int /\ num * v \in Int
          OBVIOUS
        <4>3. QED
          BY <3>4, <4>1, <4>2
      <3>6. CASE k \in mine
        <4>1. f[k] = a \/ f[k] = -a
          BY <1>6, <3>2, <3>6 DEF Counted, Sign
        <4>2. w[k] = num * v
          BY <2>1, <3>3, <3>6
        <4>3. QED
          BY <3>5, <4>1, <4>2
      <3>7. CASE k \notin mine
        <4>1. f[k] = 0
          BY <1>4, <1>6, <3>2, <3>7 DEF Counted
        <4>2. w[k] = 0
          BY <2>1, <3>7
        <4>3. QED
          BY <4>1, <4>2
      <3>8. QED
        BY <3>6, <3>7
    <2>8. PICK one \in Int, less \in Int : one = 1 /\ less = -den
      OBVIOUS
    <2>9. \A k \in 1 .. n : f[k] * den <= w[k] * one /\ f[k] * less <= w[k] * one
      BY <2>7, <2>8
    <2>10. den \in Int
      OBVIOUS
    <2>11. /\ SumFunction(f) * den <= SumFunction(w) * one
           /\ SumFunction(f) * less <= SumFunction(w) * one
      <3>1. SumFunction(f) * den <= SumFunction(w) * one
        BY <2>5, <2>9, <2>10, SumCompares
      <3>2. SumFunction(f) * less <= SumFunction(w) * one
        BY <2>5, <2>9, SumCompares
      <3>3. QED
        BY <3>1, <3>2
    <2>12. book.positions[i] = SumFunction(f)
      BY <1>1, <2>1 DEF PositionsAdd
    <2>13. PICK p \in Int, m \in Int : p = SumFunction(f) /\ m = SumFunction(w)
      BY <2>5, SumType
    <2>14. p * den <= m /\ (-p) * den <= m
      BY <2>8, <2>11, <2>13
    <2>15. Absolute(p) * den <= m
      BY <2>14 DEF Absolute
    <2>16. QED
      BY <2>1, <2>6, <2>12, <2>13, <2>15
  <1>7. QED
    BY <1>2, <1>5, <1>6 DEF PositionsWithinPolicy

(***************************************************************************)
(* The schedules: lists of quantities without the empty ones.              *)
(***************************************************************************)
Child == [sequence : Nat, quantity : Nat]

\* One quantity more: it is kept when there is one.
KeepingChild(c, i, q) == IF q > 0 THEN Append(c, [sequence |-> i - 1, quantity |-> q]) ELSE c

\* f goes through the first L of the quantities.
IsKept(f, q, L) == f = [i \in 0 .. L |-> IF i = 0 THEN <<>> ELSE KeepingChild(f[i - 1], i, q[i])]

LEMMA KeptExists ==
    ASSUME NEW q, NEW L \in Nat
    PROVE  \E f : IsKept(f, q, L)
  <1> DEFINE N == {n \in Nat : \E f : IsKept(f, q, n)}
  <1>1. 0 \in N
    <2>1. IsKept([n \in 0 .. 0 |-> <<>>], q, 0)
      BY DEF IsKept
    <2>2. QED
      BY <2>1
  <1>2. ASSUME NEW n \in Nat, n \in N PROVE n + 1 \in N
    <2>1. PICK g : IsKept(g, q, n)
      BY <1>2
    <2>2. PICK h : h = [i \in 0 .. n + 1 |-> IF i = 0 THEN <<>> ELSE KeepingChild(g[i - 1], i, q[i])]
      OBVIOUS
    <2>3. \A i \in 0 .. n : h[i] = g[i]
      BY <2>1, <2>2 DEF IsKept
    <2>4. \A i \in 0 .. n + 1 : i # 0 => i - 1 \in 0 .. n
      OBVIOUS
    <2>5. IsKept(h, q, n + 1)
      BY <2>2, <2>3, <2>4 DEF IsKept
    <2>6. QED
      BY <2>5
  <1>3. Nat \subseteq N
    <2> HIDE DEF N
    <2>1. QED
      BY <1>1, <1>2, Counting
  <1>4. QED
    BY <1>3

\* Children goes through them all.
LEMMA ChildrenKept ==
    ASSUME NEW q \in Seq(Nat)
    PROVE  \E f : IsKept(f, q, Len(q)) /\ Children(q) = f[Len(q)]
  <1>1. PICK f : f = CHOOSE g : IsKept(g, q, Len(q))
    OBVIOUS
  <1>2. IsKept(f, q, Len(q))
    BY <1>1, KeptExists
  <1>3. Children(q) = f[Len(q)]
    BY <1>1 DEF Children, IsKept, KeepingChild
  <1>4. QED
    BY <1>2, <1>3

\* The children of the first k quantities: in their order, none empty, and all there is.
AreChildren(c, q, k) ==
    /\ c \in Seq(Child)
    /\ \A j \in 1 .. Len(c) :
          /\ c[j].sequence < k /\ c[j].quantity = q[c[j].sequence + 1] /\ c[j].quantity > 0
          /\ j > 1 => c[j - 1].sequence < c[j].sequence
    /\ Total(c) = SumFunction([i \in 1 .. k |-> q[i]])

\* One child more.
LEMMA ChildAdded ==
    ASSUME NEW q \in Seq(Nat), NEW k \in Nat, k < Len(q), NEW c, AreChildren(c, q, k), q[k + 1] > 0
    PROVE  AreChildren(Append(c, [sequence |-> k, quantity |-> q[k + 1]]), q, k + 1)
  <1>1. PICK m \in Nat, x \in Nat : m = Len(c) /\ x = q[k + 1]
    BY DEF AreChildren
  <1>2. PICK e : e = [sequence |-> k, quantity |-> x]
    OBVIOUS
  <1>3. e \in Child /\ e.sequence = k /\ e.quantity = x /\ x > 0 /\ c \in Seq(Child)
    BY <1>1, <1>2 DEF Child, AreChildren
  <1>4. PICK d : d = Append(c, e)
    OBVIOUS
  <1>5. /\ d \in Seq(Child) /\ Len(d) = m + 1 /\ d[m + 1] = e
        /\ \A j \in 1 .. m : d[j] = c[j]
    BY <1>1, <1>3, <1>4
  <1>6. \A j \in 1 .. m : c[j] \in Child /\ c[j].sequence \in Nat /\ c[j].quantity \in Nat
    <2>1. \A j \in 1 .. m : c[j] \in Child
      BY <1>1, <1>3
    <2>2. QED
      BY <2>1 DEF Child
  <1>7. ASSUME NEW j \in 1 .. m + 1
        PROVE  /\ d[j].sequence < k + 1 /\ d[j].quantity = q[d[j].sequence + 1] /\ d[j].quantity > 0
               /\ j > 1 => d[j - 1].sequence < d[j].sequence
    <2>1. CASE j \in 1 .. m
      <3>1. /\ c[j].sequence < k /\ c[j].quantity = q[c[j].sequence + 1] /\ c[j].quantity > 0
            /\ j > 1 => c[j - 1].sequence < c[j].sequence
        <4>1. j \in 1 .. Len(c)
          BY <1>1, <2>1
        <4>2. QED
          BY <4>1, Zenon DEF AreChildren
      <3>2. ASSUME j > 1 PROVE d[j - 1] = c[j - 1]
        <4>1. j - 1 \in 1 .. m
          BY <2>1, <3>2
        <4>2. QED
          BY <1>5, <4>1
      <3>3. QED
        <4>1. d[j] = c[j]
          BY <1>5, <2>1
        <4>2. c[j].sequence < k + 1
          BY <1>6, <2>1, <3>1
        <4>3. QED
          BY <3>1, <3>2, <4>1, <4>2, Zenon
    <2>2. CASE j = m + 1
      <3>1. j > 1 => m \in 1 .. m /\ d[j - 1] = c[m] /\ c[m].sequence < k
        BY <1>1, <1>5, <2>2 DEF AreChildren
      <3>2. QED
        BY <1>1, <1>3, <1>5, <2>2, <3>1
    <2>3. QED
      BY <2>1, <2>2
  <1>8. Total(d) = SumFunction([i \in 1 .. k + 1 |-> q[i]])
    <2>1. PICK f, g : /\ f = [j \in 1 .. m |-> c[j].quantity]
                      /\ g = [j \in 1 .. m + 1 |-> d[j].quantity]
      OBVIOUS
    <2>2. DOMAIN c = 1 .. m /\ DOMAIN d = 1 .. m + 1
      BY <1>1, <1>3, <1>5
    <2>3. Total(c) = SumFunction(f) /\ Total(d) = SumFunction(g)
      BY <2>1, <2>2 DEF Total
    <2>4. /\ f \in [1 .. m -> Int] /\ g \in [1 .. m + 1 -> Int]
          /\ (\A j \in 1 .. m : g[j] = f[j]) /\ g[m + 1] = x
      <3>1. ASSUME NEW j \in 1 .. m + 1 PROVE d[j].quantity \in Int
        <4>1. CASE j \in 1 .. m
          <5>1. d[j] = c[j] /\ c[j].quantity \in Nat
            BY <1>5, <1>6, <4>1
          <5>2. QED
            BY <5>1
        <4>2. CASE j = m + 1
          BY <1>3, <1>5, <4>2
        <4>3. QED
          BY <4>1, <4>2
      <3>2. QED
        BY <1>3, <1>5, <1>6, <2>1, <3>1
    <2>5. SumFunction(g) = SumFunction(f) + g[m + 1]
      BY <2>4, SumAppended
    <2>6. PICK u, v : u = [i \in 1 .. k |-> q[i]] /\ v = [i \in 1 .. k + 1 |-> q[i]]
      OBVIOUS
    <2>7. \A i \in 1 .. k + 1 : i \in 1 .. Len(q) /\ q[i] \in Int
      OBVIOUS
    <2>8. /\ u \in [1 .. k -> Int] /\ v \in [1 .. k + 1 -> Int]
          /\ (\A i \in 1 .. k : v[i] = u[i]) /\ v[k + 1] = x
      BY <1>1, <2>6, <2>7
    <2>9. SumFunction(v) = SumFunction(u) + v[k + 1]
      BY <2>8, SumAppended
    <2>10. Total(c) = SumFunction(u)
      BY <2>6 DEF AreChildren
    <2>11. QED
      BY <2>3, <2>4, <2>5, <2>6, <2>8, <2>9, <2>10
  <1>9. QED
    BY <1>1, <1>2, <1>4, <1>5, <1>7, <1>8 DEF AreChildren

\* An empty quantity is no child.
LEMMA ChildSkipped ==
    ASSUME NEW q \in Seq(Nat), NEW k \in Nat, k < Len(q), NEW c, AreChildren(c, q, k), ~(q[k + 1] > 0)
    PROVE  AreChildren(c, q, k + 1)
  <1>1. PICK u, v : u = [i \in 1 .. k |-> q[i]] /\ v = [i \in 1 .. k + 1 |-> q[i]]
    OBVIOUS
  <1>2. (\A i \in 1 .. k + 1 : i \in 1 .. Len(q) /\ q[i] \in Int) /\ q[k + 1] = 0
    OBVIOUS
  <1>3. /\ u \in [1 .. k -> Int] /\ v \in [1 .. k + 1 -> Int]
        /\ (\A i \in 1 .. k : v[i] = u[i]) /\ v[k + 1] = 0
    BY <1>1, <1>2
  <1>4. SumFunction(v) = SumFunction(u) + v[k + 1]
    BY <1>3, SumAppended
  <1>5. IsFiniteSet(1 .. k)
    BY FS_Interval
  <1>6. SumFunction(u) \in Int
    BY <1>3, <1>5, SumType DEF Summable
  <1>7. SumFunction(v) = SumFunction(u)
    BY <1>3, <1>4, <1>6
  <1>8. Total(c) = SumFunction(v)
    BY <1>1, <1>7 DEF AreChildren
  <1>9. ASSUME NEW j \in 1 .. Len(c) PROVE c[j].sequence < k + 1
    <2>1. c[j] \in Child /\ c[j].sequence < k
      BY DEF AreChildren
    <2>2. QED
      BY <2>1 DEF Child
  <1>10. QED
    BY <1>1, <1>8, <1>9 DEF AreChildren

\* The children of all the quantities.
LEMMA ChildrenSound ==
    ASSUME NEW q \in Seq(Nat)
    PROVE  AreChildren(Children(q), q, Len(q)) /\ Total(Children(q)) = SumFunction(q)
  <1>1. PICK f : IsKept(f, q, Len(q)) /\ Children(q) = f[Len(q)]
    BY ChildrenKept
  <1>2. PICK L \in Nat : L = Len(q)
    OBVIOUS
  <1> DEFINE S == {n \in 0 .. L : AreChildren(f[n], q, n)}
  <1>3. 0 \in S
    <2>1. f[0] = <<>>
      BY <1>1, <1>2 DEF IsKept
    <2>2. <<>> \in Seq(Child) /\ Len(<<>>) = 0
      OBVIOUS
    <2>3. Total(<<>>) = 0 /\ SumFunction([i \in 1 .. 0 |-> q[i]]) = 0
      BY SumEmpty DEF Total
    <2>4. AreChildren(<<>>, q, 0)
      BY <2>2, <2>3 DEF AreChildren
    <2>5. QED
      BY <2>1, <2>4
  <1>4. ASSUME NEW n \in 0 .. L, n \in S, n < L PROVE n + 1 \in S
    <2>1. f[n + 1] = KeepingChild(f[n], n + 1, q[n + 1])
      BY <1>1, <1>2, <1>4 DEF IsKept
    <2>2. AreChildren(f[n], q, n) /\ n \in Nat /\ n < Len(q) /\ n + 1 \in 0 .. L
      BY <1>2, <1>4
    <2>3. CASE q[n + 1] > 0
      <3>1. f[n + 1] = Append(f[n], [sequence |-> n, quantity |-> q[n + 1]])
        BY <2>1, <2>3 DEF KeepingChild
      <3>2. QED
        BY <2>2, <2>3, <3>1, ChildAdded
    <2>4. CASE ~(q[n + 1] > 0)
      <3>1. f[n + 1] = f[n]
        BY <2>1, <2>4 DEF KeepingChild
      <3>2. QED
        BY <2>2, <2>4, <3>1, ChildSkipped
    <2>5. QED
      BY <2>3, <2>4
  <1>5. 0 .. L \subseteq S
    <2> HIDE DEF S
    <2>1. QED
      BY <1>3, <1>4, CountingTo
  <1>6. AreChildren(Children(q), q, Len(q))
    BY <1>1, <1>2, <1>5
  <1>7. [i \in 1 .. Len(q) |-> q[i]] = q
    OBVIOUS
  <1>8. QED
    BY <1>6, <1>7 DEF AreChildren

\* A function from 1 .. n is a list of length n.
LEMMA ListOf ==
    ASSUME NEW n \in Nat, NEW q \in [1 .. n -> Nat]
    PROVE  q \in Seq(Nat) /\ Len(q) = n /\ q \in [1 .. n -> Int]
  OBVIOUS

\* The quotient and the remainder make the number.
LEMMA QuotientRemainder ==
    ASSUME NEW a \in Nat, NEW b \in Nat \ {0}
    PROVE  \E d \in Nat, r \in Nat : d = a \div b /\ r = a % b /\ r < b /\ a = b * d + r
  OBVIOUS

\* Even slices: the remainder goes to the first ones.
Even(q, total, n) == q = [i \in 1 .. n |-> total \div n + (IF i <= total % n THEN 1 ELSE 0)]

LEMMA TwapQuantities ==
    ASSUME NEW total \in Nat, NEW n \in Nat \ {0}, NEW q, Even(q, total, n)
    PROVE  /\ q \in Seq(Nat) /\ Len(q) = n /\ SumFunction(q) = total
           /\ \A i, j \in 1 .. n : q[i] - q[j] <= 1
  <1>1. PICK d \in Nat, r \in Nat : d = total \div n /\ r = total % n /\ r < n /\ total = n * d + r
    BY QuotientRemainder
  <1>2. q = [i \in 1 .. n |-> d + (IF i <= r THEN 1 ELSE 0)]
    BY <1>1 DEF Even
  <1>3. q \in [1 .. n -> Nat]
    BY <1>2
  <1>4. q \in Seq(Nat) /\ Len(q) = n /\ q \in [1 .. n -> Int]
    BY <1>3, ListOf
  <1>5. PICK g : g = [k \in 0 .. n |-> k * d + (IF k <= r THEN k ELSE r)]
    OBVIOUS
  <1>6. ASSUME NEW k \in 0 .. n
        PROVE  g[k] \in Int /\ (k < n => g[k + 1] = g[k] + q[k + 1])
    <2>1. PICK x \in Nat : x = k * d
      OBVIOUS
    <2>2. (k + 1) * d = x + d
      BY <2>1
    <2>3. g[k] = x + (IF k <= r THEN k ELSE r)
      BY <1>5, <2>1
    <2>4. ASSUME k < n PROVE g[k + 1] = g[k] + q[k + 1]
      <3>1. k + 1 \in 0 .. n /\ k + 1 \in 1 .. n
        BY <2>4
      <3>2. g[k + 1] = (x + d) + (IF k + 1 <= r THEN k + 1 ELSE r)
        BY <1>5, <2>2, <3>1
      <3>3. q[k + 1] = d + (IF k + 1 <= r THEN 1 ELSE 0)
        BY <1>2, <3>1
      <3>4. CASE k + 1 <= r
        BY <2>3, <3>2, <3>3, <3>4
      <3>5. CASE ~(k + 1 <= r)
        BY <2>3, <3>2, <3>3, <3>5
      <3>6. QED
        BY <3>4, <3>5
    <2>5. QED
      BY <2>3, <2>4
  <1>7. g[0] = 0 /\ g[n] = n * d + r
    <2>1. 0 \in 0 .. n /\ n \in 0 .. n /\ 0 * d = 0 /\ ~(n <= r)
      BY <1>1
    <2>2. QED
      BY <1>5, <2>1
  <1>8. SumFunction(q) = g[n]
    <2>1. Grows(g, q, n)
      BY <1>6, <1>7 DEF Grows
    <2>2. QED
      BY <1>4, <2>1, SumTelescopes
  <1>9. \A i, j \in 1 .. n : q[i] - q[j] <= 1
    BY <1>2
  <1>10. QED
    BY <1>1, <1>4, <1>7, <1>8, <1>9

\* Slices of what is shown, the last of which takes the rest.
Shown(q, total, shown, n) ==
    /\ n = (total + shown - 1) \div shown
    /\ q = [i \in 1 .. n |-> IF i < n THEN shown ELSE total - shown * (n - 1)]

LEMMA IcebergQuantities ==
    ASSUME NEW total \in Nat \ {0}, NEW shown \in Nat \ {0}, NEW q, NEW n, Shown(q, total, shown, n)
    PROVE  /\ n \in Nat /\ q \in Seq(Nat) /\ Len(q) = n /\ SumFunction(q) = total
           /\ \A i \in 1 .. n : q[i] <= shown
  <1>1. PICK a \in Nat : a = total + shown - 1
    OBVIOUS
  <1>2. PICK d \in Nat : d = n /\ shown * d <= a /\ a < shown * d + shown
    BY <1>1, Divides DEF Shown
  <1>3. d # 0
    BY <1>1, <1>2
  <1>4. PICK x \in Nat : x = shown * (d - 1) /\ shown * d = x + shown
    <2>1. d - 1 \in Nat /\ d = (d - 1) + 1
      BY <1>3
    <2>2. shown * (d - 1) \in Nat /\ shown * d = shown * (d - 1) + shown
      BY <2>1
    <2>3. QED
      BY <2>2
  <1>5. x < total /\ total <= x + shown
    BY <1>1, <1>2, <1>4
  <1>6. q = [i \in 1 .. d |-> IF i < d THEN shown ELSE total - x]
    BY <1>2, <1>4 DEF Shown
  <1>7. q \in [1 .. d -> Nat]
    BY <1>5, <1>6
  <1>8. q \in Seq(Nat) /\ Len(q) = d /\ q \in [1 .. d -> Int]
    BY <1>7, ListOf
  <1>9. PICK g : g = [k \in 0 .. d |-> IF k < d THEN shown * k ELSE total]
    OBVIOUS
  <1>10. ASSUME NEW k \in 0 .. d
         PROVE  g[k] \in Int /\ (k < d => g[k + 1] = g[k] + q[k + 1])
    <2>1. PICK y \in Nat : y = shown * k
      OBVIOUS
    <2>2. g[k] = IF k < d THEN y ELSE total
      BY <1>9, <2>1
    <2>3. ASSUME k < d PROVE g[k + 1] = g[k] + q[k + 1]
      <3>1. k + 1 \in 0 .. d /\ k + 1 \in 1 .. d /\ shown * (k + 1) = y + shown
        BY <2>1, <2>3
      <3>2. CASE k + 1 < d
        BY <1>6, <1>9, <2>2, <2>3, <3>1, <3>2
      <3>3. CASE k + 1 = d
        <4>1. y = x
          <5>1. k = d - 1
            BY <3>3
          <5>2. QED
            BY <1>4, <2>1, <5>1
        <4>2. g[k + 1] = total /\ q[k + 1] = total - x
          BY <1>6, <1>9, <3>1, <3>3
        <4>3. QED
          BY <2>2, <2>3, <4>1, <4>2
      <3>4. QED
        BY <2>3, <3>2, <3>3
    <2>4. QED
      BY <2>2, <2>3
  <1>11. g[0] = 0 /\ g[d] = total
    BY <1>3, <1>9
  <1>12. SumFunction(q) = g[d]
    <2>1. Grows(g, q, d)
      BY <1>10, <1>11 DEF Grows
    <2>2. QED
      BY <1>8, <2>1, SumTelescopes
  <1>13. \A i \in 1 .. d : q[i] <= shown
    BY <1>5, <1>6
  <1>14. QED
    BY <1>2, <1>8, <1>11, <1>12, <1>13

(***************************************************************************)
(* What is rationed: each room takes what is left as far as it goes.       *)
(***************************************************************************)
Rest(x, y) == x - Min({x, y})

IsRation(f, total, rooms, n) ==
    f = [k \in 0 .. n |-> IF k = 0 THEN total ELSE Rest(f[k - 1], rooms[k])]

LEMMA RestShape ==
    ASSUME NEW x \in Nat, NEW y \in Nat
    PROVE  /\ Rest(x, y) \in Nat /\ Rest(x, y) <= x /\ x - Rest(x, y) <= y
           /\ Rest(x, y) > 0 => x - Rest(x, y) = y
  <1>1. PICK m : m = Min({x, y})
    OBVIOUS
  <1>2. x \in Int /\ y \in Int
    OBVIOUS
  <1>3. m \in {x, y} /\ m <= x /\ m <= y
    BY <1>1, <1>2, MinOfTwo
  <1>4. Rest(x, y) = x - m
    BY <1>1 DEF Rest
  <1>5. QED
    BY <1>3, <1>4

LEMMA RationExists ==
    ASSUME NEW total, NEW rooms, NEW L \in Nat
    PROVE  \E f : IsRation(f, total, rooms, L)
  <1> DEFINE N == {n \in Nat : \E f : IsRation(f, total, rooms, n)}
  <1>1. 0 \in N
    <2>1. IsRation([n \in 0 .. 0 |-> total], total, rooms, 0)
      BY DEF IsRation
    <2>2. QED
      BY <2>1
  <1>2. ASSUME NEW n \in Nat, n \in N PROVE n + 1 \in N
    <2>1. PICK g : IsRation(g, total, rooms, n)
      BY <1>2
    <2>2. PICK h : h = [k \in 0 .. n + 1 |-> IF k = 0 THEN total ELSE Rest(g[k - 1], rooms[k])]
      OBVIOUS
    <2>3. \A k \in 0 .. n : h[k] = g[k]
      BY <2>1, <2>2 DEF IsRation
    <2>4. \A k \in 0 .. n + 1 : k # 0 => k - 1 \in 0 .. n
      OBVIOUS
    <2>5. IsRation(h, total, rooms, n + 1)
      BY <2>2, <2>3, <2>4 DEF IsRation
    <2>6. QED
      BY <2>5
  <1>3. Nat \subseteq N
    <2> HIDE DEF N
    <2>1. QED
      BY <1>1, <1>2, Counting
  <1>4. QED
    BY <1>3

LEMMA RationedIs ==
    ASSUME NEW total, NEW rooms, NEW n \in Nat, Len(rooms) = n
    PROVE  IsRation(Rationed(total, rooms), total, rooms, n)
  <1>1. PICK f : f = CHOOSE g : IsRation(g, total, rooms, Len(rooms))
    OBVIOUS
  <1>2. IsRation(f, total, rooms, n)
    BY <1>1, RationExists
  <1>3. Rationed(total, rooms) = f
    BY <1>1 DEF Rationed, IsRation, Rest
  <1>4. QED
    BY <1>2, <1>3

\* What is left never grows, and what is taken fits the room; while something is left,
\* the room was used up.
Fits(f, total, rooms, n) ==
    /\ f \in [0 .. n -> Nat] /\ f[0] = total
    /\ \A k \in 1 .. n : /\ f[k] <= f[k - 1] /\ f[k - 1] - f[k] <= rooms[k]
                         /\ f[k] > 0 => f[k - 1] - f[k] = rooms[k]

LEMMA RationShape ==
    ASSUME NEW n \in Nat, NEW total \in Nat, NEW rooms \in [1 .. n -> Nat], NEW f,
           IsRation(f, total, rooms, n)
    PROVE  Fits(f, total, rooms, n)
  <1>1. ASSUME NEW k \in 1 .. n, f[k - 1] \in Nat
        PROVE  /\ f[k] \in Nat /\ f[k] <= f[k - 1] /\ f[k - 1] - f[k] <= rooms[k]
               /\ f[k] > 0 => f[k - 1] - f[k] = rooms[k]
    <2>1. f[k] = Rest(f[k - 1], rooms[k]) /\ rooms[k] \in Nat
      BY DEF IsRation
    <2>2. QED
      BY <1>1, <2>1, RestShape
  <1> DEFINE S == {k \in 0 .. n : f[k] \in Nat}
  <1>2. 0 \in S /\ f[0] = total
    BY DEF IsRation
  <1>3. \A k \in 0 .. n : k \in S /\ k < n => k + 1 \in S
    <2>1. \A k \in 0 .. n : k < n => k + 1 \in 1 .. n /\ (k + 1) - 1 = k
      OBVIOUS
    <2>2. QED
      BY <1>1, <2>1
  <1>4. 0 .. n \subseteq S
    <2> HIDE DEF S
    <2>1. QED
      BY <1>2, <1>3, CountingTo
  <1>5. DOMAIN f = 0 .. n /\ f = [k \in 0 .. n |-> f[k]]
    BY DEF IsRation
  <1>6. \A k \in 1 .. n : f[k - 1] \in Nat
    <2>1. \A k \in 1 .. n : k - 1 \in 0 .. n
      OBVIOUS
    <2>2. QED
      BY <1>4, <2>1
  <1>7. QED
    BY <1>1, <1>2, <1>4, <1>5, <1>6 DEF Fits

\* Participation: what each room takes, and the rest.
Participates(q, f, rooms, total, n) ==
    /\ IsRation(f, total, rooms, n)
    /\ q = [i \in 1 .. n + 1 |-> IF i <= n THEN f[i - 1] - f[i] ELSE f[n]]

LEMMA ParticipationQuantities ==
    ASSUME NEW n \in Nat, NEW total \in Nat, NEW rooms \in [1 .. n -> Nat], NEW f, NEW q,
           Participates(q, f, rooms, total, n)
    PROVE  /\ q \in Seq(Nat) /\ Len(q) = n + 1 /\ SumFunction(q) = total
           /\ \A i \in 1 .. n : q[i] <= rooms[i]
  <1>1. /\ f \in [0 .. n -> Nat] /\ f[0] = total
        /\ \A k \in 1 .. n : f[k] <= f[k - 1] /\ f[k - 1] - f[k] <= rooms[k]
    <2>1. IsRation(f, total, rooms, n)
      BY DEF Participates
    <2>2. Fits(f, total, rooms, n)
      BY <2>1, RationShape
    <2>3. QED
      BY <2>2 DEF Fits
  <1>2. q = [i \in 1 .. n + 1 |-> IF i <= n THEN f[i - 1] - f[i] ELSE f[n]]
    BY DEF Participates
  <1>3. \A i \in 1 .. n : i - 1 \in 0 .. n /\ i \in 0 .. n /\ f[i - 1] \in Nat /\ f[i] \in Nat
    BY <1>1
  <1>4. q \in [1 .. n + 1 -> Nat]
    <2>1. f[n] \in Nat
      BY <1>1
    <2>2. \A i \in 1 .. n : f[i - 1] - f[i] \in Nat
      BY <1>1, <1>3
    <2>3. QED
      BY <1>2, <2>1, <2>2
  <1>5. n + 1 \in Nat
    OBVIOUS
  <1>6. q \in Seq(Nat) /\ Len(q) = n + 1 /\ q \in [1 .. n + 1 -> Int]
    BY <1>4, <1>5, ListOf
  <1>7. PICK g : g = [k \in 0 .. n + 1 |-> IF k <= n THEN total - f[k] ELSE total]
    OBVIOUS
  <1>8. ASSUME NEW k \in 0 .. n + 1
        PROVE  g[k] \in Int /\ (k < n + 1 => g[k + 1] = g[k] + q[k + 1])
    <2>1. CASE k < n
      <3>1. k + 1 \in 1 .. n + 1 /\ k + 1 <= n /\ (k + 1) - 1 = k /\ k \in 0 .. n /\ k + 1 \in 0 .. n
        BY <2>1
      <3>2. g[k] = total - f[k] /\ g[k + 1] = total - f[k + 1] /\ q[k + 1] = f[k] - f[k + 1]
        BY <1>2, <1>7, <3>1
      <3>3. f[k] \in Nat /\ f[k + 1] \in Nat
        BY <1>1, <3>1
      <3>4. QED
        BY <3>2, <3>3
    <2>2. CASE k = n
      <3>1. g[k] = total - f[n] /\ g[k + 1] = total /\ q[k + 1] = f[n] /\ f[n] \in Nat
        BY <1>1, <1>2, <1>7, <2>2
      <3>2. QED
        BY <3>1
    <2>3. CASE k = n + 1
      BY <1>7, <2>3
    <2>4. QED
      BY <2>1, <2>2, <2>3
  <1>9. g[0] = 0 /\ g[n + 1] = total
    BY <1>1, <1>7
  <1>10. SumFunction(q) = g[n + 1]
    <2>1. Grows(g, q, n + 1)
      BY <1>8, <1>9 DEF Grows
    <2>2. QED
      BY <1>5, <1>6, <2>1, SumTelescopes
  <1>11. \A i \in 1 .. n : q[i] <= rooms[i]
    BY <1>1, <1>2
  <1>12. QED
    BY <1>6, <1>9, <1>10, <1>11

\* Of several quantities one is the first of the largest.
LEMMA FirstLargestExists ==
    ASSUME NEW n \in Nat \ {0}, NEW f \in [1 .. n -> Nat]
    PROVE  FirstLargest(f) \in 1 .. n
  <1> DEFINE Is(i, k) == \A j \in 1 .. k : f[j] < f[i] \/ (f[j] = f[i] /\ i <= j)
             S == {k \in 0 .. n : k = 0 \/ \E i \in 1 .. k : Is(i, k)}
  <1>1. 0 \in S
    OBVIOUS
  <1>2. ASSUME NEW k \in 0 .. n, k \in S, k < n
        PROVE  k + 1 \in S
    <2>1. k + 1 \in 1 .. n /\ f[k + 1] \in Nat
      BY <1>2
    <2>2. CASE k = 0
      <3>1. Is(1, 1)
        OBVIOUS
      <3>2. QED
        BY <2>1, <2>2, <3>1
    <2>3. CASE k # 0
      <3>1. PICK i \in 1 .. k : Is(i, k)
        BY <1>2, <2>3
      <3>2. i \in 1 .. k + 1 /\ f[i] \in Nat /\ \A j \in 1 .. k : f[j] \in Nat /\ j # k + 1
        BY <1>2, <3>1
      <3>3. CASE f[k + 1] <= f[i]
        <4>1. Is(i, k + 1)
          <5>1. SUFFICES ASSUME NEW j \in 1 .. k + 1
                         PROVE  f[j] < f[i] \/ (f[j] = f[i] /\ i <= j)
            OBVIOUS
          <5>2. CASE j = k + 1
            BY <2>1, <3>1, <3>2, <3>3, <5>2
          <5>3. CASE j \in 1 .. k
            BY <3>1, <5>3
          <5>4. QED
            BY <5>2, <5>3
        <4>2. QED
          BY <2>1, <3>2, <4>1
      <3>4. CASE f[k + 1] > f[i]
        <4>1. Is(k + 1, k + 1)
          <5>1. SUFFICES ASSUME NEW j \in 1 .. k + 1
                         PROVE  f[j] < f[k + 1] \/ (f[j] = f[k + 1] /\ k + 1 <= j)
            OBVIOUS
          <5>2. CASE j = k + 1
            BY <5>2
          <5>3. CASE j \in 1 .. k
            <6>1. f[j] <= f[i] /\ f[j] \in Nat
              BY <3>1, <3>2, <5>3
            <6>2. QED
              BY <2>1, <3>2, <3>4, <6>1
          <5>4. QED
            BY <5>2, <5>3
        <4>2. QED
          BY <2>1, <4>1
      <3>5. QED
        BY <2>1, <3>2, <3>3, <3>4
    <2>4. QED
      BY <2>2, <2>3
  <1>3. 0 .. n \subseteq S
    <2> HIDE DEF S
    <2>1. QED
      BY <1>1, <1>2, CountingTo
  <1>4. PICK i \in 1 .. n : Is(i, n)
    <2>1. n \in 0 .. n /\ n # 0
      OBVIOUS
    <2>2. n \in S
      BY <1>3, <2>1, Zenon
    <2>3. QED
      BY <2>1, <2>2, Zenon
  <1>5. DOMAIN f = 1 .. n
    OBVIOUS
  <1>6. QED
    BY <1>4, <1>5, Zenon DEF FirstLargest

\* The volume's shape, rounded down, and the remainder where it is largest.
Shaped(raw, q, total, curve) ==
    /\ raw = [i \in DOMAIN curve |-> (total * curve[i]) \div SumFunction(curve)]
    /\ q = [raw EXCEPT ![FirstLargest(raw)] = @ + total - SumFunction(raw)]

LEMMA VwapQuantities ==
    ASSUME NEW total \in Nat, NEW curve \in Seq(Nat), SumFunction(curve) > 0,
           NEW raw, NEW q, Shaped(raw, q, total, curve)
    PROVE  /\ q \in Seq(Nat) /\ Len(q) = Len(curve) /\ SumFunction(q) = total
           /\ \A i \in 1 .. Len(curve) :
                 q[i] * SumFunction(curve) > total * curve[i] - SumFunction(curve)
  <1>1. PICK n \in Nat : n = Len(curve)
    OBVIOUS
  <1>2. curve \in [1 .. n -> Nat] /\ curve \in [1 .. n -> Int] /\ DOMAIN curve = 1 .. n
    BY <1>1
  <1>3. IsFiniteSet(1 .. n)
    BY FS_Interval
  <1>4. Summable(curve, 1 .. n)
    BY <1>2, <1>3 DEF Summable
  <1>5. PICK V \in Nat \ {0} : V = SumFunction(curve)
    <2>1. SumFunction(curve) \in Int
      BY <1>4, SumType
    <2>2. QED
      BY <2>1
  <1>6. n # 0
    <2>1. ASSUME n = 0 PROVE DOMAIN curve = {}
      BY <1>2, <2>1
    <2>2. QED
      BY <1>5, <2>1, SumEmpty
  <1>7. raw = [i \in 1 .. n |-> (total * curve[i]) \div V]
    BY <1>2, <1>5 DEF Shaped
  <1>8. \A i \in 1 .. n : /\ raw[i] \in Nat /\ V * raw[i] <= total * curve[i]
                          /\ total * curve[i] < V * raw[i] + V
    <2>1. SUFFICES ASSUME NEW i \in 1 .. n
                   PROVE  /\ raw[i] \in Nat /\ V * raw[i] <= total * curve[i]
                          /\ total * curve[i] < V * raw[i] + V
      OBVIOUS
    <2>2. PICK a \in Nat : a = total * curve[i]
      BY <1>2
    <2>3. raw[i] = a \div V
      BY <1>7, <2>2
    <2>4. a \in Int /\ a >= 0
      OBVIOUS
    <2>5. PICK d \in Nat : d = a \div V /\ V * d <= a /\ a < V * d + V
      BY <2>4, Divides
    <2>6. QED
      BY <2>2, <2>3, <2>5
  <1>9. raw \in [1 .. n -> Nat] /\ raw \in [1 .. n -> Int]
    BY <1>7, <1>8
  <1>10. Summable(raw, 1 .. n)
    BY <1>3, <1>9 DEF Summable
  <1>11. PICK R \in Nat : R = SumFunction(raw)
    <2>1. \A i \in 1 .. n : raw[i] \in Nat
      BY <1>8
    <2>2. QED
      BY <1>10, <2>1, SumIsNatural
  <1>12. R <= total
    <2>1. total \in Int /\ V \in Int
      OBVIOUS
    <2>2. \A i \in 1 .. n : raw[i] * V <= curve[i] * total
      <3>1. SUFFICES ASSUME NEW i \in 1 .. n PROVE raw[i] * V <= curve[i] * total
        OBVIOUS
      <3>2. PICK x \in Nat, y \in Nat : x = raw[i] /\ y = curve[i]
        BY <1>2, <1>8
      <3>3. V * x <= total * y
        BY <1>8, <3>2
      <3>4. V * x = x * V /\ total * y = y * total
        OBVIOUS
      <3>5. QED
        BY <3>2, <3>3, <3>4
    <2>3. R * V <= V * total
      BY <1>4, <1>5, <1>10, <1>11, <2>1, <2>2, SumCompares
    <2>4. ASSUME R > total PROVE R * V > V * total
      <3>1. PICK x \in Nat : x = R - total /\ x > 0
        BY <2>4
      <3>2. R = total + x
        BY <3>1
      <3>3. R * V = total * V + x * V
        BY <3>2
      <3>4. x * V > 0
        BY <3>1
      <3>5. total * V = V * total
        OBVIOUS
      <3>6. QED
        BY <3>3, <3>4, <3>5
    <2>5. R * V \in Int /\ V * total \in Int
      OBVIOUS
    <2>6. QED
      BY <2>3, <2>4, <2>5
  <1>13. PICK top \in 1 .. n : top = FirstLargest(raw)
    BY <1>6, <1>9, FirstLargestExists
  <1>14. q = [raw EXCEPT ![top] = raw[top] + total - R]
    BY <1>11, <1>13 DEF Shaped
  <1>15. /\ q \in [1 .. n -> Nat] /\ q[top] = raw[top] + (total - R)
         /\ \A i \in (1 .. n) \ {top} : q[i] = raw[i]
    <2>1. raw[top] + total - R \in Nat /\ raw[top] + total - R = raw[top] + (total - R)
      BY <1>9, <1>12
    <2>2. QED
      BY <1>9, <1>14, <2>1
  <1>16. q \in Seq(Nat) /\ Len(q) = n /\ q \in [1 .. n -> Int]
    BY <1>15, ListOf
  <1>17. SumFunction(q) = R + (q[top] - raw[top])
    <2>1. Summable(q, 1 .. n) /\ Agree(raw, q, (1 .. n) \ {top})
      BY <1>3, <1>15, <1>16 DEF Summable, Agree
    <2>2. QED
      BY <1>10, <1>11, <2>1, SumReplaced
  <1>18. SumFunction(q) = total
    <2>1. raw[top] \in Nat
      BY <1>9
    <2>2. QED
      BY <1>15, <1>17, <2>1
  <1>19. ASSUME NEW i \in 1 .. n PROVE q[i] * V > total * curve[i] - V
    <2>1. PICK x \in Nat, y \in Nat : x = raw[i] /\ y = q[i] /\ x <= y
      <3>1. raw[i] \in Nat /\ q[i] \in Nat
        BY <1>9, <1>15
      <3>2. raw[i] <= q[i]
        <4>1. CASE i = top
          BY <1>12, <1>15, <3>1, <4>1
        <4>2. CASE i # top
          BY <1>15, <3>1, <4>2
        <4>3. QED
          BY <4>1, <4>2
      <3>3. QED
        BY <3>1, <3>2
    <2>2. PICK a \in Nat : a = total * curve[i]
      BY <1>2
    <2>3. a < V * x + V
      BY <1>8, <2>1, <2>2
    <2>4. V * x <= y * V
      <3>1. PICK z \in Nat : z = y - x
        BY <2>1
      <3>2. y = x + z
        BY <3>1
      <3>3. y * V = x * V + z * V /\ x * V = V * x /\ z * V >= 0
        BY <3>2
      <3>4. QED
        BY <3>3
    <2>5. y * V \in Int /\ V * x \in Int
      OBVIOUS
    <2>6. y * V > a - V
      BY <2>3, <2>4, <2>5
    <2>7. QED
      BY <2>1, <2>2, <2>6
  <1>20. QED
    BY <1>1, <1>5, <1>16, <1>18, <1>19

\* c are the children of quantities that make up the total.
MadeOf(c, q, total) == q \in Seq(Nat) /\ c = Children(q) /\ SumFunction(q) = total

LEMMA MadeSound ==
    ASSUME NEW q, NEW c, NEW total, MadeOf(c, q, total)
    PROVE  /\ Total(c) = total
           /\ \A i \in DOMAIN c : /\ c[i].quantity > 0 /\ (i > 1 => c[i - 1].sequence < c[i].sequence)
                                  /\ c[i].sequence \in Nat /\ c[i].sequence + 1 \in 1 .. Len(q)
                                  /\ c[i].quantity = q[c[i].sequence + 1]
  <1>1. AreChildren(c, q, Len(q)) /\ Total(c) = SumFunction(q)
    BY ChildrenSound DEF MadeOf
  <1>2. c \in Seq(Child)
    BY <1>1 DEF AreChildren
  <1>3. ASSUME NEW i \in DOMAIN c
        PROVE  /\ c[i].quantity > 0 /\ (i > 1 => c[i - 1].sequence < c[i].sequence)
               /\ c[i].sequence \in Nat /\ c[i].sequence + 1 \in 1 .. Len(q)
               /\ c[i].quantity = q[c[i].sequence + 1]
    <2>1. i \in 1 .. Len(c) /\ c[i] \in Child
      BY <1>2
    <2>2. /\ c[i].sequence < Len(q) /\ c[i].quantity = q[c[i].sequence + 1] /\ c[i].quantity > 0
          /\ i > 1 => c[i - 1].sequence < c[i].sequence
      BY <1>1, <2>1 DEF AreChildren
    <2>3. c[i].sequence \in Nat
      BY <2>1 DEF Child
    <2>4. Len(q) \in Nat
      BY DEF MadeOf
    <2>5. c[i].sequence + 1 \in 1 .. Len(q)
      BY <2>2, <2>3, <2>4
    <2>6. QED
      BY <2>2, <2>3, <2>5
  <1>4. QED
    BY <1>1, <1>3 DEF MadeOf

\* Every schedule keeps what its algorithm promises.
LEMMA SchedulesHold ==
    ASSUME SlicesOK
    PROVE  ScheduleSound
  <1>1. CASE slices = None
    BY <1>1 DEF ScheduleSound
  <1>2. ASSUME NEW a \in Schedules, Schedulable(a), slices = [ask |-> a, children |-> Scheduled(a)]
        PROVE  ScheduleSound
    <2>1. PICK c : c = Scheduled(a)
      OBVIOUS
    <2>2. slices.ask = a /\ slices.children = c
      BY <1>2, <2>1
    <2>3. PICK total \in Nat \ {0} : total = a.total
      BY <1>2, ExecutionAssumption DEF Schedulable
    <2>4. PICK v \in Seq(Nat), num \in Nat, den \in Nat \ {0} :
            v = a.volumes /\ num = a.rate[1] /\ den = a.rate[2]
      BY ExecutionAssumption
    <2>5. a.n \in Int
      BY ExecutionAssumption
    <2> DEFINE Kept ==
          /\ Total(c) = total
          /\ \A i \in DOMAIN c : c[i].quantity > 0 /\ (i > 1 => c[i - 1].sequence < c[i].sequence)
    <2>6. CASE a.style = "TWAP"
      <3>1. PICK n \in Nat \ {0} : n = a.n
        BY <1>2, <2>5, <2>6 DEF Schedulable
      <3>2. PICK q : Even(q, total, n)
        BY DEF Even
      <3>3. c = Children(q)
        BY <2>1, <2>3, <2>6, <3>1, <3>2 DEF Scheduled, Twap, Even
      <3>4. /\ q \in Seq(Nat) /\ Len(q) = n /\ SumFunction(q) = total
            /\ \A i, j \in 1 .. n : q[i] - q[j] <= 1
        BY <3>2, TwapQuantities
      <3>5. MadeOf(c, q, total)
        BY <3>3, <3>4 DEF MadeOf
      <3>6. Kept
        BY <3>5, MadeSound
      <3>7. \A i, j \in DOMAIN c : c[i].quantity - c[j].quantity <= 1
        <4>1. \A i \in DOMAIN c : /\ c[i].sequence + 1 \in 1 .. n
                                  /\ c[i].quantity = q[c[i].sequence + 1]
          BY <3>4, <3>5, MadeSound
        <4>2. QED
          BY <3>4, <4>1
      <3>8. QED
        BY <2>2, <2>3, <2>6, <3>6, <3>7 DEF ScheduleSound
    <2>7. CASE a.style = "ICEBERG"
      <3>1. PICK shown \in Nat \ {0} : shown = a.n
        BY <1>2, <2>5, <2>7 DEF Schedulable
      <3>2. PICK n, q : Shown(q, total, shown, n)
        BY DEF Shown
      <3>3. c = Children(q)
        BY <2>1, <2>3, <2>7, <3>1, <3>2 DEF Scheduled, Iceberg, Shown
      <3>4. /\ n \in Nat /\ q \in Seq(Nat) /\ Len(q) = n /\ SumFunction(q) = total
            /\ \A i \in 1 .. n : q[i] <= shown
        BY <3>2, IcebergQuantities
      <3>5. MadeOf(c, q, total)
        BY <3>3, <3>4 DEF MadeOf
      <3>6. Kept
        BY <3>5, MadeSound
      <3>7. \A i \in DOMAIN c : c[i].quantity <= shown
        BY <3>4, <3>5, MadeSound
      <3>8. QED
        BY <2>2, <2>3, <2>7, <3>1, <3>6, <3>7 DEF ScheduleSound
    <2>8. CASE a.style = "VWAP"
      <3>1. SumFunction(v) > 0
        BY <1>2, <2>4, <2>8 DEF Schedulable
      <3>2. PICK raw, q : Shaped(raw, q, total, v)
        BY DEF Shaped
      <3>3. c = Children(q)
        BY <2>1, <2>3, <2>4, <2>8, <3>2 DEF Scheduled, Vwap, Shaped
      <3>4. /\ q \in Seq(Nat) /\ Len(q) = Len(v) /\ SumFunction(q) = total
            /\ \A i \in 1 .. Len(v) : q[i] * SumFunction(v) > total * v[i] - SumFunction(v)
        BY <3>1, <3>2, VwapQuantities
      <3>5. MadeOf(c, q, total)
        BY <3>3, <3>4 DEF MadeOf
      <3>6. Kept
        BY <3>5, MadeSound
      <3>7. \A i \in DOMAIN c :
              c[i].quantity * SumFunction(v) > (total * v[c[i].sequence + 1]) - SumFunction(v)
        <4>1. \A i \in DOMAIN c : /\ c[i].sequence + 1 \in 1 .. Len(v)
                                  /\ c[i].quantity = q[c[i].sequence + 1]
          BY <3>4, <3>5, MadeSound
        <4>2. QED
          BY <3>4, <4>1, Zenon
      <3>8. QED
        BY <2>2, <2>3, <2>4, <2>8, <3>6, <3>7 DEF ScheduleSound
    <2>9. CASE a.style \notin {"TWAP", "ICEBERG", "VWAP"}
      <3>1. PICK n, rooms : n \in Nat /\ n = Len(v) /\ rooms = Rooms(v, a.rate)
        <4>1. Len(v) \in Nat
          OBVIOUS
        <4>2. QED
          BY <4>1
      <3>2. ASSUME NEW i \in 1 .. n
            PROVE  rooms[i] \in Nat /\ rooms[i] * den <= v[i] * num
        <4>1. PICK x \in Nat : x = v[i] * num
          BY <3>1
        <4>2. x \in Int /\ x >= 0
          OBVIOUS
        <4>3. PICK d \in Nat : d = x \div den /\ den * d <= x
          BY <4>2, Divides
        <4>4. rooms[i] = d
          BY <2>4, <3>1, <4>1, <4>3 DEF Rooms
        <4>5. den * d = d * den
          OBVIOUS
        <4>6. QED
          BY <4>1, <4>3, <4>4, <4>5
      <3>3. rooms \in [1 .. n -> Nat] /\ Len(rooms) = n
        <4>1. rooms = [i \in 1 .. n |-> rooms[i]]
          BY <3>1 DEF Rooms
        <4>2. rooms \in [1 .. n -> Nat]
          BY <3>2, <4>1
        <4>3. QED
          BY <3>1, <4>2, ListOf
      <3>4. PICK f : f = Rationed(total, rooms)
        OBVIOUS
      <3>5. IsRation(f, total, rooms, n)
        BY <3>3, <3>4, RationedIs
      <3>6. PICK q : q = [i \in 1 .. n + 1 |-> IF i <= n THEN f[i - 1] - f[i] ELSE f[n]]
        OBVIOUS
      <3>7. c = Children(q)
        <4>1. c = Participation(total, v, a.rate)
          BY <2>1, <2>3, <2>4, <2>9 DEF Scheduled
        <4>2. QED
          BY <3>1, <3>4, <3>6, <4>1 DEF Participation
      <3>8. /\ q \in Seq(Nat) /\ Len(q) = n + 1 /\ SumFunction(q) = total
            /\ \A i \in 1 .. n : q[i] <= rooms[i]
        <4>1. Participates(q, f, rooms, total, n)
          BY <3>5, <3>6 DEF Participates
        <4>2. QED
          <5>1. n \in Nat /\ total \in Nat /\ rooms \in [1 .. n -> Nat]
            BY <3>1, <3>3
          <5>2. QED
            BY <4>1, <5>1, ParticipationQuantities, Zenon
      <3>9. MadeOf(c, q, total)
        BY <3>7, <3>8 DEF MadeOf
      <3>10. Kept
        BY <3>9, MadeSound
      <3>11. ASSUME NEW i \in DOMAIN c, c[i].sequence < Len(v)
             PROVE  c[i].quantity * den <= v[c[i].sequence + 1] * num
        <4>1. PICK k \in Nat : k = c[i].sequence /\ k + 1 \in 1 .. n + 1 /\ c[i].quantity = q[k + 1]
          <5>1. /\ c[i].sequence \in Nat /\ c[i].sequence + 1 \in 1 .. Len(q)
                /\ c[i].quantity = q[c[i].sequence + 1]
            BY <3>9, MadeSound
          <5>2. Len(q) = n + 1
            BY <3>8
          <5>3. QED
            BY <5>1, <5>2
        <4>2. k + 1 \in 1 .. n
          BY <3>1, <3>11, <4>1
        <4>3. q[k + 1] <= rooms[k + 1] /\ rooms[k + 1] * den <= v[k + 1] * num
              /\ rooms[k + 1] \in Nat /\ q[k + 1] \in Nat /\ v[k + 1] \in Nat
          <5>1. q[k + 1] <= rooms[k + 1] /\ rooms[k + 1] * den <= v[k + 1] * num /\ rooms[k + 1] \in Nat
            BY <3>2, <3>8, <4>2
          <5>2. q \in Seq(Nat) /\ k + 1 \in 1 .. Len(q) /\ k + 1 \in 1 .. Len(v)
            BY <3>1, <3>8, <4>1, <4>2
          <5>3. q[k + 1] \in Nat /\ v[k + 1] \in Nat
            BY <5>2
          <5>4. QED
            BY <5>1, <5>3
        <4>4. PICK x \in Nat, y \in Nat, z \in Nat :
                x = q[k + 1] /\ y = rooms[k + 1] /\ z = v[k + 1] * num
          BY <4>3
        <4>5. x <= y /\ y * den <= z
          BY <4>3, <4>4
        <4>6. x * den <= z
          <5>1. PICK w \in Nat : w = y - x
            BY <4>5
          <5>2. y = x + w
            BY <5>1
          <5>3. y * den = x * den + w * den /\ w * den >= 0
            BY <5>2
          <5>4. x * den \in Int /\ y * den \in Int
            OBVIOUS
          <5>5. QED
            BY <4>5, <5>3, <5>4
        <4>7. c[i].quantity = x /\ v[c[i].sequence + 1] * num = z
          BY <4>1, <4>4
        <4>8. QED
          BY <4>6, <4>7
      <3>12. QED
        BY <2>2, <2>3, <2>4, <2>9, <3>10, <3>11 DEF ScheduleSound
    <2>10. QED
      BY <2>6, <2>7, <2>8, <2>9
  <1>3. QED
    BY <1>1, <1>2 DEF SlicesOK

(***************************************************************************)
(* The fill simulator: what the levels give, and at what average.          *)
(***************************************************************************)
LEMMA WantedIs ==
    ASSUME NEW total, NEW rooms, NEW n \in Nat, Len(rooms) = n
    PROVE  IsRation(Wanted(total, rooms), total, rooms, n)
  <1>1. PICK f : f = CHOOSE g : IsRation(g, total, rooms, Len(rooms))
    OBVIOUS
  <1>2. IsRation(f, total, rooms, n)
    BY <1>1, RationExists
  <1>3. Wanted(total, rooms) = f
    BY <1>1 DEF Wanted, IsRation, Rest
  <1>4. QED
    BY <1>2, <1>3

\* What is taken of each.
Taken(f, n) == [k \in 1 .. n |-> f[k - 1] - f[k]]

\* As much is taken as is wanted and there.
LEMMA RationTotal ==
    ASSUME NEW n \in Nat, NEW total \in Nat, NEW rooms \in [1 .. n -> Nat], NEW f,
           Fits(f, total, rooms, n)
    PROVE  /\ Taken(f, n) \in [1 .. n -> Nat] /\ SumFunction(Taken(f, n)) = total - f[n]
           /\ total - f[n] = Min({total, SumFunction(rooms)})
           /\ \A k \in 1 .. n : Taken(f, n)[k] <= rooms[k]
  <1>1. /\ f \in [0 .. n -> Nat] /\ f[0] = total
        /\ \A k \in 1 .. n : /\ f[k] <= f[k - 1] /\ f[k - 1] - f[k] <= rooms[k]
                             /\ f[k] > 0 => f[k - 1] - f[k] = rooms[k]
    BY DEF Fits
  <1>2. PICK t : t = Taken(f, n)
    OBVIOUS
  <1>3. \A k \in 1 .. n : k - 1 \in 0 .. n /\ k \in 0 .. n /\ f[k - 1] \in Nat /\ f[k] \in Nat
    BY <1>1
  <1>4. \A k \in 1 .. n : t[k] = f[k - 1] - f[k] /\ t[k] \in Nat
    BY <1>1, <1>2, <1>3 DEF Taken
  <1>5. t \in [1 .. n -> Nat] /\ t \in [1 .. n -> Int]
    BY <1>2, <1>4 DEF Taken
  <1>6. IsFiniteSet(1 .. n)
    BY FS_Interval
  <1>7. Summable(t, 1 .. n) /\ Summable(rooms, 1 .. n)
    BY <1>5, <1>6 DEF Summable
  <1>8. PICK last \in Nat : last = f[n]
    BY <1>1
  <1>9. SumFunction(t) = total - last
    <2>1. PICK g : g = [k \in 0 .. n |-> total - f[k]]
      OBVIOUS
    <2>2. ASSUME NEW k \in 0 .. n
          PROVE  g[k] \in Int /\ (k < n => g[k + 1] = g[k] + t[k + 1])
      <3>1. f[k] \in Nat /\ g[k] = total - f[k]
        BY <1>1, <2>1
      <3>2. ASSUME k < n PROVE g[k + 1] = g[k] + t[k + 1]
        <4>1. k + 1 \in 1 .. n /\ (k + 1) - 1 = k /\ k + 1 \in 0 .. n
          BY <3>2
        <4>2. t[k + 1] = f[k] - f[k + 1] /\ g[k + 1] = total - f[k + 1] /\ f[k + 1] \in Nat
          BY <1>1, <1>4, <2>1, <4>1
        <4>3. QED
          BY <3>1, <4>2
      <3>3. QED
        BY <3>1, <3>2
    <2>3. g[0] = 0 /\ g[n] = total - last
      BY <1>1, <1>8, <2>1
    <2>4. Grows(g, t, n)
      BY <2>2, <2>3 DEF Grows
    <2>5. QED
      BY <1>5, <2>3, <2>4, SumTelescopes
  <1>10. PICK R \in Nat : R = SumFunction(rooms)
    <2>1. \A k \in 1 .. n : rooms[k] \in Nat
      OBVIOUS
    <2>2. QED
      BY <1>7, <2>1, SumIsNatural
  <1>11. total - last <= R
    <2>1. PICK one \in Int : one = 1
      OBVIOUS
    <2>2. \A k \in 1 .. n : t[k] * one <= rooms[k] * one
      BY <1>1, <1>4, <2>1
    <2>3. SumFunction(t) * one <= SumFunction(rooms) * one
      BY <1>7, <2>2, SumCompares
    <2>4. QED
      BY <1>9, <1>10, <2>1, <2>3
  <1>12. ASSUME last > 0 PROVE total - last = R
    <2> DEFINE S == {m \in 0 .. n : f[n - m] >= last}
    <2>1. 0 \in S
      BY <1>8
    <2>2. ASSUME NEW m \in 0 .. n, m \in S, m < n PROVE m + 1 \in S
      <3>1. n - m \in 1 .. n /\ (n - m) - 1 = n - (m + 1) /\ m + 1 \in 0 .. n
        BY <2>2
      <3>2. f[n - m] >= last /\ f[n - m] <= f[n - (m + 1)] /\ f[n - m] \in Nat /\ f[n - (m + 1)] \in Nat
        <4>1. f[n - m] <= f[(n - m) - 1] /\ f[n - m] \in Nat /\ f[(n - m) - 1] \in Nat
          BY <1>1, <1>3, <3>1
        <4>2. QED
          BY <2>2, <3>1, <4>1
      <3>3. QED
        BY <3>1, <3>2
    <2>3. 0 .. n \subseteq S
      <3> HIDE DEF S
      <3>1. QED
        BY <2>1, <2>2, CountingTo
    <2>4. ASSUME NEW k \in 1 .. n PROVE t[k] = rooms[k]
      <3>1. n - k \in 0 .. n /\ n - (n - k) = k
        OBVIOUS
      <3>2. f[k] >= last
        <4>1. n - k \in S
          BY <2>3, <3>1
        <4>2. f[n - (n - k)] >= last
          BY <4>1
        <4>3. QED
          BY <3>1, <4>2
      <3>3. f[k] > 0
        BY <1>3, <1>12, <3>2
      <3>4. QED
        BY <1>1, <1>4, <3>3
    <2>5. t = rooms
      BY <1>5, <2>4
    <2>6. QED
      BY <1>9, <1>10, <2>5
  <1>13. PICK m : m = Min({total, R})
    OBVIOUS
  <1>14. m \in {total, R} /\ m <= total /\ m <= R
    <2>1. total \in Int /\ R \in Int
      OBVIOUS
    <2>2. QED
      BY <1>13, <2>1, MinOfTwo
  <1>15. total - last = m
    <2>1. CASE last = 0
      BY <1>11, <1>14, <2>1
    <2>2. CASE last > 0
      BY <1>12, <1>14, <2>2
    <2>3. QED
      BY <2>1, <2>2
  <1>16. \A k \in 1 .. n : t[k] <= rooms[k]
    BY <1>1, <1>4
  <1>17. QED
    BY <1>2, <1>5, <1>8, <1>9, <1>10, <1>13, <1>15, <1>16

\* A factor is taken from both sides.
LEMMA FactorTaken ==
    ASSUME NEW m \in Nat \ {0}, NEW a \in Int, NEW b \in Int, m * a < m * b + m
    PROVE  a <= b
  <1>1. SUFFICES ASSUME a > b PROVE FALSE
    OBVIOUS
  <1>2. PICK x \in Nat \ {0} : x = a - b
    BY <1>1
  <1>3. a = b + x /\ x = 1 + (x - 1) /\ x - 1 \in Nat
    BY <1>2
  <1>4. PICK y \in Nat : y = x - 1
    BY <1>3
  <1>5. a = b + 1 + y
    BY <1>3, <1>4
  <1>6. m * a = m * b + m + m * y /\ m * y >= 0
    BY <1>5
  <1>7. m * b \in Int /\ m * y \in Int /\ m * a \in Int
    OBVIOUS
  <1>8. QED
    BY <1>6, <1>7

\* An average is between what bounds its parts, and so is its tick on either side.
Between(t, price, paid, m, lo, hi, n) ==
    /\ t \in [1 .. n -> Nat] /\ price \in [1 .. n -> Int]
    /\ m = SumFunction(t) /\ paid = SumFunction([k \in 1 .. n |-> t[k] * price[k]])
    /\ \A k \in 1 .. n : t[k] > 0 => lo <= price[k] /\ price[k] <= hi

LEMMA AverageBetween ==
    ASSUME NEW n \in Nat, NEW lo \in Int, NEW hi \in Int, NEW m \in Nat \ {0},
           NEW t, NEW price, NEW paid, Between(t, price, paid, m, lo, hi, n), NEW side
    PROVE  ToTick(paid, m, side) \in lo .. hi
  <1>1. PICK g : g = [k \in 1 .. n |-> t[k] * price[k]]
    OBVIOUS
  <1>2. IsFiniteSet(1 .. n)
    BY FS_Interval
  <1>3. t \in [1 .. n -> Nat] /\ price \in [1 .. n -> Int] /\ m = SumFunction(t)
        /\ paid = SumFunction(g)
    BY <1>1 DEF Between
  <1>4. ASSUME NEW k \in 1 .. n
        PROVE  /\ g[k] \in Int
               /\ t[k] * lo <= g[k] * 1 /\ g[k] * 1 <= t[k] * hi
    <2>1. PICK x \in Nat, p \in Int : x = t[k] /\ p = price[k]
      BY <1>3
    <2>2. g[k] = x * p /\ (x > 0 => lo <= p /\ p <= hi)
      BY <1>1, <2>1 DEF Between
    <2>3. CASE x = 0
      BY <2>1, <2>2, <2>3
    <2>4. CASE x > 0
      <3>1. PICK u \in Nat, w \in Nat : u = p - lo /\ w = hi - p
        BY <2>2, <2>4
      <3>2. p = lo + u /\ hi = p + w
        BY <3>1
      <3>3. x * p = x * lo + x * u /\ x * hi = x * p + x * w /\ x * u >= 0 /\ x * w >= 0
        BY <3>2
      <3>4. x * lo <= x * p /\ x * p <= x * hi
        BY <3>3
      <3>5. PICK y \in Int : y = x * p
        OBVIOUS
      <3>6. g[k] = y /\ x * lo <= y * 1 /\ y * 1 <= x * hi
        BY <2>2, <3>4, <3>5
      <3>7. QED
        BY <2>1, <3>6
    <2>5. QED
      BY <2>3, <2>4
  <1>5. Summable(t, 1 .. n) /\ Summable(g, 1 .. n)
    <2>1. g \in [1 .. n -> Int] /\ t \in [1 .. n -> Int]
      BY <1>1, <1>3, <1>4
    <2>2. QED
      BY <1>2, <2>1 DEF Summable
  <1>6. PICK one \in Int, P \in Int : one = 1 /\ P = paid
    BY <1>3, <1>5, SumType
  <1>7. \A k \in 1 .. n : t[k] * lo <= g[k] * one /\ g[k] * one <= t[k] * hi
    BY <1>4, <1>6
  <1>8. SumFunction(t) * lo <= SumFunction(g) * one
    BY <1>5, <1>7, SumCompares
  <1>9. SumFunction(g) * one <= SumFunction(t) * hi
    BY <1>5, <1>7, SumCompares
  <1>10. m * lo <= P /\ P <= m * hi
    <2>1. m * lo <= P * one
      BY <1>3, <1>6, <1>8
    <2>2. P * one <= m * hi
      BY <1>3, <1>6, <1>9
    <2>3. QED
      BY <1>6, <2>1, <2>2
  <1>11. PICK d \in Int : d = P \div m /\ m * d <= P /\ P < m * d + m
    BY Divides
  <1>12. PICK e \in Int : e = (P + m - 1) \div m /\ m * e <= P + m - 1 /\ P + m - 1 < m * e + m
    <2>1. P + m - 1 \in Int
      OBVIOUS
    <2>2. QED
      BY <2>1, Divides
  <1>13. d \in lo .. hi
    <2>1. m * lo \in Int /\ m * hi \in Int /\ m * d \in Int
      OBVIOUS
    <2>2. m * lo < m * d + m /\ m * d < m * hi + m
      BY <1>10, <1>11, <2>1
    <2>3. lo <= d /\ d <= hi
      BY <2>2, FactorTaken
    <2>4. QED
      BY <2>3
  <1>14. e \in lo .. hi
    <2>1. m * lo \in Int /\ m * hi \in Int /\ m * e \in Int
      OBVIOUS
    <2>2. m * lo < m * e + m /\ m * e < m * hi + m
      BY <1>10, <1>12, <2>1
    <2>3. lo <= e /\ e <= hi
      BY <2>2, FactorTaken
    <2>4. QED
      BY <2>3
  <1>15. QED
    BY <1>6, <1>11, <1>12, <1>13, <1>14 DEF ToTick

\* The first five levels of a side.
FirstOf(lv, s, n) ==
    /\ lv \in Seq(DepthLevels) /\ Len(lv) = n /\ n <= 5 /\ n <= Len(s)
    /\ \A k \in 1 .. n : lv[k] = s[k]
    /\ \A k \in DOMAIN s : k <= 5 => k \in 1 .. n

LEMMA FirstLevels ==
    ASSUME NEW s \in Seq(DepthLevels)
    PROVE  \E n \in Nat : FirstOf(FirstFive(s), s, n)
  <1>1. PICK L, n : L \in Nat /\ L = Len(s) /\ n = Min({5, L})
    OBVIOUS
  <1>2. n \in {5, L} /\ n <= 5 /\ n <= L
    <2>1. 5 \in Int /\ L \in Int
      BY <1>1
    <2>2. QED
      BY <1>1, <2>1, MinOfTwo
  <1>3. n \in Nat
    BY <1>1, <1>2
  <1>4. PICK lv : lv = FirstFive(s)
    OBVIOUS
  <1>5. lv = SubSeq(s, 1, n)
    BY <1>1, <1>4 DEF FirstFive
  <1>6. \A i \in 1 .. n : s[i] \in DepthLevels
    BY <1>1, <1>2, <1>3
  <1>7. 1 \in Int /\ n \in Int
    BY <1>3
  <1>8. /\ lv \in Seq(DepthLevels) /\ Len(lv) = (IF 1 <= n THEN n - 1 + 1 ELSE 0)
        /\ \A i \in 1 .. n - 1 + 1 : lv[i] = s[1 + i - 1]
    BY <1>5, <1>6, <1>7, SubSeqProperties
  <1>9. Len(lv) = n
    BY <1>3, <1>8
  <1>10. \A k \in 1 .. n : lv[k] = s[k]
    <2>1. \A k \in 1 .. n : k \in 1 .. n - 1 + 1 /\ 1 + k - 1 = k
      BY <1>3
    <2>2. QED
      BY <1>8, <2>1
  <1>11. \A k \in DOMAIN s : k <= 5 => k \in 1 .. n
    BY <1>1, <1>2
  <1>12. QED
    BY <1>1, <1>2, <1>3, <1>4, <1>8, <1>9, <1>10, <1>11 DEF FirstOf

\* The levels within the first five that the limit allows.
InReach(r) ==
    {k \in DOMAIN Side(r) :
        k <= 5 /\ (r.type = "MARKET" \/ r.limit = NoLimit
                     \/ (IF r.side = "BUY" THEN Side(r)[k].price <= r.limit
                                           ELSE Side(r)[k].price >= r.limit))}

\* A side's levels are numbers, the best first.
LEMMA SideSorted ==
    ASSUME NEW r \in SimRequests
    PROVE  /\ Side(r) \in Seq(DepthLevels)
           /\ \A i, j \in DOMAIN Side(r) : i < j =>
                 IF r.side = "BUY" THEN Side(r)[i].price <= Side(r)[j].price
                                   ELSE Side(r)[i].price >= Side(r)[j].price
  <1>1. CASE r.side = "BUY"
    <2>1. Side(r) = r.asks
      BY <1>1 DEF Side
    <2>2. r.asks \in Seq(DepthLevels)
          /\ \A i, j \in DOMAIN r.asks : i < j => r.asks[i].price <= r.asks[j].price
      BY SimAssumption
    <2>3. QED
      BY <1>1, <2>1, <2>2
  <1>2. CASE r.side # "BUY"
    <2>1. Side(r) = r.bids
      BY <1>2 DEF Side
    <2>2. r.bids \in Seq(DepthLevels)
          /\ \A i, j \in DOMAIN r.bids : i < j => r.bids[i].price >= r.bids[j].price
      BY SimAssumption
    <2>3. QED
      BY <1>2, <2>1, <2>2
  <1>3. QED
    BY <1>1, <1>2

\* A level gives what it holds when the limit allows it, and nothing otherwise: as the best
\* level is first, none behind one that is beyond the limit is within it.
LEMMA OffersAreWithin ==
    ASSUME NEW r \in SimRequests, NEW lv, NEW n \in Nat, FirstOf(lv, Side(r), n)
    PROVE  /\ Offered(r, lv) \in [1 .. n -> Nat] /\ Len(Offered(r, lv)) = n
           /\ InReach(r) \subseteq 1 .. n
           /\ \A k \in 1 .. n : Offered(r, lv)[k] = IF k \in InReach(r) THEN Side(r)[k].quantity ELSE 0
  <1>1. PICK s, w, o : s = Side(r) /\ w = InReach(r) /\ o = Offered(r, lv)
    OBVIOUS
  <1>2. /\ lv \in Seq(DepthLevels) /\ Len(lv) = n /\ n <= 5 /\ n <= Len(s)
        /\ \A k \in 1 .. n : lv[k] = s[k]
        /\ \A k \in DOMAIN s : k <= 5 => k \in 1 .. n
    BY <1>1 DEF FirstOf
  <1>3. w \subseteq 1 .. n
    BY <1>1, <1>2 DEF InReach
  <1>4. s \in Seq(DepthLevels)
    BY <1>1, SideSorted
  <1>5. \A k \in 1 .. n : /\ k \in DOMAIN s /\ k <= 5 /\ s[k] \in DepthLevels
                          /\ s[k].price \in Int /\ s[k].quantity \in Nat
    <2>1. \A k \in 1 .. n : k \in DOMAIN s /\ k <= 5 /\ s[k] \in DepthLevels
      BY <1>2, <1>4
    <2>2. QED
      BY <2>1 DEF DepthLevels
  <1>6. r.type \in {"MARKET", "LIMIT"} /\ r.limit \in Int
    BY SimAssumption
  <1>7. ASSUME NEW k \in 1 .. n PROVE (k \in w) = ~Beyond(r, s[k].price)
    <2>1. (k \in w) = (r.type = "MARKET" \/ r.limit = NoLimit
                        \/ (IF r.side = "BUY" THEN s[k].price <= r.limit ELSE s[k].price >= r.limit))
      BY <1>1, <1>5 DEF InReach
    <2>2. PICK p \in Int, l \in Int : p = s[k].price /\ l = r.limit
      BY <1>5, <1>6
    <2>3. QED
      BY <1>6, <2>1, <2>2 DEF Beyond
  <1>8. ASSUME NEW k \in 1 .. n, NEW j \in 1 .. k, Beyond(r, s[j].price)
        PROVE  Beyond(r, s[k].price)
    <2>1. j \in 1 .. n
      OBVIOUS
    <2>2. PICK p \in Int, x \in Int, l \in Int : p = s[j].price /\ x = s[k].price /\ l = r.limit
      BY <1>5, <1>6, <2>1
    <2>3. IF r.side = "BUY" THEN p <= x ELSE p >= x
      <3>1. CASE j = k
        BY <2>2, <3>1
      <3>2. CASE j < k
        <4>1. j \in DOMAIN s /\ k \in DOMAIN s
          BY <1>5, <2>1
        <4>2. IF r.side = "BUY" THEN s[j].price <= s[k].price ELSE s[j].price >= s[k].price
          <5>1. \A i, m \in DOMAIN Side(r) : i < m =>
                   IF r.side = "BUY" THEN Side(r)[i].price <= Side(r)[m].price
                                     ELSE Side(r)[i].price >= Side(r)[m].price
            BY SideSorted
          <5>2. QED
            BY <1>1, <3>2, <4>1, <5>1
        <4>3. QED
          BY <2>2, <4>2
      <3>3. QED
        BY <3>1, <3>2
    <2>4. QED
      BY <1>8, <2>2, <2>3 DEF Beyond
  <1>9. ASSUME NEW k \in 1 .. n
        PROVE  o[k] = IF k \in w THEN s[k].quantity ELSE 0
    <2>1. o[k] = IF \E j \in 1 .. k : Beyond(r, lv[j].price) THEN 0 ELSE lv[k].quantity
      BY <1>1, <1>2 DEF Offered
    <2>2. \A j \in 1 .. k : lv[j] = s[j]
      BY <1>2
    <2>3. (\E j \in 1 .. k : Beyond(r, lv[j].price)) <=> Beyond(r, s[k].price)
      <3>1. ASSUME Beyond(r, s[k].price) PROVE \E j \in 1 .. k : Beyond(r, lv[j].price)
        <4>1. k \in 1 .. k
          OBVIOUS
        <4>2. QED
          BY <2>2, <3>1, <4>1
      <3>2. ASSUME NEW j \in 1 .. k, Beyond(r, lv[j].price) PROVE Beyond(r, s[k].price)
        <4>1. Beyond(r, s[j].price)
          BY <2>2, <3>2
        <4>2. QED
          BY <1>8, <4>1, Zenon
      <3>3. QED
        BY <3>1, <3>2
    <2>4. lv[k] = s[k]
      BY <1>2
    <2>5. CASE k \in w
      BY <1>7, <2>1, <2>3, <2>4, <2>5
    <2>6. CASE k \notin w
      BY <1>7, <2>1, <2>3, <2>6
    <2>7. QED
      BY <2>5, <2>6
  <1>10. o = [k \in 1 .. n |-> o[k]]
    BY <1>1, <1>2 DEF Offered
  <1>11. o \in [1 .. n -> Nat]
    BY <1>5, <1>9, <1>10
  <1>12. Len(o) = n
    BY <1>11, ListOf
  <1>13. QED
    BY <1>1, <1>3, <1>9, <1>11, <1>12

\* What an order gets of the levels within its limit, and at what price.
GetsWithin(r, got) ==
    /\ got.quantity = Min({r.quantity, SumFunction([k \in InReach(r) |-> Side(r)[k].quantity])})
    /\ got.quantity > 0 =>
          \E worst \in InReach(r) :
              IF r.side = "BUY"
              THEN got.price \in Side(r)[1].price .. Side(r)[worst].price
              ELSE got.price \in Side(r)[worst].price .. Side(r)[1].price

LEMMA DepthFillGets ==
    ASSUME NEW r \in SimRequests, r.quantity > 0
    PROVE  GetsWithin(r, DepthFill(r)) /\ DepthFill(r).quantity \in 0 .. r.quantity
  <1>1. PICK s, w, lv, o : s = Side(r) /\ w = InReach(r) /\ lv = FirstFive(s) /\ o = Offered(r, lv)
    OBVIOUS
  <1>2. s \in Seq(DepthLevels)
    BY <1>1, SideSorted
  <1>3. PICK n \in Nat : FirstOf(lv, s, n)
    BY <1>1, <1>2, FirstLevels
  <1>4. /\ o \in [1 .. n -> Nat] /\ Len(o) = n /\ w \subseteq 1 .. n
        /\ \A k \in 1 .. n : o[k] = IF k \in w THEN s[k].quantity ELSE 0
    BY <1>1, <1>3, OffersAreWithin
  <1>5. PICK total \in Nat \ {0} : total = r.quantity
    BY SimAssumption
  <1>6. total \in Nat
    OBVIOUS
  <1>7. PICK f : f = Wanted(total, o)
    OBVIOUS
  <1>8. Fits(f, total, o, n)
    <2>1. IsRation(f, total, o, n)
      BY <1>4, <1>7, WantedIs
    <2>2. QED
      BY <1>4, <1>6, <2>1, RationShape
  <1>9. PICK t : t = Taken(f, n)
    OBVIOUS
  <1>10. PICK R : R = SumFunction(o)
    OBVIOUS
  <1>11. /\ t \in [1 .. n -> Nat] /\ SumFunction(t) = total - f[n]
         /\ total - f[n] = Min({total, R})
         /\ \A k \in 1 .. n : t[k] <= o[k]
    <2>1. o \in [1 .. n -> Nat]
      BY <1>4
    <2>2. /\ Taken(f, n) \in [1 .. n -> Nat] /\ SumFunction(Taken(f, n)) = total - f[n]
          /\ total - f[n] = Min({total, SumFunction(o)})
          /\ \A k \in 1 .. n : Taken(f, n)[k] <= o[k]
      BY <1>6, <1>8, <2>1, RationTotal
    <2>3. QED
      BY <1>9, <1>10, <2>2
  <1>12. f[n] \in Nat
    BY <1>8 DEF Fits
  <1>13. PICK m \in Int : m = total - f[n]
    BY <1>12
  <1>14. m \in 0 .. total
    <2>1. IsFiniteSet(1 .. n)
      BY FS_Interval
    <2>2. Summable(t, 1 .. n) /\ \A k \in 1 .. n : t[k] \in Nat
      BY <1>11, <2>1 DEF Summable
    <2>3. SumFunction(t) \in Nat
      BY <2>2, SumIsNatural
    <2>4. QED
      BY <1>11, <1>12, <1>13, <2>3
  <1>15. /\ \A k \in 1 .. n : /\ lv[k] = s[k] /\ s[k].price \in Int /\ s[k].quantity \in Nat
                              /\ k \in DOMAIN s
         /\ Len(lv) = n
    <2>1. \A k \in 1 .. n : lv[k] = s[k] /\ k \in DOMAIN s /\ s[k] \in DepthLevels
      BY <1>2, <1>3 DEF FirstOf
    <2>2. QED
      BY <1>3, <2>1 DEF DepthLevels, FirstOf
  <1>16. PICK paid : paid = SumFunction([k \in 1 .. n |-> (f[k - 1] - f[k]) * lv[k].price])
    OBVIOUS
  <1>17. PICK got : got = DepthFill(r)
    OBVIOUS
  <1>18. got = [quantity |-> m, price |-> IF m = 0 THEN r.reference ELSE ToTick(paid, m, r.side)]
    BY <1>1, <1>5, <1>7, <1>13, <1>15, <1>16, <1>17 DEF DepthFill
  <1>19. got.quantity = m
    BY <1>18
  <1>20. R = SumFunction([k \in w |-> s[k].quantity])
    <2>1. PICK g : g = [k \in w |-> s[k].quantity]
      OBVIOUS
    <2>2. IsFiniteSet(1 .. n)
      BY FS_Interval
    <2>3. IsFiniteSet(w)
      BY <1>4, <2>2, FS_Subset
    <2>4. Summable(o, 1 .. n)
      BY <1>4, <2>2 DEF Summable
    <2>5. g \in [w -> Int] /\ Summable(g, w)
      BY <1>4, <1>15, <2>1, <2>3 DEF Summable
    <2>6. PartOf(g, w, o, 1 .. n)
      BY <1>4, <2>1 DEF PartOf
    <2>7. QED
      BY <1>10, <2>1, <2>4, <2>5, <2>6, SumOfPart
  <1>21. m = Min({total, SumFunction([k \in w |-> s[k].quantity])})
    BY <1>11, <1>13, <1>20
  <1>22. ASSUME m > 0
         PROVE  \E worst \in w : IF r.side = "BUY"
                                 THEN got.price \in s[1].price .. s[worst].price
                                 ELSE got.price \in s[worst].price .. s[1].price
    <2>1. got.price = ToTick(paid, m, r.side)
      BY <1>18, <1>22
    <2>2. PICK p : p = [k \in 1 .. n |-> s[k].price]
      OBVIOUS
    <2>3. p \in [1 .. n -> Int] /\ \A k \in 1 .. n : p[k] = s[k].price
      BY <1>15, <2>2
    <2>4. paid = SumFunction([k \in 1 .. n |-> t[k] * p[k]])
      <3>1. \A k \in 1 .. n : (f[k - 1] - f[k]) * lv[k].price = t[k] * p[k]
        BY <1>9, <1>15, <2>3 DEF Taken
      <3>2. [k \in 1 .. n |-> (f[k - 1] - f[k]) * lv[k].price] = [k \in 1 .. n |-> t[k] * p[k]]
        BY <3>1
      <3>3. QED
        BY <1>16, <3>2
    <2>5. \A k \in 1 .. n : t[k] > 0 => k \in w
      BY <1>4, <1>11
    <2>6. w # {}
      <3>1. ASSUME w = {} PROVE FALSE
        <4>1. \A k \in 1 .. n : t[k] = 0
          BY <1>11, <2>5, <3>1
        <4>2. IsFiniteSet(1 .. n)
          BY FS_Interval
        <4>3. Summable(t, 1 .. n)
          BY <1>11, <4>2 DEF Summable
        <4>4. SumFunction(t) = 0
          BY <4>1, <4>3, SumZeros
        <4>5. QED
          BY <1>11, <1>13, <1>22, <4>4
      <3>2. QED
        BY <3>1
    <2>7. PICK worst \in w : \A k \in w : k <= worst
      <3>1. IsFiniteSet(1 .. n)
        BY FS_Interval
      <3>2. IsFiniteSet(w)
        BY <1>4, <3>1, FS_Subset
      <3>3. w \subseteq Int
        BY <1>4
      <3>4. PICK x : x = Max(w)
        OBVIOUS
      <3>5. x \in w /\ \A k \in w : x >= k
        BY <2>6, <3>2, <3>3, <3>4, LargestExists
      <3>6. QED
        BY <3>3, <3>5
    <2>8. worst \in 1 .. n /\ 1 \in 1 .. n
      BY <1>4, <2>7
    <2>9. \A i, j \in 1 .. n : i <= j =>
             IF r.side = "BUY" THEN s[i].price <= s[j].price ELSE s[i].price >= s[j].price
      <3>1. \A i, j \in DOMAIN s : i < j =>
               IF r.side = "BUY" THEN s[i].price <= s[j].price ELSE s[i].price >= s[j].price
        BY <1>1, SideSorted
      <3>2. QED
        BY <1>15, <3>1
    <2>10. PICK a \in Int, b \in Int : a = s[1].price /\ b = s[worst].price
      BY <1>15, <2>8
    <2>11. m \in Nat \ {0}
      BY <1>14, <1>22
    <2>12. CASE r.side = "BUY"
      <3>1. ASSUME NEW k \in 1 .. n, t[k] > 0 PROVE a <= p[k] /\ p[k] <= b
        <4>1. 1 <= k /\ k <= worst
          BY <2>5, <2>7, <3>1
        <4>2. p[k] = s[k].price /\ p[k] \in Int
          BY <2>3
        <4>3. QED
          BY <2>8, <2>9, <2>10, <2>12, <4>1, <4>2
      <3>2. Between(t, p, paid, m, a, b, n)
        BY <1>11, <1>13, <2>3, <2>4, <3>1 DEF Between
      <3>3. ToTick(paid, m, r.side) \in a .. b
        BY <2>11, <3>2, AverageBetween
      <3>4. QED
        BY <2>1, <2>10, <2>12, <3>3
    <2>13. CASE r.side # "BUY"
      <3>1. ASSUME NEW k \in 1 .. n, t[k] > 0 PROVE b <= p[k] /\ p[k] <= a
        <4>1. 1 <= k /\ k <= worst
          BY <2>5, <2>7, <3>1
        <4>2. p[k] = s[k].price /\ p[k] \in Int
          BY <2>3
        <4>3. QED
          BY <2>8, <2>9, <2>10, <2>13, <4>1, <4>2
      <3>2. Between(t, p, paid, m, b, a, n)
        BY <1>11, <1>13, <2>3, <2>4, <3>1 DEF Between
      <3>3. ToTick(paid, m, r.side) \in b .. a
        BY <2>11, <3>2, AverageBetween
      <3>4. QED
        BY <2>1, <2>10, <2>13, <3>3
    <2>14. QED
      BY <2>12, <2>13
  <1>23. QED
    BY <1>1, <1>5, <1>14, <1>17, <1>19, <1>21, <1>22 DEF GetsWithin

\* A fill against an order book keeps to its levels and its limit.
LEMMA FillsHold ==
    ASSUME FillOK
    PROVE  DepthFillSound
  <1>1. CASE fill = <<>>
    BY <1>1 DEF DepthFillSound
  <1>2. ASSUME NEW r \in SimRequests, r.quantity > 0, fill = [request |-> r, report |-> Simulate(r)],
               fill.request.hasDepth, SimMode # "IDEALIZED"
        PROVE  GetsWithin(fill.request, fill.report.got)
    <2>1. fill.request = r /\ fill.report = Simulate(r) /\ r.hasDepth
      BY <1>2
    <2>2. Simulate(r).got = Fill(r)
      BY <2>1 DEF Simulate
    <2>3. Fill(r) = DepthFill(r)
      BY <1>2, <2>1 DEF Fill
    <2>4. QED
      BY <1>2, <2>1, <2>2, <2>3, DepthFillGets
  <1>3. CASE fill # <<>>
    <2>1. PICK r \in SimRequests : r.quantity > 0 /\ fill = [request |-> r, report |-> Simulate(r)]
      BY <1>3 DEF FillOK
    <2>2. ASSUME fill.request.hasDepth, SimMode # "IDEALIZED"
          PROVE  GetsWithin(fill.request, fill.report.got)
      BY <1>2, <2>1, <2>2
    <2>3. QED
      BY <2>2, Zenon DEF DepthFillSound, GetsWithin, InReach
  <1>4. QED
    BY <1>1, <1>3

\* The quotient of a natural number.
LEMMA QuotientIsNatural ==
    ASSUME NEW a \in Nat, NEW b \in Nat \ {0}
    PROVE  a \div b \in Nat
  <1>1. a \in Int /\ a >= 0
    OBVIOUS
  <1>2. QED
    BY <1>1, Divides

\* The depth in view is a number.
LEMMA DepthInView ==
    ASSUME NEW r \in SimRequests
    PROVE  VisibleDepth(r) \in Nat
  <1>1. CASE ~r.hasDepth
    BY <1>1 DEF VisibleDepth
  <1>2. CASE r.hasDepth
    <2>1. r.bids \in Seq(DepthLevels) /\ r.asks \in Seq(DepthLevels)
      BY SimAssumption
    <2>2. FirstFive(r.bids) \in Seq(DepthLevels) /\ FirstFive(r.asks) \in Seq(DepthLevels)
      <3>1. FirstFive(r.bids) \in Seq(DepthLevels)
        BY <2>1, FirstLevels DEF FirstOf
      <3>2. FirstFive(r.asks) \in Seq(DepthLevels)
        BY <2>1, FirstLevels DEF FirstOf
      <3>3. QED
        BY <3>1, <3>2
    <2>3. PICK v : v = FirstFive(r.bids) \o FirstFive(r.asks)
      OBVIOUS
    <2>4. v \in Seq(DepthLevels)
      BY <2>2, <2>3
    <2>5. PICK n \in Nat : n = Len(v) /\ DOMAIN v = 1 .. n
      BY <2>4
    <2>6. \A k \in 1 .. n : v[k].quantity \in Nat
      <3>1. \A k \in 1 .. n : v[k] \in DepthLevels
        BY <2>4, <2>5
      <3>2. QED
        BY <3>1 DEF DepthLevels
    <2>7. PICK g : g = [k \in 1 .. n |-> v[k].quantity]
      OBVIOUS
    <2>8. IsFiniteSet(1 .. n)
      BY FS_Interval
    <2>9. Summable(g, 1 .. n) /\ \A k \in 1 .. n : g[k] \in Nat
      BY <2>6, <2>7, <2>8 DEF Summable
    <2>10. SumFunction(g) \in Nat
      BY <2>9, SumIsNatural
    <2>11. VisibleDepth(r) = SumFunction(g)
      BY <1>2, <2>3, <2>5, <2>7 DEF VisibleDepth
    <2>12. QED
      BY <2>10, <2>11
  <1>3. QED
    BY <1>1, <1>2

\* Slippage is two basis points and more, impact none and more.
LEMMA CostsAreKnown ==
    ASSUME NEW r \in SimRequests, r.quantity > 0, r.reference > 0
    PROVE  Slippage(r) \in Nat /\ Slippage(r) >= 2000 /\ Impact(r) \in Nat
  <1>1. PICK q \in Nat \ {0}, x \in Nat \ {0}, s \in Nat :
          q = r.quantity /\ x = r.reference /\ s = r.spread
    BY SimAssumption
  <1>2. r.traded \in Int /\ r.volatility \in Int
    BY SimAssumption
  <1>3. PICK m, v : m = Max({r.traded, 1}) /\ v = Max({0, r.volatility})
    OBVIOUS
  <1>4. m \in Nat \ {0} /\ v \in Nat
    <2>1. 0 \in Int /\ 1 \in Int
      OBVIOUS
    <2>2. m \in Int /\ m >= 1
      BY <1>2, <1>3, <2>1, MaxOfTwo
    <2>3. v \in Int /\ v >= 0
      BY <1>2, <1>3, <2>1, MaxOfTwo
    <2>4. QED
      BY <2>2, <2>3
  <1>5. PICK bps \in Nat : bps = SpreadBps(r)
    <2>1. s * 10000000 \in Nat
      OBVIOUS
    <2>2. (s * 10000000) \div x \in Nat
      BY <2>1, QuotientIsNatural
    <2>3. QED
      BY <1>1, <2>2 DEF SpreadBps
  <1>6. PICK share \in Nat : share = Share(r)
    <2>1. q * 100000 \in Nat
      OBVIOUS
    <2>2. (q * 100000) \div m \in Nat
      BY <1>4, <2>1, QuotientIsNatural
    <2>3. QED
      BY <1>1, <1>3, <2>2 DEF Share
  <1>7. PICK part \in Nat : part = (share * 11) \div 10
    <2>1. share * 11 \in Nat /\ 10 \in Nat \ {0}
      OBVIOUS
    <2>2. QED
      BY <2>1, QuotientIsNatural
  <1>8. Slippage(r) = 2000 + v * 10000 + bps + part
    BY <1>3, <1>5, <1>6, <1>7 DEF Slippage
  <1>9. PICK depth \in Nat : depth = VisibleDepth(r)
    BY DepthInView
  <1>10. PICK taken \in Nat : taken = IF depth = 0 THEN 0 ELSE (q * 10000) \div depth
    <2>1. ASSUME depth # 0 PROVE (q * 10000) \div depth \in Nat
      <3>1. q * 10000 \in Nat /\ depth \in Nat \ {0}
        BY <2>1
      <3>2. QED
        BY <3>1, QuotientIsNatural
    <2>2. QED
      BY <2>1
  <1>11. Impact(r) = share + taken + v * 10000 + bps
    BY <1>1, <1>3, <1>5, <1>6, <1>9, <1>10 DEF Impact
  <1>12. QED
    BY <1>4, <1>8, <1>11

\* An order is filled at most whole.
LEMMA FilledAtMostWhole ==
    ASSUME NEW r \in SimRequests, r.quantity > 0
    PROVE  Fill(r).quantity \in 0 .. r.quantity
  <1>1. PICK q \in Nat : q = r.quantity
    BY SimAssumption
  <1>2. CASE SimMode = "IDEALIZED"
    BY <1>1, <1>2 DEF Fill
  <1>3. CASE SimMode # "IDEALIZED" /\ r.hasDepth
    <2>1. Fill(r) = DepthFill(r)
      BY <1>3 DEF Fill
    <2>2. QED
      BY <2>1, DepthFillGets
  <1>4. CASE SimMode # "IDEALIZED" /\ ~r.hasDepth
    <2>1. CASE Beyond(r, r.reference)
      <3>1. Fill(r).quantity = 0
        BY <1>4, <2>1 DEF Fill
      <3>2. QED
        BY <1>1, <3>1
    <2>2. CASE ~Beyond(r, r.reference)
      <3>1. Fill(r).quantity = q
        BY <1>1, <1>4, <2>2 DEF Fill
      <3>2. QED
        BY <1>1, <3>1
    <2>3. QED
      BY <2>1, <2>2
  <1>5. QED
    BY <1>2, <1>3, <1>4

\* A score of eighty points and more leaves no room for a low fill, a late one or a fill
\* beyond all depth, and nothing filled scores nothing.
LEMMA ScoreSound ==
    ASSUME NEW r \in SimRequests, r.quantity > 0, r.reference > 0, NEW filled \in 0 .. r.quantity
    PROVE  /\ Score(r, filled) >= 80000 =>
                 ~(filled * 10 < r.quantity * 8) /\ ~LatencyWarning(r) /\ ~Impossible(r)
           /\ filled = 0 => Score(r, filled) = 0
  <1>1. PICK q \in Nat \ {0} : q = r.quantity
    BY SimAssumption
  <1>2. filled \in 0 .. q /\ filled \in Nat
    BY <1>1
  <1>3. PICK a \in Nat : a = 100000 * (q - filled)
    BY <1>2
  <1>4. PICK d \in Nat : d = a \div q /\ q * d <= a /\ a < q * d + q
    <2>1. a \in Int /\ a >= 0
      OBVIOUS
    <2>2. QED
      BY <2>1, Divides
  <1>5. PICK s, i : s = Min({Slippage(r), 50000}) /\ i = Min({Impact(r), 50000})
    OBVIOUS
  <1>6. s \in Nat /\ s >= 2000 /\ i \in Nat
    <2>1. PICK x \in Int, y \in Int, z \in Int :
            x = Slippage(r) /\ x >= 2000 /\ y = Impact(r) /\ y >= 0 /\ z = 50000
      BY CostsAreKnown
    <2>2. s = Min({x, z}) /\ i = Min({y, z})
      BY <1>5, <2>1
    <2>3. Min({x, z}) \in {x, z}
      BY MinOfTwo
    <2>4. Min({y, z}) \in {y, z}
      BY MinOfTwo
    <2>5. QED
      BY <2>1, <2>2, <2>3, <2>4
  <1>7. PICK l, p : /\ l = IF LatencyWarning(r) THEN 25000 ELSE 0
                    /\ p = IF Impossible(r) THEN 50000 ELSE 0
    OBVIOUS
  <1>8. l \in {0, 25000} /\ p \in {0, 50000}
    BY <1>7
  <1>9. PICK x \in Int : x = 100000 - d - s - i - l - p
    BY <1>6, <1>8
  <1>10. Score(r, filled) = Max({0, x})
    BY <1>1, <1>3, <1>4, <1>5, <1>7, <1>9 DEF Score
  <1>11. Max({0, x}) >= x /\ Max({0, x}) >= 0 /\ Max({0, x}) \in {0, x}
    <2>1. 0 \in Int
      OBVIOUS
    <2>2. QED
      BY <2>1, MaxOfTwo
  <1>12. ASSUME Score(r, filled) >= 80000
         PROVE  ~(filled * 10 < r.quantity * 8) /\ ~LatencyWarning(r) /\ ~Impossible(r)
    <2>1. x >= 80000
      BY <1>10, <1>11, <1>12
    <2>2. l = 0 /\ p = 0 /\ d <= 18000
      BY <1>6, <1>8, <1>9, <2>1
    <2>3. q * d <= q * 18000
      <3>1. PICK u \in Nat : u = 18000 - d
        BY <2>2
      <3>2. q * 18000 = q * d + q * u /\ q * u >= 0
        BY <3>1
      <3>3. QED
        BY <3>2
    <2>4. a < q * 18001
      <3>1. q * d \in Int
        OBVIOUS
      <3>2. QED
        BY <1>4, <2>3, <3>1
    <2>5. ~(filled * 10 < q * 8)
      BY <1>2, <1>3, <2>4
    <2>6. QED
      BY <1>1, <1>7, <2>2, <2>5
  <1>13. ASSUME filled = 0 PROVE Score(r, filled) = 0
    <2>1. a = 100000 * q
      BY <1>3, <1>13
    <2>2. d >= 100000
      <3>1. 100000 \in Int /\ q * 100000 < q * d + q
        <4>1. q * 100000 = 100000 * q
          OBVIOUS
        <4>2. QED
          BY <1>4, <2>1, <4>1
      <3>2. QED
        BY <3>1, FactorTaken
    <2>3. x < 0
      BY <1>6, <1>8, <1>9, <2>2
    <2>4. QED
      BY <1>10, <1>11, <2>3
  <1>14. QED
    BY <1>12, <1>13

\* What two of the warnings are about.
FilledLow(r, filled) == filled * 10 < r.quantity * 8
Dear(r) == Slippage(r) > 15000

LEMMA WarningsAre ==
    ASSUME NEW r, NEW filled
    PROVE  Warnings(r, filled) =
                {w \in {"low fill"} : FilledLow(r, filled)} \cup {w \in {"slippage"} : Dear(r)}
                \cup {w \in {"latency"} : LatencyWarning(r)}
                \cup {w \in {"high-impact"} : HighImpact(r)}
                \cup {w \in {"low-liquidity"} : LowLiquidity(r)}
                \cup {w \in {"impossible"} : Impossible(r)}
  BY DEF Warnings, FilledLow, Dear

\* A good score is a good fill.
LEMMA ScoresHold ==
    ASSUME FillOK
    PROVE  GoodScoreMeansGoodFill
  <1>1. CASE fill = <<>>
    BY <1>1, Zenon DEF GoodScoreMeansGoodFill
  <1>2. ASSUME NEW r \in SimRequests, r.quantity > 0, r.reference > 0,
               fill = [request |-> r, report |-> Simulate(r)]
        PROVE  GoodScoreMeansGoodFill
    <2>1. fill.report = Simulate(r)
      BY <1>2
    <2>2. CASE SimMode = "MICROSTRUCTURE_AWARE" /\ ~r.hasDepth
      <3>1. fill.report.score = 0
        BY <2>1, <2>2 DEF Simulate
      <3>2. ~(0 >= GoodScore)
        BY DEF GoodScore
      <3>3. QED
        BY <3>1, <3>2, Zenon DEF GoodScoreMeansGoodFill
    <2>3. CASE ~(SimMode = "MICROSTRUCTURE_AWARE" /\ ~r.hasDepth)
      <3>1. PICK filled : filled = Fill(r).quantity
        OBVIOUS
      <3>2. filled \in 0 .. r.quantity
        BY <1>2, <3>1, FilledAtMostWhole
      <3>3. /\ fill.report.got.quantity = filled /\ fill.report.score = Score(r, filled)
            /\ fill.report.warnings = Warnings(r, filled)
        BY <2>1, <2>3, <3>1 DEF Simulate
      <3>4. /\ Score(r, filled) >= GoodScore =>
                  ~(filled * 10 < r.quantity * 8) /\ ~LatencyWarning(r) /\ ~Impossible(r)
            /\ filled = 0 => Score(r, filled) = 0
        BY <1>2, <3>2, ScoreSound DEF GoodScore
      <3>5. ASSUME Score(r, filled) >= GoodScore
            PROVE  Warnings(r, filled) \cap {"low fill", "latency", "impossible", "depth"} = {}
        <4>1. ~(filled * 10 < r.quantity * 8) /\ ~LatencyWarning(r) /\ ~Impossible(r)
          BY <3>4, <3>5
        <4>2. ASSUME NEW w \in Warnings(r, filled)
              PROVE  w \in {"slippage", "high-impact", "low-liquidity"}
          <5>1. ~FilledLow(r, filled)
            BY <4>1 DEF FilledLow
          <5>2. QED
            BY <4>1, <4>2, <5>1, WarningsAre, Zenon
        <4>3. {"slippage", "high-impact", "low-liquidity"}
                \cap {"low fill", "latency", "impossible", "depth"} = {}
          OBVIOUS
        <4>4. QED
          BY <4>2, <4>3, Zenon
      <3>6. QED
        BY <3>3, <3>4, <3>5, Zenon DEF GoodScoreMeansGoodFill
    <2>4. QED
      BY <2>2, <2>3
  <1>3. QED
    BY <1>1, <1>2 DEF FillOK

(***************************************************************************)
(* The invariant holds in every state.                                     *)
(***************************************************************************)
LEMMA OrdersInvInit == Init => OrdersInv
  <1> SUFFICES ASSUME Init PROVE OrdersInv
    OBVIOUS
  <1>1. ExecutionInit /\ FillInit
    BY DEF Init
  <1>2. BooksOK(book, sent)
    BY <1>1, BooksStart
  <1>3. SlicesOK /\ FillOK
    BY <1>1 DEF ExecutionInit, FillInit, SlicesOK, FillOK
  <1>4. QED
    BY <1>2, <1>3 DEF OrdersInv

\* An order the policy has nothing against is one, and within its share of the day.
LEMMA SubmittedOrder ==
    ASSUME NEW s \in Approved, NEW m \in Markets, Tradeable(s), Violations(OrderOf(s), m) = {}
    PROVE  /\ OrderOf(s) \in Orders
           /\ OrderOf(s).quantity * Policy.rate[2] <= Policy.rate[1] * m.volume
  <1>1. PICK o : o = OrderOf(s)
    OBVIOUS
  <1>2. s.entry \in Int /\ s.size \in Int /\ s.quantity \in Int
    BY ExecutionAssumption
  <1>3. /\ o.instrument = s.instrument /\ o.side \in {"BUY", "SELL"} /\ o.limit = s.entry
        /\ o.quantity \in Int
        /\ o = [instrument |-> o.instrument, side |-> o.side, quantity |-> o.quantity, limit |-> o.limit]
    BY <1>1, <1>2 DEF OrderOf
  <1>4. o.quantity \in Nat
    BY <1>1, <1>3 DEF Tradeable
  <1>5. s.instrument \in Instruments
    BY DEF Instruments
  <1>6. o \in Orders
    BY <1>2, <1>3, <1>4, <1>5 DEF Orders
  <1>7. PICK n \in Nat, d \in Nat, v \in Nat : n = Policy.rate[1] /\ d = Policy.rate[2] /\ v = m.volume
    BY ExecutionAssumption
  <1>8. ~(o.quantity * d > n * v)
    <2>1. "participation" \notin Violations(o, m)
      BY <1>1
    <2>2. QED
      BY <1>7, <2>1 DEF Violations
  <1>9. o.quantity * d \in Int /\ n * v \in Int
    BY <1>4
  <1>10. QED
    BY <1>1, <1>6, <1>7, <1>8, <1>9

\* The books are kept by each thing done to them.
LEMMA ExecutionKeeps ==
    ASSUME BooksOK(book, sent), ExecutionNext
    PROVE  BooksOK(book, sent)' /\ UNCHANGED slices
  <1>1. CASE SubmitOrder
    <2>1. PICK s \in Approved, m \in Markets :
            /\ Tradeable(s) /\ Violations(OrderOf(s), m) = {}
            /\ book' = Filed(book, OrderOf(s))
            /\ sent' = [sent EXCEPT !.filled = Append(@, 0), !.checked = Append(@, m)]
            /\ UNCHANGED slices
      BY <1>1 DEF SubmitOrder
    <2>2. PICK o : o = OrderOf(s)
      OBVIOUS
    <2>3. o \in Orders /\ o.quantity * Policy.rate[2] <= Policy.rate[1] * m.volume
      BY <2>1, <2>2, SubmittedOrder
    <2>4. PICK t : t = sent'
      OBVIOUS
    <2>5. BooksOK(Filed(book, o), t)
      BY <2>1, <2>3, <2>4, FiledKeeps
    <2>6. QED
      BY <2>1, <2>2, <2>4, <2>5
  <1>2. CASE BrokerFills
    <2>1. PICK id \in DOMAIN book.orders :
            \E q \in 1 .. book.orders[id].quantity - sent.filled[id] :
               sent' = [sent EXCEPT !.filled[id] = @ + q,
                                    !.owed = Append(@, [id |-> id, quantity |-> q])]
      BY <1>2 DEF BrokerFills
    <2>2. PICK q \in 1 .. book.orders[id].quantity - sent.filled[id] :
            sent' = [sent EXCEPT !.filled[id] = @ + q, !.owed = Append(@, [id |-> id, quantity |-> q])]
      BY <2>1
    <2>3. PICK t : t = sent'
      OBVIOUS
    <2>4. PartFilled(book, sent, id, q, t)
      BY <2>2, <2>3 DEF PartFilled
    <2>5. BooksOK(book, t)
      BY <2>4, PartKeeps
    <2>6. UNCHANGED <<book, slices>>
      BY <1>2 DEF BrokerFills
    <2>7. QED
      BY <2>3, <2>5, <2>6
  <1>3. CASE ApplyFill
    <2>1. PICK i \in DOMAIN sent.owed :
            /\ book' = Filled(book, sent.owed[i].id, sent.owed[i].quantity)
            /\ sent' = [sent EXCEPT !.owed = RemoveAt(@, i)]
      BY <1>3 DEF ApplyFill
    <2>2. PICK c, t : c = book' /\ t = sent'
      OBVIOUS
    <2>3. Applied(book, sent, i, c, t)
      BY <2>1, <2>2 DEF Applied
    <2>4. BooksOK(c, t)
      BY <2>3, AppliedKeeps
    <2>5. UNCHANGED slices
      BY <1>3 DEF ApplyFill
    <2>6. QED
      BY <2>2, <2>4, <2>5
  <1>4. QED
    BY <1>1, <1>2, <1>3 DEF ExecutionNext

LEMMA OrdersInvNext == OrdersInv /\ [Next]_vars => OrdersInv'
  <1> SUFFICES ASSUME OrdersInv, [Next]_vars PROVE OrdersInv'
    OBVIOUS
  <1>1. BooksOK(book, sent) /\ SlicesOK /\ FillOK
    BY DEF OrdersInv
  <1>2. ASSUME UNCHANGED fillVars PROVE FillOK'
    BY <1>1, <1>2 DEF fillVars, FillOK
  <1>3. ASSUME UNCHANGED slices PROVE SlicesOK'
    BY <1>1, <1>3 DEF SlicesOK
  <1>4. ASSUME UNCHANGED <<executionVars, fillVars>> PROVE OrdersInv'
    <2>1. UNCHANGED <<book, sent, slices>>
      BY <1>4 DEF executionVars
    <2>2. QED
      BY <1>1, <1>2, <1>3, <1>4, <2>1 DEF OrdersInv
  <1>5. CASE OrderStep
    <2>1. UNCHANGED fillVars
      BY <1>5 DEF OrderStep
    <2>2. CASE ExecutionNext
      <3>1. BooksOK(book, sent)' /\ UNCHANGED slices
        BY <1>1, <2>2, ExecutionKeeps
      <3>2. QED
        BY <1>2, <1>3, <2>1, <3>1 DEF OrdersInv
    <2>3. CASE Slice
      <3>1. UNCHANGED <<book, sent>> /\ SlicesOK'
        BY <2>3 DEF Slice, SlicesOK
      <3>2. QED
        BY <1>1, <1>2, <2>1, <3>1 DEF OrdersInv
    <2>4. QED
      BY <1>5, <2>2, <2>3 DEF OrderStep
  <1>6. CASE FillStep
    <2>1. UNCHANGED <<book, sent, slices>>
      BY <1>6 DEF FillStep, executionVars
    <2>2. FillOK'
      BY <1>6 DEF FillStep, FillNext, FillOK
    <2>3. QED
      BY <1>1, <1>3, <2>1, <2>2 DEF OrdersInv
  <1>7. CASE PortfolioStep
    BY <1>4, <1>7 DEF PortfolioStep
  <1>8. ASSUME UNCHANGED executionDesks PROVE OrdersInv'
    BY <1>4, <1>8 DEF executionDesks
  <1>9. CASE ValidationStep
    BY <1>8, <1>9 DEF ValidationStep
  <1>10. CASE StrategyStep
    BY <1>8, <1>10 DEF StrategyStep
  <1>11. CASE SignalStep
    BY <1>8, <1>11 DEF SignalStep
  <1>12. CASE LiveStep
    BY <1>8, <1>12 DEF LiveStep
  <1>13. CASE ResearchStep
    BY <1>8, <1>13 DEF ResearchStep
  <1>14. CASE UNCHANGED vars
    BY <1>8, <1>14 DEF vars
  <1>15. QED
    BY <1>5, <1>6, <1>7, <1>9, <1>10, <1>11, <1>12, <1>13, <1>14 DEF Next

\* Positions are what was applied of the orders, each within its share of the day and filled
\* at most whole; what the broker filled and did not apply is under way; the schedule and
\* the report are those of something that was asked for.
THEOREM OrdersInvariantHolds == Spec => []OrdersInv
  <1>1. Init => OrdersInv
    BY OrdersInvInit
  <1>2. OrdersInv /\ [Next]_vars => OrdersInv'
    BY OrdersInvNext
  <1>3. QED
    BY <1>1, <1>2, PTL DEF Spec

\* Orders become positions by their fills alone (OrderManager.apply_fill and
\* reconcile_positions), positions keep the policy's share of the day, schedules are whole
\* and keep their promise, fills keep the book's depth, prices and limit, and a good score
\* means a good fill (ExecutionSimulator.simulate).
THEOREM OrdersAreSound == Spec => []OrdersSound
  <1>1. OrdersInv => OrdersSound
    <2>1. ASSUME OrdersInv PROVE OrdersSound
      <3>1. BooksOK(book, sent) /\ SlicesOK /\ FillOK
        BY <2>1 DEF OrdersInv
      <3>2. BreaksAreUndelivered
        BY <3>1, UndeliveredBreak
      <3>3. PositionsWithinPolicy
        BY <3>1, PositionsKeepShares
      <3>4. ScheduleSound
        BY <3>1, SchedulesHold
      <3>5. DepthFillSound /\ GoodScoreMeansGoodFill
        BY <3>1, FillsHold, ScoresHold
      <3>6. QED
        BY <3>2, <3>3, <3>4, <3>5 DEF OrdersSound
    <2>2. QED
      BY <2>1
  <1>2. QED
    BY <1>1, OrdersInvariantHolds, PTL

(***************************************************************************)
(* The live signal: what the three frames of a request come to.            *)
(***************************************************************************)
Aligned(f) ==
    /\ Trend(f.primary) \in Directed /\ Trend(Confirming(f)) = Trend(f.primary)
    /\ Trend(Trending(f)) = Trend(f.primary)

RegimeOf(f) == MarketRegime(f.primary, Confirming(f), Trending(f))

ScoreOf(f) ==
    Points(25, Aligned(f)) + Points(15, RegimeOf(f) \in {"TRENDING_UP", "TRENDING_DOWN"})
      + Points(10, Trend(f.primary) \in Directed /\ HasRoom(f.primary))
      + Points(22, Trend(f.primary) \in Directed)
      + Points(10, RsiOk(f.primary)) + Points(8, AtrOk(f.primary)) + Points(10, f.primary.volume)

Strictly(f) ==
    /\ Aligned(f) /\ HasRoom(f.primary) /\ f.primary.volume /\ ScoreOf(f) >= 75
    /\ RegimeOf(f) \notin {"SIDEWAYS", "LOW_VOLUME", "HIGH_VOLATILITY"}

DecisionOf(f) ==
    IF Strictly(f) THEN (IF Trend(f.primary) = "BULLISH" THEN "BUY" ELSE "SELL")
    ELSE IF ScoreOf(f) \in 55 .. 74 /\ Aligned(f) THEN "HOLD" ELSE "NO_TRADE"

TooShort(f) == \E frame \in {f.primary, Confirming(f), Trending(f)} : frame.candles < 21

LEMMA SignalIs ==
    ASSUME NEW f
    PROVE  SignalOf(f) =
              IF TooShort(f) THEN NoSignal
              ELSE [decision |-> DecisionOf(f), score |-> Min({100, ScoreOf(f)}),
                    regime |-> RegimeOf(f),
                    levels |-> IF Strictly(f) THEN Levels(DecisionOf(f), Max({f.primary.atr, 1}))
                               ELSE <<>>]
  BY DEF SignalOf, TooShort, DecisionOf, Strictly, ScoreOf, RegimeOf, Aligned

LEMMA FramesMeasured ==
    ASSUME NEW f \in FrameSets
    PROVE  /\ f.primary \in Measured /\ Confirming(f) \in Measured /\ Trending(f) \in Measured
           /\ f.confirmation \in Measured \cup {NotGiven} /\ f.trend \in Measured \cup {NotGiven}
           /\ f = [primary |-> f.primary, confirmation |-> f.confirmation, trend |-> f.trend]
  <1>1. f \in [primary : Measured, confirmation : Measured \cup {NotGiven},
               trend : Measured \cup {NotGiven}]
    BY LiveAssumption
  <1>2. QED
    BY <1>1 DEF Confirming, Trending

\* What a direction says of a frame.
LEMMA TrendSays ==
    ASSUME NEW t \in Measured
    PROVE  /\ Trend(t) \in {"BULLISH", "BEARISH", "SIDEWAYS"}
           /\ Trend(t) = "BULLISH" <=> (~t.flat /\ t.ema = 1 /\ t.vwap = 1)
           /\ Trend(t) = "BEARISH" <=> (~t.flat /\ t.ema = -1 /\ t.vwap = -1)
  <1>1. t.ema \in -1 .. 1 /\ t.vwap \in -1 .. 1 /\ t.flat \in BOOLEAN
    BY DEF Measured
  <1>2. QED
    BY <1>1 DEF Trend

LEMMA StrictSays ==
    ASSUME NEW f \in FrameSets, Strictly(f)
    PROVE  /\ Trend(f.primary) \in Directed /\ f.primary.atr * 1000 <= 35 * LastClose
           /\ Trend(Confirming(f)) = Trend(f.primary) /\ Trend(Trending(f)) = Trend(f.primary)
           /\ DecisionOf(f) = IF Trend(f.primary) = "BULLISH" THEN "BUY" ELSE "SELL"
  <1>1. RegimeOf(f) # "HIGH_VOLATILITY" /\ RegimeOf(f) # "LOW_VOLUME" /\ Aligned(f)
    BY DEF Strictly
  <1>2. f.primary \in Measured
    BY FramesMeasured
  <1>3. f.primary.atr \in Nat /\ LastClose \in Nat
    BY <1>2, LiveAssumption DEF Measured
  <1>4. ~(f.primary.atr * 1000 > 35 * LastClose)
    BY <1>1 DEF RegimeOf, MarketRegime
  <1>5. f.primary.atr * 1000 <= 35 * LastClose
    BY <1>3, <1>4
  <1>6. QED
    BY <1>1, <1>5 DEF Aligned, DecisionOf

\* A decision to trade is a strict one.
LEMMA TradeSays ==
    ASSUME NEW f \in FrameSets, NEW x, x = SignalOf(f)
    PROVE  /\ x.decision \in {"BUY", "SELL"} => Strictly(f) /\ ~TooShort(f)
           /\ Strictly(f) /\ ~TooShort(f) =>
                 /\ x.decision = DecisionOf(f) /\ x.decision \in {"BUY", "SELL"}
                 /\ x.levels = Levels(x.decision, Max({f.primary.atr, 1}))
           /\ ~(Strictly(f) /\ ~TooShort(f)) => x.levels = <<>>
  <1>1. DecisionOf(f) \in {"BUY", "SELL"} <=> Strictly(f)
    BY DEF DecisionOf
  <1>2. CASE TooShort(f)
    <2>1. x = NoSignal
      BY <1>2, SignalIs
    <2>2. QED
      BY <1>2, <2>1 DEF NoSignal
  <1>3. CASE ~TooShort(f)
    <2>1. /\ x.decision = DecisionOf(f)
          /\ x.levels = IF Strictly(f) THEN Levels(DecisionOf(f), Max({f.primary.atr, 1})) ELSE <<>>
      BY <1>3, SignalIs
    <2>2. QED
      BY <1>1, <1>3, <2>1
  <1>4. QED
    BY <1>2, <1>3

LiveKept ==
    \/ live = <<>>
    \/ \E f \in FrameSets : live = [frames |-> f, signal |-> SignalOf(f)]

LEMMA LevelsHold ==
    ASSUME LiveKept
    PROVE  LevelsSound
  <1>1. CASE live = <<>>
    BY <1>1 DEF LevelsSound
  <1>2. ASSUME NEW f \in FrameSets, live = [frames |-> f, signal |-> SignalOf(f)], live # <<>>
        PROVE  LevelsSound
    <2> DEFINE x == SignalOf(f)
               a == Max({f.primary.atr, 1})
               l == x.levels
               s == IF x.decision = "BUY" THEN 1 ELSE -1
    <2>1. live.signal = x
      BY <1>2
    <2>2. /\ x.decision \in {"BUY", "SELL"} <=> Strictly(f) /\ ~TooShort(f)
          /\ Strictly(f) /\ ~TooShort(f) => l = Levels(x.decision, a)
          /\ ~(Strictly(f) /\ ~TooShort(f)) => l = <<>>
      BY TradeSays
    <2>3. Levels(x.decision, a) # <<>>
      <3>1. "stop" \in DOMAIN Levels(x.decision, a)
        BY DEF Levels
      <3>2. DOMAIN <<>> = {}
        OBVIOUS
      <3>3. QED
        BY <3>1, <3>2
    <2>4. Traded <=> l # <<>>
      BY <1>2, <2>1, <2>2, <2>3 DEF Traded
    <2>5. ASSUME Traded
          PROVE  /\ l.stop > 0 /\ l.first > 0 /\ l.second > 0
                 /\ s * (LastClose - l.stop) > 0 /\ s * (l.second - l.first) > 0
                 /\ l.first - LastClose = 2 * (LastClose - l.stop)
      <3>1. Strictly(f) /\ l = Levels(x.decision, a)
        BY <2>1, <2>2, <2>5 DEF Traded
      <3>2. f.primary.atr \in Nat /\ f.primary.atr * 1000 <= 35 * LastClose
        BY <3>1, StrictSays, FramesMeasured DEF Measured
      <3>3. a \in {f.primary.atr, 1} /\ a >= 1 /\ a \in Int
        BY <3>2, MaxOfTwo
      <3>4. LastClose \in Nat /\ LastClose > 3
        BY LiveAssumption
      <3>5. 3 * a < LastClose /\ a > 0
        BY <3>2, <3>3, <3>4
      <3>6. /\ l.stop = LastClose - s * a /\ l.first = LastClose + 2 * s * a
            /\ l.second = LastClose + 3 * s * a
        BY <3>1 DEF Levels
      <3>7. s \in {1, -1}
        OBVIOUS
      <3> HIDE DEF a, l, s
      <3>8. CASE s = 1
        BY <3>3, <3>4, <3>5, <3>6, <3>8
      <3>9. CASE s = -1
        BY <3>3, <3>4, <3>5, <3>6, <3>9
      <3>10. QED
        BY <3>7, <3>8, <3>9
    <2>6. QED
      BY <2>1, <2>4, <2>5 DEF LevelsSound
  <1>3. QED
    BY <1>1, <1>2 DEF LiveKept, LevelsSound

LEMMA ConfirmationHolds ==
    ASSUME LiveKept
    PROVE  TradesAreConfirmed
  <1>1. SUFFICES ASSUME Traded PROVE TradesAreConfirmed
    BY DEF TradesAreConfirmed
  <1>2. PICK f \in FrameSets : live = [frames |-> f, signal |-> SignalOf(f)]
    BY <1>1 DEF LiveKept, Traded
  <1>3. live.frames = f /\ live.signal = SignalOf(f)
    BY <1>2
  <1>4. Strictly(f) /\ ~TooShort(f) /\ live.signal.decision = DecisionOf(f)
    BY <1>1, <1>3, TradeSays DEF Traded
  <1>5. /\ Trend(f.primary) \in {"BULLISH", "BEARISH"}
        /\ Trend(Confirming(f)) = Trend(f.primary) /\ Trend(Trending(f)) = Trend(f.primary)
        /\ DecisionOf(f) = IF Trend(f.primary) = "BULLISH" THEN "BUY" ELSE "SELL"
    BY <1>4, StrictSays DEF Directed
  <1>6. ASSUME NEW t \in {f.primary, Confirming(f), Trending(f)},
               NEW s, s = IF live.signal.decision = "BUY" THEN 1 ELSE -1
        PROVE  t.ema = s /\ t.vwap = s /\ ~t.flat /\ t.candles >= 21
    <2>1. t \in Measured /\ t.candles \in Nat
      BY <1>6, FramesMeasured DEF Measured
    <2>2. ~(t.candles < 21)
      BY <1>4, <1>6 DEF TooShort
    <2>3. Trend(t) = Trend(f.primary)
      BY <1>5, <1>6
    <2>4. QED
      BY <1>4, <1>5, <1>6, <2>1, <2>2, <2>3, TrendSays
  <1>7. QED
    BY <1>3, <1>6 DEF TradesAreConfirmed

Turned(d) == IF d = "BUY" THEN "SELL" ELSE IF d = "SELL" THEN "BUY" ELSE d

LEMMA MirrorOf ==
    ASSUME NEW t \in Measured
    PROVE  LET m == Mirror(t)
           IN /\ m \in Measured /\ m.candles = t.candles /\ m.ema = -t.ema /\ m.vwap = -t.vwap
              /\ m.flat = t.flat /\ m.volume = t.volume /\ m.rsi = 100 - t.rsi /\ m.atr = t.atr
              /\ m.up = t.down /\ m.down = t.up
  <1>1. t # NotGiven
    BY LiveAssumption
  <1>2. Mirror(t) = [t EXCEPT !.ema = -t.ema, !.vwap = -t.vwap, !.rsi = 100 - t.rsi,
                              !.up = t.down, !.down = t.up]
    BY <1>1 DEF Mirror
  <1>3. /\ t.candles \in Nat /\ t.ema \in -1 .. 1 /\ t.vwap \in -1 .. 1 /\ t.flat \in BOOLEAN
        /\ t.volume \in BOOLEAN /\ t.rsi \in Int /\ t.atr \in Nat /\ t.up \in Int /\ t.down \in Int
    BY DEF Measured
  <1>4. -t.ema \in -1 .. 1 /\ -t.vwap \in -1 .. 1 /\ 100 - t.rsi \in Int
    BY <1>3
  <1>5. QED
    BY <1>2, <1>3, <1>4 DEF Measured

\* Each test the engine makes of a frame gives the mirrored frame what it gives the frame.
LEMMA MirrorTests ==
    ASSUME NEW t \in Measured, NEW m, m = Mirror(t)
    PROVE  /\ Trend(m) = IF Trend(t) = "BULLISH" THEN "BEARISH"
                         ELSE IF Trend(t) = "BEARISH" THEN "BULLISH" ELSE "SIDEWAYS"
           /\ RsiOk(m) <=> RsiOk(t)
           /\ AtrOk(m) <=> AtrOk(t)
           /\ HasRoom(m) <=> HasRoom(t)
           /\ m.volume = t.volume /\ m.candles = t.candles /\ m.atr = t.atr
  <1>1. /\ m \in Measured /\ m.candles = t.candles /\ m.ema = -t.ema /\ m.vwap = -t.vwap
        /\ m.flat = t.flat /\ m.volume = t.volume /\ m.rsi = 100 - t.rsi /\ m.atr = t.atr
        /\ m.up = t.down /\ m.down = t.up
    BY MirrorOf
  <1>2. t.ema \in -1 .. 1 /\ t.vwap \in -1 .. 1 /\ t.rsi \in Int
    BY DEF Measured
  <1>3. (m.ema = 1 <=> t.ema = -1) /\ (m.ema = -1 <=> t.ema = 1)
        /\ (m.vwap = 1 <=> t.vwap = -1) /\ (m.vwap = -1 <=> t.vwap = 1)
    BY <1>1, <1>2
  <1>4. (Trend(m) = "BULLISH" <=> Trend(t) = "BEARISH") /\ (Trend(m) = "BEARISH" <=> Trend(t) = "BULLISH")
    BY <1>1, <1>3, TrendSays
  <1>5. Trend(m) \in {"BULLISH", "BEARISH", "SIDEWAYS"} /\ Trend(t) \in {"BULLISH", "BEARISH", "SIDEWAYS"}
    BY <1>1, TrendSays
  <1>6. (m.rsi \in 45 .. 68 <=> t.rsi \in 32 .. 55) /\ (m.rsi \in 32 .. 55 <=> t.rsi \in 45 .. 68)
    BY <1>1, <1>2
  <1>7. RsiOk(m) <=> RsiOk(t)
    BY <1>4, <1>6 DEF RsiOk
  <1>8. AtrOk(m) <=> AtrOk(t)
    BY <1>1 DEF AtrOk
  <1>9. HasRoom(m) <=> HasRoom(t)
    <2>1. CASE Trend(t) = "BULLISH"
      BY <1>1, <1>4, <2>1 DEF HasRoom
    <2>2. CASE Trend(t) = "BEARISH"
      BY <1>1, <1>4, <2>2 DEF HasRoom
    <2>3. CASE Trend(t) = "SIDEWAYS"
      <3>1. Trend(m) = "SIDEWAYS"
        BY <1>4, <1>5, <2>3
      <3>2. QED
        BY <2>3, <3>1 DEF HasRoom
    <2>4. QED
      BY <1>5, <2>1, <2>2, <2>3
  <1>10. QED
    BY <1>1, <1>4, <1>5, <1>7, <1>8, <1>9

MirrorFrames(f) ==
    [primary |-> Mirror(f.primary), confirmation |-> Mirror(f.confirmation), trend |-> Mirror(f.trend)]

\* The mirrored frames stand in for each other as the frames do.
LEMMA MirrorStandIns ==
    ASSUME NEW f \in FrameSets, NEW g, g = MirrorFrames(f)
    PROVE  /\ g.primary = Mirror(f.primary) /\ Confirming(g) = Mirror(Confirming(f))
           /\ Trending(g) = Mirror(Trending(f))
  <1>1. /\ g.primary = Mirror(f.primary) /\ g.confirmation = Mirror(f.confirmation)
        /\ g.trend = Mirror(f.trend)
    BY DEF MirrorFrames
  <1>2. \A t \in Measured \cup {NotGiven} : Mirror(t) = NotGiven <=> t = NotGiven
    <2>1. \A t \in Measured : Mirror(t) # NotGiven /\ t # NotGiven
      BY MirrorOf, LiveAssumption
    <2>2. Mirror(NotGiven) = NotGiven
      BY DEF Mirror
    <2>3. QED
      BY <2>1, <2>2
  <1>3. f.confirmation \in Measured \cup {NotGiven} /\ f.trend \in Measured \cup {NotGiven}
    BY FramesMeasured
  <1>4. Confirming(g) = Mirror(Confirming(f))
    BY <1>1, <1>2, <1>3 DEF Confirming
  <1>5. QED
    BY <1>1, <1>2, <1>3, <1>4 DEF Trending

LEMMA MirrorKeeps ==
    ASSUME NEW f \in FrameSets, NEW g, g = MirrorFrames(f)
    PROVE  /\ ScoreOf(g) = ScoreOf(f) /\ (Strictly(g) <=> Strictly(f))
           /\ DecisionOf(g) = Turned(DecisionOf(f)) /\ (TooShort(g) <=> TooShort(f))
  <1> DEFINE p == f.primary
             c == Confirming(f)
             t == Trending(f)
  <1>1. g.primary = Mirror(p) /\ Confirming(g) = Mirror(c) /\ Trending(g) = Mirror(t)
    BY MirrorStandIns
  <1>2. p \in Measured /\ c \in Measured /\ t \in Measured
    BY FramesMeasured
  <1>3. /\ RsiOk(g.primary) <=> RsiOk(p)
        /\ AtrOk(g.primary) <=> AtrOk(p)
        /\ HasRoom(g.primary) <=> HasRoom(p)
        /\ g.primary.volume = p.volume /\ g.primary.atr = p.atr
        /\ g.primary.candles = p.candles /\ Confirming(g).candles = c.candles
        /\ Trending(g).candles = t.candles
    BY <1>1, <1>2, MirrorTests
  <1>4. \A x \in Measured :
           /\ Trend(x) \in {"BULLISH", "BEARISH", "SIDEWAYS"}
           /\ Trend(Mirror(x)) = IF Trend(x) = "BULLISH" THEN "BEARISH"
                                 ELSE IF Trend(x) = "BEARISH" THEN "BULLISH" ELSE "SIDEWAYS"
    BY TrendSays, MirrorTests
  <1>5. Trend(g.primary) \in Directed <=> Trend(p) \in Directed
    BY <1>1, <1>2, <1>4 DEF Directed
  <1>6. Aligned(g) <=> Aligned(f)
    BY <1>1, <1>2, <1>4 DEF Aligned, Directed
  <1>7. /\ RegimeOf(f) \in {"TRENDING_UP", "TRENDING_DOWN"}
             <=> RegimeOf(g) \in {"TRENDING_UP", "TRENDING_DOWN"}
        /\ RegimeOf(f) \in {"SIDEWAYS", "LOW_VOLUME", "HIGH_VOLATILITY"}
             <=> RegimeOf(g) \in {"SIDEWAYS", "LOW_VOLUME", "HIGH_VOLATILITY"}
    <2> DEFINE all == {Trend(p), Trend(c), Trend(t)}
               turned == {Trend(g.primary), Trend(Confirming(g)), Trend(Trending(g))}
    <2>1. (turned = {"BULLISH"} <=> all = {"BEARISH"}) /\ (turned = {"BEARISH"} <=> all = {"BULLISH"})
      <3>1. \A x, y, z, v : {x, y, z} = {v} <=> x = v /\ y = v /\ z = v
        OBVIOUS
      <3>2. QED
        BY <1>1, <1>2, <1>4, <3>1
    <2>2. /\ RegimeOf(g) = IF ~g.primary.volume THEN "LOW_VOLUME"
                           ELSE IF g.primary.atr * 1000 > 35 * LastClose THEN "HIGH_VOLATILITY"
                           ELSE CASE turned = {"BULLISH"} -> "TRENDING_UP"
                                  [] turned = {"BEARISH"} -> "TRENDING_DOWN"
                                  [] OTHER -> "SIDEWAYS"
          /\ RegimeOf(f) = IF ~p.volume THEN "LOW_VOLUME"
                           ELSE IF p.atr * 1000 > 35 * LastClose THEN "HIGH_VOLATILITY"
                           ELSE CASE all = {"BULLISH"} -> "TRENDING_UP"
                                  [] all = {"BEARISH"} -> "TRENDING_DOWN"
                                  [] OTHER -> "SIDEWAYS"
      BY DEF RegimeOf, MarketRegime
    <2>3. {"BULLISH"} # {"BEARISH"}
      OBVIOUS
    <2> HIDE DEF all, turned
    <2>4. CASE all = {"BULLISH"}
      BY <1>3, <2>1, <2>2, <2>3, <2>4
    <2>5. CASE all = {"BEARISH"}
      BY <1>3, <2>1, <2>2, <2>3, <2>5
    <2>6. CASE all # {"BULLISH"} /\ all # {"BEARISH"}
      BY <1>3, <2>1, <2>2, <2>6
    <2>7. QED
      BY <2>4, <2>5, <2>6
  <1>8. ScoreOf(g) = ScoreOf(f)
    BY <1>3, <1>5, <1>6, <1>7 DEF ScoreOf, Points
  <1>9. Strictly(g) <=> Strictly(f)
    BY <1>3, <1>6, <1>7, <1>8 DEF Strictly
  <1>10. TooShort(g) <=> TooShort(f)
    BY <1>3 DEF TooShort
  <1>11. Strictly(f) => Trend(p) \in Directed
    BY DEF Strictly, Aligned
  <1>12. Strictly(f) => DecisionOf(g) = Turned(DecisionOf(f))
    BY <1>1, <1>2, <1>4, <1>9, <1>11 DEF DecisionOf, Turned, Directed
  <1>13. ~Strictly(f) => DecisionOf(g) = Turned(DecisionOf(f))
    BY <1>6, <1>8, <1>9 DEF DecisionOf, Turned
  <1>14. QED
    BY <1>8, <1>9, <1>10, <1>12, <1>13

LEMMA MirroredSignal ==
    ASSUME LiveKept
    PROVE  SignalMirrors
  <1>1. SUFFICES ASSUME NEW f \in FrameSets, live = [frames |-> f, signal |-> SignalOf(f)]
                 PROVE  SignalMirrors
    BY DEF LiveKept, SignalMirrors
  <1>2. live.frames = f /\ live.signal = SignalOf(f)
    BY <1>1
  <1> DEFINE g == MirrorFrames(f)
  <1>3. SignalOf(g).decision = Turned(SignalOf(f).decision) /\ SignalOf(g).score = SignalOf(f).score
    <2>1. CASE TooShort(f)
      <3>1. SignalOf(f) = NoSignal /\ SignalOf(g) = NoSignal
        BY <2>1, SignalIs, MirrorKeeps
      <3>2. QED
        BY <3>1 DEF NoSignal, Turned
    <2>2. CASE ~TooShort(f)
      <3>1. /\ SignalOf(f).decision = DecisionOf(f) /\ SignalOf(f).score = Min({100, ScoreOf(f)})
            /\ SignalOf(g).decision = DecisionOf(g) /\ SignalOf(g).score = Min({100, ScoreOf(g)})
        BY <2>2, SignalIs, MirrorKeeps
      <3>2. QED
        BY <3>1, MirrorKeeps
    <2>3. QED
      BY <2>1, <2>2
  <1>4. QED
    BY <1>2, <1>3 DEF SignalMirrors, Turned, MirrorFrames

(***************************************************************************)
(* The report: what the loop over the outcomes keeps.                      *)
(***************************************************************************)
Rows == [decision : {"BUY", "SELL", "HOLD", "NO_TRADE"}, pnl : Outcomes]

GainsOf(rs, i, j) == [k \in i .. j |-> Gain(rs[k])]
GainTo(rs, n) == SumFunction(GainsOf(rs, 1, n))

RunStep(r, row) ==
    LET equity == r.equity + Gain(row)
        peak   == Max({r.peak, equity})
    IN [equity |-> equity, peak |-> peak, fall |-> Max({r.fall, peak - equity})]

NoRun == [equity |-> 0, peak |-> 0, fall |-> 0]

IsRun(g, rs, L) == g = [n \in 0 .. L |-> IF n = 0 THEN NoRun ELSE RunStep(g[n - 1], rs[n])]

LEMMA RunExists ==
    ASSUME NEW rs, NEW L \in Nat
    PROVE  \E g : IsRun(g, rs, L)
  <1> DEFINE N == {n \in Nat : \E g : IsRun(g, rs, n)}
  <1>1. 0 \in N
    <2>1. IsRun([n \in 0 .. 0 |-> NoRun], rs, 0)
      BY DEF IsRun
    <2>2. QED
      BY <2>1
  <1>2. ASSUME NEW n \in Nat, n \in N PROVE n + 1 \in N
    <2>1. PICK g : IsRun(g, rs, n)
      BY <1>2
    <2>2. PICK h : h = [i \in 0 .. n + 1 |-> IF i = 0 THEN NoRun ELSE RunStep(g[i - 1], rs[i])]
      OBVIOUS
    <2>3. \A i \in 0 .. n : h[i] = g[i]
      BY <2>1, <2>2 DEF IsRun
    <2>4. \A i \in 0 .. n + 1 : i # 0 => i - 1 \in 0 .. n
      OBVIOUS
    <2>5. IsRun(h, rs, n + 1)
      BY <2>2, <2>3, <2>4 DEF IsRun
    <2>6. QED
      BY <2>5
  <1>3. Nat \subseteq N
    <2> HIDE DEF N
    <2>1. QED
      BY <1>1, <1>2, Counting
  <1>4. QED
    BY <1>3

LEMMA GainsKnown ==
    ASSUME NEW rs \in Seq(Rows)
    PROVE  /\ Len(rs) \in Nat /\ DOMAIN rs = 1 .. Len(rs)
           /\ \A k \in 1 .. Len(rs) : Gain(rs[k]) \in Int
  <1>1. Len(rs) \in Nat /\ DOMAIN rs = 1 .. Len(rs) /\ \A k \in 1 .. Len(rs) : rs[k] \in Rows
    OBVIOUS
  <1>2. \A row \in Rows : Gain(row) \in Int
    <2>1. \A row \in Rows : row.pnl = NoOutcome \/ row.pnl \in Int
      BY LiveAssumption DEF Rows
    <2>2. QED
      BY <2>1 DEF Gain
  <1>3. QED
    BY <1>1, <1>2

LEMMA GainsAdd ==
    ASSUME NEW rs \in Seq(Rows)
    PROVE  /\ GainTo(rs, 0) = 0
           /\ \A n \in 0 .. Len(rs) : GainTo(rs, n) \in Int
           /\ \A n \in 0 .. Len(rs) : n < Len(rs) =>
                 GainTo(rs, n + 1) = GainTo(rs, n) + Gain(rs[n + 1])
           /\ \A i, j \in 1 .. Len(rs) : i <= j =>
                 SumFunction(GainsOf(rs, i, j)) = GainTo(rs, j) - GainTo(rs, i - 1)
           /\ \A i, j \in 1 .. Len(rs) : i > j => SumFunction(GainsOf(rs, i, j)) = 0
  <1> DEFINE L == Len(rs)
  <1>1. L \in Nat /\ \A k \in 1 .. L : Gain(rs[k]) \in Int
    BY GainsKnown
  <1>2. \A i, j \in Int : DOMAIN GainsOf(rs, i, j) = i .. j
    BY DEF GainsOf
  <1>3. \A i \in Int, j \in Int : 1 <= i /\ j <= L => Summable(GainsOf(rs, i, j), i .. j)
    <2>1. SUFFICES ASSUME NEW i \in Int, NEW j \in Int, 1 <= i /\ j <= L
                   PROVE  Summable(GainsOf(rs, i, j), i .. j)
      OBVIOUS
    <2>2. \A k \in i .. j : Gain(rs[k]) \in Int
      BY <1>1, <2>1
    <2>3. IsFiniteSet(i .. j)
      BY FS_Interval
    <2>4. QED
      BY <2>2, <2>3 DEF Summable, GainsOf
  <1>4. GainTo(rs, 0) = 0
    <2>1. DOMAIN GainsOf(rs, 1, 0) = {}
      BY <1>2
    <2>2. QED
      BY <2>1, SumEmpty DEF GainTo
  <1>5. \A n \in 0 .. L : GainTo(rs, n) \in Int
    BY <1>1, <1>3, SumType DEF GainTo
  <1>6. \A n \in 0 .. L : n < L => GainTo(rs, n + 1) = GainTo(rs, n) + Gain(rs[n + 1])
    <2>1. SUFFICES ASSUME NEW n \in 0 .. L, n < L
                   PROVE  GainTo(rs, n + 1) = GainTo(rs, n) + Gain(rs[n + 1])
      OBVIOUS
    <2>2. n \in Nat /\ n + 1 \in 1 .. L
      BY <1>1, <2>1
    <2>3. /\ GainsOf(rs, 1, n) \in [1 .. n -> Int] /\ GainsOf(rs, 1, n + 1) \in [1 .. n + 1 -> Int]
          /\ \A i \in 1 .. n : GainsOf(rs, 1, n + 1)[i] = GainsOf(rs, 1, n)[i]
          /\ GainsOf(rs, 1, n + 1)[n + 1] = Gain(rs[n + 1])
      BY <1>1, <2>2 DEF GainsOf
    <2>4. QED
      BY <2>2, <2>3, SumAppended DEF GainTo
  <1>7. \A i, j \in 1 .. L : i <= j =>
           SumFunction(GainsOf(rs, i, j)) = GainTo(rs, j) - GainTo(rs, i - 1)
    <2>1. SUFFICES ASSUME NEW i \in 1 .. L, NEW j \in 1 .. L, i <= j
                   PROVE  SumFunction(GainsOf(rs, i, j)) = GainTo(rs, j) - GainTo(rs, i - 1)
      OBVIOUS
    <2> DEFINE f == GainsOf(rs, 1, j)
               d == GainsOf(rs, 1, i - 1)
               e == GainsOf(rs, i, j)
    <2>2. Summable(f, 1 .. j) /\ Summable(d, 1 .. i - 1) /\ Summable(e, i .. j)
      BY <1>1, <1>3
    <2>3. SplitsInto(1 .. j, 1 .. i - 1, i .. j)
      BY <1>1, <2>1 DEF SplitsInto
    <2>4. Agree(f, d, 1 .. i - 1) /\ Agree(f, e, i .. j)
      BY <1>1, <2>1 DEF Agree, GainsOf
    <2>5. SumFunction(f) = SumFunction(d) + SumFunction(e)
      <3> HIDE DEF f, d, e
      <3>1. QED
        BY <2>2, <2>3, <2>4, SumUnion
    <2>6. SumFunction(d) \in Int /\ SumFunction(e) \in Int
      BY <2>2, SumType
    <2>7. SumFunction(f) = GainTo(rs, j) /\ SumFunction(d) = GainTo(rs, i - 1)
      BY DEF GainTo
    <2> HIDE DEF f, d, e
    <2>8. SumFunction(e) = GainTo(rs, j) - GainTo(rs, i - 1)
      BY <2>5, <2>6, <2>7
    <2>9. QED
      BY <2>8 DEF e
  <1>8. \A i, j \in 1 .. L : i > j => SumFunction(GainsOf(rs, i, j)) = 0
    <2>1. \A i, j \in 1 .. L : i > j => i .. j = {}
      OBVIOUS
    <2>2. QED
      BY <1>2, <2>1, SumEmpty
  <1>9. QED
    BY <1>4, <1>5, <1>6, <1>7, <1>8

\* After n rows the loop has their sum, the best sum so far and the largest fall from one.
Running(rs, n, r) ==
    /\ r.equity = GainTo(rs, n)
    /\ r.peak \in Int /\ r.fall \in Int
    /\ \A m \in 0 .. n : GainTo(rs, m) <= r.peak
    /\ \E m \in 0 .. n : r.peak = GainTo(rs, m)
    /\ \A m, k \in 0 .. n : m <= k => GainTo(rs, m) - GainTo(rs, k) <= r.fall
    /\ \E m, k \in 0 .. n : m <= k /\ r.fall = GainTo(rs, m) - GainTo(rs, k)

LEMMA RunKeeps ==
    ASSUME NEW rs \in Seq(Rows), NEW n \in 0 .. Len(rs), n < Len(rs), NEW r, Running(rs, n, r),
           NEW q, q = RunStep(r, rs[n + 1])
    PROVE  Running(rs, n + 1, q)
  <1> DEFINE S(m) == GainTo(rs, m)
  <1>1. Len(rs) \in Nat /\ n \in Nat /\ n + 1 \in 0 .. Len(rs)
    BY GainsKnown
  <1>2. \A m \in 0 .. n + 1 : S(m) \in Int
    BY <1>1, GainsAdd
  <1>3. S(n + 1) = r.equity + Gain(rs[n + 1])
    BY GainsAdd DEF Running
  <1>4. q.equity = S(n + 1) /\ q.peak = Max({r.peak, S(n + 1)})
        /\ q.fall = Max({r.fall, q.peak - S(n + 1)})
    BY <1>3 DEF RunStep
  <1>5. r.peak \in Int /\ r.fall \in Int
    BY DEF Running
  <1>6. q.peak \in Int /\ q.peak >= r.peak /\ q.peak >= S(n + 1) /\ q.peak \in {r.peak, S(n + 1)}
    <2>1. S(n + 1) \in Int
      BY <1>1, <1>2
    <2> HIDE DEF S
    <2>2. QED
      BY <1>4, <1>5, <2>1, MaxOfTwo
  <1>7. q.fall \in Int /\ q.fall >= r.fall /\ q.fall >= q.peak - S(n + 1)
        /\ q.fall \in {r.fall, q.peak - S(n + 1)}
    <2>1. q.peak - S(n + 1) \in Int
      BY <1>1, <1>2, <1>6
    <2>2. QED
      BY <1>4, <1>5, <2>1, MaxOfTwo
  <1>8. /\ \A m \in 0 .. n : S(m) <= r.peak
        /\ \E m \in 0 .. n : r.peak = S(m)
        /\ \A m, k \in 0 .. n : m <= k => S(m) - S(k) <= r.fall
        /\ \E m, k \in 0 .. n : m <= k /\ r.fall = S(m) - S(k)
    BY DEF Running
  <1> HIDE DEF S
  <1>9. \A m \in 0 .. n + 1 : m \in 0 .. n \/ m = n + 1
    BY <1>1
  <1>10. ASSUME NEW m \in 0 .. n + 1
         PROVE  S(m) <= q.peak
    <2>1. S(m) \in Int
      BY <1>2
    <2>2. CASE m = n + 1
      BY <1>6, <2>2
    <2>3. CASE m \in 0 .. n
      <3>1. S(m) <= r.peak
        BY <1>8, <2>3
      <3>2. QED
        BY <1>5, <1>6, <2>1, <3>1
    <2>4. QED
      BY <1>9, <2>2, <2>3
  <1>11. \E m \in 0 .. n + 1 : q.peak = S(m)
    BY <1>1, <1>6, <1>8
  <1>12. ASSUME NEW m \in 0 .. n + 1, NEW k \in 0 .. n + 1, m <= k
         PROVE  S(m) - S(k) <= q.fall
    <2>1. CASE k = n + 1
      BY <1>1, <1>2, <1>6, <1>7, <1>10, <2>1
    <2>2. CASE k \in 0 .. n
      <3>1. m \in 0 .. n
        BY <1>1, <1>12, <2>2
      <3>2. S(m) - S(k) <= r.fall
        BY <1>8, <1>12, <2>2, <3>1
      <3>3. QED
        BY <1>2, <1>5, <1>7, <3>2
    <2>3. QED
      BY <1>9, <2>1, <2>2
  <1>13. \E m, k \in 0 .. n + 1 : m <= k /\ q.fall = S(m) - S(k)
    <2>1. CASE q.fall = r.fall
      <3>1. PICK m \in 0 .. n, k \in 0 .. n : m <= k /\ r.fall = S(m) - S(k)
        BY <1>8
      <3>2. m \in 0 .. n + 1 /\ k \in 0 .. n + 1
        BY <1>1
      <3>3. QED
        BY <2>1, <3>1, <3>2
    <2>2. CASE q.fall = q.peak - S(n + 1)
      <3>1. PICK m \in 0 .. n + 1 : q.peak = S(m)
        BY <1>11
      <3>2. m <= n + 1 /\ n + 1 \in 0 .. n + 1
        BY <1>1
      <3>3. QED
        BY <2>2, <3>1, <3>2
    <2>3. QED
      BY <1>7, <2>1, <2>2
  <1>14. QED
    BY <1>4, <1>6, <1>7, <1>10, <1>11, <1>12, <1>13 DEF Running, S

LEMMA DeepestIs ==
    ASSUME NEW rs \in Seq(Rows)
    PROVE  \E r : Running(rs, Len(rs), r) /\ DeepestFall(rs) = r.fall
  <1> DEFINE L == Len(rs)
             g == CHOOSE f : IsRun(f, rs, L)
  <1>1. L \in Nat
    OBVIOUS
  <1>2. IsRun(g, rs, L)
    BY <1>1, RunExists
  <1>3. DeepestFall(rs) = g[L].fall
    BY DEF DeepestFall, IsRun, RunStep, NoRun
  <1> HIDE DEF g
  <1>4. g[0] = NoRun /\ \A n \in 0 .. L : n < L => g[n + 1] = RunStep(g[n], rs[n + 1])
    <2>1. \A n \in 0 .. L : g[n] = IF n = 0 THEN NoRun ELSE RunStep(g[n - 1], rs[n])
      BY <1>2 DEF IsRun
    <2>2. 0 \in 0 .. L /\ \A n \in 0 .. L : n < L =>
             n + 1 \in 0 .. L /\ n + 1 # 0 /\ (n + 1) - 1 = n
      BY <1>1
    <2>3. QED
      BY <2>1, <2>2
  <1> DEFINE T == {n \in 0 .. L : Running(rs, n, g[n])}
  <1>5. 0 \in T
    <2>1. 0 \in 0 .. L /\ \A m \in 0 .. 0 : m = 0
      BY <1>1
    <2>2. GainTo(rs, 0) = 0
      BY GainsAdd
    <2>3. g[0].equity = 0 /\ g[0].peak = 0 /\ g[0].fall = 0
      BY <1>4 DEF NoRun
    <2>4. Running(rs, 0, g[0])
      BY <2>1, <2>2, <2>3 DEF Running
    <2>5. QED
      BY <2>1, <2>4
  <1>6. \A n \in 0 .. L : n \in T /\ n < L => n + 1 \in T
    <2>1. SUFFICES ASSUME NEW n \in 0 .. L, Running(rs, n, g[n]), n < L PROVE n + 1 \in T
      OBVIOUS
    <2>2. Running(rs, n + 1, g[n + 1])
      BY <1>4, <2>1, RunKeeps
    <2>3. n + 1 \in 0 .. L
      BY <1>1, <2>1
    <2>4. QED
      BY <2>2, <2>3
  <1>7. 0 .. L \subseteq T
    <2> HIDE DEF T
    <2>1. QED
      BY <1>1, <1>5, <1>6, CountingTo
  <1>8. L \in T
    BY <1>1, <1>7
  <1>9. QED
    BY <1>3, <1>8

LEMMA ReportHolds ==
    ASSUME rows \in Seq(Rows)
    PROVE  ReportIsHonest
  <1> DEFINE L == Len(rows)
             part(i, j) == SumFunction([k \in i .. j |-> Gain(rows[k])])
             F == {0} \cup {0 - part(i, j) : i, j \in DOMAIN rows}
             S(n) == GainTo(rows, n)
             of(d) == {i \in DOMAIN rows : rows[i].decision = d}
  <1>1. L \in Nat /\ DOMAIN rows = 1 .. L
    BY GainsKnown
  <1>2. \A n \in 0 .. L : S(n) \in Int
    BY GainsAdd
  <1>3. \A i, j \in 1 .. L : (i <= j => part(i, j) = S(j) - S(i - 1)) /\ (i > j => part(i, j) = 0)
    BY GainsAdd DEF GainsOf
  <1>4. PICK r : Running(rows, L, r) /\ DeepestFall(rows) = r.fall
    BY DeepestIs
  <1>5. /\ r.fall \in Int
        /\ \A m, k \in 0 .. L : m <= k => S(m) - S(k) <= r.fall
        /\ \E m, k \in 0 .. L : m <= k /\ r.fall = S(m) - S(k)
    BY <1>4 DEF Running
  <1>6. r.fall = Max(F)
    <2> HIDE DEF S, part
    <2>1. r.fall >= 0
      <3>1. S(0) - S(0) <= r.fall /\ S(0) \in Int
        BY <1>1, <1>2, <1>5
      <3>2. QED
        BY <1>5, <3>1
    <2>2. \A i, j \in 1 .. L : part(i, j) \in Int /\ 0 - part(i, j) <= r.fall
      <3>1. SUFFICES ASSUME NEW i \in 1 .. L, NEW j \in 1 .. L
                     PROVE  part(i, j) \in Int /\ 0 - part(i, j) <= r.fall
        OBVIOUS
      <3>2. CASE i > j
        BY <1>3, <1>5, <2>1, <3>2
      <3>3. CASE i <= j
        <4>1. i - 1 \in 0 .. L /\ j \in 0 .. L /\ i - 1 <= j
          BY <1>1, <3>3
        <4>2. S(i - 1) - S(j) <= r.fall /\ S(i - 1) \in Int /\ S(j) \in Int
          BY <1>2, <1>5, <4>1
        <4>3. QED
          BY <1>3, <1>5, <3>3, <4>2
      <3>4. QED
        BY <3>2, <3>3
    <2>3. r.fall \in F
      <3>1. PICK m \in 0 .. L, k \in 0 .. L : m <= k /\ r.fall = S(m) - S(k)
        BY <1>5
      <3>2. CASE m = k
        BY <1>2, <3>1, <3>2
      <3>3. CASE m < k
        <4>1. m + 1 \in 1 .. L /\ k \in 1 .. L /\ m + 1 <= k /\ (m + 1) - 1 = m
          BY <1>1, <3>3
        <4>2. 0 - part(m + 1, k) = r.fall
          BY <1>2, <1>3, <3>1, <4>1
        <4>3. QED
          BY <1>1, <4>1, <4>2
      <3>4. QED
        BY <3>1, <3>2, <3>3
    <2>4. F \subseteq Int /\ \A y \in F : y <= r.fall
      BY <1>1, <2>1, <2>2
    <2> HIDE DEF F
    <2>5. QED
      BY <2>3, <2>4, MaxIs
  <1>7. Cardinality(of("BUY")) + Cardinality(of("SELL")) + Cardinality(of("NO_TRADE")) <= L
    <2> DEFINE A == of("BUY")
               B == of("SELL")
               C == of("NO_TRADE")
    <2>1. IsFiniteSet(1 .. L) /\ Cardinality(1 .. L) = L
      BY <1>1, FS_Interval
    <2>2. A \subseteq 1 .. L /\ B \subseteq 1 .. L /\ C \subseteq 1 .. L
      BY <1>1
    <2>3. A \cap B = {} /\ (A \cup B) \cap C = {} /\ (A \cup B) \cup C \subseteq 1 .. L
      BY <2>2
    <2> HIDE DEF A, B, C
    <2>4. IsFiniteSet(A) /\ IsFiniteSet(B) /\ IsFiniteSet(C)
      BY <2>1, <2>2, FS_Subset
    <2>5. /\ IsFiniteSet(A \cup B)
          /\ Cardinality(A \cup B) = Cardinality(A) + Cardinality(B) - Cardinality(A \cap B)
      BY <2>4, FS_Union
    <2>6. /\ Cardinality((A \cup B) \cup C)
                = Cardinality(A \cup B) + Cardinality(C) - Cardinality((A \cup B) \cap C)
      BY <2>4, <2>5, FS_Union
    <2>7. Cardinality({}) = 0
      BY FS_EmptySet
    <2>8. Cardinality((A \cup B) \cup C) <= L
      BY <2>1, <2>3, FS_Subset
    <2>9. Cardinality(A) \in Nat /\ Cardinality(B) \in Nat /\ Cardinality(C) \in Nat
      BY <2>4, FS_CardinalityType
    <2>10. Cardinality(A) + Cardinality(B) + Cardinality(C) <= L
      <3>1. Cardinality(A \cup B) = Cardinality(A) + Cardinality(B)
        <4>1. Cardinality(A \cap B) = 0
          BY <2>3, <2>7
        <4>2. QED
          BY <2>5, <2>9, <4>1
      <3>2. Cardinality(A \cup B) \in Nat
        BY <2>9, <3>1
      <3>3. Cardinality((A \cup B) \cup C) = Cardinality(A \cup B) + Cardinality(C)
        <4>1. Cardinality((A \cup B) \cap C) = 0
          BY <2>3, <2>7
        <4>2. QED
          BY <2>6, <2>9, <3>2, <4>1
      <3>4. QED
        BY <2>8, <3>1, <3>3
    <2>11. QED
      BY <2>10 DEF A, B, C
  <1> DEFINE a == Accuracy(rows)
  <1>8. /\ a.status = IF Known(rows) = {} THEN "DATA_UNAVAILABLE" ELSE "VALIDATED"
        /\ a.fall = IF Known(rows) = {} THEN "DATA_UNAVAILABLE" ELSE DeepestFall(rows)
        /\ a.buy = Cardinality(of("BUY")) /\ a.sell = Cardinality(of("SELL"))
        /\ a.none = Cardinality(of("NO_TRADE")) /\ a.total = L
    BY DEF Accuracy
  <1>9. a.buy + a.sell + a.none <= a.total
    BY <1>7, <1>8
  <1>10. a.status = "VALIDATED" <=> Known(rows) # {}
    BY <1>8
  <1>11. Known(rows) # {} => a.fall = Max(F)
    BY <1>4, <1>6, <1>8
  <1> HIDE DEF a
  <1>12. QED
    BY <1>9, <1>10, <1>11 DEF ReportIsHonest, a

(***************************************************************************)
(* Rounding.                                                               *)
(***************************************************************************)
LEMMA RoundedIs ==
    ASSUME NEW a \in Int, NEW b \in Nat \ {0}
    PROVE  \E q \in Int, r \in Int :
              /\ a = b * q + r /\ 0 <= r /\ r < b
              /\ Rounded(a, b) = IF 2 * r < b \/ (2 * r = b /\ q % 2 = 0) THEN q ELSE q + 1
  <1>1. PICK p \in Int, r \in Int : p = a \div b /\ r = a % b /\ 0 <= r /\ r < b /\ a = b * p + r
    OBVIOUS
  <1>2. Rounded(a, b) = IF 2 * r < b \/ (2 * r = b /\ p % 2 = 0) THEN p ELSE p + 1
    BY <1>1 DEF Rounded
  <1>3. QED
    BY <1>1, <1>2

LEMMA RoundedType ==
    ASSUME NEW a \in Int, NEW b \in Nat \ {0}
    PROVE  Rounded(a, b) \in Int /\ 2 * (b * Rounded(a, b)) <= 2 * a + b
  <1>1. PICK q \in Int, r \in Int :
              /\ a = b * q + r /\ 0 <= r /\ r < b
              /\ Rounded(a, b) = IF 2 * r < b \/ (2 * r = b /\ q % 2 = 0) THEN q ELSE q + 1
    BY RoundedIs
  <1>2. CASE Rounded(a, b) = q
    BY <1>1, <1>2
  <1>3. CASE Rounded(a, b) = q + 1 /\ b <= 2 * r
    <2>1. b * (q + 1) = b * q + b
      BY <1>1
    <2>2. QED
      BY <1>1, <1>3, <2>1
  <1>4. QED
    BY <1>1, <1>2, <1>3

LEMMA RoundedGrows ==
    ASSUME NEW a \in Int, NEW c \in Int, a <= c, NEW b \in Nat \ {0}
    PROVE  Rounded(a, b) <= Rounded(c, b)
  <1>1. PICK q \in Int, r \in Int :
              /\ a = b * q + r /\ 0 <= r /\ r < b
              /\ Rounded(a, b) = IF 2 * r < b \/ (2 * r = b /\ q % 2 = 0) THEN q ELSE q + 1
    BY RoundedIs
  <1>2. PICK p \in Int, t \in Int :
              /\ c = b * p + t /\ 0 <= t /\ t < b
              /\ Rounded(c, b) = IF 2 * t < b \/ (2 * t = b /\ p % 2 = 0) THEN p ELSE p + 1
    BY RoundedIs
  <1>3. q <= p
    <2>1. b * q < b * (p + 1)
      BY <1>1, <1>2
    <2>2. \A x, y \in Int : b * x < b * y => x < y
      OBVIOUS
    <2>3. q < p + 1
      BY <2>1, <2>2
    <2>4. QED
      BY <2>3
  <1>4. CASE q = p
    <2>1. r <= t
      BY <1>1, <1>2, <1>4
    <2>2. QED
      BY <1>1, <1>2, <1>4, <2>1
  <1>5. CASE q < p
    BY <1>1, <1>2, <1>5
  <1>6. QED
    BY <1>3, <1>4, <1>5

LEMMA RoundedMirrors ==
    ASSUME NEW a \in Int, NEW b \in Nat \ {0}, NEW k \in Int, k % 2 = 0
    PROVE  Rounded(b * k - a, b) = k - Rounded(a, b)
  <1>1. PICK q \in Int, r \in Int :
              /\ a = b * q + r /\ 0 <= r /\ r < b
              /\ Rounded(a, b) = IF 2 * r < b \/ (2 * r = b /\ q % 2 = 0) THEN q ELSE q + 1
    BY RoundedIs
  <1>2. PICK c \in Int : c = b * k - a
    OBVIOUS
  <1>3. CASE r = 0
    <2>1. b * (k - q) = b * k - b * q
      BY <1>1
    <2>2. c = b * (k - q) /\ k - q \in Int
      BY <1>1, <1>2, <1>3, <2>1
    <2>3. c \div b = k - q /\ c % b = 0
      BY <2>2, QuotientIs
    <2>4. Rounded(c, b) = k - q
      BY <2>3 DEF Rounded
    <2>5. Rounded(a, b) = q
      BY <1>1, <1>3
    <2>6. QED
      BY <1>2, <2>4, <2>5
  <1>4. CASE r # 0
    <2>1. PICK m \in Int : m = k - q - 1
      OBVIOUS
    <2>2. b * m = b * k - b * q - b
      BY <2>1
    <2>3. c = b * m + (b - r)
      BY <1>1, <1>2, <2>2
    <2>4. b * m <= c /\ c < b * m + b /\ c - b * m = b - r
      <3>1. b * m \in Int
        OBVIOUS
      <3>2. QED
        BY <1>1, <1>4, <2>3, <3>1
    <2>5. c \div b = m /\ c % b = b - r
      BY <2>4, QuotientIs
    <2>6. Rounded(c, b) = IF 2 * (b - r) < b \/ (2 * (b - r) = b /\ m % 2 = 0) THEN m ELSE m + 1
      BY <2>5 DEF Rounded
    <2>7. m % 2 = 0 <=> q % 2 # 0
      BY <2>1
    <2>8. Rounded(c, b) = k - Rounded(a, b)
      <3>1. CASE 2 * r = b
        <4>1. 2 * (b - r) = b /\ ~(2 * r < b) /\ ~(2 * (b - r) < b)
          BY <1>1, <3>1
        <4>2. CASE q % 2 = 0
          BY <1>1, <2>1, <2>6, <2>7, <3>1, <4>1, <4>2
        <4>3. CASE q % 2 # 0
          BY <1>1, <2>1, <2>6, <2>7, <3>1, <4>1, <4>3
        <4>4. QED
          BY <4>2, <4>3
      <3>2. CASE 2 * r < b
        BY <1>1, <2>1, <2>6, <3>2
      <3>3. CASE 2 * r > b
        BY <1>1, <2>1, <2>6, <3>3
      <3>4. QED
        BY <1>1, <3>1, <3>2, <3>3
    <2>9. QED
      BY <1>2, <2>8
  <1>5. QED
    BY <1>3, <1>4

(***************************************************************************)
(* The signals the engine is asked about.                                  *)
(***************************************************************************)
ScoresOf(s) == [n \in RequiredScores |-> IF n \in DOMAIN s.scores THEN s.scores[n] ELSE 0]

Strongest(s) == Max({s.bull, s.bear, s.profit})

LEMMA ElevenScores == IsFiniteSet(RequiredScores) /\ Cardinality(RequiredScores) = 11
  <1>1. IsFiniteSet({"alpha"}) /\ Cardinality({"alpha"}) = 1
    BY FS_Singleton
  <1> DEFINE S2 == {"alpha"} \cup {"regime"}
             S3 == S2 \cup {"technical"}
             S4 == S3 \cup {"flow"}
             S5 == S4 \cup {"sentiment"}
             S6 == S5 \cup {"macro"}
             S7 == S6 \cup {"options"}
             S8 == S7 \cup {"risk"}
             S9 == S8 \cup {"execution"}
             S10 == S9 \cup {"liquidity"}
             S11 == S10 \cup {"portfolio_impact"}
  <1>2. /\ "regime" \notin {"alpha"} /\ "technical" \notin S2 /\ "flow" \notin S3
        /\ "sentiment" \notin S4 /\ "macro" \notin S5 /\ "options" \notin S6 /\ "risk" \notin S7
        /\ "execution" \notin S8 /\ "liquidity" \notin S9 /\ "portfolio_impact" \notin S10
    OBVIOUS
  <1>3. S11 = RequiredScores
    BY DEF RequiredScores
  <1> DEFINE Counts(S, n) == IsFiniteSet(S) /\ Cardinality(S) = n
  <1>4. ASSUME NEW S, NEW x, x \notin S, NEW n \in Nat, NEW m, m = n + 1, Counts(S, n)
        PROVE  Counts(S \cup {x}, m)
    BY <1>4, FS_AddElement
  <1> HIDE DEF Counts, S2, S3, S4, S5, S6, S7, S8, S9, S10, S11
  <1>5. Counts({"alpha"}, 1)
    BY <1>1 DEF Counts
  <1>6. Counts(S2, 2)
    <2>1. 2 = 1 + 1 /\ 1 \in Nat
      OBVIOUS
    <2>2. Counts({"alpha"} \cup {"regime"}, 2)
      BY <1>2, <1>4, <1>5, <2>1
    <2>3. QED
      BY <2>2 DEF S2
  <1>7. Counts(S3, 3)
    <2>1. 3 = 2 + 1 /\ 2 \in Nat
      OBVIOUS
    <2>2. Counts(S2 \cup {"technical"}, 3)
      BY <1>2, <1>4, <1>6, <2>1
    <2>3. QED
      BY <2>2 DEF S3
  <1>8. Counts(S4, 4)
    <2>1. 4 = 3 + 1 /\ 3 \in Nat
      OBVIOUS
    <2>2. Counts(S3 \cup {"flow"}, 4)
      BY <1>2, <1>4, <1>7, <2>1
    <2>3. QED
      BY <2>2 DEF S4
  <1>9. Counts(S5, 5)
    <2>1. 5 = 4 + 1 /\ 4 \in Nat
      OBVIOUS
    <2>2. Counts(S4 \cup {"sentiment"}, 5)
      BY <1>2, <1>4, <1>8, <2>1
    <2>3. QED
      BY <2>2 DEF S5
  <1>10. Counts(S6, 6)
    <2>1. 6 = 5 + 1 /\ 5 \in Nat
      OBVIOUS
    <2>2. Counts(S5 \cup {"macro"}, 6)
      BY <1>2, <1>4, <1>9, <2>1
    <2>3. QED
      BY <2>2 DEF S6
  <1>11. Counts(S7, 7)
    <2>1. 7 = 6 + 1 /\ 6 \in Nat
      OBVIOUS
    <2>2. Counts(S6 \cup {"options"}, 7)
      BY <1>2, <1>4, <1>10, <2>1
    <2>3. QED
      BY <2>2 DEF S7
  <1>12. Counts(S8, 8)
    <2>1. 8 = 7 + 1 /\ 7 \in Nat
      OBVIOUS
    <2>2. Counts(S7 \cup {"risk"}, 8)
      BY <1>2, <1>4, <1>11, <2>1
    <2>3. QED
      BY <2>2 DEF S8
  <1>13. Counts(S9, 9)
    <2>1. 9 = 8 + 1 /\ 8 \in Nat
      OBVIOUS
    <2>2. Counts(S8 \cup {"execution"}, 9)
      BY <1>2, <1>4, <1>12, <2>1
    <2>3. QED
      BY <2>2 DEF S9
  <1>14. Counts(S10, 10)
    <2>1. 10 = 9 + 1 /\ 9 \in Nat
      OBVIOUS
    <2>2. Counts(S9 \cup {"liquidity"}, 10)
      BY <1>2, <1>4, <1>13, <2>1
    <2>3. QED
      BY <2>2 DEF S10
  <1>15. Counts(S11, 11)
    <2>1. 11 = 10 + 1 /\ 10 \in Nat
      OBVIOUS
    <2>2. Counts(S10 \cup {"portfolio_impact"}, 11)
      BY <1>2, <1>4, <1>14, <2>1
    <2>3. QED
      BY <2>2 DEF S11
  <1>16. QED
    BY <1>3, <1>15 DEF Counts

LEMMA ScoresAdd ==
    ASSUME NEW s, IsInput(s)
    PROVE  /\ Summable(ScoresOf(s), RequiredScores) /\ SumFunction(ScoresOf(s)) \in Int
           /\ Summable(s.votes, DOMAIN s.votes) /\ SumFunction(s.votes) \in Int
           /\ Cardinality(DOMAIN s.votes) \in Nat
           /\ Strongest(s) \in Int
  <1>1. \A n \in RequiredScores : ScoresOf(s)[n] \in Int
    BY DEF ScoresOf, IsInput
  <1>2. Summable(ScoresOf(s), RequiredScores)
    BY <1>1, ElevenScores DEF Summable, ScoresOf
  <1>3. Summable(s.votes, DOMAIN s.votes)
    BY DEF Summable, IsInput
  <1>4. Cardinality(DOMAIN s.votes) \in Nat
    BY FS_CardinalityType DEF IsInput
  <1>5. Strongest(s) \in Int
    <2>1. {s.bull, s.bear, s.profit} # {} /\ {s.bull, s.bear, s.profit} \subseteq Int
      BY DEF IsInput
    <2>2. Max({s.bull, s.bear, s.profit}) \in {s.bull, s.bear, s.profit}
      BY <2>1, FewAreFinite, LargestExists
    <2>3. QED
      BY <2>1, <2>2 DEF Strongest
  <1>6. QED
    BY <1>2, <1>3, <1>4, <1>5, SumType

ConfidenceTop(s) ==
    LET k == Cardinality(DOMAIN s.votes)
    IN IF k = 0 THEN 11 * Strongest(s) + 200 * SumFunction(ScoresOf(s))
       ELSE 11 * k * Strongest(s) + 100 * (k * SumFunction(ScoresOf(s)) + 11 * SumFunction(s.votes))

ConfidenceBottom(s) ==
    LET k == Cardinality(DOMAIN s.votes) IN IF k = 0 THEN 33 ELSE 33 * k

LEMMA ConfidenceIs ==
    ASSUME NEW s, IsInput(s)
    PROVE  /\ Confidence(s) = Rounded(ConfidenceTop(s), ConfidenceBottom(s))
           /\ ConfidenceTop(s) \in Int /\ ConfidenceBottom(s) \in Nat \ {0}
           /\ Confidence(s) \in Int
  <1>1. /\ SumFunction(ScoresOf(s)) \in Int /\ SumFunction(s.votes) \in Int
        /\ Cardinality(DOMAIN s.votes) \in Nat /\ Strongest(s) \in Int
    BY ScoresAdd
  <1>2. Confidence(s) = Rounded(ConfidenceTop(s), ConfidenceBottom(s))
    BY DEF Confidence, ConfidenceTop, ConfidenceBottom, ScoresOf, Strongest
  <1>3. ConfidenceTop(s) \in Int /\ ConfidenceBottom(s) \in Nat \ {0}
    BY <1>1 DEF ConfidenceTop, ConfidenceBottom
  <1>4. QED
    BY <1>2, <1>3, RoundedType

\* When a trade comes out.
LEMMA TradeIs ==
    ASSUME NEW s, NEW gs
    PROVE  /\ Trades(Evaluate(s, gs)) <=>
                 /\ RejectedGates(gs) = {} /\ RejectedScores(s.scores) = {}
                 /\ ~(Confidence(s) < MinConfidence * 100) /\ Direction(s) \in {"BUY", "SELL"}
           /\ Trades(Evaluate(s, gs)) => Evaluate(s, gs).decision = Direction(s)
  <1> DEFINE doubt == {c \in {"Confidence Calibration"} : Confidence(s) < MinConfidence * 100}
             against == RejectedGates(gs) \cup RejectedScores(s.scores) \cup doubt
  <1>1. Evaluate(s, gs).decision = IF against = {} THEN Direction(s) ELSE "NO TRADE"
    BY DEF Evaluate
  <1>2. doubt = {} <=> ~(Confidence(s) < MinConfidence * 100)
    OBVIOUS
  <1> HIDE DEF doubt
  <1>3. against = {} <=> RejectedGates(gs) = {} /\ RejectedScores(s.scores) = {} /\ doubt = {}
    OBVIOUS
  <1> HIDE DEF against
  <1>4. QED
    BY <1>1, <1>2, <1>3 DEF Trades

(***************************************************************************)
(* The gates, of which the last word under each name counts.               *)
(***************************************************************************)
SaidOf(gs, n) == {i \in DOMAIN gs : gs[i].name = n}

LEMMA SaidIs ==
    ASSUME NEW T, NEW gs \in Seq(T), NEW n
    PROVE  /\ SaidOf(gs, n) \subseteq 1 .. Len(gs)
           /\ SaidOf(gs, n) # {} =>
                 Max(SaidOf(gs, n)) \in SaidOf(gs, n) /\ Max(SaidOf(gs, n)) \in 1 .. Len(gs)
           /\ LastWord(gs, n) = IF SaidOf(gs, n) = {} THEN "missing"
                                ELSE IF gs[Max(SaidOf(gs, n))].approved THEN "approved" ELSE "rejected"
  <1>1. SaidOf(gs, n) \subseteq 1 .. Len(gs)
    BY DEF SaidOf
  <1>2. IsFiniteSet(SaidOf(gs, n)) /\ SaidOf(gs, n) \subseteq Int
    BY <1>1, FS_Interval, FS_Subset
  <1>3. SaidOf(gs, n) # {} => Max(SaidOf(gs, n)) \in SaidOf(gs, n)
    BY <1>2, LargestExists
  <1>4. QED
    BY <1>1, <1>3 DEF LastWord, SaidOf

LEMMA Withdrawn ==
    ASSUME NEW T, NEW gs \in Seq(T), NEW n \in RequiredGates
    PROVE  RejectedGates(Append(gs, [name |-> n, approved |-> FALSE])) # {}
  <1> DEFINE g == [name |-> n, approved |-> FALSE]
             hs == Append(gs, g)
             U == T \cup {g}
             L == Len(gs)
  <1>1. gs \in Seq(U) /\ g \in U /\ L \in Nat
    OBVIOUS
  <1>2. hs \in Seq(U) /\ Len(hs) = L + 1 /\ hs[L + 1] = g
    BY <1>1
  <1>3. SaidOf(hs, n) \subseteq 1 .. L + 1 /\ L + 1 \in SaidOf(hs, n)
    BY <1>1, <1>2 DEF SaidOf
  <1>4. Max(SaidOf(hs, n)) = L + 1
    <2>1. SaidOf(hs, n) \subseteq Int /\ \A y \in SaidOf(hs, n) : y <= L + 1
      <3> HIDE DEF hs
      <3>1. QED
        BY <1>1, <1>3
    <2> HIDE DEF hs
    <2>2. QED
      BY <1>1, <1>3, <2>1, MaxIs
  <1>5. LastWord(hs, n) = IF SaidOf(hs, n) = {} THEN "missing"
                          ELSE IF hs[Max(SaidOf(hs, n))].approved THEN "approved" ELSE "rejected"
    <2> HIDE DEF hs, U
    <2>1. QED
      BY <1>2, SaidIs
  <1>6. LastWord(hs, n) # "approved"
    BY <1>2, <1>3, <1>4, <1>5
  <1>7. n \in RejectedGates(hs)
    BY <1>6 DEF RejectedGates
  <1>8. QED
    BY <1>7

LEMMA Unreported ==
    ASSUME NEW gs, NEW n \in RequiredGates
    PROVE  RejectedGates(WithoutGate(gs, n)) # {}
  <1> DEFINE hs == WithoutGate(gs, n)
  <1>1. "Unasked" # n
    BY DEF RequiredGates
  <1>2. \A i \in DOMAIN hs : hs[i].name # n
    BY <1>1 DEF WithoutGate
  <1>3. LastWord(hs, n) = "missing"
    BY <1>2 DEF LastWord
  <1>4. n \in RejectedGates(hs)
    BY <1>3 DEF RejectedGates
  <1>5. QED
    BY <1>4

\* A gate nobody requires has no say.
LEMMA UnaskedGate ==
    ASSUME NEW T, NEW gs \in Seq(T), NEW g, g.name \notin RequiredGates
    PROVE  RejectedGates(Append(gs, g)) = RejectedGates(gs)
  <1> DEFINE hs == Append(gs, g)
             U == T \cup {g}
             L == Len(gs)
  <1>1. gs \in Seq(U) /\ g \in U /\ L \in Nat
    OBVIOUS
  <1>2. /\ hs \in Seq(U) /\ Len(hs) = L + 1 /\ hs[L + 1] = g /\ DOMAIN hs = 1 .. L + 1
        /\ DOMAIN gs = 1 .. L /\ \A i \in 1 .. L : hs[i] = gs[i]
    BY <1>1
  <1> HIDE DEF hs, U
  <1>3. ASSUME NEW n \in RequiredGates
        PROVE  LastWord(hs, n) = LastWord(gs, n)
    <2>1. SaidOf(hs, n) = SaidOf(gs, n)
      <3>1. \A i \in 1 .. L + 1 : i \in 1 .. L \/ i = L + 1
        BY <1>1
      <3>2. g.name # n
        OBVIOUS
      <3>3. QED
        BY <1>1, <1>2, <3>1, <3>2 DEF SaidOf
    <2>2. CASE SaidOf(gs, n) = {}
      BY <1>1, <1>2, <2>1, <2>2, SaidIs
    <2>3. CASE SaidOf(gs, n) # {}
      <3>1. Max(SaidOf(gs, n)) \in 1 .. L
        BY <2>3, SaidIs
      <3>2. hs[Max(SaidOf(hs, n))] = gs[Max(SaidOf(gs, n))]
        BY <1>2, <2>1, <3>1
      <3>3. QED
        BY <1>2, <2>1, <2>3, <3>2, SaidIs
    <2>4. QED
      BY <2>2, <2>3
  <1>4. RejectedGates(hs) = RejectedGates(gs)
    BY <1>3 DEF RejectedGates
  <1>5. QED
    BY <1>4 DEF hs

LEMMA ConflictGateUnasked ==
    ASSUME NEW T, NEW gs \in Seq(T), NEW ms
    PROVE  RejectedGates(WithConflictGate(gs, ms)) = RejectedGates(gs)
  <1> DEFINE g == [name |-> "Conflict Resolution", approved |-> FALSE]
  <1>1. g.name \notin RequiredGates
    BY DEF RequiredGates
  <1>2. RejectedGates(Append(gs, g)) = RejectedGates(gs)
    <2> HIDE DEF g
    <2>1. QED
      BY <1>1, UnaskedGate
  <1>3. QED
    BY <1>2 DEF WithConflictGate

(***************************************************************************)
(* A trade depends on each of its scores, and better ones keep it.         *)
(***************************************************************************)
LEMMA ScoreTaken ==
    ASSUME NEW s, IsInput(s), NEW gs, NEW n \in RequiredScores
    PROVE  ~Trades(Evaluate([s EXCEPT !.scores = [k \in DOMAIN @ \ {n} |-> @[k]]], gs))
  <1> DEFINE t == [s EXCEPT !.scores = [k \in DOMAIN @ \ {n} |-> @[k]]]
  <1>1. t.scores = [k \in DOMAIN s.scores \ {n} |-> s.scores[k]]
    BY DEF IsInput
  <1>2. n \notin DOMAIN t.scores
    BY <1>1
  <1>3. n \in RejectedScores(t.scores)
    BY <1>2 DEF RejectedScores
  <1> HIDE DEF t
  <1>4. ~Trades(Evaluate(t, gs))
    BY <1>3, TradeIs
  <1>5. QED
    BY <1>4 DEF t

LEMMA ScoreRaised ==
    ASSUME NEW s, IsInput(s), NEW gs, NEW n \in RequiredScores, RejectedGates(gs) = {},
           RejectedScores(s.scores) = {}, ~(Confidence(s) < MinConfidence * 100),
           Direction(s) \in {"BUY", "SELL"}
    PROVE  Trades(Evaluate([s EXCEPT !.scores = [@ EXCEPT ![n] = 100]], gs))
  <1> DEFINE t == [s EXCEPT !.scores = [@ EXCEPT ![n] = 100]]
  <1>1. /\ t = [bull |-> s.bull, bear |-> s.bear, profit |-> s.profit, votes |-> s.votes,
               scores |-> [s.scores EXCEPT ![n] = 100]]
    BY DEF IsInput
  <1>2. /\ t.bull = s.bull /\ t.bear = s.bear /\ t.profit = s.profit /\ t.votes = s.votes
        /\ t.scores = [s.scores EXCEPT ![n] = 100]
    BY <1>1
  <1> HIDE DEF t
  <1>3. /\ DOMAIN t.scores = DOMAIN s.scores
        /\ \A k \in DOMAIN s.scores : t.scores[k] = IF k = n THEN 100 ELSE s.scores[k]
        /\ \A k \in DOMAIN s.scores : s.scores[k] \in 0 .. 100
    BY <1>2 DEF IsInput
  <1>4. IsInput(t)
    <2>1. t = [bull |-> t.bull, bear |-> t.bear, profit |-> t.profit, scores |-> t.scores,
              votes |-> t.votes]
      BY <1>1, <1>2
    <2>2. t.scores \in [DOMAIN t.scores -> 0 .. 100]
      <3>1. s.scores \in [DOMAIN s.scores -> 0 .. 100] /\ 100 \in 0 .. 100
        BY DEF IsInput
      <3>2. [s.scores EXCEPT ![n] = 100] \in [DOMAIN s.scores -> 0 .. 100]
        BY <3>1
      <3>3. QED
        BY <1>2, <1>3, <3>2
    <2>3. /\ t.bull \in Int /\ t.bear \in Int /\ t.profit \in Int
          /\ IsFiniteSet(DOMAIN t.votes) /\ t.votes \in [DOMAIN t.votes -> Int]
      BY <1>2 DEF IsInput
    <2>4. QED
      BY <2>1, <2>2, <2>3 DEF IsInput
  <1>5. RequiredScores \subseteq DOMAIN s.scores /\ \A k \in RequiredScores : ~(s.scores[k] < MinScore)
    BY DEF RejectedScores
  <1>6. MinScore \in 0 .. 100 /\ MinConfidence \in 0 .. 100
    BY ThresholdAssumption
  <1>7. RejectedScores(t.scores) = {}
    BY <1>3, <1>5, <1>6 DEF RejectedScores
  <1>8. Direction(t) = Direction(s)
    BY <1>2 DEF Direction
  <1>9. SumFunction(ScoresOf(s)) <= SumFunction(ScoresOf(t))
    <2>1. \A k \in RequiredScores : ScoresOf(s)[k] * 1 <= ScoresOf(t)[k] * 1
      BY <1>3, <1>5 DEF ScoresOf
    <2>2. Summable(ScoresOf(s), RequiredScores) /\ Summable(ScoresOf(t), RequiredScores)
      BY <1>4, ScoresAdd
    <2>3. SumFunction(ScoresOf(s)) * 1 <= SumFunction(ScoresOf(t)) * 1
      BY <2>1, <2>2, SumCompares
    <2>4. QED
      BY <1>4, <2>3, ScoresAdd
  <1>10. ConfidenceTop(s) <= ConfidenceTop(t) /\ ConfidenceBottom(t) = ConfidenceBottom(s)
    <2> DEFINE k == Cardinality(DOMAIN s.votes)
               a == SumFunction(ScoresOf(s))
               b == SumFunction(ScoresOf(t))
               v == SumFunction(s.votes)
    <2>1. k \in Nat /\ a \in Int /\ b \in Int /\ v \in Int /\ Strongest(s) \in Int /\ a <= b
      BY <1>4, <1>9, ScoresAdd
    <2>2. Strongest(t) = Strongest(s)
      BY <1>2 DEF Strongest
    <2>3. /\ ConfidenceTop(s) = IF k = 0 THEN 11 * Strongest(s) + 200 * a
                                ELSE 11 * k * Strongest(s) + 100 * (k * a + 11 * v)
          /\ ConfidenceTop(t) = IF k = 0 THEN 11 * Strongest(s) + 200 * b
                                ELSE 11 * k * Strongest(s) + 100 * (k * b + 11 * v)
      BY <1>2, <2>2 DEF ConfidenceTop
    <2> HIDE DEF k, a, b, v
    <2>4. k * a <= k * b
      BY <2>1
    <2>5. ConfidenceTop(s) <= ConfidenceTop(t)
      BY <2>1, <2>3, <2>4
    <2>6. QED
      BY <1>2, <2>5 DEF ConfidenceBottom
  <1>11. Confidence(s) <= Confidence(t)
    BY <1>4, <1>10, ConfidenceIs, RoundedGrows
  <1>12. ~(Confidence(t) < MinConfidence * 100)
    BY <1>4, <1>6, <1>11, ConfidenceIs
  <1>13. Trades(Evaluate(t, gs))
    BY <1>7, <1>8, <1>12, TradeIs
  <1>14. QED
    BY <1>13 DEF t

(***************************************************************************)
(* What confidence costs.                                                  *)
(***************************************************************************)
LEMMA RangeTop ==
    ASSUME NEW D, IsFiniteSet(D), D # {}, NEW f \in [D -> Int]
    PROVE  Max(Range(f)) \in Int /\ \A x \in D : f[x] <= Max(Range(f))
  <1>1. Range(f) = {f[x] : x \in D}
    BY DEF Range
  <1>2. Range(f) # {} /\ Range(f) \subseteq Int
    BY <1>1
  <1>3. f \in Surjection(D, Range(f))
    BY <1>1 DEF Surjection
  <1>4. IsFiniteSet(Range(f))
    BY <1>3, FS_Surjection
  <1>5. Max(Range(f)) \in Range(f) /\ \A y \in Range(f) : Max(Range(f)) >= y
    BY <1>2, <1>4, LargestExists
  <1>6. \A x \in D : f[x] \in Range(f)
    BY <1>1
  <1>7. QED
    BY <1>2, <1>5, <1>6

LEMMA EvidenceTyped ==
    ASSUME NEW s, IsInput(s), DOMAIN s.votes # {}, RejectedScores(s.scores) = {}
    PROVE  /\ Max(Range(s.votes)) \in Int /\ Max(Range(s.scores)) \in Int /\ Strongest(s) \in Int
           /\ \A x \in DOMAIN s.votes : s.votes[x] <= Max(Range(s.votes))
           /\ \A n \in DOMAIN s.scores : s.scores[n] <= Max(Range(s.scores))
  <1>1. IsFiniteSet(DOMAIN s.votes) /\ s.votes \in [DOMAIN s.votes -> Int] /\ s.scores \in [DOMAIN s.scores -> 0 .. 100]
    BY DEF IsInput
  <1>2. Max(Range(s.votes)) \in Int /\ \A x \in DOMAIN s.votes : s.votes[x] <= Max(Range(s.votes))
    BY <1>1, RangeTop
  <1>3. RequiredScores \subseteq DOMAIN s.scores
    BY DEF RejectedScores
  <1>4. /\ Max(Range(s.scores)) \in Int
        /\ \A n \in DOMAIN s.scores : s.scores[n] <= Max(Range(s.scores))
    <2>1. Range(s.scores) \subseteq 0 .. 100
      BY <1>1 DEF Range
    <2>2. IsFiniteSet(Range(s.scores)) /\ Range(s.scores) \subseteq Int
      <3>1. IsFiniteSet(0 .. 100) /\ 0 .. 100 \subseteq Int
        <4>1. 0 \in Int /\ 100 \in Int
          OBVIOUS
        <4>2. IsFiniteSet(0 .. 100)
          BY <4>1, FS_Interval, Zenon
        <4>3. 0 .. 100 \subseteq Int
          OBVIOUS
        <4>4. QED
          BY <4>2, <4>3
      <3>2. \A R : R \subseteq 0 .. 100 => IsFiniteSet(R)
        BY <3>1, FS_Subset
      <3>3. \A R : R \subseteq 0 .. 100 => R \subseteq Int
        BY <3>1
      <3>4. QED
        BY <2>1, <3>2, <3>3
    <2>3. \A n \in DOMAIN s.scores : s.scores[n] \in Range(s.scores)
      BY DEF Range
    <2>4. Range(s.scores) # {}
      BY <1>3, <2>3 DEF RequiredScores
    <2>5. QED
      BY <2>2, <2>3, <2>4, LargestExists
  <1>5. QED
    BY <1>2, <1>4, ScoresAdd

\* The confidence is at most the mean of the three best pieces of evidence, rounded.
LEMMA ConfidenceCosts ==
    ASSUME NEW s, IsInput(s), DOMAIN s.votes # {}, RejectedScores(s.scores) = {},
           NEW c \in Int, ~(Confidence(s) < c)
    PROVE  6 * c <= 2 * (100 * Max(Range(s.votes)) + Strongest(s) + 100 * Max(Range(s.scores))) + 3
  <1> DEFINE D == DOMAIN s.votes
             a == SumFunction(ScoresOf(s))
             v == SumFunction(s.votes)
             most == Max(Range(s.votes))
             top == Max(Range(s.scores))
             X == 100 * most + Strongest(s) + 100 * top
  <1>1. /\ Summable(ScoresOf(s), RequiredScores) /\ a \in Int /\ Summable(s.votes, D) /\ v \in Int
        /\ Cardinality(D) \in Nat /\ Strongest(s) \in Int
    BY ScoresAdd
  <1>2. IsFiniteSet(D) /\ s.votes \in [D -> Int] /\ s.scores \in [DOMAIN s.scores -> 0 .. 100]
    BY DEF IsInput
  <1>3. Cardinality(D) # 0
    BY <1>2, FS_EmptySet
  <1>4. most \in Int /\ \A x \in D : s.votes[x] <= most
    BY <1>2, RangeTop
  <1>5. v <= most * Cardinality(D)
    BY <1>1, <1>4, SumBetween
  <1>6. RequiredScores \subseteq DOMAIN s.scores
    BY DEF RejectedScores
  <1>7. top \in Int /\ \A n \in DOMAIN s.scores : s.scores[n] <= top
    BY EvidenceTyped
  <1>8. a <= top * 11
    <2>1. \A n \in RequiredScores : ScoresOf(s)[n] <= top
      BY <1>6, <1>7 DEF ScoresOf
    <2>2. a <= top * Cardinality(RequiredScores)
      BY <1>1, <1>7, <2>1, SumBetween
    <2>3. QED
      BY <2>2, ElevenScores
  <1>9. PICK k \in Nat : k = Cardinality(D) /\ k >= 1
    BY <1>1, <1>3
  <1>10. ConfidenceTop(s) = 11 * k * Strongest(s) + 100 * (k * a + 11 * v) /\ ConfidenceBottom(s) = 33 * k
    BY <1>9 DEF ConfidenceTop, ConfidenceBottom
  <1>11. 2 * ((33 * k) * c) <= 2 * ConfidenceTop(s) + 33 * k
    <2>1. Confidence(s) \in Int /\ Confidence(s) >= c
      BY ConfidenceIs
    <2>2. 2 * ((33 * k) * Confidence(s)) <= 2 * ConfidenceTop(s) + 33 * k
      BY <1>9, <1>10, ConfidenceIs, RoundedType
    <2>3. (33 * k) * c <= (33 * k) * Confidence(s)
      BY <1>9, <2>1
    <2>4. ConfidenceTop(s) \in Int
      BY ConfidenceIs
    <2>5. QED
      BY <1>9, <2>1, <2>2, <2>3, <2>4
  <1> HIDE DEF D, a, v, most, top
  <1>12. ConfidenceTop(s) <= 11 * (k * X)
    <2>1. k * a <= k * (top * 11)
      BY <1>1, <1>7, <1>8, <1>9
    <2>2. v <= k * most
      BY <1>4, <1>5, <1>9
    <2>3. k * X = 100 * (k * most) + k * Strongest(s) + 100 * (k * top)
      BY <1>1, <1>4, <1>7, <1>9
    <2>4. k * a \in Int /\ k * (top * 11) = 11 * (k * top) /\ 11 * k * Strongest(s) = 11 * (k * Strongest(s))
      BY <1>1, <1>7, <1>9
    <2>5. k * most \in Int /\ k * top \in Int /\ k * Strongest(s) \in Int
      BY <1>1, <1>4, <1>7, <1>9
    <2>6. QED
      BY <1>1, <1>10, <2>1, <2>2, <2>3, <2>4, <2>5
  <1>13. X \in Int
    BY <1>1, <1>4, <1>7
  <1> HIDE DEF X
  <1>14. k * (6 * c) <= k * (2 * X + 3)
    <2>1. k * c \in Int /\ k * X \in Int
      BY <1>9, <1>13
    <2>2. (33 * k) * c = 33 * (k * c) /\ k * (6 * c) = 6 * (k * c) /\ k * (2 * X + 3) = 2 * (k * X) + 3 * k
      BY <1>9, <1>13
    <2>3. 66 * (k * c) <= 22 * (k * X) + 33 * k
      BY <1>9, <1>11, <1>12, <2>1, <2>2, ConfidenceIs
    <2>4. QED
      BY <1>9, <2>1, <2>2, <2>3
  <1>15. 6 * c <= 2 * X + 3
    <2>1. \A x, y \in Int : k * x <= k * y => x <= y
      BY <1>9
    <2>2. QED
      BY <1>13, <1>14, <2>1
  <1>16. QED
    BY <1>15 DEF X, most, top

(***************************************************************************)
(* The models' signal.                                                     *)
(***************************************************************************)
LEMMA ModelsAre ==
    ASSUME NEW ms, IsPanel(ms)
    PROVE  /\ DOMAIN ms = 1 .. Len(ms) /\ Len(ms) \in Nat /\ IsFiniteSet(DOMAIN ms)
           /\ \A i \in DOMAIN ms :
                 /\ ms[i] = [source |-> ms[i].source, probability |-> ms[i].probability,
                             confidence |-> ms[i].confidence, scores |-> ms[i].scores]
                 /\ ms[i].probability \in Int /\ ms[i].confidence \in Int
                 /\ ms[i].scores \in [DOMAIN ms[i].scores -> 0 .. 100]
  <1>1. ms \in Seq(Range(ms)) /\ \A i \in DOMAIN ms : IsModel(ms[i])
    BY DEF IsPanel
  <1>2. \A i \in DOMAIN ms :
           /\ ms[i] = [source |-> ms[i].source, probability |-> ms[i].probability,
                       confidence |-> ms[i].confidence, scores |-> ms[i].scores]
           /\ ms[i].probability \in 0 .. 100 /\ ms[i].confidence \in 0 .. 100
           /\ ms[i].scores \in [DOMAIN ms[i].scores -> 0 .. 100]
    BY <1>1 DEF IsModel
  <1>3. DOMAIN ms = 1 .. Len(ms) /\ Len(ms) \in Nat
    BY <1>1
  <1>4. IsFiniteSet(DOMAIN ms)
    BY <1>3, FS_Interval
  <1>5. \A x \in 0 .. 100 : x \in Int
    OBVIOUS
  <1>6. QED
    BY <1>2, <1>3, <1>4, <1>5, Zenon

LEMMA WeightsAre ==
    ASSUME NEW ms, IsPanel(ms), NEW ps \in Priors
    PROVE  \A i \in DOMAIN ms : RawWeight(ms, ps, i) \in Int
  <1>1. \A x \in DOMAIN ps : ps[x] \in Int
    BY PriorAssumption
  <1>2. \A i \in DOMAIN ms : ms[i].confidence \in Int
    BY ModelsAre
  <1>3. QED
    BY <1>1, <1>2 DEF RawWeight

WeightsOf(ms, ps) == [i \in DOMAIN ms |-> RawWeight(ms, ps, i)]
BeliefOf(ms, ps)  == [i \in DOMAIN ms |-> ms[i].probability * RawWeight(ms, ps, i)]

LEMMA MassAndBelief ==
    ASSUME NEW ms, IsPanel(ms), NEW ps \in Priors
    PROVE  /\ Summable(WeightsOf(ms, ps), DOMAIN ms) /\ Mass(ms, ps) = SumFunction(WeightsOf(ms, ps))
           /\ Mass(ms, ps) \in Int
           /\ Summable(BeliefOf(ms, ps), DOMAIN ms) /\ SumFunction(BeliefOf(ms, ps)) \in Int
           /\ Posterior(ms, ps) = Rounded(100 * SumFunction(BeliefOf(ms, ps)), Mass(ms, ps))
           /\ PositiveMass(ms, ps) =>
                 Mass(ms, ps) \in Nat \ {0} /\ Posterior(ms, ps) \in Int
  <1>1. IsFiniteSet(DOMAIN ms) /\ \A i \in DOMAIN ms : ms[i].probability \in Int /\ RawWeight(ms, ps, i) \in Int
    BY ModelsAre, WeightsAre
  <1>2. Summable(WeightsOf(ms, ps), DOMAIN ms)
    BY <1>1 DEF Summable, WeightsOf
  <1>3. Summable(BeliefOf(ms, ps), DOMAIN ms)
    BY <1>1 DEF Summable, BeliefOf
  <1>4. Mass(ms, ps) = SumFunction(WeightsOf(ms, ps))
    BY DEF Mass, WeightsOf
  <1>5. Posterior(ms, ps) = Rounded(100 * SumFunction(BeliefOf(ms, ps)), Mass(ms, ps))
    BY DEF Posterior, BeliefOf
  <1>6. Mass(ms, ps) \in Int /\ SumFunction(BeliefOf(ms, ps)) \in Int
    BY <1>2, <1>3, <1>4, SumType
  <1>7. ASSUME PositiveMass(ms, ps) PROVE Mass(ms, ps) \in Nat \ {0} /\ Posterior(ms, ps) \in Int
    <2>1. Mass(ms, ps) \in Nat \ {0}
      BY <1>6, <1>7 DEF PositiveMass
    <2>2. 100 * SumFunction(BeliefOf(ms, ps)) \in Int
      BY <1>6
    <2>3. QED
      BY <1>5, <2>1, <2>2, RoundedType
  <1>8. QED
    BY <1>2, <1>3, <1>4, <1>5, <1>6, <1>7

ReportedBy(ms) == UNION {DOMAIN ms[i].scores : i \in DOMAIN ms} \cap RequiredScores

MergedScores(s, ms) ==
    [n \in DOMAIN s.scores \cup ReportedBy(ms) |->
        IF n \in ReportedBy(ms) THEN MeanOf(ms, n) ELSE s.scores[n]]

VoteOf(ms, x) == ms[CHOOSE i \in DOMAIN ms : ms[i].source = x].confidence

MergedVotes(ms) == [x \in {ms[i].source : i \in DOMAIN ms} |-> VoteOf(ms, x)]

LEMMA MergedIs ==
    ASSUME NEW s, NEW ms, NEW ps
    PROVE  Merged(s, ms, ps) =
              [bull |-> Posterior(ms, ps), bear |-> 10000 - Posterior(ms, ps), profit |-> s.profit,
               scores |-> MergedScores(s, ms), votes |-> MergedVotes(ms)]
  BY Zenon DEF Merged, MergedScores, MergedVotes, VoteOf, ReportedBy

LEMMA MeansAreShares ==
    ASSUME NEW ms, IsPanel(ms), NEW n \in ReportedBy(ms)
    PROVE  MeanOf(ms, n) \in 0 .. 100
  <1> DEFINE K == {i \in DOMAIN ms : n \in DOMAIN ms[i].scores}
             f == [i \in K |-> ms[i].scores[n]]
  <1>1. IsFiniteSet(K)
    BY ModelsAre, FS_Subset
  <1>2. \A i \in K : f[i] \in 0 .. 100
    BY ModelsAre
  <1>3. Summable(f, K)
    <2>1. \A i \in K : f[i] \in Int
      BY <1>2
    <2>2. f = [i \in K |-> f[i]]
      OBVIOUS
    <2> HIDE DEF K, f
    <2>3. f \in [K -> Int]
      BY <2>1, <2>2
    <2>4. QED
      BY <1>1, <2>3 DEF Summable
  <1>4. PICK i \in K : TRUE
    BY DEF ReportedBy
  <1>5. Cardinality(K) \in Nat \ {0}
    BY <1>1, <1>4, FS_EmptySet, FS_CardinalityType
  <1> HIDE DEF f
  <1>6. SumFunction(f) \in Nat
    <2>1. \A j \in K : f[j] \in Nat
      BY <1>2
    <2>2. QED
      BY <1>3, <2>1, SumIsNatural
  <1>7. SumFunction(f) <= 100 * Cardinality(K)
    <2>1. \A j \in K : f[j] <= 100
      BY <1>2
    <2>2. QED
      BY <1>3, <2>1, SumBetween
  <1>8. MeanOf(ms, n) = SumFunction(f) \div Cardinality(K)
    BY DEF MeanOf, f
  <1> HIDE DEF K
  <1>9. PICK q \in Int : /\ q = SumFunction(f) \div Cardinality(K)
                         /\ Cardinality(K) * q <= SumFunction(f) /\ q \in Nat
    <2>1. SumFunction(f) \in Int /\ SumFunction(f) >= 0
      BY <1>6
    <2>2. \E q \in Int : /\ q = SumFunction(f) \div Cardinality(K)
                         /\ Cardinality(K) * q <= SumFunction(f)
                         /\ SumFunction(f) < Cardinality(K) * q + Cardinality(K)
                         /\ (SumFunction(f) >= 0 => q \in Nat)
      BY <1>5, <2>1, Divides, Zenon
    <2>3. QED
      BY <2>1, <2>2
  <1>10. q <= 100
    <2>1. Cardinality(K) * q <= Cardinality(K) * 100
      BY <1>5, <1>6, <1>7, <1>9
    <2>2. QED
      BY <1>5, <1>9, <2>1
  <1>11. QED
    BY <1>8, <1>9, <1>10

LEMMA MergedIsInput ==
    ASSUME NEW s, IsInput(s), NEW ms, IsPanel(ms), NEW ps \in Priors, PositiveMass(ms, ps)
    PROVE  IsInput(Merged(s, ms, ps))
  <1> DEFINE m == Merged(s, ms, ps)
  <1>1. IsInput(s)
    OBVIOUS
  <1>2. m = [bull |-> Posterior(ms, ps), bear |-> 10000 - Posterior(ms, ps), profit |-> s.profit,
             scores |-> MergedScores(s, ms), votes |-> MergedVotes(ms)]
    BY <1>1, MergedIs
  <1> HIDE DEF m
  <1>3. /\ m.bull = Posterior(ms, ps) /\ m.bear = 10000 - Posterior(ms, ps) /\ m.profit = s.profit
        /\ m.scores = MergedScores(s, ms) /\ m.votes = MergedVotes(ms)
    BY <1>2
  <1>4. m.bull \in Int /\ m.bear \in Int /\ m.profit \in Int
    <2>1. Posterior(ms, ps) \in Int
      BY MassAndBelief
    <2>2. s.profit \in Int
      BY <1>1 DEF IsInput
    <2>3. QED
      BY <1>3, <2>1, <2>2
  <1>5. MergedScores(s, ms) \in [DOMAIN MergedScores(s, ms) -> 0 .. 100]
    <2>1. \A n \in DOMAIN s.scores : s.scores[n] \in 0 .. 100
      BY <1>1 DEF IsInput
    <2>2. QED
      BY <2>1, MeansAreShares DEF MergedScores
  <1>6. IsFiniteSet(DOMAIN MergedVotes(ms)) /\ MergedVotes(ms) \in [DOMAIN MergedVotes(ms) -> Int]
    <2> DEFINE X == {ms[i].source : i \in DOMAIN ms}
               h == [i \in DOMAIN ms |-> ms[i].source]
    <2>1. h \in Surjection(DOMAIN ms, X)
      BY DEF Surjection
    <2>2. IsFiniteSet(X)
      BY <2>1, ModelsAre, FS_Surjection
    <2>3. \A x \in X : (CHOOSE i \in DOMAIN ms : ms[i].source = x) \in DOMAIN ms
      OBVIOUS
    <2>4. \A x \in X : ms[CHOOSE i \in DOMAIN ms : ms[i].source = x].confidence \in Int
      BY <2>3, ModelsAre
    <2>5. QED
      BY <2>2, <2>4 DEF MergedVotes, VoteOf
  <1>7. IsInput(m)
    BY <1>2, <1>3, <1>4, <1>5, <1>6 DEF IsInput
  <1>8. QED
    BY <1>7 DEF m

Mirrored(ms) == [i \in DOMAIN ms |-> [ms[i] EXCEPT !.probability = 100 - @]]

LEMMA MirroredIs ==
    ASSUME NEW ms, IsPanel(ms)
    PROVE  /\ DOMAIN Mirrored(ms) = DOMAIN ms
           /\ \A i \in DOMAIN ms :
                 /\ Mirrored(ms)[i].source = ms[i].source
                 /\ Mirrored(ms)[i].confidence = ms[i].confidence
                 /\ Mirrored(ms)[i].scores = ms[i].scores
                 /\ Mirrored(ms)[i].probability = 100 - ms[i].probability
  <1>1. ASSUME NEW i \in DOMAIN ms
        PROVE  /\ Mirrored(ms)[i].source = ms[i].source
               /\ Mirrored(ms)[i].confidence = ms[i].confidence
               /\ Mirrored(ms)[i].scores = ms[i].scores
               /\ Mirrored(ms)[i].probability = 100 - ms[i].probability
    <2>1. PICK m : m = ms[i]
      OBVIOUS
    <2>2. m = [source |-> m.source, probability |-> m.probability,
               confidence |-> m.confidence, scores |-> m.scores]
      BY <2>1, ModelsAre
    <2>3. Mirrored(ms)[i] = [m EXCEPT !.probability = 100 - @]
      BY <2>1 DEF Mirrored
    <2>4. [m EXCEPT !.probability = 100 - @]
             = [source |-> m.source, probability |-> 100 - m.probability,
                confidence |-> m.confidence, scores |-> m.scores]
      BY <2>2
    <2>5. QED
      BY <2>1, <2>3, <2>4
  <1>2. DOMAIN Mirrored(ms) = DOMAIN ms
    BY DEF Mirrored
  <1>3. QED
    BY <1>1, <1>2

\* What the mirrored models believe is the rest of the whole.
LEMMA MirroredPosterior ==
    ASSUME NEW ms, IsPanel(ms), NEW ps \in Priors, PositiveMass(ms, ps)
    PROVE  Posterior(Mirrored(ms), ps) = 10000 - Posterior(ms, ps)
  <1> DEFINE r == Mirrored(ms)
             D == DOMAIN ms
             W == WeightsOf(ms, ps)
             B == BeliefOf(ms, ps)
             C == BeliefOf(r, ps)
             e == [i \in D |-> 100 * W[i]]
  <1>1. /\ Summable(W, D) /\ Mass(ms, ps) = SumFunction(W) /\ SumFunction(W) \in Nat \ {0}
        /\ Summable(B, D) /\ SumFunction(B) \in Int
        /\ Posterior(ms, ps) = Rounded(100 * SumFunction(B), SumFunction(W))
    BY MassAndBelief
  <1>2. \A i \in D : RawWeight(r, ps, i) = RawWeight(ms, ps, i)
    BY MirroredIs DEF RawWeight
  <1>3. WeightsOf(r, ps) = W
    BY <1>2, MirroredIs DEF WeightsOf
  <1>4. Mass(r, ps) = SumFunction(W)
    BY <1>3 DEF Mass, WeightsOf
  <1>5. Posterior(r, ps) = Rounded(100 * SumFunction(C), SumFunction(W))
    BY <1>4 DEF Posterior, BeliefOf
  <1>6. \A i \in D : ms[i].probability \in Int /\ RawWeight(ms, ps, i) \in Int
    BY ModelsAre, WeightsAre
  <1>7. \A i \in D : /\ W[i] = RawWeight(ms, ps, i) /\ B[i] = ms[i].probability * RawWeight(ms, ps, i)
                     /\ C[i] = (100 - ms[i].probability) * RawWeight(ms, ps, i)
    BY <1>2, MirroredIs DEF WeightsOf, BeliefOf
  <1>8. \A i \in D : e[i] = B[i] + C[i] /\ e[i] \in Int /\ C[i] \in Int
    <2>1. \A p, w \in Int : 100 * w = p * w + (100 - p) * w /\ 100 * w \in Int /\ (100 - p) * w \in Int
      OBVIOUS
    <2>2. QED
      BY <1>6, <1>7, <2>1
  <1>9. IsFiniteSet(D) /\ DOMAIN C = D
    BY ModelsAre, MirroredIs DEF BeliefOf
  <1>10. C = [i \in D |-> C[i]]
    BY MirroredIs DEF BeliefOf
  <1>11. Summable(C, D) /\ Summable(e, D)
    BY <1>8, <1>9, <1>10 DEF Summable
  <1> HIDE DEF r, W, B, C
  <1>12. SumFunction(e) = SumFunction(B) + SumFunction(C)
    <2> HIDE DEF e, D
    <2>1. QED
      BY <1>1, <1>8, <1>11, SumAdds
  <1>13. SumFunction(e) = SumFunction(W) * 100
    <2>1. \A i \in D : e[i] = W[i] * 100
      BY <1>6, <1>7
    <2> HIDE DEF e, D
    <2>2. QED
      BY <1>1, <1>11, <2>1, SumScaled
  <1>14. SumFunction(C) \in Int
    BY <1>11, SumType
  <1>15. 100 * SumFunction(C) = SumFunction(W) * 10000 - 100 * SumFunction(B)
    <2> HIDE DEF e
    <2>1. QED
      BY <1>1, <1>12, <1>13, <1>14
  <1>16. Rounded(SumFunction(W) * 10000 - 100 * SumFunction(B), SumFunction(W))
            = 10000 - Rounded(100 * SumFunction(B), SumFunction(W))
    <2>1. PICK a \in Int, b \in Nat \ {0}, k \in Int :
             a = 100 * SumFunction(B) /\ b = SumFunction(W) /\ k = 10000
      BY <1>1
    <2>2. k % 2 = 0
      BY <2>1
    <2>3. Rounded(b * k - a, b) = k - Rounded(a, b)
      BY <2>2, RoundedMirrors
    <2>4. QED
      BY <2>1, <2>3
  <1>17. QED
    BY <1>1, <1>5, <1>15, <1>16 DEF r

LEMMA MirroredReports ==
    ASSUME NEW ms, IsPanel(ms)
    PROVE  /\ ReportedBy(Mirrored(ms)) = ReportedBy(ms)
           /\ \A n : MeanOf(Mirrored(ms), n) = MeanOf(ms, n)
           /\ MergedVotes(Mirrored(ms)) = MergedVotes(ms)
  <1> DEFINE r == Mirrored(ms)
  <1>1. /\ DOMAIN r = DOMAIN ms
        /\ \A i \in DOMAIN ms : /\ r[i].source = ms[i].source /\ r[i].confidence = ms[i].confidence
                                /\ r[i].scores = ms[i].scores
    BY MirroredIs
  <1> HIDE DEF r
  <1>2. ReportedBy(r) = ReportedBy(ms)
    <2>1. {DOMAIN r[i].scores : i \in DOMAIN r} = {DOMAIN ms[i].scores : i \in DOMAIN ms}
      BY <1>1
    <2>2. QED
      BY <2>1 DEF ReportedBy
  <1>3. ASSUME NEW n PROVE MeanOf(r, n) = MeanOf(ms, n)
    <2> DEFINE K == {i \in DOMAIN ms : n \in DOMAIN ms[i].scores}
               L == {i \in DOMAIN r : n \in DOMAIN r[i].scores}
    <2>1. L = K
      BY <1>1
    <2>2. [i \in L |-> r[i].scores[n]] = [i \in K |-> ms[i].scores[n]]
      BY <1>1, <2>1
    <2>3. QED
      BY <2>1, <2>2 DEF MeanOf
  <1>4. MergedVotes(r) = MergedVotes(ms)
    <2>1. {r[i].source : i \in DOMAIN r} = {ms[i].source : i \in DOMAIN ms}
      BY <1>1
    <2>2. ASSUME NEW x \in {ms[i].source : i \in DOMAIN ms}
          PROVE  VoteOf(r, x) = VoteOf(ms, x)
      <3>1. PICK i \in DOMAIN ms : ms[i].source = x
        OBVIOUS
      <3>2. \A j \in DOMAIN ms : ms[j].source = x => j = i
        BY <3>1 DEF IsPanel
      <3>3. (CHOOSE j \in DOMAIN ms : ms[j].source = x) = i
        BY <3>1, <3>2
      <3>4. (CHOOSE j \in DOMAIN r : r[j].source = x) = i
        BY <1>1, <3>1, <3>2
      <3>5. QED
        BY <1>1, <3>3, <3>4 DEF VoteOf
    <2>3. QED
      BY <2>1, <2>2 DEF MergedVotes
  <1>5. QED
    BY <1>2, <1>3, <1>4 DEF r

\* Whatever was merged before, the mirrored models are asked about the same evidence with the
\* sides exchanged.
LEMMA MirroredMerge ==
    ASSUME NEW s, IsInput(s), NEW ms, IsPanel(ms), NEW ps \in Priors, PositiveMass(ms, ps)
    PROVE  LET m == Merged(s, ms, ps)
               w == Merged(m, Mirrored(ms), ps)
           IN /\ w.bull = m.bear /\ w.bear = m.bull /\ w.profit = m.profit
              /\ w.scores = m.scores /\ w.votes = m.votes
  <1> DEFINE r == Mirrored(ms)
             p == Posterior(ms, ps)
  <1>1. PICK m : m = Merged(s, ms, ps)
    OBVIOUS
  <1>2. PICK w : w = Merged(m, r, ps)
    OBVIOUS
  <1>3. /\ m.bull = p /\ m.bear = 10000 - p /\ m.profit = s.profit
        /\ m.scores = MergedScores(s, ms) /\ m.votes = MergedVotes(ms)
    BY <1>1, MergedIs
  <1>4. /\ w.bull = Posterior(r, ps) /\ w.bear = 10000 - Posterior(r, ps) /\ w.profit = m.profit
        /\ w.scores = MergedScores(m, r) /\ w.votes = MergedVotes(r)
    BY <1>2, MergedIs
  <1>5. Posterior(r, ps) = 10000 - p /\ p \in Int
    BY MirroredPosterior, MassAndBelief
  <1>6. w.bull = m.bear /\ w.bear = m.bull
    BY <1>3, <1>4, <1>5
  <1>7. w.votes = m.votes
    BY <1>3, <1>4, MirroredReports
  <1>8. MergedScores(m, r) = m.scores
    <2>1. ReportedBy(r) = ReportedBy(ms) /\ \A n : MeanOf(r, n) = MeanOf(ms, n)
      BY MirroredReports
    <2>2. /\ DOMAIN m.scores = DOMAIN s.scores \cup ReportedBy(ms)
          /\ \A n \in DOMAIN m.scores :
                n \in ReportedBy(ms) => m.scores[n] = MeanOf(ms, n)
          /\ m.scores = [n \in DOMAIN m.scores |-> m.scores[n]]
      BY <1>3 DEF MergedScores
    <2> HIDE DEF r
    <2>3. DOMAIN m.scores \cup ReportedBy(r) = DOMAIN m.scores
      BY <2>1, <2>2
    <2>4. MergedScores(m, r) =
             [n \in DOMAIN m.scores |-> IF n \in ReportedBy(r) THEN MeanOf(r, n) ELSE m.scores[n]]
      BY <2>3 DEF MergedScores
    <2>5. \A n \in DOMAIN m.scores :
             (IF n \in ReportedBy(r) THEN MeanOf(r, n) ELSE m.scores[n]) = m.scores[n]
      BY <2>1, <2>2
    <2>6. QED
      BY <2>2, <2>4, <2>5
  <1>9. QED
    BY <1>1, <1>2, <1>4, <1>6, <1>7, <1>8

(***************************************************************************)
(* A ruling is what the engine answered to the gates reported.             *)
(***************************************************************************)
AllGates == (UNION {Range(p) : p \in Panels}) \cup Stances

RulingKept ==
    \/ ruling = <<>>
    \/ \E s \in SignalInputs :
          ruling = [signal |-> s, gates |-> gates, models |-> <<>>, output |-> Evaluate(s, gates)]
    \/ \E s \in SignalInputs, ms \in ModelPanels, ps \in Priors :
          /\ PositiveMass(ms, ps)
          /\ ruling = [signal |-> Merged(s, ms, ps), gates |-> gates, models |-> ms, priors |-> ps,
                       output |-> MetaEvaluate(s, gates, ms, ps)]

FinalKept == gates \in Seq(AllGates) /\ RulingKept

LEMMA MetaTrade ==
    ASSUME NEW T, NEW gs \in Seq(T), NEW s, NEW ms, NEW ps
    PROVE  /\ Trades(MetaEvaluate(s, gs, ms, ps)) <=> Trades(Evaluate(Merged(s, ms, ps), gs))
           /\ Trades(MetaEvaluate(s, gs, ms, ps)) =>
                 MetaEvaluate(s, gs, ms, ps).decision = Direction(Merged(s, ms, ps))
  <1> DEFINE hs == WithConflictGate(gs, ms)
             m == Merged(s, ms, ps)
  <1>1. RejectedGates(hs) = RejectedGates(gs)
    BY ConflictGateUnasked
  <1>2. MetaEvaluate(s, gs, ms, ps) = Evaluate(m, hs)
    BY DEF MetaEvaluate
  <1> HIDE DEF hs, m
  <1>3. QED
    BY <1>1, <1>2, TradeIs DEF m

\* What a trade of either engine was asked with.
LEMMA RulingIs ==
    ASSUME FinalKept, ruling # <<>>
    PROVE  /\ IsInput(ruling.signal) /\ ruling.gates \in Seq(AllGates)
           /\ Trades(ruling.output) => Trades(Evaluate(ruling.signal, ruling.gates))
  <1>1. CASE \E s \in SignalInputs :
                ruling = [signal |-> s, gates |-> gates, models |-> <<>>, output |-> Evaluate(s, gates)]
    <2>1. PICK s \in SignalInputs :
             ruling = [signal |-> s, gates |-> gates, models |-> <<>>, output |-> Evaluate(s, gates)]
      BY <1>1
    <2>2. ruling.signal = s /\ ruling.gates = gates /\ ruling.output = Evaluate(s, gates)
      BY <2>1
    <2>3. IsInput(s)
      BY InputAssumption
    <2>4. QED
      BY <2>2, <2>3 DEF FinalKept
  <1>2. CASE \E s \in SignalInputs, ms \in ModelPanels, ps \in Priors :
                /\ PositiveMass(ms, ps)
                /\ ruling = [signal |-> Merged(s, ms, ps), gates |-> gates, models |-> ms, priors |-> ps,
                             output |-> MetaEvaluate(s, gates, ms, ps)]
    <2>1. PICK s \in SignalInputs, ms \in ModelPanels, ps \in Priors :
             /\ PositiveMass(ms, ps)
             /\ ruling = [signal |-> Merged(s, ms, ps), gates |-> gates, models |-> ms, priors |-> ps,
                          output |-> MetaEvaluate(s, gates, ms, ps)]
      BY <1>2
    <2>2. /\ ruling.signal = Merged(s, ms, ps) /\ ruling.gates = gates
          /\ ruling.output = MetaEvaluate(s, gates, ms, ps)
      BY <2>1
    <2>3. IsInput(s) /\ IsPanel(ms)
      BY InputAssumption, ModelAssumption
    <2>4. IsInput(Merged(s, ms, ps))
      BY <2>1, <2>3, MergedIsInput
    <2>5. gates \in Seq(AllGates)
      BY DEF FinalKept
    <2>6. Trades(MetaEvaluate(s, gates, ms, ps)) <=> Trades(Evaluate(Merged(s, ms, ps), gates))
      BY <2>5, MetaTrade
    <2>7. QED
      BY <2>2, <2>4, <2>5, <2>6
  <1>3. QED
    BY <1>1, <1>2 DEF FinalKept, RulingKept

LEMMA UnanimityHolds ==
    ASSUME FinalKept
    PROVE  TradeIsUnanimous
  <1>1. SUFFICES ASSUME ruling # <<>>, Trades(ruling.output)
                 PROVE  TradeIsUnanimous
    BY DEF TradeIsUnanimous
  <1>2. PICK s, gs : s = ruling.signal /\ gs = ruling.gates
    OBVIOUS
  <1>3. IsInput(s) /\ gs \in Seq(AllGates) /\ Trades(Evaluate(s, gs))
    BY <1>1, <1>2, RulingIs
  <1>4. /\ RejectedGates(gs) = {} /\ RejectedScores(s.scores) = {}
        /\ ~(Confidence(s) < MinConfidence * 100) /\ Direction(s) \in {"BUY", "SELL"}
    BY <1>3, TradeIs
  <1>5. ASSUME NEW n \in RequiredGates
        PROVE  ~Trades(Evaluate(s, Append(gs, [name |-> n, approved |-> FALSE])))
    <2>1. PICK hs : hs = Append(gs, [name |-> n, approved |-> FALSE])
      OBVIOUS
    <2>2. RejectedGates(hs) # {}
      BY <1>3, <2>1, Withdrawn
    <2>3. QED
      BY <2>1, <2>2, TradeIs
  <1>6. \A n \in RequiredGates : ~Trades(Evaluate(s, WithoutGate(gs, n)))
    BY Unreported, TradeIs
  <1>7. ASSUME NEW n \in RequiredScores
        PROVE  /\ ~Trades(Evaluate([s EXCEPT !.scores = [k \in DOMAIN @ \ {n} |-> @[k]]], gs))
               /\ Trades(Evaluate([s EXCEPT !.scores = [@ EXCEPT ![n] = 100]], gs))
    <2>1. ~Trades(Evaluate([s EXCEPT !.scores = [k \in DOMAIN @ \ {n} |-> @[k]]], gs))
      BY <1>3, ScoreTaken
    <2>2. Trades(Evaluate([s EXCEPT !.scores = [@ EXCEPT ![n] = 100]], gs))
      BY <1>3, <1>4, ScoreRaised
    <2>3. QED
      BY <2>1, <2>2
  <1>8. QED
    BY <1>2, <1>5, <1>6, <1>7 DEF TradeIsUnanimous

LEMMA DoubtHolds ==
    ASSUME FinalKept
    PROVE  DoubtIsHeard
  <1>1. SUFFICES ASSUME ruling # <<>>, ruling.signal.votes # <<>>, Trades(ruling.output)
                 PROVE  DoubtIsHeard
    BY DEF DoubtIsHeard
  <1>2. PICK s : s = ruling.signal
    OBVIOUS
  <1>3. IsInput(s) /\ Trades(Evaluate(s, ruling.gates))
    BY <1>1, <1>2, RulingIs
  <1>4. RejectedScores(s.scores) = {} /\ ~(Confidence(s) < MinConfidence * 100)
    BY <1>3, TradeIs
  <1>5. DOMAIN s.votes # {}
    <2>1. SUFFICES ASSUME DOMAIN s.votes = {} PROVE FALSE
      OBVIOUS
    <2>2. s.votes \in [DOMAIN s.votes -> Int]
      BY <1>3, Zenon DEF IsInput
    <2>3. s.votes \in [1 .. 0 -> Int]
      BY <2>1, <2>2
    <2>4. s.votes \in Seq(Int) /\ Len(s.votes) = 0
      BY <2>3
    <2>5. s.votes = <<>>
      BY <2>4
    <2>6. QED
      BY <1>1, <1>2, <2>5
  <1>6. PICK c \in Int : c = MinConfidence * 100
    BY ThresholdAssumption
  <1>7. 6 * c <= 2 * (100 * Max(Range(s.votes)) + Strongest(s) + 100 * Max(Range(s.scores))) + 3
    BY <1>3, <1>4, <1>5, <1>6, ConfidenceCosts
  <1>8. /\ Max(Range(s.votes)) \in Int /\ Max(Range(s.scores)) \in Int /\ Strongest(s) \in Int
        /\ MinConfidence \in Int
    BY <1>3, <1>4, <1>5, EvidenceTyped, ThresholdAssumption
  <1>9. 100 * Max(Range(s.votes)) + Strongest(s) + 100 * Max(Range(s.scores)) >= 300 * MinConfidence - 1
    BY <1>6, <1>7, <1>8
  <1>10. QED
    BY <1>2, <1>9 DEF DoubtIsHeard, Strongest

\* Sides exchanged, the decision is the other one.
LEMMA OppositeTrade ==
    ASSUME NEW m, NEW w, IsInput(m), w.bull = m.bear, w.bear = m.bull, w.profit = m.profit,
           w.scores = m.scores, w.votes = m.votes, NEW T, NEW gs \in Seq(T), NEW r, NEW x,
           Trades(Evaluate(m, gs)), x = Evaluate(w, WithConflictGate(gs, r))
    PROVE  {x.decision, Direction(m)} = {"BUY", "SELL"}
  <1>1. Confidence(w) = Confidence(m)
    <2>1. {w.bull, w.bear, w.profit} = {m.bull, m.bear, m.profit}
      OBVIOUS
    <2>2. QED
      BY <2>1 DEF Confidence
  <1>2. RejectedGates(WithConflictGate(gs, r)) = RejectedGates(gs)
    BY ConflictGateUnasked
  <1>3. /\ RejectedGates(gs) = {} /\ RejectedScores(m.scores) = {}
        /\ ~(Confidence(m) < MinConfidence * 100) /\ Direction(m) \in {"BUY", "SELL"}
    BY TradeIs
  <1>4. m.bull \in Int /\ m.bear \in Int
    BY DEF IsInput
  <1>5. Direction(w) \in {"BUY", "SELL"} /\ Direction(w) # Direction(m)
    BY <1>3, <1>4 DEF Direction, Distance
  <1>6. Trades(x) /\ x.decision = Direction(w)
    BY <1>1, <1>2, <1>3, <1>5, TradeIs
  <1>7. QED
    BY <1>3, <1>5, <1>6

LEMMA MirrorHolds ==
    ASSUME FinalKept
    PROVE  MetaMirrors
  <1>1. SUFFICES ASSUME ruling # <<>>, ruling.models # <<>>, Trades(ruling.output)
                 PROVE  MetaMirrors
    BY DEF MetaMirrors
  <1>2. CASE \E s \in SignalInputs :
                ruling = [signal |-> s, gates |-> gates, models |-> <<>>, output |-> Evaluate(s, gates)]
    BY <1>1, <1>2
  <1>3. CASE \E s \in SignalInputs, ms \in ModelPanels, ps \in Priors :
                /\ PositiveMass(ms, ps)
                /\ ruling = [signal |-> Merged(s, ms, ps), gates |-> gates, models |-> ms, priors |-> ps,
                             output |-> MetaEvaluate(s, gates, ms, ps)]
    <2>1. PICK s \in SignalInputs, ms \in ModelPanels, ps \in Priors :
             /\ PositiveMass(ms, ps)
             /\ ruling = [signal |-> Merged(s, ms, ps), gates |-> gates, models |-> ms, priors |-> ps,
                          output |-> MetaEvaluate(s, gates, ms, ps)]
      BY <1>3
    <2> DEFINE m == Merged(s, ms, ps)
               r == Mirrored(ms)
               w == Merged(m, r, ps)
    <2>2. /\ ruling.signal = m /\ ruling.gates = gates /\ ruling.models = ms /\ ruling.priors = ps
          /\ ruling.output = MetaEvaluate(s, gates, ms, ps)
      BY <2>1
    <2>3. IsInput(s) /\ IsPanel(ms)
      BY InputAssumption, ModelAssumption
    <2>4. IsInput(m)
      BY <2>1, <2>3, MergedIsInput
    <2>5. gates \in Seq(AllGates)
      BY DEF FinalKept
    <2>6. Trades(Evaluate(m, gates)) /\ ruling.output.decision = Direction(m)
      BY <1>1, <2>2, <2>5, MetaTrade
    <2>7. /\ w.bull = m.bear /\ w.bear = m.bull /\ w.profit = m.profit
          /\ w.scores = m.scores /\ w.votes = m.votes
      BY <2>1, <2>3, MirroredMerge
    <2>8. MetaEvaluate(m, gates, r, ps) = Evaluate(w, WithConflictGate(gates, r))
      BY DEF MetaEvaluate
    <2>9. [i \in DOMAIN ruling.models |-> [ruling.models[i] EXCEPT !.probability = 100 - @]] = r
      BY <2>2 DEF Mirrored
    <2> HIDE DEF m, r, w
    <2>10. {MetaEvaluate(m, gates, r, ps).decision, Direction(m)} = {"BUY", "SELL"}
      <3>1. PICK x : x = MetaEvaluate(m, gates, r, ps)
        OBVIOUS
      <3>2. Trades(Evaluate(m, gates)) /\ x = Evaluate(w, WithConflictGate(gates, r))
        BY <2>6, <2>8, <3>1
      <3>3. {x.decision, Direction(m)} = {"BUY", "SELL"}
        BY <2>4, <2>5, <2>7, <3>2, OppositeTrade, Zenon
      <3>4. QED
        BY <3>1, <3>3
    <2>11. QED
      BY <2>2, <2>6, <2>9, <2>10 DEF MetaMirrors
  <1>4. QED
    BY <1>1, <1>2, <1>3 DEF FinalKept, RulingKept

(***************************************************************************)
(* Rulings, live signals and the history, step by step.                    *)
(***************************************************************************)
SignalsInv == FinalKept /\ LiveKept /\ rows \in Seq(Rows)

LEMMA SignalsInvInit == Init => SignalsInv
  <1>1. SUFFICES ASSUME Init PROVE SignalsInv
    OBVIOUS
  <1>2. gates \in Panels /\ ruling = <<>> /\ live = <<>> /\ rows = <<>>
    BY <1>1 DEF Init, SignalInit, LiveInit
  <1>3. gates \in Seq(Range(gates)) /\ Range(gates) \subseteq AllGates
    BY <1>2, PanelAssumption DEF AllGates
  <1>4. gates \in Seq(AllGates)
    <2>1. \A S, T : S \subseteq T => Seq(S) \subseteq Seq(T)
      OBVIOUS
    <2>2. QED
      BY <1>3, <2>1
  <1>5. rows \in Seq(Rows)
    BY <1>2
  <1>6. QED
    BY <1>2, <1>4, <1>5 DEF SignalsInv, FinalKept, RulingKept, LiveKept

LEMMA ReportGateKeeps == FinalKept /\ ReportGate => FinalKept'
  <1>1. SUFFICES ASSUME FinalKept, ReportGate PROVE FinalKept'
    OBVIOUS
  <1>2. PICK g \in Stances : gates' = Append(gates, g)
    BY <1>1 DEF ReportGate
  <1>3. ruling' = <<>>
    BY <1>1 DEF ReportGate
  <1>4. gates \in Seq(AllGates) /\ g \in AllGates
    BY <1>1, <1>2 DEF FinalKept, AllGates
  <1>5. gates' \in Seq(AllGates)
    BY <1>2, <1>4
  <1>6. QED
    BY <1>3, <1>5 DEF FinalKept, RulingKept

LEMMA RuleKeeps == FinalKept /\ Rule => FinalKept'
  BY DEF FinalKept, RulingKept, Rule

LEMMA MetaRuleKeeps == FinalKept /\ MetaRule => FinalKept'
  BY DEF FinalKept, RulingKept, MetaRule

LEMMA AskSignalKeeps == AskSignal => LiveKept' /\ UNCHANGED rows
  BY DEF LiveKept, AskSignal

LEMMA KeepSignalKeeps == rows \in Seq(Rows) /\ LiveKept /\ KeepSignal => rows' \in Seq(Rows) /\ LiveKept'
  <1>1. SUFFICES ASSUME rows \in Seq(Rows), LiveKept, KeepSignal
                 PROVE  rows' \in Seq(Rows) /\ LiveKept'
    OBVIOUS
  <1>2. PICK d \in {"BUY", "SELL", "HOLD", "NO_TRADE"}, x \in Outcomes :
           rows' = Append(rows, [decision |-> d, pnl |-> x])
    BY <1>1 DEF KeepSignal
  <1>3. [decision |-> d, pnl |-> x] \in Rows
    BY DEF Rows
  <1>4. rows' \in Seq(Rows)
    BY <1>1, <1>2, <1>3
  <1>5. LiveKept'
    BY <1>1 DEF KeepSignal, LiveKept
  <1>6. QED
    BY <1>4, <1>5

LEMMA SignalsInvNext == SignalsInv /\ [Next]_vars => SignalsInv'
  <1> SUFFICES ASSUME SignalsInv, [Next]_vars PROVE SignalsInv'
    OBVIOUS
  <1>1. FinalKept /\ LiveKept /\ rows \in Seq(Rows)
    BY DEF SignalsInv
  <1>2. ASSUME UNCHANGED signalVars PROVE FinalKept'
    BY <1>1, <1>2 DEF signalVars, FinalKept, RulingKept
  <1>3. ASSUME UNCHANGED liveVars PROVE LiveKept' /\ rows' \in Seq(Rows)
    BY <1>1, <1>3 DEF liveVars, LiveKept
  <1>4. ASSUME UNCHANGED <<signalVars, liveVars>> PROVE SignalsInv'
    BY <1>2, <1>3, <1>4 DEF SignalsInv
  <1>5. ASSUME UNCHANGED judgementDesks PROVE SignalsInv'
    BY <1>4, <1>5 DEF judgementDesks
  <1>6. CASE OrderStep
    BY <1>5, <1>6 DEF OrderStep
  <1>7. CASE FillStep
    BY <1>5, <1>7 DEF FillStep
  <1>8. CASE PortfolioStep
    BY <1>5, <1>8 DEF PortfolioStep
  <1>9. CASE ValidationStep
    BY <1>4, <1>9 DEF ValidationStep
  <1>10. CASE StrategyStep
    BY <1>4, <1>10 DEF StrategyStep
  <1>11. CASE SignalStep
    <2>1. LiveKept' /\ rows' \in Seq(Rows)
      BY <1>3, <1>11 DEF SignalStep
    <2>2. FinalKept'
      BY <1>1, <1>11, ReportGateKeeps, RuleKeeps, MetaRuleKeeps DEF SignalStep
    <2>3. QED
      BY <2>1, <2>2 DEF SignalsInv
  <1>12. CASE LiveStep
    <2>1. FinalKept'
      BY <1>2, <1>12 DEF LiveStep
    <2>2. LiveKept' /\ rows' \in Seq(Rows)
      BY <1>1, <1>12, AskSignalKeeps, KeepSignalKeeps DEF LiveStep
    <2>3. QED
      BY <2>1, <2>2 DEF SignalsInv
  <1>13. CASE ResearchStep
    BY <1>5, <1>13 DEF ResearchStep
  <1>14. CASE UNCHANGED vars
    BY <1>5, <1>14 DEF vars
  <1>15. QED
    BY <1>6, <1>7, <1>8, <1>9, <1>10, <1>11, <1>12, <1>13, <1>14 DEF Next

\* A ruling is what the final engine answered to the gates reported, or the meta engine to
\* models with positive weight; a live signal is that of its frames; the history holds
\* decisions and what came of them.
THEOREM SignalsInvariantHolds == Spec => []SignalsInv
  <1>1. Init => SignalsInv
    BY SignalsInvInit
  <1>2. SignalsInv /\ [Next]_vars => SignalsInv'
    BY SignalsInvNext
  <1>3. QED
    BY <1>1, <1>2, PTL DEF Spec

\* A trade has every gate and score for it and would not survive the loss of one, nor perish
\* by a better one; doubtful votes hold the confidence down; neither engine has a preferred
\* side; levels stand on the right sides of the price; the report's largest fall is one
\* (FinalSignalEngine.evaluate, MetaDecisionEngine.evaluate, signal_from_candles,
\* accuracy_report).
THEOREM SignalsAreSound == Spec => []SignalsSound
  <1>1. SignalsInv => SignalsSound
    <2>1. ASSUME SignalsInv PROVE SignalsSound
      <3>1. FinalKept /\ LiveKept /\ rows \in Seq(Rows)
        BY <2>1 DEF SignalsInv
      <3>2. TradeIsUnanimous /\ DoubtIsHeard /\ MetaMirrors
        BY <3>1, UnanimityHolds, DoubtHolds, MirrorHolds
      <3>3. LevelsSound /\ TradesAreConfirmed /\ SignalMirrors
        BY <3>1, LevelsHold, ConfirmationHolds, MirroredSignal
      <3>4. ReportIsHonest
        BY <3>1, ReportHolds
      <3>5. QED
        BY <3>2, <3>3, <3>4 DEF SignalsSound
    <2>2. QED
      BY <2>1
  <1>2. QED
    BY <1>1, SignalsInvariantHolds, PTL

(***************************************************************************)
(* The tail measures, and the portfolio: its weights, its trades and what  *)
(* it is worth with them.                                                  *)
(***************************************************************************)
LEMMA FiniteRange == ASSUME NEW S, NEW s \in Seq(S) PROVE IsFiniteSet(Range(s))
  <1>1. DOMAIN s = 1 .. Len(s) /\ Len(s) \in Nat
    OBVIOUS
  <1>2. s \in Surjection(1 .. Len(s), Range(s))
    BY <1>1 DEF Range, Surjection
  <1>3. IsFiniteSet(1 .. Len(s))
    BY <1>1, FS_Interval
  <1>4. QED
    BY <1>2, <1>3, FS_Surjection

\* The smallest number of a finite set.
LEMMA SmallestExists ==
    ASSUME NEW S, IsFiniteSet(S), S # {}, S \subseteq Int
    PROVE  Min(S) \in S /\ Min(S) \in Int /\ \A y \in S : Min(S) <= y
  <1>1. PICK T : T = {0 - x : x \in S}
    OBVIOUS
  <1>2. 0 \in Int
    OBVIOUS
  <1>3. Min(S) \in S /\ \A y \in S : Min(S) <= y
    BY <1>1, <1>2, TurnedExtremes
  <1>4. QED
    BY <1>3

(***************************************************************************)
(* The tail of a series of returns.                                        *)
(***************************************************************************)
\* A loss is between none and the worst one.
LEMMA LossIs ==
    ASSUME NEW v \in Int, NEW low \in Int, low <= v
    PROVE  /\ 0 - Min({0, v}) \in Int /\ 0 <= 0 - Min({0, v}) /\ 0 - Min({0, v}) <= Max({0, 0 - low})
           /\ v <= 0 => 0 - Min({0, v}) = 0 - v
           /\ v > 0 => 0 - Min({0, v}) = 0
  <1>1. PICK m : m = Min({0, v})
    OBVIOUS
  <1>2. PICK z \in Int : z = 0 - low
    OBVIOUS
  <1>3. PICK t : t = Max({0, z})
    OBVIOUS
  <1>4. 0 \in Int
    OBVIOUS
  <1>5. m \in Int /\ m <= 0 /\ m <= v /\ (m = 0 \/ m = v)
    BY <1>1, <1>4, MinOfTwo
  <1>6. t \in Int /\ t >= 0 /\ t >= z
    BY <1>3, <1>4, MaxOfTwo
  <1>7. 0 - m <= t
    BY <1>2, <1>5, <1>6
  <1>8. QED
    BY <1>1, <1>2, <1>3, <1>5, <1>7

\* A series is one of numbers, with a worst one.
LEMMA SeriesKnown ==
    ASSUME NEW r \in ReturnSeries
    PROVE  /\ r \in Seq(Int) /\ Len(r) \in Nat \ {0} /\ DOMAIN r = 1 .. Len(r)
           /\ \A i \in 1 .. Len(r) : r[i] \in Int /\ r[i] \in Range(r) /\ Min(Range(r)) <= r[i]
           /\ Range(r) \subseteq Int /\ IsFiniteSet(Range(r)) /\ Range(r) # {}
           /\ Min(Range(r)) \in Int /\ \A v \in Range(r) : Min(Range(r)) <= v
  <1>1. r \in Seq(Int) /\ r # <<>>
    BY SeriesAssumption
  <1>2. Len(r) \in Nat \ {0} /\ DOMAIN r = 1 .. Len(r) /\ \A i \in 1 .. Len(r) : r[i] \in Int
    BY <1>1
  <1>3. Range(r) = {r[i] : i \in 1 .. Len(r)}
    BY <1>2 DEF Range
  <1>4. IsFiniteSet(Range(r))
    BY <1>1, FiniteRange
  <1>5. 1 \in 1 .. Len(r)
    BY <1>2
  <1>6. Range(r) # {} /\ Range(r) \subseteq Int
    BY <1>2, <1>3, <1>5
  <1>7. Min(Range(r)) \in Int /\ \A v \in Range(r) : Min(Range(r)) <= v
    BY <1>4, <1>6, SmallestExists
  <1>8. \A i \in 1 .. Len(r) : r[i] \in Range(r)
    BY <1>3
  <1>9. QED
    BY <1>1, <1>2, <1>4, <1>6, <1>7, <1>8

\* The largest of a series has them all below.
LEMMA LargestHasAll ==
    ASSUME NEW r \in ReturnSeries
    PROVE  \E v \in Range(r) : \A i \in DOMAIN r : r[i] <= v
  <1>1. Max(Range(r)) \in Range(r) /\ \A y \in Range(r) : Max(Range(r)) >= y
    BY SeriesKnown, LargestExists
  <1>2. \A i \in DOMAIN r : r[i] \in Range(r) /\ r[i] \in Int
    BY SeriesKnown
  <1>3. Max(Range(r)) \in Int
    BY <1>1, SeriesKnown
  <1>4. QED
    BY <1>1, <1>2, <1>3

LEMMA RankedKnown ==
    ASSUME NEW r \in ReturnSeries, NEW k \in 1 .. Len(r)
    PROVE  Ranked(r, k) \in Range(r)
  <1> DEFINE S == {v \in Range(r) : Cardinality({i \in DOMAIN r : r[i] <= v}) >= k}
  <1>1. PICK v \in Range(r) : \A i \in DOMAIN r : r[i] <= v
    BY LargestHasAll
  <1>2. DOMAIN r = 1 .. Len(r) /\ Len(r) \in Nat
    BY SeriesKnown
  <1>3. {i \in DOMAIN r : r[i] <= v} = 1 .. Len(r)
    BY <1>1, <1>2
  <1>4. Cardinality(1 .. Len(r)) = Len(r)
    <2>1. 1 \in Int /\ Len(r) \in Int /\ (1 > Len(r) => Len(r) = 0) /\ Len(r) - 1 + 1 = Len(r)
      BY <1>2
    <2>2. Cardinality(1 .. Len(r)) = IF 1 > Len(r) THEN 0 ELSE Len(r) - 1 + 1
      BY <2>1, FS_Interval
    <2>3. QED
      BY <2>1, <2>2
  <1>5. Len(r) >= k
    BY <1>2
  <1>6. v \in S
    BY <1>1, <1>3, <1>4, <1>5
  <1>7. S \subseteq Range(r)
    OBVIOUS
  <1>8. IsFiniteSet(S) /\ S \subseteq Int /\ S # {}
    BY <1>6, <1>7, SeriesKnown, FS_Subset
  <1>9. Min(S) \in S
    <2> HIDE DEF S
    <2>1. QED
      BY <1>8, SmallestExists
  <1>10. QED
    BY <1>7, <1>9 DEF Ranked

\* The value at risk is the loss of one of the returns.
LEMMA ValueAtRiskIs ==
    ASSUME NEW r \in ReturnSeries
    PROVE  \E v \in Range(r) : ValueAtRisk(r) = 0 - Min({0, v})
  <1>1. PICK n \in Nat \ {0} : n = Len(r)
    BY SeriesKnown
  <1>2. PICK q \in Int : q = (5 * n) \div 100 - 1 /\ q < n
    OBVIOUS
  <1>3. PICK m : m = Max({0, q})
    OBVIOUS
  <1>4. 0 \in Int
    OBVIOUS
  <1>5. m \in Int /\ m >= 0 /\ (m = 0 \/ m = q)
    BY <1>3, <1>4, MaxOfTwo
  <1>6. m + 1 \in 1 .. n
    BY <1>2, <1>5
  <1>7. Ranked(r, m + 1) \in Range(r)
    BY <1>1, <1>6, RankedKnown
  <1>8. ValueAtRisk(r) = 0 - Min({0, Ranked(r, m + 1)})
    BY <1>1, <1>2, <1>3 DEF ValueAtRisk
  <1>9. QED
    BY <1>7, <1>8

LEMMA VarIsLoss ==
    ASSUME NEW r \in ReturnSeries
    PROVE  /\ ValueAtRisk(r) \in Int /\ 0 <= ValueAtRisk(r)
           /\ ValueAtRisk(r) <= Max({0, 0 - Min(Range(r))})
           /\ ValueAtRisk(r) = 0 \/ \E i \in DOMAIN r : r[i] = 0 - ValueAtRisk(r)
  <1>1. PICK v \in Range(r) : ValueAtRisk(r) = 0 - Min({0, v})
    BY ValueAtRiskIs
  <1>2. PICK low \in Int : low = Min(Range(r)) /\ low <= v
    BY <1>1, SeriesKnown
  <1>3. v \in Int
    BY SeriesKnown
  <1>4. /\ ValueAtRisk(r) \in Int /\ 0 <= ValueAtRisk(r) /\ ValueAtRisk(r) <= Max({0, 0 - low})
        /\ v <= 0 => ValueAtRisk(r) = 0 - v
        /\ v > 0 => ValueAtRisk(r) = 0
    BY <1>1, <1>2, <1>3, LossIs
  <1>5. PICK i \in DOMAIN r : r[i] = v
    BY DEF Range
  <1>6. ValueAtRisk(r) = 0 \/ v = 0 - ValueAtRisk(r)
    BY <1>3, <1>4
  <1>7. QED
    BY <1>2, <1>4, <1>5, <1>6

\* The mean of numbers between two bounds, rounded down, is between them.
LEMMA MeanBetween ==
    ASSUME NEW D, IsFiniteSet(D), D # {}, NEW f \in [D -> Int], NEW low \in Int, NEW top \in Int,
           \A i \in D : low <= f[i] /\ f[i] <= top
    PROVE  \E q \in Int : q = SumFunction(f) \div Cardinality(D) /\ low <= q /\ q <= top
  <1>1. Cardinality(D) \in Nat /\ Cardinality(D) # 0
    BY FS_CardinalityType, FS_EmptySet
  <1>2. PICK n \in Nat \ {0} : n = Cardinality(D)
    BY <1>1
  <1>3. Summable(f, D)
    BY DEF Summable
  <1>4. PICK s \in Int : s = SumFunction(f)
    BY <1>3, SumType
  <1>5. s <= top * n
    BY <1>2, <1>3, <1>4, SumBetween
  <1>6. low * n <= s
    <2> DEFINE g == [i \in D |-> low]
    <2>1. Summable(g, D) /\ \A i \in D : g[i] = low
      BY DEF Summable
    <2>2. \A i \in D : g[i] * 1 <= f[i] * 1
      BY <2>1
    <2> HIDE DEF g
    <2>3. SumFunction(g) = low * n
      BY <1>2, <2>1, SumConstant
    <2>4. SumFunction(g) * 1 <= SumFunction(f) * 1
      BY <1>3, <2>1, <2>2, SumCompares
    <2>5. low * n \in Int
      OBVIOUS
    <2>6. QED
      BY <1>4, <2>3, <2>4, <2>5
  <1>7. PICK q \in Int : q = s \div n /\ n * q <= s /\ s < n * q + n
    BY Divides
  <1>8. \A x, y \in Int : n * x < n * y => x < y
    OBVIOUS
  <1>9. low <= q
    <2>1. n * low < n * (q + 1)
      BY <1>6, <1>7
    <2>2. low < q + 1
      BY <1>8, <2>1
    <2>3. QED
      BY <2>2
  <1>10. q <= top
    <2>1. n * q < n * (top + 1)
      BY <1>5, <1>7
    <2>2. q < top + 1
      BY <1>8, <2>1
    <2>3. QED
      BY <2>2
  <1>11. QED
    BY <1>2, <1>4, <1>7, <1>9, <1>10

LEMMA ConditionalIsBetween ==
    ASSUME NEW r \in ReturnSeries
    PROVE  /\ ConditionalVaR(r) \in Int /\ ValueAtRisk(r) <= ConditionalVaR(r)
           /\ ConditionalVaR(r) <= Max({0, 0 - Min(Range(r))})
  <1>1. PICK low \in Int : low = Min(Range(r))
    BY SeriesKnown
  <1>2. PICK top \in Int : top = 0 - ValueAtRisk(r)
    <2>1. ValueAtRisk(r) \in Int
      BY VarIsLoss
    <2>2. QED
      BY <2>1
  <1>3. PICK t : t = Max({0, 0 - low})
    OBVIOUS
  <1>4. t \in Int /\ t >= 0 /\ t >= 0 - low
    <2>1. PICK z \in Int : z = 0 - low
      OBVIOUS
    <2>2. 0 \in Int
      OBVIOUS
    <2>3. QED
      BY <1>3, <2>1, <2>2, MaxOfTwo
  <1> DEFINE W == {i \in DOMAIN r : r[i] <= top}
             f == [i \in W |-> r[i]]
  <1>5. ConditionalVaR(r) = IF W = {} THEN 0 ELSE 0 - SumFunction(f) \div Cardinality(W)
    BY <1>2 DEF ConditionalVaR
  <1>6. /\ ValueAtRisk(r) \in Int /\ 0 <= ValueAtRisk(r) /\ ValueAtRisk(r) <= t
        /\ ValueAtRisk(r) = 0 \/ \E i \in DOMAIN r : r[i] = 0 - ValueAtRisk(r)
    BY <1>1, <1>3, VarIsLoss
  <1>7. DOMAIN r = 1 .. Len(r) /\ Len(r) \in Nat /\ \A i \in DOMAIN r : r[i] \in Int /\ low <= r[i]
    BY <1>1, SeriesKnown
  <1>8. CASE W = {}
    <2>1. ValueAtRisk(r) = 0
      <3>1. ASSUME NEW i \in DOMAIN r, r[i] = 0 - ValueAtRisk(r) PROVE FALSE
        <4>1. r[i] <= top
          BY <1>2, <1>7, <3>1
        <4>2. i \in W
          BY <4>1
        <4>3. QED
          BY <1>8, <4>2
      <3>2. QED
        BY <1>6, <3>1
    <2>2. ConditionalVaR(r) = 0
      BY <1>5, <1>8
    <2>3. QED
      BY <1>1, <1>3, <1>4, <2>1, <2>2
  <1>9. CASE W # {}
    <2>1. IsFiniteSet(W)
      <3>1. IsFiniteSet(1 .. Len(r))
        BY <1>7, FS_Interval
      <3>2. W \subseteq 1 .. Len(r)
        BY <1>7
      <3>3. QED
        BY <3>1, <3>2, FS_Subset
    <2>2. f \in [W -> Int] /\ \A i \in W : low <= f[i] /\ f[i] <= top
      BY <1>7
    <2> HIDE DEF f, W
    <2>3. PICK q \in Int : q = SumFunction(f) \div Cardinality(W) /\ low <= q /\ q <= top
      BY <1>9, <2>1, <2>2, MeanBetween
    <2>4. ConditionalVaR(r) = 0 - q
      BY <1>5, <1>9, <2>3
    <2>5. QED
      BY <1>1, <1>2, <1>3, <1>4, <1>6, <2>3, <2>4
  <1>10. QED
    BY <1>8, <1>9

IsPower(g, b, n) == g = [k \in 0 .. n |-> IF k = 0 THEN 1 ELSE b * g[k - 1]]

LEMMA PowerExists ==
    ASSUME NEW b, NEW L \in Nat
    PROVE  \E g : IsPower(g, b, L)
  <1> DEFINE N == {n \in Nat : \E g : IsPower(g, b, n)}
  <1>1. 0 \in N
    <2>1. IsPower([n \in 0 .. 0 |-> 1], b, 0)
      BY DEF IsPower
    <2>2. QED
      BY <2>1
  <1>2. ASSUME NEW n \in Nat, n \in N PROVE n + 1 \in N
    <2>1. PICK g : IsPower(g, b, n)
      BY <1>2
    <2>2. PICK h : h = [i \in 0 .. n + 1 |-> IF i = 0 THEN 1 ELSE b * g[i - 1]]
      OBVIOUS
    <2>3. \A i \in 0 .. n : h[i] = g[i]
      BY <2>1, <2>2 DEF IsPower
    <2>4. \A i \in 0 .. n + 1 : i # 0 => i - 1 \in 0 .. n
      OBVIOUS
    <2>5. IsPower(h, b, n + 1)
      BY <2>2, <2>3, <2>4 DEF IsPower
    <2>6. QED
      BY <2>5
  <1>3. Nat \subseteq N
    <2> HIDE DEF N
    <2>1. QED
      BY <1>1, <1>2, Counting
  <1>4. QED
    BY <1>3

LEMMA PowerIsNatural ==
    ASSUME NEW b \in Nat, NEW L \in Nat
    PROVE  Power(b, L) \in Nat
  <1> DEFINE g == CHOOSE f : IsPower(f, b, L)
  <1>1. IsPower(g, b, L)
    BY PowerExists
  <1>2. Power(b, L) = g[L]
    BY DEF Power, IsPower
  <1> HIDE DEF g
  <1> DEFINE T == {n \in 0 .. L : g[n] \in Nat}
  <1>3. 0 \in T
    <2>1. 0 \in 0 .. L
      OBVIOUS
    <2>2. QED
      BY <1>1, <2>1 DEF IsPower
  <1>4. \A n \in 0 .. L : n \in T /\ n < L => n + 1 \in T
    <2>1. SUFFICES ASSUME NEW n \in 0 .. L, g[n] \in Nat, n < L PROVE n + 1 \in T
      OBVIOUS
    <2>2. n + 1 \in 0 .. L /\ n + 1 # 0 /\ (n + 1) - 1 = n
      BY <2>1
    <2>3. g[n + 1] = b * g[n]
      BY <1>1, <2>2 DEF IsPower
    <2>4. QED
      BY <2>1, <2>2, <2>3
  <1>5. 0 .. L \subseteq T
    <2> HIDE DEF T
    <2>1. QED
      BY <1>3, <1>4, CountingTo
  <1>6. L \in T
    BY <1>5
  <1>7. QED
    BY <1>2, <1>6

LEMMA DynamicIsLoss ==
    ASSUME NEW r \in ReturnSeries
    PROVE  /\ DynamicVaR(r) \in Int /\ 0 <= DynamicVaR(r)
           /\ DynamicVaR(r) <= Max({0, 0 - Min(Range(r))})
  <1> DEFINE n == Len(r)
             below(v) == SumFunction([i \in DOMAIN r |-> IF r[i] <= v THEN Decay(i, n) ELSE 0])
             whole == [i \in DOMAIN r |-> Decay(i, n)]
             total == SumFunction(whole)
             S == {v \in Range(r) : below(v) * 20 >= total}
  <1>1. DOMAIN r = 1 .. n /\ n \in Nat
    BY SeriesKnown
  <1>2. \A i \in 1 .. n : Decay(i, n) \in Nat
    <2>1. SUFFICES ASSUME NEW i \in 1 .. n PROVE Decay(i, n) \in Nat
      OBVIOUS
    <2>2. n - i \in Nat /\ i - 1 \in Nat /\ 94 \in Nat /\ 100 \in Nat
      BY <1>1
    <2>3. Power(94, n - i) \in Nat /\ Power(100, i - 1) \in Nat
      BY <2>2, PowerIsNatural
    <2>4. \A x, y \in Nat : x * y \in Nat
      OBVIOUS
    <2>5. QED
      BY <2>3, <2>4 DEF Decay
  <1>3. PICK v \in Range(r) : \A i \in DOMAIN r : r[i] <= v
    BY LargestHasAll
  <1>4. total \in Nat
    <2>1. whole \in [1 .. n -> Nat] /\ \A i \in 1 .. n : whole[i] \in Nat
      BY <1>1, <1>2
    <2> HIDE DEF whole
    <2>2. Summable(whole, 1 .. n)
      <3>1. IsFiniteSet(1 .. n)
        BY <1>1, FS_Interval
      <3>2. whole \in [1 .. n -> Int]
        BY <2>1
      <3>3. QED
        BY <3>1, <3>2 DEF Summable
    <2>3. QED
      BY <2>1, <2>2, SumIsNatural
  <1>5. below(v) = total
    <2>1. [i \in DOMAIN r |-> IF r[i] <= v THEN Decay(i, n) ELSE 0] = whole
      BY <1>3
    <2>2. QED
      BY <2>1
  <1>6. v \in S
    <2> HIDE DEF total, below
    <2>1. below(v) * 20 >= total
      BY <1>4, <1>5
    <2>2. QED
      BY <2>1
  <1>7. IsFiniteSet(S) /\ S \subseteq Int /\ S # {} /\ S \subseteq Range(r)
    <2>1. S \subseteq Range(r)
      OBVIOUS
    <2> HIDE DEF S
    <2>2. QED
      BY <1>6, <2>1, SeriesKnown, FS_Subset
  <1>8. DynamicVaR(r) = 0 - Min({0, Min(S)})
    BY DEF DynamicVaR
  <1> HIDE DEF S
  <1>9. Min(S) \in S /\ Min(S) \in Int
    BY <1>7, SmallestExists
  <1>10. PICK w \in Int : w = Min(S) /\ w \in Range(r)
    BY <1>7, <1>9
  <1>11. PICK low \in Int : low = Min(Range(r)) /\ low <= w
    BY <1>10, SeriesKnown
  <1>12. QED
    BY <1>8, <1>10, <1>11, LossIs

TailKept ==
    tail # <<>> =>
        \E r \in ReturnSeries :
            tail = [returns |-> r, var |-> ValueAtRisk(r), cvar |-> ConditionalVaR(r),
                    dynamic |-> DynamicVaR(r)]

LEMMA TailsHold == TailKept => TailsOrdered
  <1>1. SUFFICES ASSUME TailKept, tail # <<>> PROVE TailsOrdered
    BY DEF TailsOrdered
  <1>2. PICK r \in ReturnSeries :
            tail = [returns |-> r, var |-> ValueAtRisk(r), cvar |-> ConditionalVaR(r),
                    dynamic |-> DynamicVaR(r)]
    BY <1>1 DEF TailKept
  <1>3. /\ tail.returns = r /\ tail.var = ValueAtRisk(r) /\ tail.cvar = ConditionalVaR(r)
        /\ tail.dynamic = DynamicVaR(r)
    BY <1>2
  <1>4. PICK worst : worst = Max({0, 0 - Min(Range(r))})
    OBVIOUS
  <1>5. worst \in Int
    <2>1. PICK z \in Int : z = 0 - Min(Range(r))
      BY SeriesKnown
    <2>2. 0 \in Int
      OBVIOUS
    <2>3. QED
      BY <1>4, <2>1, <2>2, MaxOfTwo
  <1>6. /\ ValueAtRisk(r) \in Int /\ 0 <= ValueAtRisk(r) /\ ValueAtRisk(r) <= worst
        /\ ValueAtRisk(r) <= ConditionalVaR(r) /\ ConditionalVaR(r) <= worst
        /\ DynamicVaR(r) \in Int /\ 0 <= DynamicVaR(r) /\ DynamicVaR(r) <= worst
    BY <1>4, VarIsLoss, ConditionalIsBetween, DynamicIsLoss
  <1>7. ValueAtRisk(r) \in 0 .. worst /\ DynamicVaR(r) \in 0 .. worst
    BY <1>5, <1>6
  <1>8. QED
    BY <1>3, <1>4, <1>6, <1>7 DEF TailsOrdered

(***************************************************************************)
(* A portfolio: what is accepted, its weights and its limits.              *)
(***************************************************************************)
LEMMA CapsKnown ==
    /\ Capital \in Nat \ {0} /\ Caps.correlation \in Int /\ Caps.correlation > NoCorrelation
    /\ Caps.kelly \in Nat /\ Caps.volatility \in Nat /\ Caps.symbol \in Nat /\ Caps.sector \in Nat
    /\ Caps.risk \in Nat /\ Caps.gross \in Nat /\ Caps.drawdown \in Nat
  BY CapsAssumption

LEMMA PositivePart == ASSUME NEW n \in Int PROVE Max({0, n}) \in Nat
  <1>1. 0 \in Int
    OBVIOUS
  <1>2. Max({0, n}) \in Int /\ Max({0, n}) >= 0
    BY <1>1, MaxOfTwo
  <1>3. QED
    BY <1>2

LEMMA NaturalMin == ASSUME NEW m \in Nat, NEW n \in Nat PROVE Min({m, n}) \in Nat
  <1>1. m \in Int /\ n \in Int
    OBVIOUS
  <1>2. Min({m, n}) = m \/ Min({m, n}) = n
    BY <1>1, MinOfTwo
  <1>3. QED
    BY <1>2

LEMMA KellyKnown == ASSUME NEW c, IsCandidate(c) PROVE Kelly(c) \in Nat
  <1>1. c.win \in 0 .. 100 /\ c.ratio \in Nat \ {0}
    BY DEF IsCandidate
  <1>2. PICK w \in Nat : w = c.win /\ w <= 100
    BY <1>1
  <1>3. (100 - w) * 1000 \in Nat
    BY <1>2
  <1>4. PICK q \in Nat : q = ((100 - w) * 1000) \div c.ratio
    BY <1>1, <1>3, QuotientIsNatural
  <1>5. PICK e \in Int : e = w * 100 - q
    <2>1. w * 100 - q \in Int
      OBVIOUS
    <2>2. QED
      BY <2>1
  <1>6. PICK m : m = Min({e, Caps.kelly})
    OBVIOUS
  <1>7. m \in Int
    <2>1. Caps.kelly \in Int
      BY CapsKnown
    <2>2. QED
      BY <1>6, <2>1, MinOfTwo
  <1>8. Kelly(c) = Max({0, m})
    BY <1>2, <1>4, <1>5, <1>6 DEF Kelly
  <1>9. QED
    BY <1>7, <1>8, PositivePart

LEMMA CorrelationKnown ==
    ASSUME NEW p, IsPortfolio(p), NEW a, NEW b
    PROVE  Correlation(p.correlations, a, b) \in Int
  <1>1. \A k \in DOMAIN p.correlations : p.correlations[k] \in Int
    BY DEF IsPortfolio
  <1>2. NoCorrelation \in Int
    BY DEF NoCorrelation
  <1>3. QED
    BY <1>1, <1>2 DEF Correlation

\* What is said of a candidate that is taken.
Eligible(p) ==
    {c \in Range(p.candidates) :
        /\ c.entry > 0 /\ c.stop > 0 /\ c.entry # c.stop /\ c.volatility > 0
        /\ c.confidence \in 0 .. 100 /\ Kelly(c) > 0
        /\ \A h \in Range(p.held) : Correlation(p.correlations, c.symbol, h.symbol) <= Caps.correlation}

LEMMA NotRejected ==
    ASSUME NEW p, IsPortfolio(p), NEW c \in Range(p.candidates), NEW accepted, ~Rejected(c, accepted, p)
    PROVE  c \in Eligible(p)
  <1>1. IsCandidate(c)
    BY DEF IsPortfolio
  <1>2. c.entry \in Int /\ c.stop \in Int /\ c.volatility \in Int /\ Kelly(c) \in Nat
    BY <1>1, KellyKnown DEF IsCandidate
  <1>3. /\ ~(c.entry <= 0) /\ ~(c.stop <= 0) /\ c.entry # c.stop /\ ~(c.volatility <= 0)
        /\ c.confidence \in 0 .. 100 /\ ~(Kelly(c) <= 0)
        /\ \A o \in Range(accepted) \cup Range(p.held) :
              ~(Correlation(p.correlations, c.symbol, o.symbol) > Caps.correlation)
    BY DEF Rejected
  <1>4. c.entry > 0 /\ c.stop > 0 /\ c.volatility > 0 /\ Kelly(c) > 0
    BY <1>2, <1>3
  <1>5. \A h \in Range(p.held) : Correlation(p.correlations, c.symbol, h.symbol) <= Caps.correlation
    <2>1. SUFFICES ASSUME NEW h \in Range(p.held)
                   PROVE  Correlation(p.correlations, c.symbol, h.symbol) <= Caps.correlation
      OBVIOUS
    <2>2. Correlation(p.correlations, c.symbol, h.symbol) \in Int /\ Caps.correlation \in Int
      BY CorrelationKnown, CapsKnown
    <2>3. ~(Correlation(p.correlations, c.symbol, h.symbol) > Caps.correlation)
      BY <1>3
    <2>4. QED
      BY <2>2, <2>3
  <1>6. QED
    BY <1>3, <1>4, <1>5 DEF Eligible

Taking(c, accepted, p) == IF Rejected(c, accepted, p) THEN accepted ELSE Append(accepted, c)

IsTaken(g, p, L) == g = [n \in 0 .. L |-> IF n = 0 THEN <<>> ELSE Taking(p.candidates[n], g[n - 1], p)]

LEMMA TakenExists ==
    ASSUME NEW p, NEW L \in Nat
    PROVE  \E g : IsTaken(g, p, L)
  <1> DEFINE N == {n \in Nat : \E g : IsTaken(g, p, n)}
  <1>1. 0 \in N
    <2>1. IsTaken([n \in 0 .. 0 |-> <<>>], p, 0)
      BY DEF IsTaken
    <2>2. QED
      BY <2>1
  <1>2. ASSUME NEW n \in Nat, n \in N PROVE n + 1 \in N
    <2>1. PICK g : IsTaken(g, p, n)
      BY <1>2
    <2>2. PICK h : h = [i \in 0 .. n + 1 |-> IF i = 0 THEN <<>> ELSE Taking(p.candidates[i], g[i - 1], p)]
      OBVIOUS
    <2>3. \A i \in 0 .. n : h[i] = g[i]
      BY <2>1, <2>2 DEF IsTaken
    <2>4. \A i \in 0 .. n + 1 : i # 0 => i - 1 \in 0 .. n
      OBVIOUS
    <2>5. IsTaken(h, p, n + 1)
      BY <2>2, <2>3, <2>4 DEF IsTaken
    <2>6. QED
      BY <2>5
  <1>3. Nat \subseteq N
    <2> HIDE DEF N
    <2>1. QED
      BY <1>1, <1>2, Counting
  <1>4. QED
    BY <1>3

\* What is accepted was looked at and not rejected.
LEMMA AcceptedEligible ==
    ASSUME NEW p, IsPortfolio(p)
    PROVE  Accepted(p) \in Seq(Eligible(p))
  <1> DEFINE L == Len(p.candidates)
             g == CHOOSE f : IsTaken(f, p, L)
  <1>1. L \in Nat /\ \A n \in 1 .. L : p.candidates[n] \in Range(p.candidates)
    <2>1. p.candidates \in Seq(Range(p.candidates))
      BY DEF IsPortfolio
    <2>2. QED
      BY <2>1
  <1>2. IsTaken(g, p, L)
    BY <1>1, TakenExists
  <1>3. Accepted(p) = g[L]
    BY DEF Accepted, IsTaken, Taking
  <1> HIDE DEF g
  <1> DEFINE T == {n \in 0 .. L : g[n] \in Seq(Eligible(p))}
  <1>4. 0 \in T
    <2>1. 0 \in 0 .. L
      BY <1>1
    <2>2. g[0] = <<>>
      BY <1>2, <2>1 DEF IsTaken
    <2>3. <<>> \in Seq(Eligible(p))
      OBVIOUS
    <2>4. g[0] \in Seq(Eligible(p))
      BY <2>2, <2>3
    <2>5. QED
      BY <2>1, <2>4
  <1>5. \A n \in 0 .. L : n \in T /\ n < L => n + 1 \in T
    <2>1. SUFFICES ASSUME NEW n \in 0 .. L, g[n] \in Seq(Eligible(p)), n < L PROVE n + 1 \in T
      OBVIOUS
    <2>2. n + 1 \in 0 .. L /\ n + 1 # 0 /\ (n + 1) - 1 = n /\ n + 1 \in 1 .. L
      BY <1>1, <2>1
    <2>3. g[n + 1] = Taking(p.candidates[n + 1], g[n], p)
      BY <1>2, <2>2 DEF IsTaken
    <2>4. PICK c \in Range(p.candidates) : c = p.candidates[n + 1]
      BY <1>1, <2>2
    <2>5. CASE Rejected(c, g[n], p)
      BY <2>1, <2>2, <2>3, <2>4, <2>5 DEF Taking
    <2>6. CASE ~Rejected(c, g[n], p)
      <3>1. c \in Eligible(p)
        BY <2>6, NotRejected
      <3>2. g[n + 1] = Append(g[n], c)
        BY <2>3, <2>4, <2>6 DEF Taking
      <3>3. g[n + 1] \in Seq(Eligible(p))
        BY <2>1, <3>1, <3>2
      <3>4. QED
        BY <2>2, <3>3
    <2>7. QED
      BY <2>5, <2>6
  <1>6. 0 .. L \subseteq T
    <2> HIDE DEF T
    <2>1. QED
      BY <1>1, <1>4, <1>5, CountingTo
  <1>7. L \in T
    BY <1>1, <1>6
  <1>8. QED
    BY <1>3, <1>7

\* A function on 1 .. n of naturals, and its sum.
Weighs(w, D) == IsFiniteSet(D) /\ w \in [D -> Nat]

LEMMA WeighsSum == ASSUME NEW w, NEW D, Weighs(w, D) PROVE Summable(w, D) /\ SumFunction(w) \in Nat
  <1>1. IsFiniteSet(D) /\ w \in [D -> Nat] /\ w \in [D -> Int]
    BY DEF Weighs
  <1>2. Summable(w, D)
    BY <1>1 DEF Summable
  <1>3. SumFunction(w) \in Nat
    BY <1>1, <1>2, SumIsNatural
  <1>4. QED
    BY <1>2, <1>3

LEMMA NormalisedWeighs ==
    ASSUME NEW w, NEW D, Weighs(w, D)
    PROVE  Weighs(Normalised(w), D)
  <1>1. PICK total \in Nat : total = SumFunction(w)
    BY WeighsSum
  <1>2. IsFiniteSet(D) /\ w \in [D -> Nat] /\ DOMAIN w = D
    BY DEF Weighs
  <1>3. \A i \in D : (IF total = 0 THEN 0 ELSE (w[i] * 10000) \div total) \in Nat
    <2>1. SUFFICES ASSUME NEW i \in D, total # 0 PROVE (w[i] * 10000) \div total \in Nat
      OBVIOUS
    <2>2. PICK a \in Nat : a = w[i] * 10000
      <3>1. w[i] \in Nat
        BY <1>2
      <3>2. w[i] * 10000 \in Nat
        BY <3>1
      <3>3. QED
        BY <3>2
    <2>3. a \div total \in Nat
      BY <2>1, QuotientIsNatural
    <2>4. QED
      BY <2>2, <2>3
  <1>4. Normalised(w) = [i \in D |-> IF total = 0 THEN 0 ELSE (w[i] * 10000) \div total]
    BY <1>1, <1>2 DEF Normalised
  <1>5. QED
    BY <1>2, <1>3, <1>4 DEF Weighs

LEMMA CappedWeighs ==
    ASSUME NEW cs, NEW w, NEW D, DOMAIN cs = D, Weighs(w, D)
    PROVE  Weighs(Capped(cs, w), D)
  <1> DEFINE clipped == [i \in D |-> Min({w[i], Caps.symbol})]
             fellows(i) == {k \in D : cs[k].sector = cs[i].sector}
             sector(i) == SumFunction([j \in fellows(i) |-> clipped[j]])
             cut == [i \in D |-> IF sector(i) > Caps.sector THEN (clipped[i] * Caps.sector) \div sector(i)
                                 ELSE clipped[i]]
  <1>1. IsFiniteSet(D) /\ w \in [D -> Nat] /\ DOMAIN w = D
    BY DEF Weighs
  <1>2. Capped(cs, w) = Normalised(cut)
    BY <1>1 DEF Capped
  <1>3. Caps.symbol \in Nat /\ Caps.sector \in Nat
    BY CapsKnown
  <1>4. \A i \in D : clipped[i] \in Nat
    <2>1. SUFFICES ASSUME NEW i \in D PROVE Min({w[i], Caps.symbol}) \in Nat
      OBVIOUS
    <2>2. PICK m \in Nat, n \in Nat : m = w[i] /\ n = Caps.symbol
      BY <1>1, <1>3
    <2>3. Min({m, n}) \in Nat
      BY NaturalMin
    <2>4. QED
      BY <2>2, <2>3
  <1>5. clipped \in [D -> Nat]
    BY <1>4
  <1> HIDE DEF clipped
  <1>6. \A i \in D : sector(i) \in Nat
    <2>1. SUFFICES ASSUME NEW i \in D PROVE sector(i) \in Nat
      OBVIOUS
    <2>2. PICK E : E = fellows(i)
      OBVIOUS
    <2>3. PICK f : f = [j \in E |-> clipped[j]]
      OBVIOUS
    <2>4. E \subseteq D
      BY <2>2
    <2>5. IsFiniteSet(E) /\ f \in [E -> Nat]
      BY <1>1, <1>5, <2>3, <2>4, FS_Subset
    <2>6. SumFunction(f) \in Nat
      BY <2>5, WeighsSum DEF Weighs
    <2>7. QED
      BY <2>2, <2>3, <2>6
  <1> HIDE DEF sector
  <1>7. \A i \in D : cut[i] \in Nat
    <2>1. SUFFICES ASSUME NEW i \in D, sector(i) > Caps.sector
                   PROVE  (clipped[i] * Caps.sector) \div sector(i) \in Nat
      BY <1>5
    <2>2. PICK s \in Nat \ {0} : s = sector(i)
      BY <1>3, <1>6, <2>1
    <2>3. PICK a \in Nat : a = clipped[i] * Caps.sector
      BY <1>3, <1>5
    <2>4. a \div s \in Nat
      BY QuotientIsNatural
    <2>5. QED
      BY <2>2, <2>3, <2>4
  <1>8. Weighs(cut, D)
    BY <1>1, <1>7 DEF Weighs
  <1> HIDE DEF cut
  <1>9. Weighs(Normalised(cut), D)
    BY <1>8, NormalisedWeighs
  <1>10. QED
    BY <1>2, <1>9

LEMMA RawWeighs ==
    ASSUME NEW p, IsPortfolio(p), NEW cs \in Seq(Eligible(p))
    PROVE  Weighs(RawWeights(cs), DOMAIN cs)
  <1> DEFINE D == DOMAIN cs
             edge == [i \in D |->
                        (((Max({0, cs[i].expected}) * cs[i].confidence * Kelly(cs[i])) \div 10000)
                           * Caps.volatility) \div cs[i].volatility]
             calm == [i \in D |-> 10000 \div cs[i].volatility]
  <1>1. D = 1 .. Len(cs) /\ Len(cs) \in Nat /\ \A i \in D : cs[i] \in Eligible(p)
    OBVIOUS
  <1>2. IsFiniteSet(D)
    BY <1>1, FS_Interval
  <1>3. \A c \in Eligible(p) : /\ c.volatility \in Nat \ {0} /\ c.confidence \in Nat
                               /\ Kelly(c) \in Nat /\ c.expected \in Int
    <2>1. SUFFICES ASSUME NEW c \in Eligible(p)
                   PROVE  /\ c.volatility \in Nat \ {0} /\ c.confidence \in Nat
                          /\ Kelly(c) \in Nat /\ c.expected \in Int
      OBVIOUS
    <2>2. IsCandidate(c) /\ c.volatility > 0 /\ c.confidence \in 0 .. 100
      BY DEF Eligible, IsPortfolio
    <2>3. c.volatility \in Int /\ c.expected \in Int /\ Kelly(c) \in Nat
      BY <2>2, KellyKnown DEF IsCandidate
    <2>4. c.volatility \in Nat \ {0}
      BY <2>2, <2>3
    <2>104. c.confidence \in Nat
      <3>1. \A n \in 0 .. 100 : n \in Nat
        OBVIOUS
      <3>2. QED
        BY <2>2, <3>1, Zenon
    <2>5. QED
      BY <2>3, <2>4, <2>104
  <1>4. Caps.volatility \in Nat
    BY CapsKnown
  <1>5. \A i \in D : edge[i] \in Nat
    <2>1. SUFFICES ASSUME NEW i \in D PROVE edge[i] \in Nat
      OBVIOUS
    <2>2. PICK c : c = cs[i]
      OBVIOUS
    <2>3. PICK v \in Nat \ {0} : v = c.volatility
      BY <1>1, <1>3, <2>2
    <2>4. PICK b \in Nat, k \in Nat : b = c.confidence /\ k = Kelly(c)
      BY <1>1, <1>3, <2>2
    <2>5. PICK e \in Nat : e = Max({0, c.expected})
      BY <1>1, <1>3, <2>2, PositivePart
    <2>6. PICK a \in Nat : a = e * b * k
      OBVIOUS
    <2>7. PICK q \in Nat : q = a \div 10000
      <3>1. a \div 10000 \in Nat
        OBVIOUS
      <3>2. QED
        BY <3>1
    <2>8. PICK u \in Nat : u = q * Caps.volatility
      BY <1>4
    <2>9. u \div v \in Nat
      BY QuotientIsNatural
    <2>10. edge[i] = u \div v
      BY <2>2, <2>3, <2>4, <2>5, <2>6, <2>7, <2>8
    <2>11. QED
      BY <2>9, <2>10
  <1>6. \A i \in D : calm[i] \in Nat
    <2>1. 10000 \in Nat
      OBVIOUS
    <2>2. QED
      BY <1>1, <1>3, <2>1, QuotientIsNatural
  <1>7. RawWeights(cs) = edge \/ RawWeights(cs) = calm
    BY DEF RawWeights
  <1>8. DOMAIN edge = D /\ DOMAIN calm = D /\ edge = [i \in D |-> edge[i]] /\ calm = [i \in D |-> calm[i]]
    OBVIOUS
  <1> HIDE DEF edge, calm
  <1>9. QED
    BY <1>2, <1>5, <1>6, <1>7, <1>8 DEF Weighs

LEMMA QuantityHolds ==
    ASSUME NEW p, IsPortfolio(p), NEW c \in Eligible(p), NEW w \in Nat
    PROVE  /\ c.entry \in Nat \ {0}
           /\ Quantity(c, w) \in Nat
           /\ Quantity(c, w) * StopDistance(c.entry, c.stop) * 10000 <= Caps.risk * Capital
  <1>1. IsCandidate(c) /\ c.entry > 0 /\ c.stop > 0 /\ c.entry # c.stop
    BY DEF Eligible, IsPortfolio
  <1>2. c.entry \in Int /\ c.stop \in Int
    BY <1>1 DEF IsCandidate
  <1>3. PICK entry \in Nat \ {0} : entry = c.entry
    BY <1>1, <1>2
  <1>4. PICK risk \in Nat \ {0} : risk = StopDistance(c.entry, c.stop)
    BY <1>1, <1>2 DEF StopDistance
  <1>5. PICK b \in Nat : b = Capital * Caps.risk /\ b = Caps.risk * Capital
    BY CapsKnown
  <1>6. PICK d \in Nat \ {0} : d = 10000 * risk
    OBVIOUS
  <1>7. PICK y \in Int : y = b \div d /\ d * y <= b /\ (b >= 0 => y \in Nat)
    <2>1. b \in Int
      OBVIOUS
    <2>2. QED
      BY <2>1, Divides
  <1>8. PICK x \in Nat : x = (Capital * w) \div (10000 * entry)
    <2>1. PICK a \in Nat : a = Capital * w
      BY CapsKnown
    <2>2. PICK e \in Nat \ {0} : e = 10000 * entry
      OBVIOUS
    <2>3. a \div e \in Nat
      BY QuotientIsNatural
    <2>4. QED
      BY <2>1, <2>2, <2>3
  <1>9. Quantity(c, w) = Min({x, y})
    <2>1. PICK a, r : /\ a = (Capital * w) \div (10000 * c.entry)
                      /\ r = (Capital * Caps.risk) \div (10000 * StopDistance(c.entry, c.stop))
      OBVIOUS
    <2>2. Quantity(c, w) = Min({a, r})
      BY <2>1 DEF Quantity
    <2>3. a = x
      BY <1>3, <1>8, <2>1
    <2>4. r = y
      <3>1. Capital * Caps.risk = b /\ 10000 * StopDistance(c.entry, c.stop) = d
        BY <1>4, <1>5, <1>6
      <3>2. QED
        BY <1>7, <2>1, <3>1
    <2>5. QED
      BY <2>2, <2>3, <2>4
  <1>10. PICK q \in Nat : q = Min({x, y}) /\ q <= y
    <2>1. x \in Int /\ y \in Nat
      BY <1>7
    <2>2. Min({x, y}) \in Nat
      BY <2>1, NaturalMin
    <2>3. Min({x, y}) <= y
      BY <2>1, MinOfTwo
    <2>4. QED
      BY <2>2, <2>3
  <1>11. q * risk * 10000 <= b
    <2>1. PICK k \in Nat : k = y - q
      BY <1>7, <1>10
    <2>2. d * y = d * q + d * k /\ d * k >= 0
      <3>1. y = q + k
        BY <1>7, <1>10, <2>1
      <3>2. d * (q + k) = d * q + d * k
        OBVIOUS
      <3>3. d * k \in Nat
        OBVIOUS
      <3>4. QED
        BY <3>1, <3>2, <3>3
    <2>3. q * risk * 10000 = d * q
      BY <1>6
    <2>4. d * q \in Int
      OBVIOUS
    <2>5. QED
      BY <1>7, <2>2, <2>3, <2>4
  <1>12. QED
    BY <1>3, <1>4, <1>5, <1>9, <1>10, <1>11

\* A trade: that of a candidate there is, with a quantity.
IsTrade(p, a) ==
    \E c \in Eligible(p) :
        /\ a.symbol = c.symbol /\ a.entry = c.entry /\ a.stop = c.stop
        /\ a.entry \in Nat \ {0} /\ a.quantity \in Nat
        /\ a.quantity * StopDistance(a.entry, a.stop) * 10000 <= Caps.risk * Capital

LEMMA AllocationsKnown ==
    ASSUME NEW p, IsPortfolio(p)
    PROVE  /\ IsFiniteSet(DOMAIN Allocations(p))
           /\ \A i \in DOMAIN Allocations(p) : IsTrade(p, Allocations(p)[i])
           /\ \A a \in Range(Allocations(p)) : \E i \in DOMAIN Allocations(p) : a = Allocations(p)[i]
           /\ \A i \in DOMAIN Allocations(p) : Allocations(p)[i] \in Range(Allocations(p))
  <1>1. PICK cs \in Seq(Eligible(p)) : cs = Accepted(p)
    BY AcceptedEligible
  <1>2. PICK w : w = Capped(cs, Normalised(RawWeights(cs)))
    OBVIOUS
  <1>3. Weighs(w, DOMAIN cs)
    <2>1. Weighs(RawWeights(cs), DOMAIN cs)
      BY RawWeighs
    <2>2. PICK v : v = Normalised(RawWeights(cs)) /\ Weighs(v, DOMAIN cs)
      BY <2>1, NormalisedWeighs
    <2>3. Weighs(Capped(cs, v), DOMAIN cs)
      BY <2>2, CappedWeighs
    <2>4. QED
      BY <1>2, <2>2, <2>3
  <1>4. PICK K : K = {i \in DOMAIN cs : w[i] > 0}
    OBVIOUS
  <1> DEFINE of(i) == [symbol |-> cs[i].symbol, sector |-> cs[i].sector, entry |-> cs[i].entry,
                       stop |-> cs[i].stop, quantity |-> Quantity(cs[i], w[i]), weight |-> w[i]]
  <1>5. Allocations(p) = [i \in K |-> of(i)]
    BY <1>1, <1>2, <1>4 DEF Allocations
  <1>6. \A i \in K : IsTrade(p, of(i))
    <2>1. SUFFICES ASSUME NEW i \in K PROVE IsTrade(p, of(i))
      OBVIOUS
    <2>2. PICK c \in Eligible(p) : c = cs[i]
      BY <1>4
    <2>3. PICK n \in Nat : n = w[i]
      BY <1>3, <1>4 DEF Weighs
    <2>4. PICK a : a = of(i)
      OBVIOUS
    <2>5. /\ a.symbol = c.symbol /\ a.entry = c.entry /\ a.stop = c.stop
          /\ a.quantity = Quantity(c, n)
      BY <2>2, <2>3, <2>4
    <2>6. /\ c.entry \in Nat \ {0} /\ Quantity(c, n) \in Nat
          /\ Quantity(c, n) * StopDistance(c.entry, c.stop) * 10000 <= Caps.risk * Capital
      BY QuantityHolds
    <2>7. IsTrade(p, a)
      BY <2>5, <2>6 DEF IsTrade
    <2>8. QED
      BY <2>4, <2>7
  <1> HIDE DEF of
  <1>7. IsFiniteSet(K)
    BY <1>3, <1>4, FS_Subset DEF Weighs
  <1>8. DOMAIN Allocations(p) = K /\ \A i \in K : Allocations(p)[i] = of(i)
    BY <1>5
  <1>9. Range(Allocations(p)) = {Allocations(p)[i] : i \in K}
    BY <1>8 DEF Range
  <1>10. QED
    BY <1>6, <1>7, <1>8, <1>9

PortfolioKept ==
    portfolio # <<>> => \E p \in Portfolios : portfolio = [asked |-> p, result |-> Construct(p)]

LEMMA PortfolioIs ==
    ASSUME PortfolioKept, portfolio # <<>>
    PROVE  \E p \in Portfolios :
              /\ IsPortfolio(p) /\ portfolio.asked = p
              /\ portfolio.result.allocations = Allocations(p)
              /\ portfolio.result.recommendation = Construct(p).recommendation
  <1>1. PICK p \in Portfolios : portfolio = [asked |-> p, result |-> Construct(p)]
    BY DEF PortfolioKept
  <1>2. IsPortfolio(p)
    BY PortfolioAssumption
  <1>3. portfolio.asked = p /\ portfolio.result = Construct(p)
    BY <1>1
  <1>4. Construct(p).allocations = Allocations(p)
    BY DEF Construct
  <1>5. QED
    BY <1>2, <1>3, <1>4

LEMMA RiskSizes == PortfolioKept => SizedByRisk
  <1>1. SUFFICES ASSUME PortfolioKept, portfolio # <<>> PROVE SizedByRisk
    BY DEF SizedByRisk
  <1>2. PICK p \in Portfolios : /\ IsPortfolio(p) /\ portfolio.asked = p
                               /\ portfolio.result.allocations = Allocations(p)
    BY <1>1, PortfolioIs
  <1>3. ASSUME NEW a \in Range(Allocations(p))
        PROVE  /\ a.quantity * StopDistance(a.entry, a.stop) * 10000 <= Caps.risk * Capital
               /\ \E c \in Range(p.candidates) : c.symbol = a.symbol /\ Kelly(c) > 0
               /\ \A h \in Range(p.held) : Correlation(p.correlations, a.symbol, h.symbol) <= Caps.correlation
    <2>1. IsTrade(p, a)
      BY <1>2, <1>3, AllocationsKnown
    <2>2. PICK c \in Eligible(p) :
             /\ a.symbol = c.symbol
             /\ a.quantity * StopDistance(a.entry, a.stop) * 10000 <= Caps.risk * Capital
      BY <2>1 DEF IsTrade
    <2>3. /\ c \in Range(p.candidates) /\ Kelly(c) > 0
          /\ \A h \in Range(p.held) : Correlation(p.correlations, c.symbol, h.symbol) <= Caps.correlation
      BY DEF Eligible
    <2>4. QED
      BY <2>2, <2>3
  <1>4. QED
    BY <1>2, <1>3 DEF SizedByRisk

(***************************************************************************)
(* What an approved portfolio is worth.                                    *)
(***************************************************************************)
LEMMA HeldKnown == ASSUME NEW p, IsPortfolio(p), NEW s PROVE Held(p.held, s) \in Nat
  <1> DEFINE f == [k \in DOMAIN p.held |->
                     IF p.held[k].symbol = s THEN p.held[k].quantity * p.held[k].price ELSE 0]
  <1>1. p.held \in Seq(Range(p.held)) /\ \A h \in Range(p.held) : h.quantity \in Nat /\ h.price \in Nat
    BY DEF IsPortfolio
  <1>2. PICK n \in Nat : DOMAIN p.held = 1 .. n /\ \A k \in 1 .. n : p.held[k] \in Range(p.held)
    BY <1>1
  <1>3. \A h \in Range(p.held) : h.quantity * h.price \in Nat
    BY <1>1
  <1>4. Weighs(f, 1 .. n)
    <2>1. IsFiniteSet(1 .. n)
      BY FS_Interval
    <2>2. f \in [1 .. n -> Nat]
      BY <1>2, <1>3
    <2>3. QED
      BY <2>1, <2>2 DEF Weighs
  <1>5. Held(p.held, s) = SumFunction(f)
    BY DEF Held
  <1> HIDE DEF f
  <1>6. QED
    BY <1>4, <1>5, WeighsSum

LEMMA InvestedKnown == ASSUME NEW p, IsPortfolio(p), NEW s PROVE Invested(Allocations(p), s) \in Nat
  <1>1. PICK a : a = Allocations(p)
    OBVIOUS
  <1> DEFINE f == [k \in DOMAIN a |-> IF a[k].symbol = s THEN a[k].quantity * a[k].entry ELSE 0]
  <1>2. IsFiniteSet(DOMAIN a) /\ \A k \in DOMAIN a : IsTrade(p, a[k])
    BY <1>1, AllocationsKnown
  <1>3. \A k \in DOMAIN a : a[k].quantity * a[k].entry \in Nat
    <2>1. \A k \in DOMAIN a : a[k].quantity \in Nat /\ a[k].entry \in Nat
      BY <1>2 DEF IsTrade
    <2>2. \A x, y \in Nat : x * y \in Nat
      OBVIOUS
    <2>3. QED
      BY <2>1, <2>2
  <1>4. f \in [DOMAIN a -> Nat]
    BY <1>3
  <1>5. Invested(a, s) = SumFunction(f)
    BY DEF Invested
  <1> HIDE DEF f
  <1>6. QED
    BY <1>1, <1>2, <1>4, <1>5, WeighsSum DEF Weighs

LEMMA ExposuresKnown ==
    ASSUME NEW p, IsPortfolio(p), NEW x, x = Exposures(Allocations(p), p.held)
    PROVE  /\ DOMAIN x = Symbols(Allocations(p), p.held)
           /\ IsFiniteSet(DOMAIN x) /\ x \in [DOMAIN x -> Nat]
           /\ \A s \in DOMAIN x : x[s] = Exposure(Allocations(p), p.held, s)
  <1>1. PICK a, h : a = Allocations(p) /\ h = p.held
    OBVIOUS
  <1>2. x = [s \in Symbols(a, h) |-> Exposure(a, h, s)]
    BY <1>1 DEF Exposures
  <1>3. \A s : Exposure(a, h, s) \in Nat
    <2>1. SUFFICES ASSUME NEW s PROVE Exposure(a, h, s) \in Nat
      OBVIOUS
    <2>2. Invested(a, s) \in Nat /\ Held(h, s) \in Nat
      BY <1>1, InvestedKnown, HeldKnown
    <2>3. QED
      BY <2>2 DEF Exposure
  <1>4. IsFiniteSet(Symbols(a, h))
    <2>1. PICK R : R = Range(a) \cup Range(h)
      OBVIOUS
    <2>2. IsFiniteSet(Range(a))
      <3>1. IsFiniteSet(DOMAIN a)
        BY <1>1, AllocationsKnown
      <3>2. a \in Surjection(DOMAIN a, Range(a))
        <4>1. a = [k \in DOMAIN a |-> a[k]]
          BY <1>1 DEF Allocations
        <4>2. QED
          BY <4>1 DEF Range, Surjection
      <3>3. QED
        BY <3>1, <3>2, FS_Surjection
    <2>3. IsFiniteSet(Range(h))
      BY <1>1, FiniteRange DEF IsPortfolio
    <2>4. IsFiniteSet(R)
      BY <2>1, <2>2, <2>3, FS_Union
    <2>5. PICK f : f = [r \in R |-> r.symbol]
      OBVIOUS
    <2>6. f \in Surjection(R, {r.symbol : r \in R})
      BY <2>5 DEF Surjection
    <2>7. IsFiniteSet({r.symbol : r \in R})
      BY <2>4, <2>6, FS_Surjection
    <2>8. QED
      BY <2>1, <2>7 DEF Symbols
  <1>5. QED
    BY <1>1, <1>2, <1>3, <1>4

\* Nothing speaks against an approved portfolio.
LEMMA ApprovedHasNoReason ==
    ASSUME NEW p, Construct(p).recommendation = "PORTFOLIO_APPROVED"
    PROVE  RiskReasons(p, Allocations(p)) = {}
  <1>1. PICK a : a = Allocations(p)
    OBVIOUS
  <1>2. Construct(p).recommendation
          = IF Accepted(p) = <<>> THEN "CONTINUE_PAPER"
            ELSE IF DOMAIN a # {} /\ RiskReasons(p, a) = {} THEN "PORTFOLIO_APPROVED"
            ELSE "PORTFOLIO_BLOCKED"
    BY <1>1 DEF Construct
  <1>3. QED
    BY <1>1, <1>2

LEMMA NoReason ==
    ASSUME NEW p, NEW a, NEW x, x = Exposures(a, p.held), RiskReasons(p, a) = {}
    PROVE  /\ ~(SumFunction(x) * 10000 > Caps.gross * Capital)
           /\ ~FellBeyond(p.equity, Caps.drawdown)
           /\ \A s \in DOMAIN x : ~(x[s] * 10000 > Caps.symbol * Capital)
           /\ \A k \in DOMAIN p.correlations :
                 {k[1], k[2]} \subseteq DOMAIN x => ~(p.correlations[k] > Caps.correlation)
  <1>1. \A r : r \notin RiskReasons(p, a)
    OBVIOUS
  <1>2. SumFunction(x) * 10000 > Caps.gross * Capital => "gross" \in RiskReasons(p, a)
    BY DEF RiskReasons
  <1>3. FellBeyond(p.equity, Caps.drawdown) => "drawdown" \in RiskReasons(p, a)
    BY DEF RiskReasons
  <1>4. (\E s \in DOMAIN x : x[s] * 10000 > Caps.symbol * Capital) => "symbol" \in RiskReasons(p, a)
    BY DEF RiskReasons
  <1>5. (\E k \in DOMAIN p.correlations : {k[1], k[2]} \subseteq DOMAIN x
                                         /\ p.correlations[k] > Caps.correlation)
          => "correlation" \in RiskReasons(p, a)
    BY DEF RiskReasons
  <1>6. QED
    BY <1>1, <1>2, <1>3, <1>4, <1>5

\* Each value of a curve that fell no further than the limit, against the highest up to it.
LEMMA HeldUnder ==
    ASSUME NEW equity, NEW limit, ~FellBeyond(equity, limit),
           NEW n \in DOMAIN equity, NEW peak, peak = Max({equity[i] : i \in 1 .. n})
    PROVE  ~FarBelow(equity[n], peak, limit)
  BY Zenon DEF FellBeyond

\* What lies no further below the highest so far than the limit lies no further below any before.
LEMMA FallsKept ==
    ASSUME NEW p, IsPortfolio(p), ~FellBeyond(p.equity, Caps.drawdown),
           NEW i \in DOMAIN p.equity, NEW j \in DOMAIN p.equity, i < j
    PROVE  (p.equity[i] - p.equity[j]) * 10000 <= Caps.drawdown * p.equity[i]
  <1>1. PICK e \in Seq(Nat) : e = p.equity
    BY DEF IsPortfolio
  <1>2. i \in 1 .. Len(e) /\ j \in 1 .. Len(e) /\ \A k \in 1 .. Len(e) : e[k] \in Nat
    BY <1>1
  <1>3. PICK S : S = {e[k] : k \in 1 .. j}
    OBVIOUS
  <1>4. \A k \in 1 .. j : k \in 1 .. Len(e)
    BY <1>2
  <1>5. S \subseteq Int /\ e[i] \in S /\ S # {}
    BY <1>2, <1>3, <1>4
  <1>6. IsFiniteSet(S)
    <2>1. PICK f : f = [k \in 1 .. j |-> e[k]]
      OBVIOUS
    <2>2. f \in Surjection(1 .. j, S)
      BY <1>3, <2>1 DEF Surjection
    <2>3. IsFiniteSet(1 .. j)
      BY <1>2, FS_Interval
    <2>4. QED
      BY <2>2, <2>3, FS_Surjection
  <1>7. PICK peak : peak = Max(S)
    OBVIOUS
  <1>8. peak \in Int /\ peak >= e[i]
    BY <1>5, <1>6, <1>7, LargestExists
  <1>9. PICK x \in Nat, y \in Nat, limit \in Nat : x = e[i] /\ y = e[j] /\ limit = Caps.drawdown
    BY <1>2, CapsKnown
  <1>10. ~((peak - y) * 10000 > limit * peak)
    <2>1. {p.equity[k] : k \in 1 .. j} = S
      BY <1>1, <1>3
    <2>2. peak = Max({p.equity[k] : k \in 1 .. j})
      BY <1>7, <2>1, Zenon
    <2>3. ~FarBelow(p.equity[j], peak, Caps.drawdown)
      BY <2>2, HeldUnder
    <2>4. p.equity[j] = y /\ Caps.drawdown = limit
      BY <1>1, <1>9
    <2>5. ~FarBelow(y, peak, limit)
      BY <2>3, <2>4
    <2>6. QED
      BY <2>5 DEF FarBelow
  <1>11. (peak - y) * 10000 <= limit * peak
    <2>1. (peak - y) * 10000 \in Int /\ limit * peak \in Int
      BY <1>8
    <2>2. QED
      BY <1>10, <2>1
  <1>12. PICK d \in Nat : d = peak - x
    BY <1>8, <1>9
  <1>13. (x - y) * 10000 <= limit * x
    <2>1. CASE limit <= 10000
      <3>1. limit * peak = limit * x + limit * d
        <4>1. peak = x + d
          BY <1>8, <1>12
        <4>2. limit * (x + d) = limit * x + limit * d
          OBVIOUS
        <4>3. QED
          BY <4>1, <4>2
      <3>2. limit * d <= 10000 * d
        <4>1. PICK k \in Nat : 10000 = limit + k
          BY <2>1
        <4>2. (limit + k) * d = limit * d + k * d /\ k * d \in Nat
          OBVIOUS
        <4>3. QED
          BY <4>1, <4>2
      <3>3. (peak - y) * 10000 = (x - y) * 10000 + 10000 * d
        BY <1>8, <1>12
      <3>4. limit * d \in Int /\ limit * x \in Int
        OBVIOUS
      <3>5. QED
        BY <1>11, <3>1, <3>2, <3>3, <3>4
    <2>2. CASE limit > 10000
      <3>1. PICK k \in Nat : limit = 10000 + k
        BY <2>2
      <3>2. limit * x = 10000 * x + k * x /\ k * x \in Nat
        BY <3>1
      <3>3. QED
        BY <3>2
    <2>3. QED
      BY <2>1, <2>2
  <1>14. QED
    BY <1>1, <1>9, <1>13

LEMMA LimitsHold == PortfolioKept => ApprovedWithinLimits
  <1>1. SUFFICES ASSUME PortfolioKept, PortfolioApproved PROVE ApprovedWithinLimits
    BY DEF ApprovedWithinLimits
  <1>2. portfolio # <<>> /\ portfolio.result.recommendation = "PORTFOLIO_APPROVED"
    BY <1>1 DEF PortfolioApproved
  <1>3. PICK p \in Portfolios :
              /\ IsPortfolio(p) /\ portfolio.asked = p
              /\ portfolio.result.allocations = Allocations(p)
              /\ portfolio.result.recommendation = Construct(p).recommendation
    BY <1>1, <1>2, PortfolioIs
  <1>4. PICK a : a = Allocations(p)
    OBVIOUS
  <1>5. RiskReasons(p, a) = {}
    BY <1>2, <1>3, <1>4, ApprovedHasNoReason
  <1>6. PICK x : x = Exposures(a, p.held)
    OBVIOUS
  <1> DEFINE all == Symbols(a, p.held)
  <1>7. /\ DOMAIN x = all /\ IsFiniteSet(all) /\ x \in [all -> Nat]
        /\ \A s \in all : x[s] = Exposure(a, p.held, s)
    BY <1>3, <1>4, <1>6, ExposuresKnown
  <1>8. /\ ~(SumFunction(x) * 10000 > Caps.gross * Capital)
        /\ ~FellBeyond(p.equity, Caps.drawdown)
        /\ \A s \in all : ~(x[s] * 10000 > Caps.symbol * Capital)
        /\ \A k \in DOMAIN p.correlations :
              {k[1], k[2]} \subseteq all => ~(p.correlations[k] > Caps.correlation)
    BY <1>5, <1>6, <1>7, NoReason
  <1>9. \A s \in all : FinalValue(s) = x[s]
    BY <1>3, <1>4, <1>7 DEF FinalValue, Exposure
  <1>10. [s \in all |-> FinalValue(s)] = x
    BY <1>7, <1>9
  <1> HIDE DEF all
  <1>11. \A s \in all : FinalValue(s) * 10000 <= Caps.symbol * Capital
    <2>1. SUFFICES ASSUME NEW s \in all PROVE x[s] * 10000 <= Caps.symbol * Capital
      BY <1>9
    <2>2. x[s] \in Nat
      BY <1>7
    <2>3. Caps.symbol * Capital \in Int
      BY CapsKnown
    <2>4. QED
      BY <1>8, <2>2, <2>3
  <1>12. SumFunction(x) * 10000 <= Caps.gross * Capital
    <2>1. SumFunction(x) \in Nat
      BY <1>7, WeighsSum DEF Weighs
    <2>2. Caps.gross * Capital \in Int
      BY CapsKnown
    <2>3. QED
      BY <1>8, <2>1, <2>2
  <1>13. \A s, t \in all : Correlation(p.correlations, s, t) <= Caps.correlation
    <2>1. SUFFICES ASSUME NEW s \in all, NEW t \in all
                   PROVE  Correlation(p.correlations, s, t) <= Caps.correlation
      OBVIOUS
    <2>2. Caps.correlation \in Int /\ Caps.correlation > NoCorrelation /\ NoCorrelation \in Int
      BY CapsKnown DEF NoCorrelation
    <2>3. ASSUME NEW k \in DOMAIN p.correlations, k = <<s, t>> \/ k = <<t, s>>
          PROVE  p.correlations[k] <= Caps.correlation
      <3>1. {k[1], k[2]} \subseteq all
        BY <2>3
      <3>2. p.correlations[k] \in Int
        BY <1>3 DEF IsPortfolio
      <3>3. ~(p.correlations[k] > Caps.correlation)
        BY <1>8, <3>1
      <3>4. QED
        BY <2>2, <3>2, <3>3
    <2>4. CASE <<s, t>> \in DOMAIN p.correlations
      BY <2>3, <2>4 DEF Correlation
    <2>5. CASE <<s, t>> \notin DOMAIN p.correlations /\ <<t, s>> \in DOMAIN p.correlations
      BY <2>3, <2>5 DEF Correlation
    <2>6. CASE <<s, t>> \notin DOMAIN p.correlations /\ <<t, s>> \notin DOMAIN p.correlations
      <3>1. Correlation(p.correlations, s, t) = NoCorrelation
        BY <2>6 DEF Correlation
      <3>2. QED
        BY <2>2, <3>1
    <2>7. QED
      BY <2>4, <2>5, <2>6
  <1>14. \A i, j \in DOMAIN p.equity : i < j =>
            (p.equity[i] - p.equity[j]) * 10000 <= Caps.drawdown * p.equity[i]
    BY <1>3, <1>8, FallsKept
  <1>15. QED
    BY <1>3, <1>4, <1>10, <1>11, <1>12, <1>13, <1>14 DEF ApprovedWithinLimits, all

(***************************************************************************)
(* Strategies: their scores, their shares and the decision.                *)
(***************************************************************************)
LEMMA WithinRange ==
    ASSUME NEW n \in Int, NEW low \in Int, NEW high \in Int, low <= high
    PROVE  Within(n, low, high) \in Int /\ low <= Within(n, low, high) /\ Within(n, low, high) <= high
  <1>1. PICK x : x = Min({n, high})
    OBVIOUS
  <1>2. x \in Int /\ x <= high
    BY <1>1, MinOfTwo
  <1>3. Max({low, x}) \in Int /\ Max({low, x}) >= low /\ Max({low, x}) \in {low, x}
    BY <1>2, MaxOfTwo
  <1>4. QED
    BY <1>1, <1>2, <1>3 DEF Within

LEMMA WithinHundred == ASSUME NEW n \in Int PROVE Within(n, 0, 100) \in Nat
  <1>1. 0 \in Int /\ 100 \in Int /\ 0 <= 100
    OBVIOUS
  <1>2. Within(n, 0, 100) \in Int /\ 0 <= Within(n, 0, 100)
    BY <1>1, WithinRange
  <1>3. QED
    BY <1>2

\* At least c, at most c.
LEMMA Least == ASSUME NEW c \in Nat, NEW n \in Int PROVE Max({c, n}) \in Nat /\ Max({c, n}) >= c
  <1>1. c \in Int
    OBVIOUS
  <1>2. Max({c, n}) \in Int /\ Max({c, n}) >= c
    BY <1>1, MaxOfTwo
  <1>3. QED
    BY <1>2

\* What a health score tells: numbers, and nothing of a strategy that is switched off.
IsScore(s, h) ==
    /\ h.overall \in Nat /\ h.robustness \in Nat
    /\ h.status # "DISABLED" => s.enabled

LEMMA HealthKnown ==
    ASSUME NEW s \in Strategies, NEW p \in Performances
    PROVE  IsScore(s, Health(s, p))
  <1>1. s.enabled \in BOOLEAN
    BY RegistryAssumption
  <1>2. IsWindow(p.current) /\ p.execution \in Int
    BY TrackedAssumption
  <1>3. /\ p.current.factor \in Int /\ p.current.winRate \in Nat /\ p.current.volatility \in Nat
        /\ p.current.drawdown \in Nat /\ p.current.robustness \in Int
    BY <1>2 DEF IsWindow
  <1>4. Robustness(p) \in Nat
    <2>1. PICK r : r = p.current.robustness
      OBVIOUS
    <2>2. r \in Int
      BY <1>3, <2>1
    <2>3. Within(r, 0, 100) \in Nat
      BY <2>2, WithinHundred
    <2>4. QED
      BY <2>1, <2>3 DEF Robustness
  <1>5. Overall(p) \in Nat
    <2>0. PICK z : z = (p.current.factor * 5) \div 2 + p.current.winRate \div 2
      OBVIOUS
    <2>1. PICK a : a = Within(z, 0, 100)
      OBVIOUS
    <2>2. a \in Nat
      <3>1. z \in Int
        BY <1>3, <2>0
      <3>2. QED
        BY <2>1, <3>1, WithinHundred
    <2>3. PICK b : b = IF Degraded(p) THEN 35 ELSE 100 - Min({p.current.volatility, 100})
      OBVIOUS
    <2>4. b \in Nat
      <3>1. PICK v : v = p.current.volatility
        OBVIOUS
      <3>2. v \in Int /\ 100 \in Int
        BY <1>3, <3>1
      <3>3. Min({v, 100}) \in Int /\ Min({v, 100}) <= 100
        BY <3>2, MinOfTwo
      <3>4. QED
        BY <2>3, <3>1, <3>3
    <2>5. PICK c : c = Max({0, 100 - 4 * p.current.drawdown})
      OBVIOUS
    <2>6. c \in Nat
      <3>1. PICK v : v = 100 - 4 * p.current.drawdown
        OBVIOUS
      <3>2. v \in Int /\ 0 \in Nat
        BY <1>3, <3>1
      <3>3. QED
        BY <2>5, <3>1, <3>2, Least
    <2>7. PICK d : d = Within(p.execution, 0, 100)
      OBVIOUS
    <2>8. d \in Nat
      <3>1. PICK v : v = p.execution
        OBVIOUS
      <3>2. v \in Int
        BY <1>2, <3>1
      <3>3. QED
        BY <2>7, <3>1, <3>2, WithinHundred
    <2>9. Overall(p) = (a + Robustness(p) + b + c + d) \div 5
      BY <2>0, <2>1, <2>3, <2>5, <2>7 DEF Overall
    <2>10. QED
      BY <1>4, <2>2, <2>4, <2>6, <2>8, <2>9
  <1>6. CASE s.enabled
    BY <1>4, <1>5, <1>6 DEF Health, IsScore
  <1>7. CASE ~s.enabled
    BY <1>7 DEF Health, IsScore
  <1>8. QED
    BY <1>1, <1>6, <1>7

LEMMA RawShareKnown ==
    ASSUME NEW m, NEW s, NEW h, IsScore(s, h), NEW p \in Performances
    PROVE  RawShare(m, h, p) \in Nat /\ (h.status = "DISABLED" => RawShare(m, h, p) = 0)
  <1>1. IsWindow(p.current)
    BY TrackedAssumption
  <1>2. p.current.factor \in Int /\ p.current.expectancy \in Int /\ p.current.volatility \in Nat
    BY <1>1 DEF IsWindow
  <1>3. h.overall \in Nat /\ h.robustness \in Nat
    BY DEF IsScore
  <1>4. PICK e : e = Max({0, p.current.expectancy})
    OBVIOUS
  <1>5. PICK f : f = Max({0, p.current.factor})
    OBVIOUS
  <1>6. PICK v : v = Max({1, p.current.volatility})
    OBVIOUS
  <1>7. e \in Nat /\ f \in Nat /\ v \in Nat \ {0}
    <2>1. 0 \in Nat /\ 1 \in Nat
      OBVIOUS
    <2>2. \A c \in Nat, n \in Int : Max({c, n}) \in Nat /\ Max({c, n}) >= c
      BY Least
    <2>3. /\ Max({0, p.current.expectancy}) \in Nat /\ Max({0, p.current.factor}) \in Nat
          /\ Max({1, p.current.volatility}) \in Nat /\ Max({1, p.current.volatility}) >= 1
      BY <1>2, <2>1, <2>2
    <2>4. QED
      BY <1>4, <1>5, <1>6, <2>3
  <1>8. (10 * h.overall) \div v \in Nat
    BY <1>3, <1>7, Divides
  <1>9. /\ 10 * e + f \in Nat /\ 10 * h.robustness \in Nat
        /\ 4 * h.overall + 3 * h.robustness + 10 * f + e \in Nat
    BY <1>3, <1>7
  <1>10. QED
    BY <1>4, <1>5, <1>6, <1>8, <1>9 DEF RawShare

\* A positive factor does not change an order.
LEMMA FactorDropped ==
    ASSUME NEW x \in Nat, NEW y \in Nat, NEW z \in Nat \ {0}, x * z <= y * z
    PROVE  x <= y
  <1>1. z * x <= z * y
    OBVIOUS
  <1>2. \A a, b \in Int : z * a < z * b => a < b
    OBVIOUS
  <1>3. SUFFICES ASSUME y < x PROVE FALSE
    OBVIOUS
  <1>4. x = y + (x - y) /\ x - y \in Nat \ {0}
    BY <1>3
  <1>5. z * (x - y) > 0
    BY <1>4
  <1>6. z * x = z * y + z * (x - y)
    OBVIOUS
  <1>7. QED
    BY <1>1, <1>5, <1>6

\* Rounded down, shares of a whole in proportion are no more than the whole.
LEMMA PartsOfWhole ==
    ASSUME NEW D, IsFiniteSet(D), NEW f \in [D -> Nat], NEW t \in Nat \ {0}, t = SumFunction(f),
           NEW w \in Nat, NEW q \in [D -> Int], \A i \in D : q[i] = (f[i] * w) \div t
    PROVE  /\ q \in [D -> Nat] /\ SumFunction(q) \in Nat /\ SumFunction(q) <= w
           /\ \A i \in D : t * q[i] <= f[i] * w
  <1>1. \A i \in D : q[i] \in Nat /\ t * q[i] <= f[i] * w
    <2>1. SUFFICES ASSUME NEW i \in D PROVE q[i] \in Nat /\ t * q[i] <= f[i] * w
      OBVIOUS
    <2>2. PICK a : a = f[i] * w
      OBVIOUS
    <2>3. a \in Nat
      <3>1. f[i] \in Nat
        OBVIOUS
      <3>2. QED
        BY <2>2, <3>1
    <2>4. q[i] = a \div t
      BY <2>2
    <2>5. PICK x \in Int : x = a \div t /\ t * x <= a /\ (a >= 0 => x \in Nat)
      <3>1. a \in Int
        BY <2>3
      <3>2. QED
        BY <3>1, Divides
    <2>6. QED
      BY <2>2, <2>3, <2>4, <2>5
  <1>2. Summable(f, D) /\ Summable(q, D)
    BY <1>1 DEF Summable
  <1>3. SumFunction(q) \in Nat
    BY <1>1, <1>2, SumIsNatural
  <1>4. SumFunction(q) * t <= w * t
    <2>1. \A i \in D : q[i] * t <= f[i] * w
      <3>1. \A x, y \in Int : x * y = y * x
        OBVIOUS
      <3>2. QED
        BY <1>1, <3>1
    <2>2. QED
      <3>1. t \in Int /\ w \in Int
        OBVIOUS
      <3>2. SumFunction(q) * t <= SumFunction(f) * w
        BY <1>2, <2>1, <3>1, SumCompares
      <3>3. QED
        BY <3>2
  <1>5. SumFunction(q) <= w
    BY <1>3, <1>4, FactorDropped
  <1>6. q \in [D -> Nat]
    BY <1>1
  <1>7. QED
    BY <1>1, <1>3, <1>5, <1>6

\* Whatever the scores, no share passes its cap and all together no more than the whole.
SharesFit(a, raw, D) ==
    /\ a \in [D -> Nat] /\ \A i \in D : a[i] <= MaxAllocation
    /\ SumFunction(a) <= 100
    /\ \A i \in D : raw[i] = 0 => a[i] = 0
    /\ \A i, j \in D : raw[i] = raw[j] => a[i] = a[j]

LEMMA SharesHold ==
    ASSUME NEW D, IsFiniteSet(D), NEW raw \in [D -> Nat]
    PROVE  SharesFit(NormalizeWithCaps(raw), raw, D)
  <1> DEFINE total == SumFunction(raw)
             part(x) == Within((x * 100) \div total, MinAllocation, MaxAllocation)
             capped == [i \in D |-> IF raw[i] = 0 THEN 0 ELSE part(raw[i])]
             sum == SumFunction(capped)
             final == [i \in D |-> (capped[i] * 100) \div sum]
  <1>1. NormalizeWithCaps(raw) = IF sum > 100 THEN final ELSE capped
    BY DEF NormalizeWithCaps
  <1>2. MinAllocation \in Nat /\ MaxAllocation \in Nat /\ MinAllocation <= MaxAllocation
    BY AllocationAssumption
  <1>3. ASSUME NEW i \in D, raw[i] # 0 PROVE part(raw[i]) \in Nat /\ part(raw[i]) <= MaxAllocation
    <2>1. raw[i] <= total
      BY TermBelowSum
    <2>2. Summable(raw, D)
      BY DEF Summable
    <2>3. total \in Int
      BY <2>2, SumType
    <2>4. total \in Nat \ {0} /\ raw[i] * 100 \in Int
      <3> HIDE DEF total
      <3>1. raw[i] \in Nat
        OBVIOUS
      <3>2. QED
        BY <1>3, <2>1, <2>3, <3>1
    <2>5. PICK q \in Int : q = (raw[i] * 100) \div total
      <3>1. \A b \in Nat \ {0} : \A a \in Int : \E q \in Int : q = a \div b
        BY Divides
      <3>2. QED
        BY <2>4, <3>1
    <2>6. part(raw[i]) = Within(q, MinAllocation, MaxAllocation)
      BY <2>5
    <2>7. MinAllocation \in Int /\ MaxAllocation \in Int
      BY <1>2
    <2>8. PICK x : x = Within(q, MinAllocation, MaxAllocation)
      OBVIOUS
    <2>9. x \in Int /\ MinAllocation <= x /\ x <= MaxAllocation
      BY <1>2, <2>7, <2>8, WithinRange
    <2>10. x \in Nat
      BY <1>2, <2>9
    <2>11. QED
      BY <2>6, <2>8, <2>9, <2>10
  <1> HIDE DEF part
  <1>4. capped \in [D -> Nat] /\ \A i \in D : capped[i] <= MaxAllocation
    BY <1>2, <1>3
  <1>5. (\A i \in D : raw[i] = 0 => capped[i] = 0) /\ \A i, j \in D : raw[i] = raw[j] => capped[i] = capped[j]
    OBVIOUS
  <1> HIDE DEF capped
  <1>6. Summable(capped, D)
    BY <1>4 DEF Summable
  <1>7. sum \in Nat
    BY <1>4, <1>6, SumIsNatural
  <1> HIDE DEF sum
  <1>8. CASE sum > 100
    <2>1. sum \in Nat \ {0} /\ sum = SumFunction(capped) /\ 100 \in Nat
      BY <1>7, <1>8 DEF sum
    <2>2. final \in [D -> Int] /\ \A i \in D : final[i] = (capped[i] * 100) \div sum
      <3>1. \A i \in D : (capped[i] * 100) \div sum \in Int
        <4>1. \A b \in Nat \ {0} : \A a \in Int : \E q \in Int : q = a \div b
          BY Divides
        <4>2. \A i \in D : capped[i] * 100 \in Int
          BY <1>4
        <4>3. QED
          BY <2>1, <4>1, <4>2
      <3>2. QED
        BY <3>1
    <2> HIDE DEF final
    <2>3. /\ final \in [D -> Nat] /\ SumFunction(final) <= 100
          /\ \A i \in D : sum * final[i] <= capped[i] * 100
      BY <1>4, <2>1, <2>2, PartsOfWhole
    <2>4. \A i \in D : final[i] <= capped[i]
      <3>1. SUFFICES ASSUME NEW i \in D PROVE final[i] <= capped[i]
        OBVIOUS
      <3>2. PICK x \in Nat, y \in Nat : x = final[i] /\ y = capped[i]
        BY <1>4, <2>3
      <3>3. sum * x <= y * 100
        BY <2>3, <3>2
      <3>4. y * 100 <= y * sum
        BY <1>7, <1>8
      <3>5. x * sum <= y * sum
        BY <1>7, <3>3, <3>4
      <3>6. x <= y
        BY <2>1, <3>5, FactorDropped
      <3>7. QED
        BY <3>2, <3>6
    <2>5. \A i \in D : final[i] <= MaxAllocation
      BY <1>2, <1>4, <2>3, <2>4
    <2>6. \A i \in D : capped[i] = 0 => final[i] = 0
      BY <1>4, <2>3, <2>4
    <2>7. \A i, j \in D : capped[i] = capped[j] => final[i] = final[j]
      BY <2>2
    <2>8. NormalizeWithCaps(raw) = final
      BY <1>1, <1>8
    <2>9. SharesFit(final, raw, D)
      BY <1>5, <2>3, <2>5, <2>6, <2>7 DEF SharesFit
    <2>10. QED
      BY <2>8, <2>9
  <1>9. CASE sum <= 100
    <2>1. NormalizeWithCaps(raw) = capped
      BY <1>1, <1>7, <1>9
    <2>2. SharesFit(capped, raw, D)
      BY <1>4, <1>5, <1>9 DEF SharesFit, sum
    <2>3. QED
      BY <2>1, <2>2
  <1>10. QED
    BY <1>7, <1>8, <1>9

\* What the scores and the shares are.
ScoresFor(ps) == [i \in DOMAIN registry |-> Health(registry[i], ps[i])]

RawFor(m, ps) == [i \in DOMAIN registry |-> RawShare(m, ScoresFor(ps)[i], ps[i])]

SharedAs(s, m, ps) ==
    s = [scores |-> ScoresFor(ps), of |-> ps, allocations |-> NormalizeWithCaps(RawFor(m, ps))]

RegistryKept == IsFiniteSet(DOMAIN registry) /\ \A i \in DOMAIN registry : registry[i] \in Strategies

SharesKept ==
    shares # <<>> =>
        \E m \in Methods : \E ps \in [DOMAIN registry -> Performances] : SharedAs(shares, m, ps)

DecisionKept ==
    decision # <<>> =>
        /\ shares # <<>>
        /\ \E heard \in SUBSET DOMAIN registry : \E votes \in [heard -> Votes] :
              decision = [votes |-> votes, outcome |-> Aggregate(votes)]

SimilarityKept ==
    similarity # <<>> => \E h \in Histories : similarity = [of |-> h, warned |-> Similar(h)]

LEMMA SharesAre ==
    ASSUME RegistryKept, NEW m, NEW ps \in [DOMAIN registry -> Performances], SharedAs(shares, m, ps)
    PROVE  /\ shares.scores = ScoresFor(ps) /\ shares.of = ps
           /\ SharesFit(shares.allocations, RawFor(m, ps), DOMAIN registry)
           /\ \A i \in DOMAIN registry : IsScore(registry[i], shares.scores[i])
           /\ \A i \in DOMAIN registry : shares.scores[i].status = "DISABLED" => shares.allocations[i] = 0
           /\ \A i, j \in DOMAIN registry :
                 shares.of[i] = shares.of[j] /\ shares.scores[i] = shares.scores[j]
                   => shares.allocations[i] = shares.allocations[j]
  <1> DEFINE D == DOMAIN registry
  <1>1. /\ shares.scores = ScoresFor(ps) /\ shares.of = ps
        /\ shares.allocations = NormalizeWithCaps(RawFor(m, ps))
    BY DEF SharedAs
  <1>2. \A i \in D : registry[i] \in Strategies /\ ps[i] \in Performances
    BY DEF RegistryKept
  <1>3. \A i \in D : ScoresFor(ps)[i] = Health(registry[i], ps[i])
    BY DEF ScoresFor
  <1>4. \A i \in D : IsScore(registry[i], ScoresFor(ps)[i])
    BY <1>2, <1>3, HealthKnown
  <1>5. \A i \in D : RawFor(m, ps)[i] = RawShare(m, ScoresFor(ps)[i], ps[i])
    BY DEF RawFor
  <1>6. \A i \in D : /\ RawShare(m, ScoresFor(ps)[i], ps[i]) \in Nat
                     /\ ScoresFor(ps)[i].status = "DISABLED" => RawShare(m, ScoresFor(ps)[i], ps[i]) = 0
    BY <1>2, <1>4, RawShareKnown
  <1>7. RawFor(m, ps) \in [D -> Nat]
    BY <1>6 DEF RawFor
  <1>8. SharesFit(shares.allocations, RawFor(m, ps), D)
    BY <1>1, <1>7, SharesHold DEF RegistryKept
  <1>9. \A i \in D : ScoresFor(ps)[i].status = "DISABLED" => shares.allocations[i] = 0
    BY <1>5, <1>6, <1>8 DEF SharesFit
  <1>10. \A i, j \in D : ps[i] = ps[j] /\ ScoresFor(ps)[i] = ScoresFor(ps)[j]
                           => shares.allocations[i] = shares.allocations[j]
    BY <1>5, <1>8 DEF SharesFit
  <1>11. QED
    BY <1>1, <1>4, <1>8, <1>9, <1>10

LEMMA AllocationsKept == RegistryKept /\ SharesKept => AllocationsHold
  <1>1. SUFFICES ASSUME RegistryKept, SharesKept, shares # <<>> PROVE AllocationsHold
    BY DEF AllocationsHold
  <1>2. PICK m \in Methods, ps \in [DOMAIN registry -> Performances] : SharedAs(shares, m, ps)
    BY <1>1 DEF SharesKept
  <1>3. /\ SharesFit(shares.allocations, RawFor(m, ps), DOMAIN registry)
        /\ \A i \in DOMAIN registry : shares.scores[i].status = "DISABLED" => shares.allocations[i] = 0
        /\ \A i, j \in DOMAIN registry :
                 shares.of[i] = shares.of[j] /\ shares.scores[i] = shares.scores[j]
                   => shares.allocations[i] = shares.allocations[j]
    BY <1>1, <1>2, SharesAre
  <1>4. DOMAIN shares.allocations = DOMAIN registry
    BY <1>3 DEF SharesFit
  <1>5. \A i \in DOMAIN registry : shares.allocations[i] \in 0 .. MaxAllocation
    BY <1>3, AllocationAssumption DEF SharesFit
  <1>6. QED
    BY <1>3, <1>4, <1>5 DEF AllocationsHold, SharesFit

\* The larger and the smaller of two, whichever comes first.
LEMMA OrderedPair ==
    ASSUME NEW x \in Int, NEW y \in Int, x > y
    PROVE  /\ Max({x, y}) = x /\ Max({y, x}) = x
           /\ Min({x, y}) = y /\ Min({y, x}) = y
  <1>1. {y, x} = {x, y}
    OBVIOUS
  <1>2. PICK m : m = Max({x, y})
    OBVIOUS
  <1>3. PICK n : n = Min({x, y})
    OBVIOUS
  <1>4. m \in Int /\ m >= x /\ (m = x \/ m = y)
    BY <1>2, MaxOfTwo
  <1>5. n \in Int /\ n <= y /\ (n = x \/ n = y)
    BY <1>3, MinOfTwo
  <1>6. m = x /\ n = y
    BY <1>4, <1>5
  <1>7. QED
    BY <1>1, <1>2, <1>3, <1>6

\* How sure a score is when the lesser of both sides speaks against it.
Doubted(score, lesser, both) == Min({10000, score - (score * lesser) \div (2 * both)})

\* What a decision says of the weight behind either side and behind neither.
Verdict(buy, sell, hold) ==
    LET score == IF buy > sell THEN buy - sell ELSE sell - buy
    IN IF hold >= Max({buy, sell}) THEN [signal |-> "HOLD", confidence |-> 0]
       ELSE [signal |-> IF buy > sell THEN "BUY" ELSE IF sell > buy THEN "SELL" ELSE "NO_TRADE",
             confidence |-> Doubted(score, Min({buy, sell}), buy + sell)]

LEMMA AggregateIs ==
    ASSUME NEW votes, votes # <<>>
    PROVE  Aggregate(votes) = Verdict(WeightOf(votes, {"BUY"}), WeightOf(votes, {"SELL"}),
                                      WeightOf(votes, {"HOLD", "NO_TRADE"}))
  BY DEF Aggregate, Verdict, Doubted

\* How sure a side with x against y is.
Sure(x, y) == Doubted(x - y, y, x + y)

\* A trade has more behind it than the other side and than neither.
LEMMA VerdictTrades ==
    ASSUME NEW b \in Nat, NEW s \in Nat, NEW h \in Nat
    PROVE  /\ Verdict(b, s, h).signal = "BUY" =>
                b > s /\ h < b /\ Verdict(b, s, h).confidence = Sure(b, s)
           /\ Verdict(b, s, h).signal = "SELL" =>
                s > b /\ h < s /\ Verdict(b, s, h).confidence = Sure(s, b)
           /\ b > s /\ h < b => Verdict(b, s, h).confidence = Sure(b, s)
           /\ s > b /\ h < s => Verdict(b, s, h).confidence = Sure(s, b)
  <1>1. CASE b > s
    <2>1. Max({b, s}) = b /\ Min({b, s}) = s
      BY <1>1, OrderedPair
    <2>2. CASE h >= b
      BY <1>1, <2>1, <2>2 DEF Verdict
    <2>3. CASE h < b
      <3>1. Verdict(b, s, h) = [signal |-> "BUY", confidence |-> Sure(b, s)]
        <4>1. ~(h >= b) /\ ~(s > b)
          BY <1>1, <2>3
        <4>2. QED
          BY <1>1, <2>1, <4>1, Zenon DEF Verdict, Sure
      <3>2. QED
        BY <1>1, <2>3, <3>1
    <2>4. QED
      BY <2>2, <2>3
  <1>2. CASE s > b
    <2>1. Max({b, s}) = s /\ Min({b, s}) = b
      BY <1>2, OrderedPair
    <2>2. CASE h >= s
      BY <1>2, <2>1, <2>2 DEF Verdict
    <2>3. CASE h < s
      <3>1. Verdict(b, s, h) = [signal |-> "SELL", confidence |-> Sure(s, b)]
        <4>1. ~(h >= s) /\ ~(b > s) /\ b + s = s + b
          BY <1>2, <2>3
        <4>2. QED
          BY <1>2, <2>1, <4>1, Zenon DEF Verdict, Sure
      <3>2. QED
        BY <1>2, <2>3, <3>1
    <2>4. QED
      BY <2>2, <2>3
  <1>3. CASE b = s
    <2>1. ~(b > s) /\ ~(s > b)
      BY <1>3
    <2>2. Verdict(b, s, h).signal \in {"HOLD", "NO_TRADE"}
      BY <2>1 DEF Verdict
    <2>3. QED
      BY <2>1, <2>2
  <1>4. QED
    BY <1>1, <1>2, <1>3

\* Nothing against it, a side is the surer.
LEMMA SurerAlone ==
    ASSUME NEW x \in Nat, NEW y \in Nat, x > y
    PROVE  Sure(x, 0) >= Sure(x, y)
  <1>1. PICK q \in Int : q = ((x - y) * y) \div (2 * (x + y)) /\ q >= 0
    <2>1. PICK a : a = (x - y) * y
      OBVIOUS
    <2>2. PICK d : d = 2 * (x + y)
      OBVIOUS
    <2>3. a \in Nat
      <3>1. x - y \in Nat
        OBVIOUS
      <3>2. QED
        BY <2>1, <3>1
    <2>4. a \in Int /\ d \in Nat \ {0}
      BY <2>2, <2>3
    <2>5. PICK q \in Int : q = a \div d /\ (a >= 0 => q \in Nat)
      BY <2>4, Divides
    <2>6. q \in Nat
      BY <2>3, <2>5
    <2>7. QED
      BY <2>1, <2>2, <2>5, <2>6
  <1>2. (x * 0) \div (2 * x) = 0
    <2>1. PICK d : d = 2 * x
      OBVIOUS
    <2>2. d \in Nat \ {0} /\ x * 0 = 0
      BY <2>1
    <2>3. 0 \div d = 0
      <3>1. d * 0 <= 0 /\ 0 < d * 0 + d /\ 0 \in Int
        BY <2>2
      <3>2. QED
        BY <2>2, <3>1, QuotientIs
    <2>4. QED
      BY <2>1, <2>2, <2>3, Zenon
  <1>3. Sure(x, 0) = Min({10000, x})
    <2>1. x - 0 = x /\ 2 * (x + 0) = 2 * x
      OBVIOUS
    <2>2. QED
      BY <1>2, <2>1 DEF Sure, Doubted
  <1>4. PICK z \in Int : z = (x - y) - q
    OBVIOUS
  <1>5. Sure(x, y) = Min({10000, z})
    BY <1>1, <1>4 DEF Sure, Doubted
  <1>6. z <= x
    BY <1>1, <1>4
  <1>7. PICK top \in Int : top = 10000
    OBVIOUS
  <1>8. PICK m : m = Min({top, x})
    OBVIOUS
  <1>9. PICK n : n = Min({top, z})
    OBVIOUS
  <1>10. m \in Int /\ (m = top \/ m = x)
    <2>1. x \in Int
      OBVIOUS
    <2>2. QED
      BY <1>8, <2>1, MinOfTwo
  <1>11. n \in Int /\ n <= top /\ n <= z
    BY <1>9, MinOfTwo
  <1>12. n <= m
    BY <1>6, <1>10, <1>11
  <1>13. Sure(x, 0) = m /\ Sure(x, y) = n
    BY <1>3, <1>5, <1>7, <1>8, <1>9
  <1>14. QED
    BY <1>10, <1>11, <1>12, <1>13

\* What a strategy puts behind its vote is a number, and nothing when it has no share.
LEMMA WeightKnown ==
    ASSUME RegistryKept, SharesKept, shares # <<>>, NEW heard \in SUBSET DOMAIN registry,
           NEW votes \in [heard -> Votes], NEW i \in Heard(votes)
    PROVE  /\ i \in heard /\ Weight(votes, i) \in Nat
           /\ Weight(votes, i) # 0 =>
                /\ shares.allocations[i] > 0 /\ registry[i].enabled
                /\ shares.scores[i].status # "DISABLED"
  <1>1. PICK m \in Methods, ps \in [DOMAIN registry -> Performances] : SharedAs(shares, m, ps)
    BY DEF SharesKept
  <1>2. /\ SharesFit(shares.allocations, RawFor(m, ps), DOMAIN registry)
        /\ \A k \in DOMAIN registry : IsScore(registry[k], shares.scores[k])
    BY <1>1, SharesAre
  <1>3. i \in heard /\ i \in DOMAIN registry /\ shares.scores[i].status # "DISABLED"
    BY DEF Heard
  <1>4. PICK a : a = shares.allocations[i]
    OBVIOUS
  <1>5. a \in Nat
    BY <1>2, <1>3, <1>4 DEF SharesFit
  <1>6. PICK v : v = votes[i]
    OBVIOUS
  <1>7. v.confidence \in Nat /\ v.robustness \in Int
    <2>1. v \in Votes
      BY <1>3, <1>6
    <2>2. v.confidence \in 0 .. 100 /\ v.robustness \in Int
      BY <2>1, VoteAssumption, Zenon
    <2>3. \A n \in 0 .. 100 : n \in Nat
      OBVIOUS
    <2>4. QED
      BY <2>2, <2>3, Zenon
  <1>8. PICK h : h = shares.scores[i]
    OBVIOUS
  <1>9. h.overall \in Nat /\ h.robustness \in Nat /\ registry[i].enabled
    BY <1>2, <1>3, <1>8 DEF IsScore
  <1>10. PICK r : r = Max({v.robustness, h.robustness})
    OBVIOUS
  <1>11. r \in Nat
    <2>1. PICK x \in Int, y \in Int : x = v.robustness /\ y = h.robustness /\ y >= 0
      BY <1>7, <1>9
    <2>2. Max({x, y}) \in Int /\ Max({x, y}) >= y
      BY MaxOfTwo
    <2>3. QED
      BY <1>10, <2>1, <2>2
  <1>12. Weight(votes, i) = ((a * v.confidence) \div 100) * ((h.overall * r) \div 100)
    BY <1>4, <1>6, <1>8, <1>10 DEF Weight
  <1>13. PICK c \in Nat : c = (a * v.confidence) \div 100 /\ (a = 0 => c = 0)
    <2>1. PICK x \in Nat : x = a * v.confidence /\ (a = 0 => x = 0)
      BY <1>5, <1>7
    <2>2. x \div 100 \in Nat /\ (x = 0 => x \div 100 = 0)
      OBVIOUS
    <2>3. QED
      BY <2>1, <2>2
  <1>14. PICK d \in Nat : d = (h.overall * r) \div 100
    <2>1. PICK x \in Nat : x = h.overall * r
      BY <1>9, <1>11
    <2>2. x \div 100 \in Nat
      OBVIOUS
    <2>3. QED
      BY <2>1, <2>2
  <1>15. Weight(votes, i) = c * d
    BY <1>12, <1>13, <1>14
  <1>16. Weight(votes, i) \in Nat /\ (a = 0 => Weight(votes, i) = 0)
    BY <1>13, <1>15
  <1>17. QED
    BY <1>3, <1>4, <1>5, <1>9, <1>16

\* What is put behind some signals.
Behind(votes, signals) ==
    [i \in Heard(votes) |-> IF votes[i].signal \in signals THEN Weight(votes, i) ELSE 0]

LEMMA BehindKnown ==
    ASSUME RegistryKept, SharesKept, shares # <<>>, NEW heard \in SUBSET DOMAIN registry,
           NEW votes \in [heard -> Votes], NEW signals
    PROVE  /\ Summable(Behind(votes, signals), Heard(votes))
           /\ WeightOf(votes, signals) = SumFunction(Behind(votes, signals))
           /\ WeightOf(votes, signals) \in Nat
           /\ WeightOf(votes, signals) # 0 =>
                \E i \in Heard(votes) : votes[i].signal \in signals /\ Weight(votes, i) # 0
  <1> DEFINE H == Heard(votes)
             B == Behind(votes, signals)
  <1>1. H \subseteq DOMAIN registry /\ IsFiniteSet(H)
    <2>1. H \subseteq DOMAIN registry
      BY WeightKnown
    <2>2. QED
      BY <2>1, FS_Subset DEF RegistryKept
  <1>2. \A i \in H : Weight(votes, i) \in Nat
    BY WeightKnown
  <1>3. B \in [H -> Nat] /\ \A i \in H : B[i] = IF votes[i].signal \in signals THEN Weight(votes, i) ELSE 0
    BY <1>2 DEF Behind
  <1>4. WeightOf(votes, signals) = SumFunction(B)
    BY DEF WeightOf, Behind
  <1> HIDE DEF B, H
  <1>5. Summable(B, H)
    BY <1>1, <1>3 DEF Summable
  <1>6. SumFunction(B) \in Nat
    BY <1>3, <1>5, SumIsNatural
  <1>7. ASSUME ~\E i \in H : votes[i].signal \in signals /\ Weight(votes, i) # 0
        PROVE  SumFunction(B) = 0
    <2>1. \A i \in H : B[i] = 0
      BY <1>3, <1>7
    <2>2. QED
      BY <1>5, <2>1, SumZeros
  <1>8. QED
    BY <1>4, <1>5, <1>6, <1>7 DEF B, H
\* The votes but those for a signal.
Without(votes, other) == [i \in {k \in DOMAIN votes : votes[k].signal # other} |-> votes[i]]

Opposed(side, other) == {side, other} = {"BUY", "SELL"}

\* Without the votes against it, a trade is decided on the same weight and none against.
LEMMA SureWithoutOpposition ==
    ASSUME RegistryKept, SharesKept, shares # <<>>, NEW heard \in SUBSET DOMAIN registry,
           NEW votes \in [heard -> Votes], NEW side, NEW other, Opposed(side, other)
    PROVE  /\ WeightOf(Without(votes, other), {side}) = WeightOf(votes, {side})
           /\ WeightOf(Without(votes, other), {other}) = 0
           /\ WeightOf(Without(votes, other), {"HOLD", "NO_TRADE"})
                = WeightOf(votes, {"HOLD", "NO_TRADE"})
  <1> DEFINE agreed == {i \in DOMAIN votes : votes[i].signal # other}
             fewer  == Without(votes, other)
  <1>1. DOMAIN votes = heard /\ agreed \subseteq heard /\ agreed \in SUBSET DOMAIN registry
    OBVIOUS
  <1>2. fewer \in [agreed -> Votes]
    BY <1>1 DEF Without
  <1>3. Heard(fewer) = Heard(votes) \cap agreed
    BY <1>1, <1>2 DEF Heard
  <1>4. \A i \in agreed : fewer[i] = votes[i]
    BY DEF Without
  <1> HIDE DEF fewer
  <1>5. \A i \in agreed : Weight(fewer, i) = Weight(votes, i)
    BY <1>4 DEF Weight
  <1>6. \A i \in Heard(votes) : votes[i].signal # other <=> i \in agreed
    BY <1>1 DEF Heard
  <1>7. ASSUME NEW signals, other \notin signals
        PROVE  WeightOf(fewer, signals) = WeightOf(votes, signals)
    <2> DEFINE f == Behind(votes, signals)
               g == Behind(fewer, signals)
    <2>1. Summable(f, Heard(votes)) /\ WeightOf(votes, signals) = SumFunction(f)
      BY BehindKnown
    <2>2. Summable(g, Heard(fewer)) /\ WeightOf(fewer, signals) = SumFunction(g)
      BY <1>1, <1>2, BehindKnown
    <2>3. PartOf(g, Heard(fewer), f, Heard(votes))
      <3>1. \A i \in Heard(fewer) : f[i] = g[i]
        BY <1>3, <1>4, <1>5 DEF Behind
      <3>2. \A i \in Heard(votes) \ Heard(fewer) : f[i] = 0
        BY <1>3, <1>6, <1>7 DEF Behind
      <3>3. QED
        BY <1>3, <3>1, <3>2 DEF PartOf
    <2>4. SumFunction(f) = SumFunction(g)
      <3> HIDE DEF f, g
      <3>1. QED
        BY <2>1, <2>2, <2>3, SumOfPart
    <2>5. QED
      BY <2>1, <2>2, <2>4
  <1>8. WeightOf(fewer, {other}) = 0
    <2>1. WeightOf(fewer, {other}) # 0 =>
             \E i \in Heard(fewer) : fewer[i].signal \in {other} /\ Weight(fewer, i) # 0
      BY <1>1, <1>2, BehindKnown
    <2>2. \A i \in Heard(fewer) : fewer[i].signal # other
      BY <1>1, <1>3, <1>4
    <2>3. QED
      BY <2>1, <2>2
  <1>9. other \notin {side} /\ other \notin {"HOLD", "NO_TRADE"}
    <2>1. other = "BUY" \/ other = "SELL"
      BY DEF Opposed
    <2>2. side # other
      <3>1. SUFFICES ASSUME side = other PROVE FALSE
        OBVIOUS
      <3>2. "BUY" \in {side} /\ "SELL" \in {side}
        BY <3>1 DEF Opposed
      <3>3. QED
        BY <3>2
    <2>3. QED
      BY <2>1, <2>2
  <1>10. QED
    BY <1>7, <1>8, <1>9 DEF fewer

LEMMA DecisionsEarned == RegistryKept /\ SharesKept /\ DecisionKept => DecisionsAreEarned
  <1>1. SUFFICES ASSUME RegistryKept, SharesKept, DecisionKept, decision # <<>>,
                        decision.outcome.signal \in {"BUY", "SELL"}
                 PROVE  DecisionsAreEarned
    BY DEF DecisionsAreEarned
  <1>2. shares # <<>>
    BY <1>1 DEF DecisionKept
  <1>3. PICK heard \in SUBSET DOMAIN registry : \E votes \in [heard -> Votes] :
           decision = [votes |-> votes, outcome |-> Aggregate(votes)]
    BY <1>1 DEF DecisionKept
  <1>103. PICK votes \in [heard -> Votes] :
            decision = [votes |-> votes, outcome |-> Aggregate(votes)]
    BY <1>3
  <1>4. decision.votes = votes /\ decision.outcome = Aggregate(votes)
    BY <1>103
  <1>5. PICK side : side = Aggregate(votes).signal
    OBVIOUS
  <1>6. side \in {"BUY", "SELL"}
    BY <1>1, <1>4, <1>5
  <1>7. PICK other \in {"BUY", "SELL"} : {side, other} = {"BUY", "SELL"}
    BY <1>6
  <1> DEFINE agreed == {i \in DOMAIN votes : votes[i].signal # other}
             fewer  == Without(votes, other)
             neither == {"HOLD", "NO_TRADE"}
  <1>8. \A v \in Votes : v.signal \in {"BUY", "SELL", "HOLD", "NO_TRADE"}
    BY VoteAssumption
  <1>9. PICK x, y, z : /\ x = WeightOf(votes, {side}) /\ y = WeightOf(votes, {other})
                       /\ z = WeightOf(votes, neither)
    OBVIOUS
  <1>10. x \in Nat /\ y \in Nat /\ z \in Nat
    BY <1>1, <1>2, <1>9, BehindKnown
  <1>11. votes # <<>>
    BY <1>1, <1>4 DEF Aggregate
  <1>12. x > y /\ z < x /\ Aggregate(votes).confidence = Sure(x, y)
    <2>1. CASE side = "BUY"
      <3>1. other = "SELL"
        BY <1>7, <2>1
      <3>2. Aggregate(votes) = Verdict(x, y, z)
        BY <1>9, <1>11, <2>1, <3>1, AggregateIs
      <3>3. Verdict(x, y, z).signal = "BUY"
        BY <1>5, <2>1, <3>2
      <3>4. QED
        <4>1. x > y /\ z < x /\ Verdict(x, y, z).confidence = Sure(x, y)
          BY <1>10, <3>3, VerdictTrades
        <4>2. QED
          BY <3>2, <4>1
    <2>2. CASE side = "SELL"
      <3>1. other = "BUY"
        BY <1>7, <2>2
      <3>2. Aggregate(votes) = Verdict(y, x, z)
        BY <1>9, <1>11, <2>2, <3>1, AggregateIs
      <3>3. Verdict(y, x, z).signal = "SELL"
        BY <1>5, <2>2, <3>2
      <3>4. QED
        <4>1. x > y /\ z < x /\ Verdict(y, x, z).confidence = Sure(x, y)
          BY <1>10, <3>3, VerdictTrades
        <4>2. QED
          BY <3>2, <4>1
    <2>3. QED
      BY <1>6, <2>1, <2>2
  <1>13. PICK i \in Heard(votes) : votes[i].signal \in {side} /\ Weight(votes, i) # 0
    <2>1. WeightOf(votes, {side}) # 0
      BY <1>9, <1>10, <1>12
    <2>2. QED
      BY <1>1, <1>2, <2>1, BehindKnown
  <1>14. /\ i \in DOMAIN votes /\ votes[i].signal = side
         /\ shares.allocations[i] > 0 /\ registry[i].enabled
         /\ shares.scores[i].status # "DISABLED"
    BY <1>1, <1>2, <1>13, WeightKnown
  <1>15. /\ WeightOf(fewer, {side}) = x /\ WeightOf(fewer, {other}) = 0
         /\ WeightOf(fewer, neither) = z
    <2>1. RegistryKept /\ SharesKept
      BY <1>1
    <2>2. /\ WeightOf(Without(votes, other), {side}) = WeightOf(votes, {side})
          /\ WeightOf(Without(votes, other), {other}) = 0
          /\ WeightOf(Without(votes, other), {"HOLD", "NO_TRADE"}) = WeightOf(votes, {"HOLD", "NO_TRADE"})
      <3>1. Opposed(side, other)
        BY <1>7 DEF Opposed
      <3>2. QED
        BY <1>2, <2>1, <3>1, SureWithoutOpposition
    <2>3. QED
      BY <1>9, <2>2
  <1>16. fewer # <<>>
    <2>1. i \in agreed
      BY <1>6, <1>7, <1>14
    <2>2. DOMAIN fewer = agreed /\ DOMAIN <<>> = {}
      BY DEF Without
    <2>3. QED
      BY <2>1, <2>2
  <1> HIDE DEF fewer, neither
  <1>17. Aggregate(fewer).confidence = Sure(x, 0)
    <2>1. 0 \in Nat /\ x > 0
      BY <1>10, <1>12
    <2>2. CASE side = "BUY"
      <3>1. other = "SELL"
        BY <1>7, <2>2
      <3>2. Aggregate(fewer) = Verdict(x, 0, z)
        BY <1>15, <1>16, <2>2, <3>1, AggregateIs DEF neither
      <3>3. QED
        BY <1>10, <1>12, <2>1, <3>2, VerdictTrades
    <2>3. CASE side = "SELL"
      <3>1. other = "BUY"
        BY <1>7, <2>3
      <3>2. Aggregate(fewer) = Verdict(0, x, z)
        BY <1>15, <1>16, <2>3, <3>1, AggregateIs DEF neither
      <3>3. QED
        BY <1>10, <1>12, <2>1, <3>2, VerdictTrades
    <2>4. QED
      BY <1>6, <2>2, <2>3
  <1>18. Sure(x, 0) >= Sure(x, y)
    BY <1>10, <1>12, SurerAlone
  <1>19. agreed = {k \in DOMAIN votes : votes[k].signal \notin {"BUY", "SELL"} \ {side}}
    <2>1. {"BUY", "SELL"} \ {side} = {other}
      BY <1>6, <1>7
    <2>2. QED
      BY <2>1
  <1>20. Aggregate([k \in {k \in DOMAIN votes : votes[k].signal \notin {"BUY", "SELL"} \ {side}}
                      |-> votes[k]]).confidence >= Aggregate(votes).confidence
    BY <1>12, <1>17, <1>18, <1>19 DEF fewer, Without
  <1>21. QED
    BY <1>4, <1>5, <1>14, <1>20 DEF DecisionsAreEarned

(***************************************************************************)
(* Two strategies compared.                                                *)
(***************************************************************************)
LEMMA DeviationKnown ==
    ASSUME NEW n \in Nat, NEW x, \A i \in 1 .. n : x[i] \in Int
    PROVE  \E s \in Int : \A i \in 1 .. n : Deviation(x, n, i) = n * x[i] - s
  <1> DEFINE f == [j \in 1 .. n |-> x[j]]
  <1>1. Summable(f, 1 .. n)
    BY FS_Interval DEF Summable
  <1>2. PICK s \in Int : s = SumFunction(f)
    BY <1>1, SumType
  <1>3. \A i \in 1 .. n : Deviation(x, n, i) = n * x[i] - s
    BY <1>2 DEF Deviation
  <1>4. QED
    BY <1>3

LEMMA CovarianceKnown ==
    ASSUME NEW n \in Nat, NEW x, \A i \in 1 .. n : x[i] \in Int, NEW y, \A i \in 1 .. n : y[i] \in Int
    PROVE  /\ Covariance(x, y, n) \in Int
           /\ Covariance(y, x, n) = Covariance(x, y, n)
  <1> DEFINE f == [i \in 1 .. n |-> Deviation(x, n, i) * Deviation(y, n, i)]
             g == [i \in 1 .. n |-> Deviation(y, n, i) * Deviation(x, n, i)]
  <1>1. \A i \in 1 .. n : Deviation(x, n, i) \in Int /\ Deviation(y, n, i) \in Int
    <2>1. PICK s \in Int : \A i \in 1 .. n : Deviation(x, n, i) = n * x[i] - s
      BY DeviationKnown
    <2>2. PICK t \in Int : \A i \in 1 .. n : Deviation(y, n, i) = n * y[i] - t
      BY DeviationKnown
    <2>3. QED
      BY <2>1, <2>2
  <1>2. \A a, b \in Int : a * b \in Int /\ a * b = b * a
    OBVIOUS
  <1>3. f \in [1 .. n -> Int] /\ f = g
    BY <1>1, <1>2
  <1>4. Covariance(x, y, n) = SumFunction(f) /\ Covariance(y, x, n) = SumFunction(g)
    BY DEF Covariance
  <1> HIDE DEF f, g
  <1>5. Summable(f, 1 .. n)
    BY <1>3, FS_Interval DEF Summable
  <1>6. SumFunction(f) \in Int
    BY <1>5, SumType
  <1>7. QED
    BY <1>3, <1>4, <1>6

\* Numbers that are not all the same vary.
LEMMA VariedVaries ==
    ASSUME NEW n \in Nat, NEW x, \A i \in 1 .. n : x[i] \in Int,
           NEW a \in 1 .. n, NEW b \in 1 .. n, x[a] # x[b]
    PROVE  n >= 2 /\ Covariance(x, x, n) \in Nat \ {0}
  <1> DEFINE f == [i \in 1 .. n |-> Deviation(x, n, i) * Deviation(x, n, i)]
  <1>1. PICK s \in Int : \A i \in 1 .. n : Deviation(x, n, i) = n * x[i] - s
    BY DeviationKnown
  <1>2. \A i \in 1 .. n : Deviation(x, n, i) \in Int
    BY <1>1
  <1>3. \A d \in Int : d * d \in Nat /\ (d # 0 => d * d # 0)
    OBVIOUS
  <1>4. f \in [1 .. n -> Nat] /\ \A i \in 1 .. n : Deviation(x, n, i) # 0 => f[i] # 0
    BY <1>2, <1>3
  <1>5. Deviation(x, n, a) # 0 \/ Deviation(x, n, b) # 0
    <2>1. SUFFICES ASSUME n * x[a] - s = 0, n * x[b] - s = 0 PROVE FALSE
      BY <1>1
    <2>2. PICK u \in Int, v \in Int : u = x[a] /\ v = x[b]
      OBVIOUS
    <2>3. n * u = n * v /\ n \in Nat \ {0}
      BY <2>1, <2>2
    <2>4. n * (u - v) = 0
      BY <2>3
    <2>5. u - v = 0
      BY <2>3, <2>4
    <2>6. QED
      BY <2>2, <2>5
  <1>6. PICK i \in 1 .. n : f[i] # 0
    BY <1>4, <1>5
  <1>7. Covariance(x, x, n) = SumFunction(f)
    BY DEF Covariance
  <1> HIDE DEF f
  <1>8. Summable(f, 1 .. n)
    BY <1>4, FS_Interval DEF Summable
  <1>9. SumFunction(f) \in Nat
    BY <1>4, <1>8, SumIsNatural
  <1>10. f[i] <= SumFunction(f)
    <2>1. IsFiniteSet(1 .. n)
      BY FS_Interval
    <2>2. QED
      BY <1>4, <2>1, TermBelowSum
  <1>11. SumFunction(f) # 0
    <2>1. f[i] \in Nat
      BY <1>4
    <2>2. QED
      BY <1>6, <1>9, <1>10, <2>1
  <1>12. n >= 2
    <2>1. n # 0 /\ (n = 1 => a = b)
      OBVIOUS
    <2>2. QED
      BY <2>1
  <1>13. QED
    BY <1>7, <1>9, <1>11, <1>12

\* Both lists are as long as the shorter one.
LEMMA ShorterKnown ==
    ASSUME NEW S, NEW p, IsPair(p, S)
    PROVE  /\ Shorter(p) \in Nat /\ Shorter(p) = Shorter(<<p[2], p[1]>>)
           /\ \A i \in 1 .. Shorter(p) : p[1][i] \in S /\ p[2][i] \in S
           /\ p[1] = p[2] => Shorter(p) = Len(p[1])
  <1>1. p[1] \in Seq(S) /\ p[2] \in Seq(S)
    BY DEF IsPair
  <1>2. PICK m \in Nat, n \in Nat : m = Len(p[1]) /\ n = Len(p[2])
    BY <1>1
  <1>3. PICK k : k = Min({m, n})
    OBVIOUS
  <1>4. k \in Int /\ k <= m /\ k <= n /\ (k = m \/ k = n)
    <2>1. m \in Int /\ n \in Int
      OBVIOUS
    <2>2. QED
      BY <1>3, <2>1, MinOfTwo
  <1>5. Shorter(p) = k
    BY <1>2, <1>3 DEF Shorter
  <1>6. {n, m} = {m, n}
    OBVIOUS
  <1>7. Shorter(<<p[2], p[1]>>) = k
    BY <1>2, <1>3, <1>6 DEF Shorter
  <1>8. \A i \in 1 .. k : p[1][i] \in S /\ p[2][i] \in S
    BY <1>1, <1>2, <1>4
  <1>9. QED
    BY <1>2, <1>4, <1>5, <1>7, <1>8

LEMMA CorrelatedSwaps ==
    ASSUME NEW p, IsPair(p, Int)
    PROVE  Correlated(p) <=> Correlated(<<p[2], p[1]>>)
  <1>1. PICK n \in Nat : /\ n = Shorter(p) /\ n = Shorter(<<p[2], p[1]>>)
                         /\ \A i \in 1 .. n : p[1][i] \in Int /\ p[2][i] \in Int
    BY ShorterKnown
  <1>2. PICK x, y : x = p[1] /\ y = p[2]
    OBVIOUS
  <1>3. (\A i \in 1 .. n : x[i] \in Int) /\ (\A i \in 1 .. n : y[i] \in Int)
    BY <1>1, <1>2
  <1>4. PICK c \in Int : c = Covariance(x, y, n) /\ c = Covariance(y, x, n)
    BY <1>3, CovarianceKnown
  <1>5. PICK u \in Int : u = Covariance(x, x, n)
    BY <1>3, CovarianceKnown
  <1>6. PICK v \in Int : v = Covariance(y, y, n)
    BY <1>3, CovarianceKnown
  <1>7. 16 * u * v = 16 * v * u
    OBVIOUS
  <1>8. Correlated(p) <=> n >= 2 /\ c > 0 /\ 25 * c * c >= 16 * u * v
    BY <1>1, <1>2, <1>4, <1>5, <1>6 DEF Correlated
  <1>9. Correlated(<<p[2], p[1]>>) <=> n >= 2 /\ c > 0 /\ 25 * c * c >= 16 * v * u
    BY <1>1, <1>2, <1>4, <1>5, <1>6 DEF Correlated
  <1>10. QED
    BY <1>7, <1>8, <1>9

LEMMA OverlappingSwaps == ASSUME NEW p PROVE Overlapping(p) <=> Overlapping(<<p[2], p[1]>>)
  <1>1. PICK a, b : a = Range(p[1]) /\ b = Range(p[2])
    OBVIOUS
  <1>2. a \cap b = b \cap a /\ a \cup b = b \cup a
    OBVIOUS
  <1>3. Overlapping(p) <=> a # {} /\ b # {} /\ 5 * Cardinality(a \cap b) >= 4 * Cardinality(a \cup b)
    BY <1>1 DEF Overlapping
  <1>4. Overlapping(<<p[2], p[1]>>)
           <=> b # {} /\ a # {} /\ 5 * Cardinality(b \cap a) >= 4 * Cardinality(b \cup a)
    BY <1>1 DEF Overlapping
  <1>5. QED
    BY <1>2, <1>3, <1>4

\* A list of more than one number has two that differ.
LEMMA DifferingPair ==
    ASSUME NEW S, NEW s \in Seq(S), Cardinality(Range(s)) > 1
    PROVE  \E i, j \in 1 .. Len(s) : s[i] # s[j]
  <1>1. SUFFICES ASSUME \A i, j \in 1 .. Len(s) : s[i] = s[j] PROVE FALSE
    OBVIOUS
  <1>2. DOMAIN s = 1 .. Len(s) /\ Len(s) \in Nat
    OBVIOUS
  <1>3. Range(s) = {s[i] : i \in 1 .. Len(s)}
    BY <1>2 DEF Range
  <1>4. CASE Len(s) = 0
    <2>1. Range(s) = {}
      BY <1>3, <1>4
    <2>2. QED
      BY <2>1, FS_EmptySet
  <1>5. CASE Len(s) # 0
    <2>1. 1 \in 1 .. Len(s)
      BY <1>2, <1>5
    <2>2. PICK c : c = s[1]
      OBVIOUS
    <2>3. Range(s) = {c}
      BY <1>1, <1>3, <2>1, <2>2
    <2>4. Cardinality({c}) = 1
      BY FS_Singleton
    <2>5. QED
      BY <2>3, <2>4
  <1>6. QED
    BY <1>4, <1>5

LEMMA EarningTwins ==
    ASSUME NEW p, IsPair(p, Int), p[1] = p[2], Cardinality(Range(p[1])) > 1
    PROVE  Correlated(p)
  <1>1. p[1] \in Seq(Int)
    BY DEF IsPair
  <1>2. PICK x : x = p[1] /\ x = p[2]
    OBVIOUS
  <1>102. PICK n \in Nat : n = Shorter(p) /\ n = Len(x) /\ \A i \in 1 .. n : x[i] \in Int
    BY <1>2, ShorterKnown
  <1>3. PICK a \in 1 .. n, b \in 1 .. n : x[a] # x[b]
    BY <1>1, <1>2, <1>102, DifferingPair
  <1>4. PICK v \in Nat : v # 0 /\ n >= 2 /\ v = Covariance(x, x, n)
    BY <1>102, <1>3, VariedVaries
  <1>5. 25 * v * v >= 16 * v * v
    <2>1. v * v \in Nat
      OBVIOUS
    <2>2. 25 * v * v = 25 * (v * v) /\ 16 * v * v = 16 * (v * v)
      OBVIOUS
    <2>3. QED
      BY <2>1, <2>2
  <1>6. QED
    BY <1>2, <1>102, <1>4, <1>5 DEF Correlated

LEMMA TimingTwins ==
    ASSUME NEW S, NEW p, IsPair(p, S), p[1] = p[2], p[1] # <<>>
    PROVE  Overlapping(p)
  <1>1. PICK s \in Seq(S) : s = p[1] /\ s = p[2] /\ s # <<>>
    BY DEF IsPair
  <1>2. PICK R : R = Range(s)
    OBVIOUS
  <1>3. IsFiniteSet(R)
    BY <1>1, <1>2, FiniteRange
  <1>4. Cardinality(R) \in Nat
    BY <1>3, FS_CardinalityType
  <1>5. R # {}
    <2>1. 1 \in DOMAIN s
      BY <1>1
    <2>2. QED
      BY <1>2, <2>1 DEF Range
  <1>6. R \cap R = R /\ R \cup R = R
    OBVIOUS
  <1>7. 5 * Cardinality(R) >= 4 * Cardinality(R)
    BY <1>4
  <1>8. QED
    BY <1>1, <1>2, <1>5, <1>6, <1>7 DEF Overlapping

LEMMA TwinsWarned == SimilarityKept => TwinsAreWarned
  <1>1. SUFFICES ASSUME SimilarityKept, similarity # <<>> PROVE TwinsAreWarned
    BY DEF TwinsAreWarned
  <1>2. PICK h \in Histories : similarity = [of |-> h, warned |-> Similar(h)]
    BY <1>1 DEF SimilarityKept
  <1>3. similarity.of = h /\ similarity.warned = Similar(h)
    BY <1>2
  <1>4. IsHistory(h)
    BY HistoryAssumption
  <1>5. PICK T : IsPair(h.times, T)
    BY <1>4 DEF IsHistory
  <1>6. IsPair(h.pnl, Int) /\ IsPair(h.signals, DOMAIN SignalValue)
    BY <1>4 DEF IsHistory
  <1> DEFINE turned == [f \in DOMAIN h |-> <<h[f][2], h[f][1]>>]
             said(k) == Values(h.signals[k])
  <1>7. /\ turned.pnl = <<h.pnl[2], h.pnl[1]>> /\ turned.times = <<h.times[2], h.times[1]>>
        /\ turned.signals = <<h.signals[2], h.signals[1]>>
    BY <1>4 DEF IsHistory
  <1>8. IsPair(<<said(1), said(2)>>, Int)
    <2>1. ASSUME NEW s \in Seq(DOMAIN SignalValue) PROVE Values(s) \in Seq(Int)
      <3>1. DOMAIN SignalValue = {"BUY", "SELL", "HOLD", "NO_TRADE"}
        BY DEF SignalValue
      <3>2. \A v \in DOMAIN SignalValue : SignalValue[v] \in Int
        BY <3>1 DEF SignalValue
      <3>3. DOMAIN s = 1 .. Len(s) /\ Len(s) \in Nat /\ \A i \in 1 .. Len(s) : s[i] \in DOMAIN SignalValue
        OBVIOUS
      <3>4. Values(s) \in [1 .. Len(s) -> Int]
        BY <3>2, <3>3 DEF Values
      <3>5. QED
        BY <3>3, <3>4
    <2>2. h.signals[1] \in Seq(DOMAIN SignalValue) /\ h.signals[2] \in Seq(DOMAIN SignalValue)
      BY <1>6 DEF IsPair
    <2>3. said(1) \in Seq(Int) /\ said(2) \in Seq(Int)
      BY <2>1, <2>2
    <2> HIDE DEF said
    <2>4. QED
      BY <2>3 DEF IsPair
  <1>9. Similar(h) <=> Correlated(h.pnl) \/ Overlapping(h.times) \/ Correlated(<<said(1), said(2)>>)
    BY DEF Similar
  <1>10. Similar(turned) <=> \/ Correlated(<<h.pnl[2], h.pnl[1]>>)
                             \/ Overlapping(<<h.times[2], h.times[1]>>)
                             \/ Correlated(<<said(2), said(1)>>)
    <2>1. turned.signals[1] = h.signals[2] /\ turned.signals[2] = h.signals[1]
      BY <1>7
    <2> HIDE DEF turned
    <2>2. QED
      BY <1>7, <2>1 DEF Similar
  <1>11. Similar(h) <=> Similar(turned)
    <2>1. Correlated(h.pnl) <=> Correlated(<<h.pnl[2], h.pnl[1]>>)
      BY <1>6, CorrelatedSwaps
    <2>2. Overlapping(h.times) <=> Overlapping(<<h.times[2], h.times[1]>>)
      BY OverlappingSwaps
    <2>3. Correlated(<<said(1), said(2)>>) <=> Correlated(<<said(2), said(1)>>)
      <3>1. PICK p : p = <<said(1), said(2)>>
        OBVIOUS
      <3>2. p[1] = said(1) /\ p[2] = said(2)
        BY <3>1
      <3>3. Correlated(p) <=> Correlated(<<p[2], p[1]>>)
        BY <1>8, <3>1, CorrelatedSwaps
      <3>4. QED
        BY <3>1, <3>2, <3>3
    <2> HIDE DEF turned, said
    <2>4. QED
      BY <1>9, <1>10, <2>1, <2>2, <2>3
  <1>12. Similar(h) = Similar(turned)
    BY <1>11 DEF Similar
  <1>13. ASSUME \/ h.pnl[1] = h.pnl[2] /\ Cardinality(Range(h.pnl[1])) > 1
                \/ h.times[1] = h.times[2] /\ Cardinality(Range(h.times[1])) > 1
                \/ h.times[1] = h.times[2] /\ h.times[1] # <<>>
         PROVE  Similar(h)
    <2>1. CASE h.pnl[1] = h.pnl[2] /\ Cardinality(Range(h.pnl[1])) > 1
      <3>1. Correlated(h.pnl)
        BY <1>6, <2>1, EarningTwins
      <3>2. QED
        BY <1>9, <3>1
    <2>2. ASSUME h.times[1] = h.times[2], h.times[1] # <<>> PROVE Similar(h)
      <3>1. Overlapping(h.times)
        BY <1>5, <2>2, TimingTwins
      <3>2. QED
        BY <1>9, <3>1
    <2>3. CASE h.times[1] = h.times[2] /\ Cardinality(Range(h.times[1])) > 1
      <3>1. h.times[1] # <<>>
        <4>1. SUFFICES ASSUME h.times[1] = <<>> PROVE FALSE
          OBVIOUS
        <4>2. Range(h.times[1]) = {}
          BY <4>1 DEF Range
        <4>3. QED
          BY <2>3, <4>2, FS_EmptySet
      <3>2. QED
        BY <2>2, <2>3, <3>1
    <2>4. QED
      BY <1>13, <2>1, <2>2, <2>3
  <1>14. QED
    BY <1>3, <1>12, <1>13 DEF TwinsAreWarned

(***************************************************************************)
(* Portfolios, measures and strategies, step by step.                      *)
(***************************************************************************)
CapitalInv ==
    /\ PortfolioKept /\ TailKept
    /\ RegistryKept /\ SharesKept /\ DecisionKept /\ SimilarityKept

LEMMA CapitalInvInit == Init => CapitalInv
  <1>1. SUFFICES ASSUME Init PROVE CapitalInv
    OBVIOUS
  <1>2. portfolio = <<>> /\ tail = <<>>
    BY <1>1 DEF Init, PortfolioInit
  <1>3. registry = <<>> /\ shares = <<>> /\ decision = <<>> /\ similarity = <<>>
    BY <1>1 DEF Init, StrategyInit
  <1>4. RegistryKept
    <2>1. DOMAIN registry = {}
      BY <1>3
    <2>2. QED
      BY <2>1, FS_EmptySet DEF RegistryKept
  <1>5. QED
    BY <1>2, <1>3, <1>4 DEF CapitalInv, PortfolioKept, TailKept, SharesKept, DecisionKept, SimilarityKept

LEMMA ProposeKeeps == Propose => PortfolioKept' /\ (TailKept => TailKept')
  BY DEF Propose, PortfolioKept, TailKept

LEMMA MeasureKeeps == Measure => TailKept' /\ (PortfolioKept => PortfolioKept')
  BY DEF Measure, PortfolioKept, TailKept

\* What the strategies have led to so far.
StrategiesKept == RegistryKept /\ SharesKept /\ DecisionKept /\ SimilarityKept

LEMMA RegisterKeeps == StrategiesKept /\ RegisterStrategy => StrategiesKept'
  <1>1. SUFFICES ASSUME StrategiesKept, RegisterStrategy PROVE StrategiesKept'
    OBVIOUS
  <1>2. shares = <<>> /\ shares' = <<>> /\ decision' = decision /\ similarity' = similarity
    BY <1>1 DEF RegisterStrategy
  <1>3. PICK s \in Strategies :
            registry' = [i \in DOMAIN registry \cup {s.id} |-> IF i = s.id THEN s ELSE registry[i]]
    BY <1>1 DEF RegisterStrategy
  <1>4. DOMAIN registry' = DOMAIN registry \cup {s.id}
    BY <1>3
  <1>5. IsFiniteSet(DOMAIN registry')
    BY <1>1, <1>4, FS_AddElement DEF StrategiesKept, RegistryKept
  <1>6. ASSUME NEW i \in DOMAIN registry' PROVE registry'[i] \in Strategies
    BY <1>1, <1>3, <1>4, <1>6 DEF StrategiesKept, RegistryKept
  <1>7. RegistryKept'
    BY <1>5, <1>6 DEF RegistryKept
  <1>8. SharesKept'
    BY <1>2 DEF SharesKept
  <1>9. decision = <<>>
    BY <1>1, <1>2 DEF StrategiesKept, DecisionKept
  <1>10. DecisionKept'
    BY <1>2, <1>9 DEF DecisionKept
  <1>11. SimilarityKept'
    BY <1>1, <1>2 DEF StrategiesKept, SimilarityKept
  <1>12. QED
    BY <1>7, <1>8, <1>10, <1>11 DEF StrategiesKept

LEMMA AllocateKeeps == StrategiesKept /\ AllocateCapital => StrategiesKept'
  <1>1. SUFFICES ASSUME StrategiesKept, AllocateCapital PROVE StrategiesKept'
    OBVIOUS
  <1>2. shares = <<>> /\ registry' = registry /\ decision' = decision /\ similarity' = similarity
    BY <1>1 DEF AllocateCapital
  <1>3. PICK m \in Methods, ps \in [DOMAIN registry -> Performances] :
            shares' = [scores |-> ScoresFor(ps), of |-> ps,
                       allocations |-> NormalizeWithCaps(RawFor(m, ps))]
    <2>1. PICK m \in Methods, ps \in [DOMAIN registry -> Performances] :
            LET scores == [i \in DOMAIN registry |-> Health(registry[i], ps[i])]
            IN shares' = [scores |-> scores, of |-> ps,
                          allocations |->
                            NormalizeWithCaps([i \in DOMAIN registry |->
                                                 RawShare(m, scores[i], ps[i])])]
      BY <1>1 DEF AllocateCapital
    <2>2. QED
      BY <2>1 DEF ScoresFor, RawFor
  <1>4. ScoresFor(ps)' = ScoresFor(ps) /\ RawFor(m, ps)' = RawFor(m, ps)
    BY <1>2 DEF ScoresFor, RawFor
  <1>5. SharesKept'
    BY <1>2, <1>3, <1>4 DEF SharesKept, SharedAs
  <1>6. decision = <<>>
    BY <1>1, <1>2 DEF StrategiesKept, DecisionKept
  <1>7. RegistryKept' /\ DecisionKept' /\ SimilarityKept'
    BY <1>1, <1>2, <1>6 DEF StrategiesKept, RegistryKept, DecisionKept, SimilarityKept
  <1>8. QED
    BY <1>5, <1>7 DEF StrategiesKept

LEMMA SharesStay ==
    ASSUME SharesKept, UNCHANGED <<registry, shares>>
    PROVE  SharesKept'
  <1>1. SUFFICES ASSUME shares # <<>>
                 PROVE  \E m \in Methods : \E ps \in [DOMAIN registry -> Performances] :
                           SharedAs(shares, m, ps)'
    BY DEF SharesKept
  <1>2. PICK m \in Methods, ps \in [DOMAIN registry -> Performances] : SharedAs(shares, m, ps)
    BY <1>1 DEF SharesKept
  <1>3. ScoresFor(ps)' = ScoresFor(ps) /\ RawFor(m, ps)' = RawFor(m, ps)
    BY DEF ScoresFor, RawFor
  <1>4. SharedAs(shares, m, ps)'
    BY <1>2, <1>3 DEF SharedAs
  <1>5. QED
    BY <1>4

LEMMA VerdictStays ==
    ASSUME NEW votes, UNCHANGED shares
    PROVE  Aggregate(votes)' = Aggregate(votes)
  <1>1. Heard(votes)' = Heard(votes)
    BY DEF Heard
  <1>2. ASSUME NEW i PROVE Weight(votes, i)' = Weight(votes, i)
    BY DEF Weight
  <1>3. ASSUME NEW signals PROVE WeightOf(votes, signals)' = WeightOf(votes, signals)
    BY <1>1, <1>2 DEF WeightOf
  <1>4. PICK b, s, h : /\ b = WeightOf(votes, {"BUY"}) /\ s = WeightOf(votes, {"SELL"})
                      /\ h = WeightOf(votes, {"HOLD", "NO_TRADE"})
    OBVIOUS
  <1>5. CASE votes = <<>>
    BY <1>5 DEF Aggregate
  <1>6. CASE votes # <<>>
    <2>1. Aggregate(votes) = Verdict(b, s, h)
      BY <1>4, <1>6, AggregateIs
    <2>2. /\ b = WeightOf(votes, {"BUY"})' /\ s = WeightOf(votes, {"SELL"})'
          /\ h = WeightOf(votes, {"HOLD", "NO_TRADE"})'
      BY <1>3, <1>4
    <2>3. Aggregate(votes)' = Verdict(b, s, h)
      BY <1>6, <2>2 DEF Aggregate, Verdict, Doubted
    <2>4. QED
      BY <2>1, <2>3
  <1>7. QED
    BY <1>5, <1>6

LEMMA DecisionStays ==
    ASSUME DecisionKept, UNCHANGED <<registry, shares, decision>>
    PROVE  DecisionKept'
  <1>1. SUFFICES ASSUME decision # <<>>
                 PROVE  /\ shares # <<>>
                        /\ \E heard \in SUBSET DOMAIN registry : \E votes \in [heard -> Votes] :
                              decision = [votes |-> votes, outcome |-> Aggregate(votes)']
    BY DEF DecisionKept
  <1>2. shares # <<>>
    BY <1>1 DEF DecisionKept
  <1>3. PICK heard \in SUBSET DOMAIN registry : \E votes \in [heard -> Votes] :
            decision = [votes |-> votes, outcome |-> Aggregate(votes)]
    BY <1>1 DEF DecisionKept
  <1>4. PICK votes \in [heard -> Votes] : decision = [votes |-> votes, outcome |-> Aggregate(votes)]
    BY <1>3
  <1>5. decision = [votes |-> votes, outcome |-> Aggregate(votes)']
    BY <1>4, VerdictStays
  <1>6. QED
    BY <1>2, <1>5

LEMMA DecideKeeps == StrategiesKept /\ Decide => StrategiesKept'
  <1>1. SUFFICES ASSUME StrategiesKept, Decide PROVE StrategiesKept'
    OBVIOUS
  <1>2. shares # <<>> /\ UNCHANGED <<registry, shares, similarity>>
    BY <1>1 DEF Decide
  <1>3. PICK heard \in SUBSET DOMAIN registry : \E votes \in [heard -> Votes] :
            decision' = [votes |-> votes, outcome |-> Aggregate(votes)]
    BY <1>1 DEF Decide
  <1>4. PICK votes \in [heard -> Votes] : decision' = [votes |-> votes, outcome |-> Aggregate(votes)]
    BY <1>3
  <1>5. decision' = [votes |-> votes, outcome |-> Aggregate(votes)']
    BY <1>2, <1>4, VerdictStays
  <1>6. DecisionKept'
    BY <1>2, <1>5 DEF DecisionKept
  <1>7. SharesKept'
    BY <1>1, <1>2, SharesStay DEF StrategiesKept
  <1>8. RegistryKept' /\ SimilarityKept'
    BY <1>1, <1>2 DEF StrategiesKept, RegistryKept, SimilarityKept
  <1>9. QED
    BY <1>6, <1>7, <1>8 DEF StrategiesKept

LEMMA CompareKeeps == StrategiesKept /\ Compare => StrategiesKept'
  <1>1. SUFFICES ASSUME StrategiesKept, Compare PROVE StrategiesKept'
    OBVIOUS
  <1>2. UNCHANGED <<registry, shares, decision>>
    BY <1>1 DEF Compare
  <1>3. SimilarityKept'
    BY <1>1 DEF Compare, SimilarityKept
  <1>4. SharesKept' /\ DecisionKept' /\ RegistryKept'
    BY <1>1, <1>2, SharesStay, DecisionStays DEF StrategiesKept, RegistryKept
  <1>5. QED
    BY <1>3, <1>4 DEF StrategiesKept

LEMMA StrategiesStay == StrategiesKept /\ UNCHANGED strategyVars => StrategiesKept'
  <1>1. SUFFICES ASSUME StrategiesKept, UNCHANGED strategyVars PROVE StrategiesKept'
    OBVIOUS
  <1>2. UNCHANGED <<registry, shares, decision>> /\ similarity' = similarity
    BY <1>1 DEF strategyVars
  <1>3. SharesKept' /\ DecisionKept' /\ RegistryKept' /\ SimilarityKept'
    BY <1>1, <1>2, SharesStay, DecisionStays DEF StrategiesKept, RegistryKept, SimilarityKept
  <1>4. QED
    BY <1>3 DEF StrategiesKept

LEMMA CapitalInvNext == CapitalInv /\ [Next]_vars => CapitalInv'
  <1> SUFFICES ASSUME CapitalInv, [Next]_vars PROVE CapitalInv'
    OBVIOUS
  <1>1. PortfolioKept /\ TailKept /\ StrategiesKept
    BY DEF CapitalInv, StrategiesKept
  <1>2. ASSUME UNCHANGED portfolioVars PROVE PortfolioKept' /\ TailKept'
    BY <1>1, <1>2 DEF portfolioVars, PortfolioKept, TailKept
  <1>3. ASSUME UNCHANGED strategyVars PROVE StrategiesKept'
    BY <1>1, <1>3, StrategiesStay
  <1>4. ASSUME PortfolioKept', TailKept', StrategiesKept' PROVE CapitalInv'
    BY <1>4 DEF CapitalInv, StrategiesKept
  <1>5. ASSUME UNCHANGED <<portfolioVars, strategyVars>> PROVE CapitalInv'
    BY <1>2, <1>3, <1>4, <1>5
  <1>6. CASE OrderStep
    BY <1>5, <1>6 DEF OrderStep, judgementDesks
  <1>7. CASE FillStep
    BY <1>5, <1>7 DEF FillStep, judgementDesks
  <1>8. CASE PortfolioStep
    <2>1. StrategiesKept'
      BY <1>3, <1>8 DEF PortfolioStep, judgementDesks
    <2>2. PortfolioKept' /\ TailKept'
      BY <1>1, <1>8, ProposeKeeps, MeasureKeeps DEF PortfolioStep
    <2>3. QED
      BY <1>4, <2>1, <2>2
  <1>9. CASE ValidationStep
    BY <1>5, <1>9 DEF ValidationStep, executionDesks
  <1>10. CASE StrategyStep
    <2>1. PortfolioKept' /\ TailKept'
      BY <1>2, <1>10 DEF StrategyStep, executionDesks
    <2>2. StrategiesKept'
      BY <1>1, <1>10, RegisterKeeps, AllocateKeeps, DecideKeeps, CompareKeeps DEF StrategyStep
    <2>3. QED
      BY <1>4, <2>1, <2>2
  <1>11. CASE SignalStep
    BY <1>5, <1>11 DEF SignalStep, executionDesks
  <1>12. CASE LiveStep
    BY <1>5, <1>12 DEF LiveStep, executionDesks
  <1>13. CASE ResearchStep
    BY <1>5, <1>13 DEF ResearchStep, executionDesks, judgementDesks
  <1>14. CASE UNCHANGED vars
    BY <1>5, <1>14 DEF vars, executionDesks, judgementDesks
  <1>15. QED
    BY <1>6, <1>7, <1>8, <1>9, <1>10, <1>11, <1>12, <1>13, <1>14 DEF Next

\* A portfolio is what was constructed of what was asked for, the tail measures are those of
\* their series, the registry holds the strategies given to it, and the shares, the decision
\* and the comparison are those of the scores, the votes and the histories they came from.
THEOREM CapitalInvariantHolds == Spec => []CapitalInv
  <1>1. Init => CapitalInv
    BY CapitalInvInit
  <1>2. CapitalInv /\ [Next]_vars => CapitalInv'
    BY CapitalInvNext
  <1>3. QED
    BY <1>1, <1>2, PTL DEF Spec

\* An approved portfolio is within every limit with what is already held, no trade risks more
\* than its budget, the tail measures are ordered, no strategy's share passes its cap nor all
\* of them the capital, a decision is some healthy strategy's and no less sure without its
\* opponents, and twins are warned about either way round (PortfolioConstructionEngine.construct,
\* value_at_risk and its conditional and dynamic forms, CapitalAllocationEngine.allocate,
\* UnifiedSignalAggregator.aggregate, StrategyCorrelationAnalyzer.analyze).
THEOREM CapitalIsSound == Spec => []CapitalSound
  <1>1. CapitalInv => CapitalSound
    <2>1. ASSUME CapitalInv PROVE CapitalSound
      <3>1. ApprovedWithinLimits /\ SizedByRisk
        BY <2>1, LimitsHold, RiskSizes DEF CapitalInv
      <3>2. TailsOrdered
        BY <2>1, TailsHold DEF CapitalInv
      <3>3. AllocationsHold /\ DecisionsAreEarned /\ TwinsAreWarned
        BY <2>1, AllocationsKept, DecisionsEarned, TwinsWarned DEF CapitalInv
      <3>4. QED
        BY <3>1, <3>2, <3>3 DEF CapitalSound
    <2>2. QED
      BY <2>1
  <1>2. QED
    BY <1>1, CapitalInvariantHolds, PTL

(***************************************************************************)
(* The closed trades and what they came to.                                *)
(***************************************************************************)
LEMMA TradesKnown ==
    ASSUME NEW ts \in Seq(Closings)
    PROVE  /\ Len(ts) \in Nat /\ DOMAIN ts = 1 .. Len(ts) /\ IsFiniteSet(DOMAIN ts)
           /\ \A i \in DOMAIN ts : ts[i].pnl \in Int
  <1>1. Len(ts) \in Nat /\ DOMAIN ts = 1 .. Len(ts)
    OBVIOUS
  <1>2. IsFiniteSet(DOMAIN ts)
    BY <1>1, FS_Interval
  <1>3. ASSUME NEW i \in DOMAIN ts PROVE ts[i].pnl \in Int
    <2>1. ts[i] \in Closings
      BY <1>1, <1>3
    <2>2. QED
      BY <2>1, ValidationAssumption
  <1>4. QED
    BY <1>1, <1>2, <1>3

LEMMA MadeKnown ==
    ASSUME NEW ts \in Seq(Closings), NEW I, I \subseteq DOMAIN ts
    PROVE  Summable([i \in I |-> ts[i].pnl], I) /\ Made(ts, I) \in Int
  <1>1. IsFiniteSet(I) /\ \A i \in I : ts[i].pnl \in Int
    BY TradesKnown, FS_Subset
  <1>2. Summable([i \in I |-> ts[i].pnl], I)
    BY <1>1 DEF Summable
  <1>3. QED
    BY <1>2, SumType DEF Made

\* Two disjoint parts of the trades.
LEMMA MadeOfParts ==
    ASSUME NEW ts \in Seq(Closings), NEW I, I \subseteq DOMAIN ts, NEW J, J \subseteq I,
           NEW K, K = I \ J
    PROVE  Made(ts, I) = Made(ts, J) + Made(ts, K)
  <1> DEFINE f(M) == [i \in M |-> ts[i].pnl]
  <1>1. Summable(f(I), I) /\ Summable(f(J), J) /\ Summable(f(K), K)
    BY MadeKnown
  <1>2. SplitsInto(I, J, K)
    BY DEF SplitsInto
  <1>3. Agree(f(I), f(J), J) /\ Agree(f(I), f(K), K)
    BY DEF Agree
  <1>4. SumFunction(f(I)) = SumFunction(f(J)) + SumFunction(f(K))
    <2> HIDE DEF f
    <2>1. QED
      BY <1>1, <1>2, <1>3, SumUnion
  <1>5. QED
    BY <1>4 DEF Made

LEMMA EquityKnown ==
    ASSUME NEW ts \in Seq(Closings)
    PROVE  /\ DOMAIN Equity(ts) = 1 .. Len(ts) + 1 /\ Len(Equity(ts)) = Len(ts) + 1
           /\ \A i \in DOMAIN Equity(ts) : Equity(ts)[i] \in Int
           /\ Equity(ts)[1] = StartCapital /\ Equity(ts)[Len(ts) + 1] = StartCapital + Net(ts)
  <1>1. Len(ts) \in Nat /\ DOMAIN ts = 1 .. Len(ts)
    BY TradesKnown
  <1>2. DOMAIN Equity(ts) = 1 .. Len(ts) + 1
    BY DEF Equity
  <1>3. ASSUME NEW i \in 1 .. Len(ts) + 1
        PROVE  Equity(ts)[i] = StartCapital + Made(ts, 1 .. i - 1) /\ Made(ts, 1 .. i - 1) \in Int
    <2>1. 1 .. i - 1 \subseteq DOMAIN ts
      BY <1>1
    <2>2. Made(ts, 1 .. i - 1) \in Int
      BY <2>1, MadeKnown
    <2>3. QED
      BY <2>2 DEF Equity
  <1>4. \A i \in DOMAIN Equity(ts) : Equity(ts)[i] \in Int
    BY <1>2, <1>3, ValidationAssumption
  <1>5. Equity(ts) \in Seq(Int)
    <2>1. Len(ts) + 1 \in Nat /\ Equity(ts) \in [1 .. Len(ts) + 1 -> Int]
      BY <1>1, <1>2, <1>4 DEF Equity
    <2>2. QED
      BY <2>1
  <1>6. Len(Equity(ts)) = Len(ts) + 1
    BY <1>1, <1>2, <1>5
  <1>7. Equity(ts)[1] = StartCapital
    <2>1. 1 \in 1 .. Len(ts) + 1 /\ 1 .. 1 - 1 = {}
      BY <1>1
    <2>2. Made(ts, {}) = 0
      <3>1. DOMAIN [i \in {} |-> ts[i].pnl] = {}
        OBVIOUS
      <3>2. QED
        BY <3>1, SumEmpty DEF Made
    <2>3. Equity(ts)[1] = StartCapital + Made(ts, 1 .. 1 - 1)
      BY <1>3, <2>1
    <2>4. QED
      BY <2>1, <2>2, <2>3, ValidationAssumption
  <1>8. Equity(ts)[Len(ts) + 1] = StartCapital + Net(ts)
    <2>1. Len(ts) + 1 \in 1 .. Len(ts) + 1 /\ 1 .. (Len(ts) + 1) - 1 = DOMAIN ts
      BY <1>1
    <2>2. QED
      BY <1>3, <2>1 DEF Net
  <1>9. QED
    BY <1>2, <1>4, <1>6, <1>7, <1>8

\* A peak is no less than any equity up to it.
LEMMA PeakIs ==
    ASSUME NEW ts \in Seq(Closings), NEW j \in DOMAIN Equity(ts)
    PROVE  /\ Peaks(Equity(ts))[j] \in Int
           /\ \A i \in 1 .. j : Peaks(Equity(ts))[j] >= Equity(ts)[i]
           /\ Falls(Equity(ts))[j] = Peaks(Equity(ts))[j] - Equity(ts)[j]
  <1> DEFINE S == {Equity(ts)[k] : k \in 1 .. j}
  <1>1. Len(ts) \in Nat /\ DOMAIN Equity(ts) = 1 .. Len(ts) + 1 /\ \A i \in DOMAIN Equity(ts) : Equity(ts)[i] \in Int
    BY TradesKnown, EquityKnown
  <1>2. j \in Nat \ {0} /\ 1 .. j \subseteq DOMAIN Equity(ts)
    BY <1>1
  <1>3. S \subseteq Int /\ S # {}
    BY <1>1, <1>2
  <1>4. IsFiniteSet(S)
    <2>1. IsFiniteSet(1 .. j)
      BY <1>2, FS_Interval
    <2>2. [k \in 1 .. j |-> Equity(ts)[k]] \in Surjection(1 .. j, S)
      BY DEF Surjection
    <2>3. QED
      BY <2>1, <2>2, FS_Surjection
  <1>5. Max(S) \in S /\ \A y \in S : Max(S) >= y
    <2> HIDE DEF S
    <2>1. QED
      BY <1>3, <1>4, LargestExists
  <1>6. Peaks(Equity(ts))[j] = Max(S)
    BY DEF Peaks
  <1>7. QED
    BY <1>3, <1>5, <1>6 DEF Falls

\* A gate that is passed fails no check.
LEMMA PassedHasNoFailure ==
    ASSUME NEW ts, NEW e, GateVerdict(ts, e) = "PASS"
    PROVE  ~(Len(ts) < MinTrades) /\ ~FallBeyond(Equity(ts), 15) /\ ~(Net(ts) <= 0)
  <1>1. GateFailures(ts, e) = {}
    BY DEF GateVerdict
  <1>2. {"trades", "drawdown", "expectancy"} \cap GateFailures(ts, e) = {}
    BY <1>1
  <1>3. ~(Len(ts) < MinTrades)
    BY <1>1 DEF GateFailures
  <1>4. ~FallBeyond(Equity(ts), 15)
    BY <1>1 DEF GateFailures
  <1>5. ~(Net(ts) <= 0)
    BY <1>1 DEF GateFailures
  <1>6. QED
    BY <1>3, <1>4, <1>5

LEMMA PassedIsPassable ==
    ASSUME trades \in Seq(Closings), NEW e, GateVerdict(trades, e) = "PASS"
    PROVE  LET equity == Equity(trades)
           IN /\ equity[Len(equity)] > equity[1] /\ Len(trades) >= MinTrades
              /\ \A i, j \in DOMAIN equity : i < j => (equity[i] - equity[j]) * 100 <= 15 * equity[i]
  <1> DEFINE q == Equity(trades)
  <1>1. /\ ~(Len(trades) < MinTrades) /\ ~FallBeyond(q, 15) /\ ~(Net(trades) <= 0)
    BY PassedHasNoFailure
  <1>2. /\ Len(trades) \in Nat /\ DOMAIN q = 1 .. Len(trades) + 1 /\ Len(q) = Len(trades) + 1
        /\ \A i \in DOMAIN q : q[i] \in Int
        /\ q[1] = StartCapital /\ q[Len(trades) + 1] = StartCapital + Net(trades)
    BY TradesKnown, EquityKnown
  <1>3. Net(trades) \in Int
    BY MadeKnown DEF Net
  <1>4. q[Len(q)] > q[1] /\ Len(trades) >= MinTrades
    BY <1>1, <1>2, <1>3, ValidationAssumption
  <1>5. ASSUME NEW i \in DOMAIN q, NEW j \in DOMAIN q, i < j
        PROVE  (q[i] - q[j]) * 100 <= 15 * q[i]
    <2>1. ~(Falls(q)[j] * 100 > 15 * Peaks(q)[j])
      BY <1>1 DEF FallBeyond
    <2>2. PICK p : p = Peaks(q)[j]
      OBVIOUS
    <2>3. p \in Int /\ p >= q[i] /\ Falls(q)[j] = p - q[j]
      <3>1. i \in 1 .. j
        BY <1>2, <1>5
      <3>2. QED
        BY <2>2, <3>1, PeakIs
    <2>4. ~((p - q[j]) * 100 > 15 * p)
      BY <2>1, <2>2, <2>3
    <2>5. QED
      <3>1. q[i] \in Int /\ q[j] \in Int
        BY <1>2
      <3> HIDE DEF q
      <3>2. QED
        BY <2>3, <2>4, <3>1
  <1>6. QED
    BY <1>4, <1>5

(***************************************************************************)
(* Losses in a row.                                                        *)
(***************************************************************************)
IsLosing(g, ts, L) ==
    g = [i \in 0 .. L |-> IF i = 0 THEN 0 ELSE IF ts[i].pnl < 0 THEN g[i - 1] + 1 ELSE 0]

LEMMA LosingExists ==
    ASSUME NEW ts, NEW L \in Nat
    PROVE  \E g : IsLosing(g, ts, L)
  <1> DEFINE N == {n \in Nat : \E g : IsLosing(g, ts, n)}
  <1>1. 0 \in N
    <2>1. IsLosing([n \in 0 .. 0 |-> 0], ts, 0)
      BY DEF IsLosing
    <2>2. QED
      BY <2>1
  <1>2. ASSUME NEW n \in Nat, n \in N PROVE n + 1 \in N
    <2>1. PICK g : IsLosing(g, ts, n)
      BY <1>2
    <2>2. PICK h : h = [i \in 0 .. n + 1 |->
                          IF i = 0 THEN 0 ELSE IF ts[i].pnl < 0 THEN g[i - 1] + 1 ELSE 0]
      OBVIOUS
    <2>3. \A i \in 0 .. n : h[i] = g[i]
      BY <2>1, <2>2 DEF IsLosing
    <2>4. \A i \in 0 .. n + 1 : i # 0 => i - 1 \in 0 .. n
      OBVIOUS
    <2>5. IsLosing(h, ts, n + 1)
      BY <2>2, <2>3, <2>4 DEF IsLosing
    <2>6. QED
      BY <2>5
  <1>3. Nat \subseteq N
    <2> HIDE DEF N
    <2>1. QED
      BY <1>1, <1>2, Counting
  <1>4. QED
    BY <1>3

LEMMA LosingRunsAre ==
    ASSUME NEW ts, Len(ts) \in Nat
    PROVE  IsLosing(LosingRuns(ts), ts, Len(ts))
  <1>1. \E g : IsLosing(g, ts, Len(ts))
    BY LosingExists
  <1>2. LosingRuns(ts) = CHOOSE g : IsLosing(g, ts, Len(ts))
    BY DEF LosingRuns, IsLosing
  <1>3. QED
    BY <1>1, <1>2

\* Each count is that of the losses just before, and the trade before them is none.
LosesBack(ts, i, n) ==
    /\ n \in 0 .. i /\ \A k \in i - n + 1 .. i : ts[k].pnl < 0
    /\ n < i => ~(ts[i - n].pnl < 0)

LEMMA LosingBack ==
    ASSUME NEW ts \in Seq(Closings)
    PROVE  \A i \in 0 .. Len(ts) : LosesBack(ts, i, LosingRuns(ts)[i])
  <1> DEFINE L == Len(ts)
             g == LosingRuns(ts)
             T == {i \in 0 .. L : LosesBack(ts, i, g[i])}
  <1>1. L \in Nat /\ \A i \in 1 .. L : ts[i].pnl \in Int
    BY TradesKnown
  <1>2. g[0] = 0 /\ \A n \in 0 .. L : n < L => g[n + 1] = IF ts[n + 1].pnl < 0 THEN g[n] + 1 ELSE 0
    <2>1. IsLosing(g, ts, L)
      BY <1>1, LosingRunsAre
    <2> HIDE DEF g
    <2>2. 0 \in 0 .. L
      BY <1>1
    <2>3. g[0] = 0
      BY <2>1, <2>2 DEF IsLosing
    <2>4. ASSUME NEW n \in 0 .. L, n < L PROVE g[n + 1] = IF ts[n + 1].pnl < 0 THEN g[n] + 1 ELSE 0
      <3>1. n + 1 \in 0 .. L /\ n + 1 # 0 /\ (n + 1) - 1 = n
        BY <1>1, <2>4
      <3>2. g[n + 1] = IF n + 1 = 0 THEN 0 ELSE IF ts[n + 1].pnl < 0 THEN g[(n + 1) - 1] + 1 ELSE 0
        BY <2>1, <3>1 DEF IsLosing
      <3>3. QED
        BY <3>1, <3>2
    <2>5. QED
      BY <2>3, <2>4
  <1>3. 0 \in T
    <2> HIDE DEF g
    <2>1. QED
      BY <1>1, <1>2 DEF LosesBack
  <1>4. ASSUME NEW n \in 0 .. L, n \in T, n < L PROVE n + 1 \in T
    <2> HIDE DEF g
    <2>1. n + 1 \in 1 .. L /\ LosesBack(ts, n, g[n])
      BY <1>1, <1>4
    <2>2. PICK m : m = g[n] /\ m \in 0 .. n
      BY <2>1 DEF LosesBack
    <2>3. CASE ts[n + 1].pnl < 0
      <3>1. g[n + 1] = m + 1
        BY <1>2, <1>4, <2>2, <2>3
      <3>2. ASSUME NEW k \in (n + 1) - (m + 1) + 1 .. n + 1 PROVE ts[k].pnl < 0
        <4>1. k = n + 1 \/ k \in n - m + 1 .. n
          BY <1>1, <2>2
        <4>2. QED
          BY <2>1, <2>2, <2>3, <4>1 DEF LosesBack
      <3>3. m < n => ~(ts[n - m].pnl < 0)
        BY <2>1, <2>2 DEF LosesBack
      <3>4. LosesBack(ts, n + 1, m + 1)
        <4>1. m + 1 \in 0 .. n + 1 /\ (m + 1 < n + 1 => m < n) /\ (n + 1) - (m + 1) = n - m
          BY <1>1, <2>2
        <4>2. QED
          BY <3>2, <3>3, <4>1 DEF LosesBack
      <3>5. QED
        BY <2>1, <3>1, <3>4
    <2>4. CASE ~(ts[n + 1].pnl < 0)
      <3>1. g[n + 1] = 0
        BY <1>2, <1>4, <2>4
      <3>2. LosesBack(ts, n + 1, 0)
        <4>1. 0 \in 0 .. n + 1 /\ (n + 1) - 0 = n + 1 /\ (n + 1) - 0 + 1 .. n + 1 = {}
          BY <1>1
        <4>2. QED
          BY <2>4, <4>1 DEF LosesBack
      <3>3. QED
        BY <2>1, <3>1, <3>2
    <2>5. QED
      BY <2>3, <2>4
  <1>5. 0 .. L \subseteq T
    <2> HIDE DEF T, L
    <2>1. QED
      BY <1>1, <1>3, <1>4, CountingTo
  <1>6. QED
    BY <1>5

\* n losses in a row from trade i on.
LostFrom(ts, i, n) == \A k \in i .. i + n - 1 : ts[k].pnl < 0

LEMMA LongestIsLongest ==
    ASSUME trades \in Seq(Closings)
    PROVE  LosingRunIsLongest
  <1> DEFINE L == Len(trades)
             g == LosingRuns(trades)
             R == {n \in 0 .. L : \E i \in 1 .. L - n + 1 : LostFrom(trades, i, n)}
  <1>1. L \in Nat /\ \A i \in 1 .. L : trades[i].pnl \in Int
    BY TradesKnown
  <1>2. DOMAIN g = 0 .. L
    <2>1. IsLosing(g, trades, L)
      BY <1>1, LosingRunsAre
    <2> HIDE DEF g
    <2>2. QED
      BY <2>1 DEF IsLosing
  <1>3. \A i \in 0 .. L : LosesBack(trades, i, g[i])
    BY LosingBack
  <1> HIDE DEF g
  <1>4. /\ IsFiniteSet(Range(g)) /\ Range(g) # {} /\ Range(g) \subseteq Int
        /\ \A i \in 0 .. L : g[i] \in Range(g)
        /\ \A x \in Range(g) : \E i \in 0 .. L : x = g[i]
    <2>1. IsFiniteSet(0 .. L) /\ 0 \in 0 .. L
      BY <1>1, FS_Interval
    <2>2. \A i \in 0 .. L : g[i] \in Range(g)
      BY <1>2 DEF Range
    <2>3. \A x \in Range(g) : \E i \in 0 .. L : x = g[i]
      BY <1>2 DEF Range
    <2>4. Range(g) \subseteq Int
      BY <1>1, <1>3, <2>3 DEF LosesBack
    <2>5. [i \in 0 .. L |-> g[i]] \in Surjection(0 .. L, Range(g))
      BY <2>2, <2>3 DEF Surjection
    <2>6. IsFiniteSet(Range(g))
      BY <2>1, <2>5, FS_Surjection
    <2>7. QED
      BY <2>1, <2>2, <2>3, <2>4, <2>6
  <1>5. PICK m : m = LosingRun(trades)
    OBVIOUS
  <1>6. m \in Range(g) /\ \A y \in Range(g) : m >= y
    BY <1>4, <1>5, LargestExists DEF LosingRun, g
  <1>7. PICK j \in 0 .. L : m = g[j]
    BY <1>4, <1>6
  <1>8. LosesBack(trades, j, m)
    BY <1>3, <1>7
  <1>9. m \in 0 .. j
    BY <1>8 DEF LosesBack
  <1>10. m \in R
    <2>1. j - m + 1 \in 1 .. L - m + 1 /\ m \in 0 .. L /\ j - m + 1 + m - 1 = j
      BY <1>1, <1>7, <1>9
    <2>2. LostFrom(trades, j - m + 1, m)
      BY <1>8, <2>1 DEF LosesBack, LostFrom
    <2>3. QED
      BY <2>1, <2>2
  <1>11. ASSUME NEW n \in R PROVE n <= m
    <2>1. n \in 0 .. L
      OBVIOUS
    <2>2. PICK i \in 1 .. L - n + 1 : LostFrom(trades, i, n)
      OBVIOUS
    <2>3. CASE n = 0
      BY <1>9, <1>7, <1>1, <2>3
    <2>4. CASE n # 0
      <3>1. i + n - 1 \in 1 .. L
        BY <1>1, <2>1, <2>2, <2>4
      <3>2. PICK e : e = i + n - 1
        OBVIOUS
      <3>3. PICK x : x = g[e]
        OBVIOUS
      <3>4. LosesBack(trades, e, x) /\ x \in 0 .. e
        BY <1>1, <1>3, <3>1, <3>2, <3>3 DEF LosesBack
      <3>5. m >= x
        BY <1>1, <1>4, <1>6, <3>1, <3>2, <3>3
      <3>6. ~(x < n)
        <4>1. SUFFICES ASSUME x < n PROVE FALSE
          OBVIOUS
        <4>2. e - x \in i .. i + n - 1 /\ x < e
          BY <1>1, <2>1, <2>2, <3>1, <3>2, <3>4, <4>1
        <4>3. trades[e - x].pnl < 0
          BY <2>2, <4>2 DEF LostFrom
        <4>4. QED
          BY <3>4, <4>2, <4>3 DEF LosesBack
      <3>7. QED
        BY <1>1, <1>7, <1>9, <2>1, <3>1, <3>2, <3>4, <3>5, <3>6
    <2>5. QED
      BY <2>3, <2>4
  <1>12. Max(R) = m
    <2>1. R \subseteq Int
      BY <1>1
    <2> HIDE DEF R
    <2>2. QED
      BY <1>10, <1>11, <2>1, MaxIs
  <1>13. QED
    BY <1>5, <1>12 DEF LosingRunIsLongest, LostFrom

(***************************************************************************)
(* What a recommendation for review rests on.                              *)
(***************************************************************************)
LEMMA NothingCritical ==
    ASSUME NEW e, IsEvidence(e), ~(RobustCritical(e) > 0)
    PROVE  ~e.lookahead /\ ~e.repainting /\ e.slippage > 0 /\ e.brokerage > 0
  <1>1. PICK c : c = Cardinality({i \in DOMAIN e.reports : e.reports[i].quality < 50})
    OBVIOUS
  <1>2. c \in Nat
    <2>1. IsFiniteSet({i \in DOMAIN e.reports : e.reports[i].quality < 50})
      BY FS_Subset DEF IsEvidence
    <2>2. QED
      BY <1>1, <2>1, FS_CardinalityType
  <1>3. \A b : Count(b) \in {0, 1} /\ (b => Count(b) = 1)
    BY DEF Count
  <1>4. PICK x, y, z : /\ x = Count(e.slippage <= 0 \/ e.brokerage <= 0)
                      /\ y = Count(e.lookahead) /\ z = Count(e.repainting)
    OBVIOUS
  <1>5. x \in {0, 1} /\ y \in {0, 1} /\ z \in {0, 1}
    BY <1>3, <1>4
  <1>6. ~(x + c + y + z > 0)
    BY <1>1, <1>4 DEF RobustCritical
  <1>7. x # 1 /\ y # 1 /\ z # 1
    BY <1>2, <1>5, <1>6
  <1>8. ~(e.slippage <= 0 \/ e.brokerage <= 0) /\ ~e.lookahead /\ ~e.repainting
    BY <1>3, <1>4, <1>7
  <1>9. QED
    BY <1>8 DEF IsEvidence

LEMMA RecommendedHasNoFailure ==
    ASSUME NEW ts, NEW e, Recommendation(ts, e) = "READY_FOR_MANUAL_REVIEW"
    PROVE  /\ ~(RobustCritical(e) > 0) /\ ~(Len(ts) < MinTrades) /\ e.outOfSample
           /\ e.walkForward # <<>> /\ ~Concentrated(ts, "symbol") /\ ~Concentrated(ts, "day")
  <1>1. ~(RobustCritical(e) > 0) /\ RobustFailures(ts, e) = {}
    BY DEF Recommendation
  <1>2. ~(Len(ts) < MinTrades)
    BY <1>1 DEF RobustFailures
  <1>3. e.outOfSample
    BY <1>1 DEF RobustFailures
  <1>4. e.walkForward # <<>>
    BY <1>1 DEF RobustFailures
  <1>5. ~Concentrated(ts, "symbol")
    BY <1>1 DEF RobustFailures
  <1>6. ~Concentrated(ts, "day")
    BY <1>1 DEF RobustFailures
  <1>7. QED
    BY <1>1, <1>2, <1>3, <1>4, <1>5, <1>6

\* Winners with another value of a field.
WinnersWithout(ts, field, v) == {i \in Winners(ts) : ts[i][field] # v}

LEMMA SpreadProfits ==
    ASSUME NEW ts \in Seq(Closings), NEW field, ~Concentrated(ts, field), NEW v \in Kinds(ts, field)
    PROVE  2 * Made(ts, WinnersWithout(ts, field, v)) >= Profit(ts)
  <1> DEFINE W == Winners(ts)
             H == W \cap Having(ts, field, v)
             K == WinnersWithout(ts, field, v)
  <1>1. ~(Made(ts, H) * 100 > 50 * Profit(ts))
    BY DEF Concentrated
  <1>2. W \subseteq DOMAIN ts /\ H \subseteq W /\ K = W \ H
    BY DEF Winners, Having, WinnersWithout
  <1>3. Made(ts, W) = Made(ts, H) + Made(ts, K)
    <2> HIDE DEF W, H, K
    <2>1. QED
      BY <1>2, MadeOfParts
  <1>4. Made(ts, W) \in Int /\ Made(ts, H) \in Int /\ Made(ts, K) \in Int
    <2> HIDE DEF W, H, K
    <2>1. H \subseteq DOMAIN ts /\ K \subseteq DOMAIN ts
      BY <1>2
    <2>2. QED
      BY <1>2, <2>1, MadeKnown
  <1>5. Profit(ts) = Made(ts, W)
    BY DEF Profit
  <1>6. QED
    BY <1>1, <1>3, <1>4, <1>5

LEMMA ReviewHasEvidence ==
    ASSUME trades \in Seq(Closings), NEW e \in Evidences,
           verdict.evidence = e, verdict.robust = Recommendation(trades, e)
    PROVE  ReviewIsEvidenced
  <1>1. SUFFICES ASSUME Recommendation(trades, e) = "READY_FOR_MANUAL_REVIEW"
                 PROVE  /\ e.outOfSample /\ e.walkForward # <<>> /\ Len(trades) >= MinTrades
                        /\ ~e.lookahead /\ ~e.repainting /\ e.slippage > 0 /\ e.brokerage > 0
                        /\ \A field \in {"symbol", "day"} : \A v \in Kinds(trades, field) :
                              2 * Made(trades, WinnersWithout(trades, field, v)) >= Profit(trades)
    BY DEF ReviewIsEvidenced, WinnersWithout
  <1>2. /\ ~(RobustCritical(e) > 0) /\ ~(Len(trades) < MinTrades) /\ e.outOfSample
        /\ e.walkForward # <<>> /\ ~Concentrated(trades, "symbol") /\ ~Concentrated(trades, "day")
    BY <1>1, RecommendedHasNoFailure
  <1>3. ~e.lookahead /\ ~e.repainting /\ e.slippage > 0 /\ e.brokerage > 0
    BY <1>2, NothingCritical, ValidationAssumption
  <1>4. Len(trades) >= MinTrades
    BY <1>2, TradesKnown, ValidationAssumption
  <1>5. ASSUME NEW field \in {"symbol", "day"}, NEW v \in Kinds(trades, field)
        PROVE  2 * Made(trades, WinnersWithout(trades, field, v)) >= Profit(trades)
    <2>1. ~Concentrated(trades, field)
      BY <1>2
    <2>2. QED
      BY <2>1, SpreadProfits
  <1>6. QED
    BY <1>2, <1>3, <1>4, <1>5

(***************************************************************************)
(* The windows of a walk forward.                                          *)
(***************************************************************************)
\* Multiples of a natural number compare as what they are multiples of.
LEMMA MultiplesCompare ==
    ASSUME NEW a \in Int, NEW b \in Int, a <= b, NEW t \in Nat
    PROVE  a * t <= b * t
  <1>1. PICK d \in Nat : b = a + d
    <2>1. b - a \in Nat /\ b = a + (b - a)
      OBVIOUS
    <2>2. QED
      BY <2>1
  <1>2. d * t \in Nat
    OBVIOUS
  <1>3. (a + d) * t = a * t + d * t
    OBVIOUS
  <1>4. QED
    BY <1>1, <1>2, <1>3

\* How many windows fit, and where each of them lies.
Fitting(w) == IF w.length < w.train + w.test THEN 0
              ELSE (w.length - w.train - w.test) \div w.test + 1

LEMMA SplitsAre ==
    ASSUME NEW w, {w.length, w.train, w.test} \subseteq Nat, w.test > 0
    PROVE  /\ Fitting(w) \in Nat
           /\ DOMAIN Splits(w) = 1 .. Fitting(w) /\ Len(Splits(w)) = Fitting(w)
           /\ \A k \in 1 .. Fitting(w) :
                 /\ Splits(w)[k].train = (k - 1) * w.test
                 /\ Splits(w)[k].test = (k - 1) * w.test + w.train
                 /\ Splits(w)[k].end = (k - 1) * w.test + w.train + w.test
           /\ w.length < w.train + w.test => Fitting(w) = 0
           /\ w.length >= w.train + w.test =>
                 /\ Fitting(w) >= 1
                 /\ (Fitting(w) - 1) * w.test <= w.length - w.train - w.test
                 /\ w.length - w.train - w.test < (Fitting(w) - 1) * w.test + w.test
  <1>1. PICK n : n = Fitting(w)
    OBVIOUS
  <1>2. /\ n \in Nat /\ (w.length < w.train + w.test => n = 0)
        /\ w.length >= w.train + w.test =>
              /\ n >= 1
              /\ (n - 1) * w.test <= w.length - w.train - w.test
              /\ w.length - w.train - w.test < (n - 1) * w.test + w.test
    <2>1. CASE w.length < w.train + w.test
      BY <1>1, <2>1 DEF Fitting
    <2>2. CASE ~(w.length < w.train + w.test)
      <3>1. PICK q \in Int : /\ q = (w.length - w.train - w.test) \div w.test
                             /\ w.test * q <= w.length - w.train - w.test
                             /\ w.length - w.train - w.test < w.test * q + w.test
                             /\ q \in Nat
        <4>1. w.length - w.train - w.test \in Int /\ w.test \in Nat \ {0}
              /\ w.length - w.train - w.test >= 0
          BY <2>2
        <4>2. QED
          BY <4>1, Divides
      <3>2. n = q + 1
        BY <1>1, <2>2, <3>1 DEF Fitting
      <3>3. n - 1 = q /\ (n - 1) * w.test = w.test * q
        BY <3>1, <3>2
      <3>4. QED
        BY <2>2, <3>1, <3>2, <3>3
    <2>3. QED
      BY <2>1, <2>2
  <1>3. Splits(w) = [k \in 1 .. n |->
                       [train |-> (k - 1) * w.test, test |-> (k - 1) * w.test + w.train,
                        end |-> (k - 1) * w.test + w.train + w.test]]
    BY <1>1 DEF Splits, Fitting
  <1>4. DOMAIN Splits(w) = 1 .. n /\ Splits(w) \in Seq(Range(Splits(w)))
    <2>1. DOMAIN Splits(w) = 1 .. n
      BY <1>3
    <2>2. Splits(w) \in [1 .. n -> Range(Splits(w))]
      <3>1. \A k \in 1 .. n : Splits(w)[k] \in Range(Splits(w))
        BY <2>1 DEF Range
      <3>2. Splits(w) = [k \in 1 .. n |-> Splits(w)[k]]
        BY <1>3
      <3>3. QED
        BY <3>1, <3>2
    <2>3. n \in Nat
      BY <1>2
    <2>4. QED
      BY <2>1, <2>2, <2>3
  <1>5. Len(Splits(w)) = n
    BY <1>2, <1>4
  <1>6. QED
    BY <1>1, <1>2, <1>3, <1>4, <1>5

LEMMA WindowsApart ==
    ASSUME NEW w \in Windows, w.train > 0, w.test > 0, folds = [asked |-> w, splits |-> Splits(w)]
    PROVE  WindowsDoNotLeak
  <1> DEFINE f == Splits(w)
             n == Fitting(w)
  <1>1. {w.length, w.train, w.test} \subseteq Nat
    BY ValidationAssumption
  <1>2. PICK l \in Nat, r \in Nat, t \in Nat : l = w.length /\ r = w.train /\ t = w.test
    BY <1>1
  <1>3. /\ n \in Nat /\ DOMAIN f = 1 .. n /\ Len(f) = n
        /\ \A k \in 1 .. n : /\ f[k].train = (k - 1) * t
                             /\ f[k].test = (k - 1) * t + r
                             /\ f[k].end = (k - 1) * t + r + t
        /\ l < r + t => n = 0
        /\ l >= r + t => n >= 1 /\ (n - 1) * t <= l - r - t /\ l - r - t < (n - 1) * t + t
    BY <1>1, <1>2, SplitsAre
  <1> HIDE DEF f, n
  <1>4. ASSUME NEW k \in DOMAIN f PROVE f[k].train + r = f[k].test /\ f[k].end <= l
    <2>1. k \in 1 .. n
      BY <1>3
    <2>2. PICK a \in Int, b \in Int : a = k - 1 /\ b = n - 1
      BY <1>3, <2>1
    <2>3. a <= b /\ l >= r + t
      BY <1>3, <2>1, <2>2
    <2>4. a * t <= b * t
      BY <2>3, MultiplesCompare
    <2>5. PICK x \in Int, y \in Int : x = a * t /\ y = b * t
      BY <1>2
    <2>6. f[k].train = x /\ f[k].test = x + r /\ f[k].end = x + r + t /\ y <= l - r - t
      BY <1>3, <2>1, <2>2, <2>3, <2>5
    <2>7. QED
      BY <2>4, <2>5, <2>6
  <1>5. ASSUME NEW j \in DOMAIN f, NEW k \in DOMAIN f, j < k PROVE f[j].end <= f[k].test
    <2>1. j \in 1 .. n /\ k \in 1 .. n
      BY <1>3
    <2>2. PICK a \in Int, b \in Int : a = j - 1 /\ b = k - 1
      BY <2>1
    <2>3. a + 1 <= b /\ a + 1 \in Int
      BY <1>5, <2>1, <2>2
    <2>4. (a + 1) * t <= b * t
      BY <2>3, MultiplesCompare
    <2>5. (a + 1) * t = a * t + t
      OBVIOUS
    <2>6. PICK x \in Int, y \in Int : x = a * t /\ y = b * t
      BY <1>2
    <2>7. f[j].end = x + r + t /\ f[k].test = y + r
      BY <1>3, <2>1, <2>2, <2>6
    <2>8. QED
      BY <2>4, <2>5, <2>6, <2>7
  <1>6. ASSUME l >= r + t PROVE f # <<>> /\ f[1].train = 0 /\ l - f[Len(f)].end < t
    <2>1. 1 \in 1 .. n /\ n \in 1 .. n
      BY <1>3, <1>6
    <2>2. f # <<>>
      BY <1>3, <2>1
    <2>3. f[1].train = 0
      <3>1. (1 - 1) * t = 0
        OBVIOUS
      <3>2. QED
        BY <1>3, <2>1, <3>1
    <2>4. PICK y \in Int : y = (n - 1) * t
      BY <1>3
    <2>5. f[Len(f)].end = y + r + t
      BY <1>3, <2>1, <2>4
    <2>6. l - r - t < y + t
      BY <1>3, <1>6, <2>4
    <2>7. QED
      BY <2>2, <2>3, <2>5, <2>6
  <1>7. QED
    BY <1>2, <1>4, <1>5, <1>6 DEF WindowsDoNotLeak, f

(***************************************************************************)
(* The five adapters.                                                      *)
(***************************************************************************)
\* One adapter more in a sum over some.
LEMMA OneAdapterMore ==
    ASSUME NEW h \in [StudyAdapters -> Int], NEW D, IsFiniteSet(D), D \subseteq StudyAdapters,
           NEW x \in StudyAdapters \ D
    PROVE  SumFunction([a \in D \cup {x} |-> h[a]]) = SumFunction([a \in D |-> h[a]]) + h[x]
  <1> DEFINE f == [a \in D |-> h[a]]
             e == [a \in D \cup {x} |-> h[a]]
  <1>1. IsFiniteSet(D \cup {x})
    BY FS_AddElement
  <1>2. Summable(f, D) /\ Summable(e, D \cup {x})
    BY <1>1 DEF Summable
  <1>3. Agree(e, f, D) /\ e[x] = h[x]
    BY DEF Agree
  <1>4. SumFunction(e) = SumFunction(f) + e[x]
    <2> HIDE DEF e, f
    <2>1. QED
      BY <1>2, <1>3, SumWith
  <1>5. QED
    BY <1>3, <1>4

LEMMA FiveAdapters ==
    ASSUME NEW h \in [StudyAdapters -> Int]
    PROVE  SumFunction(h) = h["lean"] + h["vectorbt"] + h["backtrader"] + h["finrl"] + h["mlquant"]
  <1> DEFINE R(D) == SumFunction([a \in D |-> h[a]])
             D1 == {"lean"}
             D2 == D1 \cup {"vectorbt"}
             D3 == D2 \cup {"backtrader"}
             D4 == D3 \cup {"finrl"}
             D5 == D4 \cup {"mlquant"}
  <1>1. IsFiniteSet(D1)
    BY FS_Singleton
  <1>2. IsFiniteSet(D2)
    BY <1>1, FS_AddElement
  <1>3. IsFiniteSet(D3)
    BY <1>2, FS_AddElement
  <1>4. IsFiniteSet(D4)
    BY <1>3, FS_AddElement
  <1>5. R(D1) = h["lean"]
    <2>1. h["lean"] \in Int
      BY DEF StudyAdapters
    <2>2. Summable([a \in D1 |-> h[a]], {"lean"})
      BY <1>1, <2>1 DEF Summable
    <2>3. QED
      BY <2>2, SumOne
  <1>6. R(D2) = R(D1) + h["vectorbt"]
    <2>1. D1 \subseteq StudyAdapters /\ "vectorbt" \in StudyAdapters \ D1
      BY DEF StudyAdapters
    <2>2. QED
      BY <1>1, <2>1, OneAdapterMore
  <1>7. R(D3) = R(D2) + h["backtrader"]
    <2>1. D2 \subseteq StudyAdapters /\ "backtrader" \in StudyAdapters \ D2
      BY DEF StudyAdapters
    <2> HIDE DEF D2
    <2>2. QED
      BY <1>2, <2>1, OneAdapterMore
  <1>8. R(D4) = R(D3) + h["finrl"]
    <2>1. D3 \subseteq StudyAdapters /\ "finrl" \in StudyAdapters \ D3
      BY DEF StudyAdapters
    <2> HIDE DEF D3
    <2>2. QED
      BY <1>3, <2>1, OneAdapterMore
  <1>9. R(D5) = R(D4) + h["mlquant"]
    <2>1. D4 \subseteq StudyAdapters /\ "mlquant" \in StudyAdapters \ D4
      BY DEF StudyAdapters
    <2> HIDE DEF D4
    <2>2. QED
      BY <1>4, <2>1, OneAdapterMore
  <1>10. [a \in D5 |-> h[a]] = h
    <2>1. D5 = StudyAdapters
      BY DEF StudyAdapters
    <2> HIDE DEF D5
    <2>2. QED
      BY <2>1
  <1>11. SumFunction(h) = R(D5)
    BY <1>10
  <1>12. QED
    <2> HIDE DEF R, D1, D2, D3, D4, D5
    <2>1. QED
      BY <1>5, <1>6, <1>7, <1>8, <1>9, <1>11

\* What each adapter may say.
LEMMA BallotsAre ==
    ASSUME NEW f
    PROVE  LET v == AdapterScores(f)
               t == StudyTrend(f)
           IN /\ v["lean"] = IF t = "NONE" THEN Adapter(40, "NONE") ELSE Adapter(75, t)
              /\ v["vectorbt"] = IF f.ret > 2 THEN Adapter(78, "BUY")
                                 ELSE IF f.ret < -2 THEN Adapter(78, "SELL") ELSE Adapter(45, "NONE")
              /\ v["backtrader"] = IF f.lead = 0 \/ f.volume < 80 THEN Adapter(42, "NONE")
                                   ELSE Adapter(76, IF f.lead > 0 THEN "BUY" ELSE "SELL")
              /\ v["finrl"] \in {Adapter(70, t), Adapter(35, "NONE")}
              /\ v["mlquant"] = IF MlQuantAlpha(f) >= 35 THEN Adapter(80, "BUY")
                                ELSE IF MlQuantAlpha(f) <= -35 THEN Adapter(80, "SELL")
                                ELSE Adapter(45, "NONE")
  <1>1. {"lean", "vectorbt", "backtrader", "finrl", "mlquant"} = StudyAdapters
    BY DEF StudyAdapters
  <1>2. AdapterScores(f)["lean"] =
            IF StudyTrend(f) = "NONE" THEN Adapter(40, "NONE") ELSE Adapter(75, StudyTrend(f))
    BY <1>1 DEF AdapterScores
  <1>3. AdapterScores(f)["vectorbt"] =
            IF f.ret > 2 THEN Adapter(78, "BUY")
            ELSE IF f.ret < -2 THEN Adapter(78, "SELL") ELSE Adapter(45, "NONE")
    BY <1>1 DEF AdapterScores
  <1>4. AdapterScores(f)["backtrader"] =
            IF f.lead = 0 \/ f.volume < 80 THEN Adapter(42, "NONE")
            ELSE Adapter(76, IF f.lead > 0 THEN "BUY" ELSE "SELL")
    BY <1>1 DEF AdapterScores
  <1>5. AdapterScores(f)["finrl"] \in {Adapter(70, StudyTrend(f)), Adapter(35, "NONE")}
    BY <1>1 DEF AdapterScores
  <1>6. AdapterScores(f)["mlquant"] =
            IF MlQuantAlpha(f) >= 35 THEN Adapter(80, "BUY")
            ELSE IF MlQuantAlpha(f) <= -35 THEN Adapter(80, "SELL") ELSE Adapter(45, "NONE")
    BY <1>1 DEF AdapterScores
  <1>7. QED
    BY <1>2, <1>3, <1>4, <1>5, <1>6

\* Scores that add up to the mean have a vote of every adapter, and no adapter but the one
\* that looks at the return alone can be against a purchase.
LEMMA TradedUnopposed ==
    ASSUME NEW f, IsFeatures(f), StudyDecision(f) # "NO_TRADE"
    PROVE  LET v == AdapterScores(f)
           IN /\ \A a \in StudyAdapters \ {"vectorbt"} : v[a].vote = "BUY"
              /\ v["vectorbt"].vote \in {"BUY", "SELL"}
  <1> DEFINE v == AdapterScores(f)
             t == StudyTrend(f)
  <1>1. ScoreSum(f) >= 360
    BY DEF StudyDecision
  <1>2. t \in {"BUY", "SELL", "NONE"} /\ (t = "BUY" => f.lead > 0) /\ (t = "SELL" => f.lead < 0)
    BY DEF StudyTrend
  <1>3. /\ v["lean"] = IF t = "NONE" THEN Adapter(40, "NONE") ELSE Adapter(75, t)
        /\ v["vectorbt"] = IF f.ret > 2 THEN Adapter(78, "BUY")
                           ELSE IF f.ret < -2 THEN Adapter(78, "SELL") ELSE Adapter(45, "NONE")
        /\ v["backtrader"] = IF f.lead = 0 \/ f.volume < 80 THEN Adapter(42, "NONE")
                             ELSE Adapter(76, IF f.lead > 0 THEN "BUY" ELSE "SELL")
        /\ v["finrl"] \in {Adapter(70, t), Adapter(35, "NONE")}
        /\ v["mlquant"] = IF MlQuantAlpha(f) >= 35 THEN Adapter(80, "BUY")
                          ELSE IF MlQuantAlpha(f) <= -35 THEN Adapter(80, "SELL")
                          ELSE Adapter(45, "NONE")
    BY BallotsAre
  <1> HIDE DEF v, t
  <1>4. /\ v["lean"].score \in {40, 75} /\ (v["lean"].score = 75 => v["lean"].vote = t /\ t # "NONE")
        /\ v["vectorbt"].score \in {45, 78}
        /\ v["vectorbt"].score = 78 => v["vectorbt"].vote \in {"BUY", "SELL"}
        /\ v["finrl"].score \in {35, 70} /\ (v["finrl"].score = 70 => v["finrl"].vote = t)
    BY <1>3 DEF Adapter
  <1>5. /\ v["backtrader"].score \in {42, 76}
        /\ v["backtrader"].score = 76 =>
              /\ f.lead # 0 /\ ~(f.volume < 80)
              /\ v["backtrader"].vote = IF f.lead > 0 THEN "BUY" ELSE "SELL"
    BY <1>3 DEF Adapter
  <1>6. /\ v["mlquant"].score \in {45, 80}
        /\ v["mlquant"].score = 80 =>
              \/ MlQuantAlpha(f) >= 35 /\ v["mlquant"].vote = "BUY"
              \/ MlQuantAlpha(f) <= -35 /\ v["mlquant"].vote = "SELL"
    BY <1>3 DEF Adapter
  <1>7. v["lean"].score + v["vectorbt"].score + v["backtrader"].score + v["finrl"].score
        + v["mlquant"].score >= 360
    <2>1. PICK h : h = [a \in StudyAdapters |-> v[a].score]
      OBVIOUS
    <2>2. h \in [StudyAdapters -> Int]
      BY <1>4, <1>5, <1>6, <2>1 DEF StudyAdapters
    <2>3. /\ h["lean"] = v["lean"].score /\ h["vectorbt"] = v["vectorbt"].score
          /\ h["backtrader"] = v["backtrader"].score /\ h["finrl"] = v["finrl"].score
          /\ h["mlquant"] = v["mlquant"].score
      BY <2>1 DEF StudyAdapters
    <2>4. SumFunction(h) >= 360
      BY <1>1, <2>1 DEF ScoreSum, v
    <2>5. QED
      BY <2>2, <2>3, <2>4, FiveAdapters
  <1>8. /\ v["lean"].score = 75 /\ v["vectorbt"].score = 78 /\ v["backtrader"].score = 76
        /\ v["finrl"].score = 70 /\ v["mlquant"].score = 80
    BY <1>4, <1>5, <1>6, <1>7
  <1>9. t # "SELL"
    <2>1. SUFFICES ASSUME t = "SELL" PROVE FALSE
      OBVIOUS
    <2>2. MlQuantAlpha(f) \in {-5, 15}
      BY <1>5, <1>8, <2>1 DEF MlQuantAlpha, IsFeatures, t
    <2>3. QED
      BY <1>6, <1>8, <2>2
  <1>10. t = "BUY" /\ f.lead > 0
    BY <1>2, <1>4, <1>8, <1>9
  <1>11. v["mlquant"].vote = "BUY"
    <2>1. MlQuantAlpha(f) \in {45, 65}
      BY <1>5, <1>8, <1>10 DEF MlQuantAlpha, IsFeatures, t
    <2>2. QED
      BY <1>6, <1>8, <2>1
  <1>12. v["lean"].vote = "BUY" /\ v["finrl"].vote = "BUY" /\ v["backtrader"].vote = "BUY"
    BY <1>4, <1>5, <1>8, <1>10
  <1>13. \A a \in StudyAdapters \ {"vectorbt"} : v[a].vote = "BUY"
    BY <1>11, <1>12 DEF StudyAdapters
  <1>14. QED
    BY <1>4, <1>8, <1>13 DEF v

LEMMA OnlyPurchases ==
    ASSUME NEW f, IsFeatures(f), StudyDecision(f) # "NO_TRADE"
    PROVE  /\ StudyDecision(f) = "BUY" /\ VotesFor(f, "NONE") = 0 /\ VotesFor(f, "SELL") <= 1
           /\ VotesFor(f, "SELL") = 1 => AdapterScores(f)["vectorbt"].vote = "SELL"
  <1> DEFINE v == AdapterScores(f)
             Q(side) == {a \in StudyAdapters : v[a].vote = side}
  <1>1. /\ \A a \in StudyAdapters \ {"vectorbt"} : v[a].vote = "BUY"
        /\ v["vectorbt"].vote \in {"BUY", "SELL"}
    BY TradedUnopposed
  <1> HIDE DEF v
  <1>2. {"lean", "finrl", "vectorbt"} \subseteq StudyAdapters
    BY DEF StudyAdapters
  <1>3. Q("NONE") = {} /\ Q("SELL") \subseteq {"vectorbt"} /\ {"lean", "finrl"} \subseteq Q("BUY")
    BY <1>1, <1>2
  <1>4. IsFiniteSet(StudyAdapters)
    <2>1. IsFiniteSet({"lean", "vectorbt", "backtrader"})
      BY FewAreFinite
    <2>2. IsFiniteSet({"lean", "vectorbt", "backtrader"} \cup {"finrl"})
      BY <2>1, FS_AddElement
    <2>3. IsFiniteSet(({"lean", "vectorbt", "backtrader"} \cup {"finrl"}) \cup {"mlquant"})
      BY <2>2, FS_AddElement
    <2>4. StudyAdapters = ({"lean", "vectorbt", "backtrader"} \cup {"finrl"}) \cup {"mlquant"}
      BY DEF StudyAdapters
    <2>5. QED
      BY <2>3, <2>4
  <1>5. Cardinality(Q("NONE")) = 0
    BY <1>3, FS_EmptySet
  <1>6. IsFiniteSet(Q("SELL")) /\ Cardinality(Q("SELL")) <= 1 /\ Cardinality(Q("SELL")) \in Nat
    <2>1. IsFiniteSet({"vectorbt"}) /\ Cardinality({"vectorbt"}) = 1
      BY FS_Singleton
    <2> HIDE DEF Q
    <2>2. QED
      BY <1>3, <2>1, FS_Subset, FS_CardinalityType
  <1>7. Cardinality(Q("SELL")) = 1 => v["vectorbt"].vote = "SELL"
    <2>1. Cardinality(Q("SELL")) = 1 => Q("SELL") # {}
      BY FS_EmptySet
    <2>2. QED
      BY <1>3, <2>1
  <1>8. Cardinality(Q("BUY")) > Cardinality(Q("SELL"))
    <2>1. IsFiniteSet({"lean"}) /\ Cardinality({"lean"}) = 1
      BY FS_Singleton
    <2>2. Cardinality({"lean"} \cup {"finrl"}) = 2
      BY <2>1, FS_AddElement
    <2>3. {"lean"} \cup {"finrl"} \subseteq Q("BUY") /\ Q("BUY") \subseteq StudyAdapters
      BY <1>3
    <2> HIDE DEF Q
    <2>4. IsFiniteSet(Q("BUY")) /\ Cardinality(Q("BUY")) \in Nat
      BY <1>4, <2>3, FS_Subset, FS_CardinalityType
    <2>5. Cardinality({"lean"} \cup {"finrl"}) <= Cardinality(Q("BUY"))
      BY <2>3, <2>4, FS_Subset
    <2>6. QED
      BY <1>6, <2>2, <2>4, <2>5
  <1>9. \A side : VotesFor(f, side) = Cardinality(Q(side))
    BY DEF VotesFor, v
  <1>10. StudyDecision(f) = "BUY"
    <2>1. VotesFor(f, "BUY") > VotesFor(f, "SELL")
      BY <1>8, <1>9
    <2>2. QED
      BY <2>1 DEF StudyDecision
  <1>11. QED
    BY <1>5, <1>6, <1>7, <1>9, <1>10 DEF v

(***************************************************************************)
(* What becomes of a signal in the candles after it.                       *)
(***************************************************************************)
Touches(signal, b) == Stops(signal, b) \/ Reaches(signal, b)

\* The first candle that touches a level.
TouchesFirst(signal, q, m) ==
    m \in DOMAIN q /\ Touches(signal, q[m]) /\ \A j \in DOMAIN q : j < m => ~Touches(signal, q[j])

LEMMA OutcomeIs ==
    ASSUME NEW signal, signal.side = "BUY", NEW q, NEW n \in Nat, DOMAIN q = 1 .. n
    PROVE  /\ \A m : TouchesFirst(signal, q, m) =>
                 ForwardOutcome(signal, q) =
                    IF Stops(signal, q[m])
                    THEN [result |-> "STOP_HIT", pnl |-> 1 * (signal.stop - signal.entry)]
                    ELSE [result |-> "TARGET_HIT", pnl |-> 1 * (signal.target - signal.entry)]
           /\ (\A m : ~TouchesFirst(signal, q, m)) =>
                 /\ \A j \in DOMAIN q : ~Touches(signal, q[j])
                 /\ ForwardOutcome(signal, q) =
                       [result |-> "EXPIRED",
                        pnl |-> IF q = <<>> THEN 0 ELSE 1 * (Last(q).close - signal.entry)]
  <1> DEFINE ends == {i \in DOMAIN q : Stops(signal, q[i]) \/ Reaches(signal, q[i])}
  <1>1. ends \subseteq Int /\ IsFiniteSet(ends)
    <2>1. IsFiniteSet(1 .. n)
      BY FS_Interval
    <2>2. ends \subseteq 1 .. n /\ 1 .. n \subseteq Int
      OBVIOUS
    <2> HIDE DEF ends
    <2>3. IsFiniteSet(ends)
      BY <2>1, <2>2, FS_Subset
    <2>4. ends \subseteq Int
      BY <2>2
    <2>5. QED
      BY <2>3, <2>4
  <1>2. ASSUME ends # {} PROVE TouchesFirst(signal, q, Min(ends))
    <2>1. Min(ends) \in ends /\ \A y \in ends : Min(ends) <= y
      <3> HIDE DEF ends
      <3>1. QED
        BY <1>1, <1>2, SmallestExists
    <2>2. PICK m \in ends : m = Min(ends) /\ \A y \in ends : m <= y
      BY <2>1
    <2>3. m \in DOMAIN q /\ Touches(signal, q[m])
      BY DEF Touches
    <2>4. ASSUME NEW j \in DOMAIN q, j < m PROVE ~Touches(signal, q[j])
      <3>1. j \notin ends
        <4>1. j \in Int /\ m \in Int
          OBVIOUS
        <4> HIDE DEF ends
        <4>2. QED
          BY <2>2, <2>4, <4>1
      <3>2. QED
        BY <3>1 DEF Touches
    <2>5. QED
      BY <2>2, <2>3, <2>4 DEF TouchesFirst
  <1>3. ASSUME NEW m, TouchesFirst(signal, q, m)
        PROVE  ForwardOutcome(signal, q) =
                  IF Stops(signal, q[m])
                  THEN [result |-> "STOP_HIT", pnl |-> 1 * (signal.stop - signal.entry)]
                  ELSE [result |-> "TARGET_HIT", pnl |-> 1 * (signal.target - signal.entry)]
    <2>1. m \in ends
      BY <1>3 DEF TouchesFirst, Touches
    <2>2. TouchesFirst(signal, q, Min(ends)) /\ Min(ends) \in DOMAIN q
      BY <1>2, <2>1 DEF TouchesFirst
    <2>3. Min(ends) = m
      <3>1. PICK k : k = Min(ends)
        OBVIOUS
      <3>2. k \in 1 .. n /\ m \in 1 .. n /\ ~(k < m) /\ ~(m < k)
        BY <1>3, <2>2, <3>1 DEF TouchesFirst
      <3>3. QED
        BY <3>1, <3>2
    <2>4. ForwardOutcome(signal, q) =
             IF Stops(signal, q[Min(ends)])
             THEN [result |-> "STOP_HIT", pnl |-> 1 * (signal.stop - signal.entry)]
             ELSE [result |-> "TARGET_HIT", pnl |-> 1 * (signal.target - signal.entry)]
      BY <2>1, Zenon DEF ForwardOutcome
    <2>5. QED
      BY <2>3, <2>4
  <1>4. ASSUME \A m : ~TouchesFirst(signal, q, m)
        PROVE  /\ \A j \in DOMAIN q : ~Touches(signal, q[j])
               /\ ForwardOutcome(signal, q) =
                     [result |-> "EXPIRED",
                      pnl |-> IF q = <<>> THEN 0 ELSE 1 * (Last(q).close - signal.entry)]
    <2>1. ends = {}
      BY <1>2, <1>4
    <2>2. \A j \in DOMAIN q : ~Touches(signal, q[j])
      BY <2>1 DEF Touches
    <2>3. ForwardOutcome(signal, q) =
             [result |-> "EXPIRED",
              pnl |-> IF q = <<>> THEN 0 ELSE 1 * (Last(q).close - signal.entry)]
      BY <2>1, Zenon DEF ForwardOutcome
    <2>4. QED
      BY <2>2, <2>3
  <1>5. QED
    BY <1>3, <1>4

\* The signal of features that are traded.
Ideas == {StudySignal(f) : f \in {x \in StudyFeatures : StudyDecision(x) # "NO_TRADE"}}

LEMMA IdeaIs ==
    ASSUME NEW signal \in Ideas
    PROVE  /\ signal.side = "BUY" /\ signal.entry = StudyClose
           /\ signal.stop = StudyClose - StudyAtr /\ signal.target = StudyClose + 2 * StudyAtr
           /\ signal.features \in StudyFeatures /\ StudyDecision(signal.features) # "NO_TRADE"
  <1>1. PICK f \in StudyFeatures : StudyDecision(f) # "NO_TRADE" /\ signal = StudySignal(f)
    BY DEF Ideas
  <1>2. StudyDecision(f) = "BUY"
    BY <1>1, OnlyPurchases, StudyAssumption
  <1>3. StudyClose \in Int /\ StudyAtr \in Int
    BY StudyAssumption
  <1>4. /\ signal.features = f /\ signal.side = "BUY" /\ signal.entry = StudyClose
        /\ signal.stop = StudyClose - 1 * StudyAtr /\ signal.target = StudyClose + 2 * 1 * StudyAtr
    BY <1>1, <1>2 DEF StudySignal
  <1>5. QED
    BY <1>1, <1>3, <1>4

\* What an outcome may be.
TrialOutcomes ==
    {o \in [result : {"NO_TRADE", "STOP_HIT", "TARGET_HIT", "EXPIRED"}, pnl : Int] :
        /\ o.result = "NO_TRADE" => o.pnl = 0
        /\ o.result = "TARGET_HIT" => o.pnl = 2 * StudyAtr
        /\ o.pnl >= -StudyAtr}

\* What became of a purchase, by its first touch and by its last candle.
LEMMA OutcomeKnown ==
    ASSUME NEW signal \in Ideas, NEW q \in Seq(ForwardCandles)
    PROVE  /\ \A m : TouchesFirst(signal, q, m) =>
                 ForwardOutcome(signal, q) =
                    IF Stops(signal, q[m]) THEN [result |-> "STOP_HIT", pnl |-> -StudyAtr]
                    ELSE [result |-> "TARGET_HIT", pnl |-> 2 * StudyAtr]
           /\ (\A m : ~TouchesFirst(signal, q, m)) =>
                 /\ \A j \in DOMAIN q : ~Touches(signal, q[j])
                 /\ \E p \in Int : /\ ForwardOutcome(signal, q) = [result |-> "EXPIRED", pnl |-> p]
                                   /\ -StudyAtr < p /\ p < 2 * StudyAtr
  <1>1. StudyClose \in Int /\ StudyAtr \in Nat \ {0}
    BY StudyAssumption
  <1>2. /\ signal.side = "BUY" /\ signal.entry = StudyClose
        /\ signal.stop = StudyClose - StudyAtr /\ signal.target = StudyClose + 2 * StudyAtr
    BY IdeaIs
  <1>3. Len(q) \in Nat /\ DOMAIN q = 1 .. Len(q)
    OBVIOUS
  <1>4. ASSUME NEW m, TouchesFirst(signal, q, m)
        PROVE  ForwardOutcome(signal, q) =
                  IF Stops(signal, q[m]) THEN [result |-> "STOP_HIT", pnl |-> -StudyAtr]
                  ELSE [result |-> "TARGET_HIT", pnl |-> 2 * StudyAtr]
    <2>1. ForwardOutcome(signal, q) =
             IF Stops(signal, q[m])
             THEN [result |-> "STOP_HIT", pnl |-> 1 * (signal.stop - signal.entry)]
             ELSE [result |-> "TARGET_HIT", pnl |-> 1 * (signal.target - signal.entry)]
      BY <1>2, <1>3, <1>4, OutcomeIs
    <2>2. 1 * (signal.stop - signal.entry) = -StudyAtr /\ 1 * (signal.target - signal.entry) = 2 * StudyAtr
      BY <1>1, <1>2
    <2>3. QED
      BY <2>1, <2>2
  <1>5. ASSUME \A m : ~TouchesFirst(signal, q, m)
        PROVE  /\ \A j \in DOMAIN q : ~Touches(signal, q[j])
               /\ \E p \in Int : /\ ForwardOutcome(signal, q) = [result |-> "EXPIRED", pnl |-> p]
                                 /\ -StudyAtr < p /\ p < 2 * StudyAtr
    <2>1. /\ \A j \in DOMAIN q : ~Touches(signal, q[j])
          /\ ForwardOutcome(signal, q) =
                [result |-> "EXPIRED",
                 pnl |-> IF q = <<>> THEN 0 ELSE 1 * (Last(q).close - signal.entry)]
      BY <1>2, <1>3, <1>5, OutcomeIs
    <2>2. CASE q = <<>>
      BY <1>1, <2>1, <2>2
    <2>3. CASE q # <<>>
      <3>1. Len(q) \in DOMAIN q
        BY <1>3, <2>3
      <3>2. PICK b \in ForwardCandles : b = q[Len(q)]
        BY <3>1
      <3>3. {b.high, b.low, b.close} \subseteq Int /\ b.low <= b.close /\ b.close <= b.high
        BY StudyAssumption DEF IsCandle
      <3>4. ~(b.low <= StudyClose - StudyAtr) /\ ~(b.high >= StudyClose + 2 * StudyAtr)
        <4>1. ~Touches(signal, b)
          BY <2>1, <3>1, <3>2
        <4>2. QED
          BY <1>2, <4>1 DEF Touches, Stops, Reaches
      <3>5. Last(q) = b
        BY <3>2 DEF Last
      <3>6. PICK p \in Int : p = 1 * (b.close - StudyClose)
        BY <1>1, <3>3
      <3>7. -StudyAtr < p /\ p < 2 * StudyAtr
        BY <1>1, <3>3, <3>4, <3>6
      <3>8. ForwardOutcome(signal, q) = [result |-> "EXPIRED", pnl |-> p]
        BY <1>2, <2>1, <2>3, <3>5, <3>6
      <3>9. QED
        BY <2>1, <3>7, <3>8
    <2>4. QED
      BY <2>2, <2>3
  <1>6. QED
    BY <1>4, <1>5

LEMMA OutcomeFits ==
    ASSUME NEW signal \in Ideas, NEW q \in Seq(ForwardCandles)
    PROVE  /\ ForwardOutcome(signal, q) \in TrialOutcomes
           /\ ForwardOutcome(signal, q).pnl \in -StudyAtr .. 2 * StudyAtr
           /\ ForwardOutcome(signal, q).result = "EXPIRED" =>
                 ForwardOutcome(signal, q).pnl \notin {-StudyAtr, 2 * StudyAtr}
  <1>1. StudyAtr \in Nat \ {0}
    BY StudyAssumption
  <1>2. \/ ForwardOutcome(signal, q) = [result |-> "STOP_HIT", pnl |-> -StudyAtr]
        \/ ForwardOutcome(signal, q) = [result |-> "TARGET_HIT", pnl |-> 2 * StudyAtr]
        \/ \E p \in Int : /\ ForwardOutcome(signal, q) = [result |-> "EXPIRED", pnl |-> p]
                          /\ -StudyAtr < p /\ p < 2 * StudyAtr
    BY OutcomeKnown
  <1>3. PICK o : o = ForwardOutcome(signal, q)
    OBVIOUS
  <1>4. CASE o = [result |-> "STOP_HIT", pnl |-> -StudyAtr]
    <2>1. o.result = "STOP_HIT" /\ o.pnl = -StudyAtr
      BY <1>4
    <2>2. QED
      BY <1>1, <1>3, <1>4, <2>1 DEF TrialOutcomes
  <1>5. CASE o = [result |-> "TARGET_HIT", pnl |-> 2 * StudyAtr]
    <2>1. o.result = "TARGET_HIT" /\ o.pnl = 2 * StudyAtr
      BY <1>5
    <2>2. QED
      BY <1>1, <1>3, <1>5, <2>1 DEF TrialOutcomes
  <1>6. CASE \E p \in Int : /\ o = [result |-> "EXPIRED", pnl |-> p]
                            /\ -StudyAtr < p /\ p < 2 * StudyAtr
    <2>1. PICK p \in Int : /\ o = [result |-> "EXPIRED", pnl |-> p]
                            /\ -StudyAtr < p /\ p < 2 * StudyAtr
      BY <1>6
    <2>2. o.result = "EXPIRED" /\ o.pnl = p
      BY <2>1
    <2>3. QED
      BY <1>1, <1>3, <2>1, <2>2 DEF TrialOutcomes
  <1>7. QED
    BY <1>2, <1>3, <1>4, <1>5, <1>6

Begins(p, q, n) == n \in 0 .. Len(q) /\ DOMAIN p = 1 .. n /\ \A i \in 1 .. n : p[i] = q[i]

LEMMA PrefixIs ==
    ASSUME NEW q \in Seq(ForwardCandles), NEW n \in 0 .. Len(q)
    PROVE  SubSeq(q, 1, n) \in Seq(ForwardCandles) /\ Begins(SubSeq(q, 1, n), q, n)
  <1>1. Len(q) \in Nat /\ DOMAIN q = 1 .. Len(q) /\ 1 .. n \subseteq DOMAIN q
    OBVIOUS
  <1>2. SubSeq(q, 1, n) \in Seq(ForwardCandles)
    BY <1>1
  <1>3. Len(SubSeq(q, 1, n)) = n /\ DOMAIN SubSeq(q, 1, n) = 1 .. n
    BY <1>1
  <1>4. \A i \in 1 .. n : SubSeq(q, 1, n)[i] = q[i]
    BY <1>1
  <1>5. QED
    BY <1>2, <1>3, <1>4 DEF Begins

\* What touches first in a part touches first in the whole.
LEMMA FirstOfPrefix ==
    ASSUME NEW signal, NEW q \in Seq(ForwardCandles), NEW n, NEW p, Begins(p, q, n),
           NEW m, TouchesFirst(signal, p, m)
    PROVE  TouchesFirst(signal, q, m) /\ p[m] = q[m]
  <1>1. n \in 0 .. Len(q) /\ DOMAIN p = 1 .. n /\ \A i \in 1 .. n : p[i] = q[i]
    BY DEF Begins
  <1>2. m \in 1 .. n /\ Touches(signal, p[m]) /\ \A j \in 1 .. n : j < m => ~Touches(signal, p[j])
    BY <1>1 DEF TouchesFirst
  <1>3. DOMAIN q = 1 .. Len(q) /\ m \in 1 .. Len(q)
    BY <1>1, <1>2
  <1>4. ASSUME NEW j \in 1 .. Len(q), j < m PROVE ~Touches(signal, q[j])
    <2>1. j \in 1 .. n
      BY <1>1, <1>2, <1>4
    <2>2. QED
      BY <1>1, <1>2, <1>4, <2>1
  <1>5. Touches(signal, q[m]) /\ p[m] = q[m]
    BY <1>1, <1>2
  <1>6. QED
    BY <1>3, <1>4, <1>5 DEF TouchesFirst

LEMMA Unhindsighted ==
    ASSUME NEW signal \in Ideas, idea = <<signal>>, followed \in Seq(ForwardCandles)
    PROVE  TrialsArePessimistic
  <1> DEFINE after(n) == ForwardOutcome(signal, SubSeq(followed, 1, n))
             now      == ForwardOutcome(signal, followed)
  <1>1. ASSUME NEW n \in 0 .. Len(followed), after(n).result # "EXPIRED" PROVE after(n) = now
    <2>1. PICK p \in Seq(ForwardCandles) : p = SubSeq(followed, 1, n) /\ Begins(p, followed, n)
      BY PrefixIs
    <2>2. PICK m : TouchesFirst(signal, p, m)
      <3>1. SUFFICES ASSUME \A m : ~TouchesFirst(signal, p, m) PROVE FALSE
        OBVIOUS
      <3>2. \E x \in Int : ForwardOutcome(signal, p) = [result |-> "EXPIRED", pnl |-> x]
        BY <3>1, OutcomeKnown
      <3>3. QED
        BY <1>1, <2>1, <3>2
    <2>3. TouchesFirst(signal, followed, m) /\ p[m] = followed[m]
      <3>1. Begins(p, followed, n)
        BY <2>1
      <3>2. QED
        BY <2>2, <3>1, FirstOfPrefix
    <2>4. ForwardOutcome(signal, p) =
             IF Stops(signal, p[m]) THEN [result |-> "STOP_HIT", pnl |-> -StudyAtr]
             ELSE [result |-> "TARGET_HIT", pnl |-> 2 * StudyAtr]
      BY <2>2, OutcomeKnown
    <2>5. now = IF Stops(signal, followed[m]) THEN [result |-> "STOP_HIT", pnl |-> -StudyAtr]
                ELSE [result |-> "TARGET_HIT", pnl |-> 2 * StudyAtr]
      BY <2>3, OutcomeKnown
    <2>6. QED
      BY <2>1, <2>3, <2>4, <2>5
  <1>2. ASSUME now.result = "TARGET_HIT"
        PROVE  \E i \in DOMAIN followed :
                  Reaches(signal, followed[i]) /\ \A j \in 1 .. i : ~Stops(signal, followed[j])
    <2>1. PICK m : TouchesFirst(signal, followed, m)
      <3>1. SUFFICES ASSUME \A m : ~TouchesFirst(signal, followed, m) PROVE FALSE
        OBVIOUS
      <3>2. \E x \in Int : now = [result |-> "EXPIRED", pnl |-> x]
        BY <3>1, OutcomeKnown
      <3>3. QED
        BY <1>2, <3>2
    <2>2. now = IF Stops(signal, followed[m]) THEN [result |-> "STOP_HIT", pnl |-> -StudyAtr]
                ELSE [result |-> "TARGET_HIT", pnl |-> 2 * StudyAtr]
      BY <2>1, OutcomeKnown
    <2>3. ~Stops(signal, followed[m])
      BY <1>2, <2>2
    <2>4. m \in DOMAIN followed /\ DOMAIN followed = 1 .. Len(followed) /\ Reaches(signal, followed[m])
      BY <2>1, <2>3 DEF TouchesFirst, Touches
    <2>5. ASSUME NEW j \in 1 .. m PROVE ~Stops(signal, followed[j])
      <3>1. j \in DOMAIN followed /\ (j < m \/ j = m)
        BY <2>4
      <3>2. QED
        BY <2>1, <2>3, <3>1 DEF TouchesFirst, Touches
    <2>6. QED
      BY <2>4, <2>5
  <1>3. /\ now.pnl \in -StudyAtr .. 2 * StudyAtr
        /\ now.result = "EXPIRED" => now.pnl \notin {-StudyAtr, 2 * StudyAtr}
    BY OutcomeFits
  <1>4. idea[1] = signal
    OBVIOUS
  <1> HIDE DEF after, now
  <1>5. QED
    BY <1>1, <1>2, <1>3, <1>4 DEF TrialsArePessimistic, after, now

LEMMA OnlyBuys ==
    ASSUME NEW signal \in Ideas, idea = <<signal>>
    PROVE  EnsembleBuysOnly
  <1>1. signal.features \in StudyFeatures /\ StudyDecision(signal.features) # "NO_TRADE"
        /\ signal.side = "BUY" /\ idea[1] = signal
    BY IdeaIs
  <1>2. IsFeatures(signal.features)
    BY <1>1, StudyAssumption
  <1>3. QED
    BY <1>1, <1>2, OnlyPurchases DEF EnsembleBuysOnly

(***************************************************************************)
(* The summary of a backtest.                                              *)
(***************************************************************************)
\* Some of the trials, and what they came to.
With(ts, r) == {i \in DOMAIN ts : ts[i].result = r}

TrialSum(ts, I) == SumFunction([i \in I |-> ts[i].pnl])

LEMMA TrialsKnown ==
    ASSUME NEW ts \in Seq(TrialOutcomes), NEW I, I \subseteq DOMAIN ts
    PROVE  /\ IsFiniteSet(I) /\ Cardinality(I) \in Nat
           /\ Summable([i \in I |-> ts[i].pnl], I) /\ TrialSum(ts, I) \in Int
           /\ \A i \in I : ts[i] \in TrialOutcomes
  <1>1. Len(ts) \in Nat /\ DOMAIN ts = 1 .. Len(ts) /\ \A i \in DOMAIN ts : ts[i] \in TrialOutcomes
    OBVIOUS
  <1>2. IsFiniteSet(I) /\ Cardinality(I) \in Nat
    <2>1. IsFiniteSet(1 .. Len(ts))
      BY <1>1, FS_Interval
    <2>2. IsFiniteSet(DOMAIN ts)
      BY <1>1, <2>1
    <2>3. IsFiniteSet(I)
      BY <2>2, FS_Subset
    <2>4. QED
      BY <2>3, FS_CardinalityType
  <1>3. \A i \in I : ts[i].pnl \in Int
    BY <1>1 DEF TrialOutcomes
  <1>4. Summable([i \in I |-> ts[i].pnl], I)
    BY <1>2, <1>3 DEF Summable
  <1>5. QED
    BY <1>1, <1>2, <1>4, SumType DEF TrialSum

LEMMA TrialParts ==
    ASSUME NEW ts \in Seq(TrialOutcomes), NEW I, I \subseteq DOMAIN ts, NEW J, J \subseteq I,
           NEW K, K = I \ J
    PROVE  /\ TrialSum(ts, I) = TrialSum(ts, J) + TrialSum(ts, K)
           /\ Cardinality(K) = Cardinality(I) - Cardinality(J)
  <1> DEFINE f(M) == [i \in M |-> ts[i].pnl]
  <1>1. Summable(f(I), I) /\ Summable(f(J), J) /\ Summable(f(K), K)
    BY TrialsKnown
  <1>2. SplitsInto(I, J, K)
    BY DEF SplitsInto
  <1>3. Agree(f(I), f(J), J) /\ Agree(f(I), f(K), K)
    BY DEF Agree
  <1>4. SumFunction(f(I)) = SumFunction(f(J)) + SumFunction(f(K))
    <2> HIDE DEF f
    <2>1. QED
      BY <1>1, <1>2, <1>3, SumUnion
  <1>5. Cardinality(K) = Cardinality(I) - Cardinality(J)
    <2>1. IsFiniteSet(I) /\ I \cap J = J
      BY TrialsKnown
    <2>2. Cardinality(I \ J) = Cardinality(I) - Cardinality(I \cap J)
      BY <2>1, FS_Difference
    <2>3. QED
      BY <2>1, <2>2
  <1>6. QED
    BY <1>4, <1>5 DEF TrialSum

\* The trials of which each came to c, or to c at least.
LEMMA TrialsOf ==
    ASSUME NEW ts \in Seq(TrialOutcomes), NEW I, I \subseteq DOMAIN ts, NEW c \in Int
    PROVE  /\ (\A i \in I : ts[i].pnl = c) => TrialSum(ts, I) = c * Cardinality(I)
           /\ (\A i \in I : ts[i].pnl >= c) => TrialSum(ts, I) >= c * Cardinality(I)
  <1> DEFINE f == [i \in I |-> ts[i].pnl]
             g == [i \in I |-> c]
  <1>1. Summable(f, I) /\ Cardinality(I) \in Nat /\ IsFiniteSet(I)
    BY TrialsKnown
  <1>2. TrialSum(ts, I) = SumFunction(f)
    BY DEF TrialSum
  <1>3. ASSUME \A i \in I : ts[i].pnl = c PROVE SumFunction(f) = c * Cardinality(I)
    <2>1. \A i \in I : f[i] = c
      BY <1>3
    <2> HIDE DEF f
    <2>2. QED
      BY <1>1, <2>1, SumConstant
  <1>4. ASSUME \A i \in I : ts[i].pnl >= c PROVE SumFunction(f) >= c * Cardinality(I)
    <2>1. Summable(g, I) /\ \A i \in I : g[i] = c
      BY <1>1 DEF Summable
    <2>2. \A i \in I : f[i] \in Int
      BY <1>1 DEF Summable
    <2>3. PICK k \in Int : k = 1
      OBVIOUS
    <2>4. \A i \in I : g[i] * k <= f[i] * k
      BY <1>4, <2>1, <2>2, <2>3
    <2> HIDE DEF f, g
    <2>5. SumFunction(g) = c * Cardinality(I)
      BY <2>1, SumConstant
    <2>6. SumFunction(g) * k <= SumFunction(f) * k
      BY <1>1, <2>1, <2>4, SumCompares
    <2>7. SumFunction(g) \in Int /\ SumFunction(f) \in Int
      BY <1>1, <2>1, SumType
    <2>8. QED
      BY <2>3, <2>5, <2>6, <2>7
  <1>5. QED
    BY <1>2, <1>3, <1>4

LEMMA WholeSummary ==
    ASSUME trials \in Seq(TrialOutcomes)
    PROVE  SummaryIsWhole
  <1> DEFINE D == DOMAIN trials
             H == With(trials, "TARGET_HIT")
             M == D \ H
             N == With(trials, "NO_TRADE")
             O == M \ N
  <1>1. Len(trials) \in Nat /\ D = 1 .. Len(trials) /\ H \subseteq D /\ N \subseteq M /\ M \subseteq D /\ O \subseteq D
    BY DEF With
  <1>2. Cardinality(D) = Len(trials)
    <2>1. Cardinality(1 .. Len(trials)) = IF 1 > Len(trials) THEN 0 ELSE Len(trials) - 1 + 1
      BY <1>1, FS_Interval
    <2>2. QED
      BY <1>1, <2>1
  <1>3. /\ \A i \in H : trials[i].pnl = 2 * StudyAtr
        /\ \A i \in N : trials[i].pnl = 0
        /\ \A i \in O : trials[i].pnl >= -StudyAtr
    BY <1>1, TrialsKnown DEF TrialOutcomes, With
  <1>4. PICK total : total = TrialSum(trials, D)
    OBVIOUS
  <1>5. /\ SumFunction([i \in DOMAIN trials |-> trials[i].pnl]) = total
        /\ ResultCount(trials, "TARGET_HIT") = Cardinality(H)
        /\ ResultCount(trials, "NO_TRADE") = Cardinality(N)
    BY <1>4 DEF TrialSum, ResultCount, With
  <1> HIDE DEF D, H, M, N, O
  <1>6. PICK h \in Nat, n \in Nat, o \in Nat :
            h = Cardinality(H) /\ n = Cardinality(N) /\ o = Cardinality(O)
    <2>1. N \subseteq D
      BY <1>1
    <2>2. Cardinality(H) \in Nat /\ Cardinality(N) \in Nat /\ Cardinality(O) \in Nat
      BY <1>1, <2>1, TrialsKnown DEF D
    <2>3. QED
      BY <2>2
  <1>7. PICK a \in Nat \ {0} : a = StudyAtr
    BY StudyAssumption
  <1>8. /\ TrialSum(trials, D) = TrialSum(trials, H) + TrialSum(trials, M)
        /\ Cardinality(M) = Len(trials) - h
    <2>1. M = D \ H
      BY DEF M
    <2>2. /\ TrialSum(trials, D) = TrialSum(trials, H) + TrialSum(trials, M)
          /\ Cardinality(M) = Cardinality(D) - Cardinality(H)
      <3>1. D \subseteq DOMAIN trials
        BY DEF D
      <3>2. QED
        BY <1>1, <2>1, <3>1, TrialParts
    <2>3. QED
      BY <1>2, <1>6, <2>2
  <1>9. /\ TrialSum(trials, M) = TrialSum(trials, N) + TrialSum(trials, O)
        /\ o = Cardinality(M) - n
    <2>1. O = M \ N
      BY DEF O
    <2>2. /\ TrialSum(trials, M) = TrialSum(trials, N) + TrialSum(trials, O)
          /\ Cardinality(O) = Cardinality(M) - Cardinality(N)
      <3>1. M \subseteq DOMAIN trials
        BY <1>1 DEF D
      <3>2. QED
        BY <1>1, <2>1, <3>1, TrialParts
    <2>3. QED
      BY <1>6, <2>2
  <1>10. /\ TrialSum(trials, H) = (2 * a) * h /\ TrialSum(trials, N) = 0 * n
         /\ TrialSum(trials, O) >= (-a) * o
    <2>1. N \subseteq D
      BY <1>1
    <2>2. 2 * a \in Int /\ 0 \in Int /\ -a \in Int
      OBVIOUS
    <2>3. TrialSum(trials, H) = (2 * a) * h
      BY <1>1, <1>3, <1>6, <1>7, <2>2, TrialsOf DEF D
    <2>4. TrialSum(trials, N) = 0 * n
      BY <1>1, <1>3, <1>6, <2>1, <2>2, TrialsOf DEF D
    <2>5. TrialSum(trials, O) >= (-a) * o
      BY <1>1, <1>3, <1>6, <1>7, <2>2, TrialsOf DEF D
    <2>6. QED
      BY <2>3, <2>4, <2>5
  <1>11. TrialSum(trials, H) \in Int /\ TrialSum(trials, N) \in Int /\ TrialSum(trials, O) \in Int
    <2>1. N \subseteq D
      BY <1>1
    <2>2. QED
      BY <1>1, <2>1, TrialsKnown DEF D
  <1>12. o = Len(trials) - n - h
    BY <1>1, <1>6, <1>8, <1>9
  <1>13. total >= (2 * h - o) * a
    <2>1. (2 * h - o) * a = (2 * a) * h + (-a) * o
      OBVIOUS
    <2>2. PICK x \in Int, y \in Int : x = (2 * a) * h /\ y = (-a) * o
      OBVIOUS
    <2>3. 0 * n = 0
      OBVIOUS
    <2>4. QED
      BY <1>4, <1>8, <1>9, <1>10, <1>11, <2>1, <2>2, <2>3
  <1>14. PICK s : s = Summary(trials)
    OBVIOUS
  <1>15. /\ s.total = Len(trials) /\ s.completed = Len(trials) - n /\ s.hits = h /\ s.none = n
         /\ Len(trials) - n < MinCompleted => s.accuracy = -1
    BY <1>5, <1>6, <1>14 DEF Summary
  <1>16. MinCompleted \in Nat
    BY StudyAssumption
  <1>17. s.completed - s.hits = o
    BY <1>1, <1>12, <1>15
  <1>18. s.total = s.completed + s.none /\ (s.accuracy # -1 => s.completed >= MinCompleted)
    BY <1>1, <1>15, <1>16
  <1>19. total >= (2 * s.hits - (s.completed - s.hits)) * StudyAtr
    BY <1>7, <1>13, <1>15, <1>17
  <1>20. QED
    BY <1>5, <1>14, <1>18, <1>19 DEF SummaryIsWhole

(***************************************************************************)
(* The splits of a training set.                                           *)
(***************************************************************************)
LEMMA StepsAre ==
    ASSUME NEW k \in Nat, NEW t \in Nat \ {0}, k % t = 0
    PROVE  \E q \in Int : k = q * t
  <1>1. \E q \in Nat : k = t * q
    OBVIOUS
  <1>2. PICK q \in Nat : k = t * q
    BY <1>1
  <1>3. k = q * t
    BY <1>2
  <1>4. QED
    BY <1>3

\* Two different steps are a step apart.
LEMMA StepsApart ==
    ASSUME NEW j \in Nat, NEW k \in Nat, NEW t \in Nat \ {0}, j % t = 0, k % t = 0, j < k
    PROVE  j + t <= k
  <1>1. PICK a \in Int : j = a * t
    BY StepsAre
  <1>2. PICK b \in Int : k = b * t
    BY StepsAre
  <1>3. a + 1 <= b
    <2>1. SUFFICES ASSUME b <= a PROVE FALSE
      OBVIOUS
    <2>2. b * t <= a * t
      BY <2>1, MultiplesCompare
    <2>3. QED
      BY <1>1, <1>2, <2>2
  <1>4. (a + 1) * t <= b * t
    BY <1>3, MultiplesCompare
  <1>5. (a + 1) * t = a * t + t
    OBVIOUS
  <1>6. QED
    BY <1>1, <1>2, <1>4, <1>5

LEMMA SplitsApart ==
    ASSUME NEW p \in SplitPlans, judged = [kind |-> "split", of |-> p, result |-> StudySplits(p)]
    PROVE  SplitsDoNotLeak
  <1>1. {p.candles, p.train, p.test} \subseteq Nat /\ p.step \in Nat \ {0}
    BY SplitAssumption
  <1>2. \A s \in StudySplits(p) : \E k \in Nat :
            /\ k % p.step = 0 /\ k + p.train + p.test <= p.candles
            /\ s = [trainStart |-> k, trainEnd |-> k + p.train, testStart |-> k + p.train,
                    testEnd |-> k + p.train + p.test]
    BY <1>1 DEF StudySplits
  <1>3. ASSUME NEW s \in StudySplits(p) PROVE s.trainEnd = s.testStart /\ s.testEnd <= p.candles
    BY <1>2
  <1>4. ASSUME p.step >= p.test, NEW s \in StudySplits(p), NEW u \in StudySplits(p)
        PROVE  s = u \/ s.testEnd <= u.testStart \/ u.testEnd <= s.testStart
    <2>1. PICK j \in Nat : /\ j % p.step = 0
                           /\ s = [trainStart |-> j, trainEnd |-> j + p.train,
                                   testStart |-> j + p.train, testEnd |-> j + p.train + p.test]
      BY <1>2
    <2>2. PICK k \in Nat : /\ k % p.step = 0
                           /\ u = [trainStart |-> k, trainEnd |-> k + p.train,
                                   testStart |-> k + p.train, testEnd |-> k + p.train + p.test]
      BY <1>2
    <2>3. CASE j = k
      BY <2>1, <2>2, <2>3
    <2>4. CASE j < k
      <3>1. j + p.step <= k
        BY <1>1, <2>1, <2>2, <2>4, StepsApart
      <3>2. s.testEnd = j + p.train + p.test /\ u.testStart = k + p.train
        BY <2>1, <2>2
      <3>3. QED
        BY <1>1, <1>4, <3>1, <3>2
    <2>5. CASE k < j
      <3>1. k + p.step <= j
        BY <1>1, <2>1, <2>2, <2>5, StepsApart
      <3>2. u.testEnd = k + p.train + p.test /\ s.testStart = j + p.train
        BY <2>1, <2>2
      <3>3. QED
        BY <1>1, <1>4, <3>1, <3>2
    <2>6. QED
      BY <2>3, <2>4, <2>5
  <1>5. judged.of = p /\ judged.result = StudySplits(p)
    OBVIOUS
  <1>6. QED
    BY <1>3, <1>4, <1>5 DEF SplitsDoNotLeak

(***************************************************************************)
(* What a model is judged by.                                              *)
(***************************************************************************)
Checks == {"chronological", "lookahead", "leakage", "samples", "oos", "walkforward", "importance",
           "regime", "calibration"}

LEMMA FailuresAre ==
    ASSUME NEW d
    PROVE  /\ ModelFailures(d) \subseteq Checks
           /\ "chronological" \in ModelFailures(d) <=> ~Chronological(d.periods)
           /\ "lookahead" \in ModelFailures(d) <=> "future" \in d.names
           /\ "leakage" \in ModelFailures(d) <=> d.names \cap {"future", "label"} # {}
           /\ "samples" \in ModelFailures(d) <=> d.samples < MinSamples
           /\ "importance" \in ModelFailures(d) <=> d.importance = {} \/ \E v \in d.importance : v < 0
           /\ "regime" \in ModelFailures(d) <=> d.regimes = {} \/ Max(d.regimes) - Min(d.regimes) > 35
           /\ \A c \in ModelEvidence : c \in ModelFailures(d) <=> c \notin d.evidence
  <1>1. ModelFailures(d) \subseteq Checks
    BY DEF ModelFailures, Checks
  <1>2. "chronological" \in ModelFailures(d) <=> ~Chronological(d.periods)
    BY DEF ModelFailures
  <1>3. "lookahead" \in ModelFailures(d) <=> "future" \in d.names
    BY DEF ModelFailures
  <1>4. "leakage" \in ModelFailures(d) <=> d.names \cap {"future", "label"} # {}
    BY DEF ModelFailures
  <1>5. "samples" \in ModelFailures(d) <=> d.samples < MinSamples
    BY DEF ModelFailures
  <1>6. "importance" \in ModelFailures(d) <=> d.importance = {} \/ \E v \in d.importance : v < 0
    BY DEF ModelFailures
  <1>7. "regime" \in ModelFailures(d) <=> d.regimes = {} \/ Max(d.regimes) - Min(d.regimes) > 35
    BY DEF ModelFailures
  <1>8. \A c \in ModelEvidence : c \in ModelFailures(d) <=> c \notin d.evidence
    BY DEF ModelFailures, ModelEvidence
  <1>9. QED
    BY <1>1, <1>2, <1>3, <1>4, <1>5, <1>6, <1>7, <1>8

LEMMA DoubtsAre ==
    ASSUME NEW d
    PROVE  /\ RiskWarnings(d) \subseteq {"samples", "leakage", "regime", "drift", "suspicious"}
           /\ "samples" \in RiskWarnings(d) <=> "samples" \in ModelFailures(d)
           /\ "leakage" \in RiskWarnings(d) <=> ModelFailures(d) \cap {"leakage", "lookahead"} # {}
           /\ "regime" \in RiskWarnings(d) <=> "regime" \in ModelFailures(d)
           /\ "drift" \in RiskWarnings(d) <=> d.drift
           /\ "suspicious" \in RiskWarnings(d) <=> \E v \in d.metrics : v > 98
  <1>1. RiskWarnings(d) \subseteq {"samples", "leakage", "regime", "drift", "suspicious"}
    BY DEF RiskWarnings
  <1>2. "samples" \in RiskWarnings(d) <=> "samples" \in ModelFailures(d)
    BY DEF RiskWarnings
  <1>3. "leakage" \in RiskWarnings(d) <=> ModelFailures(d) \cap {"leakage", "lookahead"} # {}
    BY DEF RiskWarnings
  <1>4. "regime" \in RiskWarnings(d) <=> "regime" \in ModelFailures(d)
    BY DEF RiskWarnings
  <1>5. "drift" \in RiskWarnings(d) <=> d.drift
    BY DEF RiskWarnings
  <1>6. "suspicious" \in RiskWarnings(d) <=> \E v \in d.metrics : v > 98
    BY DEF RiskWarnings
  <1>7. QED
    BY <1>1, <1>2, <1>3, <1>4, <1>5, <1>6

LEMMA LengthIs ==
    ASSUME NEW S, NEW n \in Nat, NEW p \in [1 .. n -> S]
    PROVE  p \in Seq(S) /\ Len(p) = n
  <1>1. p \in Seq(S)
    BY SeqDef
  <1>2. Len(p) \in Nat /\ DOMAIN p = 1 .. Len(p)
    BY <1>1
  <1>3. DOMAIN p = 1 .. n
    OBVIOUS
  <1>4. QED
    BY <1>1, <1>2, <1>3

\* A model is ready on all the evidence and without a doubt.
LEMMA ReadyIsClean ==
    ASSUME NEW d \in AllDossiers, IsFiniteSet(d.regimes),
           Recommend(d) = "READY_FOR_MANUAL_RESEARCH_REVIEW"
    PROVE  /\ d.evidence = ModelEvidence /\ d.rows > 0
           /\ d.names \subseteq {"plain"} /\ ~d.drift /\ \A v \in d.metrics : v <= 98
           /\ \A v, u \in d.regimes : v - u <= 35
           /\ d.periods[1] <= d.periods[6]
  <1>1. ModelFailures(d) = {} /\ RiskWarnings(d) = {} /\ d.rows # 0
    BY DEF Recommend
  <1>2. /\ d.rows \in Nat /\ d.names \subseteq {"plain", "future", "label"}
        /\ d.periods \in [1 .. 6 -> Int] /\ d.evidence \subseteq ModelEvidence
        /\ d.regimes \subseteq Int /\ d.metrics \subseteq Int
    BY DEF AllDossiers
  <1>3. d.evidence = ModelEvidence
    <2>1. \A c \in ModelEvidence : c \in d.evidence
      BY <1>1, FailuresAre
    <2>2. QED
      BY <1>2, <2>1
  <1>4. d.names \subseteq {"plain"}
    <2>1. d.names \cap {"future", "label"} = {}
      BY <1>1, FailuresAre
    <2>2. QED
      BY <1>2, <2>1
  <1>5. ~d.drift /\ \A v \in d.metrics : v <= 98
    <2>1. ~d.drift /\ ~(\E v \in d.metrics : v > 98)
      BY <1>1, DoubtsAre
    <2>2. QED
      BY <1>2, <2>1
  <1>6. ASSUME NEW v \in d.regimes, NEW u \in d.regimes PROVE v - u <= 35
    <2>1. ~(d.regimes = {} \/ Max(d.regimes) - Min(d.regimes) > 35)
      BY <1>1, FailuresAre
    <2>2. Max(d.regimes) \in d.regimes /\ \A y \in d.regimes : Max(d.regimes) >= y
      BY <1>2, <1>6, LargestExists
    <2>3. Min(d.regimes) \in d.regimes /\ \A y \in d.regimes : Min(d.regimes) <= y
      BY <1>2, <1>6, SmallestExists
    <2>4. PICK x \in Int, y \in Int : x = Max(d.regimes) /\ y = Min(d.regimes)
      BY <1>2, <2>2, <2>3
    <2>5. v \in Int /\ u \in Int /\ x >= v /\ y <= u /\ ~(x - y > 35)
      BY <1>2, <2>1, <2>2, <2>3, <2>4
    <2>6. QED
      BY <2>5
  <1>7. d.periods[1] <= d.periods[6]
    <2>1. Chronological(d.periods)
      BY <1>1, FailuresAre
    <2>2. d.periods \in Seq(Int) /\ Len(d.periods) = 6
      <3>1. d.periods \in [1 .. 6 -> Int]
        BY <1>2
      <3>2. PICK p \in [1 .. 6 -> Int], n \in Nat : p = d.periods /\ n = 6
        BY <3>1
      <3>3. p \in [1 .. n -> Int]
        BY <3>2
      <3>4. p \in Seq(Int) /\ Len(p) = n
        BY <3>3, LengthIs
      <3>5. QED
        BY <3>2, <3>4
    <2>3. \A i \in 1 .. 5 : d.periods[i] <= d.periods[i + 1]
      BY <2>1, <2>2 DEF Chronological
    <2>4. /\ d.periods[1] <= d.periods[2] /\ d.periods[2] <= d.periods[3]
          /\ d.periods[3] <= d.periods[4] /\ d.periods[4] <= d.periods[5]
          /\ d.periods[5] <= d.periods[6]
      BY <2>3
    <2>5. \A i \in 1 .. 6 : d.periods[i] \in Int
      BY <1>2
    <2>6. QED
      BY <2>4, <2>5
  <1>8. QED
    BY <1>1, <1>2, <1>3, <1>4, <1>5, <1>6, <1>7

Rank(r) == CASE r = "REJECT_MODEL" -> 0 [] r = "COLLECT_MORE_DATA" -> 0
             [] r = "CONTINUE_RESEARCH" -> 1 [] OTHER -> 2

\* Evidence added to a dossier takes no answer back.
LEMMA EvidenceHelps ==
    ASSUME NEW d \in AllDossiers, NEW e \in ModelEvidence
    PROVE  Rank(Recommend([d EXCEPT !.evidence = @ \cup {e}])) >= Rank(Recommend(d))
  <1> DEFINE c == [d EXCEPT !.evidence = @ \cup {e}]
  <1>1. /\ c.rows = d.rows /\ c.samples = d.samples /\ c.names = d.names /\ c.periods = d.periods
        /\ c.importance = d.importance /\ c.regimes = d.regimes /\ c.metrics = d.metrics
        /\ c.drift = d.drift /\ c.evidence = d.evidence \cup {e}
    BY DEF AllDossiers
  <1> HIDE DEF c
  <1>2. /\ "chronological" \in ModelFailures(c) <=> "chronological" \in ModelFailures(d)
        /\ "lookahead" \in ModelFailures(c) <=> "lookahead" \in ModelFailures(d)
        /\ "leakage" \in ModelFailures(c) <=> "leakage" \in ModelFailures(d)
        /\ "samples" \in ModelFailures(c) <=> "samples" \in ModelFailures(d)
    BY <1>1, FailuresAre
  <1>3. /\ "importance" \in ModelFailures(c) <=> "importance" \in ModelFailures(d)
        /\ "regime" \in ModelFailures(c) <=> "regime" \in ModelFailures(d)
    BY <1>1, FailuresAre
  <1>4. \A x \in ModelEvidence : x \in ModelFailures(c) => x \in ModelFailures(d)
    BY <1>1, FailuresAre
  <1>5. ModelFailures(c) \subseteq ModelFailures(d)
    <2>1. \A x \in Checks : x \in ModelFailures(c) => x \in ModelFailures(d)
      BY <1>2, <1>3, <1>4 DEF Checks, ModelEvidence
    <2>2. QED
      BY <2>1, FailuresAre
  <1>6. RiskWarnings(c) = RiskWarnings(d)
    <2>1. \A x \in {"samples", "leakage", "regime", "drift", "suspicious"} :
             x \in RiskWarnings(c) <=> x \in RiskWarnings(d)
      <3>1. "samples" \in RiskWarnings(c) <=> "samples" \in RiskWarnings(d)
        BY <1>2, DoubtsAre
      <3>2. "leakage" \in RiskWarnings(c) <=> "leakage" \in RiskWarnings(d)
        <4>1. ModelFailures(c) \cap {"leakage", "lookahead"} # {} <=>
                 ModelFailures(d) \cap {"leakage", "lookahead"} # {}
          BY <1>2
        <4>2. QED
          BY <4>1, DoubtsAre
      <3>3. "regime" \in RiskWarnings(c) <=> "regime" \in RiskWarnings(d)
        BY <1>3, DoubtsAre
      <3>4. "drift" \in RiskWarnings(c) <=> "drift" \in RiskWarnings(d)
        BY <1>1, DoubtsAre
      <3>5. "suspicious" \in RiskWarnings(c) <=> "suspicious" \in RiskWarnings(d)
        BY <1>1, DoubtsAre
      <3>6. QED
        BY <3>1, <3>2, <3>3, <3>4, <3>5
    <2>2. QED
      BY <2>1, DoubtsAre
  <1>7. CASE d.rows = 0 \/ "samples" \in ModelFailures(d)
    <2>1. Recommend(c) = "COLLECT_MORE_DATA" /\ Recommend(d) = "COLLECT_MORE_DATA"
      BY <1>1, <1>2, <1>7 DEF Recommend
    <2>2. QED
      BY <2>1 DEF Rank, c
  <1>8. CASE /\ ~(d.rows = 0 \/ "samples" \in ModelFailures(d))
             /\ "leakage" \in RiskWarnings(d) \/ "chronological" \in ModelFailures(d)
    <2>1. Recommend(c) = "REJECT_MODEL" /\ Recommend(d) = "REJECT_MODEL"
      BY <1>1, <1>2, <1>6, <1>8 DEF Recommend
    <2>2. QED
      BY <2>1 DEF Rank, c
  <1>9. CASE /\ ~(d.rows = 0 \/ "samples" \in ModelFailures(d))
             /\ ~("leakage" \in RiskWarnings(d) \/ "chronological" \in ModelFailures(d))
    <2>1. Recommend(d) = IF ModelFailures(d) = {} /\ RiskWarnings(d) = {}
                         THEN "READY_FOR_MANUAL_RESEARCH_REVIEW" ELSE "CONTINUE_RESEARCH"
      BY <1>9 DEF Recommend
    <2>2. Recommend(c) = IF ModelFailures(c) = {} /\ RiskWarnings(d) = {}
                         THEN "READY_FOR_MANUAL_RESEARCH_REVIEW" ELSE "CONTINUE_RESEARCH"
      BY <1>1, <1>2, <1>6, <1>9 DEF Recommend
    <2>3. ModelFailures(d) = {} => ModelFailures(c) = {}
      BY <1>5
    <2>4. Rank("CONTINUE_RESEARCH") = 1 /\ Rank("READY_FOR_MANUAL_RESEARCH_REVIEW") = 2
      BY DEF Rank
    <2>5. CASE ModelFailures(d) = {} /\ RiskWarnings(d) = {}
      BY <2>1, <2>2, <2>3, <2>4, <2>5 DEF c
    <2>6. CASE ~(ModelFailures(d) = {} /\ RiskWarnings(d) = {})
      <3>1. Recommend(d) = "CONTINUE_RESEARCH"
        BY <2>1, <2>6
      <3>2. Recommend(c) \in {"CONTINUE_RESEARCH", "READY_FOR_MANUAL_RESEARCH_REVIEW"}
        BY <2>2
      <3>3. QED
        BY <2>4, <3>1, <3>2 DEF c
    <2>7. QED
      BY <2>5, <2>6
  <1>10. QED
    BY <1>7, <1>8, <1>9

LEMMA CleanModels ==
    ASSUME NEW d \in Dossiers, judged = [kind |-> "model", of |-> d, result |-> Recommend(d)]
    PROVE  ReadyModelsAreClean
  <1>1. d \in AllDossiers /\ IsFiniteSet(d.regimes)
    BY DossierAssumption
  <1>2. judged.of = d /\ judged.result = Recommend(d)
    OBVIOUS
  <1>3. Recommend(d) = "READY_FOR_MANUAL_RESEARCH_REVIEW" =>
           /\ d.evidence = ModelEvidence /\ d.rows > 0
           /\ d.names \subseteq {"plain"} /\ ~d.drift /\ \A v \in d.metrics : v <= 98
           /\ \A v, u \in d.regimes : v - u <= 35
           /\ d.periods[1] <= d.periods[6]
    BY <1>1, ReadyIsClean
  <1>4. \A e \in ModelEvidence :
           Rank(Recommend([d EXCEPT !.evidence = @ \cup {e}])) >= Rank(Recommend(d))
    BY <1>1, EvidenceHelps
  <1>5. QED
    BY <1>2, <1>3, <1>4, Zenon DEF ReadyModelsAreClean, Rank

(***************************************************************************)
(* The catalog.                                                            *)
(***************************************************************************)
\* Every dataset is under a known contract, and every feature made of known datasets.
CatalogKept ==
    /\ catalog = [contracts |-> catalog.contracts, datasets |-> catalog.datasets,
                  features |-> catalog.features]
    /\ \A d \in DOMAIN catalog.datasets : catalog.datasets[d] \in catalog.contracts
    /\ \A f \in DOMAIN catalog.features :
          catalog.features[f] # {} /\ catalog.features[f] \subseteq DOMAIN catalog.datasets

LEMMA ContractKeeps ==
    ASSUME CatalogKept, NEW c, RegisterContract(c)
    PROVE  CatalogKept'
  <1>1. catalog' = [contracts |-> catalog.contracts \cup {c}, datasets |-> catalog.datasets,
                    features |-> catalog.features]
    BY DEF CatalogKept, RegisterContract
  <1>2. /\ catalog'.contracts = catalog.contracts \cup {c} /\ catalog'.datasets = catalog.datasets
        /\ catalog'.features = catalog.features
    BY <1>1
  <1>3. \A d \in DOMAIN catalog'.datasets : catalog'.datasets[d] \in catalog'.contracts
    BY <1>2 DEF CatalogKept
  <1>4. \A f \in DOMAIN catalog'.features :
           catalog'.features[f] # {} /\ catalog'.features[f] \subseteq DOMAIN catalog'.datasets
    BY <1>2 DEF CatalogKept
  <1>5. QED
    BY <1>1, <1>2, <1>3, <1>4 DEF CatalogKept

LEMMA DatasetKeeps ==
    ASSUME CatalogKept, NEW d, NEW c, RegisterDataset(d, c)
    PROVE  CatalogKept'
  <1> DEFINE g == [x \in DOMAIN catalog.datasets \cup {d} |-> IF x = d THEN c ELSE catalog.datasets[x]]
  <1>1. catalog' = [contracts |-> catalog.contracts, datasets |-> g, features |-> catalog.features]
    BY DEF CatalogKept, RegisterDataset
  <1>2. c \in catalog.contracts
    BY DEF RegisterDataset
  <1>3. DOMAIN g = DOMAIN catalog.datasets \cup {d}
    OBVIOUS
  <1>4. \A x \in DOMAIN g : g[x] \in catalog.contracts
    BY <1>2 DEF CatalogKept
  <1> HIDE DEF g
  <1>5. /\ catalog'.contracts = catalog.contracts /\ catalog'.datasets = g
        /\ catalog'.features = catalog.features
    BY <1>1
  <1>6. \A f \in DOMAIN catalog'.features :
           catalog'.features[f] # {} /\ catalog'.features[f] \subseteq DOMAIN catalog'.datasets
    BY <1>3, <1>5 DEF CatalogKept
  <1>7. \A x \in DOMAIN catalog'.datasets : catalog'.datasets[x] \in catalog'.contracts
    BY <1>4, <1>5
  <1>8. QED
    BY <1>1, <1>5, <1>6, <1>7 DEF CatalogKept

LEMMA FeatureKeeps ==
    ASSUME CatalogKept, NEW f, NEW sources, RegisterFeature(f, sources)
    PROVE  CatalogKept'
  <1> DEFINE g == [x \in DOMAIN catalog.features \cup {f} |->
                      IF x = f THEN sources ELSE catalog.features[x]]
  <1>1. catalog' = [contracts |-> catalog.contracts, datasets |-> catalog.datasets, features |-> g]
    BY DEF CatalogKept, RegisterFeature
  <1>2. sources # {} /\ sources \subseteq DOMAIN catalog.datasets
    BY DEF RegisterFeature
  <1>3. \A x \in DOMAIN g : g[x] # {} /\ g[x] \subseteq DOMAIN catalog.datasets
    BY <1>2 DEF CatalogKept
  <1> HIDE DEF g
  <1>4. /\ catalog'.contracts = catalog.contracts /\ catalog'.datasets = catalog.datasets
        /\ catalog'.features = g
    BY <1>1
  <1>5. \A x \in DOMAIN catalog'.datasets : catalog'.datasets[x] \in catalog'.contracts
    BY <1>4 DEF CatalogKept
  <1>6. \A x \in DOMAIN catalog'.features :
           catalog'.features[x] # {} /\ catalog'.features[x] \subseteq DOMAIN catalog'.datasets
    BY <1>3, <1>4
  <1>7. QED
    BY <1>1, <1>4, <1>5, <1>6 DEF CatalogKept

LEMMA CatalogKeeps == CatalogKept /\ CatalogNext => CatalogKept'
  <1>1. SUFFICES ASSUME CatalogKept, CatalogNext PROVE CatalogKept'
    OBVIOUS
  <1>2. CASE \E c \in Contracts : RegisterContract(c)
    BY <1>1, <1>2, ContractKeeps
  <1>3. CASE \E d \in Datasets, c \in Contracts : RegisterDataset(d, c)
    BY <1>1, <1>3, DatasetKeeps
  <1>4. CASE \E f \in Features, s \in SUBSET Datasets : RegisterFeature(f, s)
    BY <1>1, <1>4, FeatureKeeps
  <1>5. QED
    BY <1>1, <1>2, <1>3, <1>4 DEF CatalogNext

LEMMA LineageFollows == CatalogKept => LineageNeverDangles
  BY DEF CatalogKept, LineageNeverDangles

(***************************************************************************)
(* Validation and research, step by step.                                  *)
(***************************************************************************)
ValidationKept ==
    /\ trades \in Seq(Closings)
    /\ verdict # <<>> =>
          \E e \in Evidences :
             verdict = [gate |-> GateVerdict(trades, e), robust |-> Recommendation(trades, e),
                        evidence |-> e]
    /\ folds # <<>> =>
          \E w \in Windows :
             w.train > 0 /\ w.test > 0 /\ folds = [asked |-> w, splits |-> Splits(w)]

StudyKept ==
    /\ followed \in Seq(ForwardCandles) /\ trials \in Seq(TrialOutcomes)
    /\ idea # <<>> => \E signal \in Ideas : idea = <<signal>>

JudgedKept ==
    judged # <<>> =>
        \/ /\ judged.kind = "split"
           /\ \E p \in SplitPlans : judged = [kind |-> "split", of |-> p, result |-> StudySplits(p)]
        \/ /\ judged.kind = "model"
           /\ \E d \in Dossiers : judged = [kind |-> "model", of |-> d, result |-> Recommend(d)]

EvidenceInv == ValidationKept /\ StudyKept /\ JudgedKept /\ CatalogKept

LEMMA EvidenceInvInit == Init => EvidenceInv
  <1>1. SUFFICES ASSUME Init PROVE EvidenceInv
    OBVIOUS
  <1>2. trades = <<>> /\ verdict = <<>> /\ folds = <<>>
    BY <1>1 DEF Init, ValidationInit
  <1>3. /\ idea = <<>> /\ followed = <<>> /\ trials = <<>> /\ judged = <<>>
        /\ catalog = [contracts |-> {}, datasets |-> <<>>, features |-> <<>>]
    BY <1>1 DEF Init, ResearchInit
  <1>4. CatalogKept
    <2>1. /\ catalog.contracts = {} /\ DOMAIN catalog.datasets = {} /\ DOMAIN catalog.features = {}
          /\ catalog.datasets = <<>> /\ catalog.features = <<>>
      BY <1>3
    <2>2. QED
      BY <1>3, <2>1 DEF CatalogKept
  <1>5. QED
    BY <1>2, <1>3, <1>4 DEF EvidenceInv, ValidationKept, StudyKept, JudgedKept

LEMMA CloseTradeKeeps == ValidationKept /\ CloseTrade => ValidationKept'
  <1>1. SUFFICES ASSUME ValidationKept, CloseTrade PROVE ValidationKept'
    OBVIOUS
  <1>2. PICK t \in Closings : trades' = Append(trades, t)
    BY <1>1 DEF CloseTrade
  <1>3. trades' \in Seq(Closings)
    BY <1>1, <1>2 DEF ValidationKept
  <1>4. verdict' = <<>> /\ folds' = <<>>
    BY <1>1 DEF CloseTrade
  <1>5. QED
    BY <1>3, <1>4 DEF ValidationKept

LEMMA JudgeKeeps == ValidationKept /\ Judge => ValidationKept'
  BY DEF ValidationKept, Judge, GateVerdict, Recommendation

LEMMA WalkForwardKeeps == ValidationKept /\ WalkForward => ValidationKept'
  BY DEF ValidationKept, WalkForward

LEMMA JudgeWindowKeeps == StudyKept /\ JudgeWindow => StudyKept'
  <1>1. SUFFICES ASSUME StudyKept, JudgeWindow PROVE StudyKept'
    OBVIOUS
  <1>2. followed' \in Seq(ForwardCandles)
    BY <1>1 DEF StudyKept, JudgeWindow
  <1>3. PICK f \in StudyFeatures :
           IF StudyDecision(f) = "NO_TRADE"
           THEN trials' = Append(trials, [result |-> "NO_TRADE", pnl |-> 0]) /\ UNCHANGED idea
           ELSE idea' = <<StudySignal(f)>> /\ UNCHANGED trials
    BY <1>1 DEF JudgeWindow
  <1>4. CASE StudyDecision(f) = "NO_TRADE"
    <2> DEFINE o == [result |-> "NO_TRADE", pnl |-> 0]
    <2>1. StudyAtr \in Nat
      BY StudyAssumption
    <2>2. o \in TrialOutcomes
      BY <2>1 DEF TrialOutcomes
    <2>3. trials' = Append(trials, o) /\ idea' = idea /\ idea = <<>>
      BY <1>1, <1>3, <1>4 DEF JudgeWindow
    <2>4. trials' \in Seq(TrialOutcomes)
      BY <1>1, <2>2, <2>3 DEF StudyKept
    <2>5. QED
      BY <1>2, <2>3, <2>4 DEF StudyKept
  <1>5. CASE StudyDecision(f) # "NO_TRADE"
    <2>1. StudySignal(f) \in Ideas
      BY <1>5 DEF Ideas
    <2>2. idea' = <<StudySignal(f)>> /\ trials' = trials
      BY <1>3, <1>5
    <2>3. PICK signal \in Ideas : idea' = <<signal>>
      BY <2>1, <2>2
    <2>4. trials' \in Seq(TrialOutcomes)
      BY <1>1, <2>2 DEF StudyKept
    <2>5. QED
      BY <1>2, <2>3, <2>4 DEF StudyKept
  <1>6. QED
    BY <1>4, <1>5

LEMMA FollowCandleKeeps == StudyKept /\ FollowCandle => StudyKept'
  <1>1. SUFFICES ASSUME StudyKept, FollowCandle PROVE StudyKept'
    OBVIOUS
  <1>2. PICK b \in ForwardCandles : followed' = Append(followed, b)
    BY <1>1 DEF FollowCandle
  <1>3. followed' \in Seq(ForwardCandles)
    BY <1>1, <1>2 DEF StudyKept
  <1>4. idea' = idea /\ trials' = trials
    BY <1>1 DEF FollowCandle
  <1>5. QED
    BY <1>1, <1>3, <1>4 DEF StudyKept

LEMMA EndTrialKeeps == StudyKept /\ EndTrial => StudyKept'
  <1>1. SUFFICES ASSUME StudyKept, EndTrial PROVE StudyKept'
    OBVIOUS
  <1>2. PICK signal \in Ideas : idea = <<signal>>
    BY <1>1 DEF StudyKept, EndTrial
  <1>3. PICK o : o = ForwardOutcome(signal, followed)
    OBVIOUS
  <1>4. o \in TrialOutcomes
    BY <1>1, <1>3, OutcomeFits DEF StudyKept
  <1>5. idea[1] = signal
    BY <1>2
  <1>6. trials' = Append(trials, o) /\ idea' = <<>> /\ followed' = <<>>
    BY <1>1, <1>3, <1>5 DEF EndTrial
  <1>7. trials' \in Seq(TrialOutcomes) /\ followed' \in Seq(ForwardCandles)
    BY <1>1, <1>4, <1>6 DEF StudyKept
  <1>8. QED
    BY <1>6, <1>7 DEF StudyKept

LEMMA ReviewKeeps == SplitCandles \/ JudgeModel => JudgedKept'
  BY DEF SplitCandles, JudgeModel, JudgedKept

LEMMA EvidenceInvNext == EvidenceInv /\ [Next]_vars => EvidenceInv'
  <1> SUFFICES ASSUME EvidenceInv, [Next]_vars PROVE EvidenceInv'
    OBVIOUS
  <1>1. ValidationKept /\ StudyKept /\ JudgedKept /\ CatalogKept
    BY DEF EvidenceInv
  <1>2. ASSUME UNCHANGED validationVars PROVE ValidationKept'
    BY <1>1, <1>2 DEF validationVars, ValidationKept
  <1>3. ASSUME UNCHANGED studyVars PROVE StudyKept'
    BY <1>1, <1>3 DEF studyVars, StudyKept
  <1>4. ASSUME UNCHANGED judged PROVE JudgedKept'
    BY <1>1, <1>4 DEF JudgedKept
  <1>5. ASSUME UNCHANGED catalog PROVE CatalogKept'
    BY <1>1, <1>5 DEF CatalogKept
  <1>6. ASSUME UNCHANGED researchVars PROVE StudyKept' /\ JudgedKept' /\ CatalogKept'
    BY <1>3, <1>4, <1>5, <1>6 DEF researchVars
  <1>7. ASSUME UNCHANGED <<validationVars, researchVars>> PROVE EvidenceInv'
    BY <1>2, <1>6, <1>7 DEF EvidenceInv
  <1>8. CASE OrderStep
    BY <1>7, <1>8 DEF OrderStep, judgementDesks
  <1>9. CASE FillStep
    BY <1>7, <1>9 DEF FillStep, judgementDesks
  <1>10. CASE PortfolioStep
    BY <1>7, <1>10 DEF PortfolioStep, judgementDesks
  <1>11. CASE ValidationStep
    <2>1. StudyKept' /\ JudgedKept' /\ CatalogKept'
      BY <1>6, <1>11 DEF ValidationStep
    <2>2. ValidationKept'
      BY <1>1, <1>11, CloseTradeKeeps, JudgeKeeps, WalkForwardKeeps DEF ValidationStep
    <2>3. QED
      BY <2>1, <2>2 DEF EvidenceInv
  <1>12. CASE StrategyStep
    BY <1>7, <1>12 DEF StrategyStep
  <1>13. CASE SignalStep
    BY <1>7, <1>13 DEF SignalStep
  <1>14. CASE LiveStep
    BY <1>7, <1>14 DEF LiveStep
  <1>15. CASE ResearchStep
    <2>1. ValidationKept'
      BY <1>2, <1>15 DEF ResearchStep, judgementDesks
    <2>2. CASE StudyNext /\ UNCHANGED <<judged, catalog>>
      <3>1. StudyKept'
        BY <1>1, <2>2, JudgeWindowKeeps, FollowCandleKeeps, EndTrialKeeps DEF StudyNext
      <3>2. QED
        BY <1>4, <1>5, <2>1, <2>2, <3>1 DEF EvidenceInv
    <2>3. CASE (SplitCandles \/ JudgeModel) /\ UNCHANGED <<studyVars, catalog>>
      BY <1>3, <1>5, <2>1, <2>3, ReviewKeeps DEF EvidenceInv
    <2>4. CASE CatalogNext /\ UNCHANGED <<studyVars, judged>>
      BY <1>1, <1>3, <1>4, <2>1, <2>4, CatalogKeeps DEF EvidenceInv
    <2>5. QED
      BY <1>15, <2>2, <2>3, <2>4 DEF ResearchStep
  <1>16. CASE UNCHANGED vars
    BY <1>7, <1>16 DEF vars, judgementDesks
  <1>17. QED
    BY <1>8, <1>9, <1>10, <1>11, <1>12, <1>13, <1>14, <1>15, <1>16 DEF Next

\* A verdict is that of the closed trades and of one piece of evidence, the windows are those
\* of a request that may be answered, a study follows a signal of the ensemble and keeps the
\* outcomes of the trials before it, what was judged is a split or a dossier with its answer,
\* and the catalog knows every dataset's contract and every feature's datasets.
THEOREM EvidenceInvariantHolds == Spec => []EvidenceInv
  <1>1. Init => EvidenceInv
    BY EvidenceInvInit
  <1>2. EvidenceInv /\ [Next]_vars => EvidenceInv'
    BY EvidenceInvNext
  <1>3. QED
    BY <1>1, <1>2, PTL DEF Spec

\* What the gate passed never lost more than fifteen percent of an earlier equity, the run of
\* losses is the longest there is, a strategy recommended for review earns half of its profits
\* without any one symbol or day, no window or split tests what it trained on, the ensemble
\* only buys and is not judged in hindsight, a ready model has all its evidence and no doubt,
\* and a feature can be followed to its contracts (evaluate_go_live_gate, _max_streak,
\* StrategyRobustnessValidator.validate, walk_forward_splits, evaluate_signal,
\* _evaluate_forward_outcome, _summary, MLValidationGate.evaluate, ModelRiskReporter.generate,
\* ResearchReportGenerator.generate, MetadataCatalog.register_feature).
THEOREM EvidenceIsSound == Spec => []EvidenceSound
  <1>1. EvidenceInv => EvidenceSound
    <2>1. SUFFICES ASSUME EvidenceInv PROVE EvidenceSound
      OBVIOUS
    <2>2. trades \in Seq(Closings)
      BY <2>1 DEF EvidenceInv, ValidationKept
    <2>3. PassedTradesArePassable
      <3>1. SUFFICES ASSUME verdict # <<>> /\ verdict.gate = "PASS"
                     PROVE  LET equity == Equity(trades)
                            IN /\ equity[Len(equity)] > equity[1] /\ Len(trades) >= MinTrades
                               /\ \A i, j \in DOMAIN equity :
                                     i < j => (equity[i] - equity[j]) * 100 <= 15 * equity[i]
        BY DEF PassedTradesArePassable
      <3>2. PICK e \in Evidences :
               verdict = [gate |-> GateVerdict(trades, e), robust |-> Recommendation(trades, e),
                          evidence |-> e]
        BY <2>1, <3>1 DEF EvidenceInv, ValidationKept
      <3>3. GateVerdict(trades, e) = "PASS"
        BY <3>1, <3>2
      <3>4. QED
        BY <2>2, <3>3, PassedIsPassable
    <2>4. LosingRunIsLongest
      BY <2>2, LongestIsLongest
    <2>5. ReviewIsEvidenced
      <3>1. CASE verdict = <<>>
        BY <3>1 DEF ReviewIsEvidenced
      <3>2. CASE verdict # <<>>
        <4>1. PICK e \in Evidences :
                 verdict = [gate |-> GateVerdict(trades, e), robust |-> Recommendation(trades, e),
                            evidence |-> e]
          BY <2>1, <3>2 DEF EvidenceInv, ValidationKept
        <4>2. verdict.evidence = e /\ verdict.robust = Recommendation(trades, e)
          BY <4>1
        <4>3. QED
          BY <2>2, <4>2, ReviewHasEvidence
      <3>3. QED
        BY <3>1, <3>2
    <2>6. WindowsDoNotLeak
      <3>1. CASE folds = <<>>
        BY <3>1 DEF WindowsDoNotLeak
      <3>2. CASE folds # <<>>
        BY <2>1, <3>2, WindowsApart DEF EvidenceInv, ValidationKept
      <3>3. QED
        BY <3>1, <3>2
    <2>7. followed \in Seq(ForwardCandles) /\ trials \in Seq(TrialOutcomes)
      BY <2>1 DEF EvidenceInv, StudyKept
    <2>8. EnsembleBuysOnly /\ TrialsArePessimistic
      <3>1. CASE idea = <<>>
        BY <3>1 DEF EnsembleBuysOnly, TrialsArePessimistic
      <3>2. CASE idea # <<>>
        BY <2>1, <2>7, <3>2, OnlyBuys, Unhindsighted DEF EvidenceInv, StudyKept
      <3>3. QED
        BY <3>1, <3>2
    <2>9. SummaryIsWhole
      BY <2>7, WholeSummary
    <2>10. SplitsDoNotLeak /\ ReadyModelsAreClean
      <3>1. CASE judged = <<>>
        BY <3>1 DEF SplitsDoNotLeak, ReadyModelsAreClean
      <3>2. ASSUME NEW p \in SplitPlans,
                   judged = [kind |-> "split", of |-> p, result |-> StudySplits(p)]
            PROVE  SplitsDoNotLeak /\ ReadyModelsAreClean
        <4>1. judged.kind # "model"
          BY <3>2
        <4>2. QED
          BY <3>2, <4>1, SplitsApart DEF ReadyModelsAreClean
      <3>3. ASSUME NEW d \in Dossiers,
                   judged = [kind |-> "model", of |-> d, result |-> Recommend(d)]
            PROVE  SplitsDoNotLeak /\ ReadyModelsAreClean
        <4>1. judged.kind # "split"
          BY <3>3
        <4>2. QED
          BY <3>3, <4>1, CleanModels DEF SplitsDoNotLeak
      <3>4. QED
        BY <2>1, <3>1, <3>2, <3>3 DEF EvidenceInv, JudgedKept
    <2>11. LineageNeverDangles
      BY <2>1, LineageFollows DEF EvidenceInv
    <2>12. QED
      BY <2>3, <2>4, <2>5, <2>6, <2>8, <2>9, <2>10, <2>11 DEF EvidenceSound
  <1>2. QED
    BY <1>1, EvidenceInvariantHolds, PTL
=============================================================================
