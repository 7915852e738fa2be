--------------------------- MODULE OrderExecution ---------------------------
(***************************************************************************)
(* The broker-neutral order layer (execution.py): an approved signal       *)
(* becomes an order under an id of its own, the order manager records it   *)
(* when the policy has nothing against it, fills move the positions, and   *)
(* reconciliation compares them with the broker's.  The broker is          *)
(* external: it fills orders in parts, its reports come late, in any       *)
(* order, or never, and each at most once.                                 *)
(*                                                                         *)
(* Prices and volumes are integers; the participation rate is a pair       *)
(* <<numerator, denominator>>; the execution algorithms' children are      *)
(* pairs [sequence, quantity].                                             *)
(***************************************************************************)
EXTENDS Integers, Sequences, FiniteSets, SequencesExt, FiniteSetsExt, Functions

CONSTANTS Approved,   \* signals: [decision, entry, size, instrument, quantity], quantity 0
                      \* when the caller leaves it to the signal
          Markets,    \* [last, volume, halted]
          Policy,     \* [notional, quantity, rate, slippage], slippage in basis points
          Schedules,  \* requests to the execution algorithms
          Books,      \* what a broker may hold that was not sent from here
          MaxSubmits  \* bound: orders submitted in one run

\* Quantities, prices and volumes are numbers, a rate is more than nothing, a market has a
\* price and no negative volume (validate_order_intent raises without), and a broker's
\* book covers what is traded.
ASSUME ExecutionAssumption ==
    /\ \A s \in Approved : s.entry \in Int /\ s.size \in Int /\ s.quantity \in Int
    /\ \A m \in Markets : m.last \in Nat \ {0} /\ m.volume \in Nat
    /\ Policy.rate[1] \in Nat /\ Policy.rate[2] \in Nat \ {0}
    /\ \A a \in Schedules :
          /\ a.total \in Int /\ a.n \in Int /\ a.volumes \in Seq(Nat)
          /\ a.rate[1] \in Nat /\ a.rate[2] \in Nat \ {0}
    /\ \A b \in Books : \A s \in Approved : b[s.instrument] \in Int

VARIABLES
  book,    \* OrderManager: [orders, positions]
  sent,    \* the broker's side: what each order was filled for, and reports under way
  slices   \* the last schedule: [ask, children]

executionVars == <<book, sent, slices>>

None == <<>>

Absolute(n) == IF n < 0 THEN -n ELSE n

-----------------------------------------------------------------------------
\* validate_order_intent
Violations(o, m) ==
    {v \in {"notional"} : o.quantity * m.last > Policy.notional}
    \cup {v \in {"quantity"} : o.quantity > Policy.quantity}
    \cup {v \in {"participation"} : \/ m.volume = 0
                                     \/ o.quantity * Policy.rate[2] > Policy.rate[1] * m.volume}
    \cup {v \in {"slippage"} : Absolute(o.limit - m.last) * 10000 > Policy.slippage * m.last}

\* order_from_signal: everything but BUY that may be traded is a sale.
OrderOf(s) ==
    [instrument |-> s.instrument, side |-> IF s.decision = "BUY" THEN "BUY" ELSE "SELL",
     quantity |-> IF s.quantity = 0 THEN s.size ELSE s.quantity, limit |-> s.entry]

Tradeable(s) == s.decision \in {"BUY", "SELL"} /\ s.entry > 0 /\ OrderOf(s).quantity > 0

Sign(side) == IF side = "BUY" THEN 1 ELSE -1

\* Each order has an id of its own: its place in the sequence of orders.
Filed(b, o) == [b EXCEPT !.orders = Append(@, o)]

\* Mutant: a sale is counted as a purchase.
Filled_Unsigned(b, id, q) ==
    LET o == b.orders[id]
    IN [b EXCEPT !.positions[o.instrument] = @ + q]

\* apply_fill: the side is the recorded order's; the order's quantity is not looked at.
Filled(b, id, q) ==
    LET o == b.orders[id]
    IN [b EXCEPT !.positions[o.instrument] = @ + Sign(o.side) * q]

SubmitOrder ==
    /\ slices = None /\ Len(book.orders) < MaxSubmits
    /\ \E s \in Approved, m \in Markets :
          /\ Tradeable(s) /\ ~m.halted /\ Violations(OrderOf(s), m) = {}
          /\ book' = Filed(book, OrderOf(s))
          /\ sent' = [sent EXCEPT !.filled = Append(@, 0), !.checked = Append(@, m)]
    /\ UNCHANGED slices

\* The broker fills a part of an order and reports it.
BrokerFills ==
    /\ \E id \in DOMAIN book.orders :
          \E q \in 1 .. book.orders[id].quantity - sent.filled[id] :
             sent' = [sent EXCEPT !.filled[id] = @ + q, !.owed = Append(@, [id |-> id, quantity |-> q])]
    /\ UNCHANGED <<book, slices>>

ApplyFill ==
    /\ \E i \in DOMAIN sent.owed :
          /\ book' = Filled(book, sent.owed[i].id, sent.owed[i].quantity)
          /\ sent' = [sent EXCEPT !.owed = RemoveAt(@, i)]
    /\ UNCHANGED slices

-----------------------------------------------------------------------------
Total(children) == SumFunction([i \in DOMAIN children |-> children[i].quantity])

\* Children with a quantity, numbered by the slice they belong to.
Children(quantities) ==
    LET upTo[i \in 0 .. Len(quantities)] ==
            IF i = 0 THEN <<>>
            ELSE IF quantities[i] > 0
                 THEN Append(upTo[i - 1], [sequence |-> i - 1, quantity |-> quantities[i]])
                 ELSE upTo[i - 1]
    IN upTo[Len(quantities)]

Twap(total, n) == Children([i \in 1 .. n |-> total \div n + (IF i <= total % n THEN 1 ELSE 0)])

\* The first of the largest.
FirstLargest(f) ==
    CHOOSE i \in DOMAIN f : \A j \in DOMAIN f : f[j] < f[i] \/ (f[j] = f[i] /\ i <= j)

\* The rounding's remainder goes to the first of the largest buckets, unit by unit.
Vwap(total, curve) ==
    LET raw == [i \in DOMAIN curve |-> (total * curve[i]) \div SumFunction(curve)]
    IN Children([raw EXCEPT ![FirstLargest(raw)] = @ + total - SumFunction(raw)])

Iceberg(total, shown) ==
    LET n == (total + shown - 1) \div shown
    IN Children([i \in 1 .. n |-> IF i < n THEN shown ELSE total - shown * (n - 1)])

Rooms(volumes, rate) == [i \in 1 .. Len(volumes) |-> (volumes[i] * rate[1]) \div rate[2]]

\* What is left of the total after each room.
Rationed(total, rooms) ==
    LET left[i \in 0 .. Len(rooms)] ==
            IF i = 0 THEN total ELSE left[i - 1] - Min({left[i - 1], rooms[i]})
    IN left

\* What is left at the end is one more child, whatever the rate.
Participation(total, volumes, rate) ==
    LET n    == Len(volumes)
        left == Rationed(total, Rooms(volumes, rate))
    IN Children([i \in 1 .. n + 1 |-> IF i <= n THEN left[i - 1] - left[i] ELSE left[n]])

Scheduled(a) ==
    CASE a.style = "TWAP" -> Twap(a.total, a.n)
      [] a.style = "VWAP" -> Vwap(a.total, a.volumes)
      [] a.style = "ICEBERG" -> Iceberg(a.total, a.n)
      [] OTHER -> Participation(a.total, a.volumes, a.rate)

\* What the algorithms raise on otherwise.
Schedulable(a) ==
    /\ a.total > 0
    /\ CASE a.style \in {"TWAP", "ICEBERG"} -> a.n > 0
         [] a.style = "VWAP" -> SumFunction(a.volumes) > 0
         [] OTHER -> a.volumes # <<>> /\ 0 < a.rate[1] /\ a.rate[1] <= a.rate[2]

\* A schedule is worked out once, before anything is sent.
Slice ==
    /\ slices = None /\ book.orders = <<>>
    /\ \E a \in Schedules : Schedulable(a) /\ slices' = [ask |-> a, children |-> Scheduled(a)]
    /\ UNCHANGED <<book, sent>>

-----------------------------------------------------------------------------
ExecutionInit ==
    /\ book = [orders |-> <<>>, positions |-> [i \in {s.instrument : s \in Approved} |-> 0]]
    /\ sent = [filled |-> <<>>, owed |-> <<>>, checked |-> <<>>]
    /\ slices = None

ExecutionNext == SubmitOrder \/ BrokerFills \/ ApplyFill

-----------------------------------------------------------------------------
\* reconcile_positions: the differences, where there are any.
Breaks(b, theirs) ==
    LET gap(i) == theirs[i] - b.positions[i]
    IN {[instrument |-> i, difference |-> gap(i)] : i \in {j \in DOMAIN b.positions : gap(j) # 0}}

SignedSum(rows, i) ==
    SumFunction([k \in DOMAIN rows |-> IF rows[k].instrument = i THEN rows[k].quantity ELSE 0])

\* What the broker holds: what it filled, by the side each order was sent with, on top
\* of what it held before.
BrokerHolds(before) ==
    [i \in DOMAIN book.positions |->
        before[i] + SignedSum([k \in DOMAIN sent.filled |->
                                 [instrument |-> book.orders[k].instrument,
                                  quantity |-> Sign(book.orders[k].side) * sent.filled[k]]], i)]

\* Reconciliation finds exactly the fills not yet applied and the positions never sent
\* from here: late and reordered reports leave no other trace in the positions.
BreaksAreUndelivered ==
    \A before \in Books : \A i \in DOMAIN book.positions :
        LET late == SignedSum([k \in DOMAIN sent.owed |->
                        [instrument |-> book.orders[sent.owed[k].id].instrument,
                         quantity |-> Sign(book.orders[sent.owed[k].id].side)
                                        * sent.owed[k].quantity]], i)
            missing == before[i] + late
        IN IF missing = 0 THEN \A b \in Breaks(book, BrokerHolds(before)) : b.instrument # i
           ELSE [instrument |-> i, difference |-> missing] \in Breaks(book, BrokerHolds(before))

\* Whatever the parts and the order of the fills, no position comes from more than the
\* orders on record, each of which was within the day's share when it was submitted.
PositionsWithinPolicy ==
    \A i \in DOMAIN book.positions :
        LET mine == {k \in DOMAIN book.orders : book.orders[k].instrument = i}
        IN Absolute(book.positions[i]) * Policy.rate[2]
             <= SumFunction([k \in mine |-> sent.checked[k].volume * Policy.rate[1]])

\* A schedule is the whole order, in ascending slices none of which is empty, and keeps
\* its algorithm's promise: even slices, the volume's shape, the shown quantity, or the
\* participation rate in every slice but the one that takes the rest.
ScheduleSound ==
    slices # None =>
        LET a == slices.ask
            c == slices.children
        IN /\ Total(c) = a.total
           /\ \A i \in DOMAIN c : c[i].quantity > 0 /\ (i > 1 => c[i - 1].sequence < c[i].sequence)
           /\ a.style = "TWAP" => \A i, j \in DOMAIN c : c[i].quantity - c[j].quantity <= 1
           /\ a.style = "VWAP" =>
                 \A i \in DOMAIN c : c[i].quantity * SumFunction(a.volumes)
                     > (a.total * a.volumes[c[i].sequence + 1]) - SumFunction(a.volumes)
           /\ a.style = "ICEBERG" => \A i \in DOMAIN c : c[i].quantity <= a.n
           /\ a.style = "PARTICIPATION" =>
                 \A i \in DOMAIN c : c[i].sequence < Len(a.volumes) =>
                     c[i].quantity * a.rate[2] <= a.volumes[c[i].sequence + 1] * a.rate[1]
=============================================================================
