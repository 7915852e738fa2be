--------------------------- MODULE MarketDeskProofs ---------------------------
(***************************************************************************)
(* The trading core of the runtime, for every configuration, feed and set  *)
(* of orders: the router, the virtual broker called on its own, the live   *)
(* paper runtime that calls it, the gate, the engine and the indicators,   *)
(* and the backtest.                                                       *)
(***************************************************************************)
EXTENDS MCMarketDesk, SumLemmas, TLAPS

(***************************************************************************)
(* The router.  An id is spent before anything is sent, so what was sent   *)
(* has a spent id and what is sent next has not; the mode the router was   *)
(* built with never changes.                                               *)
(***************************************************************************)
\* What the router must have checked of something it sent.
SentSoundly(r, spent, mode) ==
    /\ r.corr \in spent /\ r.quantity > 0
    /\ r.to = "live" => LiveOrdersEnabled(mode)
    /\ mode.mode = "APPROVAL_MODE" => r.manual

RouterInvariant ==
    /\ \E S : routed \in Seq(S)
    /\ \A i \in DOMAIN routed : SentSoundly(routed[i], spentIds, gateMode)
    /\ \A i, j \in DOMAIN routed : routed[i].corr = routed[j].corr => i = j

\* The invariant is what the run checks, and that ids sent are spent.
LEMMA RouterMeansOnce == RouterInvariant => RoutedOnce
  <1> SUFFICES ASSUME RouterInvariant
               PROVE  RoutedOnce
    OBVIOUS
  <1>1. IsInjective([i \in DOMAIN routed |-> routed[i].corr])
    BY DEF RouterInvariant, IsInjective
  <1>2. QED
    BY <1>1 DEF RouterInvariant, SentSoundly, RoutedOnce

\* A sequence and an element belong to the sequences over a larger set.
LEMMA AppendedSeq ==
  ASSUME NEW s, NEW S, s \in Seq(S), NEW e
  PROVE  /\ Append(s, e) \in Seq(S \cup {e})
         /\ DOMAIN Append(s, e) = DOMAIN s \cup {Len(s) + 1}
         /\ Len(s) + 1 \notin DOMAIN s
         /\ \A i \in DOMAIN s : Append(s, e)[i] = s[i]
         /\ Append(s, e)[Len(s) + 1] = e
  <1>1. s \in Seq(S \cup {e})
    OBVIOUS
  <1>2. QED
    BY <1>1

\* Sending what was just registered keeps the invariant: the id was new.
LEMMA SendKeeps ==
  ASSUME RouterInvariant, NEW to, NEW manual, Register(signal.corr), Send(to, manual),
         UNCHANGED gateMode, to = "live" => LiveOrdersEnabled(gateMode),
         gateMode.mode = "APPROVAL_MODE" => manual
  PROVE  RouterInvariant'
  <1>1. signal.corr \notin spentIds /\ spentIds' = spentIds \cup {signal.corr}
    BY DEF Register
  <1>2. \A i \in DOMAIN routed : SentSoundly(routed[i], spentIds', gateMode')
    BY <1>1 DEF RouterInvariant, SentSoundly, LiveOrdersEnabled
  <1>3. CASE ~(risk.quantity > 0)
    BY <1>2, <1>3 DEF Send, RouterInvariant
  <1>4. CASE risk.quantity > 0
    <2> DEFINE e == [corr |-> signal.corr, to |-> to, quantity |-> risk.quantity, manual |-> manual]
               n == Len(routed) + 1
    <2>1. routed' = Append(routed, e)
      BY <1>4 DEF Send
    <2>2. PICK S : routed \in Seq(S)
      BY DEF RouterInvariant
    <2>3. e.corr = signal.corr /\ SentSoundly(e, spentIds', gateMode')
      BY <1>1, <1>4 DEF SentSoundly, LiveOrdersEnabled
    <2> HIDE DEF e
    <2>4. /\ routed' \in Seq(S \cup {e})
          /\ DOMAIN routed' = DOMAIN routed \cup {n}
          /\ n \notin DOMAIN routed
          /\ \A i \in DOMAIN routed : routed'[i] = routed[i]
          /\ routed'[n] = e
      BY <2>1, <2>2, AppendedSeq
    <2> HIDE DEF n
    <2>5. \A i \in DOMAIN routed' : SentSoundly(routed'[i], spentIds', gateMode')
      BY <1>2, <2>3, <2>4
    <2>6. \A i \in DOMAIN routed : routed[i].corr # e.corr
      BY <1>1, <2>3 DEF RouterInvariant, SentSoundly
    <2>7. \A i, j \in DOMAIN routed' : routed'[i].corr = routed'[j].corr => i = j
      BY <2>4, <2>6 DEF RouterInvariant
    <2>8. QED
      BY <2>4, <2>5, <2>7 DEF RouterInvariant
  <1>5. QED
    BY <1>3, <1>4

\* Every step of the router and of what feeds it keeps the invariant.
LEMMA RouterStep == RouterInvariant /\ [GateNext]_gateVars => RouterInvariant'
  <1> SUFFICES ASSUME RouterInvariant, [GateNext]_gateVars
               PROVE  RouterInvariant'
    OBVIOUS
  <1>1. CASE UNCHANGED <<gateMode, spentIds, routed>>
    BY <1>1 DEF RouterInvariant, SentSoundly
  <1>2. CASE Route
    <2>1. PICK manual \in BOOLEAN : /\ gateMode.mode = "APPROVAL_MODE" => manual
                                    /\ Register(signal.corr)
                                    /\ Deliver(manual)
                                    /\ UNCHANGED gateMode
      BY <1>2 DEF Route
    <2>2. CASE gateMode.mode \in PaperModes
      <3>1. Send("paper", manual)
        BY <2>1, <2>2 DEF Deliver
      <3>2. QED
        BY <2>1, <3>1, SendKeeps
    <2>3. CASE gateMode.mode \notin PaperModes /\ LiveOrdersEnabled(gateMode) /\ gateMode.broker
      <3>1. Send("live", manual)
        BY <2>1, <2>3 DEF Deliver
      <3>2. QED
        BY <2>1, <2>3, <3>1, SendKeeps
    <2>4. CASE gateMode.mode \notin PaperModes /\ ~(LiveOrdersEnabled(gateMode) /\ gateMode.broker)
      <3>1. UNCHANGED <<routed, gateMode>> /\ spentIds \subseteq spentIds'
        BY <2>1, <2>4 DEF Deliver, Register
      <3>2. QED
        BY <3>1 DEF RouterInvariant, SentSoundly
    <2>5. QED
      BY <2>2, <2>3, <2>4
  <1>3. QED
    BY <1>1, <1>2 DEF GateNext, AssessRisk, Evaluate, gateVars

\* What reaches a broker has an id of its own, a size, and the consent its mode asks for.
THEOREM RoutesOnce == GateSpec => []RoutedOnce
  <1>1. GateInit => RouterInvariant
    <2> SUFFICES ASSUME GateInit
                 PROVE  RouterInvariant
      OBVIOUS
    <2>1. routed = <<>> /\ DOMAIN routed = {} /\ routed \in Seq({})
      BY DEF GateInit
    <2>2. QED
      BY <2>1 DEF RouterInvariant
  <1>2. QED
    BY <1>1, RouterStep, RouterMeansOnce, PTL DEF GateSpec

(***************************************************************************)
(* The account of the broker, whatever it is asked.                        *)
(***************************************************************************)
\* An account: positions and closings are records, their numbers are integers.
IsAccount(a) ==
    /\ a = [cash |-> a.cash, open |-> a.open, closed |-> a.closed, book |-> a.book]
    /\ a.cash \in Int /\ a.book \in [OrderStates -> Nat]
    /\ \E S : a.open \in Seq(S)
    /\ \E S : a.closed \in Seq(S)
    /\ \A i \in DOMAIN a.open :
          {a.open[i].quantity, a.open[i].entry, a.open[i].stop, a.open[i].target} \subseteq Int
    /\ \A i \in DOMAIN a.closed : a.closed[i].pnl \in Int

\* No two open positions have the same correlation id.
OneEach(a) == \A i, j \in DOMAIN a.open : a.open[i].corr = a.open[j].corr => i = j

\* No correlation id was used twice.
UsedOnce(a) ==
    /\ OneEach(a)
    /\ \A i, j \in DOMAIN a.closed : a.closed[i].corr = a.closed[j].corr => i = j
    /\ \A i \in DOMAIN a.open, j \in DOMAIN a.closed : a.open[i].corr # a.closed[j].corr

\* The correlation ids of an account.
Ids(a) == {a.open[i].corr : i \in DOMAIN a.open} \cup {a.closed[i].corr : i \in DOMAIN a.closed}

\* The cash of an account is explained by its closings and its fills.
Explained(a) == a.cash = StartCapital + RealizedPnl(a) - Brokerage * a.book["ORDER_FILLED"]

\* What holds of the account between any two calls of the broker.
AccountInv(a) ==
    /\ IsAccount(a) /\ OneEach(a) /\ Explained(a)
    /\ Len(a.open) <= MaxOpenPositions
    /\ Len(a.open) + Len(a.closed) <= a.book["ORDER_FILLED"]

\* What a closing comes to is a number.
LEMMA GrossType ==
    ASSUME NEW p, p.quantity \in Int, p.entry \in Int, NEW price \in Int, NEW side
    PROVE  Gross(p, FillPrice(price, side, FALSE)) \in Int
  <1>1. PICK x \in Int : x = price * SlippagePercent
    <2>1. SlippagePercent \in Int
      BY BrokerAssumption
    <2>2. price * SlippagePercent \in Int
      BY <2>1
    <2>3. QED
      BY <2>2
  <1>2. x \div 100 \in Int
    OBVIOUS
  <1>3. FillPrice(price, side, FALSE) \in Int
    BY <1>1, <1>2 DEF FillPrice
  <1>4. PICK exit \in Int : exit = FillPrice(price, side, FALSE)
    BY <1>3
  <1>5. (exit - p.entry) * p.quantity \in Int /\ (p.entry - exit) * p.quantity \in Int
    OBVIOUS
  <1>6. QED
    BY <1>4, <1>5 DEF Gross

\* The profits of an account add up to a number.
LEMMA RealizedType ==
    ASSUME NEW a, IsAccount(a)
    PROVE  RealizedPnl(a) \in Int
  <1>1. PICK n \in Nat : DOMAIN a.closed = 1 .. n
    BY DEF IsAccount
  <1>2. PICK f : f = [i \in DOMAIN a.closed |-> a.closed[i].pnl]
    OBVIOUS
  <1>3. f \in [1 .. n -> Int]
    BY <1>1, <1>2 DEF IsAccount
  <1>4. Summable(f, 1 .. n)
    BY <1>3, FS_Interval DEF Summable
  <1>5. QED
    BY <1>2, <1>4, SumType DEF RealizedPnl

\* One more closing.
LEMMA RealizedAppended ==
    ASSUME NEW a, IsAccount(a), NEW c, NEW t, t.pnl \in Int, c.closed = Append(a.closed, t)
    PROVE  RealizedPnl(c) = RealizedPnl(a) + t.pnl
  <1>1. PICK S : a.closed \in Seq(S)
    BY DEF IsAccount
  <1>2. PICK n \in Nat : n = Len(a.closed) /\ DOMAIN a.closed = 1 .. n
    BY <1>1
  <1>3. PICK w : w = c.closed
    OBVIOUS
  <1>4. DOMAIN w = 1 .. n + 1 /\ w[n + 1] = t /\ \A i \in 1 .. n : w[i] = a.closed[i]
    BY <1>1, <1>2, <1>3
  <1>5. PICK f : f = [i \in DOMAIN a.closed |-> a.closed[i].pnl]
    OBVIOUS
  <1>6. PICK g : g = [i \in DOMAIN w |-> w[i].pnl]
    OBVIOUS
  <1>7. f \in [1 .. n -> Int]
    BY <1>2, <1>5 DEF IsAccount
  <1>8. /\ DOMAIN g = 1 .. n + 1 /\ g[n + 1] = t.pnl
        /\ \A i \in 1 .. n : g[i] = f[i] /\ f[i] \in Int
    <2>1. n + 1 \in 1 .. n + 1 /\ \A i \in 1 .. n : i \in 1 .. n + 1
      OBVIOUS
    <2>2. DOMAIN g = 1 .. n + 1 /\ g[n + 1] = t.pnl
      BY <1>4, <1>6, <2>1
    <2>3. ASSUME NEW i \in 1 .. n PROVE g[i] = f[i] /\ f[i] \in Int
      <3>1. g[i] = w[i].pnl
        BY <1>4, <1>6, <2>1
      <3>2. f[i] = a.closed[i].pnl
        BY <1>2, <1>5
      <3>3. QED
        BY <1>4, <1>7, <3>1, <3>2
    <2>4. QED
      BY <2>2, <2>3
  <1>9. \A i \in 1 .. n + 1 : g[i] \in Int
    BY <1>8
  <1>10. g \in [1 .. n + 1 -> Int]
    BY <1>6, <1>8, <1>9
  <1>11. SumFunction(g) = SumFunction(f) + g[n + 1]
    BY <1>7, <1>8, <1>10, SumAppended
  <1>12. QED
    BY <1>3, <1>5, <1>6, <1>8, <1>11 DEF RealizedPnl

\* What closing an open position does to an account.
ClosedOf(b, c, k, t) ==
    /\ c = [cash |-> b.cash + t.pnl, open |-> RemoveAt(b.open, k), closed |-> Append(b.closed, t),
            book |-> b.book]
    /\ t.corr = b.open[k].corr /\ t.pnl \in Int

\* A position that is held is closed in its place.
LEMMA ClosesInPlace ==
    ASSUME NEW b, IsAccount(b), OneEach(b), NEW k \in DOMAIN b.open, NEW price \in Int, NEW day
    PROVE  \E t : ClosedOf(b, ClosePosition(b, b.open[k], price, day), k, t)
  <1>1. PICK p : p = b.open[k]
    OBVIOUS
  <1>2. PICK pnl \in Int : pnl = Gross(p, FillPrice(price, p.side, FALSE)) - Brokerage
    <2>1. Brokerage \in Int
      BY BrokerAssumption
    <2>2. p.quantity \in Int /\ p.entry \in Int
      BY <1>1 DEF IsAccount
    <2>3. Gross(p, FillPrice(price, p.side, FALSE)) \in Int
      BY <2>2, GrossType
    <2>4. PICK gross \in Int : gross = Gross(p, FillPrice(price, p.side, FALSE))
      BY <2>3
    <2>5. gross - Brokerage \in Int
      BY <2>1
    <2>6. QED
      BY <2>4, <2>5
  <1>3. PICK t : t = [corr |-> p.corr, day |-> day, pnl |-> pnl]
    OBVIOUS
  <1>4. (CHOOSE i \in DOMAIN b.open : b.open[i].corr = p.corr) = k
    <2>1. \A i \in DOMAIN b.open : b.open[i].corr = p.corr => i = k
      BY <1>1 DEF OneEach
    <2>2. QED
      BY <1>1, <2>1
  <1>5. Popped(b.open, p.corr) = RemoveAt(b.open, k)
    BY <1>4 DEF Popped
  <1>6. ClosePosition(b, p, price, day) =
            [b EXCEPT !.open = Popped(@, p.corr), !.closed = Append(@, t), !.cash = @ + pnl]
    BY <1>2, <1>3 DEF ClosePosition
  <1>7. b = [cash |-> b.cash, open |-> b.open, closed |-> b.closed, book |-> b.book]
    BY DEF IsAccount
  <1>8. [b EXCEPT !.open = Popped(@, p.corr), !.closed = Append(@, t), !.cash = @ + pnl]
            = [cash |-> b.cash + pnl, open |-> Popped(b.open, p.corr),
               closed |-> Append(b.closed, t), book |-> b.book]
    <2>1. PICK w, x, y, z : w = b.cash /\ x = b.open /\ y = b.closed /\ z = b.book
      OBVIOUS
    <2>2. b = [cash |-> w, open |-> x, closed |-> y, book |-> z]
      BY <1>7, <2>1
    <2>3. PICK less, more, sum : less = Popped(x, p.corr) /\ more = Append(y, t) /\ sum = w + pnl
      OBVIOUS
    <2>4. [b EXCEPT !.open = less, !.closed = more, !.cash = sum]
            = [cash |-> sum, open |-> less, closed |-> more, book |-> z]
      <3>1. [b EXCEPT !.open = less] = [cash |-> w, open |-> less, closed |-> y, book |-> z]
        BY <2>2
      <3>2. [[cash |-> w, open |-> less, closed |-> y, book |-> z] EXCEPT !.closed = more]
              = [cash |-> w, open |-> less, closed |-> more, book |-> z]
        OBVIOUS
      <3>3. [[cash |-> w, open |-> less, closed |-> more, book |-> z] EXCEPT !.cash = sum]
              = [cash |-> sum, open |-> less, closed |-> more, book |-> z]
        OBVIOUS
      <3>4. QED
        BY <3>1, <3>2, <3>3
    <2>5. less = Popped(b.open, p.corr) /\ more = Append(b.closed, t) /\ sum = b.cash + pnl
      BY <2>1, <2>3
    <2>6. [b EXCEPT !.open = Popped(@, p.corr), !.closed = Append(@, t), !.cash = @ + pnl]
            = [b EXCEPT !.open = less, !.closed = more, !.cash = sum]
      BY <2>5, Zenon
    <2>7. QED
      BY <2>1, <2>4, <2>5, <2>6
  <1>9. t.corr = p.corr /\ t.pnl = pnl
    BY <1>3
  <1>10. ClosedOf(b, ClosePosition(b, p, price, day), k, t)
    BY <1>1, <1>2, <1>5, <1>6, <1>8, <1>9 DEF ClosedOf
  <1>11. QED
    BY <1>1, <1>10

\* The lists of an account that lost a position to a closing.
LEMMA ClosedLists ==
    ASSUME NEW b, IsAccount(b), NEW k \in DOMAIN b.open, NEW c, NEW t, ClosedOf(b, c, k, t),
           NEW n \in Nat, n = Len(b.open), NEW m \in Nat, m = Len(b.closed)
    PROVE  /\ DOMAIN b.open = 1 .. n /\ DOMAIN b.closed = 1 .. m /\ k \in 1 .. n
           /\ DOMAIN c.open = 1 .. n - 1 /\ DOMAIN c.closed = 1 .. m + 1
           /\ Len(c.open) = n - 1 /\ Len(c.closed) = m + 1
           /\ \A j \in 1 .. n - 1 : c.open[j] = b.open[IF j < k THEN j ELSE j + 1]
           /\ \A j \in 1 .. m : c.closed[j] = b.closed[j]
           /\ c.closed[m + 1] = t
           /\ \E S : c.open \in Seq(S)
           /\ \E S : c.closed \in Seq(S)
  <1>1. PICK S : b.open \in Seq(S)
    BY DEF IsAccount
  <1>2. PICK T : b.closed \in Seq(T)
    BY DEF IsAccount
  <1>3. DOMAIN b.open = 1 .. n /\ DOMAIN b.closed = 1 .. m
    BY <1>1, <1>2
  <1>4. c.open = RemoveAt(b.open, k) /\ c.closed = Append(b.closed, t)
    BY DEF ClosedOf
  <1>5. PICK o : o = c.open
    OBVIOUS
  <1>6. PICK w : w = c.closed
    OBVIOUS
  <1>7. o \in Seq(S) /\ Len(o) = n - 1
        /\ \A j \in 1 .. n - 1 : o[j] = IF j < k THEN b.open[j] ELSE b.open[j + 1]
    <2>1. k \in 1 .. Len(b.open)
      BY <1>3
    <2>2. o = RemoveAt(b.open, k)
      BY <1>4, <1>5
    <2>3. Len(b.open) = n
      BY <1>1, <1>3
    <2>4. QED
      BY <1>1, <2>1, <2>2, <2>3, ShorterList, SMTT(20)
  <1>8. b.closed \in Seq(T \cup {t}) /\ t \in T \cup {t}
    BY <1>2
  <1>9. w \in Seq(T \cup {t}) /\ Len(w) = m + 1 /\ w[m + 1] = t
        /\ \A j \in 1 .. m : w[j] = b.closed[j]
    BY <1>2, <1>3, <1>4, <1>6, <1>8
  <1>10. DOMAIN o = 1 .. n - 1 /\ DOMAIN w = 1 .. m + 1
    BY <1>7, <1>9
  <1>11. \A j \in 1 .. n - 1 : o[j] = b.open[IF j < k THEN j ELSE j + 1]
    BY <1>7
  <1>12. QED
    BY <1>3, <1>5, <1>6, <1>7, <1>9, <1>10, <1>11

\* The lists of an account have lengths.
LEMMA AccountLengths ==
    ASSUME NEW a, IsAccount(a)
    PROVE  /\ Len(a.open) \in Nat /\ DOMAIN a.open = 1 .. Len(a.open)
           /\ Len(a.closed) \in Nat /\ DOMAIN a.closed = 1 .. Len(a.closed)
  <1>1. PICK S : a.open \in Seq(S)
    BY DEF IsAccount
  <1>2. PICK T : a.closed \in Seq(T)
    BY DEF IsAccount
  <1>3. QED
    BY <1>1, <1>2

\* What closing a position keeps, and what it changes.
LEMMA ClosedKeeps ==
    ASSUME NEW b, IsAccount(b), OneEach(b), NEW k \in DOMAIN b.open, NEW c, NEW t,
           ClosedOf(b, c, k, t)
    PROVE  /\ IsAccount(c) /\ OneEach(c) /\ c.book = b.book
           /\ UsedOnce(b) => UsedOnce(c)
           /\ Ids(c) \subseteq Ids(b)
           /\ Len(c.open) = Len(b.open) - 1 /\ Len(c.closed) = Len(b.closed) + 1
           /\ c.cash - RealizedPnl(c) = b.cash - RealizedPnl(b)
           /\ \A i \in DOMAIN b.open : i # k => \E j \in DOMAIN c.open : c.open[j] = b.open[i]
           /\ \A j \in DOMAIN c.open : \E i \in DOMAIN b.open : c.open[j] = b.open[i]
  <1>1. PICK n \in Nat : n = Len(b.open)
    BY AccountLengths
  <1>2. PICK m \in Nat : m = Len(b.closed)
    BY AccountLengths
  <1>3. PICK o, w : o = c.open /\ w = c.closed
    OBVIOUS
  <1>4. /\ DOMAIN b.open = 1 .. n /\ DOMAIN b.closed = 1 .. m /\ k \in 1 .. n
        /\ DOMAIN o = 1 .. n - 1 /\ DOMAIN w = 1 .. m + 1
        /\ Len(o) = n - 1 /\ Len(w) = m + 1
        /\ \A j \in 1 .. n - 1 : o[j] = b.open[IF j < k THEN j ELSE j + 1]
        /\ \A j \in 1 .. m : w[j] = b.closed[j]
        /\ w[m + 1] = t
        /\ \E S : o \in Seq(S)
        /\ \E S : w \in Seq(S)
    BY SMTT(20), <1>1, <1>2, <1>3, ClosedLists
  <1>5. t.corr = b.open[k].corr /\ t.pnl \in Int
    BY DEF ClosedOf
  <1>6. c = [cash |-> b.cash + t.pnl, open |-> o, closed |-> w, book |-> b.book]
    BY <1>3 DEF ClosedOf
  <1>7. c.cash = b.cash + t.pnl /\ c.open = o /\ c.closed = w /\ c.book = b.book
    BY <1>6
  \* Where an element of the shorter list was, and that two of them were apart.
  <1>8. ASSUME NEW j \in 1 .. n - 1
        PROVE  \E i \in 1 .. n : i # k /\ o[j] = b.open[i] /\ (i = IF j < k THEN j ELSE j + 1)
    BY <1>4
  <1>9. ASSUME NEW i \in 1 .. n, i # k PROVE \E j \in 1 .. n - 1 : o[j] = b.open[i]
    <2>1. CASE i < k
      BY <1>4, <2>1
    <2>2. CASE i > k
      <3>1. i - 1 \in 1 .. n - 1 /\ ~(i - 1 < k) /\ (i - 1) + 1 = i
        BY <1>4, <2>2
      <3>2. QED
        BY <1>4, <3>1
    <2>3. QED
      BY <1>4, <1>9, <2>1, <2>2
  <1>10. IsAccount(c)
    <2>1. c = [cash |-> c.cash, open |-> c.open, closed |-> c.closed, book |-> c.book]
      BY <1>6, <1>7
    <2>2. c.cash \in Int /\ c.book \in [OrderStates -> Nat]
      BY <1>5, <1>7 DEF IsAccount
    <2>3. ASSUME NEW j \in DOMAIN o
          PROVE  {o[j].quantity, o[j].entry, o[j].stop, o[j].target} \subseteq Int
      <3>1. PICK i \in 1 .. n : o[j] = b.open[i]
        BY <1>4, <1>8, <2>3
      <3>2. QED
        BY <1>4, <3>1 DEF IsAccount
    <2>4. ASSUME NEW j \in DOMAIN w PROVE w[j].pnl \in Int
      <3>1. CASE j = m + 1
        BY <1>4, <1>5, <3>1
      <3>2. CASE j \in 1 .. m
        BY <1>4, <3>2 DEF IsAccount
      <3>3. QED
        BY <1>4, <3>1, <3>2
    <2>5. QED
      BY <1>4, <1>7, <2>1, <2>2, <2>3, <2>4 DEF IsAccount
  <1>11. OneEach(c)
    <2>1. ASSUME NEW j1 \in 1 .. n - 1, NEW j2 \in 1 .. n - 1, o[j1].corr = o[j2].corr
          PROVE  j1 = j2
      <3>1. PICK i1 \in 1 .. n : o[j1] = b.open[i1] /\ (i1 = IF j1 < k THEN j1 ELSE j1 + 1)
        BY <1>8
      <3>2. PICK i2 \in 1 .. n : o[j2] = b.open[i2] /\ (i2 = IF j2 < k THEN j2 ELSE j2 + 1)
        BY <1>8
      <3>3. b.open[i1].corr = b.open[i2].corr
        BY <2>1, <3>1, <3>2, Zenon
      <3>4. i1 \in DOMAIN b.open /\ i2 \in DOMAIN b.open
        BY <1>4
      <3>5. i1 = i2
        BY <3>3, <3>4, Zenon DEF OneEach
      <3>6. QED
        BY <1>4, <3>1, <3>2, <3>5
    <2>2. QED
      BY <1>4, <1>7, <2>1 DEF OneEach
  <1>12. Ids(c) \subseteq Ids(b)
    <2>1. ASSUME NEW x \in Ids(c) PROVE x \in Ids(b)
      <3>1. CASE \E j \in 1 .. n - 1 : x = o[j].corr
        <4>1. PICK i \in 1 .. n : x = b.open[i].corr
          BY <1>8, <3>1
        <4>2. QED
          BY <1>4, <4>1 DEF Ids
      <3>2. CASE \E j \in 1 .. m : x = w[j].corr
        <4>1. PICK j \in 1 .. m : x = b.closed[j].corr
          BY <1>4, <3>2
        <4>2. QED
          BY <1>4, <4>1 DEF Ids
      <3>3. CASE x = w[m + 1].corr
        <4>1. x = b.open[k].corr /\ k \in DOMAIN b.open
          BY <1>4, <1>5, <3>3
        <4>2. QED
          BY <4>1 DEF Ids
      <3>4. (\E j \in 1 .. n - 1 : x = o[j].corr) \/ (\E j \in 1 .. m + 1 : x = w[j].corr)
        BY <1>4, <1>7, <2>1 DEF Ids
      <3>5. QED
        BY <3>1, <3>2, <3>3, <3>4
    <2>2. QED
      BY <2>1
  <1>13. ASSUME UsedOnce(b) PROVE UsedOnce(c)
    <2>1. ASSUME NEW i \in 1 .. m + 1, NEW j \in 1 .. m + 1, w[i].corr = w[j].corr PROVE i = j
      <3>1. ASSUME NEW x \in 1 .. m PROVE w[x].corr # w[m + 1].corr
        <4>1. b.open[k].corr # b.closed[x].corr
          BY <1>4, <1>13 DEF UsedOnce
        <4>2. QED
          BY <1>4, <1>5, <4>1
      <3>2. \A x, y \in 1 .. m : w[x].corr = w[y].corr => x = y
        BY <1>4, <1>13 DEF UsedOnce
      <3>3. i \in 1 .. m \/ i = m + 1
        OBVIOUS
      <3>4. j \in 1 .. m \/ j = m + 1
        OBVIOUS
      <3>5. QED
        BY <2>1, <3>1, <3>2, <3>3, <3>4
    <2>2. ASSUME NEW i \in 1 .. n - 1, NEW j \in 1 .. m + 1 PROVE o[i].corr # w[j].corr
      <3>1. PICK x \in 1 .. n : x # k /\ o[i] = b.open[x]
        BY <1>8
      <3>2. CASE j = m + 1
        BY <1>4, <1>5, <3>1, <3>2 DEF OneEach
      <3>3. CASE j \in 1 .. m
        <4>1. b.open[x].corr # b.closed[j].corr
          BY <1>4, <1>13, <3>3 DEF UsedOnce
        <4>2. w[j] = b.closed[j]
          BY <1>4, <3>3
        <4>3. QED
          BY <3>1, <4>1, <4>2
      <3>4. QED
        BY <3>2, <3>3
    <2>3. QED
      BY <1>4, <1>7, <1>11, <2>1, <2>2 DEF UsedOnce
  <1>14. c.cash - RealizedPnl(c) = b.cash - RealizedPnl(b)
    <2>1. c.closed = Append(b.closed, t)
      BY DEF ClosedOf
    <2>2. RealizedPnl(c) = RealizedPnl(b) + t.pnl
      BY <1>5, <2>1, RealizedAppended
    <2>3. RealizedPnl(b) \in Int /\ b.cash \in Int
      BY RealizedType DEF IsAccount
    <2>4. QED
      BY <1>5, <1>7, <2>2, <2>3
  <1>15. Len(c.open) = Len(b.open) - 1 /\ Len(c.closed) = Len(b.closed) + 1
    BY <1>1, <1>2, <1>4, <1>7
  <1>16. \A i \in DOMAIN b.open : i # k => \E j \in DOMAIN c.open : c.open[j] = b.open[i]
    BY <1>4, <1>7, <1>9
  <1>17. \A j \in DOMAIN c.open : \E i \in DOMAIN b.open : c.open[j] = b.open[i]
    BY <1>4, <1>7, <1>8
  <1>18. QED
    BY <1>7, <1>10, <1>11, <1>12, <1>13, <1>14, <1>15, <1>16, <1>17

\* What an account is, compared with the a it was, when n of its positions were looked at.
Passed(a, exits, n, b) ==
    /\ IsAccount(b) /\ OneEach(b) /\ b.book = a.book
    /\ UsedOnce(a) => UsedOnce(b)
    /\ Ids(b) \subseteq Ids(a)
    /\ Len(b.open) <= Len(a.open)
    /\ Len(b.open) + Len(b.closed) = Len(a.open) + Len(a.closed)
    /\ DOMAIN exits = DOMAIN a.open => Len(b.open) = Len(a.open) - n
    /\ b.cash - RealizedPnl(b) = a.cash - RealizedPnl(a)
    /\ \A i \in n + 1 .. Len(a.open) : \E j \in DOMAIN b.open : b.open[j] = a.open[i]
    /\ \A j \in DOMAIN b.open : \E i \in DOMAIN a.open : b.open[j] = a.open[i]

\* One more position is looked at.
LEMMA CloseOnePasses ==
    ASSUME NEW a, IsAccount(a), OneEach(a), NEW exits, NEW day,
           \A i \in DOMAIN exits : exits[i] \in Int, DOMAIN exits \subseteq DOMAIN a.open,
           NEW n \in Nat, n < Len(a.open), NEW b, Passed(a, exits, n, b)
    PROVE  Passed(a, exits, n + 1, CloseOne(a, exits, day, n + 1, b))
  <1>1. PICK L \in Nat : L = Len(a.open) /\ DOMAIN a.open = 1 .. L
    BY AccountLengths
  <1>2. PICK c : c = CloseOne(a, exits, day, n + 1, b)
    OBVIOUS
  <1>3. n + 1 \in 1 .. L
    BY <1>1
  <1>4. CASE n + 1 \notin DOMAIN exits
    <2>1. c = b
      BY <1>2, <1>4 DEF CloseOne
    <2>2. DOMAIN exits # DOMAIN a.open
      BY <1>1, <1>3, <1>4
    <2>3. \A i \in (n + 1) + 1 .. L : i \in n + 1 .. L
      OBVIOUS
    <2>4. \A i \in (n + 1) + 1 .. L : \E j \in DOMAIN b.open : b.open[j] = a.open[i]
      BY <1>1, <2>3 DEF Passed
    <2>5. Passed(a, exits, n + 1, b)
      BY <1>1, <2>2, <2>4, Zenon DEF Passed
    <2>6. QED
      BY <1>2, <2>1, <2>5
  <1>5. CASE n + 1 \in DOMAIN exits
    <2>1. n + 1 \in n + 1 .. L
      BY <1>3
    <2>2. PICK k \in DOMAIN b.open : b.open[k] = a.open[n + 1]
      BY <1>1, <2>1 DEF Passed
    <2>3. IsAccount(b) /\ OneEach(b)
      BY DEF Passed
    <2>4. c = ClosePosition(b, b.open[k], exits[n + 1], day)
      BY <1>2, <1>5, <2>2 DEF CloseOne
    <2>5. PICK t : ClosedOf(b, c, k, t)
      BY <1>5, <2>3, <2>4, ClosesInPlace
    <2>6. /\ IsAccount(c) /\ OneEach(c) /\ c.book = b.book
          /\ UsedOnce(b) => UsedOnce(c)
          /\ Ids(c) \subseteq Ids(b)
          /\ Len(c.open) = Len(b.open) - 1 /\ Len(c.closed) = Len(b.closed) + 1
          /\ c.cash - RealizedPnl(c) = b.cash - RealizedPnl(b)
          /\ \A i \in DOMAIN b.open : i # k => \E j \in DOMAIN c.open : c.open[j] = b.open[i]
          /\ \A j \in DOMAIN c.open : \E i \in DOMAIN b.open : c.open[j] = b.open[i]
      BY <2>3, <2>5, ClosedKeeps
    <2>7. Len(b.open) \in Nat /\ Len(b.closed) \in Nat /\ Len(a.closed) \in Nat
      BY <2>3, AccountLengths
    <2>8. ASSUME NEW i \in (n + 1) + 1 .. L
          PROVE  \E j \in DOMAIN c.open : c.open[j] = a.open[i]
      <3>1. i \in n + 1 .. L /\ i # n + 1 /\ i \in 1 .. L
        OBVIOUS
      <3>2. PICK j \in DOMAIN b.open : b.open[j] = a.open[i]
        BY <1>1, <3>1 DEF Passed
      <3>3. a.open[i].corr # a.open[n + 1].corr
        BY <1>1, <1>3, <3>1 DEF OneEach
      <3>4. j # k
        BY <2>2, <3>2, <3>3
      <3>5. QED
        BY <2>6, <3>2, <3>4
    <2>9. /\ Len(c.open) <= Len(a.open)
          /\ Len(c.open) + Len(c.closed) = Len(a.open) + Len(a.closed)
          /\ DOMAIN exits = DOMAIN a.open => Len(c.open) = Len(a.open) - (n + 1)
      <3>1. /\ Len(b.open) <= L /\ Len(b.open) + Len(b.closed) = L + Len(a.closed)
            /\ DOMAIN exits = DOMAIN a.open => Len(b.open) = L - n
        BY <1>1 DEF Passed
      <3>2. Len(c.open) = Len(b.open) - 1 /\ Len(c.closed) = Len(b.closed) + 1
        BY <2>6
      <3>3. PICK x \in Nat, y \in Nat, z \in Nat :
                x = Len(b.open) /\ y = Len(b.closed) /\ z = Len(a.closed)
        BY <2>7
      <3>4. Len(c.open) = x - 1 /\ Len(c.closed) = y + 1 /\ x <= L /\ x + y = L + z
        BY <3>1, <3>2, <3>3
      <3>5. DOMAIN exits = DOMAIN a.open => Len(c.open) = L - (n + 1)
        BY <3>1, <3>3, <3>4
      <3>6. L = Len(a.open)
        BY <1>1
      <3>7. Len(c.open) <= L /\ Len(c.open) + Len(c.closed) = L + Len(a.closed)
        <4>1. x - 1 <= L /\ (x - 1) + (y + 1) = L + z
          BY <3>4
        <4>2. QED
          BY <3>3, <3>4, <4>1
      <3>8. QED
        BY <3>5, <3>6, <3>7
    <2>10. /\ UsedOnce(a) => UsedOnce(c)
           /\ Ids(c) \subseteq Ids(a)
           /\ c.cash - RealizedPnl(c) = a.cash - RealizedPnl(a)
      BY <2>6 DEF Passed
    <2>11. c.book = a.book
      BY <2>6 DEF Passed
    <2>12. \A j \in DOMAIN c.open : \E i \in DOMAIN a.open : c.open[j] = a.open[i]
      <3>1. TAKE j \in DOMAIN c.open
      <3>2. PICK i \in DOMAIN b.open : c.open[j] = b.open[i]
        BY <2>6
      <3>3. QED
        BY <3>2 DEF Passed
    <2>13. Passed(a, exits, n + 1, c)
      BY <1>1, <2>6, <2>8, <2>9, <2>10, <2>11, <2>12 DEF Passed
    <2>14. QED
      BY <1>2, <2>13
  <1>6. QED
    BY <1>4, <1>5

\* The recursive equation of the loop over the positions.
IsLoop(g, a, exits, day, L) ==
    g = [n \in 0 .. L |-> IF n = 0 THEN a ELSE CloseOne(a, exits, day, n, g[n - 1])]

\* It has a solution, however many positions there are.
LEMMA LoopExists ==
    ASSUME NEW a, NEW exits, NEW day, NEW L \in Nat
    PROVE  \E g : IsLoop(g, a, exits, day, L)
  <1> DEFINE N == {n \in Nat : \E g : IsLoop(g, a, exits, day, n)}
  <1>1. 0 \in N
    <2>1. IsLoop([n \in 0 .. 0 |-> a], a, exits, day, 0)
      BY DEF IsLoop
    <2>2. QED
      BY <2>1
  <1>2. ASSUME NEW n \in Nat, n \in N PROVE n + 1 \in N
    <2>1. PICK g : IsLoop(g, a, exits, day, n)
      BY <1>2
    <2>2. PICK h : h = [i \in 0 .. n + 1 |-> IF i = 0 THEN a ELSE CloseOne(a, exits, day, i, g[i - 1])]
      OBVIOUS
    <2>3. \A i \in 0 .. n : h[i] = g[i]
      BY <2>1, <2>2 DEF IsLoop
    <2>4. \A i \in 0 .. n + 1 : i # 0 => i - 1 \in 0 .. n
      OBVIOUS
    <2>5. IsLoop(h, a, exits, day, n + 1)
      BY <2>2, <2>3, <2>4 DEF IsLoop
    <2>6. QED
      BY <2>5
  <1>3. Nat \subseteq N
    <2> HIDE DEF N
    <2>1. QED
      BY <1>1, <1>2, Counting
  <1>4. QED
    BY <1>3

\* The loop passes over every position that was open.
LEMMA CloseAllPasses ==
    ASSUME NEW a, IsAccount(a), OneEach(a), NEW exits, NEW day,
           \A i \in DOMAIN exits : exits[i] \in Int, DOMAIN exits \subseteq DOMAIN a.open
    PROVE  Passed(a, exits, Len(a.open), CloseAll(a, exits, day))
  <1>1. PICK L \in Nat : L = Len(a.open) /\ DOMAIN a.open = 1 .. L
    BY AccountLengths
  <1>2. PICK g : g = CHOOSE f : IsLoop(f, a, exits, day, L)
    OBVIOUS
  <1>3. IsLoop(g, a, exits, day, L)
    BY <1>2, LoopExists
  <1>4. CloseAll(a, exits, day) = g[L]
    BY <1>1, <1>2 DEF CloseAll, IsLoop
  <1> DEFINE S == {n \in 0 .. L : Passed(a, exits, n, g[n])}
  <1>5. 0 \in S
    <2>1. g[0] = a
      BY <1>3 DEF IsLoop
    <2>2. Passed(a, exits, 0, a)
      BY <1>1 DEF Passed
    <2>3. QED
      BY <2>1, <2>2
  <1>6. ASSUME NEW n \in 0 .. L, n \in S, n < L PROVE n + 1 \in S
    <2>1. g[n + 1] = CloseOne(a, exits, day, n + 1, g[n])
      <3>1. n + 1 \in 0 .. L /\ n + 1 # 0 /\ (n + 1) - 1 = n
        BY <1>6
      <3>2. QED
        BY <1>3, <3>1 DEF IsLoop
    <2>2. Passed(a, exits, n + 1, g[n + 1])
      BY <1>1, <1>6, <2>1, CloseOnePasses
    <2>3. QED
      BY <1>6, <2>2
  <1>7. 0 .. L \subseteq S
    <2> HIDE DEF S
    <2>1. QED
      BY <1>5, <1>6, CountingTo
  <1>8. QED
    BY <1>1, <1>4, <1>7

\* What an exit of any kind does to an account.
LEMMA PassedKeeps ==
    ASSUME NEW a, IsAccount(a), OneEach(a), NEW exits, NEW b, Passed(a, exits, Len(a.open), b)
    PROVE  /\ IsAccount(b) /\ OneEach(b) /\ b.book = a.book
           /\ Explained(a) => Explained(b)
           /\ DOMAIN exits = DOMAIN a.open => Len(b.open) = 0
  <1>1. IsAccount(b) /\ OneEach(b) /\ b.book = a.book
        /\ b.cash - RealizedPnl(b) = a.cash - RealizedPnl(a)
        /\ (DOMAIN exits = DOMAIN a.open => Len(b.open) = Len(a.open) - Len(a.open))
    BY DEF Passed
  <1>2. Len(a.open) \in Nat
    BY AccountLengths
  <1>3. ASSUME Explained(a) PROVE Explained(b)
    <2>1. PICK x \in Int, y \in Int : x = a.cash /\ y = RealizedPnl(a)
      BY RealizedType DEF IsAccount
    <2>2. PICK v \in Int, w \in Int : v = b.cash /\ w = RealizedPnl(b)
      BY <1>1, RealizedType DEF IsAccount
    <2>3. a.book["ORDER_FILLED"] \in Int /\ Brokerage \in Int
      BY BrokerAssumption DEF IsAccount, OrderStates
    <2>4. PICK z \in Int : z = Brokerage * a.book["ORDER_FILLED"]
      BY <2>3
    <2>5. StartCapital \in Int
      BY BrokerAssumption
    <2>6. v - w = x - y /\ x = StartCapital + (y - z)
      <3>1. v - w = x - y
        BY <1>1, <2>1, <2>2
      <3>2. x = StartCapital + (y - z)
        BY <1>3, <2>1, <2>4, Zenon DEF Explained
      <3>3. QED
        BY <3>1, <3>2
    <2>7. v = StartCapital + (w - z)
      BY <2>5, <2>6
    <2>8. b.cash = StartCapital + RealizedPnl(b) - Brokerage * b.book["ORDER_FILLED"]
      BY <1>1, <2>2, <2>4, <2>7, Zenon
    <2>9. QED
      BY <2>8 DEF Explained
  <1>4. QED
    BY <1>1, <1>2, <1>3

\* A candle's exits pass over the positions, whatever the candle.
LEMMA ExitsPass ==
    ASSUME NEW a, IsAccount(a), OneEach(a), NEW symbol, NEW high, NEW low, NEW day
    PROVE  \E exits : Passed(a, exits, Len(a.open), CheckExits(a, symbol, high, low, day))
  <1> DEFINE leaving == {i \in DOMAIN a.open :
                           /\ a.open[i].symbol = symbol
                           /\ Stopped(a.open[i], high, low) \/ Reached(a.open[i], high, low)}
             exits == [i \in leaving |-> IF Stopped(a.open[i], high, low)
                                         THEN a.open[i].stop ELSE a.open[i].target]
  <1>1. CheckExits(a, symbol, high, low, day) = CloseAll(a, exits, day)
    BY DEF CheckExits
  <1>2. leaving \subseteq DOMAIN a.open /\ DOMAIN exits = leaving
    OBVIOUS
  <1>3. \A i \in DOMAIN exits : exits[i] \in Int
    BY DEF IsAccount
  <1>4. Passed(a, exits, Len(a.open), CloseAll(a, exits, day))
    <2> HIDE DEF exits, leaving
    <2>1. QED
      BY <1>2, <1>3, CloseAllPasses
  <1>5. QED
    BY <1>1, <1>4

\* So does a square-off, and it leaves nothing, as long as each symbol has a mark.
LEMMA SquareOffPasses ==
    ASSUME NEW a, IsAccount(a), OneEach(a), NEW marks, NEW day,
           \A i \in DOMAIN a.open : marks[a.open[i].symbol] \in Int
    PROVE  \E exits : /\ DOMAIN exits = DOMAIN a.open
                      /\ Passed(a, exits, Len(a.open), SquareOffAll(a, marks, day))
  <1> DEFINE exits == [i \in DOMAIN a.open |-> Mark(a.open[i], marks)]
  <1>1. SquareOffAll(a, marks, day) = CloseAll(a, exits, day)
    BY DEF SquareOffAll
  <1>2. DOMAIN exits = DOMAIN a.open
    OBVIOUS
  <1>3. \A i \in DOMAIN exits : exits[i] \in Int
    BY DEF IsAccount, Mark
  <1>4. Passed(a, exits, Len(a.open), CloseAll(a, exits, day))
    <2> HIDE DEF exits
    <2>1. QED
      BY <1>2, <1>3, CloseAllPasses
  <1>5. QED
    BY <1>1, <1>2, <1>4

\* Entering a result in the book moves nothing else.
LEMMA EnteredKeeps ==
    ASSUME NEW a, IsAccount(a), NEW status \in OrderStates
    PROVE  Entered(a, status) = [cash |-> a.cash, open |-> a.open, closed |-> a.closed,
                                 book |-> [a.book EXCEPT ![status] = @ + 1]]
  <1>1. PICK w, x, y, z : w = a.cash /\ x = a.open /\ y = a.closed /\ z = a.book
    OBVIOUS
  <1>2. a = [cash |-> w, open |-> x, closed |-> y, book |-> z]
    BY <1>1 DEF IsAccount
  <1>3. Entered(a, status) = [cash |-> w, open |-> x, closed |-> y,
                              book |-> [z EXCEPT ![status] = @ + 1]]
    BY <1>2 DEF Entered
  <1>4. QED
    BY <1>1, <1>3

\* What a result that moves no money leaves of an account.
LEMMA EnteredSound ==
    ASSUME NEW a, IsAccount(a), NEW status \in OrderStates, NEW c, c = Entered(a, status)
    PROVE  /\ IsAccount(c) /\ c.cash = a.cash /\ c.open = a.open /\ c.closed = a.closed
           /\ c.book = [a.book EXCEPT ![status] = @ + 1]
  <1>1. PICK w, x, y, z : w = a.cash /\ x = a.open /\ y = a.closed
                          /\ z = [a.book EXCEPT ![status] = @ + 1]
    OBVIOUS
  <1>2. c = [cash |-> w, open |-> x, closed |-> y, book |-> z]
    BY <1>1, EnteredKeeps
  <1>3. c.cash = w /\ c.open = x /\ c.closed = y /\ c.book = z
    BY <1>2
  <1>4. z \in [OrderStates -> Nat]
    BY <1>1 DEF IsAccount
  <1>5. IsAccount(c)
    BY <1>1, <1>2, <1>3, <1>4 DEF IsAccount
  <1>6. QED
    BY <1>1, <1>3, <1>5

\* What a fill that the portfolio takes does to an account.
OpenedOf(a, c, p) ==
    c = [cash |-> a.cash - Brokerage, open |-> Append(a.open, p), closed |-> a.closed,
         book |-> [a.book EXCEPT !["ORDER_FILLED"] = @ + 1]]

\* A fill opens the position of its order, or is charged for nothing.
LEMMA FillsOrCharges ==
    ASSUME NEW a, IsAccount(a), NEW o, NEW price, NEW c, c = Fill(a, o, price).acct,
           NEW p, p = [corr |-> o.corr, symbol |-> o.symbol, side |-> o.side,
                       quantity |-> o.quantity, stop |-> o.stop, target |-> o.target,
                       entry |-> FillPrice(price, o.side, TRUE)]
    PROVE  /\ ~Holds(a, o.corr) => OpenedOf(a, c, p) /\ Fill(a, o, price).status = "ORDER_FILLED"
           /\ Holds(a, o.corr) =>
                 c = [cash |-> a.cash - Brokerage, open |-> a.open, closed |-> a.closed,
                      book |-> [a.book EXCEPT !["ORDER_FILLED"] = @ + 1]]
  <1>1. PICK w, x, y, z : w = a.cash /\ x = a.open /\ y = a.closed
                          /\ z = [a.book EXCEPT !["ORDER_FILLED"] = @ + 1]
    OBVIOUS
  <1>2. PICK less, more : less = w - Brokerage /\ more = Append(x, p)
    OBVIOUS
  <1>3. PICK e : e = Entered(a, "ORDER_FILLED")
    OBVIOUS
  <1>4. e = [cash |-> w, open |-> x, closed |-> y, book |-> z]
    BY <1>1, <1>3, EnteredKeeps DEF OrderStates
  <1>5. [e EXCEPT !.cash = @ - Brokerage] = [cash |-> less, open |-> x, closed |-> y, book |-> z]
    BY <1>2, <1>4
  <1>6. PICK charged : charged = [Entered(a, "ORDER_FILLED") EXCEPT !.cash = @ - Brokerage]
    OBVIOUS
  <1>7. charged = [cash |-> less, open |-> x, closed |-> y, book |-> z]
    BY <1>3, <1>5, <1>6
  <1>8. ASSUME Holds(a, o.corr) PROVE c = charged
    BY <1>6, <1>8 DEF Fill
  <1>9. ASSUME ~Holds(a, o.corr)
        PROVE  /\ c = [charged EXCEPT !.open = Append(@, p)]
               /\ Fill(a, o, price).status = "ORDER_FILLED"
    BY <1>6, <1>9 DEF Fill
  <1>10. [charged EXCEPT !.open = Append(@, p)]
             = [cash |-> less, open |-> more, closed |-> y, book |-> z]
    <2>1. charged.open = x
      BY <1>7
    <2>2. Append(charged.open, p) = more
      BY <1>2, <2>1, Zenon
    <2>3. [charged EXCEPT !.open = more] = [cash |-> less, open |-> more, closed |-> y, book |-> z]
      BY <1>7
    <2>4. QED
      BY <2>2, <2>3, Zenon
  <1>11. QED
    BY <1>1, <1>2, <1>7, <1>8, <1>9, <1>10 DEF OpenedOf

\* The price of a fill is a number.
LEMMA FillPriceType ==
    ASSUME NEW price \in Int, NEW side
    PROVE  FillPrice(price, side, TRUE) \in Int
  <1>1. PICK x \in Int : x = price * SlippagePercent
    <2>1. SlippagePercent \in Int
      BY BrokerAssumption
    <2>2. price * SlippagePercent \in Int
      BY <2>1
    <2>3. QED
      BY <2>2
  <1>2. x \div 100 \in Int
    OBVIOUS
  <1>3. QED
    BY <1>1, <1>2 DEF FillPrice

\* A charge is one more fill's: the cash stays explained.
LEMMA ChargeExplained ==
    ASSUME NEW a, IsAccount(a), Explained(a), NEW c,
           c.cash = a.cash - Brokerage, c.closed = a.closed,
           c.book["ORDER_FILLED"] = a.book["ORDER_FILLED"] + 1
    PROVE  Explained(c)
  <1>1. PICK n \in Int : n = a.book["ORDER_FILLED"]
    BY DEF IsAccount, OrderStates
  <1>2. PICK r \in Int : r = RealizedPnl(a)
    BY RealizedType
  <1>3. RealizedPnl(c) = r
    BY <1>2 DEF RealizedPnl
  <1>4. PICK b \in Int : b = Brokerage
    BY BrokerAssumption
  <1>5. PICK x \in Int : x = a.cash
    BY DEF IsAccount
  <1>6. PICK s \in Int : s = StartCapital
    BY BrokerAssumption
  <1>7. x = s + (r - b * n)
    BY <1>1, <1>2, <1>4, <1>5, <1>6, Zenon DEF Explained
  <1>8. b * (n + 1) = b * n + b
    OBVIOUS
  <1>9. x - b = s + (r - b * (n + 1))
    <2>1. PICK y \in Int : y = b * n
      OBVIOUS
    <2>2. x - b = s + (r - (y + b))
      BY <1>7, <2>1
    <2>3. QED
      BY <1>8, <2>1, <2>2
  <1>10. QED
    BY <1>1, <1>3, <1>4, <1>5, <1>6, <1>9, Zenon DEF Explained

\* What opening a position keeps, and what it changes.
LEMMA OpenedKeeps ==
    ASSUME NEW a, IsAccount(a), OneEach(a), NEW c, NEW p, OpenedOf(a, c, p), ~Holds(a, p.corr),
           {p.quantity, p.entry, p.stop, p.target} \subseteq Int
    PROVE  /\ IsAccount(c) /\ OneEach(c) /\ c.closed = a.closed
           /\ Explained(a) => Explained(c)
           /\ Len(c.open) = Len(a.open) + 1
           /\ c.book = [a.book EXCEPT !["ORDER_FILLED"] = @ + 1]
           /\ Ids(c) = Ids(a) \cup {p.corr}
           /\ UsedOnce(a) /\ p.corr \notin Ids(a) => UsedOnce(c)
           /\ \A j \in DOMAIN c.open : c.open[j] = p \/ \E i \in DOMAIN a.open : c.open[j] = a.open[i]
  <1>1. PICK S : a.open \in Seq(S)
    BY DEF IsAccount
  <1>2. PICK n \in Nat : n = Len(a.open) /\ DOMAIN a.open = 1 .. n
    BY AccountLengths
  <1>3. PICK q : q = Append(a.open, p)
    OBVIOUS
  <1>4. /\ q \in Seq(S \cup {p}) /\ Len(q) = n + 1 /\ DOMAIN q = 1 .. n + 1
        /\ q[n + 1] = p /\ \A i \in 1 .. n : q[i] = a.open[i]
    <2>1. a.open \in Seq(S \cup {p}) /\ p \in S \cup {p}
      BY <1>1
    <2>2. QED
      BY <1>2, <1>3, <2>1
  <1>5. PICK z : z = [a.book EXCEPT !["ORDER_FILLED"] = @ + 1]
    OBVIOUS
  <1>6. z \in [OrderStates -> Nat] /\ z["ORDER_FILLED"] = a.book["ORDER_FILLED"] + 1
    BY <1>5 DEF IsAccount, OrderStates
  <1>7. PICK less \in Int : less = a.cash - Brokerage
    BY BrokerAssumption DEF IsAccount
  <1>8. c = [cash |-> less, open |-> q, closed |-> a.closed, book |-> z]
    BY <1>3, <1>5, <1>7 DEF OpenedOf
  <1>9. c.cash = less /\ c.open = q /\ c.closed = a.closed /\ c.book = z
    BY <1>8
  <1>10. \A j \in 1 .. n + 1 : q[j] = p \/ \E i \in DOMAIN a.open : q[j] = a.open[i]
    BY <1>2, <1>4
  <1>11. IsAccount(c)
    <2>1. \A j \in 1 .. n + 1 : {q[j].quantity, q[j].entry, q[j].stop, q[j].target} \subseteq Int
      <3>1. TAKE j \in 1 .. n + 1
      <3>2. CASE q[j] = p
        BY <3>2
      <3>3. CASE \E i \in DOMAIN a.open : q[j] = a.open[i]
        BY <3>3 DEF IsAccount
      <3>4. QED
        BY <1>10, <3>2, <3>3
    <2>2. c = [cash |-> c.cash, open |-> c.open, closed |-> c.closed, book |-> c.book]
      BY <1>8, <1>9
    <2>3. \E T : c.closed \in Seq(T)
      BY <1>9 DEF IsAccount
    <2>4. \A i \in DOMAIN c.closed : c.closed[i].pnl \in Int
      BY <1>9 DEF IsAccount
    <2>5. \E T : c.open \in Seq(T)
      BY <1>4, <1>9
    <2>6. c.cash \in Int /\ c.book \in [OrderStates -> Nat]
      BY <1>6, <1>9
    <2>7. \A i \in DOMAIN c.open :
            {c.open[i].quantity, c.open[i].entry, c.open[i].stop, c.open[i].target} \subseteq Int
      BY <1>4, <1>9, <2>1
    <2>8. QED
      BY <2>2, <2>3, <2>4, <2>5, <2>6, <2>7 DEF IsAccount
  <1>12. \A i \in 1 .. n : q[i].corr # p.corr
    BY <1>2, <1>4 DEF Holds
  <1>13. OneEach(c)
    <2>1. ASSUME NEW i \in 1 .. n + 1, NEW j \in 1 .. n + 1, q[i].corr = q[j].corr PROVE i = j
      <3>1. i \in 1 .. n \/ i = n + 1
        OBVIOUS
      <3>2. j \in 1 .. n \/ j = n + 1
        OBVIOUS
      <3>3. CASE i \in 1 .. n /\ j \in 1 .. n
        BY <1>2, <1>4, <2>1, <3>3 DEF OneEach
      <3>4. QED
        BY <1>4, <1>12, <2>1, <3>1, <3>2, <3>3
    <2>2. QED
      BY <1>4, <1>9, <2>1 DEF OneEach
  <1>14. ASSUME Explained(a) PROVE Explained(c)
    BY <1>6, <1>7, <1>9, <1>14, ChargeExplained
  <1>15. Ids(c) = Ids(a) \cup {p.corr}
    <2>1. {q[i].corr : i \in 1 .. n + 1} = {a.open[i].corr : i \in 1 .. n} \cup {p.corr}
      <3>1. ASSUME NEW i \in 1 .. n + 1 PROVE q[i].corr \in {a.open[x].corr : x \in 1 .. n} \cup {p.corr}
        <4>1. i \in 1 .. n \/ i = n + 1
          OBVIOUS
        <4>2. QED
          BY <1>4, <4>1
      <3>2. ASSUME NEW i \in 1 .. n PROVE a.open[i].corr \in {q[x].corr : x \in 1 .. n + 1}
        <4>1. i \in 1 .. n + 1 /\ q[i] = a.open[i]
          BY <1>4
        <4>2. QED
          BY <4>1
      <3>3. p.corr \in {q[x].corr : x \in 1 .. n + 1}
        <4>1. n + 1 \in 1 .. n + 1
          OBVIOUS
        <4>2. QED
          BY <1>4, <4>1
      <3>4. QED
        BY <3>1, <3>2, <3>3
    <2>2. Ids(c) = {q[i].corr : i \in 1 .. n + 1} \cup {a.closed[i].corr : i \in DOMAIN a.closed}
      BY <1>4, <1>9 DEF Ids
    <2>3. Ids(a) = {a.open[i].corr : i \in 1 .. n} \cup {a.closed[i].corr : i \in DOMAIN a.closed}
      BY <1>2 DEF Ids
    <2>4. QED
      BY <2>1, <2>2, <2>3
  <1>16. ASSUME UsedOnce(a), p.corr \notin Ids(a) PROVE UsedOnce(c)
    <2>1. ASSUME NEW i \in 1 .. n + 1, NEW j \in DOMAIN a.closed PROVE q[i].corr # a.closed[j].corr
      <3>1. CASE i = n + 1
        BY <1>4, <1>16, <3>1 DEF Ids
      <3>2. CASE i \in 1 .. n
        BY <1>2, <1>4, <1>16, <3>2 DEF UsedOnce
      <3>3. QED
        BY <3>1, <3>2
    <2>2. \A i, j \in DOMAIN a.closed : a.closed[i].corr = a.closed[j].corr => i = j
      BY <1>16 DEF UsedOnce
    <2>3. QED
      BY <1>4, <1>9, <1>13, <2>1, <2>2 DEF UsedOnce
  <1>17. QED
    BY <1>2, <1>4, <1>5, <1>9, <1>10, <1>11, <1>13, <1>14, <1>15, <1>16

\* The positions of an account were another's, or are of one symbol.
HeldOrNew(a, c, symbol) ==
    \A j \in DOMAIN c.open : \/ c.open[j].symbol = symbol
                            \/ \E i \in DOMAIN a.open : c.open[j] = a.open[i]

\* Placing an order, whatever becomes of it, keeps what holds of the account.
LEMMA PlacingKeeps ==
    ASSUME NEW a, AccountInv(a), NEW o, o.quantity \in Int, o.stop \in Int, o.target \in Int,
           NEW price, price \in Int, NEW c, c = PlaceOrder(a, o, price).acct
    PROVE  AccountInv(c) /\ HeldOrNew(a, c, o.symbol)
  <1>1. IsAccount(a) /\ OneEach(a) /\ Explained(a)
    BY DEF AccountInv
  <1>2. PICK n \in Nat, m \in Nat, f \in Nat :
            n = Len(a.open) /\ m = Len(a.closed) /\ f = a.book["ORDER_FILLED"]
    BY <1>1, AccountLengths DEF IsAccount, OrderStates
  <1>3. n <= MaxOpenPositions /\ n + m <= f
    BY <1>2 DEF AccountInv
  <1>4. ASSUME NEW status \in {"ORDER_REJECTED", "ORDER_OPEN"}, c = Entered(a, status)
        PROVE  AccountInv(c) /\ HeldOrNew(a, c, o.symbol)
    <2>1. status \in OrderStates /\ "ORDER_FILLED" \in OrderStates /\ status # "ORDER_FILLED"
      BY DEF OrderStates
    <2>2. /\ IsAccount(c) /\ c.cash = a.cash /\ c.open = a.open /\ c.closed = a.closed
          /\ c.book = [a.book EXCEPT ![status] = @ + 1]
      BY <1>1, <1>4, <2>1, EnteredSound
    <2>3. c.book["ORDER_FILLED"] = a.book["ORDER_FILLED"]
      BY <1>1, <2>1, <2>2 DEF IsAccount
    <2>4. Explained(c)
      BY <1>1, <2>2, <2>3, Zenon DEF Explained, RealizedPnl
    <2>5. OneEach(c)
      BY <1>1, <2>2 DEF OneEach
    <2>6. QED
      BY <1>2, <1>3, <2>2, <2>3, <2>4, <2>5 DEF AccountInv, HeldOrNew
  <1>5. ASSUME ~Refused(a, o), c = Fill(a, o, price).acct
        PROVE  AccountInv(c) /\ HeldOrNew(a, c, o.symbol)
    <2>1. PICK p : p = [corr |-> o.corr, symbol |-> o.symbol, side |-> o.side,
                        quantity |-> o.quantity, stop |-> o.stop, target |-> o.target,
                        entry |-> FillPrice(price, o.side, TRUE)]
      OBVIOUS
    <2>2. p.corr = o.corr /\ p.symbol = o.symbol /\ p.quantity = o.quantity /\ p.stop = o.stop
          /\ p.target = o.target /\ p.entry = FillPrice(price, o.side, TRUE)
      BY <2>1
    <2>3. {p.quantity, p.entry, p.stop, p.target} \subseteq Int
      BY <2>2, FillPriceType
    <2>4. n < MaxOpenPositions
      BY <1>2, <1>5 DEF Refused, CanOpen
    <2>5. CASE Holds(a, o.corr)
      <3>1. c = [cash |-> a.cash - Brokerage, open |-> a.open, closed |-> a.closed,
                 book |-> [a.book EXCEPT !["ORDER_FILLED"] = @ + 1]]
        BY <1>1, <1>5, <2>1, <2>5, FillsOrCharges
      <3>2. PICK x \in Int : x = a.cash - Brokerage
        BY <1>1, BrokerAssumption DEF IsAccount
      <3>3. PICK z : z = [a.book EXCEPT !["ORDER_FILLED"] = @ + 1]
        OBVIOUS
      <3>4. z \in [OrderStates -> Nat] /\ z["ORDER_FILLED"] = a.book["ORDER_FILLED"] + 1
        BY SMTT(20), <1>1, <3>3 DEF IsAccount, OrderStates
      <3>5. c = [cash |-> x, open |-> a.open, closed |-> a.closed, book |-> z]
        BY <3>1, <3>2, <3>3
      <3>6. c.cash = x /\ c.open = a.open /\ c.closed = a.closed /\ c.book = z
        BY <3>5
      <3>7. IsAccount(c)
        BY <1>1, <3>2, <3>4, <3>5, <3>6 DEF IsAccount
      <3>8. Explained(c)
        BY <1>1, <3>2, <3>4, <3>6, ChargeExplained
      <3>9. OneEach(c)
        BY <1>1, <3>6 DEF OneEach
      <3>10. Len(c.open) <= MaxOpenPositions /\ Len(c.open) + Len(c.closed) <= c.book["ORDER_FILLED"]
        <4>1. Len(c.open) = n /\ Len(c.closed) = m /\ c.book["ORDER_FILLED"] = f + 1
          BY <1>2, <3>4, <3>6
        <4>2. n + m <= f + 1
          BY <1>3
        <4>3. QED
          BY <1>3, <4>1, <4>2
      <3>11. QED
        BY <3>6, <3>7, <3>8, <3>9, <3>10 DEF AccountInv, HeldOrNew
    <2>6. CASE ~Holds(a, o.corr)
      <3>1. OpenedOf(a, c, p)
        BY <1>1, <1>5, <2>1, <2>6, FillsOrCharges
      <3>2. /\ IsAccount(c) /\ OneEach(c) /\ c.closed = a.closed
            /\ Explained(a) => Explained(c)
            /\ Len(c.open) = Len(a.open) + 1
            /\ c.book = [a.book EXCEPT !["ORDER_FILLED"] = @ + 1]
            /\ \A j \in DOMAIN c.open :
                  c.open[j] = p \/ \E i \in DOMAIN a.open : c.open[j] = a.open[i]
        <4>1. ~Holds(a, p.corr)
          BY <2>2, <2>6
        <4>2. QED
          BY <1>1, <2>3, <3>1, <4>1, OpenedKeeps
      <3>3. c.book["ORDER_FILLED"] = f + 1
        BY <1>1, <1>2, <3>2 DEF IsAccount, OrderStates
      <3>4. MaxOpenPositions \in Nat
        BY BrokerAssumption
      <3>5. Len(c.open) = n + 1 /\ Len(c.closed) = m
        BY <1>2, <3>2
      <3>6. n + 1 <= MaxOpenPositions /\ (n + 1) + m <= f + 1
        BY <1>3, <2>4, <3>4
      <3>7. AccountInv(c)
        BY <1>1, <3>2, <3>3, <3>5, <3>6 DEF AccountInv
      <3>8. QED
        BY <2>2, <3>2, <3>7 DEF HeldOrNew
    <2>7. QED
      BY <2>5, <2>6
  <1>6. CASE Refused(a, o)
    BY <1>4, <1>6 DEF PlaceOrder
  <1>7. CASE ~Refused(a, o) /\ ~Marketable(o, price)
    BY <1>4, <1>7 DEF PlaceOrder
  <1>8. CASE ~Refused(a, o) /\ Marketable(o, price)
    BY <1>5, <1>8 DEF PlaceOrder
  <1>9. QED
    BY <1>6, <1>7, <1>8

\* An exit of any kind keeps it too.
LEMMA ExitKeeps ==
    ASSUME NEW a, AccountInv(a), NEW exits, NEW c, Passed(a, exits, Len(a.open), c)
    PROVE  /\ AccountInv(c)
           /\ \A j \in DOMAIN c.open : \E i \in DOMAIN a.open : c.open[j] = a.open[i]
  <1>1. IsAccount(a) /\ OneEach(a) /\ Explained(a) /\ Len(a.open) <= MaxOpenPositions
        /\ Len(a.open) + Len(a.closed) <= a.book["ORDER_FILLED"]
    BY DEF AccountInv
  <1>2. IsAccount(c) /\ OneEach(c) /\ c.book = a.book /\ Explained(c)
    BY <1>1, PassedKeeps
  <1>3. PICK n \in Nat, m \in Nat : n = Len(a.open) /\ m = Len(a.closed)
    BY <1>1, AccountLengths
  <1>4. PICK x \in Nat, y \in Nat : x = Len(c.open) /\ y = Len(c.closed)
    BY <1>2, AccountLengths
  <1>5. x <= n /\ x + y = n + m
    BY <1>3, <1>4 DEF Passed
  <1>6. MaxOpenPositions \in Nat
    BY BrokerAssumption
  <1>7. Len(c.open) <= MaxOpenPositions /\ Len(c.open) + Len(c.closed) <= c.book["ORDER_FILLED"]
    <2>1. PICK f \in Nat : f = a.book["ORDER_FILLED"] /\ f = c.book["ORDER_FILLED"]
      BY <1>1, <1>2 DEF IsAccount, OrderStates
    <2>2. n <= MaxOpenPositions /\ n + m <= f
      BY <1>1, <1>3, <2>1
    <2>3. x <= MaxOpenPositions /\ x + y <= f
      BY <1>5, <1>6, <2>2
    <2>4. QED
      BY <1>4, <2>1, <2>3
  <1>8. \A j \in DOMAIN c.open : \E i \in DOMAIN a.open : c.open[j] = a.open[i]
    BY DEF Passed
  <1>9. QED
    BY <1>2, <1>7, <1>8 DEF AccountInv

\* The broker holds only positions in the symbols it was given orders for.
Symbols == {o.symbol : o \in Orders}

BrokerInv ==
    /\ AccountInv(acct)
    /\ \A i \in DOMAIN acct.open : acct.open[i].symbol \in Symbols

\* Whatever the broker is asked next, it keeps its books.
LEMMA BrokerStep == BrokerInv /\ [BrokerNext]_acct => BrokerInv'
  <1> SUFFICES ASSUME BrokerInv, [BrokerNext]_acct
               PROVE  BrokerInv'
    OBVIOUS
  <1>1. AccountInv(acct) /\ \A i \in DOMAIN acct.open : acct.open[i].symbol \in Symbols
    BY DEF BrokerInv
  <1>2. ASSUME NEW c, AccountInv(c),
               \A j \in DOMAIN c.open : \E i \in DOMAIN acct.open : c.open[j] = acct.open[i]
        PROVE  \A j \in DOMAIN c.open : c.open[j].symbol \in Symbols
    BY <1>1, <1>2
  <1>3. CASE CallPlaceOrder
    <2>1. PICK o \in Orders, price \in OrderPrices : acct' = PlaceOrder(acct, o, price).acct
      BY <1>3 DEF CallPlaceOrder
    <2>2. o.quantity \in Int /\ o.stop \in Int /\ o.target \in Int /\ price \in Int
      BY BrokerAssumption
    <2>3. AccountInv(acct') /\ HeldOrNew(acct, acct', o.symbol)
      BY <1>1, <2>1, <2>2, PlacingKeeps
    <2>4. o.symbol \in Symbols
      BY DEF Symbols
    <2>5. \A j \in DOMAIN acct'.open : acct'.open[j].symbol \in Symbols
      BY <1>1, <2>3, <2>4 DEF HeldOrNew
    <2>6. QED
      BY <2>3, <2>5 DEF BrokerInv
  <1>4. CASE CallCheckExits
    <2>1. PICK o \in Orders, low \in OrderPrices, high \in OrderPrices :
              acct' = CheckExits(acct, o.symbol, high, low, 0)
      BY <1>4 DEF CallCheckExits
    <2>2. PICK exits : Passed(acct, exits, Len(acct.open), acct')
      BY <1>1, <2>1, ExitsPass DEF AccountInv
    <2>3. AccountInv(acct')
          /\ \A j \in DOMAIN acct'.open : \E i \in DOMAIN acct.open : acct'.open[j] = acct.open[i]
      BY <1>1, <2>2, ExitKeeps
    <2>4. QED
      BY <1>2, <2>3 DEF BrokerInv
  <1>5. CASE CallSquareOff
    <2> DEFINE marks(price) == [s \in Symbols |-> price]
    <2>1. PICK price \in OrderPrices : acct' = SquareOffAll(acct, marks(price), 0)
      BY <1>5 DEF CallSquareOff, Symbols
    <2>2. \A i \in DOMAIN acct.open : marks(price)[acct.open[i].symbol] \in Int
      BY <1>1, BrokerAssumption
    <2> HIDE DEF marks
    <2>3. PICK exits : Passed(acct, exits, Len(acct.open), acct')
      BY <1>1, <2>1, <2>2, SquareOffPasses DEF AccountInv
    <2>4. AccountInv(acct')
          /\ \A j \in DOMAIN acct'.open : \E i \in DOMAIN acct.open : acct'.open[j] = acct.open[i]
      BY <1>1, <2>3, ExitKeeps
    <2>5. QED
      BY <1>2, <2>4 DEF BrokerInv
  <1>6. CASE UNCHANGED acct
    BY <1>1, <1>6 DEF BrokerInv
  <1>7. QED
    BY <1>3, <1>4, <1>5, <1>6 DEF BrokerNext

\* A new account is in order.
LEMMA NewAccountSound ==
    AccountInv(NewAccount) /\ NewAccount.open = <<>> /\ NewAccount.closed = <<>>
        /\ UsedOnce(NewAccount) /\ Ids(NewAccount) = {}
  <1>1. PICK a : a = NewAccount
    OBVIOUS
  <1>2. PICK z : z = [s \in OrderStates |-> 0]
    OBVIOUS
  <1>3. a = [cash |-> StartCapital, open |-> <<>>, closed |-> <<>>, book |-> z]
    BY <1>1, <1>2 DEF NewAccount
  <1>4. a.cash = StartCapital /\ a.open = <<>> /\ a.closed = <<>> /\ a.book = z
    BY <1>3
  <1>5. z \in [OrderStates -> Nat] /\ z["ORDER_FILLED"] = 0
    BY <1>2 DEF OrderStates
  <1>6. /\ <<>> \in Seq({}) /\ Len(<<>>) = 0 /\ DOMAIN <<>> = {}
        /\ StartCapital \in Nat /\ Brokerage \in Nat /\ MaxOpenPositions \in Nat
    BY BrokerAssumption
  <1>7. IsAccount(a)
    BY <1>3, <1>4, <1>5, <1>6 DEF IsAccount
  <1>8. RealizedPnl(a) = 0
    <2>1. PICK f : f = [i \in DOMAIN a.closed |-> a.closed[i].pnl]
      OBVIOUS
    <2>2. DOMAIN f = {}
      BY <1>4, <1>6, <2>1
    <2>3. QED
      BY <2>1, <2>2, SumEmpty DEF RealizedPnl
  <1>9. Explained(a)
    <2>1. Brokerage * 0 = 0 /\ StartCapital = StartCapital + (0 - 0)
      BY <1>6
    <2>2. QED
      BY <1>4, <1>5, <1>8, <2>1, Zenon DEF Explained
  <1>10. OneEach(a) /\ UsedOnce(a) /\ Ids(a) = {}
    BY <1>4, <1>6 DEF OneEach, UsedOnce, Ids
  <1>11. QED
    BY <1>1, <1>4, <1>5, <1>6, <1>7, <1>9, <1>10 DEF AccountInv

\* Any orders, candles and prices: the cash is explained by what was closed and charged,
\* the positions by the fills.
THEOREM AccountIsSound == BrokerSpec => []AccountSound
  <1>1. BrokerInit => BrokerInv
    <2> SUFFICES ASSUME BrokerInit
                 PROVE  BrokerInv
      OBVIOUS
    <2>1. AccountInv(acct) /\ acct.open = <<>> /\ DOMAIN acct.open = {}
      BY NewAccountSound DEF BrokerInit
    <2>2. QED
      BY <2>1 DEF BrokerInv
  <1>2. BrokerInv => AccountSound
    <2> SUFFICES ASSUME BrokerInv
                 PROVE  AccountSound
      OBVIOUS
    <2>1. AccountInv(acct)
      BY DEF BrokerInv
    <2>2. CashExplained
      BY <2>1, Zenon DEF AccountInv, Explained, CashExplained
    <2>3. IsInjective([i \in DOMAIN acct.open |-> acct.open[i].corr])
      BY <2>1 DEF AccountInv, OneEach, IsInjective
    <2>4. QED
      BY <2>1, <2>2, <2>3 DEF AccountInv, PositionsBounded, AccountSound
  <1>3. QED
    BY <1>1, <1>2, BrokerStep, PTL DEF BrokerSpec

(***************************************************************************)
(* The live paper runtime.                                                 *)
(***************************************************************************)
\* The engine at work on a tick: every field is of its type.
IsEngine(e) ==
    /\ e = [acct |-> e.acct, ordered |-> e.ordered, trades |-> e.trades, tally |-> e.tally,
            events |-> e.events]
    /\ e.tally \in [Counters -> Nat] /\ e.events \in [EventTypes -> Nat]
    /\ e.ordered \subseteq Nat \ {0} /\ IsFiniteSet(e.ordered)

\* Its account: what holds of any account, with ids of orders, each used once.
AccountFits(e) ==
    /\ IsAccount(e.acct) /\ UsedOnce(e.acct) /\ Explained(e.acct)
    /\ Ids(e.acct) \subseteq e.ordered
    /\ \A i \in DOMAIN e.acct.open : e.acct.open[i].symbol \in Allowed

\* Its orders: n were filled, m of the positions closed, none refused or left open.
OrdersFit(e, n, m) ==
    /\ e.trades = n /\ Cardinality(e.ordered) = n
    /\ e.acct.book["ORDER_FILLED"] = n
    /\ e.acct.book["ORDER_OPEN"] = 0 /\ e.acct.book["ORDER_REJECTED"] = 0
    /\ e.events["PaperOrderCreated"] = n /\ e.events["PaperOrderFilled"] = n
    /\ e.events["PaperPositionOpened"] = n
    /\ e.events["PaperPositionClosed"] = m /\ e.events["PaperPnLUpdated"] = n + m

\* Its report: each counter is a number of events.
TallyFits(e) ==
    /\ e.tally["ticks"] = e.events["TickReceived"]
    /\ e.tally["finalized"] = e.events["CandleFinalized"]
    /\ e.tally["signals"] = e.events["SignalGenerated"]
    /\ e.tally["blocks"] = e.events["RiskBlocked"]
    /\ e.tally["errors"] = e.events["RuntimeError"]

EngineOK(e) ==
    /\ IsEngine(e) /\ AccountFits(e) /\ TallyFits(e)
    /\ OrdersFit(e, Len(e.acct.open) + Len(e.acct.closed), Len(e.acct.closed))

\* A candle of the n-th timeframe: it begins on the grid of its timeframe and is as long.
CandleOK(c, n) ==
    /\ c = [start |-> c.start, end |-> c.end, open |-> c.open, high |-> c.high, low |-> c.low,
            close |-> c.close, volume |-> c.volume]
    /\ {c.start, c.end, c.open, c.high, c.low, c.close} \subseteq Int /\ c.volume \in Nat
    /\ c # NoCandle =>
          /\ c.end = c.start + Frames[n] /\ {c.open, c.close} \subseteq c.low .. c.high
          /\ \E k \in Nat : c.start = k * Frames[n]

\* The candles of a symbol, what was completed before what is forming.
CandlesOK(s) ==
    \A n \in DOMAIN Frames :
        /\ CandleOK(forming[s][n], n)
        /\ completed[s][n].volume \in Nat /\ completed[s][n].end \in Int
        /\ forming[s][n] = NoCandle => completed[s][n].end = 0
        /\ forming[s][n] # NoCandle => forming[s][n].start >= completed[s][n].end

RuntimeInv ==
    /\ clock \in Nat
    /\ prices \in [Allowed -> Int]
    /\ DOMAIN checker.last = Allowed
    /\ forming = [s \in Allowed |-> forming[s]] /\ completed = [s \in Allowed |-> completed[s]]
    /\ \A s \in Allowed : DOMAIN forming[s] = DOMAIN Frames /\ CandlesOK(s)
    /\ IsFiniteSet(DOMAIN seconds) /\ seconds \in [DOMAIN seconds -> 1 .. MaxTicks]
    /\ EngineOK(Engine)
    /\ VolumeConserved

\* What publishing an event leaves of the engine.
LEMMA EmitGives ==
    ASSUME NEW e, IsEngine(e), NEW type \in EventTypes, NEW n \in Nat,
           NEW f, f = Emit(e, type, n)
    PROVE  /\ IsEngine(f) /\ f.acct = e.acct /\ f.ordered = e.ordered /\ f.trades = e.trades
           /\ f.tally = e.tally /\ f.events = [e.events EXCEPT ![type] = @ + n]
  <1>1. PICK a, o, t, y, v : a = e.acct /\ o = e.ordered /\ t = e.trades /\ y = e.tally /\ v = e.events
    OBVIOUS
  <1>2. e = [acct |-> a, ordered |-> o, trades |-> t, tally |-> y, events |-> v]
    BY <1>1 DEF IsEngine
  <1>3. PICK w : w = [v EXCEPT ![type] = @ + n]
    OBVIOUS
  <1>4. f = [acct |-> a, ordered |-> o, trades |-> t, tally |-> y, events |-> w]
    BY <1>2, <1>3 DEF Emit
  <1>5. f.acct = a /\ f.ordered = o /\ f.trades = t /\ f.tally = y /\ f.events = w
    BY <1>4
  <1>6. v \in [EventTypes -> Nat]
    BY <1>1 DEF IsEngine
  <1>7. w \in [EventTypes -> Nat]
    BY <1>3, <1>6
  <1>8. IsEngine(f)
    BY <1>1, <1>4, <1>5, <1>7 DEF IsEngine
  <1>9. QED
    BY <1>1, <1>3, <1>5, <1>8

\* What counting once more leaves of the engine.
Ticked(e, c) == [e EXCEPT !.tally[c] = @ + 1]

\* What one more in a counter leaves of the engine.
LEMMA TallyGives ==
    ASSUME NEW e, IsEngine(e), NEW c \in Counters, NEW f, f = Ticked(e, c)
    PROVE  /\ IsEngine(f) /\ f.acct = e.acct /\ f.ordered = e.ordered /\ f.trades = e.trades
           /\ f.tally = [e.tally EXCEPT ![c] = @ + 1] /\ f.events = e.events
  <1>1. PICK a, o, t, y, v : a = e.acct /\ o = e.ordered /\ t = e.trades /\ y = e.tally /\ v = e.events
    OBVIOUS
  <1>2. e = [acct |-> a, ordered |-> o, trades |-> t, tally |-> y, events |-> v]
    BY <1>1 DEF IsEngine
  <1>3. PICK w : w = [y EXCEPT ![c] = @ + 1]
    OBVIOUS
  <1>4. f = [acct |-> a, ordered |-> o, trades |-> t, tally |-> w, events |-> v]
    BY <1>2, <1>3 DEF Ticked
  <1>5. f.acct = a /\ f.ordered = o /\ f.trades = t /\ f.tally = w /\ f.events = v
    BY <1>4
  <1>6. w \in [Counters -> Nat]
    BY <1>1, <1>3 DEF IsEngine
  <1>7. IsEngine(f)
    BY <1>1, <1>4, <1>5, <1>6 DEF IsEngine
  <1>8. QED
    BY <1>1, <1>3, <1>5, <1>7

\* An engine whose counts moved, and nothing of the account or the orders.
LEMMA CountsMove ==
    ASSUME NEW e, EngineOK(e), NEW f, IsEngine(f), TallyFits(f),
           f.acct = e.acct, f.ordered = e.ordered, f.trades = e.trades,
           \A type \in {"PaperOrderCreated", "PaperOrderFilled", "PaperPositionOpened",
                        "PaperPositionClosed", "PaperPnLUpdated"} : f.events[type] = e.events[type]
    PROVE  EngineOK(f)
  <1>1. AccountFits(f)
    BY DEF EngineOK, AccountFits
  <1>2. OrdersFit(f, Len(f.acct.open) + Len(f.acct.closed), Len(f.acct.closed))
    BY DEF EngineOK, OrdersFit
  <1>3. QED
    BY <1>1, <1>2 DEF EngineOK

\* The engine stays in order, and no tick, bad tick or error was counted.
Kept(e, f) ==
    /\ EngineOK(f)
    /\ f.tally["ticks"] = e.tally["ticks"] /\ f.tally["quality"] = e.tally["quality"]
    /\ f.tally["errors"] = e.tally["errors"]

\* One event and its counter.
Counted(e, f, type, c) ==
    /\ EngineOK(f) /\ f.acct = e.acct /\ f.ordered = e.ordered /\ f.trades = e.trades
    /\ f.tally = [e.tally EXCEPT ![c] = @ + 1]
    /\ f.events = [e.events EXCEPT ![type] = @ + 1]

\* Counting an event with its counter keeps the engine in order.
LEMMA CountedOnce ==
    ASSUME NEW e, EngineOK(e), NEW type, NEW c, NEW f,
           <<type, c>> \in {<<"TickReceived", "ticks">>, <<"CandleFinalized", "finalized">>,
                            <<"SignalGenerated", "signals">>, <<"RiskBlocked", "blocks">>,
                            <<"RuntimeError", "errors">>},
           f = Ticked(Emit(e, type, 1), c)
    PROVE  Counted(e, f, type, c)
  <1>1. type \in EventTypes /\ c \in Counters
    BY DEF EventTypes, Counters
  <1>2. IsEngine(e) /\ TallyFits(e)
    BY DEF EngineOK
  <1>3. PICK g : g = Emit(e, type, 1)
    OBVIOUS
  <1>4. /\ IsEngine(g) /\ g.acct = e.acct /\ g.ordered = e.ordered /\ g.trades = e.trades
        /\ g.tally = e.tally /\ g.events = [e.events EXCEPT ![type] = @ + 1]
    BY <1>1, <1>2, <1>3, EmitGives
  <1>5. f = Ticked(g, c)
    BY <1>3
  <1>6. /\ IsEngine(f) /\ f.acct = g.acct /\ f.ordered = g.ordered /\ f.trades = g.trades
        /\ f.tally = [g.tally EXCEPT ![c] = @ + 1] /\ f.events = g.events
    BY SMTT(20), <1>1, <1>4, <1>5, TallyGives
  <1>7. PICK y, v : y = e.tally /\ v = e.events
    OBVIOUS
  <1>8. y \in [Counters -> Nat] /\ v \in [EventTypes -> Nat]
    BY <1>2, <1>7 DEF IsEngine
  <1>9. PICK z, w : z = f.tally /\ w = f.events
    OBVIOUS
  <1>10. z = [y EXCEPT ![c] = @ + 1] /\ w = [v EXCEPT ![type] = @ + 1]
    BY <1>4, <1>6, <1>7, <1>9
  <1>11. /\ y["ticks"] = v["TickReceived"] /\ y["finalized"] = v["CandleFinalized"]
         /\ y["signals"] = v["SignalGenerated"] /\ y["blocks"] = v["RiskBlocked"]
         /\ y["errors"] = v["RuntimeError"]
    BY <1>2, <1>7 DEF TallyFits
  <1>12. /\ \A k \in EventTypes : w[k] = IF k = type THEN v[k] + 1 ELSE v[k]
         /\ \A k \in Counters : z[k] = IF k = c THEN y[k] + 1 ELSE y[k]
    BY <1>8, <1>10
  <1>13. /\ z["ticks"] = w["TickReceived"] /\ z["finalized"] = w["CandleFinalized"]
         /\ z["signals"] = w["SignalGenerated"] /\ z["blocks"] = w["RiskBlocked"]
         /\ z["errors"] = w["RuntimeError"]
    BY <1>11, <1>12 DEF EventTypes, Counters
  <1>14. TallyFits(f)
    BY <1>9, <1>13 DEF TallyFits
  <1>15. \A k \in {"PaperOrderCreated", "PaperOrderFilled", "PaperPositionOpened",
                   "PaperPositionClosed", "PaperPnLUpdated"} : f.events[k] = e.events[k]
    BY <1>7, <1>9, <1>12 DEF EventTypes
  <1>16. EngineOK(f)
    BY <1>4, <1>6, <1>14, <1>15, CountsMove
  <1>17. QED
    BY <1>4, <1>6, <1>16 DEF Counted

\* The account of the engine replaced by another one.
WithAcct(e, a) == [e EXCEPT !.acct = a]

\* What giving the engine another account leaves of it.
LEMMA WithAcctGives ==
    ASSUME NEW e, IsEngine(e), NEW a, NEW f, f = WithAcct(e, a)
    PROVE  /\ IsEngine(f) /\ f.acct = a /\ f.ordered = e.ordered /\ f.trades = e.trades
           /\ f.tally = e.tally /\ f.events = e.events
  <1>1. PICK b, o, t, y, v : b = e.acct /\ o = e.ordered /\ t = e.trades /\ y = e.tally /\ v = e.events
    OBVIOUS
  <1>2. e = [acct |-> b, ordered |-> o, trades |-> t, tally |-> y, events |-> v]
    BY <1>1 DEF IsEngine
  <1>3. f = [acct |-> a, ordered |-> o, trades |-> t, tally |-> y, events |-> v]
    BY <1>2 DEF WithAcct
  <1>4. f.acct = a /\ f.ordered = o /\ f.trades = t /\ f.tally = y /\ f.events = v
    BY <1>3
  <1>5. IsEngine(f)
    BY <1>1, <1>3, <1>4 DEF IsEngine
  <1>6. QED
    BY <1>1, <1>4, <1>5

\* A block is an event and a counter.
LEMMA RiskBlockKeeps ==
    ASSUME NEW e, EngineOK(e), NEW f, f = RiskBlock(e)
    PROVE  /\ Kept(e, f) /\ f.acct = e.acct
           /\ f.events = [e.events EXCEPT !["RiskBlocked"] = @ + 1]
  <1>1. f = Ticked(Emit(e, "RiskBlocked", 1), "blocks")
    BY DEF RiskBlock, Ticked
  <1>2. /\ EngineOK(f) /\ f.acct = e.acct
        /\ f.tally = [e.tally EXCEPT !["blocks"] = @ + 1]
        /\ f.events = [e.events EXCEPT !["RiskBlocked"] = @ + 1]
    <2>1. Counted(e, f, "RiskBlocked", "blocks")
      BY <1>1, CountedOnce
    <2>2. QED
      BY <2>1 DEF Counted
  <1>3. e.tally \in [Counters -> Nat]
    BY DEF EngineOK, IsEngine
  <1>4. QED
    BY <1>2, <1>3 DEF Kept, Counters

\* Positions that left an account by an exit are published, one by one.
LEMMA ClosedKeepsBooks ==
    ASSUME NEW e, EngineOK(e), NEW exits, NEW a, Passed(e.acct, exits, Len(e.acct.open), a),
           NEW f, f = Closed(e, a)
    PROVE  Kept(e, f) /\ f.acct = a
  <1>1. /\ IsEngine(e) /\ AccountFits(e) /\ TallyFits(e)
        /\ OrdersFit(e, Len(e.acct.open) + Len(e.acct.closed), Len(e.acct.closed))
    BY DEF EngineOK
  <1>2. IsAccount(e.acct) /\ OneEach(e.acct) /\ UsedOnce(e.acct) /\ Explained(e.acct)
    BY <1>1 DEF AccountFits, UsedOnce
  <1>3. IsAccount(a) /\ a.book = e.acct.book /\ Explained(a)
    BY <1>2, PassedKeeps
  <1>4. PICK n \in Nat, m \in Nat : n = Len(e.acct.open) /\ m = Len(e.acct.closed)
    BY <1>2, AccountLengths
  <1>5. PICK x \in Nat, y \in Nat : x = Len(a.open) /\ y = Len(a.closed)
    BY <1>3, AccountLengths
  <1>6. x <= n /\ x + y = n + m
    BY <1>4, <1>5 DEF Passed
  <1>7. PICK k \in Nat : k = y - m /\ k = Len(a.closed) - Len(e.acct.closed)
    <2>1. y - m \in Nat
      BY <1>6
    <2>2. QED
      BY <1>4, <1>5, <2>1
  <1>8. PICK g : g = Emit(e, "PaperPositionClosed", k)
    OBVIOUS
  <1>9. /\ IsEngine(g) /\ g.acct = e.acct /\ g.ordered = e.ordered /\ g.trades = e.trades
        /\ g.tally = e.tally /\ g.events = [e.events EXCEPT !["PaperPositionClosed"] = @ + k]
    <2>1. "PaperPositionClosed" \in EventTypes
      BY DEF EventTypes
    <2>2. QED
      BY <1>1, <1>8, <2>1, EmitGives
  <1>10. PICK h : h = Emit(g, "PaperPnLUpdated", k)
    OBVIOUS
  <1>11. /\ IsEngine(h) /\ h.ordered = g.ordered /\ h.trades = g.trades
         /\ h.tally = g.tally /\ h.events = [g.events EXCEPT !["PaperPnLUpdated"] = @ + k]
    <2>1. "PaperPnLUpdated" \in EventTypes
      BY DEF EventTypes
    <2>2. QED
      BY <1>9, <1>10, <2>1, EmitGives
  <1>12. f = WithAcct(h, a)
    BY <1>7, <1>8, <1>10 DEF Closed, WithAcct
  <1>13. /\ IsEngine(f) /\ f.acct = a /\ f.ordered = h.ordered /\ f.trades = h.trades
         /\ f.tally = h.tally /\ f.events = h.events
    BY <1>11, <1>12, WithAcctGives
  <1>14. AccountFits(f)
    <2>1. UsedOnce(a) /\ Ids(a) \subseteq e.ordered
      BY <1>1, <1>2 DEF AccountFits, Passed
    <2>2. \A i \in DOMAIN a.open : a.open[i].symbol \in Allowed
      BY <1>1 DEF AccountFits, Passed
    <2>3. QED
      BY <1>3, <1>9, <1>11, <1>13, <2>1, <2>2 DEF AccountFits
  <1>15. PICK u, v, w : u = e.events /\ v = g.events /\ w = f.events
    OBVIOUS
  <1>16. u \in [EventTypes -> Nat]
    BY <1>1, <1>15 DEF IsEngine
  <1>17. \A t \in EventTypes : v[t] = IF t = "PaperPositionClosed" THEN u[t] + k ELSE u[t]
    BY <1>9, <1>15, <1>16
  <1>18. v \in [EventTypes -> Nat]
    BY <1>9, <1>15 DEF IsEngine
  <1>19. \A t \in EventTypes : w[t] = IF t \in {"PaperPositionClosed", "PaperPnLUpdated"}
                                      THEN u[t] + k ELSE u[t]
    <2>1. w = [v EXCEPT !["PaperPnLUpdated"] = @ + k]
      BY <1>11, <1>13, <1>15
    <2>2. \A t \in EventTypes : w[t] = IF t = "PaperPnLUpdated" THEN v[t] + k ELSE v[t]
      BY <1>18, <2>1
    <2>3. QED
      BY <1>17, <2>2
  <1>20. TallyFits(f)
    <2>1. f.tally = e.tally
      BY <1>9, <1>11, <1>13
    <2>2. /\ w["TickReceived"] = u["TickReceived"] /\ w["CandleFinalized"] = u["CandleFinalized"]
          /\ w["SignalGenerated"] = u["SignalGenerated"] /\ w["RiskBlocked"] = u["RiskBlocked"]
          /\ w["RuntimeError"] = u["RuntimeError"]
      BY <1>19 DEF EventTypes
    <2>3. QED
      BY <1>1, <1>15, <2>1, <2>2 DEF TallyFits
  <1>21. OrdersFit(f, x + y, y)
    <2>1. f.trades = e.trades /\ f.ordered = e.ordered /\ f.acct.book = e.acct.book
      BY <1>3, <1>9, <1>11, <1>13
    <2>2. OrdersFit(e, n + m, m)
      BY <1>1, <1>4
    <2>3. /\ w["PaperOrderCreated"] = u["PaperOrderCreated"]
          /\ w["PaperOrderFilled"] = u["PaperOrderFilled"]
          /\ w["PaperPositionOpened"] = u["PaperPositionOpened"]
          /\ w["PaperPositionClosed"] = u["PaperPositionClosed"] + k
          /\ w["PaperPnLUpdated"] = u["PaperPnLUpdated"] + k
      BY <1>19 DEF EventTypes
    <2>4. u["PaperPositionClosed"] = m /\ u["PaperPnLUpdated"] = n + m + m
      BY <1>15, <2>2 DEF OrdersFit
    <2>5. m + k = y /\ n + m + m + k = x + y + y
      BY <1>6, <1>7
    <2>6. w["PaperPositionClosed"] = y /\ w["PaperPnLUpdated"] = x + y + y
      BY <2>3, <2>4, <2>5
    <2>7. QED
      BY <1>6, <1>15, <2>1, <2>2, <2>3, <2>6 DEF OrdersFit
  <1>22. EngineOK(f)
    BY <1>5, <1>13, <1>14, <1>20, <1>21 DEF EngineOK
  <1>23. QED
    BY <1>9, <1>11, <1>13, <1>22 DEF Kept

\* An order is entered by its correlation id.
WithId(e, corr) == [e EXCEPT !.ordered = @ \cup {corr}]

\* What one more used id leaves of the engine.
LEMMA WithIdGives ==
    ASSUME NEW e, IsEngine(e), NEW corr \in Nat \ {0}, NEW f, f = WithId(e, corr)
    PROVE  /\ IsEngine(f) /\ f.acct = e.acct /\ f.ordered = e.ordered \cup {corr}
           /\ f.trades = e.trades /\ f.tally = e.tally /\ f.events = e.events
  <1>1. PICK b, o, t, y, v : b = e.acct /\ o = e.ordered /\ t = e.trades /\ y = e.tally /\ v = e.events
    OBVIOUS
  <1>2. e = [acct |-> b, ordered |-> o, trades |-> t, tally |-> y, events |-> v]
    BY <1>1 DEF IsEngine
  <1>3. f = [acct |-> b, ordered |-> o \cup {corr}, trades |-> t, tally |-> y, events |-> v]
    BY <1>2 DEF WithId
  <1>4. f.acct = b /\ f.ordered = o \cup {corr} /\ f.trades = t /\ f.tally = y /\ f.events = v
    BY <1>3
  <1>5. IsFiniteSet(o \cup {corr})
    BY <1>1, FS_AddElement DEF IsEngine
  <1>6. IsEngine(f)
    BY <1>1, <1>3, <1>4, <1>5 DEF IsEngine
  <1>7. QED
    BY <1>1, <1>4, <1>6

\* A fill counts as a trade.
WithTrade(e) == [e EXCEPT !.trades = @ + 1]

\* What one more trade leaves of the engine.
LEMMA WithTradeGives ==
    ASSUME NEW e, IsEngine(e), NEW f, f = WithTrade(e)
    PROVE  /\ IsEngine(f) /\ f.acct = e.acct /\ f.ordered = e.ordered
           /\ f.trades = e.trades + 1 /\ f.tally = e.tally /\ f.events = e.events
  <1>1. PICK b, o, t, y, v : b = e.acct /\ o = e.ordered /\ t = e.trades /\ y = e.tally /\ v = e.events
    OBVIOUS
  <1>2. e = [acct |-> b, ordered |-> o, trades |-> t, tally |-> y, events |-> v]
    BY <1>1 DEF IsEngine
  <1>3. f = [acct |-> b, ordered |-> o, trades |-> t + 1, tally |-> y, events |-> v]
    BY <1>2 DEF WithTrade
  <1>4. f.acct = b /\ f.ordered = o /\ f.trades = t + 1 /\ f.tally = y /\ f.events = v
    BY <1>3
  <1>5. IsEngine(f)
    BY <1>1, <1>3, <1>4 DEF IsEngine
  <1>6. QED
    BY <1>1, <1>4, <1>5

\* The order of a signal is for one share, at the market.
LEMMA SignalOrderIs ==
    ASSUME NEW symbol, NEW sig, sig.side \in Sides, NEW close \in Int,
           NEW o, o = SignalOrder(symbol, sig, close)
    PROVE  /\ o.corr = sig.corr /\ o.symbol = symbol /\ o.side = sig.side
           /\ o.quantity = 1 /\ o.limit = 0 /\ o.stop \in Int /\ o.target \in Int
  <1>1. StopDistance \in Int /\ TargetDistance \in Int
    BY RuntimeAssumption
  <1>2. PICK up \in Int : up = IF sig.side = "BUY" THEN 1 ELSE -1
    OBVIOUS
  <1>3. up * StopDistance \in Int /\ up * TargetDistance \in Int
    BY <1>1
  <1>4. o = [corr |-> sig.corr, symbol |-> symbol, side |-> sig.side, quantity |-> 1, limit |-> 0,
             stop |-> IF StopDistance = 0 THEN 0 ELSE close - up * StopDistance,
             target |-> IF TargetDistance = 0 THEN 0 ELSE close + up * TargetDistance]
    BY <1>2 DEF SignalOrder
  <1>5. /\ o.stop = IF StopDistance = 0 THEN 0 ELSE close - up * StopDistance
        /\ o.target = IF TargetDistance = 0 THEN 0 ELSE close + up * TargetDistance
    BY <1>4
  <1>6. o.stop \in Int /\ o.target \in Int
    <2>1. PICK x \in Int, y \in Int : x = up * StopDistance /\ y = up * TargetDistance
      BY <1>3
    <2>2. close - x \in Int /\ close + y \in Int
      OBVIOUS
    <2>3. QED
      BY <1>5, <2>1, <2>2
  <1>7. QED
    BY <1>4, <1>6

\* The broker always fills the order of a new signal that was let through.
LEMMA SignalOrderFills ==
    ASSUME NEW a, IsAccount(a), OneEach(a), CanOpen(a), NEW symbol, NEW sig, sig.side \in Sides,
           NEW close \in Int, sig.corr \notin Ids(a),
           NEW r, r = PlaceOrder(a, SignalOrder(symbol, sig, close), close)
    PROVE  /\ r.status = "ORDER_FILLED"
           /\ \E p : /\ OpenedOf(a, r.acct, p) /\ ~Holds(a, p.corr)
                     /\ p.corr = sig.corr /\ p.symbol = symbol
                     /\ {p.quantity, p.entry, p.stop, p.target} \subseteq Int
  <1>1. PICK o : o = SignalOrder(symbol, sig, close)
    OBVIOUS
  <1>2. /\ o.corr = sig.corr /\ o.symbol = symbol /\ o.side = sig.side
        /\ o.quantity = 1 /\ o.limit = 0 /\ o.stop \in Int /\ o.target \in Int
    BY <1>1, SignalOrderIs
  <1>3. ~Refused(a, o) /\ Marketable(o, close)
    BY <1>2 DEF Refused, Marketable
  <1>4. r = Fill(a, o, close)
    BY <1>1, <1>3 DEF PlaceOrder
  <1>5. ~Holds(a, o.corr)
    BY <1>2 DEF Holds, Ids
  <1>6. PICK p : p = [corr |-> o.corr, symbol |-> o.symbol, side |-> o.side,
                      quantity |-> o.quantity, stop |-> o.stop, target |-> o.target,
                      entry |-> FillPrice(close, o.side, TRUE)]
    OBVIOUS
  <1>7. OpenedOf(a, r.acct, p) /\ r.status = "ORDER_FILLED"
    <2>1. PICK c : c = Fill(a, o, close).acct
      OBVIOUS
    <2>2. OpenedOf(a, c, p) /\ Fill(a, o, close).status = "ORDER_FILLED"
      BY <1>5, <1>6, <2>1, FillsOrCharges
    <2>3. QED
      BY <1>4, <2>1, <2>2
  <1>8. p.corr = o.corr /\ p.symbol = o.symbol /\ p.quantity = o.quantity /\ p.stop = o.stop
        /\ p.target = o.target /\ p.entry = FillPrice(close, o.side, TRUE)
    BY <1>6
  <1>9. {p.quantity, p.entry, p.stop, p.target} \subseteq Int
    <2>1. FillPrice(close, o.side, TRUE) \in Int
      BY FillPriceType
    <2>2. p.quantity \in Int /\ p.stop \in Int /\ p.target \in Int
      BY <1>2, <1>8
    <2>3. p.entry \in Int
      BY <1>8, <2>1, Zenon
    <2>4. QED
      BY <2>2, <2>3
  <1>10. QED
    BY <1>2, <1>5, <1>7, <1>8, <1>9

\* A new signal's order is created, filled and published once.
LEMMA OrderKeeps ==
    ASSUME NEW e, EngineOK(e), CanOpen(e.acct), NEW symbol \in Allowed, NEW sig,
           sig.side \in Sides, sig.corr \in Nat \ {0}, sig.corr \notin e.ordered,
           NEW close \in Int, NEW f, f = Order(e, symbol, sig, close)
    PROVE  Kept(e, f)
  <1>1. /\ IsEngine(e) /\ AccountFits(e) /\ TallyFits(e)
        /\ OrdersFit(e, Len(e.acct.open) + Len(e.acct.closed), Len(e.acct.closed))
    BY DEF EngineOK
  <1>2. /\ IsAccount(e.acct) /\ OneEach(e.acct) /\ UsedOnce(e.acct) /\ Explained(e.acct)
        /\ Ids(e.acct) \subseteq e.ordered
    BY <1>1 DEF AccountFits, UsedOnce
  <1>3. PICK n \in Nat, m \in Nat : n = Len(e.acct.open) + Len(e.acct.closed)
                                    /\ m = Len(e.acct.closed)
    <2>1. PICK k \in Nat, j \in Nat : k = Len(e.acct.open) /\ j = Len(e.acct.closed)
      BY <1>2, AccountLengths
    <2>2. k + j \in Nat
      OBVIOUS
    <2>3. QED
      BY <2>1, <2>2
  <1>4. PICK r : r = PlaceOrder(e.acct, SignalOrder(symbol, sig, close), close)
    OBVIOUS
  <1>5. PICK a : a = r.acct
    OBVIOUS
  <1>6. r.status = "ORDER_FILLED"
    BY <1>2, <1>4, SignalOrderFills
  <1>7. PICK p : /\ OpenedOf(e.acct, a, p) /\ ~Holds(e.acct, p.corr)
                 /\ p.corr = sig.corr /\ p.symbol = symbol
                 /\ {p.quantity, p.entry, p.stop, p.target} \subseteq Int
    BY <1>2, <1>4, <1>5, SignalOrderFills
  <1>8. /\ IsAccount(a) /\ OneEach(a) /\ a.closed = e.acct.closed
        /\ Explained(e.acct) => Explained(a)
        /\ Len(a.open) = Len(e.acct.open) + 1
        /\ a.book = [e.acct.book EXCEPT !["ORDER_FILLED"] = @ + 1]
        /\ Ids(a) = Ids(e.acct) \cup {p.corr}
        /\ UsedOnce(e.acct) /\ p.corr \notin Ids(e.acct) => UsedOnce(a)
        /\ \A j \in DOMAIN a.open :
              a.open[j] = p \/ \E i \in DOMAIN e.acct.open : a.open[j] = e.acct.open[i]
    BY SMTT(20), <1>2, <1>7, OpenedKeeps
  <1>9. PICK g : g = Emit(e, "PaperOrderCreated", 1)
    OBVIOUS
  <1>10. /\ IsEngine(g) /\ g.acct = e.acct /\ g.ordered = e.ordered /\ g.trades = e.trades
         /\ g.tally = e.tally /\ g.events = [e.events EXCEPT !["PaperOrderCreated"] = @ + 1]
    <2>1. "PaperOrderCreated" \in EventTypes
      BY DEF EventTypes
    <2>2. QED
      BY <1>1, <1>9, <2>1, EmitGives
  <1>11. PICK h : h = WithAcct(WithId(g, sig.corr), a)
    OBVIOUS
  <1>12. /\ IsEngine(h) /\ h.acct = a /\ h.ordered = g.ordered \cup {sig.corr}
         /\ h.trades = g.trades /\ h.tally = g.tally /\ h.events = g.events
    <2>1. PICK k : k = WithId(g, sig.corr)
      OBVIOUS
    <2>2. /\ IsEngine(k) /\ k.ordered = g.ordered \cup {sig.corr}
          /\ k.trades = g.trades /\ k.tally = g.tally /\ k.events = g.events
      BY <1>10, <2>1, WithIdGives
    <2>3. h = WithAcct(k, a)
      BY <1>11, <2>1
    <2>4. /\ IsEngine(h) /\ h.acct = a /\ h.ordered = k.ordered /\ h.trades = k.trades
          /\ h.tally = k.tally /\ h.events = k.events
      BY <2>2, <2>3, WithAcctGives
    <2>5. QED
      BY <2>2, <2>4
  <1>13. PICK x, y, z : /\ x = Emit(h, "PaperOrderFilled", 1)
                        /\ y = Emit(x, "PaperPositionOpened", 1)
                        /\ z = Emit(y, "PaperPnLUpdated", 1)
    OBVIOUS
  <1>14. /\ "PaperOrderFilled" \in EventTypes /\ "PaperPositionOpened" \in EventTypes
         /\ "PaperPnLUpdated" \in EventTypes
    BY DEF EventTypes
  <1>15. /\ IsEngine(x) /\ x.acct = h.acct /\ x.ordered = h.ordered /\ x.trades = h.trades
         /\ x.tally = h.tally /\ x.events = [h.events EXCEPT !["PaperOrderFilled"] = @ + 1]
    BY <1>12, <1>13, <1>14, EmitGives
  <1>16. /\ IsEngine(y) /\ y.acct = x.acct /\ y.ordered = x.ordered /\ y.trades = x.trades
         /\ y.tally = x.tally /\ y.events = [x.events EXCEPT !["PaperPositionOpened"] = @ + 1]
    BY <1>13, <1>14, <1>15, EmitGives
  <1>17. /\ IsEngine(z) /\ z.acct = y.acct /\ z.ordered = y.ordered /\ z.trades = y.trades
         /\ z.tally = y.tally /\ z.events = [y.events EXCEPT !["PaperPnLUpdated"] = @ + 1]
    BY <1>13, <1>14, <1>16, EmitGives
  <1>18. f = WithTrade(z)
    <2>1. f = Placed(WithId(g, sig.corr), r)
      BY <1>4, <1>9 DEF Order, WithId
    <2>2. Placed(WithId(g, sig.corr), r) = WithTrade(Emit(Emit(Emit(WithAcct(WithId(g, sig.corr), r.acct),
              "PaperOrderFilled", 1), "PaperPositionOpened", 1), "PaperPnLUpdated", 1))
      BY <1>6 DEF Placed, WithTrade, WithAcct
    <2>3. QED
      BY <1>5, <1>11, <1>13, <2>1, <2>2
  <1>19. /\ IsEngine(f) /\ f.acct = z.acct /\ f.ordered = z.ordered
         /\ f.trades = z.trades + 1 /\ f.tally = z.tally /\ f.events = z.events
    BY <1>17, <1>18, WithTradeGives
  <1>20. /\ IsEngine(f) /\ f.acct = a /\ f.ordered = e.ordered \cup {sig.corr}
         /\ f.trades = e.trades + 1 /\ f.tally = e.tally
    BY <1>10, <1>12, <1>15, <1>16, <1>17, <1>19
  <1>21. AccountFits(f)
    <2>1. p.corr \notin Ids(e.acct)
      BY <1>2, <1>7
    <2>2. UsedOnce(a) /\ Explained(a) /\ IsAccount(a)
      BY <1>2, <1>8, <2>1
    <2>3. Ids(a) \subseteq f.ordered
      BY <1>2, <1>7, <1>8, <1>20
    <2>4. \A j \in DOMAIN a.open : a.open[j].symbol \in Allowed
      BY <1>1, <1>7, <1>8 DEF AccountFits
    <2>5. QED
      BY <1>20, <2>2, <2>3, <2>4 DEF AccountFits
  <1>22. PICK u, v : u = e.events /\ v = f.events
    OBVIOUS
  <1>23. \A t \in EventTypes : v[t] = IF t \in {"PaperOrderCreated", "PaperOrderFilled",
                                                "PaperPositionOpened", "PaperPnLUpdated"}
                                      THEN u[t] + 1 ELSE u[t]
    <2>1. PICK ug, ux, uy : ug = g.events /\ ux = x.events /\ uy = y.events
      OBVIOUS
    <2>2. /\ u \in [EventTypes -> Nat] /\ ug \in [EventTypes -> Nat]
          /\ ux \in [EventTypes -> Nat] /\ uy \in [EventTypes -> Nat]
      BY <1>1, <1>10, <1>15, <1>16, <1>22, <2>1 DEF IsEngine
    <2>3. /\ ug = [u EXCEPT !["PaperOrderCreated"] = @ + 1]
          /\ ux = [ug EXCEPT !["PaperOrderFilled"] = @ + 1]
          /\ uy = [ux EXCEPT !["PaperPositionOpened"] = @ + 1]
          /\ v = [uy EXCEPT !["PaperPnLUpdated"] = @ + 1]
      BY <1>10, <1>12, <1>15, <1>16, <1>17, <1>19, <1>22, <2>1
    <2>4. \A t \in EventTypes : ug[t] = IF t = "PaperOrderCreated" THEN u[t] + 1 ELSE u[t]
      BY <2>2, <2>3
    <2>5. \A t \in EventTypes : ux[t] = IF t = "PaperOrderFilled" THEN ug[t] + 1 ELSE ug[t]
      BY <2>2, <2>3
    <2>6. \A t \in EventTypes : uy[t] = IF t = "PaperPositionOpened" THEN ux[t] + 1 ELSE ux[t]
      BY <2>2, <2>3
    <2>7. \A t \in EventTypes : v[t] = IF t = "PaperPnLUpdated" THEN uy[t] + 1 ELSE uy[t]
      BY <2>2, <2>3
    <2>8. QED
      BY <2>4, <2>5, <2>6, <2>7
  <1>24. TallyFits(f)
    <2>1. /\ v["TickReceived"] = u["TickReceived"] /\ v["CandleFinalized"] = u["CandleFinalized"]
          /\ v["SignalGenerated"] = u["SignalGenerated"] /\ v["RiskBlocked"] = u["RiskBlocked"]
          /\ v["RuntimeError"] = u["RuntimeError"]
      BY <1>23 DEF EventTypes
    <2>2. QED
      BY <1>1, <1>20, <1>22, <2>1 DEF TallyFits
  <1>25. OrdersFit(f, n + 1, m)
    <2>1. OrdersFit(e, n, m)
      BY <1>1, <1>3
    <2>2. /\ v["PaperOrderCreated"] = u["PaperOrderCreated"] + 1
          /\ v["PaperOrderFilled"] = u["PaperOrderFilled"] + 1
          /\ v["PaperPositionOpened"] = u["PaperPositionOpened"] + 1
          /\ v["PaperPositionClosed"] = u["PaperPositionClosed"]
          /\ v["PaperPnLUpdated"] = u["PaperPnLUpdated"] + 1
      BY <1>23 DEF EventTypes
    <2>3. /\ u["PaperOrderCreated"] = n /\ u["PaperOrderFilled"] = n /\ u["PaperPositionOpened"] = n
          /\ u["PaperPositionClosed"] = m /\ u["PaperPnLUpdated"] = n + m
          /\ e.trades = n /\ Cardinality(e.ordered) = n
      BY <1>22, <2>1 DEF OrdersFit
    <2>4. /\ v["PaperOrderCreated"] = n + 1 /\ v["PaperOrderFilled"] = n + 1
          /\ v["PaperPositionOpened"] = n + 1
          /\ v["PaperPositionClosed"] = m /\ v["PaperPnLUpdated"] = (n + 1) + m
          /\ f.trades = n + 1
      BY <1>20, <2>2, <2>3
    <2>5. Cardinality(f.ordered) = n + 1
      <3>1. IsFiniteSet(e.ordered)
        BY <1>1 DEF IsEngine
      <3>2. Cardinality(e.ordered \cup {sig.corr}) = Cardinality(e.ordered) + 1
        BY <3>1, FS_AddElement
      <3>3. QED
        BY <1>20, <2>3, <3>2
    <2>6. /\ a.book["ORDER_FILLED"] = n + 1
          /\ a.book["ORDER_OPEN"] = 0 /\ a.book["ORDER_REJECTED"] = 0
      <3>1. PICK b, c : b = e.acct.book /\ c = a.book
        OBVIOUS
      <3>2. b \in [OrderStates -> Nat] /\ c = [b EXCEPT !["ORDER_FILLED"] = @ + 1]
        BY <1>2, <1>8, <3>1 DEF IsAccount
      <3>3. b["ORDER_FILLED"] = n /\ b["ORDER_OPEN"] = 0 /\ b["ORDER_REJECTED"] = 0
        BY <2>1, <3>1 DEF OrdersFit
      <3>4. c["ORDER_FILLED"] = n + 1 /\ c["ORDER_OPEN"] = 0 /\ c["ORDER_REJECTED"] = 0
        BY <3>2, <3>3 DEF OrderStates
      <3>5. QED
        BY <3>1, <3>4
    <2>7. QED
      BY <1>20, <1>22, <2>4, <2>5, <2>6 DEF OrdersFit
  <1>26. Len(a.open) + Len(a.closed) = n + 1 /\ Len(a.closed) = m
    <2>1. Len(a.open) = Len(e.acct.open) + 1 /\ Len(a.closed) = Len(e.acct.closed)
      BY <1>8
    <2>2. PICK k \in Nat, j \in Nat : k = Len(e.acct.open) /\ j = Len(e.acct.closed)
      BY <1>2, AccountLengths
    <2>3. Len(a.open) = k + 1 /\ Len(a.closed) = j /\ n = k + j /\ m = j
      BY <1>3, <2>1, <2>2
    <2>4. (k + 1) + j = (k + j) + 1
      OBVIOUS
    <2>5. QED
      BY <2>3, <2>4
  <1>27. EngineOK(f)
    BY <1>20, <1>21, <1>24, <1>25, <1>26 DEF EngineOK
  <1>28. QED
    BY <1>20, <1>27 DEF Kept

\* One thing after the other.
LEMMA KeptTwice ==
    ASSUME NEW e, NEW f, NEW g, Kept(e, f), Kept(f, g)
    PROVE  Kept(e, g)
  BY DEF Kept

\* Doing nothing keeps the engine in order.
LEMMA KeptSame == ASSUME NEW e, EngineOK(e) PROVE Kept(e, e)
  BY DEF Kept

\* A signal is blocked, passed over, or becomes an order.
LEMMA RouteKeeps ==
    ASSUME NEW e, EngineOK(e), CanOpen(e.acct), NEW symbol \in Allowed, NEW sig,
           sig.corr \in Nat \ {0}, NEW close \in Int, NEW f, f = RouteSignal(e, symbol, sig, close)
    PROVE  Kept(e, f)
  <1>1. PICK g : g = Ticked(Emit(e, "SignalGenerated", 1), "signals")
    OBVIOUS
  <1>2. /\ EngineOK(g) /\ g.acct = e.acct /\ g.ordered = e.ordered
        /\ g.tally = [e.tally EXCEPT !["signals"] = @ + 1]
    <2>1. Counted(e, g, "SignalGenerated", "signals")
      BY <1>1, CountedOnce
    <2>2. QED
      BY <2>1 DEF Counted
  <1>3. e.tally \in [Counters -> Nat]
    BY DEF EngineOK, IsEngine
  <1>4. Kept(e, g)
    BY <1>2, <1>3 DEF Kept, Counters
  <1>5. f = IF sig.side \notin Sides THEN g
            ELSE IF sig.corr \in e.ordered THEN RiskBlock(g)
            ELSE Order(g, symbol, sig, close)
    BY <1>1 DEF RouteSignal, Ticked
  <1>6. CASE sig.side \notin Sides
    BY <1>4, <1>5, <1>6
  <1>7. CASE sig.side \in Sides /\ sig.corr \in e.ordered
    <2>1. f = RiskBlock(g)
      BY <1>5, <1>7
    <2>2. Kept(g, f)
      BY <1>2, <2>1, RiskBlockKeeps
    <2>3. QED
      BY <1>4, <2>2, KeptTwice
  <1>8. CASE sig.side \in Sides /\ sig.corr \notin e.ordered
    <2>1. f = Order(g, symbol, sig, close)
      BY <1>5, <1>8
    <2>2. CanOpen(g.acct) /\ sig.corr \notin g.ordered
      BY <1>2, <1>8
    <2>3. Kept(g, f)
      BY <1>2, <1>8, <2>1, <2>2, OrderKeeps
    <2>4. QED
      BY <1>4, <2>3, KeptTwice
  <1>9. QED
    BY <1>6, <1>7, <1>8

\* The risk monitor lets a signal through only while another position may be opened.
LEMMA GenerateKeeps ==
    ASSUME NEW e, EngineOK(e), NEW symbol \in Allowed, NEW sig, sig.corr \in Nat \ {0},
           NEW candle, candle.close \in Int, NEW marks,
           NEW f, f = GenerateAndRoute(e, symbol, sig, candle, marks)
    PROVE  Kept(e, f)
  <1>1. PICK reasons : reasons = Assess(e.acct, FALSE, FALSE, e.trades, Day(candle.end), marks)
    OBVIOUS
  <1>2. CASE reasons # {} \/ FirstMinutesBlocked(candle.end)
    <2>1. f = RiskBlock(e)
      BY <1>1, <1>2 DEF GenerateAndRoute
    <2>2. QED
      BY <2>1, RiskBlockKeeps
  <1>3. CASE reasons = {} /\ ~FirstMinutesBlocked(candle.end)
    <2>1. f = RouteSignal(e, symbol, sig, candle.close)
      BY <1>1, <1>3 DEF GenerateAndRoute
    <2>2. ~(Len(e.acct.open) >= MaxOpenPositions)
      <3>1. {r \in {"max open positions hit"} : Len(e.acct.open) >= MaxOpenPositions} \subseteq reasons
        BY <1>1 DEF Assess
      <3>2. QED
        BY <1>3, <3>1
    <2>3. CanOpen(e.acct)
      <3>1. Len(e.acct.open) \in Nat
        BY AccountLengths DEF EngineOK, AccountFits
      <3>2. QED
        BY <2>2, <3>1, BrokerAssumption DEF CanOpen
    <2>4. QED
      BY <2>1, <2>3, RouteKeeps
  <1>4. QED
    BY <1>2, <1>3

\* A finalized candle: exits, then perhaps an entry.
LEMMA OnCandleKeeps ==
    ASSUME NEW e, EngineOK(e), NEW symbol \in Allowed, NEW sig, sig.corr \in Nat \ {0},
           NEW frame, NEW candle, candle.close \in Int, NEW marks,
           NEW f, f = OnCandle(e, symbol, sig, frame, candle, marks)
    PROVE  Kept(e, f)
  <1>1. PICK g : g = Ticked(Emit(e, "CandleFinalized", 1), "finalized")
    OBVIOUS
  <1>2. /\ EngineOK(g) /\ g.acct = e.acct
        /\ g.tally = [e.tally EXCEPT !["finalized"] = @ + 1]
    <2>1. Counted(e, g, "CandleFinalized", "finalized")
      BY <1>1, CountedOnce
    <2>2. QED
      BY <2>1 DEF Counted
  <1>3. e.tally \in [Counters -> Nat]
    BY DEF EngineOK, IsEngine
  <1>4. Kept(e, g)
    BY <1>2, <1>3 DEF Kept, Counters
  <1>5. PICK a : a = CheckExits(e.acct, symbol, candle.high, candle.low, Day(candle.end))
    OBVIOUS
  <1>6. PICK h : h = Closed(g, a)
    OBVIOUS
  <1>7. Kept(g, h)
    <2>1. IsAccount(e.acct) /\ OneEach(e.acct)
      BY DEF EngineOK, AccountFits, UsedOnce
    <2>2. PICK exits : Passed(e.acct, exits, Len(e.acct.open), a)
      BY <1>5, <2>1, ExitsPass
    <2>3. Passed(g.acct, exits, Len(g.acct.open), a)
      BY <1>2, <2>2
    <2>4. QED
      BY <1>2, <1>6, <2>3, ClosedKeepsBooks
  <1>8. f = IF frame = EntryFrame THEN GenerateAndRoute(h, symbol, sig, candle, marks) ELSE h
    BY <1>1, <1>5, <1>6 DEF OnCandle, Ticked
  <1>9. Kept(h, f)
    <2>1. EngineOK(h)
      BY <1>7 DEF Kept
    <2>2. CASE frame = EntryFrame
      BY <1>8, <2>1, <2>2, GenerateKeeps
    <2>3. CASE frame # EntryFrame
      BY <1>8, <2>1, <2>3, KeptSame
    <2>4. QED
      BY <2>2, <2>3
  <1>10. QED
    BY <1>4, <1>7, <1>9, KeptTwice

\* Inside the square-off window, every position that is open is closed.
LEMMA SquareOffKeeps ==
    ASSUME NEW e, EngineOK(e), NEW tick, NEW marks \in [Allowed -> Int],
           NEW f, f = SquareOff(e, tick, marks)
    PROVE  /\ Kept(e, f)
           /\ ShouldSquareOff(tick.time) => f.acct.open = <<>>
  <1>1. CASE ~ShouldSquareOff(tick.time)
    BY <1>1, KeptSame DEF SquareOff
  <1>2. CASE ShouldSquareOff(tick.time)
    <2>1. PICK a : a = SquareOffAll(e.acct, marks, Day(tick.time))
      OBVIOUS
    <2>2. f = Closed(e, a)
      BY <1>2, <2>1 DEF SquareOff
    <2>3. IsAccount(e.acct) /\ OneEach(e.acct)
      BY DEF EngineOK, AccountFits, UsedOnce
    <2>4. \A i \in DOMAIN e.acct.open : marks[e.acct.open[i].symbol] \in Int
      BY DEF EngineOK, AccountFits
    <2>5. PICK exits : /\ DOMAIN exits = DOMAIN e.acct.open
                       /\ Passed(e.acct, exits, Len(e.acct.open), a)
      BY <2>1, <2>3, <2>4, SquareOffPasses
    <2>6. Kept(e, f) /\ f.acct = a
      BY <2>2, <2>5, ClosedKeepsBooks
    <2>7. Len(a.open) = 0 /\ IsAccount(a)
      BY <2>3, <2>5, PassedKeeps
    <2>8. a.open = <<>>
      <3>1. PICK S : a.open \in Seq(S)
        BY <2>7 DEF IsAccount
      <3>2. QED
        BY <2>7, <3>1
    <2>9. QED
      BY <2>6, <2>8
  <1>3. QED
    BY <1>1, <1>2

\* The recursive equation of the loop over the candles of a tick.
IsCandleLoop(g, tick, sig, marks, L) ==
    g = [n \in 0 .. L |-> IF n = 0 THEN Received ELSE HandleFrame(tick, sig, marks, n, g[n - 1])]

\* It has a solution, however many timeframes there are.
LEMMA CandleLoopExists ==
    ASSUME NEW tick, NEW sig, NEW marks, NEW L \in Nat
    PROVE  \E g : IsCandleLoop(g, tick, sig, marks, L)
  <1> DEFINE N == {n \in Nat : \E g : IsCandleLoop(g, tick, sig, marks, n)}
  <1>1. 0 \in N
    <2>1. IsCandleLoop([n \in 0 .. 0 |-> Received], tick, sig, marks, 0)
      BY DEF IsCandleLoop
    <2>2. QED
      BY <2>1
  <1>2. ASSUME NEW n \in Nat, n \in N PROVE n + 1 \in N
    <2>1. PICK g : IsCandleLoop(g, tick, sig, marks, n)
      BY <1>2
    <2>2. PICK h : h = [i \in 0 .. n + 1 |-> IF i = 0 THEN Received
                                             ELSE HandleFrame(tick, sig, marks, i, g[i - 1])]
      OBVIOUS
    <2>3. \A i \in 0 .. n : h[i] = g[i]
      BY <2>1, <2>2 DEF IsCandleLoop
    <2>4. \A i \in 0 .. n + 1 : i # 0 => i - 1 \in 0 .. n
      OBVIOUS
    <2>5. IsCandleLoop(h, tick, sig, marks, n + 1)
      BY <2>2, <2>3, <2>4 DEF IsCandleLoop
    <2>6. QED
      BY <2>5
  <1>3. Nat \subseteq N
    <2> HIDE DEF N
    <2>1. QED
      BY <1>1, <1>2, Counting
  <1>4. QED
    BY <1>3

\* The candles a tick completes are handled one after the other.
LEMMA AfterCandlesKeeps ==
    ASSUME EngineOK(Received), NEW tick, tick.symbol \in Allowed,
           \A n \in DOMAIN Frames : forming[tick.symbol][n].close \in Int,
           NEW sig, sig.corr \in Nat \ {0}, NEW marks
    PROVE  Kept(Received, AfterCandles(tick, sig, marks))
  <1>1. PICK L \in Nat : L = Len(Frames) /\ DOMAIN Frames = 1 .. L
    BY SpineAssumption
  <1>2. PICK g : g = CHOOSE f : IsCandleLoop(f, tick, sig, marks, L)
    OBVIOUS
  <1>3. IsCandleLoop(g, tick, sig, marks, L)
    BY <1>2, CandleLoopExists
  <1>4. AfterCandles(tick, sig, marks) = g[L]
    BY <1>1, <1>2 DEF AfterCandles, IsCandleLoop
  <1> DEFINE S == {n \in 0 .. L : Kept(Received, g[n])}
  <1>5. 0 \in S
    <2>1. g[0] = Received
      BY <1>3 DEF IsCandleLoop
    <2>2. QED
      BY <2>1, KeptSame
  <1>6. ASSUME NEW n \in 0 .. L, n \in S, n < L PROVE n + 1 \in S
    <2>1. g[n + 1] = HandleFrame(tick, sig, marks, n + 1, g[n])
      <3>1. n + 1 \in 0 .. L /\ n + 1 # 0 /\ (n + 1) - 1 = n
        BY <1>6
      <3>2. QED
        BY <1>3, <3>1 DEF IsCandleLoop
    <2>2. PICK e, f : e = g[n] /\ f = g[n + 1]
      OBVIOUS
    <2>3. Kept(Received, e) /\ EngineOK(e)
      BY <1>6, <2>2 DEF Kept
    <2>4. Kept(e, f)
      <3>1. PICK c : c = forming[tick.symbol][n + 1]
        OBVIOUS
      <3>2. c.close \in Int
        <4>1. n + 1 \in DOMAIN Frames
          BY <1>1, <1>6
        <4>2. QED
          BY <3>1, <4>1
      <3>3. f = IF Completes(c, tick)
                THEN OnCandle(e, tick.symbol, sig, n + 1, c, marks) ELSE e
        BY <2>1, <2>2, <3>1 DEF HandleFrame
      <3>4. CASE Completes(c, tick)
        BY <2>3, <3>2, <3>3, <3>4, OnCandleKeeps
      <3>5. CASE ~Completes(c, tick)
        BY <2>3, <3>3, <3>5, KeptSame
      <3>6. QED
        BY <3>4, <3>5
    <2>5. Kept(Received, f)
      BY <2>3, <2>4, KeptTwice
    <2>6. QED
      BY <1>6, <2>2, <2>5
  <1>7. 0 .. L \subseteq S
    <2> HIDE DEF S
    <2>1. QED
      BY <1>5, <1>6, CountingTo
  <1>8. QED
    BY <1>1, <1>4, <1>7

\* A number without remainder is a multiple.
LEMMA DividesEvenly ==
    ASSUME NEW a \in Nat, NEW b \in Nat \ {0}, a % b = 0
    PROVE  \E q \in Nat : a = b * q
  OBVIOUS

\* Two multiples of a timeframe, the later one less than a timeframe after a time.
LEMMA GridOrder ==
    ASSUME NEW k \in Nat, NEW m \in Nat, NEW b \in Nat \ {0}, NEW t \in Int,
           m * b <= t, t < k * b + b
    PROVE  m * b <= k * b
  <1>1. CASE m <= k
    <2>1. PICK i \in Nat : i = k - m
      BY <1>1
    <2>2. i * b >= 0 /\ k * b = m * b + i * b
      BY <2>1
    <2>3. QED
      BY <2>2
  <1>2. CASE m > k
    <2>1. PICK i \in Nat : i = m - k - 1
      BY <1>2
    <2>2. m = k + 1 + i
      BY <2>1
    <2>3. i * b >= 0 /\ m * b = k * b + b + i * b
      BY <2>2
    <2>4. QED
      BY <2>3
  <1>3. QED
    BY <1>1, <1>2

\* A time is rounded down to the grid of a timeframe that divides the day.
LEMMA FloorIsGrid ==
    ASSUME NEW time \in Nat, NEW frame \in Nat \ {0}, DayLength % frame = 0
    PROVE  \E k \in Nat : /\ FloorTimestamp(time, frame) = k * frame
                          /\ k * frame <= time /\ time < k * frame + frame
  <1>1. DayLength \in Nat \ {0}
    BY SpineAssumption
  <1>2. PICK d \in Nat : /\ d = time \div DayLength /\ DayLength * d <= time
    BY <1>1, Divides
  <1>3. PICK q \in Nat : DayLength = frame * q
    BY <1>1, DividesEvenly
  <1>4. PICK x \in Int : x = d * DayLength /\ x = DayLength * d
    BY <1>1
  <1>5. PICK r \in Nat : r = time - x
    BY <1>2, <1>4
  <1>6. PICK j \in Nat : j = r \div frame /\ frame * j <= r /\ r < frame * j + frame
    BY Divides
  <1>7. FloorTimestamp(time, frame) = x + j * frame
    BY <1>2, <1>4, <1>5, <1>6 DEF FloorTimestamp, DayStart
  <1>8. PICK e \in Nat : e = d * q
    OBVIOUS
  <1>9. x = e * frame
    <2>1. d * (frame * q) = (d * q) * frame
      OBVIOUS
    <2>2. QED
      BY <1>3, <1>4, <1>8, <2>1
  <1>10. (e + j) * frame = e * frame + j * frame /\ j * frame = frame * j
    OBVIOUS
  <1>11. FloorTimestamp(time, frame) = (e + j) * frame
    BY <1>7, <1>9, <1>10
  <1>12. x + j * frame <= time /\ time < x + j * frame + frame
    BY <1>5, <1>6, <1>10
  <1>13. (e + j) * frame <= time /\ time < (e + j) * frame + frame
    <2>1. PICK y \in Int : y = j * frame
      OBVIOUS
    <2>2. (e + j) * frame = x + y
      BY <1>9, <1>10, <2>1
    <2>3. QED
      BY <1>12, <2>1, <2>2
  <1>14. e + j \in Nat
    OBVIOUS
  <1>15. QED
    BY <1>11, <1>13, <1>14

\* What is asked of a tick that is let through to the candles.
Fed(tick) == tick.time \in Nat /\ tick.price \in Int /\ tick.quantity = 1

\* A candle that a tick begins is on the grid, and no later than the tick.
LEMMA NewCandleOK ==
    ASSUME NEW tick, Fed(tick), NEW n \in DOMAIN Frames, NEW c, c = NewCandle(tick, Frames[n])
    PROVE  /\ CandleOK(c, n) /\ c # NoCandle /\ c.volume = 1 /\ c.start >= 0
           /\ \A k \in Nat : k * Frames[n] <= tick.time => k * Frames[n] <= c.start
  <1>1. PICK b \in Nat \ {0} : b = Frames[n] /\ DayLength % b = 0
    BY SpineAssumption, RuntimeAssumption
  <1>2. PICK t \in Nat, p \in Int : t = tick.time /\ p = tick.price
    BY DEF Fed
  <1>3. PICK k \in Nat : FloorTimestamp(t, b) = k * b /\ k * b <= t /\ t < k * b + b
    BY <1>1, FloorIsGrid
  <1>4. PICK s \in Nat : s = k * b
    BY <1>1
  <1>5. c = [start |-> s, end |-> s + b, open |-> p, high |-> p, low |-> p, close |-> p, volume |-> 1]
    BY <1>1, <1>2, <1>3, <1>4 DEF NewCandle, Fed
  <1>6. /\ c.start = s /\ c.end = s + b /\ c.open = p /\ c.high = p /\ c.low = p /\ c.close = p
        /\ c.volume = 1
    BY <1>5
  <1>7. c # NoCandle
    BY <1>6 DEF NoCandle
  <1>8. CandleOK(c, n)
    BY <1>1, <1>4, <1>5, <1>6 DEF CandleOK
  <1>9. ASSUME NEW m \in Nat, m * b <= t PROVE m * b <= s
    BY <1>3, <1>4, <1>9, GridOrder
  <1>10. QED
    BY <1>1, <1>2, <1>6, <1>7, <1>8, <1>9

\* A candle that a tick extends stays where it is.
LEMMA UpdateCandleOK ==
    ASSUME NEW tick, Fed(tick), NEW n \in DOMAIN Frames, NEW b, CandleOK(b, n), b # NoCandle,
           NEW c, c = UpdateCandle(b, tick)
    PROVE  CandleOK(c, n) /\ c # NoCandle /\ c.volume = b.volume + 1 /\ c.start = b.start
  <1>1. PICK f \in Nat : f = Frames[n]
    BY SpineAssumption
  <1>2. PICK p \in Int : p = tick.price
    BY DEF Fed
  <1>3. PICK s \in Int, e \in Int, o \in Int, h \in Int, l \in Int, x \in Int, v \in Nat :
            /\ s = b.start /\ e = b.end /\ o = b.open /\ h = b.high /\ l = b.low /\ x = b.close
            /\ v = b.volume
    BY DEF CandleOK
  <1>4. b = [start |-> s, end |-> e, open |-> o, high |-> h, low |-> l, close |-> x, volume |-> v]
    BY <1>3 DEF CandleOK
  <1>5. e = s + f /\ o \in l .. h /\ x \in l .. h /\ \E k \in Nat : s = k * f
    BY <1>1, <1>3 DEF CandleOK
  <1>6. PICK i \in Int, j \in Int : i = Max({h, p}) /\ j = Min({l, p})
    BY MaxOfTwo, MinOfTwo
  <1>7. i >= h /\ i >= p /\ j <= l /\ j <= p
    BY <1>6, MaxOfTwo, MinOfTwo
  <1>8. c = [b EXCEPT !.high = i, !.low = j, !.close = p, !.volume = v + 1]
    BY <1>2, <1>3, <1>6 DEF UpdateCandle, Fed
  <1>9. c = [start |-> s, end |-> e, open |-> o, high |-> i, low |-> j, close |-> p, volume |-> v + 1]
    BY <1>4, <1>8
  <1>10. /\ c.start = s /\ c.end = e /\ c.open = o /\ c.high = i /\ c.low = j /\ c.close = p
         /\ c.volume = v + 1
    BY <1>9
  <1>11. o \in j .. i /\ p \in j .. i
    BY <1>5, <1>7
  <1>12. CandleOK(c, n)
    BY <1>1, <1>5, <1>9, <1>10, <1>11 DEF CandleOK
  <1>13. c # NoCandle
    <2>1. PICK k \in Nat : s = k * f
      BY <1>5
    <2>2. s >= 0
      BY <2>1
    <2>3. QED
      BY <1>10, <2>2 DEF NoCandle
  <1>14. QED
    BY <1>3, <1>10, <1>12, <1>13

\* What a tick makes of a forming candle, and of what was completed before it.
LEMMA CandleSteps ==
    ASSUME NEW tick, Fed(tick), NEW n \in DOMAIN Frames, NEW c, CandleOK(c, n),
           NEW d, d.volume \in Nat, d.end \in Int, c = NoCandle => d.end = 0,
           c # NoCandle => c.start >= d.end,
           NEW x, x = IF c = NoCandle \/ Completes(c, tick) THEN NewCandle(tick, Frames[n])
                                                            ELSE UpdateCandle(c, tick),
           NEW y, y = IF Completes(c, tick) THEN [volume |-> d.volume + c.volume, end |-> c.end]
                                            ELSE d
    PROVE  /\ CandleOK(x, n) /\ x # NoCandle /\ y.volume \in Nat /\ y.end \in Int
           /\ x.start >= y.end
           /\ y.volume + x.volume = d.volume + c.volume + 1
  <1>1. PICK v \in Nat, w \in Nat, e \in Int : v = c.volume /\ w = d.volume /\ e = d.end
    BY DEF CandleOK
  <1>2. CASE c = NoCandle
    <2>1. ~Completes(c, tick)
      BY <1>2 DEF Completes
    <2>2. x = NewCandle(tick, Frames[n]) /\ y = d /\ v = 0 /\ e = 0
      BY <1>1, <1>2, <2>1 DEF NoCandle
    <2>3. CandleOK(x, n) /\ x # NoCandle /\ x.volume = 1 /\ x.start >= 0
      BY <2>2, NewCandleOK
    <2>4. y.volume = w /\ y.end = 0 /\ d.volume + c.volume = w + v
      BY <1>1, <2>2
    <2>5. y.volume + x.volume = d.volume + c.volume + 1
      BY <2>2, <2>3, <2>4
    <2>6. QED
      BY <2>3, <2>4, <2>5
  <1>3. CASE c # NoCandle /\ Completes(c, tick)
    <2>1. x = NewCandle(tick, Frames[n]) /\ y = [volume |-> w + v, end |-> c.end]
      BY <1>1, <1>3
    <2>2. y.volume = w + v /\ y.end = c.end /\ tick.time >= c.end
      BY <1>3, <2>1 DEF Completes
    <2>3. /\ CandleOK(x, n) /\ x # NoCandle /\ x.volume = 1
          /\ \A k \in Nat : k * Frames[n] <= tick.time => k * Frames[n] <= x.start
      BY <2>1, NewCandleOK
    <2>4. PICK f \in Nat : f = Frames[n]
      BY SpineAssumption
    <2>5. PICK k \in Nat : c.start = k * f /\ c.end = c.start + f
      BY <1>3, <2>4 DEF CandleOK
    <2>6. c.end = (k + 1) * f /\ k + 1 \in Nat
      BY <2>5
    <2>7. c.end \in Int /\ tick.time \in Nat /\ x.start \in Int
      BY <2>3 DEF CandleOK, Fed
    <2>8. c.end <= x.start
      BY <2>2, <2>3, <2>4, <2>6, <2>7
    <2>9. QED
      BY <1>1, <2>2, <2>3, <2>7, <2>8
  <1>4. CASE c # NoCandle /\ ~Completes(c, tick)
    <2>1. x = UpdateCandle(c, tick) /\ y = d
      BY <1>4
    <2>2. CandleOK(x, n) /\ x # NoCandle /\ x.volume = v + 1 /\ x.start = c.start
      BY <1>1, <1>4, <2>1, UpdateCandleOK
    <2>3. QED
      BY <1>1, <1>4, <2>1, <2>2
  <1>5. QED
    BY <1>2, <1>3, <1>4

\* Each second with a tick is counted, and no more than the ticks there were.
LEMMA SecondCounted ==
    ASSUME RuntimeInv, NEW tick, CountSecond(tick),
           SumFunction(seconds) + events["RiskBlocked"] < MaxTicks
    PROVE  IsFiniteSet(DOMAIN seconds') /\ seconds' \in [DOMAIN seconds' -> 1 .. MaxTicks]
  <1>1. PICK key, n : key = <<tick.symbol, tick.time>> /\ n = InSecond(tick)
    OBVIOUS
  <1>2. seconds' = [k \in DOMAIN seconds \cup {key} |-> IF k = key THEN n + 1 ELSE seconds[k]]
    BY <1>1 DEF CountSecond
  <1>3. /\ IsFiniteSet(DOMAIN seconds) /\ seconds \in [DOMAIN seconds -> 1 .. MaxTicks]
        /\ events["RiskBlocked"] \in Nat /\ MaxTicks \in Nat
    BY RuntimeAssumption DEF RuntimeInv, EngineOK, IsEngine, Engine, EventTypes
  <1>4. SumFunction(seconds) \in Nat
    <2>1. seconds \in [DOMAIN seconds -> Int] /\ \A i \in DOMAIN seconds : seconds[i] \in Nat
      BY <1>3
    <2>2. Summable(seconds, DOMAIN seconds)
      BY <1>3, <2>1 DEF Summable
    <2>3. QED
      BY <2>1, <2>2, SumIsNatural
  <1>5. n \in Nat /\ n <= SumFunction(seconds)
    <2>1. CASE key \in DOMAIN seconds
      <3>1. seconds \in [DOMAIN seconds -> Nat] /\ n = seconds[key] /\ n \in Nat
        BY <1>1, <1>3, <2>1 DEF InSecond
      <3>2. seconds[key] <= SumFunction(seconds)
        BY <1>3, <2>1, <3>1, TermBelowSum
      <3>3. QED
        BY <3>1, <3>2
    <2>2. CASE key \notin DOMAIN seconds
      BY <1>1, <1>4, <2>2 DEF InSecond
    <2>3. QED
      BY <2>1, <2>2
  <1>6. n + 1 \in 1 .. MaxTicks
    BY <1>3, <1>4, <1>5
  <1>7. IsFiniteSet(DOMAIN seconds \cup {key})
    BY <1>3, FS_AddElement
  <1>8. QED
    BY <1>2, <1>3, <1>6, <1>7

\* The engine after a tick is the one that worked on it.
LEMMA EngineBecomes ==
    ASSUME NEW e, EngineOK(e), Becomes(e)
    PROVE  Engine' = e
  BY DEF Becomes, Engine, EngineOK, IsEngine

\* What a tick that reaches no candle leaves: the volumes and the candles.
LEMMA NoCandleStep ==
    ASSUME RuntimeInv, NEW tick, Fed(tick), clock' \in Nat,
           IsFiniteSet(DOMAIN seconds'), seconds' \in [DOMAIN seconds' -> 1 .. MaxTicks],
           prices' \in [Allowed -> Int], DOMAIN checker'.last = Allowed,
           UNCHANGED <<forming, completed>>, NEW e, EngineOK(e), Becomes(e),
           e.tally.ticks - e.tally.quality - e.tally.errors
               = tally.ticks - tally.quality - tally.errors
    PROVE  RuntimeInv'
  <1>1. Engine' = e
    BY EngineBecomes
  <1>2. EngineOK(Engine)'
    BY <1>1
  <1>3. VolumeConserved'
    <2>1. tally'.ticks - tally'.quality - tally'.errors = tally.ticks - tally.quality - tally.errors
      BY DEF Becomes
    <2>2. VolumeConserved
      BY DEF RuntimeInv
    <2>3. QED
      BY <2>1, <2>2 DEF VolumeConserved
  <1>4. /\ forming' = [s \in Allowed |-> forming'[s]] /\ completed' = [s \in Allowed |-> completed'[s]]
        /\ \A s \in Allowed : DOMAIN forming'[s] = DOMAIN Frames /\ CandlesOK(s)'
    BY DEF RuntimeInv, CandlesOK
  <1>5. QED
    BY <1>2, <1>3, <1>4 DEF RuntimeInv

\* A block changes a count.
LEMMA TickBlockedKeeps ==
    ASSUME RuntimeInv, NEW tick, Fed(tick), clock' \in Nat,
           SumFunction(seconds) + events["RiskBlocked"] < MaxTicks, TickBlocked(tick)
    PROVE  RuntimeInv'
  <1>1. PICK e : e = RiskBlock(Engine)
    OBVIOUS
  <1>2. Kept(Engine, e) /\ EngineOK(e)
    BY <1>1, RiskBlockKeeps DEF RuntimeInv, Kept
  <1>3. e.tally.ticks = tally.ticks /\ e.tally.quality = tally.quality /\ e.tally.errors = tally.errors
    BY <1>2 DEF Kept, Engine
  <1>4. IsFiniteSet(DOMAIN seconds') /\ seconds' \in [DOMAIN seconds' -> 1 .. MaxTicks]
    BY SecondCounted DEF TickBlocked, RuntimeInv
  <1>5. /\ prices' \in [Allowed -> Int] /\ DOMAIN checker'.last = Allowed
        /\ UNCHANGED <<forming, completed>> /\ Becomes(e)
    BY <1>1 DEF TickBlocked, RuntimeInv
  <1>6. QED
    BY <1>2, <1>3, <1>4, <1>5, NoCandleStep

\* A tick that was let in counts as received.
LEMMA ReceivedFits ==
    ASSUME RuntimeInv
    PROVE  /\ EngineOK(Received) /\ Received.tally = [tally EXCEPT !["ticks"] = @ + 1]
           /\ tally \in [Counters -> Nat]
  <1>1. EngineOK(Engine) /\ Received = Ticked(Emit(Engine, "TickReceived", 1), "ticks")
    BY DEF RuntimeInv, Received, Ticked
  <1>2. Counted(Engine, Received, "TickReceived", "ticks")
    BY <1>1, CountedOnce
  <1>3. Engine.tally = tally
    BY DEF Engine
  <1>4. QED
    BY <1>1, <1>2, <1>3 DEF Counted, EngineOK, IsEngine

\* A tick is rejected with a count more, of errors or of bad ticks.
LEMMA TickRejectedKeeps ==
    ASSUME RuntimeInv, NEW tick, Fed(tick), clock' \in Nat,
           SumFunction(seconds) + events["RiskBlocked"] < MaxTicks, TickRejected(tick)
    PROVE  RuntimeInv'
  <1>1. /\ EngineOK(Received) /\ Received.tally = [tally EXCEPT !["ticks"] = @ + 1]
        /\ tally \in [Counters -> Nat]
    BY ReceivedFits
  <1>2. IsFiniteSet(DOMAIN seconds') /\ seconds' \in [DOMAIN seconds' -> 1 .. MaxTicks]
    BY SecondCounted DEF TickRejected
  <1>3. prices' \in [Allowed -> Int] /\ UNCHANGED <<forming, completed>>
    BY DEF TickRejected, RuntimeInv, Fed
  <1>4. CASE TickValid(tick) /\ tick.naive
    <2>1. PICK e : e = Ticked(Emit(Received, "RuntimeError", 1), "errors")
      OBVIOUS
    <2>2. Counted(Received, e, "RuntimeError", "errors")
      BY <1>1, <2>1, CountedOnce
    <2>3. EngineOK(e) /\ e.tally = [Received.tally EXCEPT !["errors"] = @ + 1]
      BY <2>2 DEF Counted
    <2>4. /\ e.tally["ticks"] = tally["ticks"] + 1 /\ e.tally["errors"] = tally["errors"] + 1
          /\ e.tally["quality"] = tally["quality"]
      BY <1>1, <2>3 DEF Counters
    <2>5. e.tally.ticks - e.tally.quality - e.tally.errors
              = tally.ticks - tally.quality - tally.errors
      <3>1. PICK a \in Nat, b \in Nat, c \in Nat :
                a = tally["ticks"] /\ b = tally["quality"] /\ c = tally["errors"]
        BY <1>1 DEF Counters
      <3>2. QED
        BY <2>4, <3>1
    <2>6. Becomes(e) /\ UNCHANGED checker
      BY <1>4, <2>1 DEF TickRejected, Ticked
    <2>7. DOMAIN checker'.last = Allowed
      BY <2>6 DEF RuntimeInv
    <2>8. QED
      BY <1>2, <1>3, <2>3, <2>5, <2>6, <2>7, NoCandleStep
  <1>5. CASE ~(TickValid(tick) /\ tick.naive)
    <2>1. PICK b, e : b = RiskBlock(Received) /\ e = Ticked(b, "quality")
      OBVIOUS
    <2>2. Kept(Received, b) /\ EngineOK(b)
      BY <1>1, <2>1, RiskBlockKeeps DEF Kept
    <2>3. /\ IsEngine(e) /\ e.acct = b.acct /\ e.ordered = b.ordered /\ e.trades = b.trades
          /\ e.tally = [b.tally EXCEPT !["quality"] = @ + 1] /\ e.events = b.events
      <3>1. IsEngine(b) /\ "quality" \in Counters
        BY <2>2 DEF EngineOK, Counters
      <3>2. QED
        BY <2>1, <3>1, TallyGives
    <2>4. TallyFits(e)
      <3>1. b.tally \in [Counters -> Nat]
        BY <2>2 DEF EngineOK, IsEngine
      <3>2. /\ e.tally["ticks"] = b.tally["ticks"] /\ e.tally["finalized"] = b.tally["finalized"]
            /\ e.tally["signals"] = b.tally["signals"] /\ e.tally["blocks"] = b.tally["blocks"]
            /\ e.tally["errors"] = b.tally["errors"]
            /\ e.tally["quality"] = b.tally["quality"] + 1
        BY <2>3, <3>1 DEF Counters
      <3>3. QED
        BY <2>2, <2>3, <3>2 DEF EngineOK, TallyFits
    <2>5. EngineOK(e)
      BY <2>2, <2>3, <2>4, CountsMove
    <2>6. /\ e.tally["ticks"] = tally["ticks"] + 1 /\ e.tally["errors"] = tally["errors"]
          /\ e.tally["quality"] = tally["quality"] + 1
      <3>1. b.tally \in [Counters -> Nat]
        BY <2>2 DEF EngineOK, IsEngine
      <3>2. /\ e.tally["ticks"] = b.tally["ticks"] /\ e.tally["errors"] = b.tally["errors"]
            /\ e.tally["quality"] = b.tally["quality"] + 1
        BY <2>3, <3>1 DEF Counters
      <3>3. /\ Received.tally["ticks"] = tally["ticks"] + 1
            /\ Received.tally["errors"] = tally["errors"]
            /\ Received.tally["quality"] = tally["quality"]
        BY <1>1 DEF Counters
      <3>4. QED
        BY <2>2, <3>2, <3>3 DEF Kept
    <2>7. e.tally.ticks - e.tally.quality - e.tally.errors
              = tally.ticks - tally.quality - tally.errors
      <3>1. PICK i \in Nat, j \in Nat, k \in Nat :
                i = tally["ticks"] /\ j = tally["quality"] /\ k = tally["errors"]
        BY <1>1 DEF Counters
      <3>2. QED
        BY <2>6, <3>1
    <2>8. Becomes(e) /\ DOMAIN checker'.last = Allowed
      BY <1>5, <2>1 DEF TickRejected, Ticked, RuntimeInv
    <2>9. QED
      BY <1>2, <1>3, <2>5, <2>7, <2>8, NoCandleStep
  <1>6. QED
    BY <1>4, <1>5

\* What a tick makes of the candles of its symbol.
CandlesMove(tick, n) ==
    LET s == tick.symbol IN
    /\ forming'[s][n] = IF forming[s][n] = NoCandle \/ Completes(forming[s][n], tick)
                        THEN NewCandle(tick, Frames[n]) ELSE UpdateCandle(forming[s][n], tick)
    /\ completed'[s][n] = IF Completes(forming[s][n], tick)
                          THEN [volume |-> completed[s][n].volume + forming[s][n].volume,
                                end |-> forming[s][n].end]
                          ELSE completed[s][n]

\* One timeframe of an accepted tick: its volume is in the candles once more.
LEMMA AcceptedFrame ==
    ASSUME RuntimeInv, NEW tick, Fed(tick), tick.symbol \in Allowed, NEW n \in DOMAIN Frames,
           CandlesMove(tick, n)
    PROVE  LET s == tick.symbol IN
           /\ CandleOK(forming'[s][n], n) /\ forming'[s][n] # NoCandle
           /\ completed'[s][n].volume \in Nat /\ completed'[s][n].end \in Int
           /\ forming'[s][n].start >= completed'[s][n].end
           /\ completed'[s][n].volume + forming'[s][n].volume
                  = completed[s][n].volume + forming[s][n].volume + 1
  <1>1. PICK c, d, x, y : /\ c = forming[tick.symbol][n] /\ d = completed[tick.symbol][n]
                          /\ x = forming'[tick.symbol][n] /\ y = completed'[tick.symbol][n]
    OBVIOUS
  <1>2. /\ CandleOK(c, n) /\ d.volume \in Nat /\ d.end \in Int
        /\ c = NoCandle => d.end = 0
        /\ c # NoCandle => c.start >= d.end
    BY <1>1 DEF RuntimeInv, CandlesOK
  <1>3. /\ x = IF c = NoCandle \/ Completes(c, tick) THEN NewCandle(tick, Frames[n])
                                                    ELSE UpdateCandle(c, tick)
        /\ y = IF Completes(c, tick) THEN [volume |-> d.volume + c.volume, end |-> c.end]
                                     ELSE d
    BY <1>1 DEF CandlesMove
  <1>4. /\ CandleOK(x, n) /\ x # NoCandle /\ y.volume \in Nat /\ y.end \in Int
        /\ x.start >= y.end
        /\ y.volume + x.volume = d.volume + c.volume + 1
    BY <1>2, <1>3, CandleSteps
  <1>5. QED
    BY <1>1, <1>4

\* The volumes of a timeframe, per symbol.
Volumes(n) == [s \in Allowed |-> completed[s][n].volume + forming[s][n].volume]

\* The volumes of a timeframe can be added up.
LEMMA VolumesAre ==
    ASSUME \A s \in Allowed : CandlesOK(s), NEW n \in DOMAIN Frames
    PROVE  Summable(Volumes(n), Allowed)
  <1>1. IsFiniteSet(Allowed)
    BY RuntimeAssumption
  <1>2. ASSUME NEW s \in Allowed
        PROVE  completed[s][n].volume + forming[s][n].volume \in Int
    <2>1. PICK v \in Nat, w \in Nat : v = completed[s][n].volume /\ w = forming[s][n].volume
      BY DEF CandlesOK, CandleOK
    <2>2. QED
      BY <2>1
  <1>3. QED
    BY <1>1, <1>2 DEF Summable, Volumes

\* The candles of an accepted tick, all timeframes of all symbols.
LEMMA AcceptedCandles ==
    ASSUME RuntimeInv, NEW tick, Fed(tick), tick.symbol \in Allowed, NEW sig,
           TickAccepted(tick, sig)
    PROVE  /\ forming' = [s \in Allowed |-> forming'[s]] /\ completed' = [s \in Allowed |-> completed'[s]]
           /\ \A s \in Allowed : DOMAIN forming'[s] = DOMAIN Frames
           /\ \A s \in Allowed \ {tick.symbol} : forming'[s] = forming[s] /\ completed'[s] = completed[s]
           /\ \A n \in DOMAIN Frames : CandlesMove(tick, n)
  <1>1. PICK s \in Allowed : s = tick.symbol
    OBVIOUS
  <1>2. PICK F, D : /\ F = Forming(forming[s], tick)
                    /\ D = [f \in DOMAIN Frames |->
                              IF Completes(forming[s][f], tick)
                              THEN [volume |-> completed[s][f].volume + forming[s][f].volume,
                                    end |-> forming[s][f].end]
                              ELSE completed[s][f]]
    OBVIOUS
  <1>3. forming' = [forming EXCEPT ![s] = F] /\ completed' = [completed EXCEPT ![s] = D]
    BY <1>1, <1>2 DEF TickAccepted
  <1>4. forming = [u \in Allowed |-> forming[u]] /\ completed = [u \in Allowed |-> completed[u]]
    BY DEF RuntimeInv
  <1>5. /\ DOMAIN forming' = Allowed /\ DOMAIN completed' = Allowed
        /\ forming' = [u \in Allowed |-> forming'[u]] /\ completed' = [u \in Allowed |-> completed'[u]]
        /\ forming'[s] = F /\ completed'[s] = D
        /\ \A u \in Allowed \ {s} : forming'[u] = forming[u] /\ completed'[u] = completed[u]
    BY <1>3, <1>4
  <1>6. DOMAIN F = DOMAIN Frames
    BY <1>2 DEF Forming
  <1>7. \A u \in Allowed : DOMAIN forming'[u] = DOMAIN Frames
    BY <1>5, <1>6 DEF RuntimeInv
  <1>8. ASSUME NEW n \in DOMAIN Frames
        PROVE  CandlesMove(tick, n)
    BY <1>1, <1>2, <1>5 DEF CandlesMove, Forming
  <1>9. QED
    BY <1>1, <1>5, <1>7, <1>8

\* A tick that is accepted goes into one candle of every timeframe and leaves the engine
\* in order; in the square-off window no position is left.
LEMMA TickAcceptedKeeps ==
    ASSUME RuntimeInv, NEW tick, Fed(tick), clock' \in Nat, NEW sig, sig.corr \in Nat \ {0},
           SumFunction(seconds) + events["RiskBlocked"] < MaxTicks, TickAccepted(tick, sig)
    PROVE  /\ RuntimeInv'
           /\ ShouldSquareOff(tick.time) => acct'.open = <<>>
           /\ \A s \in Allowed : forming'[s] # forming[s] => s = tick.symbol
           /\ checker'.last[tick.symbol].time = tick.time
  <1>1. tick.symbol \in Allowed
    BY DEF TickAccepted, Blocked
  <1>2. PICK marks : marks = [prices EXCEPT ![tick.symbol] = tick.price]
    OBVIOUS
  <1>3. marks \in [Allowed -> Int] /\ prices' = marks
    BY <1>2 DEF RuntimeInv, TickAccepted, Fed
  <1>4. PICK e, f : e = AfterCandles(tick, sig, marks) /\ f = SquareOff(e, tick, marks)
    OBVIOUS
  <1>5. /\ EngineOK(Received) /\ Received.tally = [tally EXCEPT !["ticks"] = @ + 1]
        /\ tally \in [Counters -> Nat]
    BY ReceivedFits
  <1>6. Kept(Received, e) /\ EngineOK(e)
    <2>1. \A n \in DOMAIN Frames : forming[tick.symbol][n].close \in Int
      BY <1>1 DEF RuntimeInv, CandlesOK, CandleOK
    <2>2. Kept(Received, AfterCandles(tick, sig, marks))
      BY <1>1, <1>5, <2>1, AfterCandlesKeeps
    <2>3. QED
      BY <1>4, <2>2 DEF Kept
  <1>7. Kept(e, f) /\ (ShouldSquareOff(tick.time) => f.acct.open = <<>>)
    BY <1>3, <1>4, <1>6, SquareOffKeeps
  <1>8. Kept(Received, f) /\ EngineOK(f)
    BY <1>6, <1>7, KeptTwice DEF Kept
  <1>9. Becomes(f)
    BY <1>2, <1>4 DEF TickAccepted
  <1>10. Engine' = f /\ EngineOK(Engine)' /\ acct' = f.acct
    BY <1>8, <1>9, EngineBecomes DEF Becomes
  <1>11. /\ tally'["ticks"] = tally["ticks"] + 1 /\ tally'["quality"] = tally["quality"]
         /\ tally'["errors"] = tally["errors"]
    <2>1. /\ Received.tally["ticks"] = tally["ticks"] + 1
          /\ Received.tally["errors"] = tally["errors"]
          /\ Received.tally["quality"] = tally["quality"]
      BY <1>5 DEF Counters
    <2>2. QED
      BY <1>8, <1>9, <2>1 DEF Kept, Becomes
  <1>12. /\ forming' = [s \in Allowed |-> forming'[s]] /\ completed' = [s \in Allowed |-> completed'[s]]
         /\ \A s \in Allowed : DOMAIN forming'[s] = DOMAIN Frames
         /\ \A s \in Allowed \ {tick.symbol} : forming'[s] = forming[s] /\ completed'[s] = completed[s]
         /\ \A n \in DOMAIN Frames : CandlesMove(tick, n)
    BY <1>1, AcceptedCandles
  <1>13. \A s \in Allowed : CandlesOK(s)'
    <2>1. ASSUME NEW s \in Allowed \ {tick.symbol}
          PROVE  CandlesOK(s)'
      <3>1. CandlesOK(s) /\ forming'[s] = forming[s] /\ completed'[s] = completed[s]
        BY <1>12 DEF RuntimeInv
      <3>2. QED
        BY <3>1 DEF CandlesOK
    <2>2. CandlesOK(tick.symbol)'
      BY <1>1, <1>12, AcceptedFrame DEF CandlesOK
    <2>3. QED
      BY <2>1, <2>2
  <1>14. VolumeConserved'
    <2>1. SUFFICES ASSUME NEW n \in DOMAIN Frames
                   PROVE  SumFunction(Volumes(n)') = tally'["ticks"] - tally'["quality"] - tally'["errors"]
      BY DEF VolumeConserved, Volumes
    <2>2. Summable(Volumes(n), Allowed) /\ Summable(Volumes(n)', Allowed)
      <3>1. \A s \in Allowed : CandlesOK(s)
        BY DEF RuntimeInv
      <3>2. Summable(Volumes(n), Allowed)
        BY <3>1, VolumesAre
      <3>3. IsFiniteSet(Allowed)
        BY RuntimeAssumption
      <3>4. ASSUME NEW s \in Allowed
            PROVE  completed'[s][n].volume + forming'[s][n].volume \in Int
        <4>1. PICK v \in Nat, w \in Nat : v = completed'[s][n].volume /\ w = forming'[s][n].volume
          BY <1>13 DEF CandlesOK, CandleOK
        <4>2. QED
          BY <4>1
      <3>5. QED
        BY <3>2, <3>3, <3>4 DEF Summable, Volumes
    <2>3. Agree(Volumes(n), Volumes(n)', Allowed \ {tick.symbol})
      BY <1>12 DEF Agree, Volumes
    <2>4. SumFunction(Volumes(n)') = SumFunction(Volumes(n))
              + (Volumes(n)'[tick.symbol] - Volumes(n)[tick.symbol])
      BY <1>1, <2>2, <2>3, SumReplaced
    <2>5. Volumes(n)'[tick.symbol] = Volumes(n)[tick.symbol] + 1
      BY <1>1, <1>12, AcceptedFrame DEF Volumes
    <2>6. SumFunction(Volumes(n)) = tally["ticks"] - tally["quality"] - tally["errors"]
      BY DEF RuntimeInv, VolumeConserved, Volumes
    <2>7. Volumes(n)[tick.symbol] \in Int
      BY <1>1, <2>2 DEF Summable
    <2>8. PICK a \in Nat, b \in Nat, c \in Nat :
              a = tally["ticks"] /\ b = tally["quality"] /\ c = tally["errors"]
      BY <1>5 DEF Counters
    <2>9. QED
      BY <1>11, <2>4, <2>5, <2>6, <2>7, <2>8
  <1>15. /\ DOMAIN checker'.last = Allowed
         /\ checker'.last[tick.symbol].time = tick.time
    <2>1. TickValid(tick)
      <3>1. TickReasons(checker.last[tick.symbol], checker.seen, tick) = {}
        BY DEF TickAccepted
      <3>2. QED
        BY <3>1 DEF TickReasons
    <2>2. checker'.last = [checker.last EXCEPT ![tick.symbol] =
                              [time |-> tick.time, price |-> tick.price, quantity |-> tick.quantity]]
      BY <2>1 DEF TickAccepted, Remembered
    <2>3. DOMAIN checker.last = Allowed
      BY DEF RuntimeInv
    <2>4. QED
      BY <1>1, <2>2, <2>3
  <1>16. IsFiniteSet(DOMAIN seconds') /\ seconds' \in [DOMAIN seconds' -> 1 .. MaxTicks]
    BY SecondCounted DEF TickAccepted
  <1>17. RuntimeInv'
    BY <1>3, <1>10, <1>12, <1>13, <1>14, <1>15, <1>16 DEF RuntimeInv
  <1>18. QED
    BY <1>7, <1>10, <1>12, <1>15, <1>17

\* The runtime starts in order.
LEMMA RuntimeStarts == RuntimeInit => RuntimeInv
  <1> SUFFICES ASSUME RuntimeInit
               PROVE  RuntimeInv
    OBVIOUS
  <1>1. clock \in Nat /\ prices \in [Allowed -> Int] /\ DOMAIN checker.last = Allowed
    BY RuntimeAssumption DEF RuntimeInit
  <1>2. IsFiniteSet(DOMAIN seconds) /\ seconds \in [DOMAIN seconds -> 1 .. MaxTicks]
    <2>1. seconds = <<>> /\ DOMAIN seconds = {}
      BY DEF RuntimeInit
    <2>2. QED
      BY <2>1, FS_EmptySet
  <1>3. /\ forming = [s \in Allowed |-> forming[s]] /\ completed = [s \in Allowed |-> completed[s]]
        /\ \A s \in Allowed : DOMAIN forming[s] = DOMAIN Frames
        /\ \A s \in Allowed, n \in DOMAIN Frames :
              forming[s][n] = NoCandle /\ completed[s][n] = [volume |-> 0, end |-> 0]
    BY DEF RuntimeInit
  <1>4. \A s \in Allowed : CandlesOK(s)
    <2>1. ASSUME NEW n \in DOMAIN Frames
          PROVE  CandleOK(NoCandle, n)
      BY DEF CandleOK, NoCandle
    <2>2. QED
      BY <1>3, <2>1 DEF CandlesOK
  <1>5. /\ tally \in [Counters -> Nat] /\ \A c \in Counters : tally[c] = 0
        /\ events \in [EventTypes -> Nat] /\ \A t \in EventTypes : events[t] = 0
        /\ ordered = {} /\ trades = 0
    BY DEF RuntimeInit
  <1>6. VolumeConserved
    <2>1. SUFFICES ASSUME NEW n \in DOMAIN Frames
                   PROVE  SumFunction(Volumes(n)) = tally["ticks"] - tally["quality"] - tally["errors"]
      BY DEF VolumeConserved, Volumes
    <2>2. Summable(Volumes(n), Allowed)
      BY <1>4, VolumesAre
    <2>3. \A s \in Allowed : Volumes(n)[s] = 0
      BY <1>3 DEF Volumes, NoCandle
    <2>4. SumFunction(Volumes(n)) = 0
      BY <2>2, <2>3, SumZeros
    <2>5. QED
      BY <1>5, <2>4 DEF Counters
  <1>7. EngineOK(Engine)
    <2>1. PICK e : e = Engine
      OBVIOUS
    <2>2. /\ e = [acct |-> acct, ordered |-> ordered, trades |-> trades, tally |-> tally,
                  events |-> events]
          /\ e.acct = acct /\ e.ordered = {} /\ e.trades = 0 /\ e.tally = tally
          /\ e.events = events
      BY <1>5, <2>1 DEF Engine
    <2>3. IsEngine(e)
      BY <1>5, <2>2, FS_EmptySet DEF IsEngine
    <2>4. /\ AccountInv(acct) /\ acct.open = <<>> /\ acct.closed = <<>>
          /\ UsedOnce(acct) /\ Ids(acct) = {}
      BY NewAccountSound DEF RuntimeInit, BrokerInit
    <2>5. AccountFits(e)
      BY <2>2, <2>4 DEF AccountFits, AccountInv
    <2>6. TallyFits(e)
      BY <1>5, <2>2 DEF TallyFits, Counters, EventTypes
    <2>7. \A s \in OrderStates : acct.book[s] = 0
      BY DEF RuntimeInit, BrokerInit, NewAccount
    <2>8. Len(e.acct.open) = 0 /\ Len(e.acct.closed) = 0 /\ Cardinality({}) = 0
      BY <2>2, <2>4, FS_EmptySet
    <2>9. OrdersFit(e, 0, 0)
      BY <1>5, <2>2, <2>7, <2>8 DEF OrdersFit, OrderStates, EventTypes
    <2>10. QED
      BY <2>1, <2>3, <2>5, <2>6, <2>8, <2>9 DEF EngineOK
  <1>8. QED
    BY <1>1, <1>2, <1>3, <1>4, <1>6, <1>7 DEF RuntimeInv

\* A tick the feed may deliver, at a time after the day's zero.
LEMMA FedByFeed ==
    ASSUME RuntimeInv, NEW t \in Feed, NEW tick,
           tick.time = clock + t.after, tick.time >= 0, tick.price = t.price, tick.quantity = 1
    PROVE  Fed(tick) /\ Max({clock, tick.time}) \in Nat
  <1>1. t.after \in Int /\ t.price \in Int
    BY RuntimeAssumption
  <1>2. clock \in Nat
    BY DEF RuntimeInv
  <1>3. tick.time \in Nat
    BY <1>1, <1>2
  <1>4. Max({clock, tick.time}) \in Int /\ Max({clock, tick.time}) >= clock
    <2>1. PICK x \in Int, y \in Int : x = clock /\ y = tick.time
      BY <1>2, <1>3
    <2>2. Max({x, y}) \in Int /\ Max({x, y}) >= x
      BY MaxOfTwo
    <2>3. QED
      BY <2>1, <2>2
  <1>5. QED
    BY <1>1, <1>2, <1>3, <1>4 DEF Fed

\* What a composer may ask for has an id that is a number.
LEMMA SignalIds ==
    ASSUME RuntimeInv, NEW sig \in Signals
    PROVE  sig.corr \in Nat \ {0}
  <1>1. ordered \subseteq Nat \ {0} /\ IsFiniteSet(ordered)
    BY DEF RuntimeInv, EngineOK, IsEngine, Engine
  <1>2. Cardinality(ordered) \in Nat
    BY <1>1, FS_CardinalityType
  <1>3. sig.corr \in ordered \cup {Cardinality(ordered) + 1}
    BY DEF Signals
  <1>4. Cardinality(ordered) + 1 \in Nat \ {0}
    BY <1>2
  <1>5. QED
    BY <1>1, <1>3, <1>4, Zenon

\* A tick accepted in the square-off window leaves no position.
NothingLeft ==
    \A s \in Allowed :
        forming'[s] # forming[s] /\ ShouldSquareOff(checker'.last[s].time) => acct'.open = <<>>

\* Whatever tick comes next, the runtime stays in order.
LEMMA RuntimeStep == RuntimeInv /\ [RuntimeNext]_runtimeVars => RuntimeInv' /\ NothingLeft
  <1> SUFFICES ASSUME RuntimeInv, [RuntimeNext]_runtimeVars
               PROVE  RuntimeInv' /\ NothingLeft
    OBVIOUS
  <1>1. CASE OnTick
    <2>1. PICK t, s, tick :
              /\ t \in Feed /\ s \in Allowed \cup {Foreign}
              /\ tick = [symbol |-> s, time |-> clock + t.after, price |-> t.price,
                         quantity |-> 1, id |-> t.id, received |-> clock + t.after + t.delay,
                         wide |-> t.wide, naive |-> t.naive]
              /\ tick.time >= 0
              /\ SumFunction(seconds) + events["RiskBlocked"] < MaxTicks
              /\ clock' = Max({clock, tick.time})
              /\ \/ TickBlocked(tick)
                 \/ TickRejected(tick)
                 \/ \E sig \in Signals : TickAccepted(tick, sig)
      BY <1>1 DEF OnTick
    <2>2. tick.time = clock + t.after /\ tick.price = t.price /\ tick.quantity = 1
      BY <2>1
    <2>3. Fed(tick) /\ clock' \in Nat
      BY <2>1, <2>2, FedByFeed
    <2>4. CASE TickBlocked(tick)
      <3>1. RuntimeInv'
        BY <2>1, <2>3, <2>4, TickBlockedKeeps
      <3>2. forming' = forming
        BY <2>4 DEF TickBlocked
      <3>3. QED
        BY <3>1, <3>2 DEF NothingLeft
    <2>5. CASE TickRejected(tick)
      <3>1. RuntimeInv'
        BY <2>1, <2>3, <2>5, TickRejectedKeeps
      <3>2. forming' = forming
        BY <2>5 DEF TickRejected
      <3>3. QED
        BY <3>1, <3>2 DEF NothingLeft
    <2>6. ASSUME NEW sig \in Signals, TickAccepted(tick, sig)
          PROVE  RuntimeInv' /\ NothingLeft
      <3>1. sig.corr \in Nat \ {0}
        BY SignalIds
      <3>2. /\ RuntimeInv'
            /\ ShouldSquareOff(tick.time) => acct'.open = <<>>
            /\ \A u \in Allowed : forming'[u] # forming[u] => u = tick.symbol
            /\ checker'.last[tick.symbol].time = tick.time
        BY <2>1, <2>3, <2>6, <3>1, TickAcceptedKeeps
      <3>3. QED
        BY <3>2 DEF NothingLeft
    <2>7. QED
      BY <2>1, <2>4, <2>5, <2>6
  <1>2. CASE UNCHANGED runtimeVars
    <2>1. /\ UNCHANGED <<clock, checker, forming, completed, ordered, trades, prices, seconds,
                         tally, events, acct>>
      BY <1>2 DEF runtimeVars, runtimeOwn
    <2>2. Engine' = Engine
      BY <2>1 DEF Engine
    <2>3. EngineOK(Engine)'
      BY <2>2 DEF RuntimeInv
    <2>4. VolumeConserved'
      BY <2>1 DEF RuntimeInv, VolumeConserved
    <2>5. \A s \in Allowed : DOMAIN forming'[s] = DOMAIN Frames /\ CandlesOK(s)'
      BY <2>1 DEF RuntimeInv, CandlesOK
    <2>6. QED
      BY <2>1, <2>3, <2>4, <2>5 DEF RuntimeInv, NothingLeft
  <1>3. QED
    BY <1>1, <1>2 DEF RuntimeNext

\* What is read off an engine in order: the positions are the fills, each order was
\* asked for once.
LEMMA FillsRead == RuntimeInv => FillsArePositions
  <1> SUFFICES ASSUME RuntimeInv
               PROVE  FillsArePositions
    OBVIOUS
  <1>1. /\ IsAccount(acct) /\ UsedOnce(acct) /\ Ids(acct) \subseteq ordered
        /\ acct.book["ORDER_FILLED"] = trades /\ trades = Len(acct.open) + Len(acct.closed)
    BY DEF RuntimeInv, EngineOK, AccountFits, OrdersFit, Engine
  <1>2. PICK held, gone : /\ held = [i \in DOMAIN acct.open |-> acct.open[i].corr]
                          /\ gone = [i \in DOMAIN acct.closed |-> acct.closed[i].corr]
    OBVIOUS
  <1>3. PICK n \in Nat, m \in Nat : /\ n = Len(acct.open) /\ DOMAIN acct.open = 1 .. n
                                    /\ m = Len(acct.closed) /\ DOMAIN acct.closed = 1 .. m
    BY <1>1, AccountLengths
  <1>4. /\ held \in Seq(ordered) /\ Len(held) = n /\ gone \in Seq(ordered) /\ Len(gone) = m
    <2>1. /\ \A i \in 1 .. n : held[i] \in ordered
          /\ \A i \in 1 .. m : gone[i] \in ordered
      BY <1>1, <1>2, <1>3 DEF Ids
    <2>2. held \in [1 .. n -> ordered] /\ gone \in [1 .. m -> ordered]
      BY <1>2, <1>3, <2>1
    <2>3. QED
      BY <2>2
  <1>5. PICK all : all = held \o gone
    OBVIOUS
  <1>6. /\ all \in Seq(ordered) /\ Len(all) = n + m
        /\ \A j \in 1 .. n + m : all[j] = IF j <= n THEN held[j] ELSE gone[j - n]
    BY <1>4, <1>5, JoinedList
  <1>7. DOMAIN all = 1 .. n + m
    BY <1>6
  <1>8. IsInjective(all)
    <2>1. \A j \in 1 .. n : held[j] = acct.open[j].corr
      BY <1>2, <1>3
    <2>2. \A j \in 1 .. m : gone[j] = acct.closed[j].corr
      BY <1>2, <1>3
    <2>3. \A j \in 1 .. n : all[j] = acct.open[j].corr
      BY <1>6, <2>1
    <2>4. ASSUME NEW j \in 1 .. n + m, j > n
          PROVE  j - n \in 1 .. m /\ all[j] = acct.closed[j - n].corr
      BY <1>6, <2>2, <2>4
    <2>5. SUFFICES ASSUME NEW i \in 1 .. n + m, NEW j \in 1 .. n + m, all[i] = all[j]
                   PROVE  i = j
      BY <1>7 DEF IsInjective
    <2>6. CASE i <= n /\ j <= n
      <3>1. i \in 1 .. n /\ j \in 1 .. n
        BY <2>6
      <3>2. acct.open[i].corr = acct.open[j].corr
        BY <2>3, <2>5, <3>1
      <3>3. QED
        BY <1>1, <1>3, <3>1, <3>2 DEF UsedOnce, OneEach
    <2>7. CASE i > n /\ j > n
      <3>1. /\ i - n \in 1 .. m /\ j - n \in 1 .. m
            /\ acct.closed[i - n].corr = acct.closed[j - n].corr
        BY <2>4, <2>5, <2>7
      <3>2. i - n = j - n
        BY <1>1, <1>3, <3>1 DEF UsedOnce
      <3>3. QED
        BY <3>2
    <2>8. CASE i <= n /\ j > n
      <3>1. i \in 1 .. n /\ j - n \in 1 .. m
        BY <2>4, <2>8
      <3>2. acct.open[i].corr = acct.closed[j - n].corr
        BY <2>3, <2>4, <2>5, <2>8, <3>1
      <3>3. QED
        BY <1>1, <1>3, <3>1, <3>2 DEF UsedOnce
    <2>9. CASE i > n /\ j <= n
      <3>1. j \in 1 .. n /\ i - n \in 1 .. m
        BY <2>4, <2>9
      <3>2. acct.open[j].corr = acct.closed[i - n].corr
        BY <2>3, <2>4, <2>5, <2>9, <3>1
      <3>3. QED
        BY <1>1, <1>3, <3>1, <3>2 DEF UsedOnce
    <2>10. QED
      BY <2>6, <2>7, <2>8, <2>9
  <1>9. Range(all) \subseteq ordered
    <2>1. \A j \in DOMAIN all : all[j] \in ordered
      BY <1>6
    <2>2. QED
      BY <2>1 DEF Range
  <1>10. acct.book["ORDER_FILLED"] = Len(held) + Len(gone)
    BY <1>1, <1>3, <1>4
  <1>11. QED
    BY <1>1, <1>2, <1>5, <1>8, <1>9, <1>10 DEF FillsArePositions

\* The book of an engine in order has fills only.
LEMMA OrdersRead ==
    ASSUME RuntimeInv
    PROVE  SumFunction(acct.book) = acct.book["ORDER_FILLED"] /\ acct.book["ORDER_FILLED"] \in Nat
  <1>1. /\ acct.book \in [OrderStates -> Nat]
        /\ acct.book["ORDER_OPEN"] = 0 /\ acct.book["ORDER_REJECTED"] = 0
    BY DEF RuntimeInv, EngineOK, AccountFits, IsAccount, OrdersFit, Engine
  <1>2. PICK D, r : D = {"ORDER_OPEN", "ORDER_REJECTED"} /\ r = [s \in D |-> acct.book[s]]
    OBVIOUS
  <1>3. OrderStates \ {"ORDER_FILLED"} = D /\ "ORDER_FILLED" \in OrderStates
    BY <1>2 DEF OrderStates
  <1>4. IsFiniteSet(D) /\ IsFiniteSet(OrderStates)
    <2>1. IsFiniteSet({"ORDER_OPEN"}) /\ IsFiniteSet({"ORDER_OPEN"} \cup {"ORDER_REJECTED"})
      BY FS_Singleton, FS_AddElement
    <2>2. {"ORDER_OPEN"} \cup {"ORDER_REJECTED"} = D /\ D \cup {"ORDER_FILLED"} = OrderStates
      BY <1>2 DEF OrderStates
    <2>3. QED
      BY <2>1, <2>2, FS_AddElement
  <1>5. acct.book \in [OrderStates -> Int]
    BY <1>1
  <1>6. /\ Summable(acct.book, OrderStates) /\ Summable(r, D) /\ Agree(acct.book, r, D)
        /\ \A s \in D : r[s] = 0
    BY <1>1, <1>2, <1>3, <1>4, <1>5 DEF Summable, Agree
  <1>7. SumFunction(r) = 0
    BY <1>6, SumZeros
  <1>8. SumFunction(acct.book) = SumFunction(r) + acct.book["ORDER_FILLED"]
    BY <1>3, <1>6, SumWithout
  <1>9. acct.book["ORDER_FILLED"] \in Nat
    BY <1>1, <1>3
  <1>10. QED
    BY <1>7, <1>8, <1>9

\* The report of an engine in order is its audit trail.
LEMMA ReportRead == RuntimeInv => ReportMatchesAudit
  <1> SUFFICES ASSUME RuntimeInv
               PROVE  ReportMatchesAudit
    OBVIOUS
  <1>1. PICK n \in Nat, m \in Nat : n = Len(acct.open) /\ m = Len(acct.closed)
    BY AccountLengths DEF RuntimeInv, EngineOK, AccountFits, Engine
  <1>2. /\ Cardinality(ordered) = n + m /\ acct.book["ORDER_FILLED"] = n + m
        /\ events["PaperOrderCreated"] = n + m /\ events["PaperOrderFilled"] = n + m
        /\ events["PaperPositionOpened"] = n + m
        /\ events["PaperPositionClosed"] = m /\ events["PaperPnLUpdated"] = n + m + m
    BY <1>1 DEF RuntimeInv, EngineOK, OrdersFit, Engine
  <1>3. /\ tally["ticks"] = events["TickReceived"]
        /\ tally["finalized"] = events["CandleFinalized"]
        /\ tally["signals"] = events["SignalGenerated"]
        /\ tally["blocks"] = events["RiskBlocked"]
        /\ tally["errors"] = events["RuntimeError"]
    BY DEF RuntimeInv, EngineOK, TallyFits, Engine
  <1>4. SumFunction(acct.book) = n + m
    BY <1>2, OrdersRead
  <1>5. /\ Report.ticks = tally["ticks"] /\ Report.finalized = tally["finalized"]
        /\ Report.signals = tally["signals"] /\ Report.blocks = tally["blocks"]
        /\ Report.errors = tally["errors"] /\ Report.orders = SumFunction(acct.book)
        /\ Report.fills = acct.book["ORDER_FILLED"] /\ Report.open = Len(acct.open)
        /\ Report.closed = Len(acct.closed) /\ Report.recommendation = Recommendation
    BY DEF Report
  <1>6. Recommendation = "FAIL" <=> events["RuntimeError"] > 0
    BY <1>3 DEF Recommendation
  <1>7. QED
    BY <1>1, <1>2, <1>3, <1>4, <1>5, <1>6 DEF ReportMatchesAudit

\* An engine in order is all that the run checks.
LEMMA RuntimeReads == RuntimeInv => RuntimeSound
  <1> SUFFICES ASSUME RuntimeInv
               PROVE  RuntimeSound
    OBVIOUS
  <1>1. /\ IsEngine(Engine) /\ IsAccount(acct) /\ Explained(acct)
        /\ trades = Len(acct.open) + Len(acct.closed)
    BY DEF RuntimeInv, EngineOK, AccountFits, OrdersFit, Engine
  <1>2. /\ tally \in [Counters -> Nat] /\ events \in [EventTypes -> Nat]
        /\ ordered \subseteq Nat \ {0}
    BY <1>1 DEF IsEngine, Engine
  <1>3. trades \in Nat
    <2>1. Len(acct.open) \in Nat /\ Len(acct.closed) \in Nat
      BY <1>1, AccountLengths
    <2>2. PICK n \in Nat, m \in Nat : n = Len(acct.open) /\ m = Len(acct.closed)
      BY <2>1
    <2>3. trades = n + m
      BY <1>1, <2>2
    <2>4. QED
      BY <2>3
  <1>4. DOMAIN acct.book = OrderStates
    BY <1>1 DEF IsAccount
  <1>5. CashExplained
    BY <1>1, Zenon DEF Explained, CashExplained
  <1>6. \A s \in Allowed : CandlesOK(s)
    BY DEF RuntimeInv
  <1>7. ASSUME NEW s \in Allowed, NEW f \in DOMAIN Frames, forming[s][f] # NoCandle
        PROVE  /\ forming[s][f].end = forming[s][f].start + Frames[f]
               /\ {forming[s][f].open, forming[s][f].close}
                      \subseteq forming[s][f].low .. forming[s][f].high
    BY <1>6, <1>7 DEF CandlesOK, CandleOK
  <1>8. RuntimeTypeOK
    BY <1>2, <1>3, <1>4, <1>7 DEF RuntimeTypeOK, RuntimeInv
  <1>9. CandlesNeverOverlap
    BY <1>6 DEF CandlesOK, CandlesNeverOverlap
  <1>10. QED
    BY <1>5, <1>8, <1>9, FillsRead, ReportRead DEF RuntimeSound, RuntimeInv

\* Any feed, any signals, any timeframes: each order was asked for by one signal and is in
\* the audit trail and in the report once, each accepted tick's volume is in one candle of
\* every timeframe, the candles never overlap, and the cash is explained.
THEOREM RuntimeIsSound == RuntimeSpec => []RuntimeSound
  <1>1. QED
    BY RuntimeStarts, RuntimeStep, RuntimeReads, PTL DEF RuntimeSpec

\* A tick that is accepted in the square-off window leaves no position open, not even the
\* one that a candle it completed has just opened.
THEOREM SquareOffIsComplete == RuntimeSpec => SquareOffLeavesNothing
  <1>1. RuntimeInv /\ [RuntimeNext]_runtimeVars
            => [\A s \in Allowed :
                   forming'[s] # forming[s] /\ ShouldSquareOff(checker'.last[s].time)
                       => acct'.open = <<>>]_runtimeVars
    BY RuntimeStep DEF NothingLeft
  <1>2. QED
    BY <1>1, RuntimeStarts, RuntimeStep, PTL DEF RuntimeSpec, SquareOffLeavesNothing

(***************************************************************************)
(* The gate.  Its decision is always that on the trade in hand; what makes *)
(* a trade riskier leaves its size alone and keeps what blocks it.         *)
(***************************************************************************)
\* What the decision rests on.
ContextOK(ctx) ==
    /\ {ctx.kill, ctx.connected, ctx.stale, ctx.early} \subseteq BOOLEAN
    /\ {ctx.loss, ctx.trades, ctx.positions, ctx.spread, ctx.volume, ctx.volatility,
        ctx.time, ctx.entry, ctx.stop} \subseteq Int

LEMMA BlocksMore ==
    ASSUME NEW a, NEW b, ContextOK(a), ContextOK(b), Riskier(a, b), GateBlocks(b)
    PROVE  GateBlocks(a)
  <1>1. \/ b.loss * 10000 >= GateConfig.capital * GateConfig.lossPercent
        \/ ~(b.loss * 10000 >= GateConfig.capital * GateConfig.lossPercent)
    OBVIOUS
  <1>2. PICK cap \in Int : cap = GateConfig.capital * GateConfig.lossPercent
    BY ContextAssumption
  <1>3. a.loss * 10000 >= b.loss * 10000
    BY DEF ContextOK, Riskier
  <1>4. b.loss * 10000 >= cap => a.loss * 10000 >= cap
    BY <1>2, <1>3 DEF ContextOK
  <1>5. FirstFive(b) => FirstFive(a)
    BY DEF FirstFive, Riskier
  <1>6. b.trades >= GateConfig.maxTrades => a.trades >= GateConfig.maxTrades
    BY ContextAssumption DEF ContextOK, Riskier
  <1>7. b.positions >= GateConfig.maxOpen => a.positions >= GateConfig.maxOpen
    BY ContextAssumption DEF ContextOK, Riskier
  <1>8. b.spread > GateConfig.maxSpread => a.spread > GateConfig.maxSpread
    BY ContextAssumption DEF ContextOK, Riskier
  <1>9. b.volume < GateConfig.minVolume => a.volume < GateConfig.minVolume
    BY ContextAssumption DEF ContextOK, Riskier
  <1>10. b.volatility > GateConfig.maxVolatility => a.volatility > GateConfig.maxVolatility
    BY ContextAssumption DEF ContextOK, Riskier
  <1>11. (b.kill => a.kill) /\ (~b.connected => ~a.connected) /\ (b.stale => a.stale)
    BY DEF Riskier
  <1>12. QED
    BY <1>2, <1>4, <1>5, <1>6, <1>7, <1>8, <1>9, <1>10, <1>11 DEF GateBlocks

LEMMA SizedSoundly ==
    ASSUME NEW ctx, ContextOK(ctx), ~SizingRaises(ctx)
    PROVE  /\ SizedQuantity(ctx) \in Int /\ SizedQuantity(ctx) <= GateConfig.maxQuantity
           /\ SizedQuantity(ctx) * StopWidth(ctx.entry, ctx.stop) * 10000 <= RiskBudget
  <1>1. PICK w \in Nat \ {0} : w = StopWidth(ctx.entry, ctx.stop)
    BY DEF StopWidth, ContextOK, SizingRaises
  <1>2. PICK cost \in Nat \ {0} : cost = 10000 * w
    OBVIOUS
  <1>3. PICK budget \in Nat : budget = RiskBudget
    BY ContextAssumption DEF RiskBudget
  <1>4. PICK d \in Nat : d = budget \div cost /\ cost * d <= budget
    BY <1>3, Divides
  <1>5. SizedQuantity(ctx) = Min({GateConfig.maxQuantity, d})
    BY <1>1, <1>2, <1>3, <1>4 DEF SizedQuantity
  <1>6. PICK q \in Int : q = SizedQuantity(ctx) /\ q <= d /\ q <= GateConfig.maxQuantity
    <2>1. GateConfig.maxQuantity \in Int /\ d \in Int
      BY ContextAssumption
    <2>2. QED
      BY <1>5, <2>1, MinOfTwo
  <1>7. cost * q <= cost * d
    BY <1>6
  <1>8. q * w * 10000 = cost * q
    BY <1>2
  <1>9. q * w * 10000 <= budget
    <2>1. cost * q \in Int /\ cost * d \in Int
      OBVIOUS
    <2>2. QED
      BY <1>4, <1>7, <1>8, <2>1
  <1>10. QED
    BY <1>1, <1>3, <1>6, <1>9

LEMMA GateRead ==
    ASSUME trade \in Contexts, GateBlocks(trade) \/ ~SizingRaises(trade), risk = GateDecision(trade)
    PROVE  GateMonotone
  <1>1. \A ctx \in Contexts : ContextOK(ctx)
    BY ContextAssumption DEF ContextOK
  <1>2. ASSUME risk.status = "FAIL", NEW ctx \in Contexts, Riskier(ctx, trade)
        PROVE  GateDecision(ctx) = Failed
    <2>1. CASE GateBlocks(trade)
      BY <1>1, <1>2, <2>1, BlocksMore DEF GateDecision
    <2>2. CASE ~GateBlocks(trade)
      <3>1. SizedQuantity(ctx) = SizedQuantity(trade)
        BY <1>2 DEF Riskier, SizedQuantity
      <3>2. SizedQuantity(trade) <= 0
        BY <1>2, <2>2 DEF GateDecision
      <3>3. QED
        BY <3>1, <3>2 DEF GateDecision
    <2>3. QED
      BY <2>1, <2>2
  <1>3. ASSUME risk.status = "PASS"
        PROVE  /\ risk.quantity \in 1 .. GateConfig.maxQuantity
               /\ risk.quantity * StopWidth(trade.entry, trade.stop) * 10000 <= RiskBudget
    <2>1. ~GateBlocks(trade) /\ ~(SizedQuantity(trade) <= 0) /\ risk.quantity = SizedQuantity(trade)
      BY <1>3 DEF GateDecision, Failed
    <2>2. PICK q \in Int : /\ q = SizedQuantity(trade) /\ q <= GateConfig.maxQuantity
                           /\ q * StopWidth(trade.entry, trade.stop) * 10000 <= RiskBudget
      BY <1>1, <2>1, SizedSoundly
    <2>3. q \in 1 .. GateConfig.maxQuantity
      BY <2>1, <2>2, ContextAssumption
    <2>4. QED
      BY <2>1, <2>2, <2>3
  <1>4. QED
    BY <1>2, <1>3 DEF GateMonotone

(***************************************************************************)
(* The engine.  A final score is a sum of six terms, which turns its sign  *)
(* with its scores and moves by one term with one of them.                 *)
(***************************************************************************)
Terms(scores) == [name \in DOMAIN Weights |-> scores[name] * Weights[name]]

LEMMA WeightsAre ==
    /\ DOMAIN Weights = FactorNames /\ IsFiniteSet(FactorNames)
    /\ \A n \in FactorNames : Weights[n] \in 10 .. 25
    /\ \A n \in FactorNames \ Critical : Weights[n] <= 20
  <1>1. IsFiniteSet(FactorNames)
    <2>1. /\ IsFiniteSet({"trend_regime", "liquidity_sweep", "vwap_pressure"})
          /\ IsFiniteSet({"order_book_imbalance", "volume_confirmation", "market_breadth"})
      BY FewAreFinite
    <2>2. FactorNames = {"trend_regime", "liquidity_sweep", "vwap_pressure"}
                          \cup {"order_book_imbalance", "volume_confirmation", "market_breadth"}
      BY DEF FactorNames
    <2>3. QED
      BY <2>1, <2>2, FS_Union
  <1>2. DOMAIN Weights = FactorNames
    BY DEF Weights, FactorNames
  <1>3. \A n \in FactorNames : Weights[n] \in 10 .. 25
    BY DEF Weights, FactorNames
  <1>4. \A n \in FactorNames \ Critical : Weights[n] <= 20
    BY DEF Weights, FactorNames, Critical
  <1>5. QED
    BY <1>1, <1>2, <1>3, <1>4

LEMMA TermsSummable ==
    ASSUME NEW scores, \A n \in FactorNames : scores[n] \in Int
    PROVE  /\ Summable(Terms(scores), FactorNames) /\ FinalScore(scores) = SumFunction(Terms(scores))
           /\ FinalScore(scores) \in Int
  <1>1. Terms(scores) \in [FactorNames -> Int]
    <2>1. \A n \in FactorNames : Weights[n] \in Int
      BY WeightsAre
    <2>2. \A n \in FactorNames : scores[n] * Weights[n] \in Int
      BY <2>1
    <2>3. QED
      BY <2>2, WeightsAre DEF Terms
  <1>2. Summable(Terms(scores), FactorNames)
    BY <1>1, WeightsAre DEF Summable
  <1>3. FinalScore(scores) = SumFunction(Terms(scores))
    BY DEF FinalScore, Terms
  <1>4. QED
    BY <1>2, <1>3, SumType

LEMMA FinalTurns ==
    ASSUME NEW scores, NEW back, \A n \in FactorNames : scores[n] \in Int,
           \A n \in FactorNames : back[n] = -scores[n]
    PROVE  FinalScore(back) = -FinalScore(scores)
  <1>1. \A n \in FactorNames : back[n] \in Int
    OBVIOUS
  <1>2. PICK f, g : f = Terms(scores) /\ g = Terms(back)
    OBVIOUS
  <1>3. Summable(f, FactorNames) /\ Summable(g, FactorNames)
    BY <1>1, <1>2, TermsSummable
  <1>4. \A n \in FactorNames : g[n] = f[n] * (-1)
    <2>1. ASSUME NEW n \in FactorNames PROVE g[n] = f[n] * (-1)
      <3>1. PICK x \in Int, w \in Int : x = scores[n] /\ w = Weights[n]
        BY WeightsAre
      <3>2. f[n] = x * w /\ g[n] = (-x) * w
        BY <1>2, <3>1, WeightsAre DEF Terms
      <3>3. QED
        BY <3>2
    <2>2. QED
      BY <2>1
  <1>5. PICK m \in Int : m = -1
    OBVIOUS
  <1>6. SumFunction(g) = SumFunction(f) * m
    BY <1>3, <1>4, <1>5, SumScaled
  <1>7. QED
    BY <1>1, <1>2, <1>5, <1>6, TermsSummable

\* One score less: the sum without its term.
LEMMA FinalWithout ==
    ASSUME NEW scores, \A n \in FactorNames : scores[n] \in Int, NEW x \in FactorNames,
           NEW less, \A n \in FactorNames : less[n] = IF n = x THEN 0 ELSE scores[n]
    PROVE  FinalScore(less) = FinalScore(scores) - scores[x] * Weights[x]
  <1>1. \A n \in FactorNames : less[n] \in Int
    OBVIOUS
  <1>2. PICK f, g : f = Terms(scores) /\ g = Terms(less)
    OBVIOUS
  <1>3. Summable(f, FactorNames) /\ Summable(g, FactorNames)
    BY <1>1, <1>2, TermsSummable
  <1>4. Agree(f, g, FactorNames \ {x})
    BY <1>2, WeightsAre DEF Agree, Terms
  <1>5. SumFunction(g) = SumFunction(f) + (g[x] - f[x])
    BY <1>3, <1>4, SumReplaced
  <1>6. f[x] = scores[x] * Weights[x] /\ g[x] = 0
    <2>1. f[x] = scores[x] * Weights[x] /\ g[x] = less[x] * Weights[x]
      BY <1>2, WeightsAre DEF Terms
    <2>2. less[x] = 0 /\ Weights[x] \in Int
      BY WeightsAre
    <2>3. QED
      BY <2>1, <2>2
  <1>7. scores[x] * Weights[x] \in Int
    BY WeightsAre
  <1>8. QED
    BY <1>1, <1>2, <1>5, <1>6, <1>7, TermsSummable

\* The signal is that of its scores, unless it is the first one, before any.
SignalOK ==
    \/ signal.side = "NO_TRADE" /\ signal.status = "FAIL"
    \/ /\ signal.scores \in ScoreSets /\ signal.status \in {"PASS", "FAIL"}
       /\ signal.side = EngineSignal(signal.scores, signal.status, signal.regime)

LEMMA SignalRead ==
    ASSUME SignalOK
    PROVE  SignalSymmetric
  <1> DEFINE back == [n \in DOMAIN Weights |-> -signal.scores[n]]
  <1>1. CASE signal.status = "FAIL"
    <2>1. signal.side = "NO_TRADE"
      BY <1>1 DEF SignalOK, EngineSignal
    <2>2. QED
      BY <1>1, <2>1 DEF SignalSymmetric, Opposite, EngineSignal
  <1>2. CASE signal.status # "FAIL"
    <2>1. /\ signal.scores \in ScoreSets
          /\ signal.side = EngineSignal(signal.scores, signal.status, signal.regime)
      BY <1>2 DEF SignalOK
    <2>2. \A n \in FactorNames : signal.scores[n] \in Int
      BY <2>1, ContextAssumption
    <2>3. \A n \in FactorNames : back[n] = -signal.scores[n]
      BY WeightsAre
    <2>4. PICK s \in Int : s = FinalScore(signal.scores) /\ FinalScore(back) = -s
      <3>1. FinalScore(back) = -FinalScore(signal.scores)
        BY <2>2, <2>3, FinalTurns
      <3>2. QED
        BY <2>2, <3>1, TermsSummable
    <2>5. Opposite[signal.side] = EngineSignal(back, signal.status, signal.regime)
      BY <2>1, <2>4 DEF Opposite, EngineSignal, Threshold
    <2>6. QED
      BY <1>2, <2>5 DEF SignalSymmetric
  <1>3. QED
    BY <1>1, <1>2

(***************************************************************************)
(* The life of an order.  Every transition leads further on, so no state   *)
(* comes back, and what precedes a state is one it can be reached from.    *)
(***************************************************************************)
States == DOMAIN AllowedNext

\* How far on a state is.
Stage ==
    [SIGNAL_CREATED |-> 1, RISK_CHECK_PENDING |-> 2, RISK_APPROVED |-> 3, RISK_REJECTED |-> 9,
     ORDER_PLACED |-> 4, ORDER_OPEN |-> 5, ORDER_FILLED |-> 6, ORDER_REJECTED |-> 9,
     ORDER_CANCELLED |-> 9, POSITION_OPEN |-> 7, EXIT_PENDING |-> 8, POSITION_CLOSED |-> 9]

LifeInv ==
    /\ lifecycle \in Seq(States) /\ Len(lifecycle) > 0 /\ lifecycle[1] = "SIGNAL_CREATED"
    /\ \A i \in 1 .. Len(lifecycle) - 1 : lifecycle[i + 1] \in AllowedNext[lifecycle[i]]
    /\ \A i, j \in 1 .. Len(lifecycle) : i < j => Stage[lifecycle[i]] < Stage[lifecycle[j]]

LEMMA NextIsFurther ==
    \A s \in States : /\ Stage[s] \in Nat
                      /\ \A t \in AllowedNext[s] : t \in States /\ Stage[s] < Stage[t]
  BY DEF States, AllowedNext, Stage

LEMMA LifeMoves ==
    ASSUME LifeInv, Transition
    PROVE  LifeInv'
  <1>1. PICK n \in Nat : n = Len(lifecycle) /\ n > 0
    BY DEF LifeInv
  <1>2. PICK s : s \in AllowedNext[lifecycle[n]] /\ lifecycle' = Append(lifecycle, s)
    <2>1. Last(lifecycle) = lifecycle[n]
      BY <1>1 DEF Last
    <2>2. QED
      BY <2>1 DEF Transition
  <1>3. lifecycle[n] \in States
    BY <1>1 DEF LifeInv
  <1>4. s \in States /\ Stage[lifecycle[n]] < Stage[s] /\ Stage[s] \in Nat
    BY <1>2, <1>3, NextIsFurther
  <1>5. /\ lifecycle' \in Seq(States) /\ Len(lifecycle') = n + 1 /\ lifecycle'[n + 1] = s
        /\ \A i \in 1 .. n : lifecycle'[i] = lifecycle[i] /\ lifecycle[i] \in States
    BY <1>1, <1>2, <1>4 DEF LifeInv
  <1>6. \A i \in 1 .. n : Stage[lifecycle[i]] \in Nat /\ Stage[lifecycle[i]] <= Stage[lifecycle[n]]
    BY <1>1, <1>5, NextIsFurther DEF LifeInv
  <1>7. \A i, j \in 1 .. n + 1 : i < j => Stage[lifecycle'[i]] < Stage[lifecycle'[j]]
    <2>1. ASSUME NEW i \in 1 .. n + 1, NEW j \in 1 .. n + 1, i < j
          PROVE  Stage[lifecycle'[i]] < Stage[lifecycle'[j]]
      <3>1. CASE j = n + 1
        <4>1. i \in 1 .. n
          BY <2>1, <3>1
        <4>2. n \in 1 .. n
          BY <1>1
        <4>3. QED
          BY <1>4, <1>5, <1>6, <3>1, <4>1, <4>2
      <3>2. CASE j # n + 1
        <4>1. i \in 1 .. n /\ j \in 1 .. n
          BY <2>1, <3>2
        <4>2. QED
          BY <1>1, <1>5, <2>1, <4>1 DEF LifeInv
      <3>3. QED
        BY <3>1, <3>2
    <2>2. QED
      BY <2>1
  <1>8. \A i \in 1 .. n : lifecycle'[i + 1] \in AllowedNext[lifecycle'[i]]
    <2>1. ASSUME NEW i \in 1 .. n PROVE lifecycle'[i + 1] \in AllowedNext[lifecycle'[i]]
      <3>1. CASE i = n
        BY <1>2, <1>5, <3>1
      <3>2. CASE i # n
        <4>1. i \in 1 .. n - 1 /\ i + 1 \in 1 .. n
          BY <3>2
        <4>2. QED
          BY <1>1, <1>5, <4>1 DEF LifeInv
      <3>3. QED
        BY <3>1, <3>2
    <2>2. QED
      BY <2>1
  <1>9. lifecycle'[1] = "SIGNAL_CREATED"
    BY <1>1, <1>5 DEF LifeInv
  <1>10. QED
    BY <1>1, <1>5, <1>7, <1>8, <1>9 DEF LifeInv

\* Where a state is in a life, 0 when it is not.
At(s) == SelectInSeq(lifecycle, LAMBDA x : x = s)

LEMMA LifeRead ==
    ASSUME LifeInv
    PROVE  LifecycleOrdered
  <1>1. PICK n \in Nat : n = Len(lifecycle) /\ n > 0 /\ DOMAIN lifecycle = 1 .. n
    BY DEF LifeInv
  <1>2. \A i \in 1 .. n : lifecycle[i] \in States /\ Stage[lifecycle[i]] \in Nat
    BY <1>1, NextIsFurther DEF LifeInv
  <1>3. \A i, j \in 1 .. n : lifecycle[i] = lifecycle[j] => i = j
    <2>1. ASSUME NEW i \in 1 .. n, NEW j \in 1 .. n, lifecycle[i] = lifecycle[j], i < j PROVE FALSE
      BY <1>1, <1>2, <2>1 DEF LifeInv
    <2>2. QED
      BY <2>1
  <1>4. IsInjective(lifecycle)
    BY <1>1, <1>3 DEF IsInjective
  <1>5. ASSUME NEW s PROVE \/ At(s) = 0 /\ \A i \in 1 .. n : lifecycle[i] # s
                           \/ At(s) \in 1 .. n /\ lifecycle[At(s)] = s
    <2> DEFINE I == {i \in 1 .. Len(lifecycle) : lifecycle[i] = s}
    <2>1. At(s) = IF I # {} THEN Min(I) ELSE 0
      BY DEF At, SelectInSeq
    <2>2. CASE I = {}
      BY <1>1, <2>1, <2>2
    <2>3. CASE I # {}
      <3>1. PICK k \in 1 .. n : lifecycle[k] = s
        BY <1>1, <2>3
      <3>2. I = {k, k}
        BY <1>1, <1>3, <3>1
      <3>3. k \in Int
        OBVIOUS
      <3>4. Min({k, k}) \in {k, k}
        BY <3>3, MinOfTwo
      <3>5. QED
        BY <2>1, <2>3, <3>1, <3>2, <3>4
    <2>4. QED
      BY <2>2, <2>3
  <1>6. ASSUME NEW k \in 1 .. n, lifecycle[k] # "SIGNAL_CREATED"
        PROVE  k - 1 \in 1 .. n /\ lifecycle[k] \in AllowedNext[lifecycle[k - 1]]
    <2>1. k # 1
      BY <1>6 DEF LifeInv
    <2>2. k - 1 \in 1 .. n - 1 /\ k - 1 \in 1 .. n /\ (k - 1) + 1 = k
      BY <2>1
    <2>3. QED
      BY <1>1, <2>2 DEF LifeInv
  <1>7. \A s, t \in States : t \in AllowedNext[s] =>
            /\ t = "ORDER_PLACED" => s = "RISK_APPROVED"
            /\ t = "POSITION_OPEN" => s = "ORDER_FILLED"
            /\ t = "ORDER_OPEN" => s = "ORDER_PLACED"
            /\ t = "ORDER_FILLED" => s \in {"ORDER_PLACED", "ORDER_OPEN"}
            /\ t = "EXIT_PENDING" => s = "POSITION_OPEN"
            /\ t = "POSITION_CLOSED" => s \in {"POSITION_OPEN", "EXIT_PENDING"}
    BY DEF States, AllowedNext
  <1>8. \A k \in 1 .. n : lifecycle[k] # "SIGNAL_CREATED" =>
            /\ k - 1 \in 1 .. n
            /\ lifecycle[k] = "ORDER_PLACED" => lifecycle[k - 1] = "RISK_APPROVED"
            /\ lifecycle[k] = "POSITION_OPEN" => lifecycle[k - 1] = "ORDER_FILLED"
            /\ lifecycle[k] = "ORDER_OPEN" => lifecycle[k - 1] = "ORDER_PLACED"
            /\ lifecycle[k] = "ORDER_FILLED" => lifecycle[k - 1] \in {"ORDER_PLACED", "ORDER_OPEN"}
            /\ lifecycle[k] = "EXIT_PENDING" => lifecycle[k - 1] = "POSITION_OPEN"
            /\ lifecycle[k] = "POSITION_CLOSED" => lifecycle[k - 1] \in {"POSITION_OPEN", "EXIT_PENDING"}
    BY <1>2, <1>6, <1>7
  <1>9. ASSUME NEW s, NEW t, NEW k \in 1 .. n, NEW j \in 1 .. n, lifecycle[k] = t, lifecycle[j] = s, j < k
        PROVE  At(t) = k /\ At(s) > 0 /\ At(s) < At(t)
    <2>1. At(t) = k /\ At(s) = j
      BY <1>3, <1>5, <1>9
    <2>2. QED
      BY <1>9, <2>1
  <1>10. ASSUME At("ORDER_PLACED") > 0
         PROVE  At("RISK_APPROVED") > 0 /\ At("RISK_APPROVED") < At("ORDER_PLACED")
    <2>1. PICK k \in 1 .. n : lifecycle[k] = "ORDER_PLACED"
      BY <1>5, <1>10
    <2>2. k - 1 \in 1 .. n /\ lifecycle[k - 1] = "RISK_APPROVED" /\ k - 1 < k
      BY <1>8, <2>1
    <2>3. QED
      BY <1>9, <2>1, <2>2
  <1>11. ASSUME At("POSITION_OPEN") > 0
         PROVE  At("ORDER_FILLED") > 0 /\ At("ORDER_FILLED") < At("POSITION_OPEN")
    <2>1. PICK k \in 1 .. n : lifecycle[k] = "POSITION_OPEN"
      BY <1>5, <1>11
    <2>2. k - 1 \in 1 .. n /\ lifecycle[k - 1] = "ORDER_FILLED" /\ k - 1 < k
      BY <1>8, <2>1
    <2>3. QED
      BY <1>9, <2>1, <2>2
  <1>12. ASSUME At("ORDER_FILLED") > 0
         PROVE  At("ORDER_PLACED") > 0 /\ At("ORDER_PLACED") < At("ORDER_FILLED")
    <2>1. PICK k \in 1 .. n : lifecycle[k] = "ORDER_FILLED"
      BY <1>5, <1>12
    <2>2. k - 1 \in 1 .. n /\ lifecycle[k - 1] \in {"ORDER_PLACED", "ORDER_OPEN"} /\ k - 1 < k
      BY <1>8, <2>1
    <2>3. CASE lifecycle[k - 1] = "ORDER_PLACED"
      BY <1>9, <2>1, <2>2, <2>3
    <2>4. CASE lifecycle[k - 1] = "ORDER_OPEN"
      <3>1. PICK j \in 1 .. n : j = k - 1
        BY <2>2
      <3>2. j - 1 \in 1 .. n /\ lifecycle[j - 1] = "ORDER_PLACED"
        BY <1>8, <2>4, <3>1
      <3>3. j - 1 < k
        BY <3>1
      <3>4. QED
        BY <1>9, <2>1, <3>2, <3>3
    <2>5. QED
      BY <2>2, <2>3, <2>4
  <1>13. ASSUME At("POSITION_CLOSED") > 0
         PROVE  At("POSITION_OPEN") > 0 /\ At("POSITION_OPEN") < At("POSITION_CLOSED")
    <2>1. PICK k \in 1 .. n : lifecycle[k] = "POSITION_CLOSED"
      BY <1>5, <1>13
    <2>2. k - 1 \in 1 .. n /\ lifecycle[k - 1] \in {"POSITION_OPEN", "EXIT_PENDING"} /\ k - 1 < k
      BY <1>8, <2>1
    <2>3. CASE lifecycle[k - 1] = "POSITION_OPEN"
      BY <1>9, <2>1, <2>2, <2>3
    <2>4. CASE lifecycle[k - 1] = "EXIT_PENDING"
      <3>1. PICK j \in 1 .. n : j = k - 1
        BY <2>2
      <3>2. j - 1 \in 1 .. n /\ lifecycle[j - 1] = "POSITION_OPEN"
        BY <1>8, <2>4, <3>1
      <3>3. j - 1 < k
        BY <3>1
      <3>4. QED
        BY <1>9, <2>1, <3>2, <3>3
    <2>5. QED
      BY <2>2, <2>3, <2>4
  <1>14. ASSUME At("RISK_REJECTED") > 0, At("ORDER_PLACED") # 0 PROVE FALSE
    <2>1. PICK k \in 1 .. n, j \in 1 .. n : lifecycle[k] = "RISK_REJECTED" /\ lifecycle[j] = "ORDER_PLACED"
      BY <1>5, <1>14
    <2>2. k = n
      <3>1. ASSUME k # n PROVE FALSE
        <4>1. k \in 1 .. Len(lifecycle) - 1
          BY <1>1, <3>1
        <4>2. lifecycle[k + 1] \in AllowedNext["RISK_REJECTED"]
          BY <2>1, <4>1 DEF LifeInv
        <4>3. QED
          BY <4>2 DEF AllowedNext
      <3>2. QED
        BY <3>1
    <2>3. k # j
      BY <2>1
    <2>4. j - 1 \in 1 .. n /\ lifecycle[j - 1] = "RISK_APPROVED"
      BY <1>8, <2>1
    <2>5. j < k
      BY <2>2, <2>3
    <2>6. PICK m \in 1 .. n : m = k - 1 /\ lifecycle[k] \in AllowedNext[lifecycle[m]]
      BY <1>6, <2>1
    <2>7. lifecycle[m] = "RISK_CHECK_PENDING"
      BY <1>2, <2>1, <2>6 DEF AllowedNext, States
    <2>8. Stage[lifecycle[j]] <= Stage[lifecycle[m]]
      <3>1. j = m \/ j < m
        BY <2>5, <2>6
      <3>2. QED
        BY <1>1, <1>2, <3>1 DEF LifeInv
    <2>9. QED
      BY <2>1, <2>7, <2>8 DEF Stage
  <1>15. QED
    BY <1>4, <1>10, <1>11, <1>12, <1>13, <1>14 DEF LifecycleOrdered, At

(***************************************************************************)
(* The composer.  A trade of it has all the critical readings and a final  *)
(* score at the threshold, or at four fifths when some reading is missing; *)
(* one reading less takes at most a fifth away.                            *)
(***************************************************************************)
CompositionOK(c) ==
    /\ c.scores \in [FactorNames -> Int] /\ c.unavailable \subseteq FactorNames
    /\ c.danger \in BOOLEAN /\ c.early \in BOOLEAN /\ c.atr \in Int /\ c.close \in Int
    /\ c.quality \in {"OK", "NONE", "FAIL", "DATA_UNAVAILABLE"}

TradesOn(o) == o.status = "PASS" /\ o.side \in {"BUY", "SELL"}

LEMMA ComponentsAre ==
    ASSUME NEW c, CompositionOK(c)
    PROVE  /\ \A n \in FactorNames : ComponentScores(c)[n] \in Int
           /\ FinalScore(ComponentScores(c)) \in Int
  <1>1. \A n \in FactorNames : ComponentScores(c)[n] \in Int
    BY WeightsAre DEF CompositionOK, ComponentScores
  <1>2. QED
    BY <1>1, TermsSummable

\* What a trade of the composer rests on.
Rests(c, final) ==
    /\ c.status = "PASS" /\ ~DataBlocked(c) /\ ~c.early /\ ~InDanger(c)
    /\ c.unavailable \cap Critical = {}
    /\ (final >= 720 \/ final <= -720)
    /\ c.unavailable # {} => final >= 800 \/ final <= -800
    /\ Composed(c).side = IF final >= 720 THEN "BUY" ELSE "SELL"
    /\ EngineConfidence(c) \in Nat /\ EngineConfidence(c) >= 7200
    /\ c.unavailable # {} => EngineConfidence(c) >= 8000

LEMMA TradeRests ==
    ASSUME NEW c, CompositionOK(c), TradesOn(Composed(c))
    PROVE  Rests(c, FinalScore(ComponentScores(c)))
  <1>0. PICK final : final = FinalScore(ComponentScores(c))
    OBVIOUS
  <1>1. final \in Int
    BY <1>0, ComponentsAre
  <1> DEFINE regime == IF InDanger(c) THEN "DANGER" ELSE "NEUTRAL"
             side == EngineSignal(ComponentScores(c), ComposedRisk(c), regime)
  <1>2. ComposedRisk(c) = "PASS" /\ Composed(c).side = Downgraded(c, side)
        /\ Composed(c).side \in {"BUY", "SELL"}
    BY DEF Composed, TradesOn
  <1>3. c.status = "PASS" /\ ~DataBlocked(c) /\ ~c.early
    BY <1>2 DEF ComposedRisk
  <1>4. /\ side \in {"BUY", "SELL"} /\ Composed(c).side = side
        /\ ~(\/ c.unavailable \cap Critical # {}
             \/ c.unavailable # {} /\ EngineConfidence(c) < 8000)
    BY <1>2 DEF Downgraded
  <1>5. /\ (final >= 720 \/ final <= -720)
        /\ side = IF final >= 720 THEN "BUY" ELSE "SELL"
    <2>1. side = IF ComposedRisk(c) = "FAIL" \/ regime = "DANGER" THEN "NO_TRADE"
                 ELSE IF final >= 720 THEN "BUY" ELSE IF final <= -720 THEN "SELL" ELSE "HOLD"
      BY <1>0 DEF EngineSignal, Threshold
    <2>2. QED
      BY <1>4, <2>1
  <1>6. ~InDanger(c)
    <2>1. side = IF ComposedRisk(c) = "FAIL" \/ regime = "DANGER" THEN "NO_TRADE"
                 ELSE IF final >= 720 THEN "BUY" ELSE IF final <= -720 THEN "SELL" ELSE "HOLD"
      BY <1>0 DEF EngineSignal, Threshold
    <2>2. QED
      BY <1>4, <2>1
  <1>7. PICK e \in Int : e = EngineConfidence(c) /\ e = (IF final < 0 THEN -final ELSE final) * 10
    BY <1>0, <1>1 DEF EngineConfidence, AbsScore
  <1>9. e \in Nat /\ e >= 7200
    BY <1>1, <1>5, <1>7
  <1>10. c.unavailable # {} => e >= 8000
    BY <1>1, <1>4, <1>7, <1>9
  <1>11. c.unavailable # {} => final >= 800 \/ final <= -800
    BY <1>1, <1>7, <1>10
  <1>12. QED
    BY <1>0, <1>3, <1>4, <1>5, <1>6, <1>7, <1>9, <1>10, <1>11 DEF Rests

LEMMA HiddenLess ==
    ASSUME NEW c, CompositionOK(c), ScoresValid(ComponentScores(c)),
           NEW n \in FactorNames \ c.unavailable,
           NEW less, less = [c EXCEPT !.unavailable = @ \cup {n}],
           TradesOn(Composed(less)), c.scores[n] * FinalScore(ComponentScores(c)) >= 0
    PROVE  TradesOn(Composed(c))
  <1>1. /\ less.scores = c.scores /\ less.danger = c.danger /\ less.atr = c.atr
        /\ less.close = c.close /\ less.quality = c.quality /\ less.early = c.early
        /\ less.status = c.status /\ less.unavailable = c.unavailable \cup {n}
    OBVIOUS
  <1>2. CompositionOK(less)
    BY <1>1 DEF CompositionOK
  <1>3. PICK f \in Int, g \in Int : f = FinalScore(ComponentScores(c)) /\ g = FinalScore(ComponentScores(less))
    BY <1>2, ComponentsAre
  <1>4. /\ less.status = "PASS" /\ ~DataBlocked(less) /\ ~less.early /\ ~InDanger(less)
        /\ less.unavailable \cap Critical = {} /\ (less.unavailable # {} => g >= 800 \/ g <= -800)
    <2>1. Rests(less, g)
      BY <1>2, <1>3, TradeRests
    <2>2. QED
      BY <2>1 DEF Rests
  <1>5. /\ c.status = "PASS" /\ ~DataBlocked(c) /\ ~c.early /\ c.unavailable \cap Critical = {}
        /\ n \notin Critical /\ (g >= 800 \/ g <= -800)
    BY <1>1, <1>4 DEF DataBlocked
  <1>6. ~InDanger(c)
    BY <1>1, <1>4, <1>5 DEF InDanger, Critical
  <1>7. PICK s \in -10 .. 10, w \in 10 .. 20 : s = c.scores[n] /\ w = Weights[n]
    <2>1. ComponentScores(c)[n] = c.scores[n]
      BY <1>5, WeightsAre DEF ComponentScores, Critical
    <2>2. c.scores[n] \in -10 .. 10
      BY <2>1, WeightsAre DEF ScoresValid, ComponentScores
    <2>3. Weights[n] \in 10 .. 20
      BY <1>5, WeightsAre
    <2>4. QED
      BY <2>2, <2>3
  <1>8. g = f - s * w
    <2>1. \A m \in FactorNames : ComponentScores(c)[m] \in Int
      BY ComponentsAre
    <2>2. \A m \in FactorNames :
             ComponentScores(less)[m] = IF m = n THEN 0 ELSE ComponentScores(c)[m]
      BY <1>1, WeightsAre DEF ComponentScores
    <2>3. g = f - ComponentScores(c)[n] * Weights[n]
      <3>1. n \in FactorNames
        OBVIOUS
      <3>2. QED
        BY <1>3, <2>1, <2>2, <3>1, FinalWithout
    <2>4. ComponentScores(c)[n] = c.scores[n]
      BY <1>5, WeightsAre DEF ComponentScores, Critical
    <2>5. QED
      BY <1>7, <2>3, <2>4
  <1>9. s * f >= 0
    BY <1>3, <1>7
  <1>10. f >= 800 \/ f <= -800
    <2>1. CASE s >= 0
      <3>1. s * w >= 0 /\ s * w <= 200 /\ s * w \in Int
        <4>1. s \in 0 .. 10
          BY <2>1
        <4>2. s * w >= 0 * w /\ s * w <= 10 * w
          BY <4>1
        <4>3. QED
          BY <4>2
      <3>2. CASE s = 0
        BY <1>5, <1>8, <3>2
      <3>3. CASE s > 0
        <4>1. f >= 0
          <5>1. ASSUME f < 0 PROVE FALSE
            <6>1. s * f <= s * (-1)
              BY <3>3, <5>1
            <6>2. QED
              BY <1>9, <3>3, <6>1
          <5>2. QED
            BY <5>1
        <4>2. QED
          BY <1>5, <1>8, <3>1, <4>1
      <3>4. QED
        BY <2>1, <3>2, <3>3
    <2>2. CASE s < 0
      <3>1. s * w <= 0 /\ s * w >= -200 /\ s * w \in Int
        <4>1. s \in -10 .. -1
          BY <2>2
        <4>2. s * w <= 0 * w /\ s * w >= (-10) * w
          BY <4>1
        <4>3. QED
          BY <4>2
      <3>2. f <= 0
        <4>1. ASSUME f > 0 PROVE FALSE
          <5>1. (-s) * f >= (-s) * 1
            BY <2>2, <4>1
          <5>2. (-s) * f = -(s * f) /\ s * f \in Int
            OBVIOUS
          <5>3. QED
            BY <1>9, <2>2, <5>1, <5>2
        <4>2. QED
          BY <4>1
      <3>3. QED
        BY <1>5, <1>8, <3>1, <3>2
    <2>3. QED
      BY <2>1, <2>2
  <1>11. ComposedRisk(c) = "PASS" /\ EngineConfidence(c) >= 8000 /\ EngineConfidence(c) \in Int
    <2>1. ComposedRisk(c) = "PASS"
      BY <1>5 DEF ComposedRisk
    <2>2. EngineConfidence(c) = (IF f < 0 THEN -f ELSE f) * 10
      BY <1>3 DEF EngineConfidence, AbsScore
    <2>3. QED
      BY <1>10, <2>1, <2>2
  <1>12. EngineSignal(ComponentScores(c), "PASS", "NEUTRAL") \in {"BUY", "SELL"}
    BY <1>3, <1>10 DEF EngineSignal, Threshold
  <1>13. Downgraded(c, EngineSignal(ComponentScores(c), "PASS", "NEUTRAL")) \in {"BUY", "SELL"}
    BY <1>5, <1>11, <1>12 DEF Downgraded
  <1>14. QED
    BY <1>6, <1>11, <1>13 DEF Composed, TradesOn

\* The composition in hand and its output.
ComposedOK ==
    composed # <<>> =>
        /\ composed.of \in Compositions /\ ScoresValid(ComponentScores(composed.of))
        /\ ~ComposeRaises(composed.of) /\ composed.output = Composed(composed.of)

LEMMA HidingRead ==
    ASSUME ComposedOK
    PROVE  HidingNeverTrades
  <1>1. SUFFICES ASSUME composed # <<>>, NEW c, c = composed.of
        PROVE  /\ TradesOn(composed.output) =>
                    c.quality \in {"OK", "NONE"} /\ ~c.early /\ c.unavailable \cap Critical = {}
               /\ \A n \in DOMAIN Weights \ c.unavailable :
                    LET less == [c EXCEPT !.unavailable = @ \cup {n}]
                    IN (TradesOn(Composed(less)) /\ c.scores[n] * FinalScore(ComponentScores(c)) >= 0)
                           => TradesOn(composed.output)
    BY DEF HidingNeverTrades, TradesOn
  <1>2. /\ CompositionOK(c) /\ ScoresValid(ComponentScores(c)) /\ composed.output = Composed(c)
    BY <1>1, IndicatorAssumption DEF ComposedOK, CompositionOK
  <1>3. TradesOn(composed.output) =>
            c.quality \in {"OK", "NONE"} /\ ~c.early /\ c.unavailable \cap Critical = {}
    <2>1. TradesOn(Composed(c)) => ~DataBlocked(c) /\ ~c.early /\ c.unavailable \cap Critical = {}
      BY <1>2, TradeRests DEF Rests
    <2>2. QED
      BY <1>2, <2>1 DEF DataBlocked, CompositionOK
  <1>4. \A n \in DOMAIN Weights \ c.unavailable :
            LET less == [c EXCEPT !.unavailable = @ \cup {n}]
            IN (TradesOn(Composed(less)) /\ c.scores[n] * FinalScore(ComponentScores(c)) >= 0)
                   => TradesOn(composed.output)
    BY <1>2, HiddenLess, WeightsAre
  <1>5. QED
    BY <1>3, <1>4

LEMMA GradedRead ==
    ASSUME ComposedOK
    PROVE  TradeGraded
  <1>1. SUFFICES ASSUME ComposedTrade
        PROVE  LET o == composed.output
                   s == IF o.side = "BUY" THEN 1 ELSE -1
               IN /\ o.grade \in {"C", "D"} => Cardinality(composed.of.unavailable) >= 2
                  /\ o.levels # <<>> =>
                        /\ s * (composed.of.close - o.levels.stop) > 0
                        /\ s * (o.levels.first - composed.of.close) > 0
                        /\ s * (o.levels.second - o.levels.first) > 0
    BY DEF TradeGraded
  <1>2. PICK c : c = composed.of
    OBVIOUS
  <1>3. composed # <<>> /\ TradesOn(composed.output)
    BY <1>1 DEF ComposedTrade, TradesOn
  <1>4. CompositionOK(c) /\ composed.output = Composed(c) /\ ~ComposeRaises(c)
    BY <1>2, <1>3, IndicatorAssumption DEF ComposedOK, CompositionOK
  <1>5. Rests(c, FinalScore(ComponentScores(c)))
    BY <1>3, <1>4, TradeRests
  <1>6. PICK n \in Nat : n = Cardinality(c.unavailable)
    <2>1. IsFiniteSet(c.unavailable)
      BY <1>4, WeightsAre, FS_Subset DEF CompositionOK
    <2>2. QED
      BY <2>1, FS_CardinalityType
  <1>7. PICK e \in Nat : e = EngineConfidence(c) /\ e >= 7200 /\ (n # 0 => e >= 8000)
    <2>1. c.unavailable = {} => n = 0
      BY <1>6, FS_EmptySet
    <2>2. QED
      BY <1>5, <2>1 DEF Rests
  <1>8. Composed(c).grade \in {"C", "D"} => n >= 2
    <2>1. SUFFICES ASSUME n < 2 PROVE Composed(c).grade \notin {"C", "D"}
      OBVIOUS
    <2>2. ComposedConfidence(c) = (e * (10 - n)) \div 10
      BY <1>5, <1>6, <1>7 DEF ComposedConfidence, Rests
    <2>3. ComposedConfidence(c) \in Int /\ ComposedConfidence(c) >= 6500
      <3>1. CASE n = 0
        BY <1>7, <2>2, <3>1
      <3>2. CASE n = 1
        BY <1>7, <2>2, <3>2
      <3>3. QED
        BY <2>1, <3>1, <3>2
    <2>4. Grade(ComposedConfidence(c)) \in {"A", "B"}
      BY <2>3 DEF Grade
    <2>5. QED
      BY <2>4 DEF Composed
  <1>9. ASSUME Composed(c).levels # <<>>, NEW s, s = IF Composed(c).side = "BUY" THEN 1 ELSE -1
        PROVE  /\ s * (c.close - Composed(c).levels.stop) > 0
               /\ s * (Composed(c).levels.first - c.close) > 0
               /\ s * (Composed(c).levels.second - Composed(c).levels.first) > 0
    <2>1. /\ c.close > 0 /\ c.atr >= 0 /\ c.atr # 0
          /\ Composed(c).levels = AtrLevels(Composed(c).side, c.close, c.atr)
      <3>1. c.atr # 0
        BY <1>4, <1>9 DEF ComposeRaises
      <3>2. QED
        BY <1>9, <3>1 DEF Composed
    <2>2. PICK p \in Int, a \in Nat \ {0} : p = c.close /\ a = c.atr
      BY <1>4, <2>1 DEF CompositionOK
    <2>3. PICK x \in Nat \ {0} : x = (a * 3) \div 2
      OBVIOUS
    <2>4. /\ Composed(c).levels.stop = p - s * x /\ Composed(c).levels.first = p + s * a * 2
          /\ Composed(c).levels.second = p + s * a * 3
      BY <1>9, <2>1, <2>2, <2>3 DEF AtrLevels
    <2>5. CASE s = 1
      BY <2>2, <2>3, <2>4, <2>5
    <2>6. CASE s = -1
      BY <2>2, <2>3, <2>4, <2>6
    <2>7. QED
      BY <1>9, <2>5, <2>6
  <1>10. QED
    BY <1>2, <1>4, <1>6, <1>8, <1>9

(***************************************************************************)
(* The gauges of breadth and depth: quotients of a gap and a total, which  *)
(* change sign when the sides change places.                               *)
(***************************************************************************)
LEMMA AtMost ==
    ASSUME NEW a \in Nat, NEW b \in Nat \ {0}, NEW k \in Nat, a <= k * b
    PROVE  a \div b \in 0 .. k
  <1>1. PICK q \in Nat : q = a \div b /\ b * q <= a
    BY Divides
  <1>2. ASSUME q > k PROVE FALSE
    <2>1. b * q >= b * (k + 1)
      BY <1>2
    <2>2. b * (k + 1) = k * b + b
      OBVIOUS
    <2>3. b * q \in Int /\ k * b \in Int /\ b * (k + 1) \in Int
      OBVIOUS
    <2>4. QED
      BY <1>1, <2>1, <2>2, <2>3
  <1>3. QED
    BY <1>1, <1>2

LEMMA BreadthEven ==
    ASSUME NEW s \in [advancing : Nat, declining : Nat, unchanged : Nat],
           BreadthScore(s) # Unavailable
    PROVE  /\ BreadthScore(s) \in -10 .. 10
           /\ BreadthScore([s EXCEPT !.advancing = s.declining, !.declining = s.advancing])
                 = -BreadthScore(s)
  <1>1. PICK a \in Nat, d \in Nat, u \in Nat : a = s.advancing /\ d = s.declining /\ u = s.unchanged
    OBVIOUS
  <1>2. PICK t \in Nat : t = a + d + u
    OBVIOUS
  <1>3. PICK back : back = [s EXCEPT !.advancing = s.declining, !.declining = s.advancing]
    OBVIOUS
  <1>4. back.advancing = d /\ back.declining = a /\ back.unchanged = u /\ d + a + u = t
    BY <1>1, <1>2, <1>3
  <1>5. BreadthScore(s) = IF t = 0 THEN Unavailable
                          ELSE IF a - d >= 0 THEN ((a - d) * 10) \div t ELSE 0 - ((-(a - d) * 10) \div t)
    BY <1>1, <1>2 DEF BreadthScore
  <1>6. BreadthScore(back) = IF t = 0 THEN Unavailable
                             ELSE IF d - a >= 0 THEN ((d - a) * 10) \div t ELSE 0 - ((-(d - a) * 10) \div t)
    BY <1>4 DEF BreadthScore
  <1>7. t # 0
    BY <1>5
  <1>8. PICK up \in Int : up = a - d
    OBVIOUS
  <1>9. CASE up >= 0
    <2>1. PICK q \in 0 .. 10 : q = (up * 10) \div t
      <3>1. up * 10 \in Nat /\ up * 10 <= 10 * t
        BY <1>2, <1>8, <1>9
      <3>2. QED
        BY <1>7, <3>1, AtMost
    <2>2. BreadthScore(s) = q
      BY <1>5, <1>7, <1>8, <1>9, <2>1
    <2>3. BreadthScore(back) = -q
      <3>1. CASE up = 0
        <4>1. d - a = 0 /\ (d - a) * 10 = up * 10
          BY <1>8, <3>1
        <4>2. (up * 10) \div t = 0
          <5>1. up * 10 = 0
            BY <3>1
          <5>2. QED
            BY <1>7, <5>1
        <4>3. QED
          BY <1>6, <1>7, <2>1, <4>1, <4>2
      <3>2. CASE up # 0
        <4>1. ~(d - a >= 0) /\ -(d - a) * 10 = up * 10
          BY <1>8, <1>9, <3>2
        <4>2. QED
          BY <1>6, <1>7, <2>1, <4>1
      <3>3. QED
        BY <3>1, <3>2
    <2>4. QED
      BY <1>3, <2>2, <2>3
  <1>10. CASE up < 0
    <2>1. PICK q \in 0 .. 10 : q = ((-up) * 10) \div t
      <3>1. (-up) * 10 \in Nat /\ (-up) * 10 <= 10 * t
        BY <1>2, <1>8, <1>10
      <3>2. QED
        BY <1>7, <3>1, AtMost
    <2>2. BreadthScore(s) = -q
      BY <1>5, <1>7, <1>8, <1>10, <2>1
    <2>3. BreadthScore(back) = q
      <3>1. d - a >= 0 /\ (d - a) * 10 = (-up) * 10
        BY <1>8, <1>10
      <3>2. QED
        BY <1>6, <1>7, <2>1, <3>1
    <2>4. QED
      BY <1>3, <2>2, <2>3
  <1>11. QED
    BY <1>9, <1>10

LEMMA PressureEven ==
    ASSUME NEW b \in [bid : Nat, ask : Nat, spread : Int], PressureScore(b) # Unavailable
    PROVE  /\ PressureScore([b EXCEPT !.bid = b.ask, !.ask = b.bid]) = -PressureScore(b)
           /\ b.spread > 15 => PressureScore(b) \in -50 .. 50
  <1>1. PICK x \in Nat, y \in Nat, w \in {1, 2} :
            x = b.bid /\ y = b.ask /\ w = (IF b.spread > 15 THEN 2 ELSE 1)
    OBVIOUS
  <1>2. PICK back : back = [b EXCEPT !.bid = b.ask, !.ask = b.bid]
    OBVIOUS
  <1>3. PICK t \in Nat, gap \in Int : t = (x + y) * w /\ gap = AbsScore(x - y) * 100
    BY DEF AbsScore
  <1>4. gap \in Nat /\ AbsScore(y - x) * 100 = gap /\ gap <= (x + y) * 100
    BY <1>3 DEF AbsScore
  <1>5. PressureScore(b) = IF x + y = 0 THEN Unavailable
                           ELSE IF x - y >= 0 THEN gap \div t ELSE -(gap \div t)
    BY <1>1, <1>3 DEF PressureScore
  <1>6. PressureScore(back) = IF x + y = 0 THEN Unavailable
                              ELSE IF y - x >= 0 THEN gap \div t ELSE -(gap \div t)
    <2>1. back.bid = y /\ back.ask = x /\ back.spread = b.spread /\ y + x = x + y
      BY <1>1, <1>2
    <2>2. QED
      BY <1>1, <1>3, <1>4, <2>1 DEF PressureScore
  <1>7. x + y # 0 /\ t # 0
    BY <1>1, <1>3, <1>5
  <1>8. PICK q \in Nat : q = gap \div t /\ (gap = 0 => q = 0) /\ (w = 2 => q <= 50)
    <2>1. PICK q \in Nat : q = gap \div t /\ t * q <= gap
      BY <1>4, <1>7, Divides
    <2>2. gap = 0 => q = 0
      <3>1. ASSUME gap = 0, q # 0 PROVE FALSE
        <4>1. t * q >= t * 1
          BY <3>1
        <4>2. QED
          BY <1>7, <2>1, <3>1, <4>1
      <3>2. QED
        BY <3>1
    <2>3. w = 2 => q <= 50
      <3>1. w = 2 => gap <= 50 * t
        BY <1>3, <1>4
      <3>2. QED
        BY <1>4, <1>7, <2>1, <3>1, AtMost
    <2>4. QED
      BY <2>1, <2>2, <2>3
  <1>9. PressureScore(back) = -PressureScore(b)
    <2>1. CASE x = y
      <3>1. gap = 0
        BY <1>3, <2>1 DEF AbsScore
      <3>2. QED
        BY <1>5, <1>6, <1>7, <1>8, <2>1, <3>1
    <2>2. CASE x > y
      BY <1>5, <1>6, <1>7, <1>8, <2>2
    <2>3. CASE x < y
      BY <1>5, <1>6, <1>7, <1>8, <2>3
    <2>4. QED
      BY <2>1, <2>2, <2>3
  <1>10. w = 2 => PressureScore(b) \in -50 .. 50
    BY <1>5, <1>7, <1>8
  <1>11. QED
    BY <1>1, <1>2, <1>9, <1>10

(***************************************************************************)
(* The gauges of charts.  What is complete of a chart turned over is what  *)
(* is complete of it, turned over; the highest high of some candles then   *)
(* becomes the lowest low.                                                 *)
(***************************************************************************)
\* Candles of any prices, as a candle turned over may have.
AnyCandles == [open : Int, high : Int, low : Int, close : Int, volume : Nat, complete : BOOLEAN]

\* One candle more: it is kept when it is complete.
KeptComplete(s, b) == IF b.complete THEN Append(s, b) ELSE s

\* What a function makes of the elements of a finite set is finite.
LEMMA ImageFinite ==
    ASSUME NEW S, IsFiniteSet(S), NEW f, NEW T, T = {f[x] : x \in S}
    PROVE  IsFiniteSet(T)
  <1>1. [x \in S |-> f[x]] \in Surjection(S, T)
    BY DEF Surjection
  <1>2. QED
    BY <1>1, FS_Surjection

\* f goes through the first L candles of a chart.
IsFiltered(f, chart, L) ==
    f = [n \in 0 .. L |-> IF n = 0 THEN <<>> ELSE KeptComplete(f[n - 1], chart[n])]

LEMMA FilterExists ==
    ASSUME NEW chart, NEW L \in Nat
    PROVE  \E f : IsFiltered(f, chart, L)
  <1> DEFINE N == {n \in Nat : \E f : IsFiltered(f, chart, n)}
  <1>1. 0 \in N
    <2>1. IsFiltered([n \in 0 .. 0 |-> <<>>], chart, 0)
      BY DEF IsFiltered
    <2>2. QED
      BY <2>1
  <1>2. ASSUME NEW n \in Nat, n \in N PROVE n + 1 \in N
    <2>1. PICK g : IsFiltered(g, chart, n)
      BY <1>2
    <2>2. PICK h : h = [i \in 0 .. n + 1 |-> IF i = 0 THEN <<>> ELSE KeptComplete(g[i - 1], chart[i])]
      OBVIOUS
    <2>3. \A i \in 0 .. n : h[i] = g[i]
      BY <2>1, <2>2 DEF IsFiltered
    <2>4. \A i \in 0 .. n + 1 : i # 0 => i - 1 \in 0 .. n
      OBVIOUS
    <2>5. IsFiltered(h, chart, n + 1)
      BY <2>2, <2>3, <2>4 DEF IsFiltered
    <2>6. QED
      BY <2>5
  <1>3. Nat \subseteq N
    <2> HIDE DEF N
    <2>1. QED
      BY <1>1, <1>2, Counting
  <1>4. QED
    BY <1>3

LEMMA CompleteFilters ==
    ASSUME NEW chart \in Seq(AnyCandles)
    PROVE  \E f : IsFiltered(f, chart, Len(chart)) /\ Complete(chart) = f[Len(chart)]
  <1>1. PICK f : f = CHOOSE g : IsFiltered(g, chart, Len(chart))
    OBVIOUS
  <1>2. IsFiltered(f, chart, Len(chart))
    <2>1. Len(chart) \in Nat
      OBVIOUS
    <2>2. QED
      BY <1>1, <2>1, FilterExists
  <1>3. Complete(chart) = f[Len(chart)]
    BY <1>1 DEF Complete, IsFiltered, KeptComplete
  <1>4. QED
    BY <1>2, <1>3

\* One turn of the filter.
LEMMA FilterTurns ==
    ASSUME NEW f, NEW chart, NEW L \in Nat, IsFiltered(f, chart, L)
    PROVE  /\ f[0] = <<>>
           /\ \A n \in 0 .. L : n < L =>
                 f[n + 1] = KeptComplete(f[n], chart[n + 1])
  <1>1. \A n \in 0 .. L : n < L => n + 1 \in 0 .. L /\ n + 1 # 0 /\ (n + 1) - 1 = n
    OBVIOUS
  <1>2. QED
    BY <1>1 DEF IsFiltered

LEMMA CompleteTyped ==
    ASSUME NEW chart \in Seq(AnyCandles)
    PROVE  Complete(chart) \in Seq(AnyCandles) /\ \A i \in 1 .. Len(Complete(chart)) : Complete(chart)[i].complete
  <1>1. PICK L \in Nat : L = Len(chart)
    OBVIOUS
  <1>2. PICK f : IsFiltered(f, chart, L) /\ Complete(chart) = f[L]
    BY <1>1, CompleteFilters
  <1> DEFINE S == {n \in 0 .. L : f[n] \in Seq(AnyCandles) /\ \A i \in 1 .. Len(f[n]) : f[n][i].complete}
  <1>3. 0 \in S
    <2>1. PICK e : e = <<>>
      OBVIOUS
    <2>2. e \in Seq(AnyCandles) /\ Len(e) = 0
      BY <2>1
    <2>3. f[0] = e
      BY <1>2, <2>1, FilterTurns
    <2>4. 0 \in 0 .. L /\ 1 .. Len(e) = {} /\ 1 .. 0 = {}
      BY <2>2
    <2>5. QED
      BY <2>2, <2>3, <2>4, Zenon
  <1>4. ASSUME NEW n \in 0 .. L, n \in S, n < L PROVE n + 1 \in S
    <2>1. chart[n + 1] \in AnyCandles /\ n + 1 \in 0 .. L
      BY <1>1, <1>4
    <2>2. f[n + 1] = IF chart[n + 1].complete THEN Append(f[n], chart[n + 1]) ELSE f[n]
      BY <1>2, <1>4, FilterTurns DEF KeptComplete
    <2>3. CASE chart[n + 1].complete
      <3>1. PICK b \in AnyCandles, s \in Seq(AnyCandles) :
                b = chart[n + 1] /\ s = f[n] /\ b.complete /\ \A i \in 1 .. Len(s) : s[i].complete
        BY <1>4, <2>1, <2>3
      <3>2. Append(s, b) \in Seq(AnyCandles) /\ \A i \in 1 .. Len(Append(s, b)) : Append(s, b)[i].complete
        BY <3>1
      <3>3. f[n + 1] = Append(s, b)
        BY <2>2, <2>3, <3>1
      <3>4. QED
        BY <2>1, <3>2, <3>3
    <2>4. CASE ~chart[n + 1].complete
      BY <1>4, <2>1, <2>2, <2>4
    <2>5. QED
      BY <2>3, <2>4
  <1>5. 0 .. L \subseteq S
    <2> HIDE DEF S
    <2>1. QED
      BY <1>3, <1>4, CountingTo
  <1>6. L \in S
    BY <1>5
  <1>7. QED
    BY <1>2, <1>6

LEMMA CompleteOnce ==
    ASSUME NEW chart \in Seq(AnyCandles), \A i \in 1 .. Len(chart) : chart[i].complete
    PROVE  Complete(chart) = chart
  <1>1. PICK L \in Nat : L = Len(chart)
    OBVIOUS
  <1>2. PICK f : IsFiltered(f, chart, L) /\ Complete(chart) = f[L]
    BY <1>1, CompleteFilters
  <1> DEFINE S == {n \in 0 .. L : /\ f[n] \in Seq(AnyCandles) /\ Len(f[n]) = n
                                  /\ \A i \in 1 .. n : f[n][i] = chart[i]}
  <1>3. 0 \in S
    <2>1. PICK e : e = <<>>
      OBVIOUS
    <2>2. e \in Seq(AnyCandles) /\ Len(e) = 0
      BY <2>1
    <2>3. f[0] = e
      BY <1>2, <2>1, FilterTurns
    <2>4. 0 \in 0 .. L /\ 1 .. Len(e) = {} /\ 1 .. 0 = {}
      BY <2>2
    <2>5. QED
      BY <2>2, <2>3, <2>4, Zenon
  <1>4. ASSUME NEW n \in 0 .. L, n \in S, n < L PROVE n + 1 \in S
    <2>1. chart[n + 1] \in AnyCandles /\ n + 1 \in 0 .. L /\ chart[n + 1].complete
      BY <1>1, <1>4
    <2>2. f[n + 1] = Append(f[n], chart[n + 1])
      BY <1>2, <1>4, <2>1, FilterTurns DEF KeptComplete
    <2>3. PICK b \in AnyCandles, s \in Seq(AnyCandles) :
              b = chart[n + 1] /\ s = f[n] /\ Len(s) = n /\ \A i \in 1 .. n : s[i] = chart[i]
      BY <1>4, <2>1
    <2>4. /\ Append(s, b) \in Seq(AnyCandles) /\ Len(Append(s, b)) = n + 1
          /\ \A i \in 1 .. n + 1 : Append(s, b)[i] = chart[i]
      BY <2>3
    <2>5. QED
      BY <2>1, <2>2, <2>3, <2>4
  <1>5. 0 .. L \subseteq S
    <2> HIDE DEF S
    <2>1. QED
      BY <1>3, <1>4, CountingTo
  <1>6. L \in S
    BY <1>5
  <1>7. PICK s \in Seq(AnyCandles) : s = f[L] /\ Len(s) = L /\ \A i \in 1 .. L : s[i] = chart[i]
    BY <1>6
  <1>8. s = chart
    BY <1>1, <1>7
  <1>9. QED
    BY <1>2, <1>7, <1>8

\* d is c turned over at p, candle by candle.
TurnsOver(d, c, p) == Len(d) = Len(c) /\ \A i \in 1 .. Len(c) : d[i] = Turned(c[i], p)

\* What a candle turned over is; it need not be one, as its prices may be negative.
LEMMA TurnedIs ==
    ASSUME NEW b \in AnyCandles, NEW p \in Int
    PROVE  /\ Turned(b, p).open = 2 * p - b.open /\ Turned(b, p).close = 2 * p - b.close
           /\ Turned(b, p).high = 2 * p - b.low /\ Turned(b, p).low = 2 * p - b.high
           /\ Turned(b, p).volume = b.volume /\ Turned(b, p).complete = b.complete
  BY DEF Turned, AnyCandles

\* What appending does to a list of candles.
LEMMA LongerList ==
    ASSUME NEW s \in Seq(AnyCandles), NEW b \in AnyCandles
    PROVE  /\ Append(s, b) \in Seq(AnyCandles) /\ Len(Append(s, b)) = Len(s) + 1
           /\ \A i \in 1 .. Len(s) + 1 : Append(s, b)[i] = IF i = Len(s) + 1 THEN b ELSE s[i]
  OBVIOUS

LEMMA TurnedType ==
    ASSUME NEW b \in AnyCandles, NEW p \in Int
    PROVE  Turned(b, p) \in AnyCandles
  <1>1. /\ 2 * p - b.open \in Int /\ 2 * p - b.close \in Int
        /\ 2 * p - b.low \in Int /\ 2 * p - b.high \in Int
    BY DEF AnyCandles
  <1>2. PICK o, h, l, x : /\ o = 2 * p - b.open /\ x = 2 * p - b.close
                          /\ h = 2 * p - b.low /\ l = 2 * p - b.high
    OBVIOUS
  <1>3. Turned(b, p) = [b EXCEPT !.open = o, !.close = x, !.high = h, !.low = l]
    BY <1>2 DEF Turned
  <1>4. o \in Int /\ h \in Int /\ l \in Int /\ x \in Int
    BY <1>1, <1>2
  <1>5. QED
    BY <1>3, <1>4 DEF AnyCandles

LEMMA CompleteTurns ==
    ASSUME NEW c \in Seq(AnyCandles), NEW d \in Seq(AnyCandles), NEW p \in Int, TurnsOver(d, c, p)
    PROVE  TurnsOver(Complete(d), Complete(c), p)
  <1>1. PICK L \in Nat : L = Len(c) /\ L = Len(d)
    BY DEF TurnsOver
  <1>2. PICK f : IsFiltered(f, c, L) /\ Complete(c) = f[L]
    BY <1>1, CompleteFilters
  <1>3. PICK g : IsFiltered(g, d, L) /\ Complete(d) = g[L]
    BY <1>1, CompleteFilters
  <1> DEFINE S == {n \in 0 .. L : /\ f[n] \in Seq(AnyCandles) /\ g[n] \in Seq(AnyCandles)
                                  /\ TurnsOver(g[n], f[n], p)}
  <1>4. 0 \in S
    <2>1. PICK e : e = <<>>
      OBVIOUS
    <2>2. e \in Seq(AnyCandles) /\ TurnsOver(e, e, p)
      BY <2>1 DEF TurnsOver
    <2>3. f[0] = e /\ g[0] = e
      BY <1>2, <1>3, <2>1, FilterTurns
    <2>4. 0 \in 0 .. L
      OBVIOUS
    <2>5. QED
      BY <2>2, <2>3, <2>4
  <1>5. ASSUME NEW n \in 0 .. L, n \in S, n < L PROVE n + 1 \in S
    <2>1. PICK b \in AnyCandles, t \in AnyCandles : b = c[n + 1] /\ t = d[n + 1]
      <3>1. n + 1 \in 1 .. L
        BY <1>5
      <3>2. \A i \in 1 .. L : c[i] \in AnyCandles /\ d[i] \in AnyCandles
        <4>1. \A i \in 1 .. Len(c) : c[i] \in AnyCandles
          OBVIOUS
        <4>2. \A i \in 1 .. Len(d) : d[i] \in AnyCandles
          OBVIOUS
        <4>3. QED
          BY <1>1, <4>1, <4>2
      <3>3. QED
        BY <3>1, <3>2
    <2>2. t = Turned(b, p) /\ t.complete = b.complete
      <3>1. t = Turned(b, p)
        BY <1>1, <1>5, <2>1 DEF TurnsOver
      <3>2. QED
        BY <3>1, TurnedIs
    <2>3. f[n + 1] = KeptComplete(f[n], b) /\ g[n + 1] = KeptComplete(g[n], t)
      BY <1>2, <1>3, <1>5, <2>1, FilterTurns
    <2>4. PICK s \in Seq(AnyCandles), r \in Seq(AnyCandles) : s = f[n] /\ r = g[n] /\ TurnsOver(r, s, p)
      BY <1>5
    <2>5. /\ Append(s, b) \in Seq(AnyCandles) /\ Append(r, t) \in Seq(AnyCandles)
          /\ Len(Append(s, b)) = Len(s) + 1 /\ Len(Append(r, t)) = Len(r) + 1
          /\ \A i \in 1 .. Len(s) + 1 : Append(s, b)[i] = IF i = Len(s) + 1 THEN b ELSE s[i]
          /\ \A i \in 1 .. Len(r) + 1 : Append(r, t)[i] = IF i = Len(r) + 1 THEN t ELSE r[i]
      BY LongerList
    <2>6. Len(r) = Len(s) /\ \A i \in 1 .. Len(s) : r[i] = Turned(s[i], p)
      BY <2>4 DEF TurnsOver
    <2>7. TurnsOver(Append(r, t), Append(s, b), p)
      <3>1. \A i \in 1 .. Len(s) + 1 : i = Len(s) + 1 \/ i \in 1 .. Len(s)
        OBVIOUS
      <3>2. \A i \in 1 .. Len(s) + 1 : Append(r, t)[i] = Turned(Append(s, b)[i], p)
        BY <2>2, <2>5, <2>6, <3>1
      <3>3. QED
        BY <2>5, <2>6, <3>2 DEF TurnsOver
    <2>8. n + 1 \in 0 .. L
      BY <1>5
    <2>9. CASE b.complete
      <3>1. f[n + 1] = Append(s, b) /\ g[n + 1] = Append(r, t)
        BY <2>2, <2>3, <2>4, <2>9 DEF KeptComplete
      <3>2. QED
        BY <2>5, <2>7, <2>8, <3>1
    <2>10. CASE ~b.complete
      <3>1. f[n + 1] = s /\ g[n + 1] = r
        BY <2>2, <2>3, <2>4, <2>10 DEF KeptComplete
      <3>2. QED
        BY <2>4, <2>8, <3>1
    <2>11. QED
      BY <2>9, <2>10
  <1>6. 0 .. L \subseteq S
    <2> HIDE DEF S
    <2>1. QED
      BY <1>4, <1>5, CountingTo
  <1>7. L \in S
    BY <1>6
  <1>8. QED
    BY <1>2, <1>3, <1>7

\* The candles a sweep is compared with.
LEMMA BeforeIs ==
    ASSUME NEW c \in Seq(AnyCandles), Len(c) > Lookback
    PROVE  /\ IsFiniteSet(Before(c)) /\ Before(c) # {} /\ Before(c) \subseteq AnyCandles
           /\ Len(c) \in 1 .. Len(c) /\ c[Len(c)] \in AnyCandles
           /\ Len(c) - Lookback .. Len(c) - 1 \subseteq 1 .. Len(c)
  <1>1. PICK n, k : n \in Nat /\ k \in Nat \ {0} /\ n = Len(c) /\ k = Lookback /\ n > k
    BY IndicatorAssumption
  <1> DEFINE I == n - k .. n - 1
  <1>2. I \subseteq 1 .. n /\ n - 1 \in I /\ n \in 1 .. n
    BY <1>1
  <1>3. Before(c) = {c[i] : i \in I}
    BY <1>1 DEF Before
  <1>4. IsFiniteSet(I)
    BY <1>1, FS_Interval
  <1>5. IsFiniteSet({c[i] : i \in I})
    <2> HIDE DEF I
    <2>1. QED
      BY <1>4, ImageFinite
  <1>6. \A i \in 1 .. n : c[i] \in AnyCandles
    BY <1>1
  <1>7. Before(c) # {} /\ Before(c) \subseteq AnyCandles
    BY <1>2, <1>3, <1>6
  <1>8. QED
    BY <1>1, <1>2, <1>3, <1>5, <1>6, <1>7

LEMMA BeforeTurns ==
    ASSUME NEW c \in Seq(AnyCandles), NEW d \in Seq(AnyCandles), NEW p \in Int, TurnsOver(d, c, p),
           Len(c) > Lookback
    PROVE  /\ Before(d) = {Turned(b, p) : b \in Before(c)}
           /\ Max({b.high : b \in Before(d)}) = 2 * p - Min({b.low : b \in Before(c)})
           /\ Min({b.low : b \in Before(d)}) = 2 * p - Max({b.high : b \in Before(c)})
  <1>1. /\ IsFiniteSet(Before(c)) /\ Before(c) # {} /\ Before(c) \subseteq AnyCandles
        /\ Len(c) - Lookback .. Len(c) - 1 \subseteq 1 .. Len(c)
    BY BeforeIs
  <1>2. Before(d) = {Turned(b, p) : b \in Before(c)}
    <2>1. Len(d) = Len(c) /\ \A i \in 1 .. Len(c) : d[i] = Turned(c[i], p)
      BY DEF TurnsOver
    <2>2. Before(d) = {Turned(c[i], p) : i \in Len(c) - Lookback .. Len(c) - 1}
      BY <1>1, <2>1 DEF Before
    <2>3. QED
      BY <2>2 DEF Before
  <1>3. \A b \in Before(c) : /\ Turned(b, p).high = 2 * p - b.low /\ Turned(b, p).low = 2 * p - b.high
                             /\ b.low \in Int /\ b.high \in Int
    BY <1>1, TurnedIs DEF AnyCandles
  <1> DEFINE Lows == {b.low : b \in Before(c)}
             Highs == {b.high : b \in Before(c)}
             HighsBack == {b.high : b \in Before(d)}
             LowsBack == {b.low : b \in Before(d)}
  <1>4. HighsBack = {2 * p - x : x \in Lows} /\ LowsBack = {2 * p - x : x \in Highs}
    <2>1. HighsBack = {Turned(b, p).high : b \in Before(c)}
      BY <1>2
    <2>2. LowsBack = {Turned(b, p).low : b \in Before(c)}
      BY <1>2
    <2>3. HighsBack = {2 * p - b.low : b \in Before(c)}
      BY <1>3, <2>1
    <2>4. LowsBack = {2 * p - b.high : b \in Before(c)}
      BY <1>3, <2>2
    <2>5. {2 * p - x : x \in Lows} = {2 * p - b.low : b \in Before(c)}
      OBVIOUS
    <2>6. {2 * p - x : x \in Highs} = {2 * p - b.high : b \in Before(c)}
      OBVIOUS
    <2>7. QED
      BY <2>3, <2>4, <2>5, <2>6
  <1>5. /\ IsFiniteSet(Lows) /\ Lows # {} /\ Lows \subseteq Int
        /\ IsFiniteSet(Highs) /\ Highs # {} /\ Highs \subseteq Int
    <2>1. IsFiniteSet(Lows) /\ IsFiniteSet(Highs)
      <3>1. PICK lo, hi : /\ lo = [b \in Before(c) |-> b.low] /\ hi = [b \in Before(c) |-> b.high]
        OBVIOUS
      <3>2. Lows = {lo[b] : b \in Before(c)} /\ Highs = {hi[b] : b \in Before(c)}
        BY <3>1
      <3> HIDE DEF Lows, Highs
      <3>3. QED
        BY <1>1, <3>2, ImageFinite
    <2>2. QED
      BY <1>1, <1>3, <2>1
  <1>6. PICK k \in Int : k = 2 * p
    OBVIOUS
  <1>7. Max(HighsBack) = k - Min(Lows)
    <2> HIDE DEF Lows, Highs, HighsBack, LowsBack
    <2>1. QED
      BY <1>4, <1>5, <1>6, TurnedExtremes
  <1>8. Min(LowsBack) = k - Max(Highs)
    <2> HIDE DEF Lows, Highs, HighsBack, LowsBack
    <2>1. QED
      BY <1>4, <1>5, <1>6, TurnedExtremes
  <1>9. QED
    BY <1>2, <1>6, <1>7, <1>8

\* The extremes of the candles before are among their prices.
LEMMA ExtremesAre ==
    ASSUME NEW c \in Seq(AnyCandles), Len(c) > Lookback
    PROVE  /\ Max({b.high : b \in Before(c)}) \in Int /\ Min({b.low : b \in Before(c)}) \in Int
           /\ \A b \in Before(c) : /\ b.low \in Int /\ b.high \in Int
                                   /\ Max({a.high : a \in Before(c)}) >= b.high
                                   /\ Min({a.low : a \in Before(c)}) <= b.low
  <1>1. IsFiniteSet(Before(c)) /\ Before(c) # {} /\ Before(c) \subseteq AnyCandles
    BY BeforeIs
  <1> DEFINE Lows == {b.low : b \in Before(c)}
             Highs == {b.high : b \in Before(c)}
  <1>2. \A b \in Before(c) : b.low \in Int /\ b.high \in Int /\ b.low \in Lows /\ b.high \in Highs
    BY <1>1 DEF AnyCandles
  <1>3. /\ IsFiniteSet(Lows) /\ Lows # {} /\ Lows \subseteq Int
        /\ IsFiniteSet(Highs) /\ Highs # {} /\ Highs \subseteq Int
    <2>1. IsFiniteSet(Lows) /\ IsFiniteSet(Highs)
      <3>1. PICK lo, hi : /\ lo = [b \in Before(c) |-> b.low] /\ hi = [b \in Before(c) |-> b.high]
        OBVIOUS
      <3>2. Lows = {lo[b] : b \in Before(c)} /\ Highs = {hi[b] : b \in Before(c)}
        BY <3>1
      <3> HIDE DEF Lows, Highs
      <3>3. QED
        BY <1>1, <3>2, ImageFinite
    <2>2. QED
      BY <1>1, <1>2, <2>1
  <1>4. Max(Highs) \in Int /\ \A y \in Highs : Max(Highs) >= y
    <2> HIDE DEF Lows, Highs
    <2>1. QED
      BY <1>3, LargestExists
  <1>5. Min(Lows) \in Int /\ \A y \in Lows : Min(Lows) <= y
    <2> HIDE DEF Lows, Highs
    <2>1. PICK k \in Int : k = 0
      OBVIOUS
    <2>2. PICK T : T = {k - x : x \in Lows}
      OBVIOUS
    <2>3. Min(Lows) \in Lows /\ \A y \in Lows : Min(Lows) <= y
      BY <1>3, <2>2, TurnedExtremes
    <2>4. QED
      BY <1>3, <2>3
  <1>6. QED
    BY <1>2, <1>4, <1>5

\* The reading of a sweep, from the last candle and the extremes before it.
SweepRead(o, h, l, x, top, low) ==
    IF l < low /\ x > low THEN 8
    ELSE IF h > top /\ x < top THEN -8
    ELSE IF h > top /\ x <= o THEN -5
    ELSE IF l < low /\ x >= o THEN 5 ELSE 0

LEMMA SweepReadTurns ==
    ASSUME NEW o \in Int, NEW h \in Int, NEW l \in Int, NEW x \in Int, NEW top \in Int, NEW low \in Int,
           NEW k \in Int
    PROVE  \/ SweepRead(k - o, k - l, k - h, k - x, k - low, k - top) = -SweepRead(o, h, l, x, top, low)
           \/ /\ l < low /\ h > top
              /\ SweepRead(k - o, k - l, k - h, k - x, k - low, k - top) = SweepRead(o, h, l, x, top, low)
  <1>1. /\ (k - h < k - top <=> h > top) /\ (k - x > k - top <=> x < top)
        /\ (k - l > k - low <=> l < low) /\ (k - x < k - low <=> x > low)
        /\ (k - x <= k - o <=> x >= o) /\ (k - x >= k - o <=> x <= o)
    OBVIOUS
  <1>2. SweepRead(k - o, k - l, k - h, k - x, k - low, k - top)
          = IF h > top /\ x < top THEN 8
            ELSE IF l < low /\ x > low THEN -8
            ELSE IF l < low /\ x >= o THEN -5
            ELSE IF h > top /\ x <= o THEN 5 ELSE 0
    BY <1>1 DEF SweepRead
  <1>3. x <= o \/ x >= o
    OBVIOUS
  <1>4. QED
    BY <1>2, <1>3 DEF SweepRead

LEMMA SweepIs ==
    ASSUME NEW c \in Seq(AnyCandles), Len(Complete(c)) > Lookback
    PROVE  /\ SweepScore(c) # Unavailable
           /\ LET s == Complete(c)
              IN SweepScore(c) = SweepRead(s[Len(s)].open, s[Len(s)].high, s[Len(s)].low, s[Len(s)].close,
                                           Max({b.high : b \in Before(s)}), Min({b.low : b \in Before(s)}))
  <1>1. PICK n, k : n \in Nat /\ k \in Nat /\ n = Len(Complete(c)) /\ k = Lookback /\ ~(n <= k)
    BY CompleteTyped, IndicatorAssumption
  <1>2. LET s == Complete(c)
        IN SweepScore(c) = SweepRead(s[Len(s)].open, s[Len(s)].high, s[Len(s)].low, s[Len(s)].close,
                                     Max({b.high : b \in Before(s)}), Min({b.low : b \in Before(s)}))
    BY <1>1, Zenon DEF SweepScore, SweepRead
  <1>3. \A o, h, l, x, t, w : SweepRead(o, h, l, x, t, w) # 1000
    BY DEF SweepRead
  <1>4. QED
    BY <1>2, <1>3 DEF Unavailable

\* Without enough candles there is no reading.
LEMMA NoSweep ==
    ASSUME NEW c \in Seq(AnyCandles), SweepScore(c) # Unavailable
    PROVE  Len(Complete(c)) > Lookback /\ Len(Complete(c)) \in Nat
  <1>1. PICK n, k : n \in Nat /\ k \in Nat /\ n = Len(Complete(c)) /\ k = Lookback
    BY CompleteTyped, IndicatorAssumption
  <1>2. ~(n <= k)
    BY <1>1 DEF SweepScore
  <1>3. QED
    BY <1>1, <1>2

LEMMA SweepTurns ==
    ASSUME NEW c \in Seq(AnyCandles), NEW d \in Seq(AnyCandles), NEW p \in Int, TurnsOver(d, c, p),
           SweepScore(c) # Unavailable
    PROVE  LET done == Complete(c)
               last == done[Len(done)]
           IN \/ SweepScore(d) = -SweepScore(c)
              \/ /\ \A b \in Before(done) : last.low < b.low /\ last.high > b.high
                 /\ SweepScore(d) = SweepScore(c)
  <1>1. PICK s \in Seq(AnyCandles), r \in Seq(AnyCandles) : s = Complete(c) /\ r = Complete(d)
    BY CompleteTyped
  <1>2. Len(s) > Lookback /\ TurnsOver(r, s, p) /\ Len(r) = Len(s)
    BY <1>1, NoSweep, CompleteTurns DEF TurnsOver
  <1>3. PICK last \in AnyCandles : last = s[Len(s)] /\ r[Len(r)] = Turned(last, p)
    BY <1>2, BeforeIs DEF TurnsOver
  <1>4. PICK top \in Int, low \in Int : top = Max({b.high : b \in Before(s)}) /\ low = Min({b.low : b \in Before(s)})
    BY <1>2, ExtremesAre
  <1>5. PICK k \in Int : k = 2 * p
    OBVIOUS
  <1>6. Max({b.high : b \in Before(r)}) = k - low /\ Min({b.low : b \in Before(r)}) = k - top
    BY <1>2, <1>4, <1>5, BeforeTurns
  <1>7. PICK o \in Int, h \in Int, l \in Int, x \in Int :
            o = last.open /\ h = last.high /\ l = last.low /\ x = last.close
    BY DEF AnyCandles
  <1>8. SweepScore(c) = SweepRead(o, h, l, x, top, low)
    BY <1>1, <1>2, <1>3, <1>4, <1>7, SweepIs
  <1>9. SweepScore(d) = SweepRead(k - o, k - l, k - h, k - x, k - low, k - top)
    <2>1. /\ r[Len(r)].open = k - o /\ r[Len(r)].close = k - x
          /\ r[Len(r)].high = k - l /\ r[Len(r)].low = k - h
      <3>1. PICK t : t = Turned(last, p)
        OBVIOUS
      <3>2. t.open = 2 * p - o /\ t.close = 2 * p - x /\ t.high = 2 * p - l /\ t.low = 2 * p - h
        BY <1>7, <3>1, TurnedIs
      <3>3. r[Len(r)] = t
        BY <1>3, <3>1
      <3>4. QED
        BY <1>5, <3>2, <3>3
    <2>2. Len(Complete(d)) > Lookback
      BY <1>1, <1>2
    <2>3. SweepScore(d) = SweepRead(r[Len(r)].open, r[Len(r)].high, r[Len(r)].low, r[Len(r)].close,
                                    Max({b.high : b \in Before(r)}), Min({b.low : b \in Before(r)}))
      BY <1>1, <2>2, SweepIs
    <2>4. QED
      BY <1>6, <2>1, <2>3
  <1>10. (l < low /\ h > top) => \A b \in Before(s) : last.low < b.low /\ last.high > b.high
    <2>1. \A b \in Before(s) : b.low \in Int /\ b.high \in Int /\ top >= b.high /\ low <= b.low
      BY <1>2, <1>4, ExtremesAre
    <2>2. QED
      BY <1>7, <2>1
  <1>11. \/ SweepScore(d) = -SweepScore(c)
         \/ (l < low /\ h > top) /\ SweepScore(d) = SweepScore(c)
    BY <1>8, <1>9, SweepReadTurns
  <1>12. QED
    BY <1>1, <1>3, <1>10, <1>11

\* What was traded in the candles from one on.
LEMMA VolumeIs ==
    ASSUME NEW c \in Seq(AnyCandles), NEW from \in Nat \ {0}
    PROVE  /\ VolumeOf(c, from) \in Nat
           /\ \A i \in from .. Len(c) : c[i].volume <= VolumeOf(c, from)
           /\ (from \in 1 .. Len(c) /\ VolumeOf(c, from) # 0) =>
                 \E i \in from .. Len(c) : c[i].volume > 0
  <1>1. PICK n, D : n \in Nat /\ n = Len(c) /\ D = from .. n /\ D \subseteq 1 .. n /\ D = from .. Len(c)
    OBVIOUS
  <1>2. PICK f : f = [i \in D |-> c[i].volume]
    OBVIOUS
  <1>3. \A i \in 1 .. n : c[i] \in AnyCandles
    BY <1>1
  <1>4. f \in [D -> Nat] /\ f \in [D -> Int]
    BY <1>1, <1>2, <1>3 DEF AnyCandles
  <1>5. IsFiniteSet(D)
    BY <1>1, FS_Interval
  <1>6. VolumeOf(c, from) = SumFunction(f)
    BY <1>1, <1>2 DEF VolumeOf
  <1>7. SumFunction(f) \in Nat
    BY <1>4, <1>5, SumIsNatural DEF Summable
  <1>8. \A i \in D : f[i] <= SumFunction(f)
    BY <1>4, <1>5, TermBelowSum
  <1>9. SumFunction(f) # 0 => \E i \in D : f[i] # 0
    BY <1>4, <1>5, SumZeros DEF Summable
  <1>10. \A i \in D : f[i] = c[i].volume /\ (f[i] # 0 => f[i] > 0)
    BY <1>2, <1>4
  <1>11. QED
    BY <1>1, <1>6, <1>7, <1>8, <1>9, <1>10

LEMMA VolumeTurns ==
    ASSUME NEW c \in Seq(AnyCandles), NEW d \in Seq(AnyCandles), NEW p \in Int, TurnsOver(d, c, p),
           NEW from \in Nat \ {0}
    PROVE  VolumeOf(d, from) = VolumeOf(c, from)
  <1>1. Len(d) = Len(c) /\ Len(c) \in Nat /\ \A i \in 1 .. Len(c) : d[i] = Turned(c[i], p)
    BY DEF TurnsOver
  <1>2. \A i \in from .. Len(c) : i \in 1 .. Len(c)
    BY <1>1
  <1>3. \A i \in from .. Len(c) : d[i].volume = c[i].volume
    <2>1. \A i \in 1 .. Len(c) : c[i] \in AnyCandles
      OBVIOUS
    <2>2. \A b \in AnyCandles : Turned(b, p).volume = b.volume
      BY TurnedIs
    <2>3. QED
      BY <1>1, <1>2, <2>1, <2>2
  <1>4. QED
    BY <1>1, <1>3 DEF VolumeOf

\* The reading of a volume, from the last candle and the volume before it.
VolumeRead(v, past, o, x) ==
    LET over == v * Lookback - past
        size == Lesser(100, (over * 200) \div (3 * past))
    IN IF past = 0 THEN Unavailable
       ELSE IF over < 0 \/ x = o THEN 0
       ELSE IF x > o THEN size ELSE -size

\* Two prices turned over at half of k.
Facing(t, y, o, x, k) == t = k - o /\ y = k - x

\* The one reading is the negation of the other.
ReadsBack(v, past, o, x, t, y) ==
    \E z \in Int : VolumeRead(v, past, o, x) = z /\ VolumeRead(v, past, t, y) = -z

LEMMA VolumeReadTurns ==
    ASSUME NEW v \in Nat, NEW past \in Nat, NEW o \in Int, NEW x \in Int,
           NEW k \in Int, NEW t \in Int, NEW y \in Int, Facing(t, y, o, x, k),
           VolumeRead(v, past, o, x) # Unavailable
    PROVE  ReadsBack(v, past, o, x, t, y)
  <1>1. PICK over \in Int : over = v * Lookback - past
    BY IndicatorAssumption
  <1>2. past # 0
    BY DEF VolumeRead
  <1>3. PICK s \in Int : s = Lesser(100, (over * 200) \div (3 * past))
    <2>1. PICK a \in Int, b \in Nat \ {0} : a = over * 200 /\ b = 3 * past
      BY <1>2
    <2>2. a \div b \in Int
      BY <2>1
    <2>3. QED
      BY <2>1, <2>2 DEF Lesser
  <1>4. VolumeRead(v, past, o, x) = IF over < 0 \/ x = o THEN 0 ELSE IF x > o THEN s ELSE -s
    BY <1>1, <1>2, <1>3, Zenon DEF VolumeRead
  <1>5. VolumeRead(v, past, t, y) = IF over < 0 \/ y = t THEN 0 ELSE IF y > t THEN s ELSE -s
    BY <1>1, <1>2, <1>3, Zenon DEF VolumeRead
  <1>6. (y = t <=> x = o) /\ (y > t <=> o > x) /\ (x = o \/ (x > o /\ ~(o > x)) \/ (o > x /\ ~(x > o)))
    BY DEF Facing
  <1>7. \E z \in Int : VolumeRead(v, past, o, x) = z /\ VolumeRead(v, past, t, y) = -z
    BY <1>4, <1>5, <1>6
  <1>8. QED
    BY <1>7 DEF ReadsBack

LEMMA NoVolume ==
    ASSUME NEW c \in Seq(AnyCandles), VolumeScore(c) # Unavailable
    PROVE  Len(Complete(c)) > Lookback /\ Len(Complete(c)) \in Nat
  <1>1. PICK n, k : n \in Nat /\ k \in Nat /\ n = Len(Complete(c)) /\ k = Lookback
    BY CompleteTyped, IndicatorAssumption
  <1>2. ~(n <= k)
    BY <1>1 DEF VolumeScore
  <1>3. QED
    BY <1>1, <1>2

LEMMA VolumeScoreIs ==
    ASSUME NEW c \in Seq(AnyCandles), Len(Complete(c)) > Lookback
    PROVE  LET s == Complete(c)
           IN VolumeScore(c) = VolumeRead(s[Len(s)].volume,
                                          VolumeOf(s, Len(s) - Lookback) - s[Len(s)].volume,
                                          s[Len(s)].open, s[Len(s)].close)
  <1>1. PICK n, k : n \in Nat /\ k \in Nat /\ n = Len(Complete(c)) /\ k = Lookback /\ ~(n <= k)
    BY CompleteTyped, IndicatorAssumption
  <1>2. QED
    BY <1>1, Zenon DEF VolumeScore, VolumeRead

LEMMA VolumeScoreTurns ==
    ASSUME NEW c \in Seq(AnyCandles), NEW d \in Seq(AnyCandles), NEW p \in Int, TurnsOver(d, c, p),
           VolumeScore(c) # Unavailable
    PROVE  VolumeScore(d) = -VolumeScore(c)
  <1>1. PICK s \in Seq(AnyCandles), r \in Seq(AnyCandles) : s = Complete(c) /\ r = Complete(d)
    BY CompleteTyped
  <1>2. Len(s) > Lookback /\ TurnsOver(r, s, p) /\ Len(r) = Len(s)
    BY <1>1, NoVolume, CompleteTurns DEF TurnsOver
  <1>3. PICK last \in AnyCandles, back \in {r[Len(r)]} :
            last = s[Len(s)] /\ back = r[Len(r)] /\ back = Turned(last, p) /\ Len(s) \in 1 .. Len(s)
    BY <1>2, BeforeIs DEF TurnsOver
  <1>4. PICK o \in Int, x \in Int, v \in Nat : o = last.open /\ x = last.close /\ v = last.volume
    BY DEF AnyCandles
  <1>5. back.open = 2 * p - o /\ back.close = 2 * p - x /\ back.volume = v
    <2>1. PICK t : t = Turned(last, p)
      OBVIOUS
    <2>2. t.open = 2 * p - o /\ t.close = 2 * p - x /\ t.volume = v
      BY <1>4, <2>1, TurnedIs
    <2>3. QED
      BY <1>3, <2>1, <2>2
  <1>6. PICK from \in Nat \ {0} : from = Len(s) - Lookback /\ Len(s) \in from .. Len(s)
    <2>1. PICK n \in Nat, g \in Nat \ {0} : n = Len(s) /\ g = Lookback /\ n > g
      BY <1>2, IndicatorAssumption
    <2>2. n - g \in Nat \ {0} /\ n \in (n - g) .. n
      BY <2>1
    <2>3. QED
      BY <2>1, <2>2
  <1>7. PICK past \in Nat : past = VolumeOf(s, from) - v
    <2>1. VolumeOf(s, from) \in Nat /\ v <= VolumeOf(s, from)
      BY <1>3, <1>4, <1>6, VolumeIs
    <2>2. QED
      BY <2>1
  <1>8. VolumeOf(r, from) = VolumeOf(s, from)
    BY <1>2, VolumeTurns
  <1>9. VolumeScore(c) = VolumeRead(v, past, o, x)
    BY <1>1, <1>2, <1>3, <1>4, <1>6, <1>7, VolumeScoreIs
  <1>10. PICK k \in Int, t \in Int, y \in Int : t = k - o /\ y = k - x /\ k = 2 * p
    <2>1. PICK k \in Int : k = 2 * p
      OBVIOUS
    <2>2. k - o \in Int /\ k - x \in Int
      OBVIOUS
    <2>3. QED
      BY <2>1, <2>2
  <1>11. VolumeScore(d) = VolumeRead(v, past, t, y)
    BY <1>1, <1>2, <1>3, <1>5, <1>6, <1>7, <1>8, <1>10, VolumeScoreIs
  <1>12. ReadsBack(v, past, o, x, t, y)
    <2>1. VolumeRead(v, past, o, x) # Unavailable
      BY <1>9
    <2>2. Facing(t, y, o, x, k)
      BY <1>10 DEF Facing
    <2>3. QED
      BY <2>1, <2>2, VolumeReadTurns
  <1>13. QED
    BY <1>9, <1>11, <1>12 DEF ReadsBack

\* A chart is a list of candles.
LEMMA ChartsAreAny ==
    ASSUME NEW c \in Seq(ChartCandles)
    PROVE  c \in Seq(AnyCandles)
  <1>1. ChartCandles \subseteq AnyCandles
    BY DEF ChartCandles, AnyCandles
  <1>2. QED
    BY <1>1

\* What was traded, at three times its typical price.
LEMMA TurnoverIs ==
    ASSUME NEW c \in Seq(ChartCandles)
    PROVE  /\ TurnoverOf(c) \in Nat
           /\ \A i \in 1 .. Len(c) : c[i].volume > 0 => TurnoverOf(c) > 0
  <1>1. PICK n, D : n \in Nat /\ n = Len(c) /\ D = 1 .. n /\ D = DOMAIN c
    OBVIOUS
  <1>2. PICK f : f = [i \in D |-> (c[i].high + c[i].low + c[i].close) * c[i].volume]
    OBVIOUS
  <1>3. ASSUME NEW i \in D PROVE f[i] \in Nat /\ (c[i].volume > 0 => f[i] > 0)
    <2>1. PICK b \in ChartCandles : b = c[i]
      BY <1>1
    <2>2. PICK t \in Nat \ {0}, v \in Nat : t = c[i].high + c[i].low + c[i].close /\ v = c[i].volume
      <3>1. b.high \in Nat \ {0} /\ b.low \in Nat \ {0} /\ b.close \in Nat \ {0} /\ b.volume \in Nat
        BY DEF ChartCandles
      <3>2. b.high + b.low + b.close \in Nat \ {0}
        BY <3>1
      <3>3. QED
        BY <2>1, <3>1, <3>2
    <2>3. f[i] = t * v
      BY <1>2, <2>2
    <2>4. t * v \in Nat
      BY <2>2
    <2>5. v > 0 => t * v > 0
      <3>1. ASSUME v > 0 PROVE t * v >= 1 * v
        OBVIOUS
      <3>2. QED
        BY <2>4, <3>1
    <2>6. QED
      BY <2>2, <2>3, <2>4, <2>5
  <1>4. f \in [D -> Nat] /\ f \in [D -> Int]
    BY <1>2, <1>3
  <1>5. IsFiniteSet(D)
    BY <1>1, FS_Interval
  <1>6. TurnoverOf(c) = SumFunction(f)
    BY <1>1, <1>2 DEF TurnoverOf
  <1>7. SumFunction(f) \in Nat
    BY <1>4, <1>5, SumIsNatural DEF Summable
  <1>8. \A i \in D : f[i] <= SumFunction(f)
    BY <1>4, <1>5, TermBelowSum
  <1>9. ASSUME NEW i \in D, c[i].volume > 0 PROVE SumFunction(f) > 0
    <2>1. f[i] > 0 /\ f[i] \in Nat /\ f[i] <= SumFunction(f)
      BY <1>3, <1>8, <1>9
    <2>2. QED
      BY <1>7, <2>1
  <1>10. QED
    BY <1>1, <1>6, <1>7, <1>9

\* The pressure read from what is off the VWAP, the turnover and the volume of the last candle.
PressureRead(off, turnover, v, recent) ==
    LET far   == (AbsScore(off) * 10000) \div turnover
        ratio == IF recent = 0 THEN 0 ELSE (50 * v * VwapPeriod) \div recent
        boost == IF ratio < 25 THEN 25 ELSE Lesser(100, ratio)
        size  == (Lesser(100, far) * boost) \div 100
    IN IF far < 5 THEN 0 ELSE IF off > 0 THEN size ELSE -size

LEMMA PressureSide ==
    ASSUME NEW off \in Int, NEW turnover \in Nat \ {0}, NEW v \in Nat, NEW recent \in Nat,
           PressureRead(off, turnover, v, recent) # 0
    PROVE  PressureRead(off, turnover, v, recent) > 0 <=> off > 0
  <1>1. PICK far \in Nat : far = (AbsScore(off) * 10000) \div turnover
    <2>1. PICK a \in Int : a = AbsScore(off) * 10000 /\ a >= 0
      BY DEF AbsScore
    <2>2. PICK q \in Int : q = a \div turnover /\ (a >= 0 => q \in Nat)
      BY Divides
    <2>3. QED
      BY <2>1, <2>2
  <1>2. PICK ratio \in Nat : ratio = IF recent = 0 THEN 0 ELSE (50 * v * VwapPeriod) \div recent
    <2>1. CASE recent = 0
      BY <2>1
    <2>2. CASE recent # 0
      <3>1. PICK a \in Int, b \in Nat \ {0} : a = 50 * v * VwapPeriod /\ a >= 0 /\ b = recent
        <4>1. 50 * v \in Nat /\ VwapPeriod \in Nat
          BY IndicatorAssumption
        <4>2. (50 * v) * VwapPeriod \in Nat
          BY <4>1
        <4>3. QED
          BY <2>2, <4>2
      <3>2. PICK q \in Int : q = a \div b /\ (a >= 0 => q \in Nat)
        BY Divides
      <3>3. QED
        BY <2>2, <3>1, <3>2
    <2>3. QED
      BY <2>1, <2>2
  <1>3. PICK boost \in Nat : boost = (IF ratio < 25 THEN 25 ELSE Lesser(100, ratio)) /\ boost >= 25
    BY DEF Lesser
  <1>4. PICK near \in Nat : near = Lesser(100, far) /\ (far >= 5 => near >= 5)
    BY DEF Lesser
  <1>5. PICK size \in Int : size = (near * boost) \div 100 /\ (far >= 5 => size > 0)
    <2>1. PICK a \in Int, b \in Nat \ {0} : a = near * boost /\ a >= 0 /\ b = 100
      <3>1. near * boost \in Nat
        OBVIOUS
      <3>2. QED
        BY <3>1
    <2>2. PICK q \in Int : q = a \div b /\ a < b * q + b /\ (a >= 0 => q \in Nat)
      BY Divides
    <2>3. far >= 5 => a >= 125
      <3>1. ASSUME near >= 5 PROVE near * boost >= 5 * boost
        BY <3>1
      <3>2. QED
        BY <1>3, <1>4, <2>1, <3>1
    <2>4. far >= 5 => q > 0
      BY <2>1, <2>2, <2>3
    <2>5. QED
      BY <2>1, <2>2, <2>4
  <1>6. PressureRead(off, turnover, v, recent) = IF far < 5 THEN 0 ELSE IF off > 0 THEN size ELSE -size
    BY <1>1, <1>2, <1>3, <1>4, <1>5 DEF PressureRead
  <1>7. far >= 5
    BY <1>6
  <1>8. QED
    BY <1>5, <1>6, <1>7

LEMMA VwapSide ==
    ASSUME NEW c, Complete(c) \in Seq(ChartCandles), VwapScore(c) \notin {0, Unavailable}
    PROVE  LET done == Complete(c)
               last == done[Len(done)]
           IN VwapScore(c) > 0 <=> 3 * last.close * VolumeOf(done, 1) > TurnoverOf(done)
  <1>1. PICK s \in Seq(ChartCandles), n \in Nat, k \in Nat \ {0} :
            s = Complete(c) /\ n = Len(s) /\ k = VwapPeriod
    BY IndicatorAssumption
  <1>2. s \in Seq(AnyCandles)
    BY ChartsAreAny
  <1>3. ~(n < k) /\ VolumeOf(s, 1) # 0
    BY <1>1 DEF VwapScore
  <1>4. n - k + 1 \in Nat \ {0} /\ 1 \in 1 .. n /\ n \in 1 .. n
    BY <1>3
  <1>5. PICK recent \in Nat, all \in Nat \ {0} : recent = VolumeOf(s, n - k + 1) /\ all = VolumeOf(s, 1)
    <2>1. 1 \in Nat \ {0}
      OBVIOUS
    <2>2. QED
      BY <1>2, <1>3, <1>4, <2>1, VolumeIs
  <1>6. PICK turnover \in Nat \ {0} : turnover = TurnoverOf(s)
    <2>1. \E i \in 1 .. n : s[i].volume > 0
      <3>1. 1 \in Nat \ {0} /\ 1 \in 1 .. Len(s)
        BY <1>1, <1>4
      <3>2. (1 \in 1 .. Len(s) /\ VolumeOf(s, 1) # 0) => \E i \in 1 .. Len(s) : s[i].volume > 0
        BY <1>2, <3>1, VolumeIs
      <3>3. QED
        BY <1>1, <1>3, <3>1, <3>2
    <2>2. QED
      BY <1>1, <2>1, TurnoverIs
  <1>7. PICK v \in Nat, x \in Nat : v = s[n].volume /\ x = s[n].close
    <2>1. s[n] \in ChartCandles
      BY <1>1, <1>4
    <2>2. QED
      BY <2>1 DEF ChartCandles
  <1>8. PICK off \in Int, m \in Int : m = 3 * x * all /\ off = m - turnover
    <2>1. PICK y \in Nat : y = 3 * x
      OBVIOUS
    <2>2. PICK m \in Int : m = y * all
      OBVIOUS
    <2>3. m - turnover \in Int
      OBVIOUS
    <2>4. QED
      BY <2>1, <2>2, <2>3
  <1>9. VwapScore(c) = PressureRead(off, turnover, v, recent)
    BY <1>1, <1>3, <1>5, <1>6, <1>7, <1>8 DEF VwapScore, PressureRead
  <1>10. VwapScore(c) > 0 <=> off > 0
    BY <1>9, PressureSide
  <1>11. off > 0 <=> 3 * x * all > turnover
    BY <1>8
  <1>12. QED
    BY <1>1, <1>5, <1>6, <1>7, <1>10, <1>11

\* What is complete of a chart is of its candles.
LEMMA CompleteAmong ==
    ASSUME NEW S, NEW chart \in Seq(S), chart \in Seq(AnyCandles)
    PROVE  Complete(chart) \in Seq(S)
  <1>1. PICK L \in Nat : L = Len(chart)
    OBVIOUS
  <1>2. PICK f : IsFiltered(f, chart, L) /\ Complete(chart) = f[L]
    BY <1>1, CompleteFilters
  <1> DEFINE N == {n \in 0 .. L : f[n] \in Seq(S)}
  <1>3. 0 \in N
    <2>1. PICK e : e = <<>>
      OBVIOUS
    <2>2. e \in Seq(S)
      BY <2>1
    <2>3. f[0] = e
      BY <1>2, <2>1, FilterTurns
    <2>4. QED
      BY <2>2, <2>3
  <1>4. ASSUME NEW n \in 0 .. L, n \in N, n < L PROVE n + 1 \in N
    <2>1. chart[n + 1] \in S /\ n + 1 \in 0 .. L
      BY <1>1, <1>4
    <2>2. f[n + 1] = IF chart[n + 1].complete THEN Append(f[n], chart[n + 1]) ELSE f[n]
      BY <1>2, <1>4, FilterTurns DEF KeptComplete
    <2>3. Append(f[n], chart[n + 1]) \in Seq(S)
      <3>1. PICK s \in Seq(S), b \in S : s = f[n] /\ b = chart[n + 1]
        BY <1>4, <2>1
      <3>2. Append(s, b) \in Seq(S)
        OBVIOUS
      <3>3. QED
        BY <3>1, <3>2
    <2>4. QED
      BY <1>4, <2>1, <2>2, <2>3
  <1>5. 0 .. L \subseteq N
    <2> HIDE DEF N
    <2>1. QED
      BY <1>3, <1>4, CountingTo
  <1>6. QED
    BY <1>2, <1>5

\* The scores of a chart.
IsChartScore(score, c) ==
    /\ score.sweep = SweepScore(c) /\ score.vwap = VwapScore(c) /\ score.volume = VolumeScore(c)

LEMMA ChartRead ==
    ASSUME NEW c \in Seq(ChartCandles), c # <<>>, NEW score, IsChartScore(score, c)
    PROVE  ChartReadsBack(c, score)
  <1>1. c \in Seq(AnyCandles)
    BY ChartsAreAny
  <1>2. PICK n \in Nat \ {0} : n = Len(c) /\ DOMAIN c = 1 .. n
    OBVIOUS
  <1>3. PICK p \in Int : p = c[Len(c)].close
    <2>1. c[n] \in AnyCandles
      BY <1>1, <1>2
    <2>2. QED
      BY <1>2, <2>1 DEF AnyCandles
  <1>4. PICK d : d = [i \in DOMAIN c |-> Turned(c[i], c[Len(c)].close)]
    OBVIOUS
  <1>5. d \in Seq(AnyCandles) /\ TurnsOver(d, c, p)
    <2>1. \A i \in 1 .. n : c[i] \in AnyCandles
      BY <1>1, <1>2
    <2>2. \A i \in 1 .. n : Turned(c[i], p) \in AnyCandles
      BY <2>1, TurnedType
    <2>3. d = [i \in 1 .. n |-> Turned(c[i], p)]
      BY <1>2, <1>3, <1>4
    <2>4. d \in [1 .. n -> AnyCandles]
      BY <2>2, <2>3
    <2>5. d \in Seq(AnyCandles) /\ Len(d) = n
      BY <2>4
    <2>6. \A i \in 1 .. n : d[i] = Turned(c[i], p)
      BY <2>3
    <2>7. QED
      BY <1>2, <2>5, <2>6 DEF TurnsOver
  <1>6. PICK done \in Seq(AnyCandles) : done = Complete(c) /\ done \in Seq(ChartCandles) /\ Complete(done) = done
    <2>1. Complete(c) \in Seq(AnyCandles) /\ Complete(c) \in Seq(ChartCandles)
      BY <1>1, CompleteTyped, CompleteAmong
    <2>2. \A i \in 1 .. Len(Complete(c)) : Complete(c)[i].complete
      BY <1>1, CompleteTyped
    <2>3. Complete(Complete(c)) = Complete(c)
      BY <2>1, <2>2, CompleteOnce
    <2>4. QED
      BY <2>1, <2>3
  <1>7. score.sweep # Unavailable =>
             \/ SweepScore(d) = -score.sweep
             \/ /\ \A b \in Before(done) : done[Len(done)].low < b.low /\ done[Len(done)].high > b.high
                /\ SweepScore(d) = score.sweep
    BY <1>1, <1>5, <1>6, SweepTurns DEF IsChartScore
  <1>8. score.volume # Unavailable => VolumeScore(d) = -score.volume
    BY <1>1, <1>5, VolumeScoreTurns DEF IsChartScore
  <1>9. score.vwap \notin {0, Unavailable} =>
             (score.vwap > 0 <=> 3 * done[Len(done)].close * VolumeOf(done, 1) > TurnoverOf(done))
    BY <1>6, VwapSide DEF IsChartScore
  <1>10. SweepScore(done) = score.sweep
    BY <1>6 DEF SweepScore, IsChartScore
  <1>11. VwapScore(done) = score.vwap
    BY <1>6 DEF VwapScore, IsChartScore
  <1>12. VolumeScore(done) = score.volume
    BY <1>6 DEF VolumeScore, IsChartScore
  <1>13. QED
    BY <1>4, <1>6, <1>7, <1>8, <1>9, <1>10, <1>11, <1>12 DEF ChartReadsBack

\* The reading of a trend, from its averages and the last two candles.
TrendRead(fast, before, slow, atrp, close, rises, falls) ==
    LET apart == Lesser(35, (AbsScore(fast - slow) * 2000) \div close)
    IN IF atrp >= 8 THEN -100
       ELSE IF fast > slow /\ fast > before /\ rises THEN 55 + apart
       ELSE IF fast < slow /\ fast < before /\ falls THEN -55 - apart ELSE 0

\* The reading of a trend and of the trend turned over.
TrendsFace(f, b, s, a, x, up, down, f2, b2, s2) ==
    TrendRead(f2, b2, s2, a, x, down, up)
      = IF a >= 8 THEN TrendRead(f, b, s, a, x, up, down) ELSE -TrendRead(f, b, s, a, x, up, down)

LEMMA TrendReadTurns ==
    ASSUME NEW f \in Int, NEW b \in Int, NEW s \in Int, NEW a \in Int, NEW x \in Nat \ {0},
           NEW up, NEW down, NEW p \in Int,
           NEW f2 \in Int, NEW b2 \in Int, NEW s2 \in Int,
           Facing(f2, b2, f, b, p), Facing(s2, f2, s, f, p)
    PROVE  TrendsFace(f, b, s, a, x, up, down, f2, b2, s2)
  <1>1. /\ f2 - s2 = s - f /\ (f2 > s2 <=> f < s) /\ (f2 < s2 <=> f > s)
        /\ (f2 > b2 <=> f < b) /\ (f2 < b2 <=> f > b)
    BY DEF Facing
  <1>2. PICK g \in Int : g = AbsScore(f - s) /\ g = AbsScore(f2 - s2)
    <2>1. AbsScore(s - f) = AbsScore(f - s) /\ AbsScore(f - s) \in Int
      BY DEF AbsScore
    <2>2. QED
      BY <1>1, <2>1
  <1>3. PICK apart \in Int : apart = Lesser(35, (g * 2000) \div x)
    <2>1. (g * 2000) \div x \in Int
      OBVIOUS
    <2>2. QED
      BY <2>1 DEF Lesser
  <1>4. TrendRead(f, b, s, a, x, up, down)
          = IF a >= 8 THEN -100
            ELSE IF f > s /\ f > b /\ up THEN 55 + apart
            ELSE IF f < s /\ f < b /\ down THEN -55 - apart ELSE 0
    <2>1. Lesser(35, (AbsScore(f - s) * 2000) \div x) = apart
      BY <1>2, <1>3
    <2>2. QED
      BY <2>1 DEF TrendRead
  <1>5. TrendRead(f2, b2, s2, a, x, down, up)
          = IF a >= 8 THEN -100
            ELSE IF f2 > s2 /\ f2 > b2 /\ down THEN 55 + apart
            ELSE IF f2 < s2 /\ f2 < b2 /\ up THEN -55 - apart ELSE 0
    <2>1. Lesser(35, (AbsScore(f2 - s2) * 2000) \div x) = apart
      BY <1>2, <1>3
    <2>2. QED
      BY <2>1 DEF TrendRead
  <1>6. QED
    BY <1>1, <1>4, <1>5 DEF TrendsFace

LEMMA TurnedPrices ==
    ASSUME NEW b \in Prices, NEW p \in Int
    PROVE  /\ Turned(b, p).high = 2 * p - b.low /\ Turned(b, p).low = 2 * p - b.high
           /\ Turned(b, p).close = 2 * p - b.close
  BY DEF Turned, Prices

LEMMA TrendIs ==
    ASSUME NEW r
    PROVE  TrendScore(r) = TrendRead(r.fast, r.before, r.slow, r.atrp, r.last.close,
                                     r.last.high > r.previous.high /\ r.last.low > r.previous.low,
                                     r.last.high < r.previous.high /\ r.last.low < r.previous.low)
  BY DEF TrendScore, TrendRead

LEMMA TrendBack ==
    ASSUME NEW r \in TrendReadings
    PROVE  TrendReadsBack(r, TrendScore(r))
  <1>1. r \in [fast : Int, before : Int, slow : Int, atrp : Int, last : Prices, previous : Prices]
    BY IndicatorAssumption
  <1>2. PICK f \in Int, b \in Int, s \in Int, a \in Int, last \in Prices, old \in Prices :
            /\ f = r.fast /\ b = r.before /\ s = r.slow /\ a = r.atrp
            /\ last = r.last /\ old = r.previous
    BY <1>1
  <1>3. PICK p \in Int, x \in Nat \ {0} : x = last.close /\ p = 2 * x
    <2>1. PICK x \in Nat \ {0} : x = last.close
      BY DEF Prices
    <2>2. 2 * x \in Int
      OBVIOUS
    <2>3. QED
      BY <2>1, <2>2
  <1>4. PICK f2 \in Int, b2 \in Int, s2 \in Int : f2 = p - f /\ b2 = p - b /\ s2 = p - s
    <2>1. p - f \in Int /\ p - b \in Int /\ p - s \in Int
      OBVIOUS
    <2>2. QED
      BY <2>1
  <1>5. PICK lt, ot : lt = Turned(last, x) /\ ot = Turned(old, x)
    OBVIOUS
  <1>6. PICK back : back = [r EXCEPT !.fast = 2 * x - @, !.slow = 2 * x - @, !.before = 2 * x - @,
                                     !.last = Turned(@, x), !.previous = Turned(@, x)]
    OBVIOUS
  <1>7. /\ back.fast = f2 /\ back.before = b2 /\ back.slow = s2 /\ back.atrp = a
        /\ back.last = lt /\ back.previous = ot
    <2>1. back = [r EXCEPT !.fast = f2, !.slow = s2, !.before = b2, !.last = lt, !.previous = ot]
      BY <1>2, <1>3, <1>4, <1>5, <1>6
    <2>2. QED
      BY <1>1, <1>2, <2>1
  <1>8. PICK lh \in Int, ll \in Int, oh \in Int, ol \in Int :
            lh = last.high /\ ll = last.low /\ oh = old.high /\ ol = old.low
    BY DEF Prices
  <1>9. lt.high = p - ll /\ lt.low = p - lh /\ ot.high = p - ol /\ ot.low = p - oh /\ lt.close = x
    <2>1. /\ lt.high = 2 * x - last.low /\ lt.low = 2 * x - last.high
          /\ lt.close = 2 * x - last.close
      BY <1>5, TurnedPrices
    <2>2. ot.high = 2 * x - old.low /\ ot.low = 2 * x - old.high
      BY <1>5, TurnedPrices
    <2>3. QED
      BY <1>3, <1>8, <2>1, <2>2
  <1>10. PICK up \in BOOLEAN, down \in BOOLEAN :
             (up <=> lh > oh /\ ll > ol) /\ (down <=> lh < oh /\ ll < ol)
    <2>1. (lh > oh /\ ll > ol) \in BOOLEAN /\ (lh < oh /\ ll < ol) \in BOOLEAN
      OBVIOUS
    <2>2. QED
      BY <2>1
  <1>11. TrendScore(r) = TrendRead(f, b, s, a, x, up, down)
    <2>1. /\ (r.last.high > r.previous.high /\ r.last.low > r.previous.low) = up
          /\ (r.last.high < r.previous.high /\ r.last.low < r.previous.low) = down
      BY <1>2, <1>8, <1>10
    <2>2. QED
      BY <1>2, <1>3, <2>1, TrendIs
  <1>12. TrendScore(back) = TrendRead(f2, b2, s2, a, x, down, up)
    <2>1. /\ (p - ll > p - ol /\ p - lh > p - oh) <=> (lh < oh /\ ll < ol)
          /\ (p - ll < p - ol /\ p - lh < p - oh) <=> (lh > oh /\ ll > ol)
      OBVIOUS
    <2>2. /\ (back.last.high > back.previous.high /\ back.last.low > back.previous.low) = down
          /\ (back.last.high < back.previous.high /\ back.last.low < back.previous.low) = up
      BY <1>7, <1>9, <1>10, <2>1
    <2>3. QED
      BY <1>7, <1>9, <2>2, TrendIs
  <1>13. Facing(f2, b2, f, b, p) /\ Facing(s2, f2, s, f, p)
    BY <1>4 DEF Facing
  <1>14. TrendScore(back) = IF a >= 8 THEN TrendScore(r) ELSE -TrendScore(r)
    <2>1. TrendsFace(f, b, s, a, x, up, down, f2, b2, s2)
      BY <1>13, TrendReadTurns, Zenon
    <2>2. QED
      BY <1>11, <1>12, <2>1 DEF TrendsFace
  <1>15. QED
    BY <1>2, <1>3, <1>6, <1>14 DEF TrendReadsBack

\* The last gauge is the score of what it measured.
GaugeOK ==
    gauge # <<>> =>
        \/ gauge.kind = "breadth" /\ gauge.of \in Snapshots /\ gauge.score = BreadthScore(gauge.of)
        \/ gauge.kind = "depth" /\ gauge.of \in OrderBooks /\ gauge.score = PressureScore(gauge.of)
        \/ gauge.kind = "chart" /\ gauge.of \in Charts /\ IsChartScore(gauge.score, gauge.of)
        \/ gauge.kind = "trend" /\ gauge.of \in TrendReadings /\ gauge.score = TrendScore(gauge.of)

LEMMA GaugeRead ==
    ASSUME GaugeOK
    PROVE  GaugesSound /\ ChartsReadBothWays
  <1>1. CASE gauge = <<>>
    BY <1>1 DEF GaugesSound, ChartsReadBothWays
  <1>2. CASE gauge # <<>> /\ gauge.kind = "breadth"
    <2>1. PICK s : s = gauge.of /\ s \in [advancing : Nat, declining : Nat, unchanged : Nat]
      BY <1>2, IndicatorAssumption DEF GaugeOK
    <2>2. gauge.score = BreadthScore(s)
      BY <1>2, <2>1 DEF GaugeOK
    <2>3. BreadthScore(s) # Unavailable =>
             /\ BreadthScore(s) \in -10 .. 10
             /\ BreadthScore([s EXCEPT !.advancing = s.declining, !.declining = s.advancing])
                   = -BreadthScore(s)
      BY <2>1, BreadthEven
    <2>4. QED
      BY <1>2, <2>1, <2>2, <2>3 DEF GaugesSound, ChartsReadBothWays
  <1>3. CASE gauge # <<>> /\ gauge.kind = "depth"
    <2>1. PICK b : b = gauge.of /\ b \in [bid : Nat, ask : Nat, spread : Int]
      BY <1>3, IndicatorAssumption DEF GaugeOK
    <2>2. gauge.score = PressureScore(b)
      BY <1>3, <2>1 DEF GaugeOK
    <2>3. PressureScore(b) # Unavailable =>
             /\ PressureScore([b EXCEPT !.bid = b.ask, !.ask = b.bid]) = -PressureScore(b)
             /\ b.spread > 15 => PressureScore(b) \in -50 .. 50
      BY <2>1, PressureEven
    <2>4. QED
      BY <1>3, <2>1, <2>2, <2>3 DEF GaugesSound, ChartsReadBothWays
  <1>4. CASE gauge # <<>> /\ gauge.kind = "chart"
    <2>1. PICK c : c = gauge.of /\ c \in Seq(ChartCandles) /\ c # <<>>
      BY <1>4, IndicatorAssumption DEF GaugeOK
    <2>2. IsChartScore(gauge.score, c)
      BY <1>4, <2>1 DEF GaugeOK
    <2>3. ChartReadsBack(c, gauge.score)
      BY <2>1, <2>2, ChartRead
    <2>4. QED
      BY <1>4, <2>1, <2>3 DEF GaugesSound, ChartsReadBothWays
  <1>5. CASE gauge # <<>> /\ gauge.kind = "trend"
    <2>1. gauge.of \in TrendReadings /\ gauge.score = TrendScore(gauge.of)
      BY <1>5 DEF GaugeOK
    <2>2. TrendReadsBack(gauge.of, gauge.score)
      BY <2>1, TrendBack
    <2>3. QED
      BY <1>5, <2>2 DEF GaugesSound, ChartsReadBothWays
  <1>6. QED
    BY <1>1, <1>2, <1>3, <1>4, <1>5 DEF GaugeOK

LEMMA Measured ==
    ASSUME Measure
    PROVE  GaugeOK'
  <1>1. CASE \E s \in Snapshots : gauge' = [kind |-> "breadth", of |-> s, score |-> BreadthScore(s)]
    BY <1>1 DEF GaugeOK
  <1>2. CASE \E b \in OrderBooks : gauge' = [kind |-> "depth", of |-> b, score |-> PressureScore(b)]
    BY <1>2 DEF GaugeOK
  <1>3. CASE \E c \in Charts :
                gauge' = [kind |-> "chart", of |-> c, score |->
                             [sweep |-> SweepScore(c), vwap |-> VwapScore(c), volume |-> VolumeScore(c)]]
    <2>1. PICK c \in Charts :
              gauge' = [kind |-> "chart", of |-> c, score |->
                           [sweep |-> SweepScore(c), vwap |-> VwapScore(c), volume |-> VolumeScore(c)]]
      BY <1>3
    <2>2. gauge'.kind = "chart" /\ gauge'.of \in Charts /\ IsChartScore(gauge'.score, gauge'.of)
      BY <2>1 DEF IsChartScore
    <2>3. QED
      BY <2>2 DEF GaugeOK, IsChartScore
  <1>4. CASE \E r \in TrendReadings : gauge' = [kind |-> "trend", of |-> r, score |-> TrendScore(r)]
    BY <1>4 DEF GaugeOK
  <1>5. QED
    BY <1>1, <1>2, <1>3, <1>4 DEF Measure

(***************************************************************************)
(* What always holds of the readings of the trading core.                  *)
(***************************************************************************)
\* The risk decision is the gate's, of a context it can decide.
RiskOK ==
    /\ trade \in Contexts /\ (GateBlocks(trade) \/ ~SizingRaises(trade))
    /\ risk = GateDecision(trade)

SignalsInv == RiskOK /\ SignalOK /\ LifeInv /\ ComposedOK /\ GaugeOK

LEMMA DecisionsAre == \A ctx : GateDecision(ctx).status \in {"PASS", "FAIL"}
  BY DEF GateDecision, Failed

LEMMA SignalsStart == Init => SignalsInv
  <1> SUFFICES ASSUME Init
               PROVE  SignalsInv
    OBVIOUS
  <1>1. RiskOK
    BY DEF Init, GateInit, RiskOK
  <1>2. SignalOK
    BY DEF Init, GateInit, SignalOK
  <1>3. LifeInv
    <2>1. PICK s : s = "SIGNAL_CREATED" /\ s \in States
      BY DEF States, AllowedNext
    <2>2. lifecycle = <<s>>
      BY <2>1 DEF Init, LifecycleInit
    <2>3. lifecycle \in Seq(States) /\ Len(lifecycle) = 1 /\ lifecycle[1] = s
      BY <2>1, <2>2
    <2>4. 1 .. Len(lifecycle) - 1 = {} /\ \A i, j \in 1 .. Len(lifecycle) : ~(i < j)
      BY <2>3
    <2>5. QED
      BY <2>1, <2>3, <2>4 DEF LifeInv
  <1>4. ComposedOK /\ GaugeOK
    BY DEF Init, IndicatorInit, ComposedOK, GaugeOK
  <1>5. QED
    BY <1>1, <1>2, <1>3, <1>4 DEF SignalsInv

LEMMA SignalsStep == SignalsInv /\ [Next]_vars => SignalsInv'
  <1> SUFFICES ASSUME SignalsInv, [Next]_vars
               PROVE  SignalsInv'
    OBVIOUS
  <1>1. RiskOK /\ SignalOK /\ LifeInv /\ ComposedOK /\ GaugeOK
    BY DEF SignalsInv
  <1>2. ASSUME UNCHANGED <<trade, risk>> PROVE RiskOK'
    BY <1>1, <1>2 DEF RiskOK, GateBlocks, SizingRaises, GateDecision
  <1>3. ASSUME UNCHANGED signal PROVE SignalOK'
    BY <1>1, <1>3 DEF SignalOK
  <1>4. ASSUME UNCHANGED lifecycle PROVE LifeInv'
    BY <1>1, <1>4 DEF LifeInv
  <1>5. ASSUME UNCHANGED composed PROVE ComposedOK'
    BY <1>1, <1>5 DEF ComposedOK
  <1>6. ASSUME UNCHANGED gauge PROVE GaugeOK'
    BY <1>1, <1>6 DEF GaugeOK, IsChartScore
  <1>7. CASE UNCHANGED vars
    BY <1>2, <1>3, <1>4, <1>5, <1>6, <1>7 DEF vars, gateVars, indicatorVars, SignalsInv
  <1>8. CASE RuntimeNext /\ UNCHANGED <<desk, gateVars, lifecycle, tape, indicatorVars>>
    BY <1>2, <1>3, <1>4, <1>5, <1>6, <1>8 DEF gateVars, indicatorVars, SignalsInv
  <1>9. CASE AssessRisk /\ UNCHANGED <<desk, runtimeVars, lifecycle, tape, indicatorVars>>
    <2>1. RiskOK'
      BY <1>9 DEF AssessRisk, RiskOK
    <2>2. UNCHANGED <<signal, lifecycle, composed, gauge>>
      BY <1>9 DEF AssessRisk, indicatorVars
    <2>3. QED
      BY <1>3, <1>4, <1>5, <1>6, <2>1, <2>2 DEF SignalsInv
  <1>10. CASE Evaluate /\ UNCHANGED <<desk, runtimeVars, lifecycle, tape, indicatorVars>>
    <2>1. SignalOK'
      <3>1. risk.status \in {"PASS", "FAIL"}
        BY <1>1, DecisionsAre DEF RiskOK
      <3>2. QED
        BY <1>10, <3>1 DEF Evaluate, SignalOK
    <2>2. UNCHANGED <<trade, risk, lifecycle, composed, gauge>>
      BY <1>10 DEF Evaluate, indicatorVars
    <2>3. QED
      BY <1>2, <1>4, <1>5, <1>6, <2>1, <2>2 DEF SignalsInv
  <1>11. CASE Route /\ UNCHANGED <<desk, runtimeVars, lifecycle, tape, indicatorVars>>
    <2>1. UNCHANGED <<trade, risk, signal, lifecycle, composed, gauge>>
      BY <1>11 DEF Route, indicatorVars
    <2>2. QED
      BY <1>2, <1>3, <1>4, <1>5, <1>6, <2>1 DEF SignalsInv
  <1>12. CASE LifecycleNext /\ UNCHANGED <<desk, runtimeVars, gateVars, tape, indicatorVars>>
    <2>1. LifeInv'
      BY <1>1, <1>12, LifeMoves DEF LifecycleNext
    <2>2. UNCHANGED <<trade, risk, signal, composed, gauge>>
      BY <1>12 DEF gateVars, indicatorVars
    <2>3. QED
      BY <1>2, <1>3, <1>5, <1>6, <2>1, <2>2 DEF SignalsInv
  <1>13. CASE BacktestNext /\ UNCHANGED <<desk, runtimeVars, gateVars, lifecycle, indicatorVars>>
    BY <1>2, <1>3, <1>4, <1>5, <1>6, <1>13 DEF gateVars, indicatorVars, SignalsInv
  <1>14. CASE IndicatorNext /\ UNCHANGED <<desk, runtimeVars, gateVars, lifecycle, tape>>
    <2>1. UNCHANGED <<trade, risk, signal, lifecycle>>
      BY <1>14 DEF gateVars
    <2>2. CASE Compose
      <3>1. PICK c \in Compositions : /\ ScoresValid(ComponentScores(c)) /\ ~ComposeRaises(c)
                                      /\ composed' = [of |-> c, output |-> Composed(c)]
        BY <2>2 DEF Compose
      <3>2. ComposedOK'
        BY <3>1 DEF ComposedOK
      <3>3. UNCHANGED gauge
        BY <2>2 DEF Compose
      <3>4. QED
        BY <1>2, <1>3, <1>4, <1>6, <2>1, <3>2, <3>3 DEF SignalsInv
    <2>3. CASE Measure
      <3>1. GaugeOK' /\ UNCHANGED composed
        BY <2>3, Measured DEF Measure
      <3>2. QED
        BY <1>2, <1>3, <1>4, <1>5, <2>1, <3>1 DEF SignalsInv
    <2>4. QED
      BY <1>14, <2>2, <2>3 DEF IndicatorNext
  <1>15. QED
    BY <1>7, <1>8, <1>9, <1>10, <1>11, <1>12, <1>13, <1>14 DEF Next

LEMMA SignalsMean == SignalsInv => SignalsRead
  <1> SUFFICES ASSUME SignalsInv
               PROVE  SignalsRead
    OBVIOUS
  <1>1. GateMonotone
    BY GateRead DEF SignalsInv, RiskOK
  <1>2. SignalSymmetric /\ LifecycleOrdered /\ HidingNeverTrades /\ TradeGraded
    BY SignalRead, LifeRead, HidingRead, GradedRead DEF SignalsInv
  <1>3. GaugesSound /\ ChartsReadBothWays
    BY GaugeRead DEF SignalsInv
  <1>4. QED
    BY <1>1, <1>2, <1>3 DEF SignalsRead

\* Any readings, contexts, scores and charts: a riskier trade passes no gate that a safer one
\* does not, a signal turned round is turned round, an order goes through its states in their
\* order, hiding a reading makes no trade, and no indicator prefers a side.
THEOREM SignalsAreRead == Spec => []SignalsRead
  <1>1. QED
    BY SignalsStart, SignalsStep, SignalsMean, PTL DEF Spec

(***************************************************************************)
(* The backtest.  The candles a run takes are built one after the other,   *)
(* and so are its trades: a longer tape goes through the same steps and    *)
(* then one more.                                                          *)
(***************************************************************************)
TapeCandles == [start : Int, open : Int, high : Int, low : Int, close : Int, volume : Int,
                complete : BOOLEAN]

\* A kind of run takes a candle, or leaves it.
Taken(kind, c) == kind = "run" \/ c.complete

TakeOne(kind, s, c) == IF Taken(kind, c) THEN Append(s, c) ELSE s

\* What appending does to a list.
LEMMA OneMore ==
    ASSUME NEW T, NEW s \in Seq(T), NEW b \in T
    PROVE  /\ Append(s, b) \in Seq(T) /\ Len(Append(s, b)) = Len(s) + 1
           /\ \A i \in 1 .. Len(s) + 1 : Append(s, b)[i] = IF i = Len(s) + 1 THEN b ELSE s[i]
  OBVIOUS

\* f goes through the first L candles of a tape.
IsOrdered(f, kind, t, L) ==
    f = [n \in 0 .. L |-> IF n = 0 THEN <<>> ELSE TakeOne(kind, f[n - 1], t[n])]

LEMMA OrderedExists ==
    ASSUME NEW kind, NEW t, NEW L \in Nat
    PROVE  \E f : IsOrdered(f, kind, t, L)
  <1> DEFINE N == {n \in Nat : \E f : IsOrdered(f, kind, t, n)}
  <1>1. 0 \in N
    <2>1. IsOrdered([n \in 0 .. 0 |-> <<>>], kind, t, 0)
      BY DEF IsOrdered
    <2>2. QED
      BY <2>1
  <1>2. ASSUME NEW n \in Nat, n \in N PROVE n + 1 \in N
    <2>1. PICK g : IsOrdered(g, kind, t, n)
      BY <1>2
    <2>2. PICK h : h = [i \in 0 .. n + 1 |-> IF i = 0 THEN <<>> ELSE TakeOne(kind, g[i - 1], t[i])]
      OBVIOUS
    <2>3. \A i \in 0 .. n : h[i] = g[i]
      BY <2>1, <2>2 DEF IsOrdered
    <2>4. \A i \in 0 .. n + 1 : i # 0 => i - 1 \in 0 .. n
      OBVIOUS
    <2>5. IsOrdered(h, kind, t, n + 1)
      BY <2>2, <2>3, <2>4 DEF IsOrdered
    <2>6. QED
      BY <2>5
  <1>3. Nat \subseteq N
    <2> HIDE DEF N
    <2>1. QED
      BY <1>1, <1>2, Counting
  <1>4. QED
    BY <1>3

LEMMA OrderedIs ==
    ASSUME NEW kind, NEW t, NEW L \in Nat, Len(t) = L
    PROVE  \E f : IsOrdered(f, kind, t, L) /\ Ordered(kind, t) = f[L]
  <1>1. PICK f : f = CHOOSE g : IsOrdered(g, kind, t, L)
    OBVIOUS
  <1>2. IsOrdered(f, kind, t, L)
    BY <1>1, OrderedExists
  <1>3. Ordered(kind, t) = f[L]
    BY <1>1 DEF Ordered, IsOrdered, TakeOne, Taken
  <1>4. QED
    BY <1>2, <1>3

\* One turn of it.
LEMMA OrderedTurn ==
    ASSUME NEW f, NEW kind, NEW t, NEW L \in Nat, IsOrdered(f, kind, t, L)
    PROVE  /\ f[0] = <<>>
           /\ \A n \in 0 .. L : n < L =>
                 f[n + 1] = TakeOne(kind, f[n], t[n + 1])
  <1>1. \A n \in 0 .. L : n < L => n + 1 \in 0 .. L /\ n + 1 # 0 /\ (n + 1) - 1 = n
    OBVIOUS
  <1>2. QED
    BY <1>1 DEF IsOrdered

\* What a run takes of a tape is a tape.
LEMMA OrderedType ==
    ASSUME NEW kind, NEW t \in Seq(TapeCandles)
    PROVE  Ordered(kind, t) \in Seq(TapeCandles)
  <1>1. PICK L \in Nat : L = Len(t)
    OBVIOUS
  <1>2. PICK f : IsOrdered(f, kind, t, L) /\ Ordered(kind, t) = f[L]
    BY <1>1, OrderedIs
  <1> DEFINE S == {n \in 0 .. L : f[n] \in Seq(TapeCandles)}
  <1>3. 0 \in S
    <2>1. <<>> \in Seq(TapeCandles)
      OBVIOUS
    <2>2. f[0] = <<>>
      BY <1>2, OrderedTurn
    <2>3. 0 \in 0 .. L
      OBVIOUS
    <2>4. QED
      BY <2>1, <2>2, <2>3
  <1>4. ASSUME NEW n \in 0 .. L, n \in S, n < L PROVE n + 1 \in S
    <2>1. PICK c \in TapeCandles : c = t[n + 1]
      BY <1>1, <1>4
    <2>2. PICK s \in Seq(TapeCandles) : s = f[n]
      BY <1>4
    <2>3. f[n + 1] = TakeOne(kind, s, c)
      BY <1>2, <1>4, <2>1, <2>2, OrderedTurn
    <2>4. n + 1 \in 0 .. L
      BY <1>4
    <2>5. Append(s, c) \in Seq(TapeCandles)
      OBVIOUS
    <2>6. f[n + 1] \in Seq(TapeCandles)
      BY <2>2, <2>3, <2>5 DEF TakeOne
    <2>7. QED
      BY <2>4, <2>6
  <1>5. 0 .. L \subseteq S
    <2> HIDE DEF S
    <2>1. QED
      BY <1>3, <1>4, CountingTo
  <1>6. L \in S
    BY <1>5
  <1>7. QED
    BY <1>2, <1>6

\* A candle more is one more to take, or none.
LEMMA OrderedGrows ==
    ASSUME NEW kind, NEW t \in Seq(TapeCandles), NEW c \in TapeCandles
    PROVE  Ordered(kind, Append(t, c)) =
              TakeOne(kind, Ordered(kind, t), c)
  <1>1. PICK L \in Nat : L = Len(t)
    OBVIOUS
  <1>2. PICK u \in Seq(TapeCandles) :
            /\ u = Append(t, c) /\ Len(u) = L + 1
            /\ \A i \in 1 .. L + 1 : u[i] = IF i = L + 1 THEN c ELSE t[i]
    <2>1. PICK T : T = TapeCandles
      OBVIOUS
    <2>2. t \in Seq(T) /\ c \in T
      BY <2>1
    <2>3. /\ Append(t, c) \in Seq(T) /\ Len(Append(t, c)) = Len(t) + 1
          /\ \A i \in 1 .. Len(t) + 1 : Append(t, c)[i] = IF i = Len(t) + 1 THEN c ELSE t[i]
      BY <2>2, OneMore
    <2>4. QED
      BY <1>1, <2>1, <2>3
  <1>3. Len(u) = L + 1 /\ u[L + 1] = c /\ \A i \in 1 .. L : u[i] = t[i]
    <2>1. L + 1 \in 1 .. L + 1 /\ \A i \in 1 .. L : i \in 1 .. L + 1 /\ i # L + 1
      OBVIOUS
    <2>2. QED
      BY <1>2, <2>1, Zenon
  <1>4. PICK f : IsOrdered(f, kind, t, L) /\ Ordered(kind, t) = f[L]
    BY <1>1, OrderedIs
  <1>5. PICK g : IsOrdered(g, kind, u, L + 1) /\ Ordered(kind, u) = g[L + 1]
    <2>1. L + 1 \in Nat
      OBVIOUS
    <2>2. QED
      BY <1>3, <2>1, OrderedIs
  <1> DEFINE S == {n \in 0 .. L : f[n] = g[n]}
  <1>6. 0 \in S
    <2>1. L + 1 \in Nat /\ 0 \in 0 .. L
      OBVIOUS
    <2>2. f[0] = <<>>
      BY <1>4, OrderedTurn
    <2>3. g[0] = <<>>
      BY <1>5, <2>1, OrderedTurn
    <2>4. QED
      BY <2>1, <2>2, <2>3
  <1>7. ASSUME NEW n \in 0 .. L + 1, n < L + 1
        PROVE  g[n + 1] = TakeOne(kind, g[n], u[n + 1])
    <2>1. L + 1 \in Nat
      OBVIOUS
    <2>2. QED
      BY <1>5, <1>7, <2>1, OrderedTurn
  <1>8. ASSUME NEW n \in 0 .. L, n \in S, n < L PROVE n + 1 \in S
    <2>1. n + 1 \in 1 .. L /\ n + 1 \in 0 .. L /\ n \in 0 .. L + 1 /\ n < L + 1
      BY <1>8
    <2>2. u[n + 1] = t[n + 1]
      BY <1>3, <2>1
    <2>3. f[n + 1] = TakeOne(kind, f[n], t[n + 1])
      BY <1>4, <1>8, OrderedTurn
    <2>4. f[n] = g[n]
      BY <1>8
    <2>5. g[n + 1] = f[n + 1]
      BY <1>7, <2>1, <2>2, <2>3, <2>4
    <2>6. QED
      BY <2>1, <2>5
  <1>9. 0 .. L \subseteq S
    <2> HIDE DEF S
    <2>1. QED
      BY <1>6, <1>8, CountingTo
  <1>10. f[L] = g[L] /\ L \in 0 .. L + 1 /\ L < L + 1
    BY <1>9
  <1>11. QED
    BY <1>2, <1>3, <1>4, <1>5, <1>7, <1>10

\* A trade of the backtest.
BookedTrades == [side : {"BUY", "SELL"}, at : Int, entry : Int, exit : Int, pnl : Int]

\* A run takes a number of shares, though its stop may be no more than a hundredth away.
LEMMA QuantityType ==
    ASSUME NEW c \in TapeCandles, CandleValid(c)
    PROVE  Max({1, GateDecision(GateContext(c)).quantity}) \in Int
  <1>1. PICK x \in Nat \ {0} : x = c.close
    BY DEF CandleValid
  <1>2. PICK l \in Int : l = c.low
    BY DEF TapeCandles
  <1>3. PICK y \in Int : y = x * 99 /\ y < 100 * x
    OBVIOUS
  <1>4. PICK h \in Nat \ {0} : h = 100
    OBVIOUS
  <1>5. PICK q \in Int : q = y \div h /\ h * q <= y
    BY <1>4, Divides
  <1>6. q # x
    BY <1>3, <1>4, <1>5
  <1>7. PICK stop \in Int : stop = IF l # x THEN l ELSE q
    OBVIOUS
  <1>8. stop # x
    BY <1>6, <1>7
  <1>9. GateContext(c).entry = x /\ GateContext(c).stop = stop
    BY <1>1, <1>2, <1>3, <1>4, <1>5, <1>7 DEF GateContext
  <1>10. PICK w \in Nat \ {0} : w = StopWidth(x, stop)
    <2>1. CASE x >= stop
      <3>1. x - stop \in Nat \ {0}
        BY <1>8, <2>1
      <3>2. QED
        BY <2>1, <3>1 DEF StopWidth
    <2>2. CASE ~(x >= stop)
      <3>1. stop - x \in Nat \ {0}
        BY <2>2
      <3>2. QED
        BY <2>2, <3>1 DEF StopWidth
    <2>3. QED
      BY <2>1, <2>2
  <1>11. PICK cost \in Nat \ {0} : cost = 10000 * w
    OBVIOUS
  <1>12. PICK budget \in Nat : budget = RiskBudget
    BY ContextAssumption DEF RiskBudget
  <1>13. PICK d \in Int : d = budget \div cost
    BY Divides
  <1>14. SizedQuantity(GateContext(c)) = Min({GateConfig.maxQuantity, d})
    BY <1>9, <1>10, <1>11, <1>12, <1>13 DEF SizedQuantity
  <1>15. SizedQuantity(GateContext(c)) \in Int
    <2>1. GateConfig.maxQuantity \in Int
      BY ContextAssumption
    <2>2. QED
      BY <1>14, <2>1, MinOfTwo
  <1>16. GateDecision(GateContext(c)).quantity \in Int
    BY <1>15 DEF GateDecision, Failed
  <1>17. QED
    <2>1. 1 \in Int
      OBVIOUS
    <2>2. QED
      BY <1>16, <2>1, MaxOfTwo

LEMMA DecisionType ==
    ASSUME NEW kind, NEW t \in Seq(TapeCandles), NEW i \in 1 .. Len(t), CandleValid(t[i])
    PROVE  Decision(kind, t, i).quantity \in Int
  <1>1. Max({1, GateDecision(GateContext(t[i])).quantity}) \in Int
    BY QuantityType
  <1>2. QED
    BY <1>1 DEF Decision

LEMMA SlippedType ==
    ASSUME NEW price \in Int, NEW side, NEW entry \in BOOLEAN
    PROVE  Slipped(price, side, entry) \in Int
  <1>1. BacktestSlippage \in Int
    BY BacktestAssumption
  <1>2. PICK y \in Int : y = price * BacktestSlippage
    BY <1>1
  <1>3. PICK h \in Nat \ {0} : h = 100
    OBVIOUS
  <1>4. PICK q \in Int : q = y \div h
    BY Divides
  <1>5. Slipped(price, side, entry) = price + q \/ Slipped(price, side, entry) = price - q
    BY <1>2, <1>3, <1>4 DEF Slipped
  <1>6. QED
    BY <1>5

LEMMA ExitType ==
    ASSUME NEW c \in TapeCandles, NEW d \in TapeCandles, NEW side
    PROVE  ExitWithin(c, side, ScoredLevels(d, side)) \in Int
  <1>1. ScoredStop \in Int /\ ScoredTarget \in Int /\ c.close \in Int /\ d.close \in Int
    BY BacktestAssumption DEF TapeCandles
  <1>2. PICK up \in Int : up = IF side = "BUY" THEN 1 ELSE -1
    OBVIOUS
  <1>3. /\ 0 \in Int /\ d.close - up * ScoredStop \in Int
        /\ d.close + up * ScoredTarget \in Int
    BY <1>1
  <1>4. ScoredLevels(d, side).stop \in Int /\ ScoredLevels(d, side).target \in Int
    BY <1>2, <1>3 DEF ScoredLevels
  <1>5. QED
    BY <1>1, <1>4 DEF ExitWithin

\* What is traded at one candle is a trade or none.
LEMMA TradeType ==
    ASSUME NEW kind, NEW t \in Seq(TapeCandles), NEW i \in 1 .. Len(t) - 1, CandleValid(t[i])
    PROVE  TradeAt(kind, t, i) \in Seq(BookedTrades) /\ Len(TradeAt(kind, t, i)) <= 1
  <1>1. PICK c \in TapeCandles, n \in TapeCandles : c = t[i] /\ n = t[i + 1]
    OBVIOUS
  <1>2. PICK d : d = Decision(kind, t, i)
    OBVIOUS
  <1>3. d.quantity \in Int
    <2>1. i \in 1 .. Len(t)
      OBVIOUS
    <2>2. QED
      BY <1>2, <2>1, DecisionType
  <1>4. PICK entry \in Int : entry = Slipped(n.open, d.side, TRUE)
    <2>1. n.open \in Int
      BY DEF TapeCandles
    <2>2. QED
      BY <2>1, SlippedType
  <1>5. PICK exit \in Int :
            exit = Slipped(IF kind = "scored" THEN ExitWithin(n, d.side, ScoredLevels(c, d.side))
                                              ELSE n.close, d.side, FALSE)
    <2>1. n.close \in Int
      BY DEF TapeCandles
    <2>2. ExitWithin(n, d.side, ScoredLevels(c, d.side)) \in Int
      BY ExitType
    <2>3. PICK price \in Int :
              price = IF kind = "scored" THEN ExitWithin(n, d.side, ScoredLevels(c, d.side))
                                         ELSE n.close
      BY <2>1, <2>2
    <2>4. QED
      BY <2>3, SlippedType
  <1>6. PICK pnl \in Int : pnl = TradePnl(d.side, entry, exit, d.quantity)
    <2>1. TradeBrokerage \in Int
      BY BacktestAssumption
    <2>2. QED
      BY <1>3, <2>1 DEF TradePnl
  <1>7. TradeAt(kind, t, i) =
            IF d.side \in {"BUY", "SELL"}
            THEN <<[side |-> d.side, at |-> n.start, entry |-> entry, exit |-> exit, pnl |-> pnl]>>
            ELSE <<>>
    BY <1>1, <1>2, <1>4, <1>5, <1>6 DEF TradeAt, TradeOn
  <1>8. CASE d.side \in {"BUY", "SELL"}
    <2>1. PICK at \in Int : at = n.start
      BY DEF TapeCandles
    <2>2. PICK b \in BookedTrades :
              b = [side |-> d.side, at |-> n.start, entry |-> entry, exit |-> exit, pnl |-> pnl]
      BY <1>8, <2>1 DEF BookedTrades
    <2>3. TradeAt(kind, t, i) = <<b>>
      BY <1>7, <1>8, <2>2
    <2>4. QED
      BY <2>3
  <1>9. CASE d.side \notin {"BUY", "SELL"}
    <2>1. TradeAt(kind, t, i) = <<>>
      BY <1>7, <1>9
    <2>2. <<>> \in Seq(BookedTrades) /\ Len(<<>>) = 0
      OBVIOUS
    <2>3. QED
      BY <2>1, <2>2
  <1>10. QED
    BY <1>8, <1>9

LEMMA StepsAre ==
    ASSUME NEW t \in Seq(TapeCandles)
    PROVE  /\ Steps(t) \in Nat
           /\ Len(t) = 0 => Steps(t) = 0
           /\ Len(t) # 0 => Steps(t) = Len(t) - 1
  <1>1. PICK n \in Nat, m \in Int, z \in Int : n = Len(t) /\ m = n - 1 /\ z = 0
    OBVIOUS
  <1>2. Max({z, m}) \in {z, m} /\ Max({z, m}) >= z /\ Max({z, m}) >= m
    BY MaxOfTwo
  <1>3. Steps(t) = Max({z, m})
    BY <1>1 DEF Steps
  <1>4. QED
    BY <1>1, <1>2, <1>3

\* f goes through the first L steps of a tape.
MakeOne(s, kind, t, n) == s \o TradeAt(kind, t, n)

IsMade(f, kind, t, L) ==
    f = [n \in 0 .. L |-> IF n = 0 THEN <<>> ELSE MakeOne(f[n - 1], kind, t, n)]

LEMMA MadeExists ==
    ASSUME NEW kind, NEW t, NEW L \in Nat
    PROVE  \E f : IsMade(f, kind, t, L)
  <1> DEFINE N == {n \in Nat : \E f : IsMade(f, kind, t, n)}
  <1>1. 0 \in N
    <2>1. IsMade([n \in 0 .. 0 |-> <<>>], kind, t, 0)
      BY DEF IsMade
    <2>2. QED
      BY <2>1
  <1>2. ASSUME NEW n \in Nat, n \in N PROVE n + 1 \in N
    <2>1. PICK g : IsMade(g, kind, t, n)
      BY <1>2
    <2>2. PICK h : h = [i \in 0 .. n + 1 |-> IF i = 0 THEN <<>> ELSE MakeOne(g[i - 1], kind, t, i)]
      OBVIOUS
    <2>3. \A i \in 0 .. n : h[i] = g[i]
      BY <2>1, <2>2 DEF IsMade
    <2>4. \A i \in 0 .. n + 1 : i # 0 => i - 1 \in 0 .. n
      OBVIOUS
    <2>5. IsMade(h, kind, t, n + 1)
      BY <2>2, <2>3, <2>4 DEF IsMade
    <2>6. QED
      BY <2>5
  <1>3. Nat \subseteq N
    <2> HIDE DEF N
    <2>1. QED
      BY <1>1, <1>2, Counting
  <1>4. QED
    BY <1>3

\* One turn of it.
LEMMA MadeTurn ==
    ASSUME NEW f, NEW kind, NEW t, NEW L \in Nat, IsMade(f, kind, t, L)
    PROVE  /\ f[0] = <<>>
           /\ \A n \in 0 .. L : n < L => f[n + 1] = MakeOne(f[n], kind, t, n + 1)
  <1>1. \A n \in 0 .. L : n < L => n + 1 \in 0 .. L /\ n + 1 # 0 /\ (n + 1) - 1 = n
    OBVIOUS
  <1>2. QED
    BY <1>1 DEF IsMade

\* The trades of a tape that is taken are those made by its last step.
LEMMA TradesAre ==
    ASSUME NEW kind, NEW t, NEW o, o = Ordered(kind, t), NEW L \in Nat, L = Steps(o)
    PROVE  /\ TapeFails(o) => TradesOf(kind, t) = <<>>
           /\ ~TapeFails(o) => \E f : IsMade(f, kind, o, L) /\ TradesOf(kind, t) = f[L]
  <1>1. PICK f : f = CHOOSE g : IsMade(g, kind, o, L)
    OBVIOUS
  <1>2. IsMade(f, kind, o, L)
    BY <1>1, MadeExists
  <1>3. TradesOf(kind, t) = IF TapeFails(o) THEN <<>> ELSE f[L]
    BY <1>1 DEF TradesOf, IsMade, MakeOne
  <1>4. QED
    BY <1>2, <1>3

\* What is made by a step are trades, no more than there were steps.
LEMMA MadeType ==
    ASSUME NEW kind, NEW o \in Seq(TapeCandles), ~TapeFails(o), NEW L \in Nat, L = Steps(o),
           NEW f, IsMade(f, kind, o, L)
    PROVE  \A n \in 0 .. L : f[n] \in Seq(BookedTrades) /\ Len(f[n]) <= n
  <1> DEFINE S == {n \in 0 .. L : f[n] \in Seq(BookedTrades) /\ Len(f[n]) <= n}
  <1>1. 0 \in S
    <2>1. PICK e : e = <<>>
      OBVIOUS
    <2>2. e \in Seq(BookedTrades) /\ Len(e) <= 0
      BY <2>1
    <2>3. f[0] = e
      BY <2>1, MadeTurn
    <2>4. 0 \in 0 .. L
      OBVIOUS
    <2>5. QED
      BY <2>2, <2>3, <2>4
  <1>2. ASSUME NEW n \in 0 .. L, n \in S, n < L PROVE n + 1 \in S
    <2>1. n + 1 \in 1 .. Len(o) - 1
      BY <1>2, StepsAre
    <2>2. CandleValid(o[n + 1])
      <3>1. n + 1 \in DOMAIN o
        BY <2>1
      <3>2. QED
        BY <3>1 DEF TapeFails, CandleFails
    <2>3. PICK x \in Seq(BookedTrades) : x = TradeAt(kind, o, n + 1) /\ Len(x) <= 1
      BY <2>1, <2>2, TradeType
    <2>4. PICK s \in Seq(BookedTrades) : s = f[n] /\ Len(s) <= n
      BY <1>2
    <2>5. s \o x \in Seq(BookedTrades) /\ Len(s \o x) = Len(s) + Len(x)
      BY JoinedList
    <2>6. Len(s) + Len(x) <= n + 1
      <3>1. PICK a \in Nat, b \in Nat : a = Len(s) /\ b = Len(x) /\ a <= n /\ b <= 1
        BY <2>3, <2>4
      <3>2. n \in Nat
        OBVIOUS
      <3>3. a + b <= n + 1
        BY <3>1, <3>2
      <3>4. QED
        BY <3>1, <3>3
    <2>7. f[n + 1] = s \o x
      BY <1>2, <2>3, <2>4, MadeTurn DEF MakeOne
    <2>8. n + 1 \in 0 .. L
      BY <1>2
    <2>9. QED
      BY <2>5, <2>6, <2>7, <2>8
  <1>3. 0 .. L \subseteq S
    <2> HIDE DEF S
    <2>1. QED
      BY <1>1, <1>2, CountingTo
  <1>4. QED
    BY <1>3

LEMMA TradesType ==
    ASSUME NEW kind, NEW t \in Seq(TapeCandles)
    PROVE  /\ TradesOf(kind, t) \in Seq(BookedTrades)
           /\ TapeFails(Ordered(kind, t)) => Len(TradesOf(kind, t)) = 0
           /\ Len(TradesOf(kind, t)) <= Steps(Ordered(kind, t))
  <1>1. PICK o \in Seq(TapeCandles) : o = Ordered(kind, t)
    BY OrderedType
  <1>2. PICK L \in Nat : L = Steps(o)
    BY StepsAre
  <1>3. CASE TapeFails(o)
    <2>1. TradesOf(kind, t) = <<>>
      BY <1>1, <1>2, <1>3, TradesAre
    <2>2. <<>> \in Seq(BookedTrades) /\ Len(<<>>) = 0
      OBVIOUS
    <2>3. QED
      BY <1>1, <1>2, <2>1, <2>2
  <1>4. CASE ~TapeFails(o)
    <2>1. PICK f : IsMade(f, kind, o, L) /\ TradesOf(kind, t) = f[L]
      BY <1>1, <1>2, <1>4, TradesAre
    <2>2. L \in 0 .. L
      OBVIOUS
    <2>3. f[L] \in Seq(BookedTrades) /\ Len(f[L]) <= L
      BY <1>2, <1>4, <2>1, <2>2, MadeType
    <2>4. QED
      BY <1>1, <1>2, <1>4, <2>1, <2>3
  <1>5. QED
    BY <1>3, <1>4

\* A list is a prefix of what it is joined to.
LEMMA JoinedPrefix ==
    ASSUME NEW T, NEW s \in Seq(T), NEW x \in Seq(T)
    PROVE  IsPrefix(s, s \o x)
  <1>1. PICK j \in Seq(T) :
            /\ j = s \o x /\ Len(j) = Len(s) + Len(x)
            /\ \A i \in 1 .. Len(s) : j[i] = s[i]
    <2>1. /\ s \o x \in Seq(T) /\ Len(s \o x) = Len(s) + Len(x)
          /\ \A i \in 1 .. Len(s) + Len(x) :
                (s \o x)[i] = IF i <= Len(s) THEN s[i] ELSE x[i - Len(s)]
      BY JoinedList
    <2>2. PICK a \in Nat, b \in Nat : a = Len(s) /\ b = Len(x)
      OBVIOUS
    <2>3. \A i \in 1 .. a : i \in 1 .. a + b /\ i <= a
      BY <2>2
    <2>4. QED
      BY <2>1, <2>2, <2>3, Zenon
  <1>2. Len(s) <= Len(j)
    <2>1. PICK a \in Nat, b \in Nat : a = Len(s) /\ b = Len(x)
      OBVIOUS
    <2>2. QED
      BY <1>1, <2>1
  <1>3. SubSeq(s, 1, Len(s)) = SubSeq(j, 1, Len(s))
    BY <1>1, <1>2
  <1>4. QED
    BY <1>1, <1>2, <1>3 DEF IsPrefix

LEMMA SamePrefix ==
    ASSUME NEW T, NEW s \in Seq(T)
    PROVE  IsPrefix(s, s)
  BY DEF IsPrefix

\* A trade is made of candles up to the one it is entered at.
LEMMA SameTrade ==
    ASSUME NEW kind, NEW o \in Seq(TapeCandles), NEW u \in Seq(TapeCandles),
           Len(u) = Len(o) + 1, \A i \in 1 .. Len(o) : u[i] = o[i],
           NEW n \in 1 .. Len(o) - 1
    PROVE  TradeAt(kind, u, n) = TradeAt(kind, o, n)
  <1>1. u[n] = o[n] /\ u[n + 1] = o[n + 1]
    OBVIOUS
  <1>2. SubSeq(u, 1, n) = SubSeq(o, 1, n)
    OBVIOUS
  <1>3. PICK h : h = SubSeq(u, 1, n) /\ h = SubSeq(o, 1, n)
    BY <1>2
  <1>4. PICK a : a = u[n] /\ a = o[n]
    BY <1>1
  <1>5. Decision(kind, u, n) = Decision(kind, o, n)
    BY <1>3, <1>4 DEF Decision
  <1>6. QED
    BY <1>1, <1>5 DEF TradeAt, TradeOn

LEMMA FailsLonger ==
    ASSUME NEW o \in Seq(TapeCandles), NEW u \in Seq(TapeCandles),
           Len(u) = Len(o) + 1, \A i \in 1 .. Len(o) : u[i] = o[i], TapeFails(o)
    PROVE  TapeFails(u)
  <1>1. DOMAIN o = 1 .. Len(o) /\ DOMAIN u = 1 .. Len(o) + 1
    OBVIOUS
  <1>2. CASE \E i \in DOMAIN o : CandleFails(o[i])
    <2>1. PICK i \in DOMAIN o : CandleFails(o[i])
      BY <1>2
    <2>2. i \in DOMAIN u /\ u[i] = o[i]
      BY <1>1
    <2>3. QED
      BY <2>1, <2>2 DEF TapeFails
  <1>3. CASE \E i \in DOMAIN o \ {1} : o[i].start # o[i - 1].start + 1
    <2>1. PICK i \in DOMAIN o \ {1} : o[i].start # o[i - 1].start + 1
      BY <1>3
    <2>2. i \in DOMAIN u \ {1} /\ u[i] = o[i] /\ u[i - 1] = o[i - 1]
      BY <1>1
    <2>3. QED
      BY <2>1, <2>2 DEF TapeFails
  <1>4. QED
    BY <1>2, <1>3 DEF TapeFails

\* A tape that is a candle longer makes the trades made before, and then some.
LEMMA TradesGrow ==
    ASSUME NEW kind, NEW o \in Seq(TapeCandles), NEW u \in Seq(TapeCandles),
           Len(u) = Len(o) + 1, \A i \in 1 .. Len(o) : u[i] = o[i],
           ~TapeFails(o), ~TapeFails(u), NEW L \in Nat, L = Steps(o), NEW M \in Nat, M = Steps(u),
           NEW f, IsMade(f, kind, o, L), NEW g, IsMade(g, kind, u, M)
    PROVE  IsPrefix(f[L], g[M])
  <1>1. M = Len(o)
    <2>1. Len(u) # 0 /\ Len(u) - 1 = Len(o)
      OBVIOUS
    <2>2. QED
      BY <2>1, StepsAre
  <1>2. L <= M /\ (Len(o) = 0 => L = 0) /\ (Len(o) # 0 => L = Len(o) - 1)
    BY <1>1, StepsAre
  <1>3. \A n \in 0 .. M : g[n] \in Seq(BookedTrades)
    BY MadeType
  <1>4. \A n \in 0 .. L : f[n] \in Seq(BookedTrades)
    BY MadeType
  <1> DEFINE S == {n \in 0 .. L : f[n] = g[n]}
  <1>5. 0 \in S
    <2>1. f[0] = <<>>
      BY MadeTurn
    <2>2. g[0] = <<>>
      BY MadeTurn
    <2>3. 0 \in 0 .. L
      OBVIOUS
    <2>4. QED
      BY <2>1, <2>2, <2>3
  <1>6. ASSUME NEW n \in 0 .. L, n \in S, n < L PROVE n + 1 \in S
    <2>1. n + 1 \in 1 .. Len(o) - 1 /\ n + 1 \in 0 .. L /\ n \in 0 .. M /\ n < M
      BY <1>2, <1>6
    <2>2. TradeAt(kind, u, n + 1) = TradeAt(kind, o, n + 1)
      BY <2>1, SameTrade
    <2>3. f[n + 1] = MakeOne(f[n], kind, o, n + 1)
      BY <1>6, MadeTurn
    <2>4. g[n + 1] = MakeOne(g[n], kind, u, n + 1)
      BY <2>1, MadeTurn
    <2>5. f[n] = g[n]
      BY <1>6
    <2>6. f[n + 1] = g[n + 1]
      BY <2>2, <2>3, <2>4, <2>5 DEF MakeOne
    <2>7. QED
      BY <2>1, <2>6
  <1>7. 0 .. L \subseteq S
    <2> HIDE DEF S
    <2>1. QED
      BY <1>5, <1>6, CountingTo
  <1>8. f[L] = g[L] /\ f[L] \in Seq(BookedTrades)
    <2>1. L \in 0 .. L
      OBVIOUS
    <2>2. QED
      BY <1>4, <1>7, <2>1
  <1>9. CASE Len(o) = 0
    BY <1>1, <1>2, <1>8, <1>9, SamePrefix
  <1>10. CASE Len(o) # 0
    <2>1. L + 1 = M /\ L \in 0 .. M /\ L < M /\ L + 1 \in 1 .. Len(u) - 1
      BY <1>1, <1>2, <1>10
    <2>2. g[M] = g[L] \o TradeAt(kind, u, M)
      <3>1. g[L + 1] = MakeOne(g[L], kind, u, L + 1)
        BY <2>1, MadeTurn
      <3>2. QED
        BY <2>1, <3>1 DEF MakeOne
    <2>3. TradeAt(kind, u, M) \in Seq(BookedTrades)
      <3>1. M \in 1 .. Len(u) - 1 /\ M \in DOMAIN u
        BY <2>1
      <3>2. CandleValid(u[M])
        BY <3>1 DEF TapeFails, CandleFails
      <3>3. QED
        BY <3>1, <3>2, TradeType
    <2>4. QED
      BY <1>8, <2>2, <2>3, JoinedPrefix
  <1>11. QED
    BY <1>9, <1>10

LEMMA NothingAhead ==
    ASSUME NEW kind, NEW t \in Seq(TapeCandles), NEW c \in TapeCandles, NEW v, v = Append(t, c)
    PROVE  TapeFails(Ordered(kind, v)) \/ IsPrefix(TradesOf(kind, t), TradesOf(kind, v))
  <1>1. PICK o \in Seq(TapeCandles) : o = Ordered(kind, t)
    BY OrderedType
  <1>2. Ordered(kind, v) = TakeOne(kind, o, c)
    BY <1>1, OrderedGrows
  <1>3. SUFFICES ASSUME ~TapeFails(Ordered(kind, v))
                 PROVE  IsPrefix(TradesOf(kind, t), TradesOf(kind, v))
    OBVIOUS
  <1>4. TradesOf(kind, t) \in Seq(BookedTrades)
    BY TradesType
  <1>5. PICK L \in Nat : L = Steps(o)
    BY StepsAre
  <1>6. CASE ~Taken(kind, c)
    <2>1. Ordered(kind, v) = o
      BY <1>2, <1>6 DEF TakeOne
    <2>2. TradesOf(kind, v) = TradesOf(kind, t)
      BY <1>1, <2>1 DEF TradesOf
    <2>3. QED
      BY <1>4, <2>2, SamePrefix
  <1>7. CASE Taken(kind, c)
    <2>1. PICK u : u = Append(o, c)
      OBVIOUS
    <2>2. Ordered(kind, v) = u
      BY <1>2, <1>7, <2>1 DEF TakeOne
    <2>3. u \in Seq(TapeCandles) /\ Len(u) = Len(o) + 1 /\ \A i \in 1 .. Len(o) : u[i] = o[i]
      <3>1. PICK T : T = TapeCandles
        OBVIOUS
      <3>2. o \in Seq(T) /\ c \in T
        BY <3>1
      <3>3. /\ u \in Seq(T) /\ Len(u) = Len(o) + 1
            /\ \A i \in 1 .. Len(o) + 1 : u[i] = IF i = Len(o) + 1 THEN c ELSE o[i]
        BY <2>1, <3>2, OneMore
      <3>4. \A i \in 1 .. Len(o) : i \in 1 .. Len(o) + 1 /\ i # Len(o) + 1
        BY <3>2
      <3>5. QED
        BY <3>1, <3>3, <3>4, Zenon
    <2>4. ~TapeFails(u) /\ ~TapeFails(o)
      BY <1>3, <2>2, <2>3, FailsLonger
    <2>5. PICK M \in Nat : M = Steps(u)
      BY <2>3, StepsAre
    <2>6. PICK f : IsMade(f, kind, o, L) /\ TradesOf(kind, t) = f[L]
      BY <1>1, <1>5, <2>4, TradesAre
    <2>7. PICK g : IsMade(g, kind, u, M) /\ TradesOf(kind, v) = g[M]
      BY <2>2, <2>4, <2>5, TradesAre
    <2>8. IsPrefix(f[L], g[M])
      BY <1>5, <2>3, <2>4, <2>5, <2>6, <2>7, TradesGrow
    <2>9. QED
      BY <2>6, <2>7, <2>8
  <1>8. QED
    BY <1>6, <1>7

(***************************************************************************)
(* The figures of a run: each adds up the results of some of its trades.   *)
(***************************************************************************)
\* What gave no trade and the trades are among the opportunities.
LEMMA NoneAmong ==
    ASSUME NEW kind, NEW t \in Seq(TapeCandles)
    PROVE  NoTrades(kind, t) + Len(TradesOf(kind, t)) <= Opportunities(kind, t)
  <1>1. PICK o \in Seq(TapeCandles) : o = Ordered(kind, t)
    BY OrderedType
  <1>2. PICK L \in Nat, n \in Nat : /\ L = Steps(o) /\ n = Len(o)
                                    /\ (n = 0 => L = 0) /\ (n # 0 => L = n - 1)
    BY StepsAre
  <1>3. PICK m \in Nat : m = Len(TradesOf(kind, t)) /\ m <= L /\ (TapeFails(o) => m = 0)
    BY <1>1, <1>2, TradesType
  <1>4. CASE TapeFails(o)
    <2>1. NoTrades(kind, t) = IF kind = "multi" THEN 0 ELSE n
      BY <1>1, <1>2, <1>4 DEF NoTrades
    <2>2. Opportunities(kind, t) = IF kind = "multi" THEN 1 ELSE n
      BY <1>1, <1>2, <1>4 DEF Opportunities
    <2>3. QED
      BY <1>3, <1>4, <2>1, <2>2
  <1>5. CASE ~TapeFails(o)
    <2>1. PICK k \in Int : k = NoTrades(kind, t) /\ k = L - m
      BY <1>1, <1>2, <1>3, <1>5 DEF NoTrades
    <2>2. PICK signals : signals = {i \in 1 .. Steps(o) : Score(SubSeq(o, 1, i)) # "HOLD"}
      OBVIOUS
    <2>3. Cardinality(signals) \in Int
      <3>1. IsFiniteSet(1 .. L)
        BY FS_Interval
      <3>2. signals \subseteq 1 .. L
        BY <1>2, <2>2
      <3>3. IsFiniteSet(signals)
        BY <3>1, <3>2, FS_Subset
      <3>4. QED
        BY <3>3, FS_CardinalityType
    <2>4. PICK x \in Int : x = IF kind = "run" THEN Cardinality(signals) + NoTrades(kind, t) ELSE 0
      BY <2>1, <2>3
    <2>5. PICK a \in Int, b \in Int : a = 1 /\ b = n - 1
      OBVIOUS
    <2>6. Opportunities(kind, t) = Max({a, b, x})
      BY <1>1, <1>2, <1>5, <2>2, <2>4, <2>5 DEF Opportunities
    <2>7. PICK y \in Int : y = Max({a, b, x}) /\ y >= a /\ y >= b
      <3>1. IsFiniteSet({a, b, x})
        BY FewAreFinite
      <3>2. {a, b, x} # {} /\ {a, b, x} \subseteq Int
        OBVIOUS
      <3>3. Max({a, b, x}) \in {a, b, x} /\ \A z \in {a, b, x} : Max({a, b, x}) >= z
        BY <3>1, <3>2, LargestExists
      <3>4. QED
        BY <3>2, <3>3
    <2>8. k + m = L
      BY <2>1
    <2>9. L <= y
      BY <1>2, <2>5, <2>7
    <2>10. QED
      BY <1>3, <2>1, <2>6, <2>7, <2>8, <2>9
  <1>6. QED
    BY <1>4, <1>5

\* What the trades of I came to.
Pnls(ts, I) == [i \in I |-> ts[i].pnl]

LEMMA PnlType ==
    ASSUME NEW ts \in Seq(BookedTrades)
    PROVE  \A i \in DOMAIN ts : ts[i].pnl \in Int
  <1>1. \A i \in DOMAIN ts : ts[i] \in BookedTrades
    OBVIOUS
  <1>2. QED
    BY <1>1 DEF BookedTrades

LEMMA PnlsSummable ==
    ASSUME NEW ts \in Seq(BookedTrades), NEW I, I \subseteq 1 .. Len(ts)
    PROVE  /\ Summable(Pnls(ts, I), I) /\ Total(ts, I) = SumFunction(Pnls(ts, I))
           /\ Total(ts, I) \in Int
  <1>1. IsFiniteSet(1 .. Len(ts))
    <2>1. PICK n \in Nat : n = Len(ts)
      OBVIOUS
    <2>2. IsFiniteSet(1 .. n)
      BY FS_Interval
    <2>3. QED
      BY <2>1, <2>2
  <1>2. IsFiniteSet(I)
    BY <1>1, FS_Subset
  <1>3. \A i \in I : ts[i] \in BookedTrades
    OBVIOUS
  <1>4. Pnls(ts, I) \in [I -> Int]
    BY <1>3 DEF Pnls, BookedTrades
  <1>5. Summable(Pnls(ts, I), I)
    BY <1>2, <1>4 DEF Summable
  <1>6. Total(ts, I) = SumFunction(Pnls(ts, I))
    BY DEF Total, Pnls
  <1>7. QED
    BY <1>5, <1>6, SumType

\* Profit less loss is what all the trades came to: the rest came to nothing.
LEMMA ProfitLessLoss ==
    ASSUME NEW ts \in Seq(BookedTrades),
           NEW wins, wins = {i \in DOMAIN ts : ts[i].pnl > 0},
           NEW losses, losses = {i \in DOMAIN ts : ts[i].pnl < 0}
    PROVE  Total(ts, wins) - (0 - Total(ts, losses)) = Total(ts, DOMAIN ts)
  <1>1. PICK D : D = DOMAIN ts /\ D = 1 .. Len(ts)
    OBVIOUS
  <1>2. PICK rest : rest = D \ wins
    OBVIOUS
  <1>3. wins \subseteq D /\ losses \subseteq rest /\ rest \subseteq D
    <2>1. \A i \in D : ts[i].pnl \in Int
      BY <1>1, PnlType
    <2>2. QED
      BY <1>1, <1>2, <2>1
  <1>4. /\ Summable(Pnls(ts, D), D) /\ Total(ts, D) = SumFunction(Pnls(ts, D))
        /\ Summable(Pnls(ts, wins), wins) /\ Total(ts, wins) = SumFunction(Pnls(ts, wins))
        /\ Summable(Pnls(ts, rest), rest) /\ Total(ts, rest) = SumFunction(Pnls(ts, rest))
        /\ Summable(Pnls(ts, losses), losses) /\ Total(ts, losses) = SumFunction(Pnls(ts, losses))
        /\ Total(ts, wins) \in Int /\ Total(ts, rest) \in Int
    <2>1. D \subseteq 1 .. Len(ts) /\ wins \subseteq 1 .. Len(ts) /\ rest \subseteq 1 .. Len(ts)
          /\ losses \subseteq 1 .. Len(ts)
      BY <1>1, <1>3
    <2>2. QED
      BY <2>1, PnlsSummable
  <1>5. SplitsInto(D, wins, rest) /\ Agree(Pnls(ts, D), Pnls(ts, wins), wins)
        /\ Agree(Pnls(ts, D), Pnls(ts, rest), rest)
    BY <1>2, <1>3 DEF SplitsInto, Agree, Pnls
  <1>6. Total(ts, D) = Total(ts, wins) + Total(ts, rest)
    BY <1>4, <1>5, SumUnion
  <1>7. PartOf(Pnls(ts, losses), losses, Pnls(ts, rest), rest)
    <2>1. \A i \in losses : Pnls(ts, rest)[i] = Pnls(ts, losses)[i]
      BY <1>3 DEF Pnls
    <2>2. \A i \in rest \ losses : Pnls(ts, rest)[i] = 0
      <3>1. SUFFICES ASSUME NEW i \in rest \ losses PROVE ts[i].pnl = 0
        BY DEF Pnls
      <3>2. ts[i].pnl \in Int
        BY <1>1, <1>3, PnlType
      <3>3. ~(ts[i].pnl > 0) /\ ~(ts[i].pnl < 0)
        BY <1>1, <1>2
      <3>4. QED
        BY <3>2, <3>3
    <2>3. QED
      BY <1>3, <2>1, <2>2 DEF PartOf
  <1>8. Total(ts, rest) = Total(ts, losses)
    BY <1>4, <1>7, SumOfPart
  <1>9. QED
    BY <1>1, <1>4, <1>6, <1>8

\* The equity starts with the account's and ends with all that was made.
LEMMA CurveIs ==
    ASSUME NEW ts \in Seq(BookedTrades), NEW curve, curve = EquityCurve(ts)
    PROVE  /\ curve \in Seq(Int) /\ Len(curve) = Len(ts) + 1 /\ curve[1] = StartingEquity
           /\ Last(curve) - StartingEquity = Total(ts, DOMAIN ts)
  <1>1. PICK n \in Nat : n = Len(ts) /\ DOMAIN ts = 1 .. n
    OBVIOUS
  <1>2. StartingEquity \in Int
    BY BacktestAssumption
  <1>3. curve = [i \in 1 .. n + 1 |-> StartingEquity + Total(ts, 1 .. i - 1)]
    BY <1>1 DEF EquityCurve
  <1>4. \A i \in 1 .. n + 1 : Total(ts, 1 .. i - 1) \in Int
    <2>1. SUFFICES ASSUME NEW i \in 1 .. n + 1 PROVE Total(ts, 1 .. i - 1) \in Int
      OBVIOUS
    <2>2. PICK I : I = 1 .. i - 1 /\ I \subseteq 1 .. Len(ts)
      BY <1>1
    <2>3. QED
      BY <2>2, PnlsSummable
  <1>5. curve \in [1 .. n + 1 -> Int]
    BY <1>2, <1>3, <1>4
  <1>6. curve \in Seq(Int) /\ DOMAIN curve = 1 .. n + 1
    BY <1>5
  <1>7. Len(curve) = n + 1
    BY <1>6
  <1>8. Total(ts, 1 .. 0) = 0
    <2>1. DOMAIN [i \in 1 .. 0 |-> ts[i].pnl] = {}
      OBVIOUS
    <2>2. QED
      BY <2>1, SumEmpty DEF Total
  <1>9. curve[1] = StartingEquity
    <2>1. 1 \in 1 .. n + 1 /\ 1 - 1 = 0
      OBVIOUS
    <2>2. curve[1] = StartingEquity + 0
      BY <1>3, <1>8, <2>1
    <2>3. QED
      BY <1>2, <2>2
  <1>10. Last(curve) = StartingEquity + Total(ts, 1 .. n)
    <2>1. n + 1 \in 1 .. n + 1 /\ (n + 1) - 1 = n
      OBVIOUS
    <2>2. QED
      BY <1>3, <1>7, <2>1 DEF Last
  <1>11. PICK a \in Int : a = Total(ts, 1 .. n)
    BY <1>1, PnlsSummable
  <1>12. QED
    BY <1>1, <1>2, <1>6, <1>7, <1>9, <1>10, <1>11

(***************************************************************************)
(* The drawdown.  Shares are compared by cross multiplication, so one of   *)
(* finitely many is the largest; and what falls from a lower point to one  *)
(* that is not below zero falls by a lesser share.                         *)
(***************************************************************************)
\* A part of a whole that is above zero.
Shares == Int \X (Nat \ {0})

LEMMA CompareThrough ==
    ASSUME NEW a \in Int, NEW b \in Int, NEW c \in Int,
           NEW x \in Nat \ {0}, NEW y \in Nat \ {0}, NEW z \in Nat \ {0},
           a * y <= b * x, b * z <= c * y
    PROVE  a * z <= c * x
  <1>1. (a * y) * z <= (b * x) * z
    OBVIOUS
  <1>2. (b * z) * x <= (c * y) * x
    OBVIOUS
  <1>3. y * (a * z) <= y * (c * x)
    BY <1>1, <1>2
  <1>4. PICK p \in Int, q \in Int : p = a * z /\ q = c * x
    OBVIOUS
  <1>5. y * p <= y * q
    BY <1>3, <1>4
  <1>6. p <= q
    BY <1>5
  <1>7. QED
    BY <1>4, <1>6

\* f is at least g.
AtLeast(f, g) == g[1] * f[2] <= f[1] * g[2]

LEMMA AtLeastIs ==
    ASSUME NEW f \in Shares, NEW g \in Shares
    PROVE  /\ ~Less(f, g) <=> AtLeast(f, g)
           /\ AtLeast(f, g) \/ AtLeast(g, f)
  <1>1. f[1] \in Int /\ f[2] \in Int /\ g[1] \in Int /\ g[2] \in Int
    BY DEF Shares
  <1>2. PICK p \in Int, q \in Int : p = f[1] * g[2] /\ q = g[1] * f[2]
    BY <1>1
  <1>3. QED
    BY <1>2 DEF Less, AtLeast

LEMMA AtLeastThrough ==
    ASSUME NEW f \in Shares, NEW g \in Shares, NEW h \in Shares, AtLeast(f, g), AtLeast(g, h)
    PROVE  AtLeast(f, h)
  <1>1. /\ f[1] \in Int /\ g[1] \in Int /\ h[1] \in Int
        /\ f[2] \in Nat \ {0} /\ g[2] \in Nat \ {0} /\ h[2] \in Nat \ {0}
    BY DEF Shares
  <1>2. h[1] * g[2] <= g[1] * h[2] /\ g[1] * f[2] <= f[1] * g[2]
    BY DEF AtLeast
  <1>3. h[1] * f[2] <= f[1] * h[2]
    BY <1>1, <1>2, CompareThrough
  <1>4. QED
    BY <1>3 DEF AtLeast

\* One of finitely many shares is the largest.
LEMMA LargestShare ==
    ASSUME NEW S, IsFiniteSet(S), S # {}, S \subseteq Shares
    PROVE  \E x \in S : \A y \in S : AtLeast(x, y)
  <1> DEFINE Bad == {t \in SUBSET S : t # {} /\ ~ \E x \in t : \A y \in t : AtLeast(x, y)}
  <1>1. Bad \in SUBSET SUBSET S
    OBVIOUS
  <1>2. ASSUME NEW m \in Bad, \A t \in Bad : t \subseteq m => t = m
        PROVE  FALSE
    <2>1. m \in SUBSET S /\ m # {} /\ ~ \E x \in m : \A y \in m : AtLeast(x, y)
      OBVIOUS
    <2>2. PICK x \in m : TRUE
      BY <2>1
    <2>3. m \ {x} \in SUBSET S /\ m \ {x} \subseteq m /\ m \ {x} # m /\ x \in Shares
      BY <2>1
    <2>4. AtLeast(x, x)
      BY <2>3, AtLeastIs
    <2>5. m \ {x} # {}
      <3>1. SUFFICES ASSUME m = {x} PROVE FALSE
        BY <2>2
      <3>2. QED
        BY <2>1, <2>4, <3>1
    <2>6. PICK z \in m \ {x} : \A y \in m \ {x} : AtLeast(z, y)
      BY <1>2, <2>3, <2>5
    <2>7. z \in Shares /\ \A y \in m : y \in Shares
      BY <2>1
    <2>8. CASE AtLeast(x, z)
      <3>1. ASSUME NEW y \in m PROVE AtLeast(x, y)
        <4>1. CASE y = x
          BY <2>4, <4>1
        <4>2. CASE y # x
          <5>1. AtLeast(z, y)
            BY <2>6, <4>2
          <5>2. QED
            BY <2>3, <2>7, <2>8, <5>1, AtLeastThrough
        <4>3. QED
          BY <4>1, <4>2
      <3>2. QED
        BY <2>1, <3>1
    <2>9. CASE AtLeast(z, x)
      <3>1. \A y \in m : AtLeast(z, y)
        BY <2>6, <2>9
      <3>2. QED
        BY <2>1, <3>1
    <2>10. QED
      BY <2>3, <2>7, <2>8, <2>9, AtLeastIs
  <1>3. Bad = {}
    <2> HIDE DEF Bad
    <2>1. SUFFICES ASSUME Bad # {} PROVE FALSE
      OBVIOUS
    <2>2. PICK B \in SUBSET SUBSET S : B = Bad
      BY <1>1
    <2>3. \E m \in B : \A s \in B : s \subseteq m => s = m
      BY ONLY IsFiniteSet(S), <2>1, <2>2, SmallestSet
    <2>4. QED
      BY <1>2, <2>2, <2>3
  <1>4. QED
    BY <1>3

LEMMA PeakIs ==
    ASSUME NEW curve \in Seq(Int), NEW i \in 1 .. Len(curve)
    PROVE  /\ PeakAt(curve, i) \in Int
           /\ \E k \in 1 .. i : PeakAt(curve, i) = curve[k]
           /\ \A k \in 1 .. i : curve[k] <= PeakAt(curve, i)
  <1>1. PICK S : S = {curve[k] : k \in 1 .. i}
    OBVIOUS
  <1>2. IsFiniteSet(S)
    <2>1. i \in Int /\ 1 \in Int
      OBVIOUS
    <2>2. IsFiniteSet(1 .. i)
      BY <2>1, FS_Interval
    <2>3. QED
      BY <1>1, <2>2, ImageFinite
  <1>3. S # {} /\ S \subseteq Int
    <2>1. \A k \in 1 .. i : curve[k] \in Int /\ curve[k] \in S
      BY <1>1
    <2>2. 1 \in 1 .. i
      OBVIOUS
    <2>3. QED
      BY <1>1, <2>1, <2>2
  <1>4. Max(S) \in S /\ \A y \in S : Max(S) >= y
    BY <1>2, <1>3, LargestExists
  <1>5. PICK p \in Int : p = Max(S) /\ p \in S /\ \A y \in S : y <= p
    BY <1>3, <1>4
  <1>6. PeakAt(curve, i) = p
    BY <1>1, <1>5 DEF PeakAt
  <1>7. QED
    BY <1>1, <1>5, <1>6

\* Every fall is a share, and there are finitely many.
LEMMA FallsAre ==
    ASSUME NEW curve \in Seq(Int), Len(curve) >= 1, curve[1] >= 0,
           NEW I, I = {j \in 1 .. Len(curve) : PeakAt(curve, j) # 0}
    PROVE  /\ IsFiniteSet(FallsFromPeak(curve)) /\ FallsFromPeak(curve) # {}
           /\ FallsFromPeak(curve) \subseteq Shares
           /\ FallsFromPeak(curve) =
                 {<<0, 1>>} \cup {<<PeakAt(curve, i) - curve[i], PeakAt(curve, i)>> : i \in I}
  <1>1. PICK n \in Nat : n = Len(curve) /\ DOMAIN curve = 1 .. n
    OBVIOUS
  <1>2. \A i \in 1 .. n : PeakAt(curve, i) \in Nat
    <2>1. SUFFICES ASSUME NEW i \in 1 .. n PROVE PeakAt(curve, i) \in Nat
      OBVIOUS
    <2>2. PeakAt(curve, i) \in Int /\ \A k \in 1 .. i : curve[k] <= PeakAt(curve, i)
      BY <1>1, PeakIs
    <2>3. 1 \in 1 .. i /\ curve[1] \in Int
      BY <1>1
    <2>4. QED
      BY <2>2, <2>3
  <1>3. {j \in DOMAIN curve : PeakAt(curve, j) # 0} = I /\ I \subseteq 1 .. n
    BY <1>1
  <1>4. PICK f : f = [i \in I |-> <<PeakAt(curve, i) - curve[i], PeakAt(curve, i)>>]
    OBVIOUS
  <1>5. PICK E : E = {f[i] : i \in I}
    OBVIOUS
  <1>6. FallsFromPeak(curve) = E \cup {<<0, 1>>}
    BY <1>3, <1>4, <1>5 DEF FallsFromPeak
  <1>7. IsFiniteSet(E \cup {<<0, 1>>})
    <2>1. IsFiniteSet(1 .. n)
      BY FS_Interval
    <2>2. IsFiniteSet(I)
      BY <1>3, <2>1, FS_Subset
    <2>3. IsFiniteSet(E)
      BY <1>5, <2>2, ImageFinite
    <2>4. QED
      BY <2>3, FS_AddElement
  <1>8. E \subseteq Shares
    <2>1. ASSUME NEW i \in I PROVE f[i] \in Shares
      <3>1. i \in 1 .. n /\ curve[i] \in Int /\ PeakAt(curve, i) # 0
        BY <1>1
      <3>2. PeakAt(curve, i) - curve[i] \in Int /\ PeakAt(curve, i) \in Nat \ {0}
        BY <1>2, <3>1
      <3>3. QED
        BY <1>4, <3>2 DEF Shares
    <2>2. QED
      BY <1>5, <2>1
  <1>9. <<0, 1>> \in Shares
    BY DEF Shares
  <1>10. E = {<<PeakAt(curve, i) - curve[i], PeakAt(curve, i)>> : i \in I}
    BY <1>4, <1>5
  <1>11. QED
    BY <1>6, <1>7, <1>8, <1>9, <1>10

\* What falls from a lower point falls by a lesser share.
LEMMA LesserFall ==
    ASSUME NEW f \in Int, NEW w \in Nat \ {0}, NEW p \in Nat \ {0}, NEW a \in Nat \ {0},
           NEW v \in Int, a <= p, (p - v) * w <= f * p, v >= 0 \/ p = a
    PROVE  (a - v) * w <= f * a
  <1>1. CASE p = a
    BY <1>1
  <1>2. CASE v >= 0
    <2>1. (a - v) * p <= (p - v) * a
      <3>1. v * a <= v * p
        BY <1>2
      <3>2. (a - v) * p = a * p - v * p /\ (p - v) * a = a * p - v * a
        OBVIOUS
      <3>3. v * a \in Int /\ v * p \in Int /\ a * p \in Int
        OBVIOUS
      <3>4. QED
        BY <3>1, <3>2, <3>3
    <2>2. a - v \in Int /\ p - v \in Int
      OBVIOUS
    <2>3. QED
      BY <2>1, <2>2, CompareThrough
  <1>3. QED
    BY <1>1, <1>2

\* The drawdown is a fall from a peak, and no fall from an earlier point is worse.
LEMMA DrawdownRead ==
    ASSUME NEW curve \in Seq(Int), Len(curve) >= 1, curve[1] >= 0,
           NEW m, m = MaxDrawdown(curve)
    PROVE  /\ \A i, j \in DOMAIN curve :
                 /\ i <= j /\ curve[i] > 0
                 /\ curve[j] >= 0 \/ \A k \in 1 .. j : curve[k] <= curve[i]
                 => ~Less(m, <<curve[i] - curve[j], curve[i]>>)
           /\ \/ m[1] = 0
              \/ \E i, j \in DOMAIN curve : i <= j /\ m = <<curve[i] - curve[j], curve[i]>>
  <1>1. PICK n \in Nat : n = Len(curve) /\ DOMAIN curve = 1 .. n
    OBVIOUS
  <1>2. PICK F : F = FallsFromPeak(curve)
    OBVIOUS
  <1>3. PICK I : /\ IsFiniteSet(F) /\ F # {} /\ F \subseteq Shares
                 /\ I = {j \in 1 .. n : PeakAt(curve, j) # 0}
                 /\ F = {<<0, 1>>} \cup {<<PeakAt(curve, i) - curve[i], PeakAt(curve, i)>> : i \in I}
    BY <1>1, <1>2, FallsAre
  <1>4. \E x \in F : \A y \in F : ~Less(x, y)
    <2>1. PICK x \in F : \A y \in F : AtLeast(x, y)
      BY <1>3, LargestShare
    <2>2. \A y \in F : ~Less(x, y)
      BY <1>3, <2>1, AtLeastIs
    <2>3. QED
      BY <2>2
  <1>5. m \in F /\ \A y \in F : ~Less(m, y)
    BY <1>2, <1>4, Zenon DEF MaxDrawdown
  <1>6. m \in Shares /\ \A y \in F : AtLeast(m, y)
    BY <1>3, <1>5, AtLeastIs
  <1>7. ASSUME NEW i \in 1 .. n, NEW j \in 1 .. n, i <= j, curve[i] > 0,
               curve[j] >= 0 \/ \A k \in 1 .. j : curve[k] <= curve[i]
        PROVE  ~Less(m, <<curve[i] - curve[j], curve[i]>>)
    <2>1. PICK f \in Int, w \in Nat \ {0} : f = m[1] /\ w = m[2]
      BY <1>6 DEF Shares
    <2>2. PICK v \in Int : v = curve[j]
      BY <1>1
    <2>3. PICK a \in Nat \ {0} : a = curve[i]
      <3>1. curve[i] \in Int
        BY <1>1
      <3>2. QED
        BY <1>7, <3>1
    <2>4. PICK p \in Nat \ {0} : /\ p = PeakAt(curve, j) /\ \A k \in 1 .. j : curve[k] <= p
                                 /\ \E k \in 1 .. j : p = curve[k]
      <3>1. /\ PeakAt(curve, j) \in Int
            /\ \E k \in 1 .. j : PeakAt(curve, j) = curve[k]
            /\ \A k \in 1 .. j : curve[k] <= PeakAt(curve, j)
        BY <1>1, PeakIs
      <3>2. PeakAt(curve, j) > 0
        <4>1. i \in 1 .. j
          BY <1>7
        <4>2. a <= PeakAt(curve, j)
          BY <2>3, <3>1, <4>1
        <4>3. QED
          BY <3>1, <4>2
      <3>3. PeakAt(curve, j) \in Nat \ {0}
        BY <3>1, <3>2
      <3>4. QED
        BY <3>1, <3>3
    <2>5. i \in 1 .. j /\ a <= p
      BY <1>7, <2>3, <2>4
    <2>6. v >= 0 \/ p = a
      <3>1. CASE curve[j] >= 0
        BY <2>2, <3>1
      <3>2. CASE \A k \in 1 .. j : curve[k] <= a
        <4>1. p <= a
          BY <2>4, <3>2
        <4>2. QED
          BY <2>5, <4>1
      <3>3. QED
        BY <1>7, <2>3, <3>1, <3>2
    <2>7. (p - v) * w <= f * p
      <3>1. j \in I
        BY <1>3, <2>4
      <3>2. <<p - v, p>> \in F
        BY <1>3, <2>2, <2>4, <3>1
      <3>3. AtLeast(m, <<p - v, p>>)
        BY <1>6, <3>2
      <3>4. QED
        BY <2>1, <3>3 DEF AtLeast
    <2>8. (a - v) * w <= f * a
      BY <2>5, <2>6, <2>7, LesserFall
    <2>9. AtLeast(m, <<a - v, a>>)
      BY <2>1, <2>8 DEF AtLeast
    <2>10. <<a - v, a>> \in Shares
      BY DEF Shares
    <2>11. ~Less(m, <<a - v, a>>)
      BY <1>6, <2>9, <2>10, AtLeastIs
    <2>12. QED
      BY <2>2, <2>3, <2>11
  <1>8. m[1] = 0 \/ \E i, j \in 1 .. n : i <= j /\ m = <<curve[i] - curve[j], curve[i]>>
    <2>1. CASE m = <<0, 1>>
      BY <2>1
    <2>2. CASE \E j \in I : m = <<PeakAt(curve, j) - curve[j], PeakAt(curve, j)>>
      <3>1. PICK j \in 1 .. n : m = <<PeakAt(curve, j) - curve[j], PeakAt(curve, j)>>
        BY <1>3, <2>2
      <3>2. PICK i \in 1 .. j : PeakAt(curve, j) = curve[i]
        BY <1>1, PeakIs
      <3>3. i \in 1 .. n /\ i <= j
        OBVIOUS
      <3>4. QED
        BY <3>1, <3>2, <3>3
    <2>3. QED
      BY <1>3, <1>5, <2>1, <2>2
  <1>9. QED
    BY <1>1, <1>7, <1>8

\* A tape of candles gives a backtest whose figures add up.
LEMMA BacktestRead ==
    ASSUME tape \in Seq(TapeCandles)
    PROVE  DrawdownIsWorstFall
  <1>1. SUFFICES ASSUME NEW kind \in Kinds,
                        NEW curve, curve = EquityCurve(TradesOf(kind, tape)),
                        NEW m, m = Metrics(kind, tape)
                 PROVE  /\ \A i, j \in DOMAIN curve :
                              /\ i <= j /\ curve[i] > 0
                              /\ curve[j] >= 0 \/ \A k \in 1 .. j : curve[k] <= curve[i]
                              => ~Less(m.drawdown, <<curve[i] - curve[j], curve[i]>>)
                        /\ \/ m.drawdown[1] = 0
                           \/ \E i, j \in DOMAIN curve :
                                 i <= j /\ m.drawdown = <<curve[i] - curve[j], curve[i]>>
                        /\ m.expectancy[1] = Last(curve) - StartingEquity
                        /\ m.profit[1] - m.profit[2] = m.expectancy[1]
                        /\ m.noTrade[1] + m.total <= m.noTrade[2]
    BY DEF DrawdownIsWorstFall, MetricsTrue
  <1>2. PICK ts \in Seq(BookedTrades) : ts = TradesOf(kind, tape)
    BY TradesType
  <1>3. curve = EquityCurve(ts)
    BY <1>1, <1>2
  <1>4. PICK wins, losses : /\ wins = {i \in DOMAIN ts : ts[i].pnl > 0}
                            /\ losses = {i \in DOMAIN ts : ts[i].pnl < 0}
    OBVIOUS
  <1>5. /\ m.drawdown = MaxDrawdown(curve)
        /\ m.total = Len(ts)
        /\ m.profit[1] = Total(ts, wins) /\ m.profit[2] = 0 - Total(ts, losses)
        /\ m.expectancy[1] = Total(ts, DOMAIN ts)
        /\ m.noTrade[1] = NoTrades(kind, tape) /\ m.noTrade[2] = Opportunities(kind, tape)
    BY <1>1, <1>2, <1>3, <1>4 DEF Metrics, BacktestMetrics
  <1>6. /\ curve \in Seq(Int) /\ Len(curve) = Len(ts) + 1 /\ curve[1] = StartingEquity
        /\ Last(curve) - StartingEquity = Total(ts, DOMAIN ts)
    BY <1>3, CurveIs
  <1>7. Len(curve) >= 1 /\ curve[1] >= 0
    <2>1. PICK k \in Nat : k = Len(ts)
      OBVIOUS
    <2>2. QED
      BY <1>6, <2>1, BacktestAssumption
  <1>8. /\ \A i, j \in DOMAIN curve :
              /\ i <= j /\ curve[i] > 0
              /\ curve[j] >= 0 \/ \A k \in 1 .. j : curve[k] <= curve[i]
              => ~Less(m.drawdown, <<curve[i] - curve[j], curve[i]>>)
        /\ \/ m.drawdown[1] = 0
           \/ \E i, j \in DOMAIN curve :
                 i <= j /\ m.drawdown = <<curve[i] - curve[j], curve[i]>>
    BY <1>5, <1>6, <1>7, DrawdownRead
  <1>9. m.profit[1] - m.profit[2] = m.expectancy[1]
    BY <1>4, <1>5, ProfitLessLoss
  <1>10. m.noTrade[1] + m.total <= m.noTrade[2]
    BY <1>2, <1>5, NoneAmong
  <1>11. QED
    BY <1>5, <1>6, <1>8, <1>9, <1>10

\* The tape holds candles.
TapeInv == tape \in Seq(TapeCandles)

LEMMA TapeStarts == Init => TapeInv
  BY DEF Init, BacktestInit, TapeInv

LEMMA CandleAppended ==
    ASSUME TapeInv, AppendCandle
    PROVE  \E c \in TapeCandles : tape' = Append(tape, c)
  <1>1. PICK b \in Bars :
            tape' = Append(tape, [start |-> StartOf(tape) + b.gap, open |-> b.open,
                                  high |-> b.high, low |-> b.low, close |-> b.close,
                                  volume |-> b.volume, complete |-> b.complete])
    BY DEF AppendCandle
  <1>2. /\ b.gap \in Int /\ b.open \in Int /\ b.high \in Int /\ b.low \in Int /\ b.close \in Int
        /\ b.volume \in Int /\ b.complete \in BOOLEAN
    BY BacktestAssumption
  <1>3. StartOf(tape) \in Int
    <2>1. CASE tape = <<>>
      BY <2>1 DEF StartOf
    <2>2. CASE tape # <<>>
      <3>1. tape[Len(tape)] \in TapeCandles
        BY <2>2 DEF TapeInv
      <3>2. tape[Len(tape)].start \in Int
        BY <3>1 DEF TapeCandles
      <3>3. QED
        BY <2>2, <3>2 DEF StartOf, Last
    <2>3. QED
      BY <2>1, <2>2
  <1>4. PICK s \in Int : s = StartOf(tape) + b.gap
    BY <1>2, <1>3
  <1>5. PICK c : c = [start |-> s, open |-> b.open, high |-> b.high, low |-> b.low,
                      close |-> b.close, volume |-> b.volume, complete |-> b.complete]
    OBVIOUS
  <1>6. c \in TapeCandles
    BY <1>2, <1>5 DEF TapeCandles
  <1>7. tape' = Append(tape, c)
    BY <1>1, <1>4, <1>5
  <1>8. QED
    BY <1>6, <1>7

LEMMA TapeStep == [Next]_vars => UNCHANGED tape \/ AppendCandle
  BY DEF Next, vars, BacktestNext

LEMMA TapeKept == TapeInv /\ [Next]_vars => TapeInv'
  <1> SUFFICES ASSUME TapeInv, [Next]_vars
               PROVE  TapeInv'
    OBVIOUS
  <1>1. CASE UNCHANGED tape
    BY <1>1 DEF TapeInv
  <1>2. CASE AppendCandle
    <2>1. PICK c \in TapeCandles : tape' = Append(tape, c)
      BY <1>2, CandleAppended
    <2>2. PICK T : T = TapeCandles
      OBVIOUS
    <2>3. tape \in Seq(T) /\ c \in T
      BY <2>2 DEF TapeInv
    <2>4. Append(tape, c) \in Seq(T)
      BY <2>3, OneMore
    <2>5. QED
      BY <2>1, <2>2, <2>4 DEF TapeInv
  <1>3. QED
    BY <1>1, <1>2, TapeStep

\* One step of NoLookAhead.
SeesNothingAhead ==
    \A kind \in Kinds :
       \/ TapeFails(Ordered(kind, tape'))
       \/ IsPrefix(TradesOf(kind, tape), TradesOf(kind, tape'))

LEMMA TapeLooks == TapeInv /\ [Next]_vars => [SeesNothingAhead]_tape
  <1> SUFFICES ASSUME TapeInv, [Next]_vars, AppendCandle
               PROVE  SeesNothingAhead
    BY TapeStep
  <1>1. PICK c \in TapeCandles : tape' = Append(tape, c)
    BY CandleAppended
  <1>2. \A kind : \/ TapeFails(Ordered(kind, tape'))
                  \/ IsPrefix(TradesOf(kind, tape), TradesOf(kind, tape'))
    BY <1>1, NothingAhead DEF TapeInv
  <1>3. QED
    BY <1>2 DEF SeesNothingAhead

\* Any candles, charges and scored levels: the drawdown of a backtest is its worst fall, its
\* figures add up to its equity, and a candle added to the tape changes no trade made before it.
THEOREM BacktestIsSound == Spec => BacktestSound
  <1>1. Spec => []TapeInv
    BY TapeStarts, TapeKept, PTL DEF Spec
  <1>2. TapeInv => (desk = "tape" => DrawdownIsWorstFall)
    BY BacktestRead DEF TapeInv
  <1>3. Spec => [](desk = "tape" => DrawdownIsWorstFall)
    BY <1>1, <1>2, PTL
  <1>4. Spec => [][SeesNothingAhead]_tape
    BY <1>1, TapeLooks, PTL DEF Spec
  <1>5. QED
    BY <1>3, <1>4, PTL DEF BacktestSound, NoLookAhead, SeesNothingAhead
=============================================================================
