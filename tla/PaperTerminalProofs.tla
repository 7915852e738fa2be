------------------------- MODULE PaperTerminalProofs -------------------------
(***************************************************************************)
(* Proofs about PaperTerminal, for every set of symbols, prices, lots and  *)
(* settings.  Types are kept by any number of threads; the other           *)
(* properties when requests are served one at a time, which is all that    *)
(* the code can promise without a lock.                                    *)
(***************************************************************************)
EXTENDS PaperTerminal, SumLemmas

(***************************************************************************)
(* Types, for any number of threads.                                       *)
(***************************************************************************)
\* The steps of a request.
LEMMA LabelsAre ==
    /\ "idle" \in Labels /\ "check" \in Labels /\ "find" \in Labels
    /\ "append" \in Labels /\ "lot" \in Labels /\ "average" \in Labels
    /\ "read" \in Labels /\ "write" \in Labels /\ "partial" \in Labels
    /\ "reduce" \in Labels /\ "close" \in Labels /\ "filter" \in Labels
    /\ "assign" \in Labels /\ "trade" \in Labels /\ "loop" \in Labels
    /\ "deposit" \in Labels /\ "raise" \in Labels /\ "update" \in Labels
    /\ "defaults" \in Labels
  BY DEF Labels

\* A thread that serves nothing has well-formed locals.
LEMMA IdleType ==
    /\ Idle \in Locals /\ Prepared(Idle) /\ ~Idle.auto
    /\ Idle.at = "idle" /\ Idle.then = "idle" /\ Ahead(Idle) = "idle"
    /\ Idle.found = {} /\ Idle.loop = {} /\ Idle.keep = {}
    /\ Idle.amount = 0 /\ Idle.held = 0 /\ Idle.pnl = 0
  <1>1. NoStops \in Levels
    BY DEF NoStops, Levels
  <1>2. Idle \in Locals
    BY <1>1 DEF Idle, Locals, Labels
  <1>3. QED
    BY <1>2 DEF Idle, Prepared, Ahead, BuySteps

\* A step of one thread keeps the types of the others' locals.
LEMMA ServeTyped ==
    ASSUME Typed, NEW t \in Threads, NEW w \in Locals, Serve(t, w), Prepared(w)',
           DOMAIN heap \subseteq DOMAIN heap', heap' \in Seq(Dicts),
           open' \subseteq DOMAIN heap',
           starting' \in Nat, cash' \in Int, autos' \in Nat, slack' \in Nat,
           trades' \in Seq([pnl : Int, today : BOOLEAN]),
           settings' \in SettingsType, kill' \in BOOLEAN,
           quotes' \in [Symbols -> Prices \cup {0}]
    PROVE  Typed'
  <1>1. work' \in [Threads -> Locals] /\ work'[t] = w
        /\ \A u \in Threads \ {t} : work'[u] = work[u]
    BY DEF Typed, Serve
  <1>2. ASSUME NEW u \in Threads PROVE Prepared(work[u])'
    <2>1. CASE u = t
      <3>1. work'[u] = w
        BY <1>1, <2>1
      <3>2. QED
        BY <3>1 DEF Prepared
    <2>2. CASE u # t
      <3>1. work'[u] = work[u] /\ Prepared(work[u])
        BY <1>1, <2>2 DEF Typed
      <3>2. PICK v : v = work[u]
        OBVIOUS
      <3>3. Prepared(v)'
        BY <3>1, <3>2 DEF Prepared
      <3>4. QED
        BY <3>1, <3>2, <3>3 DEF Prepared
    <2>3. QED
      BY <2>1, <2>2
  <1>3. QED
    BY <1>1, <1>2 DEF Typed

\* A step that only moves a thread's locals keeps the types.
LEMMA LocalTyped ==
    ASSUME Typed, NEW t \in Threads, NEW w \in Locals, Serve(t, w), Prepared(w),
           UNCHANGED <<account, context, history>>
    PROVE  Typed'
  <1>1. Prepared(w)'
    BY DEF account, Prepared
  <1>2. QED
    BY <1>1, ServeTyped DEF Typed, account, context, history

\* Ids and amounts are numbers.
LEMMA TerminalConstants ==
    /\ \A p \in Prices : p \in Nat /\ p > 0
    /\ \A q \in Lots : q \in Nat /\ q > 0
    /\ \A a \in TopUps : a \in Nat /\ a > 0
    /\ Balance \in Nat /\ Stops \subseteq Levels /\ Settings \subseteq SettingsType
  BY TerminalAssumption

\* What a thread's locals are.
LEMMA WorkType ==
    ASSUME Typed, NEW t \in Threads
    PROVE  work[t] \in Locals /\ Prepared(work[t])
  BY DEF Typed

\* The position at hand is a dict with shares and a price.
LEMMA FoundType ==
    ASSUME Typed, NEW t \in Threads, work[t].found # {}
    PROVE  /\ TheOne(t) \in work[t].found /\ work[t].found = {TheOne(t)}
           /\ TheOne(t) \in DOMAIN heap /\ heap[TheOne(t)] \in Dicts
  <1>1. TheOne(t) \in work[t].found
    BY DEF TheOne
  <1>2. /\ work[t].found \subseteq DOMAIN heap
        /\ \A i, j \in work[t].found : i = j
    BY WorkType DEF Prepared
  <1>3. heap[TheOne(t)] \in Dicts
    BY <1>1, <1>2 DEF Typed
  <1>4. QED
    BY <1>1, <1>2, <1>3

\* A non-empty set of positions has a first one.
LEMMA FirstType ==
    ASSUME NEW S, S \subseteq Nat
    PROVE  /\ First(S) \subseteq S /\ \A i, j \in First(S) : i = j
           /\ S # {} => First(S) # {}
  <1>1. CASE S = {}
    BY <1>1 DEF First
  <1>2. CASE S # {}
    <2>1. PICK m \in S : \A y \in S : <<y, m>> \notin OpToRel(<, Nat)
      BY <1>2, NatLessThanWellFounded, WFMin
    <2>2. \A y \in S : m <= y
      <3>1. \A y \in S : ~(y < m)
        BY <2>1 DEF OpToRel
      <3>2. QED
        BY <3>1
    <2>3. Min(S) \in S
      BY <2>2 DEF Min
    <2>4. QED
      BY <1>2, <2>3 DEF First
  <1>3. QED
    BY <1>1, <1>2

\* The positions of a symbol are numbered by the list.
LEMMA LongsType ==
    ASSUME Typed, NEW s
    PROVE  Longs(s) \subseteq DOMAIN heap /\ DOMAIN heap \subseteq Nat /\ Longs(s) \subseteq Nat
  BY DEF Typed, Longs

(***************************************************************************)
(* Requests keep the types.                                                *)
(***************************************************************************)
\* Cash that buys shares at a price.
LEMMA CostType ==
    ASSUME NEW p \in Nat, NEW q \in Nat
    PROVE  p * q \in Nat /\ - (p * q) \in Int
  OBVIOUS

\* A buy, by hand or automatic, starts with well-formed locals.
LEMMA BuyingType ==
    ASSUME NEW s \in Symbols, NEW q \in Nat \ {0}, NEW price \in Nat \ {0},
           NEW stops \in Levels, NEW auto \in BOOLEAN
    PROVE  /\ Buying(s, q, price, stops, auto) \in Locals
           /\ Prepared(Buying(s, q, price, stops, auto))
  <1>1. - price * q \in Int
    BY CostType
  <1>2. Idle \in Locals /\ Idle.found = {} /\ Idle.loop = {} /\ Idle.keep = {}
    BY IdleType
  <1> DEFINE w == Buying(s, q, price, stops, auto)
  <1>3. /\ w \in Locals /\ w.at = "check" /\ w.symbol = s /\ w.qty = q
        /\ w.price = price /\ w.found = {} /\ w.loop = {} /\ w.keep = {}
    BY <1>1, <1>2, LabelsAre DEF Buying, Locals, Labels
  <1> HIDE DEF w
  <1>4. Prepared(w)
    BY <1>3 DEF Prepared, Ahead, BuySteps
  <1>5. QED
    BY <1>3, <1>4 DEF w

\* A manual buy keeps the types.
LEMMA BuyTyped ==
    ASSUME Typed, NEW t \in Threads, NEW s \in Symbols, NEW q \in Lots,
           NEW price \in Prices, NEW stops \in Stops, Buy(t, s, q, price, stops)
    PROVE  Typed'
  <1>1. /\ q \in Nat \ {0} /\ price \in Nat \ {0} /\ stops \in Levels
    BY TerminalConstants
  <1>2. PICK w : w = Buying(s, q, price, stops, FALSE)
    OBVIOUS
  <1>3. w \in Locals /\ Prepared(w)
    BY <1>1, <1>2, BuyingType
  <1>4. Serve(t, w) /\ UNCHANGED <<account, context, history>>
    BY <1>2 DEF Buy
  <1>5. QED
    BY <1>3, <1>4, LocalTyped

\* A generated bracket is made of numbers, and so is the quantity of the plan.
LEMMA PlanType ==
    ASSUME Typed, NEW entry \in Nat \ {0}
    PROVE  GeneratedStops(entry) \in Levels /\ AutoQuantity(entry) \in Int
  <1>1. /\ settings.quantity \in Int /\ settings.amount \in Int
        /\ settings.target \in Int /\ settings.stop \in Int
    BY DEF Typed, SettingsType
  <1>2. \A v \in Int, mode \in Modes : Distance(mode, entry, v) \in Int
    <2>1. \A v \in Int : 2 * entry * v + 10000 \in Int
      OBVIOUS
    <2>2. QED
      BY <2>1 DEF Distance
  <1>3. /\ entry - Distance(settings.stopMode, entry, settings.stop) \in Int
        /\ entry + Distance(settings.targetMode, entry, settings.target) \in Int
        /\ entry + Distance(settings.targetMode, entry, 2 * settings.target) \in Int
    BY SMTT(20), <1>1, <1>2 DEF Typed, SettingsType
  <1>4. GeneratedStops(entry) \in Levels
    BY <1>3 DEF GeneratedStops, Levels
  <1>5. AutoQuantity(entry) \in Int
    BY <1>1 DEF AutoQuantity
  <1>6. QED
    BY <1>4, <1>5

\* An automatic buy keeps the types: what it plans is at least one share at a price.
LEMMA AutoTradeTyped ==
    ASSUME Typed, NEW t \in Threads, NEW s \in Symbols, AutoTrade(t, s)
    PROVE  Typed'
  <1>1. quotes[s] \in Nat \ {0} /\ AutoQuantity(quotes[s]) >= 1
    BY TerminalConstants DEF Typed, AutoTrade, Armed
  <1>2. AutoQuantity(quotes[s]) \in Nat \ {0} /\ GeneratedStops(quotes[s]) \in Levels
    BY <1>1, PlanType
  <1>3. QED
    BY <1>1, <1>2, BuyingType, LocalTyped DEF AutoTrade

\* A sell takes a position that has a dict.
LEMMA SellTyped ==
    ASSUME Typed, NEW t \in Threads, NEW s \in Symbols, NEW q \in Lots,
           NEW price \in Prices, Sell(t, s, q, price)
    PROVE  Typed'
  <1>1. PICK i \in First(Longs(s)) :
            Serve(t, [Idle EXCEPT !.at = IF q < heap[i].qty THEN "partial" ELSE "close",
                                  !.qty = q, !.price = price, !.found = {i}])
    BY DEF Sell
  <1> DEFINE w == [Idle EXCEPT !.at = IF q < heap[i].qty THEN "partial" ELSE "close",
                               !.qty = q, !.price = price, !.found = {i}]
  <1>2. i \in DOMAIN heap /\ i \in Nat
    BY LongsType, FirstType
  <1>3. /\ w \in Locals /\ w.at \in {"partial", "close"} /\ w.found = {i}
        /\ w.loop = {} /\ w.keep = {}
    BY <1>2, IdleType, LabelsAre, TerminalConstants DEF Locals
  <1>4. UNCHANGED <<account, context, history>>
    BY DEF Sell
  <1> HIDE DEF w
  <1>5. Prepared(w)
    BY <1>2, <1>3 DEF Prepared, Ahead, BuySteps
  <1>6. QED
    BY <1>1, <1>3, <1>4, <1>5, LocalTyped DEF w

\* A close takes a position of the open list, at an entered or at its entry price.
LEMMA PositionCloseTyped ==
    ASSUME Typed, NEW t \in Threads, NEW i \in open, NEW price \in ExitPrices(i),
           PositionClose(t, i, price)
    PROVE  Typed'
  <1> DEFINE w == [Idle EXCEPT !.at = "close", !.price = price, !.found = {i}]
  <1>1. i \in DOMAIN heap /\ i \in Nat /\ heap[i] \in Dicts
    BY DEF Typed
  <1>2. price \in Nat
    BY <1>1, TerminalConstants DEF ExitPrices, Dicts
  <1>3. w \in Locals /\ w.at = "close" /\ w.found = {i} /\ w.loop = {} /\ w.keep = {}
    BY <1>1, <1>2, IdleType, LabelsAre DEF Locals
  <1>4. Serve(t, w) /\ UNCHANGED <<account, context, history>>
    BY DEF PositionClose
  <1> HIDE DEF w
  <1>5. Prepared(w)
    BY <1>1, <1>3 DEF Prepared, Ahead, BuySteps
  <1>6. QED
    BY <1>3, <1>4, <1>5, LocalTyped

\* A quote is kept and takes the open positions to evaluate.
LEMMA MarketQuoteTyped ==
    ASSUME Typed, NEW t \in Threads, NEW s \in Symbols, NEW price \in Prices,
           MarketQuote(t, s, price)
    PROVE  Typed'
  <1>1. open \subseteq DOMAIN heap /\ open \subseteq Nat
    BY DEF Typed
  <1>2. PICK w : w = [Idle EXCEPT !.at = "loop", !.symbol = s, !.price = price,
                                  !.loop = open]
    OBVIOUS
  <1>3. /\ w \in Locals /\ w.at = "loop" /\ w.found = {} /\ w.loop = open /\ w.keep = {}
    BY <1>1, <1>2, IdleType, LabelsAre, TerminalConstants DEF Locals
  <1>4. /\ Serve(t, w) /\ UNCHANGED <<account, settings, kill, history>>
        /\ quotes' = [quotes EXCEPT ![s] = price]
    BY <1>2 DEF MarketQuote
  <1>5. Prepared(w)'
    BY <1>1, <1>3, <1>4 DEF Prepared, Ahead, BuySteps, account
  <1>6. quotes' \in [Symbols -> Prices \cup {0}]
    BY <1>4 DEF Typed
  <1>7. QED
    BY <1>3, <1>4, <1>5, <1>6, ServeTyped DEF Typed, account, history

\* A deposit is an amount.
LEMMA BalanceAddTyped ==
    ASSUME Typed, NEW t \in Threads, NEW a \in TopUps, BalanceAdd(t, a)
    PROVE  Typed'
  <1> DEFINE w == [Idle EXCEPT !.at = "read", !.amount = a, !.then = "deposit"]
  <1>1. a \in Nat
    BY TerminalConstants
  <1>2. /\ w \in Locals /\ w.at = "read" /\ w.then = "deposit" /\ w.amount = a
        /\ w.found = {} /\ w.loop = {} /\ w.keep = {}
    <2>1. Idle \in Locals /\ Idle.found = {} /\ Idle.loop = {} /\ Idle.keep = {}
      BY IdleType
    <2>2. "read" \in Labels /\ "deposit" \in Labels /\ a \in Int
      BY <1>1 DEF Labels
    <2>3. w \in Locals
      BY <2>1, <2>2 DEF Locals
    <2>4. QED
      BY <1>1, <2>1, <2>3 DEF Locals
  <1>3. Serve(t, w) /\ UNCHANGED <<account, context, history>>
    BY DEF BalanceAdd
  <1> HIDE DEF w
  <1>4. Prepared(w)
    BY <1>1, <1>2 DEF Prepared, Ahead, BuySteps, AfterCash
  <1>5. QED
    BY <1>2, <1>3, <1>4, LocalTyped

\* A reset empties the account and keeps an amount to restart from.
LEMMA ResetTyped ==
    ASSUME Typed, NEW t \in Threads, NEW asked \in TopUps \cup {0}, Reset(t, asked)
    PROVE  Typed'
  <1> DEFINE b == IF asked > 0 THEN asked ELSE Balance
             w == [Idle EXCEPT !.at = "update", !.amount = b]
  <1>1. b \in Nat
    BY TerminalConstants
  <1> HIDE DEF b
  <1>2. /\ w \in Locals /\ w.at = "update" /\ w.amount \in Nat
        /\ w.found = {} /\ w.loop = {} /\ w.keep = {}
    <2>1. Idle \in Locals /\ Idle.found = {} /\ Idle.loop = {} /\ Idle.keep = {}
      BY IdleType
    <2>2. "update" \in Labels /\ b \in Int
      BY <1>1 DEF Labels
    <2>3. w \in Locals
      BY <2>1, <2>2 DEF Locals
    <2>4. QED
      BY <1>1, <2>1, <2>3 DEF Locals
  <1>3. /\ Serve(t, w) /\ UNCHANGED <<heap, context, history>>
        /\ starting' = 0 /\ cash' = 0 /\ open' = {} /\ trades' = <<>>
    BY DEF Reset, b
  <1> HIDE DEF w
  <1>4. Prepared(w)'
    BY <1>2 DEF Prepared, Ahead, BuySteps
  <1>5. QED
    BY <1>2, <1>3, <1>4, ServeTyped DEF Typed, context, history

\* Settings that are saved are settings, whatever was asked for.
LEMMA SettingsUpdateTyped ==
    ASSUME Typed, NEW t \in Threads, NEW asked \in Settings, SettingsUpdate(t, asked)
    PROVE  Typed'
  <1>1. asked \in SettingsType
    BY TerminalConstants
  <1>2. \A n \in Int : AtLeast(0, n) \in Int /\ AtLeast(1, n) \in Int
    BY DEF AtLeast
  <1>3. settings' \in SettingsType
    BY <1>1, <1>2 DEF SettingsUpdate, SettingsType
  <1>4. QED
    BY <1>3 DEF SettingsUpdate, Typed, account, history, Prepared

\* The kill switch is on or off.
LEMMA KillTyped ==
    ASSUME Typed, NEW t \in Threads, NEW enabled \in BOOLEAN, SetKillSwitch(t, enabled)
    PROVE  Typed'
  BY DEF SetKillSwitch, Typed, account, history, Prepared

(***************************************************************************)
(* The steps of a request keep the types.                                  *)
(***************************************************************************)
\* Comparing the cost with the balance keeps the types.
LEMMA CheckCostTyped ==
    ASSUME Typed, NEW t \in Threads, CheckCost(t)
    PROVE  Typed'
  <1>1. PICK v : v = work[t]
    OBVIOUS
  <1>2. v \in Locals /\ Prepared(v) /\ v.at = "check"
    BY <1>1, WorkType DEF CheckCost, At
  <1>3. PICK w : w = [v EXCEPT !.at = "find"]
    OBVIOUS
  <1>4. w \in Locals
    BY <1>2, <1>3, LabelsAre DEF Locals
  <1>5. Prepared(w)
    BY <1>2, <1>3 DEF Locals, Prepared, Ahead, BuySteps
  <1>6. (Serve(t, Idle) \/ Serve(t, w)) /\ UNCHANGED <<account, context, history>>
    BY <1>1, <1>3 DEF CheckCost
  <1>7. QED
    BY <1>4, <1>5, <1>6, IdleType, LocalTyped

\* What a buy finds of its symbol is a position with a dict, or nothing.
LEMMA FindExistingTyped ==
    ASSUME Typed, NEW t \in Threads, FindExisting(t)
    PROVE  Typed'
  <1>1. PICK v : v = work[t]
    OBVIOUS
  <1>2. v \in Locals /\ Prepared(v) /\ v.at = "find"
    BY <1>1, WorkType DEF FindExisting, At
  <1>3. PICK S : S = First(Longs(v.symbol))
    OBVIOUS
  <1>4. S \subseteq DOMAIN heap /\ S \subseteq Nat /\ \A i, j \in S : i = j
    BY <1>3, LongsType, FirstType
  <1>5. PICK l : l = IF S = {} THEN "append" ELSE "lot"
    OBVIOUS
  <1>6. PICK w : w = [v EXCEPT !.at = "read", !.found = S, !.then = l]
    OBVIOUS
  <1>7. w \in Locals
    <2>1. "read" \in Labels /\ l \in Labels /\ S \in SUBSET Nat
      BY <1>4, <1>5 DEF Labels
    <2>2. QED
      BY <1>2, <1>6, <2>1 DEF Locals
  <1>8. Prepared(w)
    <2>1. /\ w.at = "read" /\ w.found = S /\ w.then = l /\ w.symbol = v.symbol
          /\ w.qty = v.qty /\ w.price = v.price /\ w.loop = v.loop /\ w.keep = v.keep
      BY <1>2, <1>6 DEF Locals
    <2>2. Ahead(w) = l /\ Ahead(v) = "find"
      BY <1>2, <2>1 DEF Ahead
    <2>3. QED
      BY <1>2, <1>4, <1>5, <2>1, <2>2 DEF Prepared, BuySteps, AfterCash
  <1>9. Serve(t, w) /\ UNCHANGED <<account, context, history>>
    BY <1>1, <1>3, <1>5, <1>6 DEF FindExisting
  <1>10. QED
    BY <1>7, <1>8, <1>9, LocalTyped

\* A bought position has a dict with shares at a price.
LEMMA AppendPositionTyped ==
    ASSUME Typed, NEW t \in Threads, AppendPosition(t)
    PROVE  Typed'
  <1>1. PICK v : v = work[t]
    OBVIOUS
  <1>2. v \in Locals /\ Prepared(v) /\ v.at = "append"
    BY <1>1, WorkType DEF AppendPosition, At
  <1>3. PICK d : d = [symbol |-> v.symbol, qty |-> v.qty, entry |-> v.price,
                      stops |-> v.stops, today |-> TRUE]
    OBVIOUS
  <1>4. d \in Dicts
    BY <1>2, <1>3 DEF Prepared, Ahead, BuySteps, Locals, Dicts
  <1>5. heap' = Append(heap, d) /\ open' = open \cup {Len(heap')}
        /\ (autos' = autos + 1 \/ autos' = autos) /\ Serve(t, Idle)
        /\ UNCHANGED <<starting, cash, trades, context, slack>>
    BY <1>1, <1>3 DEF AppendPosition
  <1>6. heap \in Seq(Dicts) /\ open \subseteq DOMAIN heap
    BY DEF Typed
  <1>7. heap' \in Seq(Dicts) /\ DOMAIN heap \subseteq DOMAIN heap'
        /\ Len(heap') \in DOMAIN heap'
    BY <1>4, <1>5, <1>6
  <1>8. open' \subseteq DOMAIN heap'
    BY <1>5, <1>6, <1>7
  <1>9. Prepared(Idle)'
    BY IdleType DEF Prepared
  <1>10. autos \in Nat /\ autos' \in Nat
    BY <1>5 DEF Typed
  <1>11. starting' \in Nat /\ cash' \in Int /\ slack' \in Nat
         /\ trades' \in Seq([pnl : Int, today : BOOLEAN])
    BY <1>5 DEF Typed
  <1>12. settings' \in SettingsType /\ kill' \in BOOLEAN
         /\ quotes' \in [Symbols -> Prices \cup {0}]
    BY <1>5 DEF Typed, context
  <1>13. Idle \in Locals /\ Serve(t, Idle)
    BY <1>5, IdleType
  <1>14. QED
    BY <1>7, <1>8, <1>9, <1>10, <1>11, <1>12, <1>13, ServeTyped

\* The lot that is read has shares at a price.
LEMMA ReadLotTyped ==
    ASSUME Typed, NEW t \in Threads, ReadLot(t)
    PROVE  Typed'
  <1>1. PICK v, i : v = work[t] /\ i = TheOne(t)
    OBVIOUS
  <1>2. v \in Locals /\ Prepared(v) /\ v.at = "lot"
    BY <1>1, WorkType DEF ReadLot, At
  <1>3. heap[i] \in Dicts
    <2>1. v.found # {}
      BY <1>2 DEF Prepared, Ahead
    <2>2. QED
      BY <1>1, <2>1, FoundType
  <1>4. PICK q, e : q = heap[i].qty /\ e = heap[i].entry
    OBVIOUS
  <1>5. q \in Int /\ e \in Int /\ q > 0 /\ e > 0
    BY <1>3, <1>4 DEF Dicts
  <1>6. PICK w : w = [v EXCEPT !.at = "average", !.held = q, !.entry = e]
    OBVIOUS
  <1>7. w \in Locals
    <2>1. "average" \in Labels
      BY LabelsAre
    <2>2. QED
      BY <1>2, <1>5, <1>6, <2>1 DEF Locals
  <1>8. Prepared(w)
    <2>1. /\ w.at = "average" /\ w.found = v.found /\ w.symbol = v.symbol
          /\ w.qty = v.qty /\ w.price = v.price /\ w.loop = v.loop /\ w.keep = v.keep
          /\ w.held = q /\ w.entry = e
      BY <1>2, <1>6 DEF Locals
    <2>2. Ahead(w) = "average" /\ Ahead(v) = "lot"
      BY <1>2, <2>1 DEF Ahead
    <2>3. QED
      BY <1>2, <1>5, <2>1, <2>2 DEF Prepared, BuySteps
  <1>9. Serve(t, w) /\ UNCHANGED <<account, context, history>>
    BY <1>1, <1>4, <1>6 DEF ReadLot
  <1>10. QED
    BY <1>7, <1>8, <1>9, LocalTyped

\* Shares at a price are worth at least their number.
LEMMA ProductGrows ==
    ASSUME NEW a \in Nat \ {0}, NEW b \in Nat
    PROVE  a * b \in Nat /\ a * b >= b
  <1>1. a - 1 \in Nat /\ (a - 1) * b \in Nat /\ a * b = (a - 1) * b + b
    OBVIOUS
  <1>2. QED
    BY <1>1

\* An average of prices of at least a paisa is a price.
LEMMA AverageType ==
    ASSUME NEW total \in Nat, NEW n \in Nat \ {0}, total >= n,
           NEW a \in Averages(total, n)
    PROVE  a \in Nat \ {0} /\ 2 * (a * n - total) <= n /\ 2 * (total - a * n) <= n
  <1>1. a \in Int /\ 2 * (a * n - total) <= n /\ 2 * (total - a * n) <= n
    BY DEF Averages
  <1>2. ASSUME ~(a > 0) PROVE FALSE
    <2>1. PICK m : m = a * n
      OBVIOUS
    <2>2. PICK b : b = - a
      OBVIOUS
    <2>3. b \in Nat /\ b * n \in Nat /\ a * n = - (b * n)
      BY <1>1, <1>2, <2>2
    <2>4. m \in Int /\ m <= 0 /\ 2 * (total - m) <= n
      BY <1>1, <2>1, <2>3
    <2>5. QED
      BY <2>4
  <1>3. QED
    BY <1>1, <1>2

\* A position that grows keeps shares at a price: the average is at least a paisa.
LEMMA AverageLotTyped ==
    ASSUME Typed, NEW t \in Threads, AverageLot(t)
    PROVE  Typed'
  <1>1. PICK v, i : v = work[t] /\ i = TheOne(t)
    OBVIOUS
  <1>2. v \in Locals /\ Prepared(v) /\ v.at = "average"
    BY <1>1, WorkType DEF AverageLot, At
  <1>3. heap[i] \in Dicts /\ i \in DOMAIN heap
    <2>1. v.found # {}
      BY <1>2 DEF Prepared, Ahead
    <2>2. QED
      BY <1>1, <2>1, FoundType
  <1>4. /\ v.held \in Nat \ {0} /\ v.entry \in Nat \ {0}
        /\ v.qty \in Nat \ {0} /\ v.price \in Nat \ {0}
    BY <1>2 DEF Prepared, Ahead, BuySteps, Locals
  <1>5. PICK n, total : n = v.held + v.qty /\ total = v.entry * v.held + v.price * v.qty
    OBVIOUS
  <1>6. n \in Nat \ {0} /\ total \in Nat /\ total >= n
    <2>1. /\ v.entry * v.held \in Nat /\ v.entry * v.held >= v.held
          /\ v.price * v.qty \in Nat /\ v.price * v.qty >= v.qty
      BY <1>4, ProductGrows
    <2>2. QED
      BY <1>4, <1>5, <2>1
  <1>7. PICK a \in Averages(total, n) :
            heap' = [heap EXCEPT ![i] =
                       [heap[i] EXCEPT !.qty = n, !.entry = a,
                                       !.stops = Overwritten(heap[i].stops, v.stops)]]
    BY <1>1, <1>5 DEF AverageLot
  <1>8. a \in Nat \ {0}
    BY <1>6, AverageType
  <1>9. Overwritten(heap[i].stops, v.stops) \in Levels
    BY <1>2, <1>3 DEF Overwritten, Levels, Dicts, Locals
  <1>10. PICK d : d = [heap[i] EXCEPT !.qty = n, !.entry = a,
                                      !.stops = Overwritten(@, v.stops)]
    OBVIOUS
  <1>11. d \in Dicts
    <2>1. PICK p, o : p = heap[i] /\ o = Overwritten(heap[i].stops, v.stops)
      OBVIOUS
    <2>2. d = [p EXCEPT !.qty = n, !.entry = a, !.stops = o]
      BY <1>10, <2>1
    <2>3. p \in Dicts /\ o \in Levels /\ n \in Nat \ {0}
      BY <1>3, <1>6, <1>9, <2>1
    <2>4. QED
      BY <1>8, <2>2, <2>3 DEF Dicts
  <1>12. heap' = [heap EXCEPT ![i] = d]
    BY <1>7, <1>10
  <1>13. heap' \in Seq(Dicts) /\ DOMAIN heap \subseteq DOMAIN heap'
    BY <1>3, <1>11, <1>12 DEF Typed
  <1>14. /\ slack' = slack + n /\ (autos' = autos + 1 \/ autos' = autos)
         /\ Serve(t, Idle) /\ UNCHANGED <<starting, cash, open, trades, context>>
    BY <1>1, <1>5 DEF AverageLot
  <1>15. Prepared(Idle)'
    BY IdleType DEF Prepared
  <1>16. slack' \in Nat /\ autos' \in Nat
    BY <1>6, <1>14 DEF Typed
  <1>17. QED
    BY <1>13, <1>14, <1>15, <1>16, IdleType, ServeTyped DEF Typed, context

\* The balance that is read is an amount.
LEMMA ReadCashTyped ==
    ASSUME Typed, NEW t \in Threads, ReadCash(t)
    PROVE  Typed'
  <1>1. PICK v, c : v = work[t] /\ c = cash
    OBVIOUS
  <1>2. v \in Locals /\ Prepared(v) /\ v.at = "read" /\ c \in Int
    BY <1>1, WorkType DEF ReadCash, At, Typed
  <1>3. PICK w : w = [v EXCEPT !.at = "write", !.seen = c]
    OBVIOUS
  <1>4. w \in Locals
    BY <1>2, <1>3, LabelsAre DEF Locals
  <1>5. /\ w.at = "write" /\ w.then = v.then /\ w.found = v.found /\ w.loop = v.loop
        /\ w.keep = v.keep /\ w.symbol = v.symbol /\ w.qty = v.qty
        /\ w.price = v.price /\ w.held = v.held /\ w.amount = v.amount
    BY <1>2, <1>3 DEF Locals
  <1>6. Ahead(w) = v.then /\ Ahead(v) = v.then
    BY <1>2, <1>5 DEF Ahead
  <1>7. Prepared(w)
    BY <1>2, <1>5, <1>6 DEF Prepared
  <1>8. Serve(t, w) /\ UNCHANGED <<account, context, history>>
    BY <1>1, <1>3 DEF ReadCash
  <1>9. QED
    BY <1>4, <1>7, <1>8, LocalTyped

\* The balance that is written is an amount.
LEMMA WriteCashTyped ==
    ASSUME Typed, NEW t \in Threads, WriteCash(t)
    PROVE  Typed'
  <1>1. PICK v : v = work[t]
    OBVIOUS
  <1>2. v \in Locals /\ Prepared(v) /\ v.at = "write"
    BY <1>1, WorkType DEF WriteCash, At
  <1>3. PICK l : l = v.then
    OBVIOUS
  <1>4. l \in AfterCash /\ l \in Labels /\ Ahead(v) = l
    BY <1>2, <1>3 DEF Prepared, AfterCash, Labels, Ahead
  <1>5. PICK w : w = [v EXCEPT !.at = l]
    OBVIOUS
  <1>6. w \in Locals
    BY <1>2, <1>4, <1>5 DEF Locals
  <1>7. /\ w.at = l /\ w.found = v.found /\ w.loop = v.loop
        /\ w.keep = v.keep /\ w.symbol = v.symbol /\ w.qty = v.qty
        /\ w.price = v.price /\ w.held = v.held /\ w.amount = v.amount
    BY <1>2, <1>5 DEF Locals
  <1>8. Ahead(w) = l
    BY <1>4, <1>7 DEF Ahead, AfterCash
  <1>9. /\ cash' = v.seen + v.amount /\ Serve(t, w)
        /\ UNCHANGED <<starting, open, trades, heap, context, history>>
    BY <1>1, <1>3, <1>5 DEF WriteCash
  <1>10. Prepared(w)'
    BY <1>2, <1>4, <1>7, <1>8, <1>9 DEF Prepared, AfterCash
  <1>11. cash' \in Int
    BY <1>2, <1>9 DEF Locals
  <1>12. QED
    BY <1>6, <1>9, <1>10, <1>11, ServeTyped DEF Typed, context, history

\* A part of a position is less than all of it.
LEMMA PartialCloseTyped ==
    ASSUME Typed, NEW t \in Threads, PartialClose(t)
    PROVE  Typed'
  <1>1. PICK v, i : v = work[t] /\ i = TheOne(t)
    OBVIOUS
  <1>2. v \in Locals /\ Prepared(v) /\ v.at = "partial"
    BY <1>1, WorkType DEF PartialClose, At
  <1>3. v.found # {}
    BY <1>2 DEF Prepared, Ahead
  <1>4. heap[i] \in Dicts
    BY <1>1, <1>3, FoundType
  <1>5. PICK a, g, h : /\ a = v.price * v.qty /\ g = (v.price - heap[i].entry) * v.qty
                       /\ h = heap[i].qty - v.qty
    OBVIOUS
  <1>6. v.price \in Int /\ v.qty \in Int /\ heap[i].entry \in Int /\ heap[i].qty \in Int
    BY <1>2, <1>4 DEF Locals, Dicts
  <1>7. a \in Int /\ g \in Int /\ h \in Int
    BY <1>5, <1>6
  <1>8. PICK w : w = [v EXCEPT !.at = "read", !.then = "reduce", !.amount = a,
                               !.pnl = g, !.held = h]
    OBVIOUS
  <1>9. w \in Locals
    <2>1. "read" \in Labels /\ "reduce" \in Labels
      BY DEF Labels
    <2>2. QED
      BY <1>2, <1>7, <1>8, <2>1 DEF Locals
  <1>10. /\ w.at = "read" /\ w.then = "reduce" /\ w.found = v.found /\ w.loop = v.loop
         /\ w.keep = v.keep /\ w.held = h
    BY <1>2, <1>8 DEF Locals
  <1>11. h > 0 => Prepared(w)
    BY <1>2, <1>3, <1>10 DEF Prepared, Ahead, BuySteps, AfterCash
  <1>12. /\ Serve(t, Idle) \/ (Serve(t, w) /\ v.qty < heap[i].qty)
         /\ UNCHANGED <<account, context, history>>
    BY <1>1, <1>5, <1>8 DEF PartialClose
  <1>13. v.qty < heap[i].qty => h > 0
    BY <1>5, <1>6
  <1>14. QED
    BY <1>9, <1>11, <1>12, <1>13, IdleType, LocalTyped

\* A position that shrinks keeps shares.
LEMMA ReduceTyped ==
    ASSUME Typed, NEW t \in Threads, Reduce(t)
    PROVE  Typed'
  <1>1. PICK v, i : v = work[t] /\ i = TheOne(t)
    OBVIOUS
  <1>2. v \in Locals /\ Prepared(v) /\ v.at = "reduce"
    BY <1>1, WorkType DEF Reduce, At
  <1>3. v.found # {} /\ v.held \in Nat \ {0}
    BY <1>2 DEF Prepared, Ahead, Locals
  <1>4. heap[i] \in Dicts /\ i \in DOMAIN heap
    BY <1>1, <1>3, FoundType
  <1>5. PICK w : w = [v EXCEPT !.at = "trade"]
    OBVIOUS
  <1>6. w \in Locals
    BY <1>2, <1>5, LabelsAre DEF Locals
  <1>7. w.at = "trade" /\ w.found = v.found /\ w.loop = v.loop /\ w.keep = v.keep
    BY <1>2, <1>5 DEF Locals
  <1>8. PICK d : d = [heap[i] EXCEPT !.qty = v.held]
    OBVIOUS
  <1>9. d \in Dicts
    BY <1>3, <1>4, <1>8 DEF Dicts
  <1>10. /\ heap' = [heap EXCEPT ![i] = d] /\ Serve(t, w)
         /\ UNCHANGED <<starting, cash, open, trades, context, history>>
    BY <1>1, <1>5, <1>8 DEF Reduce
  <1>11. heap' \in Seq(Dicts) /\ DOMAIN heap' = DOMAIN heap
    BY <1>4, <1>9, <1>10 DEF Typed
  <1>12. Prepared(w)'
    BY <1>2, <1>7, <1>11 DEF Prepared, Ahead, BuySteps
  <1>13. QED
    BY <1>6, <1>10, <1>11, <1>12, ServeTyped DEF Typed, context, history

\* What a close is paid and earns are amounts.
LEMMA ClosePositionTyped ==
    ASSUME Typed, NEW t \in Threads, ClosePosition(t)
    PROVE  Typed'
  <1>1. PICK v, i : v = work[t] /\ i = TheOne(t)
    OBVIOUS
  <1>2. v \in Locals /\ Prepared(v) /\ v.at = "close"
    BY <1>1, WorkType DEF ClosePosition, At
  <1>3. v.found # {}
    BY <1>2 DEF Prepared, Ahead
  <1>4. heap[i] \in Dicts
    BY <1>1, <1>3, FoundType
  <1>5. PICK a, g : /\ a = v.price * heap[i].qty
                    /\ g = (v.price - heap[i].entry) * heap[i].qty
    OBVIOUS
  <1>6. v.price \in Int /\ heap[i].entry \in Int /\ heap[i].qty \in Int
    BY <1>2, <1>4 DEF Locals, Dicts
  <1>7. a \in Int /\ g \in Int
    BY <1>5, <1>6
  <1>8. PICK w : w = [v EXCEPT !.at = "read", !.then = "filter", !.amount = a, !.pnl = g]
    OBVIOUS
  <1>9. PICK x : x = [v EXCEPT !.at = "loop"]
    OBVIOUS
  <1>10. w \in Locals
    <2>1. "read" \in Labels /\ "filter" \in Labels
      BY DEF Labels
    <2>2. QED
      BY <1>2, <1>7, <1>8, <2>1 DEF Locals
  <1>11. x \in Locals
    BY <1>2, <1>9, LabelsAre DEF Locals
  <1>12. /\ w.at = "read" /\ w.then = "filter" /\ w.found = v.found /\ w.loop = v.loop
         /\ w.keep = v.keep
    BY <1>2, <1>8 DEF Locals
  <1>13. x.at = "loop" /\ x.found = v.found /\ x.loop = v.loop /\ x.keep = v.keep
    BY <1>2, <1>9 DEF Locals
  <1>14. Prepared(w) /\ Prepared(x)
    BY <1>2, <1>3, <1>12, <1>13 DEF Prepared, Ahead, BuySteps, AfterCash
  <1>15. /\ Serve(t, w) \/ Serve(t, x)
         /\ UNCHANGED <<account, context, history>>
    BY <1>1, <1>5, <1>8, <1>9 DEF ClosePosition
  <1>16. QED
    BY <1>10, <1>11, <1>14, <1>15, LocalTyped

\* Positions that stay open have a dict.
LEMMA StillOpenTyped ==
    ASSUME Typed, NEW t \in Threads, StillOpen(t)
    PROVE  Typed'
  <1>1. PICK v, K : v = work[t] /\ K = open \ v.found
    OBVIOUS
  <1>2. v \in Locals /\ Prepared(v) /\ v.at = "filter"
    BY <1>1, WorkType DEF StillOpen, At
  <1>3. K \subseteq DOMAIN heap /\ K \in SUBSET Nat
    BY <1>1 DEF Typed
  <1>4. PICK w : w = [v EXCEPT !.at = "assign", !.keep = K]
    OBVIOUS
  <1>5. w \in Locals
    BY <1>2, <1>3, <1>4, LabelsAre DEF Locals
  <1>6. w.at = "assign" /\ w.found = v.found /\ w.loop = v.loop /\ w.keep = K
    BY <1>2, <1>4 DEF Locals
  <1>7. Prepared(w)
    BY <1>2, <1>3, <1>6 DEF Prepared, Ahead, BuySteps
  <1>8. Serve(t, w) /\ UNCHANGED <<account, context, history>>
    BY <1>1, <1>4 DEF StillOpen
  <1>9. QED
    BY <1>5, <1>7, <1>8, LocalTyped

\* The list that is assigned, however old, holds positions with a dict.
LEMMA AssignOpenTyped ==
    ASSUME Typed, NEW t \in Threads, AssignOpen(t)
    PROVE  Typed'
  <1>1. PICK v : v = work[t]
    OBVIOUS
  <1>2. v \in Locals /\ Prepared(v)
    BY <1>1, WorkType
  <1>3. PICK w : w = [v EXCEPT !.at = "trade"]
    OBVIOUS
  <1>4. w \in Locals
    BY <1>2, <1>3, LabelsAre DEF Locals
  <1>5. w.at = "trade" /\ w.found = v.found /\ w.loop = v.loop /\ w.keep = v.keep
    BY <1>2, <1>3 DEF Locals
  <1>6. /\ open' = v.keep /\ Serve(t, w)
        /\ UNCHANGED <<starting, cash, trades, heap, context, history>>
    BY <1>1, <1>3 DEF AssignOpen
  <1>7. Prepared(w)' /\ open' \subseteq DOMAIN heap'
    BY <1>2, <1>5, <1>6 DEF Prepared, Ahead, BuySteps
  <1>8. QED
    BY <1>4, <1>6, <1>7, ServeTyped DEF Typed, context, history

\* A closed trade has a profit or a loss.
LEMMA AppendTradeTyped ==
    ASSUME Typed, NEW t \in Threads, AppendTrade(t)
    PROVE  Typed'
  <1>1. PICK v, d : v = work[t] /\ d = [pnl |-> v.pnl, today |-> TRUE]
    OBVIOUS
  <1>2. v \in Locals /\ Prepared(v)
    BY <1>1, WorkType
  <1>3. PICK w : w = [v EXCEPT !.at = "loop"]
    OBVIOUS
  <1>4. w \in Locals
    BY <1>2, <1>3, LabelsAre DEF Locals
  <1>5. w.at = "loop" /\ w.found = v.found /\ w.loop = v.loop /\ w.keep = v.keep
    BY <1>2, <1>3 DEF Locals
  <1>6. /\ trades' = Append(trades, d) /\ Serve(t, w)
        /\ UNCHANGED <<starting, cash, open, heap, context, history>>
    BY <1>1, <1>3 DEF AppendTrade
  <1>7. Prepared(w)'
    BY <1>2, <1>5, <1>6 DEF Prepared, Ahead, BuySteps
  <1>8. d \in [pnl : Int, today : BOOLEAN]
    BY <1>1, <1>2 DEF Locals
  <1>9. trades' \in Seq([pnl : Int, today : BOOLEAN])
    BY <1>6, <1>8 DEF Typed
  <1>10. QED
    BY <1>4, <1>6, <1>7, <1>9, ServeTyped DEF Typed, context, history

\* The position that a quote evaluates next has a dict.
LEMMA EvaluateNextTyped ==
    ASSUME Typed, NEW t \in Threads, EvaluateNext(t)
    PROVE  Typed'
  <1>1. PICK v, S : v = work[t] /\ S = First(v.loop)
    OBVIOUS
  <1>2. v \in Locals /\ Prepared(v) /\ v.at = "loop"
    BY <1>1, WorkType DEF EvaluateNext, At
  <1>3. S \subseteq v.loop /\ \A i, j \in S : i = j
    BY <1>1, <1>2, FirstType DEF Locals
  <1>4. PICK R : R = v.loop \ S
    OBVIOUS
  <1>5. S \in SUBSET Nat /\ R \in SUBSET Nat /\ S \cup R \subseteq DOMAIN heap
    BY <1>2, <1>3, <1>4 DEF Locals, Prepared
  <1>6. PICK w, x : /\ w = [v EXCEPT !.at = "close", !.found = S, !.loop = R]
                    /\ x = [v EXCEPT !.loop = R]
    OBVIOUS
  <1>7. w \in Locals /\ x \in Locals
    BY <1>2, <1>5, <1>6, LabelsAre DEF Locals
  <1>8. /\ w.at = "close" /\ w.found = S /\ w.loop = R /\ w.keep = v.keep
        /\ x.at = "loop" /\ x.found = v.found /\ x.loop = R /\ x.keep = v.keep
    BY <1>2, <1>6 DEF Locals
  <1>9. (S # {} => Prepared(w)) /\ Prepared(x)
    BY <1>2, <1>3, <1>5, <1>8 DEF Prepared, Ahead, BuySteps
  <1>10. \/ Serve(t, Idle)
         \/ Serve(t, w) /\ S # {}
         \/ Serve(t, x)
    <2>1. PICK hit : hit = \E i \in S : heap[i].symbol = v.symbol /\ Hit(heap[i], v.price)
      OBVIOUS
    <2>2. Serve(t, CASE hit              -> w
                     [] ~hit /\ R # {} -> x
                     [] OTHER            -> Idle)
      BY <1>1, <1>4, <1>6, <2>1 DEF EvaluateNext
    <2>3. hit \in BOOLEAN /\ (hit => S # {})
      BY <2>1
    <2>4. QED
      BY <2>2, <2>3
  <1>11. UNCHANGED <<account, context, history>>
    BY DEF EvaluateNext
  <1>12. QED
    BY <1>7, <1>9, <1>10, <1>11, IdleType, LocalTyped

\* The starting balance that is read is not negative.
LEMMA ReadStartingTyped ==
    ASSUME Typed, NEW t \in Threads, ReadStarting(t)
    PROVE  Typed'
  <1>1. PICK v, b : v = work[t] /\ b = starting
    OBVIOUS
  <1>2. v \in Locals /\ Prepared(v) /\ v.at = "deposit" /\ b \in Nat
    BY <1>1, WorkType DEF ReadStarting, At, Typed
  <1>3. PICK w : w = [v EXCEPT !.at = "raise", !.seen = b]
    OBVIOUS
  <1>4. w \in Locals
    <2>1. "raise" \in Labels /\ b \in Int
      BY <1>2 DEF Labels
    <2>2. QED
      BY <1>2, <1>3, <2>1 DEF Locals
  <1>5. /\ w.at = "raise" /\ w.found = v.found /\ w.loop = v.loop /\ w.keep = v.keep
        /\ w.seen = b /\ w.amount = v.amount
    BY <1>2, <1>3 DEF Locals
  <1>6. Prepared(w)
    BY <1>2, <1>5 DEF Prepared, Ahead, BuySteps
  <1>7. Serve(t, w) /\ UNCHANGED <<account, context, history>>
    BY <1>1, <1>3 DEF ReadStarting
  <1>8. QED
    BY <1>4, <1>6, <1>7, LocalTyped

\* The starting balance that is written is not negative.
LEMMA RaiseStartingTyped ==
    ASSUME Typed, NEW t \in Threads, RaiseStarting(t)
    PROVE  Typed'
  <1>1. PICK v : v = work[t]
    OBVIOUS
  <1>2. v \in Locals /\ Prepared(v) /\ v.at = "raise"
    BY <1>1, WorkType DEF RaiseStarting, At
  <1>3. v.seen \in Nat /\ v.amount \in Nat
    BY <1>2 DEF Prepared, Ahead
  <1>4. /\ starting' = v.seen + v.amount /\ Serve(t, Idle)
        /\ UNCHANGED <<cash, open, trades, heap, context, history>>
    BY <1>1 DEF RaiseStarting
  <1>5. Prepared(Idle)'
    BY IdleType DEF Prepared
  <1>6. QED
    BY <1>3, <1>4, <1>5, IdleType, ServeTyped DEF Typed, context, history

\* A reset restarts from the amount it kept.
LEMMA UpdateAccountTyped ==
    ASSUME Typed, NEW t \in Threads, UpdateAccount(t)
    PROVE  Typed'
  <1>1. PICK v : v = work[t]
    OBVIOUS
  <1>2. v \in Locals /\ Prepared(v) /\ v.at = "update"
    BY <1>1, WorkType DEF UpdateAccount, At
  <1>3. v.amount \in Nat
    BY <1>2 DEF Prepared, Ahead
  <1>4. PICK w : w = [v EXCEPT !.at = "defaults"]
    OBVIOUS
  <1>5. w \in Locals
    BY <1>2, <1>4, LabelsAre DEF Locals
  <1>6. w.at = "defaults" /\ w.found = v.found /\ w.loop = v.loop /\ w.keep = v.keep
    BY <1>2, <1>4 DEF Locals
  <1>7. /\ starting' = v.amount /\ cash' = v.amount /\ open' = {} /\ trades' = <<>>
        /\ autos' = 0 /\ slack' = 0 /\ Serve(t, w) /\ UNCHANGED <<heap, context>>
    BY <1>1, <1>4 DEF UpdateAccount
  <1>8. Prepared(w)'
    BY <1>2, <1>6, <1>7 DEF Prepared, Ahead, BuySteps
  <1>9. QED
    BY <1>3, <1>5, <1>7, <1>8, ServeTyped DEF Typed, context

\* The default settings are settings.
LEMMA DefaultsType == Defaults \in SettingsType
  BY DEF Defaults, SettingsType, Modes

\* The default settings are settings.
LEMMA RestoreDefaultsTyped ==
    ASSUME Typed, NEW t \in Threads, RestoreDefaults(t)
    PROVE  Typed'
  <1>1. /\ settings' = Defaults /\ Serve(t, Idle)
        /\ UNCHANGED <<account, kill, quotes, history>>
    BY DEF RestoreDefaults
  <1>2. Prepared(Idle)'
    BY IdleType DEF Prepared
  <1>3. QED
    BY <1>1, <1>2, DefaultsType, IdleType, ServeTyped DEF Typed, account, history

\* A new day keeps positions and trades.
LEMMA NewDayTyped ==
    ASSUME Typed, NewDay
    PROVE  Typed'
  <1>1. PICK T : T = [pnl : Int, today : BOOLEAN]
    OBVIOUS
  <1>2. /\ heap \in Seq(Dicts) /\ trades \in Seq(T)
        /\ Len(heap) \in Nat /\ Len(trades) \in Nat
        /\ DOMAIN heap = 1 .. Len(heap) /\ DOMAIN trades = 1 .. Len(trades)
    BY <1>1 DEF Typed
  <1>3. \A d \in Dicts : [d EXCEPT !.today = FALSE] \in Dicts
    BY DEF Dicts
  <1>4. \A d \in T : [d EXCEPT !.today = FALSE] \in T
    BY <1>1
  <1>5. \A i \in 1 .. Len(heap) : heap[i] \in Dicts
    BY <1>2
  <1>6. \A k \in 1 .. Len(trades) : trades[k] \in T
    BY <1>2
  <1>7. heap' \in [1 .. Len(heap) -> Dicts]
    BY <1>2, <1>3, <1>5 DEF NewDay
  <1>8. trades' \in [1 .. Len(trades) -> T]
    BY <1>2, <1>4, <1>6 DEF NewDay
  <1>9. heap' \in Seq(Dicts) /\ DOMAIN heap' = DOMAIN heap
    BY <1>2, <1>7
  <1>10. trades' \in Seq(T)
    BY <1>2, <1>8
  <1>11. autos' = 0 /\ UNCHANGED <<starting, cash, open, context, work, slack>>
    BY DEF NewDay
  <1>12. \A t \in Threads : Prepared(work[t])'
    BY <1>9, <1>11 DEF Typed, Prepared
  <1>13. QED
    BY <1>1, <1>9, <1>10, <1>11, <1>12 DEF Typed, context

(***************************************************************************)
(* The types are invariant.                                                *)
(***************************************************************************)
\* An account that nobody has used is typed.
LEMMA InitTyped == Init => Typed
  <1>1. SUFFICES ASSUME Init PROVE Typed
    OBVIOUS
  <1>2. work \in [Threads -> Locals] /\ \A t \in Threads : Prepared(work[t])
    BY <1>1, IdleType DEF Init
  <1>3. heap \in Seq(Dicts) /\ trades \in Seq([pnl : Int, today : BOOLEAN])
    BY <1>1 DEF Init
  <1>4. quotes \in [Symbols -> Prices \cup {0}]
    BY <1>1 DEF Init
  <1>5. starting \in Nat /\ cash \in Int /\ autos \in Nat /\ slack \in Nat
    BY <1>1, TerminalConstants DEF Init
  <1>6. open \subseteq DOMAIN heap /\ settings \in SettingsType /\ kill \in BOOLEAN
    BY <1>1, DefaultsType DEF Init
  <1>7. QED
    BY <1>2, <1>3, <1>4, <1>5, <1>6 DEF Typed

\* Every request keeps the types.
LEMMA RequestTyped ==
    ASSUME Typed, NEW t \in Threads, Request(t)
    PROVE  Typed'
  BY BuyTyped, AutoTradeTyped, SellTyped, PositionCloseTyped, MarketQuoteTyped,
     BalanceAddTyped, ResetTyped, SettingsUpdateTyped, KillTyped DEF Request

\* Every step of a request keeps the types.
LEMMA StepTyped ==
    ASSUME Typed, NEW t \in Threads, Step(t)
    PROVE  Typed'
  BY CheckCostTyped, FindExistingTyped, AppendPositionTyped, ReadLotTyped,
     AverageLotTyped, ReadCashTyped, WriteCashTyped, PartialCloseTyped, ReduceTyped,
     ClosePositionTyped, StillOpenTyped, AssignOpenTyped, AppendTradeTyped,
     EvaluateNextTyped, ReadStartingTyped, RaiseStartingTyped, UpdateAccountTyped,
     RestoreDefaultsTyped DEF Step

\* Every step keeps the types.
LEMMA NextTyped == Typed /\ [Next]_vars => Typed'
  <1>1. SUFFICES ASSUME Typed, [Next]_vars PROVE Typed'
    OBVIOUS
  <1>2. CASE \E t \in Threads : Request(t) \/ Step(t)
    BY <1>1, <1>2, RequestTyped, StepTyped
  <1>3. CASE NewDay
    BY <1>1, <1>3, NewDayTyped
  <1>4. CASE UNCHANGED vars
    BY <1>1, <1>4 DEF Typed, vars, Prepared
  <1>5. QED
    BY <1>1, <1>2, <1>3, <1>4 DEF Next

\* The locals of a request are what its next step needs, however many threads
\* serve requests.
THEOREM TypedInvariant == Spec => []Typed
  BY InitTyped, NextTyped, PTL DEF Spec

\* A set whose members are equal has at most one.
LEMMA AtMostOne ==
    ASSUME NEW S, \A i, j \in S : i = j
    PROVE  Cardinality(S) <= 1
  <1>1. CASE S = {}
    BY <1>1, FS_EmptySet
  <1>2. ASSUME NEW x \in S PROVE Cardinality(S) <= 1
    <2>1. S = {x}
      OBVIOUS
    <2>2. QED
      BY <2>1, FS_Singleton
  <1>3. QED
    BY <1>1, <1>2

\* TypeOK, for every number of threads: open positions have a dict and hold
\* shares at a price, whichever steps of other requests run in between.
THEOREM TypesAreKept == Spec => []TypeOK
  <1>1. Typed => TypeOK
    <2>1. SUFFICES ASSUME Typed PROVE TypeOK
      OBVIOUS
    <2>2. ASSUME NEW i \in DOMAIN heap
          PROVE  heap[i].symbol \in Symbols /\ heap[i].qty \in Nat \ {0}
                 /\ heap[i].entry \in Nat \ {0}
      <3>1. heap[i] \in Dicts
        BY <2>1 DEF Typed
      <3>2. QED
        BY <3>1 DEF Dicts
    <2>3. ASSUME NEW t \in Threads
          PROVE  /\ work[t].at \in Labels
                 /\ work[t].found \cup work[t].loop \cup work[t].keep \subseteq DOMAIN heap
                 /\ Cardinality(work[t].found) <= 1
      <3>1. work[t] \in Locals /\ Prepared(work[t])
        BY <2>1, WorkType
      <3>2. Cardinality(work[t].found) <= 1
        BY <3>1, AtMostOne DEF Prepared
      <3>3. QED
        BY <3>1, <3>2 DEF Prepared, Locals
    <2>4. QED
      BY <2>1, <2>2, <2>3 DEF Typed, TypeOK
  <1>2. QED
    BY <1>1, TypedInvariant, PTL

(***************************************************************************)
(* Requests served one at a time.  Without a lock this is what the other   *)
(* properties rest on: a run with two threads shows that money is lost.    *)
(***************************************************************************)
OneThread == \E t : Threads = {t}

\* What Serial says of the request at hand.
Sound(w) == /\ Current(w) /\ Exact(w) /\ Funded(w)
            /\ Planned(w) /\ Counted(w) /\ Balanced(w)

\* The cost of a position, the sums of a balance and the trades of a day.
Costs == [i \in open |-> heap[i].qty * heap[i].entry]

Pnls == [k \in DOMAIN trades |-> trades[k].pnl]

TodaysOpen == {i \in open : heap[i].today}

TodaysTrades == {k \in DOMAIN trades : trades[k].today}

\* The sums and counts of a state with types.
LEMMA SumsType ==
    ASSUME Typed
    PROVE  /\ IsFiniteSet(open) /\ Summable(Costs, open) /\ Invested = SumFunction(Costs)
           /\ Summable(Pnls, DOMAIN trades) /\ Realized = SumFunction(Pnls)
           /\ Invested \in Int /\ Realized \in Int
           /\ IsFiniteSet(TodaysOpen) /\ IsFiniteSet(TodaysTrades)
           /\ Cardinality(TodaysOpen) \in Nat /\ Cardinality(TodaysTrades) \in Nat
           /\ TradesToday = Cardinality(TodaysTrades) + Cardinality(TodaysOpen)
           /\ TradesToday \in Nat /\ Gap \in Int
  <1>1. /\ Len(heap) \in Nat /\ DOMAIN heap = 1 .. Len(heap)
        /\ Len(trades) \in Nat /\ DOMAIN trades = 1 .. Len(trades)
    BY DEF Typed
  <1>2. IsFiniteSet(DOMAIN heap) /\ IsFiniteSet(DOMAIN trades)
    BY <1>1, FS_Interval
  <1>3. open \subseteq DOMAIN heap /\ IsFiniteSet(open)
    BY <1>2, FS_Subset DEF Typed
  <1>4. \A i \in open : heap[i].qty * heap[i].entry \in Int
    <2>1. ASSUME NEW i \in open PROVE heap[i].qty * heap[i].entry \in Int
      <3>1. heap[i] \in Dicts
        BY <1>3 DEF Typed
      <3>2. heap[i].qty \in Int /\ heap[i].entry \in Int
        BY <3>1 DEF Dicts
      <3>3. QED
        BY <3>2
    <2>2. QED
      BY <2>1
  <1>5. Summable(Costs, open)
    BY <1>3, <1>4 DEF Summable, Costs
  <1>6. \A k \in DOMAIN trades : trades[k].pnl \in Int
    <2>1. PICK T : T = [pnl : Int, today : BOOLEAN]
      OBVIOUS
    <2>2. trades \in Seq(T)
      BY <2>1 DEF Typed
    <2>3. \A k \in DOMAIN trades : trades[k] \in T
      BY <2>2
    <2>4. QED
      BY <2>1, <2>3
  <1>7. Summable(Pnls, DOMAIN trades)
    BY <1>2, <1>6 DEF Summable, Pnls
  <1>8. Invested = SumFunction(Costs) /\ Realized = SumFunction(Pnls)
    BY DEF Invested, Realized, Costs, Pnls
  <1>9. Invested \in Int /\ Realized \in Int
    BY <1>5, <1>7, <1>8, SumType
  <1>10. IsFiniteSet(TodaysOpen) /\ IsFiniteSet(TodaysTrades)
    BY <1>2, <1>3, FS_Subset DEF TodaysOpen, TodaysTrades
  <1>11. Cardinality(TodaysOpen) \in Nat /\ Cardinality(TodaysTrades) \in Nat
    BY <1>10, FS_CardinalityType
  <1>12. TradesToday = Cardinality(TodaysTrades) + Cardinality(TodaysOpen)
    BY DEF TradesToday, TodaysOpen, TodaysTrades
  <1>13. Gap \in Int
    BY <1>9 DEF Gap, Typed
  <1>14. QED
    BY <1>3, <1>5, <1>7, <1>8, <1>9, <1>10, <1>11, <1>12, <1>13

\* The request at hand is sound.
LEMMA WorkSound ==
    ASSUME Serial, NEW t \in Threads
    PROVE  Sound(work[t])
  BY DEF Serial, Sound

\* With one thread, its new locals are all there is.
LEMMA OneServes ==
    ASSUME OneThread, Typed, NEW t \in Threads, NEW w, Serve(t, w),
           OnePerSymbol', Sound(w)'
    PROVE  Serial'
  <1>1. Threads = {t} /\ work'[t] = w
    BY DEF OneThread, Typed, Serve
  <1>2. \A u \in Threads : work'[u] = w
    BY <1>1
  <1>3. QED
    BY <1>2 DEF Serial, Sound, Current, Exact, Funded, Planned, Counted, Balanced

\* What is computed from the account is the same when the account is.
LEMMA SameAccount ==
    ASSUME UNCHANGED account
    PROVE  /\ Gap' = Gap /\ TradesToday' = TradesToday
           /\ \A s : Longs(s)' = Longs(s)
           /\ OnePerSymbol => OnePerSymbol'
  BY DEF account, Gap, Invested, Realized, TradesToday, Longs, OnePerSymbol

\* A step that only moves the thread's locals keeps what they are sound for.
LEMMA LocalSerial ==
    ASSUME OneThread, Typed, Serial, NEW t \in Threads, NEW w, Serve(t, w), Sound(w),
           UNCHANGED <<account, settings, history>>
    PROVE  Serial'
  <1>1. /\ Gap' = Gap /\ TradesToday' = TradesToday
        /\ Longs(w.symbol)' = Longs(w.symbol)
        /\ OnePerSymbol'
    BY SameAccount DEF Serial
  <1>2. Current(w)' /\ Exact(w)' /\ Funded(w)'
    BY <1>1 DEF Sound, Current, Exact, Funded, account
  <1>3. Planned(w)' /\ Counted(w)' /\ Balanced(w)'
    BY <1>1 DEF Sound, Planned, Counted, Balanced, account, history
  <1>4. QED
    BY <1>1, <1>2, <1>3, OneServes DEF Sound

\* A thread that serves nothing is sound when what is due was paid.
LEMMA IdleSound ==
    ASSUME cash >= 0, autos <= TradesToday, TradesToday \in Int, Gap \in Int,
           -slack <= 2 * Gap, 2 * Gap <= slack
    PROVE  Sound(Idle)
  <1>1. Idle.at = "idle" /\ Ahead(Idle) = "idle" /\ ~Idle.auto
    BY IdleType
  <1>2. Current(Idle) /\ Exact(Idle) /\ Funded(Idle) /\ Planned(Idle)
    BY <1>1 DEF Current, Exact, Funded, Planned, BuySteps
  <1>3. Counted(Idle) /\ Due(Idle) = 0
    BY <1>1 DEF Counted, Due
  <1>4. Balanced(Idle)
    BY <1>3 DEF Balanced
  <1>5. QED
    BY <1>2, <1>3, <1>4 DEF Sound

\* A request that is due nothing leaves the account as it should be.
LEMMA Settled ==
    ASSUME Typed, NEW v, Sound(v), v.at \notin {"update", "trade"}, Due(v) = 0
    PROVE  /\ cash >= 0 /\ autos <= TradesToday /\ TradesToday \in Int /\ Gap \in Int
           /\ -slack <= 2 * Gap /\ 2 * Gap <= slack
  <1>1. Gap \in Int /\ TradesToday \in Int /\ Gap - Due(v) = Gap
    BY SumsType
  <1>2. QED
    BY <1>1 DEF Sound, Funded, Counted, Balanced

\* New locals keep the counts when they are due the same.
LEMMA SameDue ==
    ASSUME Typed, NEW v, NEW w, Sound(v), v.at \notin {"update", "trade"},
           Due(w) = Due(v)
    PROVE  Counted(w) /\ Balanced(w)
  <1>1. TradesToday \in Int /\ autos <= TradesToday
    BY SumsType DEF Sound, Counted
  <1>2. autos \in Int /\ autos <= TradesToday + 1
    BY <1>1 DEF Typed
  <1>3. Counted(w)
    BY <1>1, <1>2 DEF Counted
  <1>4. QED
    BY <1>3 DEF Sound, Balanced

(***************************************************************************)
(* Requests served one at a time keep Serial.                              *)
(***************************************************************************)
\* A manual buy starts with the cost it will pay.
LEMMA BuySerial ==
    ASSUME OneThread, Typed, Serial, NEW t \in Threads, NEW s \in Symbols,
           NEW q \in Lots, NEW price \in Prices, NEW stops \in Stops,
           Buy(t, s, q, price, stops)
    PROVE  Serial'
  <1>1. PICK v, w : v = work[t] /\ w = Buying(s, q, price, stops, FALSE)
    OBVIOUS
  <1>2. Sound(v) /\ v.at = "idle"
    BY <1>1, WorkSound DEF Buy, At
  <1>3. /\ w.at = "check" /\ w.symbol = s /\ w.qty = q /\ w.price = price
        /\ ~w.auto /\ w.amount = - (price * q)
    BY <1>1, TerminalConstants, IdleType DEF Buying, Locals
  <1>4. Ahead(w) = "check" /\ Due(w) = 0 /\ Due(v) = 0
    BY <1>2, <1>3 DEF Ahead, Due
  <1>5. Current(w) /\ Exact(w) /\ Funded(w) /\ Planned(w)
    BY <1>2, <1>3, <1>4 DEF Sound, Current, Exact, Funded, Planned
  <1>6. Counted(w) /\ Balanced(w)
    BY <1>2, <1>4, SameDue
  <1>7. Serve(t, w) /\ UNCHANGED <<account, settings, history>>
    BY <1>1 DEF Buy, context
  <1>8. QED
    BY <1>5, <1>6, <1>7, LocalSerial DEF Sound

\* An automatic buy starts with a symbol that is not held and below the day's limit.
LEMMA AutoTradeSerial ==
    ASSUME OneThread, Typed, Serial, NEW t \in Threads, NEW s \in Symbols,
           AutoTrade(t, s)
    PROVE  Serial'
  <1>1. PICK v, q, p : v = work[t] /\ q = AutoQuantity(quotes[s]) /\ p = quotes[s]
    OBVIOUS
  <1>2. PICK w : w = Buying(s, q, p, GeneratedStops(p), TRUE)
    OBVIOUS
  <1>3. Sound(v) /\ v.at = "idle"
    BY <1>1, WorkSound DEF AutoTrade, At
  <1>4. p \in Nat \ {0} /\ q \in Int
    BY <1>1, TerminalConstants, PlanType DEF Typed, AutoTrade, Armed
  <1>5. /\ w.at = "check" /\ w.symbol = s /\ w.qty = q /\ w.price = p
        /\ w.found = {} /\ w.amount = - (p * q)
    BY <1>2, <1>4, IdleType DEF Buying, Locals
  <1>6. Ahead(w) = "check" /\ Due(w) = 0 /\ Due(v) = 0
    BY <1>3, <1>5 DEF Ahead, Due
  <1>7. Longs(s) = {} /\ TradesToday < settings.maxTrades
    BY DEF AutoTrade, Armed
  <1>8. Current(w) /\ Exact(w) /\ Funded(w) /\ Planned(w)
    BY <1>3, <1>5, <1>6, <1>7 DEF Sound, Current, Exact, Funded, Planned
  <1>9. Counted(w) /\ Balanced(w)
    BY <1>3, <1>6, SameDue
  <1>10. Serve(t, w) /\ UNCHANGED <<account, settings, history>>
    BY <1>1, <1>2 DEF AutoTrade, context
  <1>11. QED
    BY <1>8, <1>9, <1>10, LocalSerial DEF Sound

\* An exit or a quote starts with nothing bought, paid or computed.
LEMMA StartSerial ==
    ASSUME OneThread, Typed, Serial, NEW t \in Threads, At(t, "idle"), NEW w,
           Serve(t, w), w.at \in {"partial", "close", "loop"}, ~w.auto,
           UNCHANGED <<account, settings, history>>
    PROVE  Serial'
  <1>1. PICK v : v = work[t]
    OBVIOUS
  <1>2. Sound(v) /\ v.at = "idle"
    BY <1>1, WorkSound DEF At
  <1>3. Ahead(w) = w.at /\ Due(w) = 0 /\ Due(v) = 0
    BY <1>2 DEF Ahead, Due
  <1>4. Current(w) /\ Exact(w) /\ Funded(w) /\ Planned(w)
    BY <1>2, <1>3 DEF Sound, Current, Exact, Funded, Planned, BuySteps
  <1>5. Counted(w) /\ Balanced(w)
    BY <1>2, <1>3, SameDue
  <1>6. QED
    BY <1>4, <1>5, LocalSerial DEF Sound

\* A sell starts with nothing paid.
LEMMA SellSerial ==
    ASSUME OneThread, Typed, Serial, NEW t \in Threads, NEW s \in Symbols,
           NEW q \in Lots, NEW price \in Prices, Sell(t, s, q, price)
    PROVE  Serial'
  <1>1. PICK i \in First(Longs(s)) :
            Serve(t, [Idle EXCEPT !.at = IF q < heap[i].qty THEN "partial" ELSE "close",
                                  !.qty = q, !.price = price, !.found = {i}])
    BY DEF Sell
  <1>2. PICK l : l = IF q < heap[i].qty THEN "partial" ELSE "close"
    OBVIOUS
  <1>3. PICK w : w = [Idle EXCEPT !.at = l, !.qty = q, !.price = price, !.found = {i}]
    OBVIOUS
  <1>4. w.at \in {"partial", "close", "loop"} /\ ~w.auto
    BY <1>2, <1>3, IdleType DEF Locals
  <1>5. Serve(t, w)
    BY <1>1, <1>2, <1>3
  <1>6. QED
    BY <1>4, <1>5, StartSerial DEF Sell, context

\* A close starts with nothing paid.
LEMMA PositionCloseSerial ==
    ASSUME OneThread, Typed, Serial, NEW t \in Threads, NEW i \in open,
           NEW price \in ExitPrices(i), PositionClose(t, i, price)
    PROVE  Serial'
  <1>1. PICK w : w = [Idle EXCEPT !.at = "close", !.price = price, !.found = {i}]
    OBVIOUS
  <1>2. w.at \in {"partial", "close", "loop"} /\ ~w.auto
    BY <1>1, IdleType DEF Locals
  <1>3. QED
    BY <1>1, <1>2, StartSerial DEF PositionClose, context

\* A quote starts with nothing paid.
LEMMA MarketQuoteSerial ==
    ASSUME OneThread, Typed, Serial, NEW t \in Threads, NEW s \in Symbols,
           NEW price \in Prices, MarketQuote(t, s, price)
    PROVE  Serial'
  <1>1. PICK w : w = [Idle EXCEPT !.at = "loop", !.symbol = s, !.price = price,
                                  !.loop = open]
    OBVIOUS
  <1>2. w.at \in {"partial", "close", "loop"} /\ ~w.auto
    BY <1>1, IdleType DEF Locals
  <1>3. QED
    BY <1>1, <1>2, StartSerial DEF MarketQuote

\* A deposit starts with an amount that is not negative.
LEMMA BalanceAddSerial ==
    ASSUME OneThread, Typed, Serial, NEW t \in Threads, NEW a \in TopUps,
           BalanceAdd(t, a)
    PROVE  Serial'
  <1>1. PICK v, w : /\ v = work[t]
                    /\ w = [Idle EXCEPT !.at = "read", !.amount = a, !.then = "deposit"]
    OBVIOUS
  <1>2. Sound(v) /\ v.at = "idle" /\ a \in Nat
    BY <1>1, WorkSound, TerminalConstants DEF BalanceAdd, At
  <1>3. w.at = "read" /\ w.then = "deposit" /\ w.amount = a /\ ~w.auto
    BY <1>1, IdleType DEF Locals
  <1>4. Ahead(w) = "deposit" /\ Due(w) = 0 /\ Due(v) = 0
    BY <1>2, <1>3 DEF Ahead, Due
  <1>5. cash + a >= 0
    BY <1>2 DEF Typed, Sound, Funded
  <1>6. Current(w) /\ Exact(w) /\ Funded(w) /\ Planned(w)
    BY <1>2, <1>3, <1>4, <1>5 DEF Sound, Current, Exact, Funded, Planned, BuySteps
  <1>7. Counted(w) /\ Balanced(w)
    BY <1>2, <1>4, SameDue
  <1>8. Serve(t, w) /\ UNCHANGED <<account, settings, history>>
    BY <1>1 DEF BalanceAdd, context
  <1>9. QED
    BY <1>6, <1>7, <1>8, LocalSerial DEF Sound

\* The emptied account of a reset is not negative.
LEMMA ResetSerial ==
    ASSUME OneThread, Typed, Serial, NEW t \in Threads, NEW asked \in TopUps \cup {0},
           Reset(t, asked)
    PROVE  Serial'
  <1>1. PICK b : b = IF asked > 0 THEN asked ELSE Balance
    OBVIOUS
  <1>2. PICK w : w = [Idle EXCEPT !.at = "update", !.amount = b]
    OBVIOUS
  <1>3. b \in Nat
    BY <1>1, TerminalConstants
  <1>4. w.at = "update" /\ w.amount = b /\ ~w.auto
    BY <1>2, IdleType DEF Locals
  <1>5. Serve(t, w) /\ cash' = 0 /\ open' = {}
    BY <1>1, <1>2 DEF Reset
  <1>6. OnePerSymbol'
    BY <1>5 DEF OnePerSymbol
  <1>7. Ahead(w) = "update"
    BY <1>4 DEF Ahead
  <1>8. Current(w)' /\ Exact(w)' /\ Funded(w)'
    BY <1>3, <1>4, <1>5, <1>7 DEF Current, Exact, Funded, BuySteps
  <1>9. Planned(w)' /\ Counted(w)' /\ Balanced(w)'
    BY <1>4 DEF Planned, Counted, Balanced
  <1>10. QED
    BY <1>5, <1>6, <1>8, <1>9, OneServes DEF Sound

\* Between requests the settings may change.
LEMMA SettingsUpdateSerial ==
    ASSUME OneThread, Typed, Serial, NEW t \in Threads, NEW asked \in Settings,
           SettingsUpdate(t, asked)
    PROVE  Serial'
  <1>1. PICK v : v = work[t]
    OBVIOUS
  <1>2. Sound(v) /\ v.at = "idle" /\ Ahead(v) = "idle"
    BY <1>1, WorkSound DEF SettingsUpdate, At, Ahead
  <1>3. UNCHANGED account /\ UNCHANGED history /\ UNCHANGED work
    BY DEF SettingsUpdate
  <1>4. /\ Gap' = Gap /\ TradesToday' = TradesToday
        /\ Longs(v.symbol)' = Longs(v.symbol) /\ OnePerSymbol'
    BY <1>3, SameAccount DEF Serial
  <1>5. Current(v)' /\ Exact(v)' /\ Funded(v)'
    BY <1>2, <1>3, <1>4 DEF Sound, Current, Exact, Funded, account
  <1>6. Planned(v)' /\ Counted(v)' /\ Balanced(v)'
    BY <1>2, <1>3, <1>4 DEF Sound, Planned, Counted, Balanced, account, history
  <1>7. Serve(t, v)
    BY <1>1, <1>3 DEF Serve, Typed
  <1>8. QED
    BY <1>4, <1>5, <1>6, <1>7, OneServes DEF Sound

\* The kill switch moves no money.
LEMMA KillSerial ==
    ASSUME OneThread, Typed, Serial, NEW t \in Threads, NEW enabled \in BOOLEAN,
           SetKillSwitch(t, enabled)
    PROVE  Serial'
  <1>1. PICK v : v = work[t]
    OBVIOUS
  <1>2. Sound(v) /\ Serve(t, v)
    BY <1>1, WorkSound DEF SetKillSwitch, Serve, Typed
  <1>3. QED
    BY <1>2, LocalSerial DEF SetKillSwitch

\* A buy goes on only when the cash covers it.
LEMMA CheckCostSerial ==
    ASSUME OneThread, Typed, Serial, NEW t \in Threads, CheckCost(t)
    PROVE  Serial'
  <1>1. PICK v : v = work[t]
    OBVIOUS
  <1>2. v \in Locals /\ Sound(v) /\ v.at = "check"
    BY <1>1, WorkType, WorkSound DEF CheckCost, At
  <1>3. PICK w : w = [v EXCEPT !.at = "find"]
    OBVIOUS
  <1>4. /\ w.at = "find" /\ w.symbol = v.symbol /\ w.qty = v.qty /\ w.price = v.price
        /\ w.auto = v.auto /\ w.amount = v.amount /\ w.found = v.found
    BY <1>2, <1>3 DEF Locals
  <1>5. Ahead(w) = "find" /\ Ahead(v) = "check" /\ Due(w) = 0 /\ Due(v) = 0
    BY <1>2, <1>4 DEF Ahead, Due
  <1>6. ASSUME ~(cash < - v.amount) PROVE Sound(w)
    <2>1. cash + v.amount >= 0
      BY SMTT(20), <1>2, <1>6 DEF Typed, Locals
    <2>2. Current(w) /\ Exact(w) /\ Funded(w) /\ Planned(w)
      BY <1>2, <1>4, <1>5, <2>1 DEF Sound, Current, Exact, Funded, Planned, BuySteps
    <2>3. Counted(w) /\ Balanced(w)
      BY <1>2, <1>5, SameDue
    <2>4. QED
      BY <2>2, <2>3 DEF Sound
  <1>7. Sound(Idle)
    BY <1>2, <1>5, Settled, IdleSound
  <1>8. /\ Serve(t, Idle) \/ (Serve(t, w) /\ ~(cash < - v.amount))
        /\ UNCHANGED <<account, settings, history>>
    BY <1>1, <1>3 DEF CheckCost, context
  <1>9. QED
    BY <1>6, <1>7, <1>8, LocalSerial

\* A buy that finds nothing buys a symbol that is not held.
LEMMA FindExistingSerial ==
    ASSUME OneThread, Typed, Serial, NEW t \in Threads, FindExisting(t)
    PROVE  Serial'
  <1>1. PICK v, S : v = work[t] /\ S = First(Longs(v.symbol))
    OBVIOUS
  <1>2. v \in Locals /\ Sound(v) /\ v.at = "find"
    BY <1>1, WorkType, WorkSound DEF FindExisting, At
  <1>3. /\ S \subseteq open
        /\ S = {} => Longs(v.symbol) = {}
        /\ Longs(v.symbol) = {} => S = {}
    BY <1>1, LongsType, FirstType DEF Longs
  <1>4. PICK l : l = IF S = {} THEN "append" ELSE "lot"
    OBVIOUS
  <1>5. PICK w : w = [v EXCEPT !.at = "read", !.found = S, !.then = l]
    OBVIOUS
  <1>6. /\ w.at = "read" /\ w.then = l /\ w.found = S /\ w.symbol = v.symbol
        /\ w.qty = v.qty /\ w.price = v.price /\ w.auto = v.auto /\ w.amount = v.amount
    BY <1>2, <1>5 DEF Locals
  <1>7. Ahead(w) = l /\ Ahead(v) = "find" /\ Due(w) = 0 /\ Due(v) = 0
    BY <1>2, <1>6 DEF Ahead, Due
  <1>8. Current(w)
    BY <1>3, <1>4, <1>6, <1>7 DEF Current
  <1>9. Exact(w) /\ Funded(w)
    BY <1>2, <1>4, <1>6, <1>7 DEF Sound, Exact, Funded, BuySteps
  <1>10. Planned(w)
    BY <1>2, <1>3, <1>4, <1>6, <1>7 DEF Sound, Planned
  <1>11. Counted(w) /\ Balanced(w)
    BY <1>2, <1>7, SameDue
  <1>12. Serve(t, w) /\ UNCHANGED <<account, settings, history>>
    BY <1>1, <1>4, <1>5 DEF FindExisting, context
  <1>13. QED
    BY <1>8, <1>9, <1>10, <1>11, <1>12, LocalSerial DEF Sound

\* The lot that is read is the one of the position.
LEMMA ReadLotSerial ==
    ASSUME OneThread, Typed, Serial, NEW t \in Threads, ReadLot(t)
    PROVE  Serial'
  <1>1. PICK v, i : v = work[t] /\ i = TheOne(t)
    OBVIOUS
  <1>2. v \in Locals /\ Prepared(v) /\ Sound(v) /\ v.at = "lot"
    BY <1>1, WorkType, WorkSound DEF ReadLot, At
  <1>3. v.found = {i}
    <2>1. v.found # {}
      BY <1>2 DEF Prepared, Ahead
    <2>2. QED
      BY <1>1, <2>1, FoundType
  <1>4. PICK q, e : q = heap[i].qty /\ e = heap[i].entry
    OBVIOUS
  <1>5. PICK w : w = [v EXCEPT !.at = "average", !.held = q, !.entry = e]
    OBVIOUS
  <1>6. /\ w.at = "average" /\ w.held = q /\ w.entry = e /\ w.found = v.found
        /\ w.symbol = v.symbol /\ w.qty = v.qty /\ w.price = v.price
        /\ w.auto = v.auto /\ w.amount = v.amount
    BY <1>2, <1>5 DEF Locals
  <1>7. /\ Ahead(w) = "average" /\ Ahead(v) = "lot"
        /\ Due(w) = v.amount /\ Due(v) = v.amount
    BY <1>2, <1>6 DEF Ahead, Due
  <1>8. Current(w)
    BY <1>2, <1>3, <1>4, <1>6, <1>7 DEF Sound, Current
  <1>9. Exact(w) /\ Funded(w) /\ Planned(w)
    BY <1>2, <1>6, <1>7 DEF Sound, Exact, Funded, Planned, BuySteps
  <1>10. Counted(w) /\ Balanced(w)
    BY <1>2, <1>7, SameDue
  <1>11. Serve(t, w) /\ UNCHANGED <<account, settings, history>>
    BY <1>1, <1>4, <1>5 DEF ReadLot, context
  <1>12. QED
    BY <1>8, <1>9, <1>10, <1>11, LocalSerial DEF Sound

\* The balance that is read is the balance.
LEMMA ReadCashSerial ==
    ASSUME OneThread, Typed, Serial, NEW t \in Threads, ReadCash(t)
    PROVE  Serial'
  <1>1. PICK v, c : v = work[t] /\ c = cash
    OBVIOUS
  <1>2. v \in Locals /\ Prepared(v) /\ Sound(v) /\ v.at = "read"
    BY <1>1, WorkType, WorkSound DEF ReadCash, At
  <1>3. PICK w : w = [v EXCEPT !.at = "write", !.seen = c]
    OBVIOUS
  <1>4. /\ w.at = "write" /\ w.seen = c /\ w.then = v.then /\ w.held = v.held
        /\ w.pnl = v.pnl /\ w.entry = v.entry /\ w.found = v.found
        /\ w.symbol = v.symbol /\ w.qty = v.qty /\ w.price = v.price
        /\ w.auto = v.auto /\ w.amount = v.amount
    BY <1>2, <1>3 DEF Locals
  <1>5. Ahead(w) = v.then /\ Ahead(v) = v.then /\ Due(w) = 0 /\ Due(v) = 0
    BY <1>2, <1>4 DEF Ahead, Due
  <1>6. Current(w)
    BY <1>1, <1>2, <1>4, <1>5 DEF Sound, Current
  <1>7. Exact(w) /\ Funded(w) /\ Planned(w)
    BY <1>2, <1>4, <1>5 DEF Sound, Exact, Funded, Planned
  <1>8. Counted(w) /\ Balanced(w)
    BY <1>2, <1>5, SameDue
  <1>9. Serve(t, w) /\ UNCHANGED <<account, settings, history>>
    BY <1>1, <1>3 DEF ReadCash, context
  <1>10. QED
    BY <1>6, <1>7, <1>8, <1>9, LocalSerial DEF Sound

\* An exit is never part of an automatic buy.
LEMMA ExitsNotAuto ==
    ASSUME NEW v, Planned(v), Ahead(v) \notin {"check", "find", "append"}
    PROVE  ~v.auto
  BY DEF Planned

\* A partial close is paid the cost of what it sells and its profit or loss.
LEMMA PartialCloseSerial ==
    ASSUME OneThread, Typed, Serial, NEW t \in Threads, PartialClose(t)
    PROVE  Serial'
  <1>1. PICK v, i : v = work[t] /\ i = TheOne(t)
    OBVIOUS
  <1>2. v \in Locals /\ Prepared(v) /\ Sound(v) /\ v.at = "partial"
    BY <1>1, WorkType, WorkSound DEF PartialClose, At
  <1>3. v.found = {i} /\ heap[i] \in Dicts
    <2>1. v.found # {}
      BY <1>2 DEF Prepared, Ahead
    <2>2. QED
      BY <1>1, <2>1, FoundType
  <1>4. PICK n, e : n = heap[i].qty /\ e = heap[i].entry
    OBVIOUS
  <1>5. n \in Nat /\ e \in Nat /\ v.qty \in Nat /\ v.price \in Nat
    BY <1>2, <1>3, <1>4 DEF Dicts, Locals
  <1>6. PICK a, g, h : a = v.price * v.qty /\ g = (v.price - e) * v.qty /\ h = n - v.qty
    OBVIOUS
  <1>7. a \in Nat /\ a - g = (n - h) * e
    <2>1. a \in Nat /\ a - g = e * v.qty /\ n - h = v.qty
      BY <1>5, <1>6
    <2>2. QED
      BY <1>5, <2>1
  <1>8. PICK w : w = [v EXCEPT !.at = "read", !.then = "reduce", !.amount = a,
                               !.pnl = g, !.held = h]
    OBVIOUS
  <1>9. /\ w.at = "read" /\ w.then = "reduce" /\ w.found = {i} /\ w.amount = a
        /\ w.pnl = g /\ w.held = h /\ w.auto = v.auto
    BY <1>2, <1>3, <1>8 DEF Locals
  <1>10. Ahead(w) = "reduce" /\ Ahead(v) = "partial" /\ Due(w) = 0 /\ Due(v) = 0
    BY <1>2, <1>9 DEF Ahead, Due
  <1>11. ~v.auto
    BY <1>2, <1>10, ExitsNotAuto DEF Sound
  <1>12. cash + a >= 0
    BY <1>2, <1>7 DEF Typed, Sound, Funded
  <1>13. v.found \subseteq open => Current(w)
    BY <1>3, <1>9, <1>10 DEF Current
  <1>14. Exact(w) /\ Funded(w) /\ Planned(w)
    BY <1>2, <1>4, <1>7, <1>9, <1>10, <1>11, <1>12
       DEF Sound, Exact, Funded, Planned, BuySteps
  <1>15. Counted(w) /\ Balanced(w)
    BY <1>2, <1>10, SameDue
  <1>16. Sound(Idle)
    BY <1>2, <1>10, Settled, IdleSound
  <1>17. /\ Serve(t, Idle) \/ (Serve(t, w) /\ v.found \subseteq open)
         /\ UNCHANGED <<account, settings, history>>
    BY <1>1, <1>4, <1>6, <1>8 DEF PartialClose, context
  <1>18. QED
    BY <1>13, <1>14, <1>15, <1>16, <1>17, LocalSerial DEF Sound

\* A close is paid the cost of the position and its profit or loss.
LEMMA ClosePositionSerial ==
    ASSUME OneThread, Typed, Serial, NEW t \in Threads, ClosePosition(t)
    PROVE  Serial'
  <1>1. PICK v, i : v = work[t] /\ i = TheOne(t)
    OBVIOUS
  <1>2. v \in Locals /\ Prepared(v) /\ Sound(v) /\ v.at = "close"
    BY <1>1, WorkType, WorkSound DEF ClosePosition, At
  <1>3. v.found = {i} /\ heap[i] \in Dicts
    <2>1. v.found # {}
      BY <1>2 DEF Prepared, Ahead
    <2>2. QED
      BY <1>1, <2>1, FoundType
  <1>4. PICK n, e : n = heap[i].qty /\ e = heap[i].entry
    OBVIOUS
  <1>5. n \in Nat /\ e \in Nat /\ v.price \in Nat
    BY <1>2, <1>3, <1>4 DEF Dicts, Locals
  <1>6. PICK a, g : a = v.price * n /\ g = (v.price - e) * n
    OBVIOUS
  <1>7. a \in Nat /\ a - g = n * e
    BY <1>5, <1>6
  <1>8. PICK w, x : /\ w = [v EXCEPT !.at = "read", !.then = "filter", !.amount = a,
                                      !.pnl = g]
                    /\ x = [v EXCEPT !.at = "loop"]
    OBVIOUS
  <1>9. /\ w.at = "read" /\ w.then = "filter" /\ w.found = {i} /\ w.amount = a
        /\ w.pnl = g /\ w.auto = v.auto /\ x.at = "loop" /\ x.auto = v.auto
    BY <1>2, <1>3, <1>8 DEF Locals
  <1>10. /\ Ahead(w) = "filter" /\ Ahead(v) = "close" /\ Ahead(x) = "loop"
         /\ Due(w) = 0 /\ Due(v) = 0 /\ Due(x) = 0
    BY <1>2, <1>9 DEF Ahead, Due
  <1>11. ~v.auto
    BY <1>2, <1>10, ExitsNotAuto DEF Sound
  <1>12. cash + a >= 0
    BY <1>2, <1>7 DEF Typed, Sound, Funded
  <1>13. v.found \subseteq open => Current(w)
    BY <1>3, <1>9, <1>10 DEF Current
  <1>14. Exact(w) /\ Funded(w) /\ Planned(w)
    BY <1>2, <1>4, <1>7, <1>9, <1>10, <1>11, <1>12
       DEF Sound, Exact, Funded, Planned, BuySteps
  <1>15. Current(x) /\ Exact(x) /\ Funded(x) /\ Planned(x)
    BY <1>2, <1>9, <1>10, <1>11 DEF Sound, Current, Exact, Funded, Planned, BuySteps
  <1>16. Counted(w) /\ Balanced(w) /\ Counted(x) /\ Balanced(x)
    BY <1>2, <1>10, SameDue
  <1>17. /\ Serve(t, x) \/ (Serve(t, w) /\ v.found \subseteq open)
         /\ UNCHANGED <<account, settings, history>>
    BY <1>1, <1>4, <1>6, <1>8 DEF ClosePosition, context
  <1>18. QED
    BY <1>13, <1>14, <1>15, <1>16, <1>17, LocalSerial DEF Sound

\* What stays open is all but the position at hand.
LEMMA StillOpenSerial ==
    ASSUME OneThread, Typed, Serial, NEW t \in Threads, StillOpen(t)
    PROVE  Serial'
  <1>1. PICK v, K : v = work[t] /\ K = open \ v.found
    OBVIOUS
  <1>2. v \in Locals /\ Sound(v) /\ v.at = "filter"
    BY <1>1, WorkType, WorkSound DEF StillOpen, At
  <1>3. PICK w : w = [v EXCEPT !.at = "assign", !.keep = K]
    OBVIOUS
  <1>4. /\ w.at = "assign" /\ w.keep = K /\ w.found = v.found /\ w.auto = v.auto
        /\ w.amount = v.amount /\ w.pnl = v.pnl
    BY <1>2, <1>3 DEF Locals
  <1>5. /\ Ahead(w) = "assign" /\ Ahead(v) = "filter"
        /\ Due(w) = v.amount /\ Due(v) = v.amount
    BY <1>2, <1>4 DEF Ahead, Due
  <1>6. Current(w)
    BY <1>1, <1>2, <1>4, <1>5 DEF Sound, Current
  <1>7. Exact(w) /\ Funded(w) /\ Planned(w)
    BY <1>2, <1>4, <1>5 DEF Sound, Exact, Funded, Planned, BuySteps
  <1>8. Counted(w) /\ Balanced(w)
    BY <1>2, <1>5, SameDue
  <1>9. Serve(t, w) /\ UNCHANGED <<account, settings, history>>
    BY <1>1, <1>3 DEF StillOpen, context
  <1>10. QED
    BY <1>6, <1>7, <1>8, <1>9, LocalSerial DEF Sound

\* Evaluating a position moves no money.
LEMMA EvaluateNextSerial ==
    ASSUME OneThread, Typed, Serial, NEW t \in Threads, EvaluateNext(t)
    PROVE  Serial'
  <1>1. PICK v, S : v = work[t] /\ S = First(v.loop)
    OBVIOUS
  <1>2. v \in Locals /\ Sound(v) /\ v.at = "loop"
    BY <1>1, WorkType, WorkSound DEF EvaluateNext, At
  <1>3. PICK R : R = v.loop \ S
    OBVIOUS
  <1>4. PICK w, x : /\ w = [v EXCEPT !.at = "close", !.found = S, !.loop = R]
                    /\ x = [v EXCEPT !.loop = R]
    OBVIOUS
  <1>5. w.at = "close" /\ w.auto = v.auto /\ x.at = "loop" /\ x.auto = v.auto
    BY <1>2, <1>4 DEF Locals
  <1>6. /\ Ahead(w) = "close" /\ Ahead(v) = "loop" /\ Ahead(x) = "loop"
        /\ Due(w) = 0 /\ Due(v) = 0 /\ Due(x) = 0
    BY <1>2, <1>5 DEF Ahead, Due
  <1>7. ~v.auto
    BY <1>2, <1>6, ExitsNotAuto DEF Sound
  <1>8. Current(w) /\ Exact(w) /\ Funded(w) /\ Planned(w)
    BY <1>2, <1>5, <1>6, <1>7 DEF Sound, Current, Exact, Funded, Planned, BuySteps
  <1>9. Current(x) /\ Exact(x) /\ Funded(x) /\ Planned(x)
    BY <1>2, <1>5, <1>6, <1>7 DEF Sound, Current, Exact, Funded, Planned, BuySteps
  <1>10. Counted(w) /\ Balanced(w) /\ Counted(x) /\ Balanced(x)
    BY <1>2, <1>6, SameDue
  <1>11. Sound(Idle)
    BY <1>2, <1>6, Settled, IdleSound
  <1>12. Serve(t, Idle) \/ Serve(t, w) \/ Serve(t, x)
    <2>1. PICK hit : hit = \E i \in S : heap[i].symbol = v.symbol /\ Hit(heap[i], v.price)
      OBVIOUS
    <2>2. Serve(t, CASE hit              -> w
                     [] ~hit /\ R # {} -> x
                     [] OTHER            -> Idle)
      BY <1>1, <1>3, <1>4, <2>1 DEF EvaluateNext
    <2>3. hit \in BOOLEAN
      BY <2>1
    <2>4. QED
      BY <2>2, <2>3
  <1>13. UNCHANGED <<account, settings, history>>
    BY DEF EvaluateNext, context
  <1>14. QED
    BY <1>8, <1>9, <1>10, <1>11, <1>12, <1>13, LocalSerial DEF Sound

\* The starting balance that is read is the starting balance.
LEMMA ReadStartingSerial ==
    ASSUME OneThread, Typed, Serial, NEW t \in Threads, ReadStarting(t)
    PROVE  Serial'
  <1>1. PICK v, b : v = work[t] /\ b = starting
    OBVIOUS
  <1>2. v \in Locals /\ Sound(v) /\ v.at = "deposit"
    BY <1>1, WorkType, WorkSound DEF ReadStarting, At
  <1>3. PICK w : w = [v EXCEPT !.at = "raise", !.seen = b]
    OBVIOUS
  <1>4. w.at = "raise" /\ w.seen = b /\ w.auto = v.auto /\ w.amount = v.amount
    BY <1>2, <1>3 DEF Locals
  <1>5. /\ Ahead(w) = "raise" /\ Ahead(v) = "deposit"
        /\ Due(w) = v.amount /\ Due(v) = v.amount
    BY <1>2, <1>4 DEF Ahead, Due
  <1>6. ~v.auto
    BY <1>2, <1>5, ExitsNotAuto DEF Sound
  <1>7. Current(w)
    BY <1>1, <1>4, <1>5 DEF Current
  <1>8. Exact(w) /\ Funded(w) /\ Planned(w)
    BY <1>2, <1>4, <1>5, <1>6 DEF Sound, Exact, Funded, Planned, BuySteps
  <1>9. Counted(w) /\ Balanced(w)
    BY <1>2, <1>5, SameDue
  <1>10. Serve(t, w) /\ UNCHANGED <<account, settings, history>>
    BY <1>1, <1>3 DEF ReadStarting, context
  <1>11. QED
    BY <1>7, <1>8, <1>9, <1>10, LocalSerial DEF Sound

(***************************************************************************)
(* How the sums and counts change.                                         *)
(***************************************************************************)
\* The cost of the positions o that the dicts h describe.
CostOf(o, h) == [i \in o |-> h[i].qty * h[i].entry]

Book(o, h) == h \in Seq(Dicts) /\ o \subseteq DOMAIN h

SameCost(o, h, k) == \A i \in o : h[i].qty = k[i].qty /\ h[i].entry = k[i].entry

\* Open positions cost a number.
LEMMA CostOfType ==
    ASSUME NEW o, NEW h, Book(o, h)
    PROVE  IsFiniteSet(o) /\ Summable(CostOf(o, h), o)
  <1>1. Len(h) \in Nat /\ DOMAIN h = 1 .. Len(h)
    BY DEF Book
  <1>2. IsFiniteSet(o)
    <2>1. IsFiniteSet(DOMAIN h)
      BY <1>1, FS_Interval
    <2>2. QED
      BY <2>1, FS_Subset DEF Book
  <1>3. ASSUME NEW i \in o PROVE h[i].qty * h[i].entry \in Int
    <2>1. h[i] \in Dicts
      BY DEF Book
    <2>2. h[i].qty \in Int /\ h[i].entry \in Int
      BY <2>1 DEF Dicts
    <2>3. QED
      BY <2>2
  <1>4. QED
    BY <1>2, <1>3 DEF Summable, CostOf

\* Without one position the others cost what they did.
LEMMA CostWithout ==
    ASSUME NEW o, NEW h, Book(o, h), NEW i \in o, NEW k, Book(o \ {i}, k),
           SameCost(o \ {i}, h, k)
    PROVE  /\ SumFunction(CostOf(o, h)) =
                  SumFunction(CostOf(o \ {i}, k)) + h[i].qty * h[i].entry
           /\ SumFunction(CostOf(o \ {i}, k)) \in Int
  <1>1. Summable(CostOf(o, h), o) /\ Summable(CostOf(o \ {i}, k), o \ {i})
    BY CostOfType
  <1>2. Agree(CostOf(o, h), CostOf(o \ {i}, k), o \ {i})
    BY DEF Agree, CostOf, SameCost
  <1>3. CostOf(o, h)[i] = h[i].qty * h[i].entry
    BY DEF CostOf
  <1>4. QED
    BY <1>1, <1>2, <1>3, SumWithout, SumType

\* The invested cash is the cost of what is open.
LEMMA InvestedIs ==
    /\ Invested = SumFunction(CostOf(open, heap))
    /\ Invested' = SumFunction(CostOf(open', heap'))
    /\ Typed => Book(open, heap)
    /\ Typed' => Book(open', heap')
  BY DEF Invested, CostOf, Book, Typed

\* One open position changes its quantity or its price.
LEMMA InvestedChanges ==
    ASSUME Typed, Typed', open' = open, NEW i \in open, SameCost(open \ {i}, heap, heap')
    PROVE  Invested' = Invested - heap[i].qty * heap[i].entry
                                + heap'[i].qty * heap'[i].entry
  <1>1. Book(open, heap) /\ Book(open, heap') /\ Book(open \ {i}, heap)
    BY InvestedIs DEF Book
  <1>2. SameCost(open \ {i}, heap, heap) /\ SameCost(open \ {i}, heap', heap)
    BY DEF SameCost
  <1>3. PICK a, b, c : /\ a = SumFunction(CostOf(open \ {i}, heap))
                       /\ b = heap[i].qty * heap[i].entry
                       /\ c = heap'[i].qty * heap'[i].entry
    OBVIOUS
  <1>4. Invested = a + b /\ a \in Int
    BY <1>1, <1>2, <1>3, CostWithout, InvestedIs
  <1>5. Invested' = a + c
    BY <1>1, <1>2, <1>3, CostWithout, InvestedIs
  <1>6. b \in Int /\ c \in Int
    <2>1. heap[i] \in Dicts /\ heap'[i] \in Dicts
      BY <1>1 DEF Book
    <2>2. QED
      BY <1>3, <2>1 DEF Dicts
  <1>7. QED
    BY <1>3, <1>4, <1>5, <1>6

\* A new position is opened.
LEMMA InvestedGrows ==
    ASSUME Typed, Typed', NEW n, n \notin open, open' = open \cup {n},
           SameCost(open, heap', heap)
    PROVE  Invested' = Invested + heap'[n].qty * heap'[n].entry
  <1>1. open' \ {n} = open /\ n \in open'
    OBVIOUS
  <1>2. PICK o : o = open'
    OBVIOUS
  <1>3. Book(o, heap') /\ Book(o \ {n}, heap) /\ SameCost(o \ {n}, heap', heap)
    BY <1>1, <1>2, InvestedIs
  <1>4. SumFunction(CostOf(o, heap')) =
            SumFunction(CostOf(o \ {n}, heap)) + heap'[n].qty * heap'[n].entry
    BY <1>1, <1>2, <1>3, CostWithout
  <1>5. QED
    BY <1>1, <1>2, <1>4, InvestedIs

\* A position leaves the open list.
LEMMA InvestedShrinks ==
    ASSUME Typed, NEW i \in open, open' = open \ {i}, heap' = heap
    PROVE  Invested' = Invested - heap[i].qty * heap[i].entry
  <1>1. Book(open, heap) /\ Book(open \ {i}, heap)
    BY InvestedIs DEF Book
  <1>2. SameCost(open \ {i}, heap, heap)
    BY DEF SameCost
  <1>3. PICK a, b : /\ a = SumFunction(CostOf(open \ {i}, heap))
                    /\ b = heap[i].qty * heap[i].entry
    OBVIOUS
  <1>4. Invested = a + b /\ a \in Int
    BY <1>1, <1>2, <1>3, CostWithout, InvestedIs
  <1>5. Invested' = a
    BY <1>3, InvestedIs
  <1>6. b \in Int
    <2>1. heap[i] \in Dicts
      BY <1>1 DEF Book
    <2>2. QED
      BY <1>3, <2>1 DEF Dicts
  <1>7. QED
    BY <1>3, <1>4, <1>5, <1>6

\* The profit and loss of closed trades.
Closed == [pnl : Int, today : BOOLEAN]

PnlOf(s) == [k \in DOMAIN s |-> s[k].pnl]

\* One more trade is closed today.
LEMMA TradeAppended ==
    ASSUME Typed, NEW d \in Closed, d.today, trades' = Append(trades, d),
           open' = open, heap' = heap
    PROVE  Realized' = Realized + d.pnl /\ TradesToday' = TradesToday + 1
  <1>1. trades \in Seq(Closed) /\ Len(trades) \in Nat /\ DOMAIN trades = 1 .. Len(trades)
    BY DEF Typed, Closed
  <1>2. PICK n : n = Len(trades) + 1
    OBVIOUS
  <1>3. /\ trades' \in Seq(Closed) /\ DOMAIN trades' = DOMAIN trades \cup {n}
        /\ n \notin DOMAIN trades /\ trades'[n] = d
        /\ \A k \in DOMAIN trades : trades'[k] = trades[k]
    BY <1>1, <1>2
  <1>4. PICK D : D = DOMAIN trades
    OBVIOUS
  <1>5. IsFiniteSet(D) /\ IsFiniteSet(D \cup {n})
    <2>1. IsFiniteSet(D)
      BY <1>1, <1>4, FS_Interval
    <2>2. QED
      BY <2>1, FS_AddElement
  <1>6. \A k \in D \cup {n} : trades'[k].pnl \in Int
    <2>1. \A k \in D \cup {n} : trades'[k] \in Closed
      BY <1>3, <1>4
    <2>2. QED
      BY <2>1 DEF Closed
  <1>7. \A k \in D : trades[k].pnl \in Int
    <2>1. \A k \in D : trades[k] \in Closed
      BY <1>1, <1>4
    <2>2. QED
      BY <2>1 DEF Closed
  <1>8. Summable(PnlOf(trades), D) /\ Summable(PnlOf(trades'), D \cup {n})
    BY <1>3, <1>4, <1>5, <1>6, <1>7 DEF Summable, PnlOf
  <1>9. Agree(PnlOf(trades'), PnlOf(trades), D) /\ PnlOf(trades')[n] = d.pnl
    BY <1>3, <1>4 DEF Agree, PnlOf
  <1>10. SumFunction(PnlOf(trades')) = SumFunction(PnlOf(trades)) + d.pnl
    <2>1. PICK e, f : e = PnlOf(trades') /\ f = PnlOf(trades)
      OBVIOUS
    <2>2. Summable(f, D) /\ Summable(e, D \cup {n}) /\ Agree(e, f, D) /\ e[n] = d.pnl
      BY <1>8, <1>9, <2>1
    <2>3. PICK G : G = D \cup {n}
      OBVIOUS
    <2>4. G \ {n} = D /\ n \in G
      BY <1>3, <1>4, <2>3
    <2>5. Summable(e, G) /\ Summable(f, G \ {n}) /\ Agree(e, f, G \ {n})
      BY <2>2, <2>3, <2>4
    <2>6. SumFunction(e) = SumFunction(f) + e[n]
      BY <2>4, <2>5, SumWithout
    <2>7. QED
      BY <2>1, <2>2, <2>6
  <1>11. Realized' = Realized + d.pnl
    BY <1>10 DEF Realized, PnlOf
  <1>12. TodaysTrades' = TodaysTrades \cup {n} /\ n \notin TodaysTrades
    BY <1>3 DEF TodaysTrades
  <1>13. Cardinality(TodaysTrades') = Cardinality(TodaysTrades) + 1
    BY <1>12, SumsType, FS_AddElement
  <1>14. TodaysOpen' = TodaysOpen
    BY DEF TodaysOpen
  <1>15. TradesToday' = Cardinality(TodaysTrades') + Cardinality(TodaysOpen')
    BY DEF TradesToday, TodaysTrades, TodaysOpen
  <1>16. QED
    BY <1>11, <1>13, <1>14, <1>15, SumsType

(***************************************************************************)
(* The steps that move the account.                                        *)
(***************************************************************************)
\* IdleSound, of the next state.
LEMMA IdleSoundNext ==
    ASSUME cash' >= 0, autos' <= TradesToday', TradesToday' \in Int, Gap' \in Int,
           -slack' <= 2 * Gap', 2 * Gap' <= slack'
    PROVE  Sound(Idle)'
  <1>1. PICK w : w = Idle
    OBVIOUS
  <1>2. w.at = "idle" /\ Ahead(w) = "idle" /\ ~w.auto
    BY <1>1, IdleType
  <1>3. Current(w)' /\ Exact(w)' /\ Funded(w)' /\ Planned(w)'
    BY <1>2 DEF Current, Exact, Funded, Planned, BuySteps
  <1>4. Counted(w)' /\ Due(w) = 0
    BY <1>2 DEF Counted, Due
  <1>5. Balanced(w)'
    BY <1>4 DEF Balanced
  <1>6. QED
    BY <1>1, <1>3, <1>4, <1>5 DEF Sound

\* A position that was paid for leaves its trade to be recorded.
LEMMA TradeSound ==
    ASSUME NEW w, w.at = "trade", ~w.auto, cash' >= 0, autos' <= TradesToday' + 1,
           -slack' <= 2 * (Gap' - w.pnl), 2 * (Gap' - w.pnl) <= slack'
    PROVE  Sound(w)'
  <1>1. Ahead(w) = "trade" /\ Due(w) = w.pnl
    BY DEF Ahead, Due
  <1>2. Current(w)' /\ Exact(w)' /\ Funded(w)' /\ Planned(w)'
    BY <1>1 DEF Current, Exact, Funded, Planned, BuySteps
  <1>3. Counted(w)' /\ Balanced(w)'
    BY <1>1 DEF Counted, Balanced
  <1>4. QED
    BY <1>2, <1>3 DEF Sound

\* A position keeps its symbol and its day when its lot changes.
LEMMA DictChanges ==
    ASSUME Typed, OnePerSymbol, NEW i \in open, NEW d, heap' = [heap EXCEPT ![i] = d],
           d.symbol = heap[i].symbol, d.today = heap[i].today,
           UNCHANGED <<open, trades>>
    PROVE  /\ OnePerSymbol' /\ TradesToday' = TradesToday
           /\ SameCost(open \ {i}, heap, heap') /\ heap'[i] = d
  <1>1. /\ heap'[i] = d
        /\ \A j \in open \ {i} : heap'[j] = heap[j]
    BY InvestedIs DEF Book
  <1>2. \A j \in open : heap'[j].symbol = heap[j].symbol /\ heap'[j].today = heap[j].today
    BY <1>1
  <1>3. OnePerSymbol'
    BY <1>2 DEF OnePerSymbol
  <1>4. TodaysOpen' = TodaysOpen /\ TodaysTrades' = TodaysTrades
    BY <1>2 DEF TodaysOpen, TodaysTrades
  <1>5. TradesToday' = TradesToday
    BY <1>4 DEF TradesToday, TodaysOpen, TodaysTrades
  <1>6. QED
    BY <1>1, <1>3, <1>5 DEF SameCost

\* The bought position costs what was paid, and its symbol was not held.
LEMMA AppendPositionSerial ==
    ASSUME OneThread, Typed, Serial, NEW t \in Threads, AppendPosition(t)
    PROVE  Serial'
  <1>1. PICK v, n : v = work[t] /\ n = Len(heap) + 1
    OBVIOUS
  <1>2. v \in Locals /\ Prepared(v) /\ Sound(v) /\ v.at = "append"
    BY <1>1, WorkType, WorkSound DEF AppendPosition, At
  <1>3. Ahead(v) = "append" /\ Due(v) = v.amount
    BY <1>2 DEF Ahead, Due
  <1>4. /\ v.amount = - (v.price * v.qty) /\ v.price \in Nat /\ v.qty \in Nat
        /\ v.amount \in Int
    BY <1>2, <1>3 DEF Sound, Exact, BuySteps, Locals
  <1>5. PICK d : d = [symbol |-> v.symbol, qty |-> v.qty, entry |-> v.price,
                      stops |-> v.stops, today |-> TRUE]
    OBVIOUS
  <1>6. /\ heap' = Append(heap, d) /\ open' = open \cup {Len(heap')}
        /\ (autos' = autos + 1 \/ autos' = autos) /\ Serve(t, Idle)
        /\ UNCHANGED <<starting, cash, trades, slack>>
    BY <1>1, <1>5 DEF AppendPosition
  <1>7. heap \in Seq(Dicts) /\ Len(heap) \in Nat /\ DOMAIN heap = 1 .. Len(heap)
        /\ open \subseteq DOMAIN heap
    BY DEF Typed
  <1>8. /\ open' = open \cup {n} /\ n \notin open /\ heap'[n] = d
        /\ \A i \in open : heap'[i] = heap[i]
    BY <1>1, <1>6, <1>7
  <1>9. Typed'
    BY AppendPositionTyped
  <1>10. SameCost(open, heap', heap)
    BY <1>8 DEF SameCost
  <1>11. Invested' = Invested + v.qty * v.price
    BY <1>5, <1>8, <1>9, <1>10, InvestedGrows
  <1>12. OnePerSymbol'
    <2>1. \A i \in open : heap[i].symbol # v.symbol
      BY <1>2, <1>3 DEF Sound, Current, Longs
    <2>2. OnePerSymbol
      BY DEF Serial
    <2>3. \A i \in open : heap'[i].symbol = heap[i].symbol
      BY <1>8
    <2>4. heap'[n].symbol = v.symbol
      BY <1>5, <1>8
    <2>5. QED
      BY <1>8, <2>1, <2>2, <2>3, <2>4 DEF OnePerSymbol
  <1>13. TradesToday' = TradesToday + 1
    <2>1. TodaysOpen' = TodaysOpen \cup {n} /\ n \notin TodaysOpen
      BY <1>5, <1>8 DEF TodaysOpen
    <2>2. Cardinality(TodaysOpen') = Cardinality(TodaysOpen) + 1
      BY <2>1, SumsType, FS_AddElement
    <2>3. TodaysTrades' = TodaysTrades
      BY <1>6 DEF TodaysTrades
    <2>4. TradesToday' = Cardinality(TodaysTrades') + Cardinality(TodaysOpen')
      BY DEF TradesToday, TodaysTrades, TodaysOpen
    <2>5. QED
      BY <2>2, <2>3, <2>4, SumsType
  <1>14. Realized' = Realized
    BY <1>6 DEF Realized
  <1>15. Gap' = cash' + Invested' - starting' - Realized'
         /\ Gap = cash + Invested - starting - Realized
    BY DEF Gap
  <1>16. /\ starting \in Int /\ cash \in Int /\ slack \in Int /\ autos \in Int
         /\ Invested \in Int /\ Realized \in Int /\ TradesToday \in Int /\ Gap \in Int
    BY SumsType DEF Typed
  <1>17. Gap' = Gap - v.amount
    <2>1. PICK m : m = v.qty * v.price
      OBVIOUS
    <2>2. m \in Int /\ v.amount = - m /\ Invested' = Invested + m
      BY <1>4, <1>11, <2>1
    <2>3. QED
      BY <1>6, <1>14, <1>15, <1>16, <2>2
  <1>18. /\ cash >= 0 /\ autos <= TradesToday
         /\ -slack <= 2 * (Gap - v.amount) /\ 2 * (Gap - v.amount) <= slack
    BY <1>2, <1>3, <1>16 DEF Sound, Funded, Counted, Balanced
  <1>19. Sound(Idle)'
    <2>1. cash' >= 0 /\ autos' <= TradesToday' /\ TradesToday' \in Int
      BY <1>6, <1>13, <1>16, <1>18
    <2>2. Gap' \in Int /\ -slack' <= 2 * Gap' /\ 2 * Gap' <= slack'
      BY <1>4, <1>6, <1>16, <1>17, <1>18
    <2>3. QED
      BY <2>1, <2>2, IdleSoundNext
  <1>20. QED
    BY <1>6, <1>12, <1>19, OneServes

\* The grown position costs what it did and what was paid, up to the rounding of its
\* average.
LEMMA AverageLotSerial ==
    ASSUME OneThread, Typed, Serial, NEW t \in Threads, AverageLot(t)
    PROVE  Serial'
  <1>1. PICK v, i : v = work[t] /\ i = TheOne(t)
    OBVIOUS
  <1>2. v \in Locals /\ Prepared(v) /\ Sound(v) /\ v.at = "average"
    BY <1>1, WorkType, WorkSound DEF AverageLot, At
  <1>3. Ahead(v) = "average" /\ Due(v) = v.amount
    BY <1>2 DEF Ahead, Due
  <1>4. v.found = {i} /\ heap[i] \in Dicts
    <2>1. v.found # {}
      BY <1>2, <1>3 DEF Prepared
    <2>2. QED
      BY <1>1, <2>1, FoundType
  <1>5. i \in open /\ v.held = heap[i].qty /\ v.entry = heap[i].entry
    BY <1>2, <1>3, <1>4 DEF Sound, Current
  <1>6. /\ v.held \in Nat \ {0} /\ v.entry \in Nat \ {0}
        /\ v.qty \in Nat \ {0} /\ v.price \in Nat \ {0}
    BY <1>2, <1>3 DEF Prepared, BuySteps, Locals
  <1>7. v.amount = - (v.price * v.qty)
    BY <1>2, <1>3 DEF Sound, Exact, BuySteps
  <1>8. ~v.auto
    BY <1>2, <1>3, ExitsNotAuto DEF Sound
  <1>9. PICK n, total : n = v.held + v.qty /\ total = v.entry * v.held + v.price * v.qty
    OBVIOUS
  <1>10. PICK x, y : x = v.entry * v.held /\ y = v.price * v.qty
    OBVIOUS
  <1>11. /\ x \in Nat /\ x >= v.held /\ y \in Nat /\ y >= v.qty
         /\ heap[i].qty * heap[i].entry = x
    BY <1>5, <1>6, <1>10, ProductGrows
  <1>12. n \in Nat \ {0} /\ total \in Nat /\ total >= n /\ total = x + y
    BY <1>6, <1>9, <1>10, <1>11
  <1>13. PICK a \in Averages(total, n) :
            heap' = [heap EXCEPT ![i] =
                       [heap[i] EXCEPT !.qty = n, !.entry = a,
                                       !.stops = Overwritten(heap[i].stops, v.stops)]]
    BY <1>1, <1>9 DEF AverageLot
  <1>14. a \in Nat \ {0} /\ 2 * (a * n - total) <= n /\ 2 * (total - a * n) <= n
    BY <1>12, AverageType
  <1>15. PICK p, o : p = heap[i] /\ o = Overwritten(heap[i].stops, v.stops)
    OBVIOUS
  <1>16. PICK d : d = [p EXCEPT !.qty = n, !.entry = a, !.stops = o]
    OBVIOUS
  <1>17. d.qty = n /\ d.entry = a /\ d.symbol = heap[i].symbol /\ d.today = heap[i].today
    BY <1>4, <1>15, <1>16 DEF Dicts
  <1>18. /\ heap' = [heap EXCEPT ![i] = d] /\ Serve(t, Idle)
         /\ slack' = slack + n /\ autos' = autos
         /\ UNCHANGED <<starting, cash, open, trades>>
    BY <1>1, <1>8, <1>9, <1>13, <1>15, <1>16 DEF AverageLot
  <1>19. /\ OnePerSymbol' /\ TradesToday' = TradesToday
         /\ SameCost(open \ {i}, heap, heap') /\ heap'[i] = d
    BY <1>5, <1>17, <1>18, DictChanges DEF Serial
  <1>20. Typed'
    BY AverageLotTyped
  <1>21. Invested' = Invested - heap[i].qty * heap[i].entry + heap'[i].qty * heap'[i].entry
    BY <1>5, <1>18, <1>19, <1>20, InvestedChanges
  <1>22. PICK z : z = a * n
    OBVIOUS
  <1>23. z \in Int /\ heap'[i].qty * heap'[i].entry = z
         /\ 2 * (z - total) <= n /\ 2 * (total - z) <= n
    BY <1>12, <1>14, <1>17, <1>19, <1>22
  <1>24. Realized' = Realized
    BY <1>18 DEF Realized
  <1>25. Gap' = cash' + Invested' - starting' - Realized'
         /\ Gap = cash + Invested - starting - Realized
    BY DEF Gap
  <1>26. /\ starting \in Int /\ cash \in Int /\ slack \in Int /\ autos \in Int
         /\ Invested \in Int /\ Realized \in Int /\ TradesToday \in Int /\ Gap \in Int
    BY SumsType DEF Typed
  <1>27. Gap' = Gap - x + z
    <2>1. Invested' = Invested - x + z
      BY <1>11, <1>21, <1>23
    <2>2. QED
      BY <1>11, <1>18, <1>23, <1>24, <1>25, <1>26, <2>1
  <1>28. v.amount = - y
    BY <1>7, <1>10
  <1>29. /\ cash >= 0 /\ autos <= TradesToday
         /\ -slack <= 2 * (Gap + y) /\ 2 * (Gap + y) <= slack
    <2>1. Gap - v.amount = Gap + y
      BY <1>11, <1>26, <1>28
    <2>2. /\ cash >= 0 /\ autos <= TradesToday
          /\ -slack <= 2 * (Gap - v.amount) /\ 2 * (Gap - v.amount) <= slack
      BY <1>2, <1>3, <1>26 DEF Sound, Funded, Counted, Balanced
    <2>3. QED
      BY <2>1, <2>2
  <1>30. Sound(Idle)'
    <2>1. cash' >= 0 /\ autos' <= TradesToday' /\ TradesToday' \in Int
      BY <1>18, <1>19, <1>26, <1>29
    <2>2. Gap' \in Int /\ -slack' <= 2 * Gap' /\ 2 * Gap' <= slack'
      <3>1. /\ 2 * (z - (x + y)) <= n /\ 2 * ((x + y) - z) <= n
        BY <1>12, <1>23
      <3>2. slack' = slack + n
        BY <1>18
      <3>3. QED
        BY <1>11, <1>12, <1>23, <1>26, <1>27, <1>29, <3>1, <3>2
    <2>3. QED
      BY <2>1, <2>2, IdleSoundNext
  <1>31. QED
    BY <1>18, <1>19, <1>30, OneServes

\* The position loses the cost of what was sold.
LEMMA ReduceSerial ==
    ASSUME OneThread, Typed, Serial, NEW t \in Threads, Reduce(t)
    PROVE  Serial'
  <1>1. PICK v, i : v = work[t] /\ i = TheOne(t)
    OBVIOUS
  <1>2. v \in Locals /\ Prepared(v) /\ Sound(v) /\ v.at = "reduce"
    BY <1>1, WorkType, WorkSound DEF Reduce, At
  <1>3. Ahead(v) = "reduce" /\ Due(v) = v.amount
    BY <1>2 DEF Ahead, Due
  <1>4. v.found = {i} /\ heap[i] \in Dicts
    <2>1. v.found # {}
      BY <1>2, <1>3 DEF Prepared
    <2>2. QED
      BY <1>1, <2>1, FoundType
  <1>5. i \in open /\ v.amount - v.pnl = (heap[i].qty - v.held) * heap[i].entry
    BY <1>2, <1>3, <1>4 DEF Sound, Current, Exact
  <1>6. ~v.auto
    BY <1>2, <1>3, ExitsNotAuto DEF Sound
  <1>7. PICK w, d : w = [v EXCEPT !.at = "trade"] /\ d = [heap[i] EXCEPT !.qty = v.held]
    OBVIOUS
  <1>8. w.at = "trade" /\ w.pnl = v.pnl /\ w.auto = v.auto
    BY <1>2, <1>7 DEF Locals
  <1>9. /\ d.qty = v.held /\ d.entry = heap[i].entry /\ d.symbol = heap[i].symbol
        /\ d.today = heap[i].today
    BY <1>4, <1>7 DEF Dicts
  <1>10. /\ heap' = [heap EXCEPT ![i] = d] /\ Serve(t, w)
         /\ UNCHANGED <<starting, cash, open, trades, slack, autos>>
    BY <1>1, <1>7 DEF Reduce, history
  <1>11. /\ OnePerSymbol' /\ TradesToday' = TradesToday
         /\ SameCost(open \ {i}, heap, heap') /\ heap'[i] = d
    BY <1>5, <1>9, <1>10, DictChanges DEF Serial
  <1>12. Typed'
    BY ReduceTyped
  <1>13. Invested' = Invested - heap[i].qty * heap[i].entry + heap'[i].qty * heap'[i].entry
    BY <1>5, <1>10, <1>11, <1>12, InvestedChanges
  <1>14. PICK x, z : x = heap[i].qty * heap[i].entry /\ z = v.held * heap[i].entry
    OBVIOUS
  <1>15. /\ x \in Int /\ z \in Int /\ v.amount \in Int /\ v.pnl \in Int
         /\ v.amount - v.pnl = x - z
    <2>1. heap[i].qty \in Int /\ heap[i].entry \in Int /\ v.held \in Int
      BY <1>2, <1>4 DEF Dicts, Locals
    <2>2. v.amount \in Int /\ v.pnl \in Int
      BY <1>2 DEF Locals
    <2>3. QED
      BY <1>5, <1>14, <2>1, <2>2
  <1>16. Realized' = Realized
    BY <1>10 DEF Realized
  <1>17. Gap' = cash' + Invested' - starting' - Realized'
         /\ Gap = cash + Invested - starting - Realized
    BY DEF Gap
  <1>18. /\ starting \in Int /\ cash \in Int /\ slack \in Int /\ autos \in Int
         /\ Invested \in Int /\ Realized \in Int /\ TradesToday \in Int /\ Gap \in Int
    BY SumsType DEF Typed
  <1>19. Gap' - v.pnl = Gap - v.amount
    <2>1. Invested' = Invested - x + z
      BY <1>9, <1>11, <1>13, <1>14
    <2>2. QED
      BY <1>10, <1>15, <1>16, <1>17, <1>18, <2>1
  <1>20. /\ cash >= 0 /\ autos <= TradesToday
         /\ -slack <= 2 * (Gap - v.amount) /\ 2 * (Gap - v.amount) <= slack
    BY <1>2, <1>3, <1>18 DEF Sound, Funded, Counted, Balanced
  <1>21. cash' >= 0 /\ autos' <= TradesToday' + 1
         /\ -slack' <= 2 * (Gap' - w.pnl) /\ 2 * (Gap' - w.pnl) <= slack'
    BY <1>8, <1>10, <1>11, <1>18, <1>19, <1>20
  <1>22. QED
    BY <1>6, <1>8, <1>10, <1>11, <1>21, TradeSound, OneServes

\* The position leaves the open list with its cost, and the day with one trade at most.
LEMMA AssignOpenSerial ==
    ASSUME OneThread, Typed, Serial, NEW t \in Threads, AssignOpen(t)
    PROVE  Serial'
  <1>1. PICK v, i : v = work[t] /\ i = TheOne(t)
    OBVIOUS
  <1>2. v \in Locals /\ Prepared(v) /\ Sound(v) /\ v.at = "assign"
    BY <1>1, WorkType, WorkSound DEF AssignOpen, At
  <1>3. Ahead(v) = "assign" /\ Due(v) = v.amount
    BY <1>2 DEF Ahead, Due
  <1>4. v.found = {i} /\ heap[i] \in Dicts
    <2>1. v.found # {}
      BY <1>2, <1>3 DEF Prepared
    <2>2. QED
      BY <1>1, <2>1, FoundType
  <1>5. /\ i \in open /\ v.keep = open \ {i}
        /\ v.amount - v.pnl = heap[i].qty * heap[i].entry
    BY <1>2, <1>3, <1>4 DEF Sound, Current, Exact
  <1>6. ~v.auto
    BY <1>2, <1>3, ExitsNotAuto DEF Sound
  <1>7. PICK w : w = [v EXCEPT !.at = "trade"]
    OBVIOUS
  <1>8. w.at = "trade" /\ w.pnl = v.pnl /\ w.auto = v.auto
    BY <1>2, <1>7 DEF Locals
  <1>9. /\ open' = open \ {i} /\ Serve(t, w)
        /\ UNCHANGED <<starting, cash, heap, trades, slack, autos>>
    BY <1>1, <1>5, <1>7 DEF AssignOpen, history
  <1>10. OnePerSymbol'
    BY <1>9 DEF Serial, OnePerSymbol
  <1>11. TradesToday <= TradesToday' + 1 /\ TradesToday' \in Int
    <2>1. TodaysOpen' = TodaysOpen \ {i} /\ TodaysTrades' = TodaysTrades
      BY <1>9 DEF TodaysOpen, TodaysTrades
    <2>2. /\ Cardinality(TodaysOpen \ {i}) \in Int
          /\ Cardinality(TodaysOpen) <= Cardinality(TodaysOpen \ {i}) + 1
      <3>1. CASE i \in TodaysOpen
        <4>1. Cardinality(TodaysOpen \ {i}) = Cardinality(TodaysOpen) - 1
          BY <3>1, SumsType, FS_RemoveElement
        <4>2. QED
          BY <4>1, SumsType
      <3>2. CASE i \notin TodaysOpen
        <4>1. TodaysOpen \ {i} = TodaysOpen
          BY <3>2
        <4>2. QED
          BY <4>1, SumsType
      <3>3. QED
        BY <3>1, <3>2
    <2>3. TradesToday' = Cardinality(TodaysTrades') + Cardinality(TodaysOpen')
      BY DEF TradesToday, TodaysTrades, TodaysOpen
    <2>4. QED
      BY <2>1, <2>2, <2>3, SumsType
  <1>12. Invested' = Invested - heap[i].qty * heap[i].entry
    BY <1>5, <1>9, InvestedShrinks
  <1>13. v.amount \in Int /\ v.pnl \in Int
    BY <1>2 DEF Locals
  <1>14. Realized' = Realized
    BY <1>9 DEF Realized
  <1>15. Gap' = cash' + Invested' - starting' - Realized'
         /\ Gap = cash + Invested - starting - Realized
    BY DEF Gap
  <1>16. /\ starting \in Int /\ cash \in Int /\ slack \in Int /\ autos \in Int
         /\ Invested \in Int /\ Realized \in Int /\ TradesToday \in Int /\ Gap \in Int
    BY SumsType DEF Typed
  <1>17. Gap' - v.pnl = Gap - v.amount
    <2>1. Invested' = Invested - (v.amount - v.pnl)
      BY <1>5, <1>12
    <2>2. QED
      BY <1>9, <1>13, <1>14, <1>15, <1>16, <2>1
  <1>18. /\ cash >= 0 /\ autos <= TradesToday
         /\ -slack <= 2 * (Gap - v.amount) /\ 2 * (Gap - v.amount) <= slack
    BY <1>2, <1>3, <1>16 DEF Sound, Funded, Counted, Balanced
  <1>19. cash' >= 0 /\ autos' <= TradesToday' + 1
         /\ -slack' <= 2 * (Gap' - w.pnl) /\ 2 * (Gap' - w.pnl) <= slack'
    <2>1. autos' <= TradesToday' + 1
      <3>1. autos' = autos /\ autos <= TradesToday
        BY <1>9, <1>18
      <3>2. autos \in Int /\ TradesToday \in Int
        BY <1>16
      <3>3. PICK a, b, c : a = autos /\ b = TradesToday /\ c = TradesToday'
        OBVIOUS
      <3>4. a <= b /\ b <= c + 1 /\ a \in Int /\ b \in Int /\ c \in Int
        BY <1>11, <3>1, <3>2, <3>3
      <3>5. a <= c + 1
        BY <3>4
      <3>6. QED
        BY <3>1, <3>3, <3>5
    <2>2. Gap' - w.pnl = Gap - v.amount /\ cash' = cash /\ slack' = slack
      BY <1>8, <1>9, <1>17
    <2>3. QED
      BY <1>18, <2>1, <2>2
  <1>20. QED
    BY <1>6, <1>8, <1>9, <1>10, <1>19, TradeSound, OneServes

\* The balance moves by the amount of the request, which is due from then on.
LEMMA WriteCashSerial ==
    ASSUME OneThread, Typed, Serial, NEW t \in Threads, WriteCash(t)
    PROVE  Serial'
  <1>1. PICK v, l : v = work[t] /\ l = v.then
    OBVIOUS
  <1>2. v \in Locals /\ Prepared(v) /\ Sound(v) /\ v.at = "write"
    BY <1>1, WorkType, WorkSound DEF WriteCash, At
  <1>3. Ahead(v) = l /\ Due(v) = 0 /\ l \in AfterCash
    BY <1>1, <1>2 DEF Ahead, Due, Prepared
  <1>4. PICK w : w = [v EXCEPT !.at = l]
    OBVIOUS
  <1>5. /\ w.at = l /\ w.found = v.found /\ w.symbol = v.symbol /\ w.qty = v.qty
        /\ w.price = v.price /\ w.held = v.held /\ w.amount = v.amount
        /\ w.pnl = v.pnl /\ w.auto = v.auto
    BY <1>2, <1>4 DEF Locals
  <1>6. Ahead(w) = l /\ Due(w) = v.amount
    BY <1>3, <1>5 DEF Ahead, AfterCash, Due
  <1>7. /\ cash' = cash + v.amount /\ Serve(t, w)
        /\ UNCHANGED <<starting, open, trades, heap, settings, autos, slack>>
    BY <1>1, <1>2, <1>4 DEF WriteCash, Sound, Current, context, history
  <1>8. /\ Invested' = Invested /\ Realized' = Realized /\ TradesToday' = TradesToday
        /\ Longs(v.symbol)' = Longs(v.symbol)
    BY <1>7 DEF Invested, Realized, TradesToday, Longs
  <1>9. OnePerSymbol'
    BY <1>7 DEF Serial, OnePerSymbol
  <1>10. Gap' = cash' + Invested' - starting' - Realized'
         /\ Gap = cash + Invested - starting - Realized
    BY DEF Gap
  <1>11. /\ starting \in Int /\ cash \in Int /\ slack \in Int /\ autos \in Int
         /\ Invested \in Int /\ Realized \in Int /\ TradesToday \in Int /\ Gap \in Int
         /\ v.amount \in Int
    <2>1. v.amount \in Int
      BY <1>2 DEF Locals
    <2>2. QED
      BY <2>1, SumsType DEF Typed
  <1>12. Gap' - v.amount = Gap
    BY <1>7, <1>8, <1>10, <1>11
  <1>13. Current(w)'
    BY <1>2, <1>3, <1>5, <1>6, <1>7, <1>8 DEF Sound, Current, AfterCash
  <1>14. Exact(w)'
    BY <1>2, <1>3, <1>5, <1>6, <1>7 DEF Sound, Exact, AfterCash
  <1>15. Funded(w)'
    <2>1. cash' >= 0
      BY <1>2, <1>7 DEF Sound, Funded
    <2>2. l \in {"reduce", "filter", "deposit", "update"} => v.amount >= 0
      BY <1>2, <1>3 DEF Sound, Funded
    <2>3. QED
      BY <1>3, <1>5, <1>6, <2>1, <2>2 DEF Funded, AfterCash
  <1>16. Planned(w)'
    BY <1>2, <1>3, <1>5, <1>6, <1>7, <1>8 DEF Sound, Planned
  <1>17. Counted(w)' /\ Balanced(w)'
    <2>1. /\ autos <= TradesToday /\ -slack <= 2 * Gap /\ 2 * Gap <= slack
      BY <1>2, <1>3, Settled
    <2>2. Due(w)' = v.amount
      BY <1>6 DEF Due
    <2>3. w.at # "trade" /\ w.at # "update"
      BY <1>3, <1>5 DEF AfterCash
    <2>4. Counted(w)'
      BY <1>7, <1>8, <1>11, <2>1, <2>3 DEF Counted
    <2>5. Balanced(w)'
      BY <1>7, <1>12, <2>1, <2>2 DEF Balanced
    <2>6. QED
      BY <2>4, <2>5
  <1>18. QED
    BY <1>7, <1>9, <1>13, <1>14, <1>15, <1>16, <1>17, OneServes DEF Sound

\* The profit or loss that was due is recorded, and the trade counts for today.
LEMMA AppendTradeSerial ==
    ASSUME OneThread, Typed, Serial, NEW t \in Threads, AppendTrade(t)
    PROVE  Serial'
  <1>1. PICK v, d : v = work[t] /\ d = [pnl |-> v.pnl, today |-> TRUE]
    OBVIOUS
  <1>2. v \in Locals /\ Sound(v) /\ v.at = "trade"
    BY <1>1, WorkType, WorkSound DEF AppendTrade, At
  <1>3. Ahead(v) = "trade" /\ Due(v) = v.pnl
    BY <1>2 DEF Ahead, Due
  <1>4. PICK w : w = [v EXCEPT !.at = "loop"]
    OBVIOUS
  <1>5. w.at = "loop" /\ w.auto = v.auto
    BY <1>2, <1>4 DEF Locals
  <1>6. Ahead(w) = "loop" /\ Due(w) = 0 /\ ~v.auto
    BY <1>2, <1>3, <1>5, ExitsNotAuto DEF Ahead, Due, Sound
  <1>7. /\ trades' = Append(trades, d) /\ Serve(t, w)
        /\ UNCHANGED <<starting, cash, open, heap, autos, slack>>
    BY <1>1, <1>4 DEF AppendTrade, history
  <1>8. d \in Closed /\ d.today /\ d.pnl = v.pnl
    BY <1>1, <1>2 DEF Closed, Locals
  <1>9. Realized' = Realized + v.pnl /\ TradesToday' = TradesToday + 1
    BY <1>7, <1>8, TradeAppended
  <1>10. Invested' = Invested /\ OnePerSymbol'
    BY <1>7 DEF Invested, Serial, OnePerSymbol
  <1>11. Gap' = cash' + Invested' - starting' - Realized'
         /\ Gap = cash + Invested - starting - Realized
    BY DEF Gap
  <1>12. /\ starting \in Int /\ cash \in Int /\ slack \in Int /\ autos \in Int
         /\ Invested \in Int /\ Realized \in Int /\ TradesToday \in Int /\ Gap \in Int
         /\ v.pnl \in Int
    <2>1. v.pnl \in Int
      BY <1>2 DEF Locals
    <2>2. QED
      BY <2>1, SumsType DEF Typed
  <1>13. Gap' = Gap - v.pnl
    BY <1>7, <1>9, <1>10, <1>11, <1>12
  <1>14. /\ cash >= 0 /\ autos <= TradesToday + 1
         /\ -slack <= 2 * (Gap - v.pnl) /\ 2 * (Gap - v.pnl) <= slack
    BY <1>2, <1>3 DEF Sound, Funded, Counted, Balanced
  <1>15. Current(w)' /\ Exact(w)' /\ Funded(w)' /\ Planned(w)'
    BY <1>5, <1>6, <1>7, <1>14 DEF Current, Exact, Funded, Planned, BuySteps
  <1>16. Counted(w)'
    <2>1. autos' <= TradesToday' + 0
      BY <1>7, <1>9, <1>12, <1>14
    <2>2. QED
      BY <1>5, <2>1 DEF Counted
  <1>17. Balanced(w)'
    <2>1. Gap' - Due(w)' = Gap - v.pnl
      <3>1. Due(w)' = 0
        BY <1>6 DEF Due
      <3>2. QED
        BY <1>12, <1>13, <3>1
    <2>2. QED
      BY <1>7, <1>14, <2>1 DEF Balanced
  <1>18. QED
    BY <1>7, <1>10, <1>15, <1>16, <1>17, OneServes DEF Sound

\* The deposit that was due is recorded.
LEMMA RaiseStartingSerial ==
    ASSUME OneThread, Typed, Serial, NEW t \in Threads, RaiseStarting(t)
    PROVE  Serial'
  <1>1. PICK v : v = work[t]
    OBVIOUS
  <1>2. v \in Locals /\ Sound(v) /\ v.at = "raise"
    BY <1>1, WorkType, WorkSound DEF RaiseStarting, At
  <1>3. Due(v) = v.amount
    BY <1>2 DEF Due
  <1>4. /\ starting' = starting + v.amount /\ Serve(t, Idle)
        /\ UNCHANGED <<cash, open, trades, heap, autos, slack>>
    BY <1>1, <1>2 DEF RaiseStarting, Sound, Current, history
  <1>5. /\ Invested' = Invested /\ Realized' = Realized /\ TradesToday' = TradesToday
        /\ OnePerSymbol'
    BY <1>4 DEF Invested, Realized, TradesToday, Serial, OnePerSymbol
  <1>6. Gap' = cash' + Invested' - starting' - Realized'
        /\ Gap = cash + Invested - starting - Realized
    BY DEF Gap
  <1>7. /\ starting \in Int /\ cash \in Int /\ slack \in Int /\ autos \in Int
        /\ Invested \in Int /\ Realized \in Int /\ TradesToday \in Int /\ Gap \in Int
        /\ v.amount \in Int
    <2>1. v.amount \in Int
      BY <1>2 DEF Locals
    <2>2. QED
      BY <2>1, SumsType DEF Typed
  <1>8. Gap' = Gap - v.amount
    BY <1>4, <1>5, <1>6, <1>7
  <1>9. /\ cash >= 0 /\ autos <= TradesToday
        /\ -slack <= 2 * (Gap - v.amount) /\ 2 * (Gap - v.amount) <= slack
    BY <1>2, <1>3, <1>7 DEF Sound, Funded, Counted, Balanced
  <1>10. Sound(Idle)'
    <2>1. cash' >= 0 /\ autos' <= TradesToday' /\ TradesToday' \in Int
      BY <1>4, <1>5, <1>7, <1>9
    <2>2. Gap' \in Int /\ -slack' <= 2 * Gap' /\ 2 * Gap' <= slack'
      BY <1>4, <1>7, <1>8, <1>9
    <2>3. QED
      BY <2>1, <2>2, IdleSoundNext
  <1>11. QED
    BY <1>4, <1>5, <1>10, OneServes

\* A reset leaves nothing invested, earned or due.
LEMMA UpdateAccountSerial ==
    ASSUME OneThread, Typed, Serial, NEW t \in Threads, UpdateAccount(t)
    PROVE  Serial'
  <1>1. PICK v, w : v = work[t] /\ w = [v EXCEPT !.at = "defaults"]
    OBVIOUS
  <1>2. v \in Locals /\ Prepared(v) /\ Sound(v) /\ v.at = "update"
    BY <1>1, WorkType, WorkSound DEF UpdateAccount, At
  <1>3. Ahead(v) = "update" /\ v.amount \in Nat
    BY <1>2 DEF Ahead, Prepared
  <1>4. ~v.auto
    BY <1>2, <1>3, ExitsNotAuto DEF Sound
  <1>5. w.at = "defaults" /\ w.auto = v.auto
    BY <1>1, <1>2 DEF Locals
  <1>6. Ahead(w) = "defaults"
    BY <1>5 DEF Ahead
  <1>7. /\ starting' = v.amount /\ cash' = v.amount /\ open' = {} /\ trades' = <<>>
        /\ autos' = 0 /\ slack' = 0 /\ Serve(t, w)
    BY <1>1 DEF UpdateAccount
  <1>8. Invested' = 0
    <2>1. DOMAIN CostOf(open', heap') = {}
      BY <1>7 DEF CostOf
    <2>2. QED
      BY <2>1, SumEmpty, InvestedIs
  <1>9. Realized' = 0
    <2>1. DOMAIN PnlOf(trades') = {}
      BY <1>7 DEF PnlOf
    <2>2. Realized' = SumFunction(PnlOf(trades'))
      BY DEF Realized, PnlOf
    <2>3. QED
      BY <2>1, <2>2, SumEmpty
  <1>10. Gap' = 0
    <2>1. Gap' = cash' + Invested' - starting' - Realized'
      BY DEF Gap
    <2>2. QED
      BY <1>3, <1>7, <1>8, <1>9, <2>1
  <1>11. TradesToday' = 0
    <2>1. TodaysTrades' = {} /\ TodaysOpen' = {}
      BY <1>7 DEF TodaysTrades, TodaysOpen
    <2>2. TradesToday' = Cardinality(TodaysTrades') + Cardinality(TodaysOpen')
      BY DEF TradesToday, TodaysTrades, TodaysOpen
    <2>3. Cardinality(TodaysTrades') = 0 /\ Cardinality(TodaysOpen') = 0
      BY <2>1, FS_EmptySet
    <2>4. QED
      BY <2>2, <2>3
  <1>12. OnePerSymbol'
    BY <1>7 DEF OnePerSymbol
  <1>13. Current(w)' /\ Exact(w)' /\ Funded(w)' /\ Planned(w)'
    BY <1>3, <1>4, <1>5, <1>6, <1>7 DEF Current, Exact, Funded, Planned, BuySteps
  <1>14. Counted(w)'
    BY <1>5, <1>7, <1>11 DEF Counted
  <1>15. Balanced(w)'
    <2>1. Due(w)' = 0
      BY <1>5 DEF Due
    <2>2. QED
      BY <1>7, <1>10, <2>1 DEF Balanced
  <1>16. QED
    BY <1>7, <1>12, <1>13, <1>14, <1>15, OneServes DEF Sound

\* The last step of a reset moves no money.
LEMMA RestoreDefaultsSerial ==
    ASSUME OneThread, Typed, Serial, NEW t \in Threads, RestoreDefaults(t)
    PROVE  Serial'
  <1>1. PICK v : v = work[t]
    OBVIOUS
  <1>2. Sound(v) /\ v.at = "defaults" /\ Due(v) = 0
    BY <1>1, WorkSound DEF RestoreDefaults, At, Due
  <1>3. Serve(t, Idle) /\ UNCHANGED <<account, autos, slack>>
    BY DEF RestoreDefaults, history
  <1>4. Gap' = Gap /\ TradesToday' = TradesToday /\ OnePerSymbol' /\ cash' = cash
    BY <1>3, SameAccount DEF Serial, account
  <1>5. /\ cash >= 0 /\ autos <= TradesToday /\ TradesToday \in Int /\ Gap \in Int
        /\ -slack <= 2 * Gap /\ 2 * Gap <= slack
    BY <1>2, Settled
  <1>6. Sound(Idle)'
    BY <1>3, <1>4, <1>5, IdleSoundNext
  <1>7. QED
    BY <1>3, <1>4, <1>6, OneServes

\* A new day forgets which trades were made when, and nothing else.
LEMMA NewDaySerial ==
    ASSUME OneThread, Typed, Serial, NewDay
    PROVE  Serial'
  <1>1. PICK t \in Threads : TRUE
    BY DEF OneThread
  <1>2. PICK v : v = work[t]
    OBVIOUS
  <1>3. v \in Locals /\ Prepared(v) /\ Sound(v)
    BY <1>2, WorkType, WorkSound
  <1>4. /\ UNCHANGED <<starting, cash, open, settings, work, slack>> /\ autos' = 0
        /\ heap' = [i \in DOMAIN heap |-> [heap[i] EXCEPT !.today = FALSE]]
        /\ trades' = [k \in DOMAIN trades |-> [trades[k] EXCEPT !.today = FALSE]]
    BY DEF NewDay, context
  <1>5. Serve(t, v)
    BY <1>2, <1>4 DEF Serve, Typed
  <1>6. ASSUME NEW i \in DOMAIN heap
        PROVE  /\ heap'[i].symbol = heap[i].symbol /\ heap'[i].qty = heap[i].qty
               /\ heap'[i].entry = heap[i].entry /\ ~heap'[i].today
    <2>1. heap[i] \in Dicts
      BY DEF Typed
    <2>2. heap'[i] = [heap[i] EXCEPT !.today = FALSE]
      BY <1>4
    <2>3. QED
      BY <2>1, <2>2 DEF Dicts
  <1>7. ASSUME NEW k \in DOMAIN trades
        PROVE  trades'[k].pnl = trades[k].pnl /\ ~trades'[k].today
    <2>1. trades \in Seq(Closed)
      BY DEF Typed, Closed
    <2>2. trades[k] \in Closed
      BY <2>1
    <2>3. trades'[k] = [trades[k] EXCEPT !.today = FALSE]
      BY <1>4
    <2>4. QED
      BY <2>2, <2>3 DEF Closed
  <1>8. open \subseteq DOMAIN heap /\ v.found \subseteq DOMAIN heap
    BY <1>3 DEF Typed, Prepared
  <1>9. DOMAIN trades' = DOMAIN trades
    BY <1>4
  <1>10. Invested' = Invested
    <2>1. [i \in open' |-> heap'[i].qty * heap'[i].entry]
            = [i \in open |-> heap[i].qty * heap[i].entry]
      BY <1>4, <1>6, <1>8
    <2>2. QED
      BY <2>1 DEF Invested
  <1>11. Realized' = Realized
    <2>1. [k \in DOMAIN trades' |-> trades'[k].pnl] = [k \in DOMAIN trades |-> trades[k].pnl]
      BY <1>7, <1>9
    <2>2. QED
      BY <2>1 DEF Realized
  <1>12. Gap' = Gap
    BY <1>4, <1>10, <1>11 DEF Gap
  <1>13. TradesToday' = 0
    <2>1. TodaysTrades' = {}
      BY <1>7, <1>9 DEF TodaysTrades
    <2>2. TodaysOpen' = {}
      BY <1>4, <1>6, <1>8 DEF TodaysOpen
    <2>3. TradesToday' = Cardinality(TodaysTrades') + Cardinality(TodaysOpen')
      BY DEF TradesToday, TodaysTrades, TodaysOpen
    <2>4. Cardinality(TodaysTrades') = 0 /\ Cardinality(TodaysOpen') = 0
      BY <2>1, <2>2, FS_EmptySet
    <2>5. QED
      BY <2>3, <2>4
  <1>14. OnePerSymbol'
    BY <1>4, <1>6, <1>8 DEF Serial, OnePerSymbol
  <1>15. Longs(v.symbol)' = Longs(v.symbol)
    BY <1>4, <1>6, <1>8 DEF Longs
  <1>16. Current(v)'
    BY <1>3, <1>4, <1>6, <1>8, <1>15 DEF Sound, Current
  <1>17. Exact(v)'
    BY <1>3, <1>4, <1>6, <1>8 DEF Sound, Exact
  <1>18. Funded(v)'
    BY <1>3, <1>4 DEF Sound, Funded
  <1>19. Planned(v)'
    <2>1. TradesToday \in Nat /\ settings.maxTrades \in Int
      BY SumsType DEF Typed, SettingsType
    <2>2. TradesToday < settings.maxTrades => 0 < settings.maxTrades
      BY <2>1
    <2>3. QED
      BY <1>3, <1>4, <1>13, <1>15, <2>2 DEF Sound, Planned
  <1>20. Counted(v)'
    BY <1>4, <1>13 DEF Counted
  <1>21. Balanced(v)'
    <2>1. Due(v)' = Due(v)
      BY DEF Due
    <2>2. QED
      BY <1>3, <1>4, <1>12, <2>1 DEF Sound, Balanced
  <1>22. QED
    BY <1>5, <1>14, <1>16, <1>17, <1>18, <1>19, <1>20, <1>21, OneServes DEF Sound

(***************************************************************************)
(* The theorems.                                                           *)
(***************************************************************************)
\* An account that nobody has used is sound.
LEMMA InitSerial == Init => Serial
  <1>1. SUFFICES ASSUME Init PROVE Serial
    OBVIOUS
  <1>2. starting = Balance /\ cash = Balance /\ open = {} /\ trades = <<>>
        /\ autos = 0 /\ slack = 0 /\ Balance \in Nat
    BY <1>1, TerminalConstants DEF Init
  <1>3. OnePerSymbol
    BY <1>2 DEF OnePerSymbol
  <1>4. Typed
    BY <1>1, InitTyped
  <1>5. Invested = 0 /\ Realized = 0
    <2>1. DOMAIN CostOf(open, heap) = {} /\ DOMAIN PnlOf(trades) = {}
      BY <1>2 DEF CostOf, PnlOf
    <2>2. Realized = SumFunction(PnlOf(trades))
      BY DEF Realized, PnlOf
    <2>3. QED
      BY <2>1, <2>2, SumEmpty, InvestedIs
  <1>6. Gap = 0
    BY <1>2, <1>5 DEF Gap
  <1>7. TradesToday \in Nat
    BY <1>4, SumsType
  <1>8. Sound(Idle)
    BY <1>2, <1>6, <1>7, IdleSound
  <1>9. \A t \in Threads : work[t] = Idle
    BY <1>1 DEF Init
  <1>10. QED
    BY <1>3, <1>8, <1>9 DEF Serial, Sound

\* Every step keeps Serial when there is one thread.
LEMMA NextSerial ==
    ASSUME OneThread, Typed, Serial, [Next]_vars
    PROVE  Serial'
  <1>1. ASSUME NEW t \in Threads, Request(t) PROVE Serial'
    BY <1>1, BuySerial, AutoTradeSerial, SellSerial, PositionCloseSerial,
       MarketQuoteSerial, BalanceAddSerial, ResetSerial, SettingsUpdateSerial,
       KillSerial DEF Request
  <1>2. ASSUME NEW t \in Threads, Step(t) PROVE Serial'
    BY <1>2, CheckCostSerial, FindExistingSerial, AppendPositionSerial, ReadLotSerial,
       AverageLotSerial, ReadCashSerial, WriteCashSerial, PartialCloseSerial,
       ReduceSerial, ClosePositionSerial, StillOpenSerial, AssignOpenSerial,
       AppendTradeSerial, EvaluateNextSerial, ReadStartingSerial, RaiseStartingSerial,
       UpdateAccountSerial, RestoreDefaultsSerial DEF Step
  <1>3. CASE UNCHANGED vars
    <2>1. PICK t \in Threads : TRUE
      BY DEF OneThread
    <2>2. PICK w : w = work[t]
      OBVIOUS
    <2>3. Sound(w) /\ Serve(t, w)
      BY <1>3, <2>2, WorkSound DEF vars, Serve, Typed
    <2>4. UNCHANGED <<account, settings, history>>
      BY <1>3 DEF vars, account, history
    <2>5. QED
      BY <2>3, <2>4, LocalSerial
  <1>4. QED
    BY <1>1, <1>2, <1>3, NewDaySerial DEF Next

\* When requests are served one at a time, what a request read still holds when
\* it is used, and the account is off by no more than what the request is due.
THEOREM SerialInvariant ==
    ASSUME OneThread
    PROVE  Spec => [](Typed /\ Serial)
  <1>1. Init => Typed /\ Serial
    BY InitTyped, InitSerial
  <1>2. Typed /\ Serial /\ [Next]_vars => (Typed /\ Serial)'
    BY NextTyped, NextSerial
  <1>3. QED
    BY <1>1, <1>2, PTL DEF Spec

\* OnePositionPerSymbol, when requests are served one at a time.
THEOREM OnePositionIsHeld ==
    ASSUME OneThread
    PROVE  Spec => []OnePositionPerSymbol
  <1>1. Typed /\ Serial => OnePositionPerSymbol
    <2>1. SUFFICES ASSUME Typed, Serial, NEW s \in Symbols
                   PROVE  Cardinality(Longs(s)) <= 1
      BY DEF OnePositionPerSymbol
    <2>2. \A i, j \in Longs(s) : i = j
      BY <2>1 DEF Serial, OnePerSymbol, Longs
    <2>3. QED
      BY <2>2, AtMostOne
  <1>2. QED
    BY <1>1, SerialInvariant, PTL

\* NeverOverdrawn, when requests are served one at a time.
THEOREM BalanceIsNeverOverdrawn ==
    ASSUME OneThread
    PROVE  Spec => []NeverOverdrawn
  <1>1. Typed /\ Serial => NeverOverdrawn
    BY DEF OneThread, Serial, Funded, NeverOverdrawn
  <1>2. QED
    BY <1>1, SerialInvariant, PTL

\* AutoNeverScalesIn, when requests are served one at a time.
THEOREM AutoBuysOpenPositions ==
    ASSUME OneThread
    PROVE  Spec => []AutoNeverScalesIn
  <1>1. Typed /\ Serial => AutoNeverScalesIn
    BY DEF Serial, Planned, AutoNeverScalesIn
  <1>2. QED
    BY <1>1, SerialInvariant, PTL

\* MoneyConserved, when requests are served one at a time: between requests the
\* balance is what was put in and earned, up to the rounding of averages.
THEOREM TerminalConservesMoney ==
    ASSUME OneThread
    PROVE  Spec => []MoneyConserved
  <1>1. Typed /\ Serial => MoneyConserved
    <2>1. SUFFICES ASSUME Typed, Serial, Quiet
                   PROVE  -slack <= 2 * Gap /\ 2 * Gap <= slack
      BY DEF MoneyConserved
    <2>2. PICK t \in Threads : TRUE
      BY DEF OneThread
    <2>3. PICK v : v = work[t]
      OBVIOUS
    <2>4. Sound(v) /\ v.at = "idle"
      BY <2>1, <2>3, WorkSound DEF Quiet, At
    <2>5. Due(v) = 0
      BY <2>4 DEF Due
    <2>6. QED
      BY <2>1, <2>4, <2>5, Settled
  <1>2. QED
    BY <1>1, SerialInvariant, PTL

\* A buy that counts as automatic was planned below the day's limit.
LEMMA AutoStep ==
    ASSUME OneThread, Typed, Serial, Next, autos' > autos
    PROVE  autos' <= settings.maxTrades
  <1>1. autos \in Nat /\ TradesToday \in Nat /\ settings.maxTrades \in Int
    BY SumsType DEF Typed, SettingsType
  <1>2. ~NewDay
    BY <1>1 DEF NewDay
  <1>3. PICK t \in Threads : Request(t) \/ Step(t)
    BY <1>2 DEF Next
  <1>4. ~Request(t)
    <2>1. \A s \in Symbols, q \in Lots, price \in Prices, stops \in Stops :
              Buy(t, s, q, price, stops) => autos' = autos
      BY DEF Buy, history
    <2>2. \A s \in Symbols : AutoTrade(t, s) => autos' = autos
      BY DEF AutoTrade, history
    <2>3. \A s \in Symbols, q \in Lots, price \in Prices :
              Sell(t, s, q, price) => autos' = autos
      BY DEF Sell, history
    <2>4. \A i \in open : \A price \in ExitPrices(i) :
              PositionClose(t, i, price) => autos' = autos
      BY DEF PositionClose, history
    <2>5. \A s \in Symbols, price \in Prices : MarketQuote(t, s, price) => autos' = autos
      BY DEF MarketQuote, history
    <2>6. \A a \in TopUps : BalanceAdd(t, a) => autos' = autos
      BY DEF BalanceAdd, history
    <2>7. \A asked \in TopUps \cup {0} : Reset(t, asked) => autos' = autos
      BY DEF Reset, history
    <2>8. \A asked \in Settings : SettingsUpdate(t, asked) => autos' = autos
      BY DEF SettingsUpdate, history
    <2>9. \A enabled \in BOOLEAN : SetKillSwitch(t, enabled) => autos' = autos
      BY DEF SetKillSwitch, history
    <2>10. autos' # autos
      BY <1>1
    <2>11. QED
      BY <2>1, <2>2, <2>3, <2>4, <2>5, <2>6, <2>7, <2>8, <2>9, <2>10 DEF Request
  <1>5. AppendPosition(t) \/ AverageLot(t)
    BY <1>1, <1>3, <1>4 DEF Step, CheckCost, FindExisting, ReadLot, ReadCash, WriteCash,
       PartialClose, Reduce, ClosePosition, StillOpen, AssignOpen, AppendTrade,
       EvaluateNext, ReadStarting, RaiseStarting, UpdateAccount, RestoreDefaults, history
  <1>6. work[t].auto /\ autos' = autos + 1 /\ Ahead(work[t]) \in {"append", "average"}
    <2>1. /\ work[t].at \in {"append", "average"}
          /\ autos' = IF work[t].auto THEN autos + 1 ELSE autos
      BY <1>5 DEF AppendPosition, AverageLot, At
    <2>2. work[t].auto
      BY <1>1, <2>1
    <2>3. QED
      BY <2>1, <2>2 DEF Ahead
  <1>7. PICK v : v = work[t]
    OBVIOUS
  <1>8. Sound(v) /\ v.auto /\ v.at \in {"append", "average"}
    BY <1>5, <1>6, <1>7, WorkSound DEF AppendPosition, AverageLot, At
  <1>9. TradesToday < settings.maxTrades
    BY <1>8 DEF Sound, Planned
  <1>10. autos <= TradesToday
    BY <1>1, <1>8 DEF Sound, Counted
  <1>11. QED
    BY <1>1, <1>6, <1>9, <1>10

\* AutoWithinLimits, when requests are served one at a time: no step makes more
\* automatic buys in a day than max_trades_per_day.
THEOREM AutoBuysWithinLimits ==
    ASSUME OneThread
    PROVE  Spec => AutoWithinLimits
  <1>1. Typed /\ Serial /\ [Next]_vars
            => [autos' > autos => autos' <= settings.maxTrades]_vars
    BY AutoStep
  <1>2. QED
    BY <1>1, SerialInvariant, PTL DEF Spec, AutoWithinLimits
=============================================================================
