---------------------------- MODULE PaperTerminal ----------------------------
(***************************************************************************)
(* The in-memory paper account of the ALPHA-GATE X terminal (web_app.py):  *)
(* manual and automatic paper trades on the dict _PAPER, which the threads *)
(* of a ThreadingHTTPServer share without a lock.                          *)
(*                                                                         *)
(* A request is a sequence of reads and writes of shared data, and another *)
(* thread may run between them: reading cash_balance and writing it back   *)
(* are two steps, as are building the list of positions that stay open and *)
(* assigning it.  Assignments to one dict that follow each other are one   *)
(* step.  Amounts are in paise, percentages and points in hundredths.      *)
(***************************************************************************)
EXTENDS Integers, Sequences, FiniteSets, FiniteSetsExt, Functions

CONSTANTS Threads,    \* threads of the server
          Symbols,    \* traded symbols
          Prices,     \* prices that are entered or quoted
          Lots,       \* quantities of manual orders
          Stops,      \* brackets of manual orders: [stop, target1, target2], 0 is none
          Settings,   \* settings a user asks for
          Balance,    \* _PAPER_STARTING_BALANCE
          TopUps,     \* amounts of virtual balance added or asked for in a reset
          MaxIds,     \* bound: positions ever opened
          MaxTrades,  \* bound: manual exits start below it
          MaxLots     \* bound: shares of one symbol that orders ask for

\* The levels of a bracket, and what a user may ask of the settings.
Levels == [{"stop", "target1", "target2"} -> Int]

Modes == {"PERCENT", "POINTS"}

SettingsType ==
    [enabled : BOOLEAN, sizing : {"FIXED_QUANTITY", "FIXED_AMOUNT"},
     quantity : Int, amount : Int, targetMode : Modes, target : Int,
     stopMode : Modes, stop : Int, maxOpen : Int, maxTrades : Int, maxLoss : Int]

ASSUME TerminalAssumption ==
    /\ Prices \subseteq Nat \ {0}
    /\ Lots \subseteq Nat \ {0}
    /\ TopUps \subseteq Nat \ {0}
    /\ Balance \in Nat
    /\ Stops \subseteq Levels
    /\ Settings \subseteq SettingsType
    /\ MaxIds \in Nat /\ MaxTrades \in Nat /\ MaxLots \in Nat

VARIABLES
  starting, \* _PAPER["starting_balance"]
  cash,     \* _PAPER["cash_balance"]
  open,     \* _PAPER["open_positions"]: ids are drawn in list order
  trades,   \* _PAPER["closed_trades"]: what each earned and whether it closed today
  heap,     \* the position dicts by id: a thread may hold one that is closed
  settings, \* _PAPER_SETTINGS
  kill,     \* _KILL_SWITCH_ENABLED
  quotes,   \* _LAST_QUOTES: price per symbol, 0 when there is none
  work,     \* per thread, the request it serves and its local variables
  autos,    \* history: automatic buys since the day or the account began
  slack     \* history: twice the most that rounding has moved the averages

account == <<starting, cash, open, trades, heap>>
context == <<settings, kill, quotes>>
history == <<autos, slack>>
vars    == <<starting, cash, open, trades, heap, settings, kill, quotes, work,
             autos, slack>>

Defaults == [enabled |-> FALSE, sizing |-> "FIXED_QUANTITY", quantity |-> 1,
             amount |-> 100000, targetMode |-> "PERCENT", target |-> 100,
             stopMode |-> "PERCENT", stop |-> 50, maxOpen |-> 1, maxTrades |-> 5,
             maxLoss |-> 100000]

NoStops == [stop |-> 0, target1 |-> 0, target2 |-> 0]

\* Local variables of a request: at names the next step, then the step after
\* the cash is written; seen is the balance that was read, amount what it moves
\* by; found is the position at hand (at most one); loop are the positions a
\* quote has still to evaluate; keep are those that stay open.
Idle == [at |-> "idle", then |-> "idle", symbol |-> 0, qty |-> 0, price |-> 0,
         stops |-> NoStops, auto |-> FALSE, amount |-> 0, seen |-> 0,
         found |-> {}, loop |-> {}, keep |-> {}, pnl |-> 0, held |-> 0, entry |-> 0]

Serve(t, w) == work' = [work EXCEPT ![t] = w]

At(t, label) == work[t].at = label

TheOne(t) == CHOOSE i \in work[t].found : TRUE

(***************************************************************************)
(* What a request reads.                                                   *)
(***************************************************************************)
Longs(s) == {i \in open : heap[i].symbol = s}

First(S) == IF S = {} THEN {} ELSE {Min(S)}

Hit(p, price) ==
    \/ p.stops.stop > 0 /\ price <= p.stops.stop
    \/ p.stops.target2 > 0 /\ price >= p.stops.target2
    \/ p.stops.target1 > 0 /\ price >= p.stops.target1

TradesToday ==
    Cardinality({k \in DOMAIN trades : trades[k].today}) +
    Cardinality({i \in open : heap[i].today})

LossToday ==
    LET losing == {k \in DOMAIN trades : trades[k].today /\ trades[k].pnl < 0}
    IN  - MapThenSumSet(LAMBDA k : trades[k].pnl, losing)

Distance(mode, entry, v) ==
    IF mode = "POINTS" THEN v ELSE (2 * entry * v + 10000) \div 20000

GeneratedStops(entry) ==
    [stop    |-> entry - Distance(settings.stopMode, entry, settings.stop),
     target1 |-> entry + Distance(settings.targetMode, entry, settings.target),
     target2 |-> entry + Distance(settings.targetMode, entry, 2 * settings.target)]

AutoQuantity(entry) ==
    IF settings.sizing = "FIXED_QUANTITY" THEN settings.quantity
                                          ELSE settings.amount \div entry

\* Mutant: the day's trades are compared with the limit after the buy.
Armed_OneMore(s) ==
    /\ settings.enabled
    /\ quotes[s] > 0
    /\ ~kill
    /\ Cardinality(open) < settings.maxOpen
    /\ TradesToday <= settings.maxTrades
    /\ LossToday < settings.maxLoss
    /\ AutoQuantity(quotes[s]) >= 1
    /\ AutoQuantity(quotes[s]) * quotes[s] <= cash
    /\ Longs(s) = {}

\* Mutant: nothing keeps an automatic buy from adding to a position.
Armed_ScalesIn(s) ==
    /\ settings.enabled
    /\ quotes[s] > 0
    /\ ~kill
    /\ Cardinality(open) < settings.maxOpen
    /\ TradesToday < settings.maxTrades
    /\ LossToday < settings.maxLoss
    /\ AutoQuantity(quotes[s]) >= 1
    /\ AutoQuantity(quotes[s]) * quotes[s] <= cash

\* _paper_auto_trade_plan gives no reason to block.
Armed(s) ==
    /\ settings.enabled
    /\ quotes[s] > 0
    /\ ~kill
    /\ Cardinality(open) < settings.maxOpen
    /\ TradesToday < settings.maxTrades
    /\ LossToday < settings.maxLoss
    /\ AutoQuantity(quotes[s]) >= 1
    /\ AutoQuantity(quotes[s]) * quotes[s] <= cash
    /\ Longs(s) = {}

\* The averages that rounding to a paisa may give: two when it is a tie.
Averages(total, n) ==
    {a \in {total \div n, total \div n + 1} :
        /\ 2 * (a * n - total) <= n
        /\ 2 * (total - a * n) <= n}

(***************************************************************************)
(* Requests.                                                               *)
(***************************************************************************)
Buying(s, q, price, stops, auto) ==
    [Idle EXCEPT !.at = "check", !.symbol = s, !.qty = q, !.price = price,
                 !.stops = stops, !.auto = auto, !.amount = - price * q]

\* Bound: positions that are or may still be opened.
RoomForOne ==
    Len(heap) + Cardinality({t \in Threads : work[t].amount < 0}) < MaxIds

Held(s) == MapThenSumSet(LAMBDA i : heap[i].qty, Longs(s))

Buy(t, s, q, price, stops) ==
    /\ At(t, "idle")
    /\ RoomForOne
    /\ Held(s) + q <= MaxLots
    /\ Serve(t, Buying(s, q, price, stops, FALSE))
    /\ UNCHANGED <<account, context, history>>

\* A live signal with a validated BUY of enough confidence.
AutoTrade(t, s) ==
    /\ At(t, "idle")
    /\ RoomForOne
    /\ Armed(s)
    /\ Serve(t, Buying(s, AutoQuantity(quotes[s]), quotes[s],
                       GeneratedStops(quotes[s]), TRUE))
    /\ UNCHANGED <<account, context, history>>

Sell(t, s, q, price) ==
    /\ At(t, "idle")
    /\ Len(trades) < MaxTrades
    /\ \E i \in First(Longs(s)) :
          /\ q <= heap[i].qty
          /\ Serve(t, [Idle EXCEPT !.at = IF q < heap[i].qty THEN "partial" ELSE "close",
                                   !.qty = q, !.price = price, !.found = {i}])
    /\ UNCHANGED <<account, context, history>>

\* Without an entered price or a quote the position closes at its entry price.
ExitPrices(i) ==
    Prices \cup (IF quotes[heap[i].symbol] = 0 THEN {heap[i].entry} ELSE {})

PositionClose(t, i, price) ==
    /\ At(t, "idle")
    /\ Len(trades) < MaxTrades
    /\ price \in ExitPrices(i)
    /\ Serve(t, [Idle EXCEPT !.at = "close", !.price = price, !.found = {i}])
    /\ UNCHANGED <<account, context, history>>

MarketQuote(t, s, price) ==
    /\ At(t, "idle")
    /\ quotes' = [quotes EXCEPT ![s] = price]
    /\ Serve(t, [Idle EXCEPT !.at = "loop", !.symbol = s, !.price = price, !.loop = open])
    /\ UNCHANGED <<account, settings, kill, history>>

\* Bound: the balance is topped up once.
BalanceAdd(t, a) ==
    /\ At(t, "idle")
    /\ starting <= Balance
    /\ Serve(t, [Idle EXCEPT !.at = "read", !.amount = a, !.then = "deposit"])
    /\ UNCHANGED <<account, context, history>>

\* _PAPER.clear(): the keys come back in one update().
Reset(t, asked) ==
    /\ At(t, "idle")
    /\ starting' = 0 /\ cash' = 0 /\ open' = {} /\ trades' = <<>>
    /\ Serve(t, [Idle EXCEPT !.at = "update",
                             !.amount = IF asked > 0 THEN asked ELSE Balance])
    /\ UNCHANGED <<heap, context, history>>

AtLeast(low, n) == IF n < low THEN low ELSE n

SettingsUpdate(t, asked) ==
    /\ At(t, "idle")
    /\ settings' = [asked EXCEPT !.quantity = AtLeast(1, @), !.amount = AtLeast(0, @),
                                 !.target = AtLeast(0, @), !.stop = AtLeast(0, @),
                                 !.maxOpen = AtLeast(1, @), !.maxTrades = AtLeast(1, @),
                                 !.maxLoss = AtLeast(0, @)]
    /\ UNCHANGED <<account, kill, quotes, work, history>>

SetKillSwitch(t, enabled) ==
    /\ At(t, "idle")
    /\ kill' = enabled
    /\ UNCHANGED <<account, settings, quotes, work, history>>

(***************************************************************************)
(* The steps of _paper_open_long.                                          *)
(***************************************************************************)
\* Mutant: the balance is not compared with the cost.
CheckCost_Trusts(t) ==
    /\ At(t, "check")
    /\ Serve(t, [work[t] EXCEPT !.at = "find"])
    /\ UNCHANGED <<account, context, history>>

CheckCost(t) ==
    /\ At(t, "check")
    /\ Serve(t, IF cash < - work[t].amount THEN Idle ELSE [work[t] EXCEPT !.at = "find"])
    /\ UNCHANGED <<account, context, history>>

\* Mutant: every buy opens a position of its own.
FindExisting_None(t) ==
    /\ At(t, "find")
    /\ Serve(t, [work[t] EXCEPT !.at = "read", !.then = "append"])
    /\ UNCHANGED <<account, context, history>>

FindExisting(t) ==
    /\ At(t, "find")
    /\ LET existing == First(Longs(work[t].symbol))
       IN  Serve(t, [work[t] EXCEPT !.at = "read", !.found = existing,
                                    !.then = IF existing = {} THEN "append" ELSE "lot"])
    /\ UNCHANGED <<account, context, history>>

AppendPosition(t) ==
    /\ At(t, "append")
    /\ heap' = Append(heap, [symbol |-> work[t].symbol, qty |-> work[t].qty,
                             entry |-> work[t].price, stops |-> work[t].stops,
                             today |-> TRUE])
    /\ open' = open \cup {Len(heap')}
    /\ autos' = IF work[t].auto THEN autos + 1 ELSE autos
    /\ Serve(t, Idle)
    /\ UNCHANGED <<starting, cash, trades, context, slack>>

ReadLot(t) ==
    /\ At(t, "lot")
    /\ Serve(t, [work[t] EXCEPT !.at = "average", !.held = heap[TheOne(t)].qty,
                                !.entry = heap[TheOne(t)].entry])
    /\ UNCHANGED <<account, context, history>>

Overwritten(old, new) ==
    [k \in DOMAIN old |-> IF new[k] > 0 THEN new[k] ELSE old[k]]

AverageLot(t) ==
    /\ At(t, "average")
    /\ LET w == work[t]
           p == heap[TheOne(t)]
           n == w.held + w.qty
       IN  /\ \E a \in Averages(w.entry * w.held + w.price * w.qty, n) :
                 heap' = [heap EXCEPT ![TheOne(t)] =
                            [p EXCEPT !.qty = n, !.entry = a,
                                      !.stops = Overwritten(p.stops, w.stops)]]
           /\ slack' = slack + n
           /\ autos' = IF w.auto THEN autos + 1 ELSE autos
    /\ Serve(t, Idle)
    /\ UNCHANGED <<starting, cash, open, trades, context>>

(***************************************************************************)
(* cash_balance is read, then written.                                     *)
(***************************************************************************)
ReadCash(t) ==
    /\ At(t, "read")
    /\ Serve(t, [work[t] EXCEPT !.at = "write", !.seen = cash])
    /\ UNCHANGED <<account, context, history>>

WriteCash(t) ==
    /\ At(t, "write")
    /\ cash' = work[t].seen + work[t].amount
    /\ Serve(t, [work[t] EXCEPT !.at = work[t].then])
    /\ UNCHANGED <<starting, open, trades, heap, context, history>>

(***************************************************************************)
(* The steps of _paper_partial_close_long.                                 *)
(***************************************************************************)
\* Mutant: what remains is subtracted the wrong way round.
PartialClose_Swapped(t) ==
    /\ At(t, "partial")
    /\ LET w == work[t]
           p == heap[TheOne(t)]
       IN  Serve(t, IF w.found \subseteq open /\ w.qty < p.qty
                    THEN [w EXCEPT !.at = "read", !.then = "reduce",
                                   !.amount = w.price * w.qty,
                                   !.pnl = (w.price - p.entry) * w.qty,
                                   !.held = w.qty - p.qty]
                    ELSE Idle)
    /\ UNCHANGED <<account, context, history>>

PartialClose(t) ==
    /\ At(t, "partial")
    /\ LET w == work[t]
           p == heap[TheOne(t)]
       IN  Serve(t, IF w.found \subseteq open /\ w.qty < p.qty
                    THEN [w EXCEPT !.at = "read", !.then = "reduce",
                                   !.amount = w.price * w.qty,
                                   !.pnl = (w.price - p.entry) * w.qty,
                                   !.held = p.qty - w.qty]
                    ELSE Idle)
    /\ UNCHANGED <<account, context, history>>

Reduce(t) ==
    /\ At(t, "reduce")
    /\ heap' = [heap EXCEPT ![TheOne(t)].qty = work[t].held]
    /\ Serve(t, [work[t] EXCEPT !.at = "trade"])
    /\ UNCHANGED <<starting, cash, open, trades, context, history>>

(***************************************************************************)
(* The steps of _paper_close_position and _paper_evaluate_positions.       *)
(***************************************************************************)
ClosePosition(t) ==
    /\ At(t, "close")
    /\ LET w == work[t]
           p == heap[TheOne(t)]
       IN  Serve(t, IF w.found \subseteq open
                    THEN [w EXCEPT !.at = "read", !.then = "filter",
                                   !.amount = w.price * p.qty,
                                   !.pnl = (w.price - p.entry) * p.qty]
                    ELSE [w EXCEPT !.at = "loop"])
    /\ UNCHANGED <<account, context, history>>

StillOpen(t) ==
    /\ At(t, "filter")
    /\ Serve(t, [work[t] EXCEPT !.at = "assign", !.keep = open \ work[t].found])
    /\ UNCHANGED <<account, context, history>>

\* Mutant: the closed position stays in the list.
AssignOpen_Forgets(t) ==
    /\ At(t, "assign")
    /\ Serve(t, [work[t] EXCEPT !.at = "trade"])
    /\ UNCHANGED <<account, context, history>>

AssignOpen(t) ==
    /\ At(t, "assign")
    /\ open' = work[t].keep
    /\ Serve(t, [work[t] EXCEPT !.at = "trade"])
    /\ UNCHANGED <<starting, cash, trades, heap, context, history>>

AppendTrade(t) ==
    /\ At(t, "trade")
    /\ trades' = Append(trades, [pnl |-> work[t].pnl, today |-> TRUE])
    /\ Serve(t, [work[t] EXCEPT !.at = "loop"])
    /\ UNCHANGED <<starting, cash, open, heap, context, history>>

\* Only a quote has positions left to evaluate.
EvaluateNext(t) ==
    /\ At(t, "loop")
    /\ LET w    == work[t]
           next == First(w.loop)
           hit  == \E i \in next : heap[i].symbol = w.symbol /\ Hit(heap[i], w.price)
           rest == w.loop \ next
       IN  Serve(t, CASE hit              -> [w EXCEPT !.at = "close", !.found = next,
                                                       !.loop = rest]
                      [] ~hit /\ rest # {} -> [w EXCEPT !.loop = rest]
                      [] OTHER            -> Idle)
    /\ UNCHANGED <<account, context, history>>

(***************************************************************************)
(* The last steps of _paper_balance_add and _paper_reset.                  *)
(***************************************************************************)
ReadStarting(t) ==
    /\ At(t, "deposit")
    /\ Serve(t, [work[t] EXCEPT !.at = "raise", !.seen = starting])
    /\ UNCHANGED <<account, context, history>>

RaiseStarting(t) ==
    /\ At(t, "raise")
    /\ starting' = work[t].seen + work[t].amount
    /\ Serve(t, Idle)
    /\ UNCHANGED <<cash, open, trades, heap, context, history>>

UpdateAccount(t) ==
    /\ At(t, "update")
    /\ starting' = work[t].amount
    /\ cash' = work[t].amount
    /\ open' = {}
    /\ trades' = <<>>
    /\ autos' = 0
    /\ slack' = 0
    /\ Serve(t, [work[t] EXCEPT !.at = "defaults"])
    /\ UNCHANGED <<heap, context>>

RestoreDefaults(t) ==
    /\ At(t, "defaults")
    /\ settings' = Defaults
    /\ Serve(t, Idle)
    /\ UNCHANGED <<account, kill, quotes, history>>

NewDay ==
    /\ trades' = [k \in DOMAIN trades |-> [trades[k] EXCEPT !.today = FALSE]]
    /\ heap' = [i \in DOMAIN heap |-> [heap[i] EXCEPT !.today = FALSE]]
    /\ autos' = 0
    /\ UNCHANGED <<starting, cash, open, context, work, slack>>

Init ==
    /\ starting = Balance
    /\ cash = Balance
    /\ open = {}
    /\ trades = <<>>
    /\ heap = <<>>
    /\ settings = Defaults
    /\ kill = FALSE
    /\ quotes = [s \in Symbols |-> 0]
    /\ work = [t \in Threads |-> Idle]
    /\ autos = 0
    /\ slack = 0

Request(t) ==
    \/ \E s \in Symbols, q \in Lots, price \in Prices, stops \in Stops :
          Buy(t, s, q, price, stops)
    \/ \E s \in Symbols : AutoTrade(t, s)
    \/ \E s \in Symbols, q \in Lots, price \in Prices : Sell(t, s, q, price)
    \/ \E i \in open : \E price \in ExitPrices(i) : PositionClose(t, i, price)
    \/ \E s \in Symbols, price \in Prices : MarketQuote(t, s, price)
    \/ \E a \in TopUps : BalanceAdd(t, a)
    \/ \E asked \in TopUps \cup {0} : Reset(t, asked)
    \/ \E asked \in Settings : SettingsUpdate(t, asked)
    \/ \E enabled \in BOOLEAN : SetKillSwitch(t, enabled)

Step(t) ==
    \/ CheckCost(t) \/ FindExisting(t) \/ AppendPosition(t)
    \/ ReadLot(t) \/ AverageLot(t)
    \/ ReadCash(t) \/ WriteCash(t)
    \/ PartialClose(t) \/ Reduce(t)
    \/ ClosePosition(t) \/ StillOpen(t) \/ AssignOpen(t) \/ AppendTrade(t)
    \/ EvaluateNext(t)
    \/ ReadStarting(t) \/ RaiseStarting(t)
    \/ UpdateAccount(t) \/ RestoreDefaults(t)

Next == (\E t \in Threads : Request(t) \/ Step(t)) \/ NewDay

Spec == Init /\ [][Next]_vars

(***************************************************************************)
(* Properties.                                                             *)
(***************************************************************************)
Labels == {"idle", "check", "find", "append", "lot", "average", "read", "write",
           "partial", "reduce", "close", "filter", "assign", "trade", "loop",
           "deposit", "raise", "update", "defaults"}

\* Balances are amounts, open positions have a dict and hold shares at a price,
\* and every thread is at a step of a request.
TypeOK ==
    /\ starting \in Nat /\ cash \in Int /\ autos \in Nat /\ slack \in Nat
    /\ open \subseteq DOMAIN heap
    /\ \A i \in DOMAIN heap :
          /\ heap[i].symbol \in Symbols
          /\ heap[i].qty \in Nat \ {0}
          /\ heap[i].entry \in Nat \ {0}
    /\ \A s \in Symbols : quotes[s] \in Prices \cup {0}
    /\ \A t \in Threads :
          /\ work[t].at \in Labels
          /\ work[t].found \cup work[t].loop \cup work[t].keep \subseteq DOMAIN heap
          /\ Cardinality(work[t].found) <= 1

Quiet == \A t \in Threads : At(t, "idle")

Invested == SumFunction([i \in open |-> heap[i].qty * heap[i].entry])

Realized == SumFunction([k \in DOMAIN trades |-> trades[k].pnl])

Gap == cash + Invested - starting - Realized

\* Between requests the balance, with the cost of what is held, is what was put
\* in plus the profit and loss of the closed trades, up to the rounding of
\* average prices: no trade is paid twice, and no deposit or exit is lost.
MoneyConserved == Quiet => -slack <= 2 * Gap /\ 2 * Gap <= slack

\* A second buy of a symbol adds a lot to its position; it never opens another.
OnePositionPerSymbol == \A s \in Symbols : Cardinality(Longs(s)) <= 1

\* The virtual balance is never overdrawn, whatever the buys, exits and resets.
NeverOverdrawn == cash >= 0

\* The automatic buys of a day stay within max_trades_per_day, although each is
\* counted through the open list first and through the closed trades later.
AutoWithinLimits == [][autos' > autos => autos' <= settings.maxTrades]_vars

\* An automatic buy opens a position; it never adds a lot to one.
AutoNeverScalesIn == \A t \in Threads : work[t].auto => work[t].found = {}

(***************************************************************************)
(* The inductive invariant behind TypeOK, for any number of threads: the   *)
(* locals a step uses were set by the steps before it.                     *)
(***************************************************************************)
Dicts == [symbol : Symbols, qty : Nat \ {0}, entry : Nat \ {0}, stops : Levels,
          today : BOOLEAN]

Locals ==
    [at : Labels, then : Labels, symbol : Symbols \cup {0}, qty : Nat, price : Nat,
     stops : Levels, auto : BOOLEAN, amount : Int, seen : Int, found : SUBSET Nat,
     loop : SUBSET Nat, keep : SUBSET Nat, pnl : Int, held : Int, entry : Int]

\* The step a request is at, or will be at once it has written the cash.
Ahead(w) == IF w.at \in {"read", "write"} THEN w.then ELSE w.at

BuySteps == {"check", "find", "append", "lot", "average"}

\* The steps that follow a write of the cash.
AfterCash == {"append", "lot", "reduce", "filter", "deposit"}

Prepared(w) ==
    /\ w.found \cup w.loop \cup w.keep \subseteq DOMAIN heap
    /\ \A i, j \in w.found : i = j
    /\ w.at \in {"read", "write"} => w.then \in AfterCash
    /\ Ahead(w) \in {"lot", "average", "partial", "reduce", "close", "filter", "assign"}
          => w.found # {}
    /\ Ahead(w) \in BuySteps => w.symbol \in Symbols /\ w.qty > 0 /\ w.price > 0
    /\ Ahead(w) = "reduce" => w.held > 0
    /\ w.at = "average" => w.held > 0 /\ w.entry > 0
    /\ Ahead(w) \in {"deposit", "raise", "update"} => w.amount \in Nat
    /\ w.at = "raise" => w.seen \in Nat

Typed ==
    /\ starting \in Nat /\ cash \in Int /\ autos \in Nat /\ slack \in Nat
    /\ heap \in Seq(Dicts)
    /\ open \subseteq DOMAIN heap
    /\ trades \in Seq([pnl : Int, today : BOOLEAN])
    /\ settings \in SettingsType
    /\ kill \in BOOLEAN
    /\ quotes \in [Symbols -> Prices \cup {0}]
    /\ work \in [Threads -> Locals]
    /\ \A t \in Threads : Prepared(work[t])

(***************************************************************************)
(* The inductive invariant behind the other properties, when requests are  *)
(* served one at a time: what a request read still holds.                  *)
(***************************************************************************)
OnePerSymbol == \A i, j \in open : heap[i].symbol = heap[j].symbol => i = j

\* What the request has found and computed is still so.
Current(w) ==
    /\ Ahead(w) = "append" => Longs(w.symbol) = {}
    /\ Ahead(w) \in {"lot", "average", "reduce", "filter", "assign"} => w.found \subseteq open
    /\ w.at = "average" =>
          \A i \in w.found : w.held = heap[i].qty /\ w.entry = heap[i].entry
    /\ w.at = "assign" => w.keep = open \ w.found
    /\ w.at = "write" => w.seen = cash
    /\ w.at = "raise" => w.seen = starting

\* What the request pays or is paid is what its position changes by.
Exact(w) ==
    /\ Ahead(w) \in BuySteps => w.amount = - (w.price * w.qty)
    /\ Ahead(w) = "reduce" =>
          \A i \in w.found :
             w.amount - w.pnl = (heap[i].qty - w.held) * heap[i].entry
    /\ Ahead(w) \in {"filter", "assign"} =>
          \A i \in w.found : w.amount - w.pnl = heap[i].qty * heap[i].entry

\* The cash covers what will be written.
Funded(w) ==
    /\ cash >= 0
    /\ w.at \in {"find", "read", "write"} => cash + w.amount >= 0
    /\ Ahead(w) \in {"reduce", "filter", "deposit", "update"} => w.amount >= 0

\* An automatic buy was planned for a symbol that is not held, below the limit.
Planned(w) ==
    w.auto =>
       /\ Ahead(w) \in {"check", "find", "append"}
       /\ w.found = {}
       /\ Longs(w.symbol) = {} /\ TradesToday < settings.maxTrades

\* The automatic buys of the day are among its trades; one that is leaving the
\* open list is counted by the request that moves it.
Counted(w) ==
    w.at # "update" => autos <= TradesToday + (IF w.at = "trade" THEN 1 ELSE 0)

\* What has been moved in the cash or the open list and not yet in the other.
Due(w) ==
    IF w.at \in {"append", "lot", "average", "reduce", "filter", "assign",
                 "deposit", "raise"} THEN w.amount
    ELSE IF w.at = "trade" THEN w.pnl
    ELSE 0

Balanced(w) ==
    w.at # "update" => -slack <= 2 * (Gap - Due(w)) /\ 2 * (Gap - Due(w)) <= slack

Serial ==
    /\ OnePerSymbol
    /\ \A t \in Threads :
          /\ Current(work[t]) /\ Exact(work[t]) /\ Funded(work[t])
          /\ Planned(work[t]) /\ Counted(work[t]) /\ Balanced(work[t])
=============================================================================
