-------------------------- MODULE OrderDeskProofs --------------------------
(***************************************************************************)
(* The order desk: the durable stop, for any set of processes that write   *)
(* its file, and the guarded order path behind it, for any orders, quotes, *)
(* signals, limits and capital.                                            *)
(*                                                                         *)
(* A stop holds because no reset is under way while it does: a reset takes *)
(* the stop back when it begins, and an activation that returns while a    *)
(* reset runs promises nothing.                                            *)
(*                                                                         *)
(* The money of the paper manager adds up because of what relates its      *)
(* lists: one position per symbol makes the position that a sale closes    *)
(* the one that was bought, and the costs of the positions are a sum that  *)
(* gains and loses one term at a time.  Every fill is a position that is   *)
(* open or half of a sale that was closed, so that the counts follow from  *)
(* the order list.                                                         *)
(***************************************************************************)
EXTENDS MCOrderDesk, SumLemmas, SequenceTheorems

\* With no file yet, nobody has stopped or reset anything.
LEMMA KillInitInvariant == KillInit => KillInvariant
  <1> SUFFICES ASSUME KillInit
               PROVE  KillInvariant
    OBVIOUS
  <1>1. SwitchTypeOK
    BY DEF KillInit, SwitchTypeOK, Idle
  <1>2. QED
    BY <1>1 DEF KillInit, KillInvariant, StopHolds

\* What a call does to the keeper that makes it, the others keep.
LEMMA KeepsType ==
  ASSUME SwitchTypeOK, NEW k \in Keepers,
         NEW v \in [call : {"none", "activate", "reset"}, truncated : BOOLEAN],
         v.truncated => v.call # "none",
         keeping' = [keeping EXCEPT ![k] = v]
  PROVE  /\ keeping' \in [Keepers -> [call : {"none", "activate", "reset"}, truncated : BOOLEAN]]
         /\ \A j \in Keepers : keeping'[j].truncated => keeping'[j].call # "none"
  BY DEF SwitchTypeOK

\* Every call, write and crash keeps the invariant.
LEMMA KillStepInvariant == KillInvariant /\ [KillNext]_killVars => KillInvariant'
  <1> SUFFICES ASSUME KillInvariant, [KillNext]_killVars
               PROVE  KillInvariant'
    OBVIOUS
  <1> USE DEF KillInvariant, StopHolds, IsActive
  <1>1. ASSUME NEW k \in Keepers, BeginActivate(k)
        PROVE  KillInvariant'
    <2> DEFINE v == [call |-> "activate", truncated |-> FALSE]
    <2>1. SwitchTypeOK'
      BY <1>1, KeepsType DEF BeginActivate, SwitchTypeOK
    <2>2. Resetting' => Resetting
      BY <1>1 DEF BeginActivate, SwitchTypeOK, Idle, Resetting
    <2>3. QED
      BY <1>1, <2>1, <2>2 DEF BeginActivate
  <1>2. ASSUME NEW k \in Keepers, BeginReset(k)
        PROVE  KillInvariant'
    BY <1>2, KeepsType DEF BeginReset, SwitchTypeOK
  <1>3. ASSUME NEW k \in Keepers, Truncate(k)
        PROVE  KillInvariant'
    <2>1. SwitchTypeOK'
      BY <1>3 DEF Truncate, SwitchTypeOK
    <2>2. Resetting' => Resetting
      BY <1>3 DEF Truncate, SwitchTypeOK, Resetting
    <2>3. QED
      BY <1>3, <2>1, <2>2 DEF Truncate
  <1>4. ASSUME NEW k \in Keepers, WriteState(k)
        PROVE  KillInvariant'
    <2>1. /\ keeping' = [keeping EXCEPT ![k] = Idle]
          /\ switchFile' = Contents[keeping[k].call]
          /\ keeping[k].call \in {"activate", "reset"}
      BY <1>4 DEF WriteState, SwitchTypeOK
    <2>2. SwitchTypeOK'
      BY <1>4, <2>1, KeepsType DEF WriteState, SwitchTypeOK, Idle, Contents
    <2>3. Resetting' => Resetting
      BY <2>1 DEF SwitchTypeOK, Idle, Resetting
    <2>4. CASE keeping[k].call = "activate"
      <3>1. switchFile' = "active" /\ stopped' = ~Resetting
        BY <1>4, <2>1, <2>4 DEF WriteState, Contents
      <3>2. stopped' => ~Resetting'
        BY <2>3, <3>1
      <3>3. QED
        BY <2>2, <3>1, <3>2
    <2>5. CASE keeping[k].call = "reset"
      <3>1. Resetting /\ ~stopped
        BY <2>5 DEF Resetting
      <3>2. ~stopped'
        BY <1>4, <2>5, <3>1 DEF WriteState
      <3>3. QED
        BY <2>2, <3>2
    <2>6. QED
      BY <2>1, <2>4, <2>5
  <1>5. ASSUME NEW k \in Keepers, Die(k)
        PROVE  KillInvariant'
    <2>1. SwitchTypeOK'
      BY <1>5, KeepsType DEF Die, SwitchTypeOK, Idle
    <2>2. Resetting' => Resetting
      BY <1>5 DEF Die, SwitchTypeOK, Idle, Resetting
    <2>3. QED
      BY <1>5, <2>1, <2>2 DEF Die
  <1>6. CASE UNCHANGED killVars
    BY <1>6 DEF killVars, SwitchTypeOK, Resetting
  <1>7. QED
    BY <1>1, <1>2, <1>3, <1>4, <1>5, <1>6 DEF KillNext

\* The invariant of the switch, with its types: no reset is under way while a stop holds.
THEOREM KillInvariantHolds == KillSpec => []KillInvariant
  BY KillInitInvariant, KillStepInvariant, PTL DEF KillSpec

\* An activation that returned is in force until a confirmed reset is asked for, whatever
\* dies in the middle of its write.
THEOREM StopIsDurable == KillSpec => []StopHolds
  <1>1. KillInvariant => StopHolds
    BY DEF KillInvariant
  <1>2. QED
    BY <1>1, KillInvariantHolds, PTL

\* The switch is turned off by the end of a reset's write and by nothing else.
THEOREM OnlyResetResumes == KillSpec => ResumedByReset
  <1> DEFINE A == IsActive(switchFile) /\ ~IsActive(switchFile')
                    => \E k \in Keepers : keeping[k] = [call |-> "reset", truncated |-> TRUE]
                                          /\ keeping'[k] = Idle
  <1>1. ASSUME KillInvariant, [KillNext]_killVars
        PROVE  [A]_killVars
    <2>1. ASSUME NEW k \in Keepers, WriteState(k)
          PROVE  A
      <3>1. keeping[k].call \in {"activate", "reset"} /\ keeping'[k] = Idle
        BY <1>1, <2>1 DEF WriteState, KillInvariant, SwitchTypeOK
      <3>2. CASE keeping[k].call = "activate"
        BY <2>1, <3>2 DEF WriteState, Contents, IsActive
      <3>3. CASE keeping[k].call = "reset"
        BY <1>1, <2>1, <3>1, <3>3 DEF WriteState, KillInvariant, SwitchTypeOK
      <3>4. QED
        BY <3>1, <3>2, <3>3
    <2>2. CASE ~\E k \in Keepers : WriteState(k)
      BY <1>1, <2>2 DEF KillNext, BeginActivate, BeginReset, Truncate, Die, IsActive, killVars
    <2>3. QED
      BY <2>1, <2>2
  <1>2. QED
    BY <1>1, KillInvariantHolds, PTL DEF KillSpec, ResumedByReset

\* Both together, for any number of writers: the switch keeps what its runbook promises.
THEOREM KillIsSound == KillSpec => KillSound
  BY KillInvariantHolds, OnlyResetResumes, PTL DEF KillSound

-----------------------------------------------------------------------------
(* The paper order manager and the shadow engine.                          *)

Statuses == {"CREATED", "BLOCKED", "FILLED", "CANCELLED"}

Symbols == {o.symbol : o \in Asked \cup {c.order : c \in Cases}}

Held == [symbol : Symbols, side : {"LONG"}, quantity : Nat \ {0}, entry : Nat \ {0},
         ltp : Int]

Books == [cash : Int, open : Seq(Held), closed : Seq(Int), realized : Int, unrealized : Int,
          orders : Seq(Statuses), audit : [Statuses -> Nat]]

OnePerSymbol(b) ==
    \A i, j \in 1 .. Len(b.open) : b.open[i].symbol = b.open[j].symbol => i = j

\* What holds of either book: a fill is an open position, or half of a sale.
BookInv(b) ==
    /\ b \in Books
    /\ OnePerSymbol(b)
    /\ StatusCount(b, "FILLED") = Len(b.open) + 2 * Len(b.closed)

\* What holds of the paper manager's only: its money, and an entry for every order.
LedgerInv(b) ==
    /\ b.cash >= 0
    /\ b.cash + Invested(b) = InitialCash + b.realized
    /\ b.realized = SumFunction(b.closed)
    /\ b.audit["CREATED"] = Len(b.orders)
    /\ b.audit["FILLED"] = StatusCount(b, "FILLED")
    /\ b.audit["CANCELLED"] = StatusCount(b, "CANCELLED")
    /\ b.audit["BLOCKED"] = Len(b.orders) - StatusCount(b, "FILLED")

\* The invariant of the manager and the engine together.
SafeInv ==
    /\ BookInv(paper) /\ BookInv(shadow) /\ LedgerInv(paper)
    /\ FilledOnlyWhenSafe /\ SignalChecksAgree

\* What appending leaves of a list.
LEMMA AppendedList ==
    ASSUME NEW T, NEW q \in Seq(T), NEW x \in T
    PROVE  /\ Append(q, x) \in Seq(T) /\ Len(Append(q, x)) = Len(q) + 1
           /\ \A i \in 1 .. Len(q) : Append(q, x)[i] = q[i]
           /\ Append(q, x)[Len(q) + 1] = x
  OBVIOUS

\* What replacing an element leaves of a list.
LEMMA ChangedList ==
    ASSUME NEW T, NEW q \in Seq(T), NEW x \in T, NEW n \in 1 .. Len(q)
    PROVE  /\ [q EXCEPT ![n] = x] \in Seq(T) /\ Len([q EXCEPT ![n] = x]) = Len(q)
           /\ \A i \in 1 .. Len(q) : [q EXCEPT ![n] = x][i] = IF i = n THEN x ELSE q[i]
  OBVIOUS

\* One more index in a set of indices.
LEMMA OneMoreIndex ==
    ASSUME NEW n \in Nat, NEW S \in SUBSET (1 .. n), NEW x, x \notin S
    PROVE  /\ Cardinality(S) \in Nat
           /\ Cardinality(S \cup {x}) = Cardinality(S) + 1
  <1>1. IsFiniteSet(1 .. n)
    BY FS_Interval
  <1>2. IsFiniteSet(S)
    BY <1>1, FS_Subset
  <1>3. Cardinality(S) \in Nat
    BY <1>2, FS_CardinalityType
  <1>4. Cardinality(S \cup {x}) = Cardinality(S) + 1
    BY <1>2, FS_AddElement
  <1>5. QED
    BY <1>3, <1>4

\* An order that ends in a status counts for that status and for no other.
LEMMA StatusAppended ==
    ASSUME NEW b, b.orders \in Seq(Statuses), NEW s \in Statuses, NEW c,
           c.orders = Append(b.orders, s), NEW t
    PROVE  /\ StatusCount(b, t) \in Nat
           /\ StatusCount(c, t) = IF s = t THEN StatusCount(b, t) + 1 ELSE StatusCount(b, t)
  <1>1. PICK q : q = b.orders
    OBVIOUS
  <1>2. PICK r : r = c.orders
    OBVIOUS
  <1>3. PICK n \in Nat : n = Len(q)
    BY <1>1
  <1>4. /\ r \in Seq(Statuses) /\ Len(r) = n + 1
        /\ \A i \in 1 .. n : r[i] = q[i]
        /\ r[n + 1] = s
    BY <1>1, <1>2, <1>3, AppendedList
  <1>5. DOMAIN q = 1 .. n /\ DOMAIN r = 1 .. n + 1
    BY <1>1, <1>3, <1>4
  <1>6. PICK S : S = {i \in DOMAIN q : q[i] = t}
    OBVIOUS
  <1>7. PICK U : U = {i \in DOMAIN r : r[i] = t}
    OBVIOUS
  <1>8. StatusCount(b, t) = Cardinality(S) /\ StatusCount(c, t) = Cardinality(U)
    BY <1>1, <1>2, <1>6, <1>7 DEF StatusCount
  <1>9. \A i : i \in 1 .. n + 1 <=> i \in 1 .. n \/ i = n + 1
    OBVIOUS
  <1>10. S \in SUBSET (1 .. n) /\ n + 1 \notin S
    BY <1>5, <1>6
  <1>11. Cardinality(S) \in Nat /\ Cardinality(S \cup {n + 1}) = Cardinality(S) + 1
    BY <1>10, OneMoreIndex
  <1>12. CASE s = t
    <2>1. U = S \cup {n + 1}
      BY <1>4, <1>5, <1>6, <1>7, <1>9, <1>12
    <2>2. QED
      BY <1>8, <1>11, <1>12, <2>1
  <1>13. CASE s # t
    <2>1. U = S
      BY <1>4, <1>5, <1>6, <1>7, <1>9, <1>13
    <2>2. QED
      BY <1>8, <1>11, <1>13, <2>1
  <1>14. QED
    BY <1>12, <1>13

\* A cancelled order counts as cancelled, and the filled ones stay.
LEMMA StatusChanged ==
    ASSUME NEW b, b.orders \in Seq(Statuses), NEW n \in 1 .. Len(b.orders), NEW c,
           b.orders[n] \notin {"FILLED", "CANCELLED"},
           c.orders = [b.orders EXCEPT ![n] = "CANCELLED"]
    PROVE  /\ StatusCount(c, "FILLED") = StatusCount(b, "FILLED")
           /\ StatusCount(c, "CANCELLED") = StatusCount(b, "CANCELLED") + 1
  <1>1. PICK q : q = b.orders
    OBVIOUS
  <1>2. PICK r : r = c.orders
    OBVIOUS
  <1>3. "CANCELLED" \in Statuses
    BY DEF Statuses
  <1>4. /\ r \in Seq(Statuses) /\ Len(r) = Len(q)
        /\ \A i \in 1 .. Len(q) : r[i] = IF i = n THEN "CANCELLED" ELSE q[i]
    BY <1>1, <1>2, <1>3, ChangedList
  <1>5. DOMAIN q = 1 .. Len(q) /\ DOMAIN r = 1 .. Len(q) /\ n \in 1 .. Len(q)
        /\ Len(q) \in Nat
    BY <1>1, <1>4
  <1>6. PICK S : S = {i \in DOMAIN q : q[i] = "CANCELLED"}
    OBVIOUS
  <1>7. PICK U : U = {i \in DOMAIN r : r[i] = "CANCELLED"}
    OBVIOUS
  <1>8. S \in SUBSET (1 .. Len(q)) /\ n \notin S
    BY <1>1, <1>5, <1>6
  <1>9. U = S \cup {n}
    BY <1>4, <1>5, <1>6, <1>7
  <1>10. Cardinality(S \cup {n}) = Cardinality(S) + 1
    BY <1>5, <1>8, OneMoreIndex
  <1>11. {i \in DOMAIN r : r[i] = "FILLED"} = {i \in DOMAIN q : q[i] = "FILLED"}
    BY <1>1, <1>4, <1>5
  <1>12. \A t : /\ StatusCount(b, t) = Cardinality({i \in DOMAIN q : q[i] = t})
                /\ StatusCount(c, t) = Cardinality({i \in DOMAIN r : r[i] = t})
    BY <1>1, <1>2, Zenon DEF StatusCount
  <1>13. /\ StatusCount(b, "CANCELLED") = Cardinality(S)
         /\ StatusCount(c, "CANCELLED") = Cardinality(U)
    BY <1>6, <1>7, <1>12, Zenon
  <1>14. StatusCount(c, "FILLED") = StatusCount(b, "FILLED")
    BY <1>11, <1>12, Zenon
  <1>15. QED
    BY <1>9, <1>10, <1>13, <1>14

\* The position of a symbol is the only one, and 0 says that there is none.
LEMMA OpenAtFinds ==
    ASSUME NEW b, b.open \in Seq(Held), OnePerSymbol(b), NEW s
    PROVE  \/ /\ OpenAt(b, s) \in 1 .. Len(b.open)
              /\ b.open[OpenAt(b, s)].symbol = s
           \/ /\ OpenAt(b, s) = 0
              /\ \A i \in 1 .. Len(b.open) : b.open[i].symbol # s
  <1>1. PICK I : I = {i \in 1 .. Len(b.open) : b.open[i].symbol = s}
    OBVIOUS
  <1>2. OpenAt(b, s) = IF I # {} THEN Min(I) ELSE 0
    BY <1>1 DEF OpenAt, SelectInSeq
  <1>3. CASE I = {}
    BY <1>1, <1>2, <1>3
  <1>4. ASSUME NEW k \in I
        PROVE  /\ OpenAt(b, s) \in 1 .. Len(b.open)
               /\ b.open[OpenAt(b, s)].symbol = s
    <2>1. k \in 1 .. Len(b.open) /\ k \in Int /\ \A i \in I : i = k
      BY <1>1 DEF OnePerSymbol
    <2>2. \A x \in I : \A y \in I : x <= y
      BY <2>1
    <2>3. Min(I) \in I
      BY <2>2, <1>4 DEF Min
    <2>4. QED
      BY <1>1, <1>2, <2>3
  <1>5. QED
    BY <1>3, <1>4

\* What an order leaves of the order list and the audit log.
Recorded(b, c, s) ==
    /\ c.orders = Append(b.orders, s)
    /\ c.audit \in [Statuses -> Nat]
    /\ \A e \in Statuses :
          c.audit[e] = IF e \in {"CREATED", s} THEN b.audit[e] + 1 ELSE b.audit[e]

Unmoved(b, c) ==
    c.cash = b.cash /\ c.open = b.open /\ c.closed = b.closed /\ c.realized = b.realized

Bought(b, c, o, ltp) ==
    /\ \A i \in 1 .. Len(b.open) : b.open[i].symbol # o.symbol
    /\ c.cash = b.cash - ltp * o.quantity
    /\ c.open = Append(b.open, [symbol |-> o.symbol, side |-> "LONG",
                                quantity |-> o.quantity, entry |-> ltp, ltp |-> ltp])
    /\ c.closed = b.closed /\ c.realized = b.realized

Sold(b, c, i, ltp) ==
    /\ c.cash = b.cash + ltp * b.open[i].quantity
    /\ c.open = RemoveAt(b.open, i)
    /\ c.closed = Append(b.closed, (ltp - b.open[i].entry) * b.open[i].quantity)
    /\ c.realized = b.realized + (ltp - b.open[i].entry) * b.open[i].quantity

\* What can come of an order.
Outcome(kind, b, c, o, q, action, allowed, s) ==
    \/ s = "BLOCKED" /\ Unmoved(b, c)
    \/ /\ s = "FILLED" /\ allowed /\ ValidOrder(kind, o, q, action)
       /\ \/ /\ Bought(b, c, o, q.ltp)
             /\ kind = "paper" => q.ltp * o.quantity <= b.cash
          \/ \E i \in 1 .. Len(b.open) : Sold(b, c, i, q.ltp)

\* An order that ends in a status is on record with it, and so is its creation.
LEMMA EndRecords ==
    ASSUME NEW b \in Books, NEW d, d \in Books,
           d.orders = Append(b.orders, "CREATED"),
           d.audit = [b.audit EXCEPT !["CREATED"] = @ + 1],
           NEW s \in {"BLOCKED", "FILLED"}, NEW c, c = Ended(d, s)
    PROVE  /\ c \in Books /\ Recorded(b, c, s) /\ Unmoved(d, c)
  <1>1. PICK q : q = b.orders
    OBVIOUS
  <1>2. PICK r : r = d.orders
    OBVIOUS
  <1>3. q \in Seq(Statuses) /\ Len(q) \in Nat /\ r = Append(q, "CREATED")
        /\ s \in Statuses /\ "CREATED" \in Statuses
    <2>1. b.orders \in Seq(Statuses)
      BY DEF Books
    <2>2. s \in Statuses /\ "CREATED" \in Statuses
      BY DEF Statuses
    <2>3. q \in Seq(Statuses) /\ r = Append(q, "CREATED")
      BY <1>1, <1>2, <2>1, Zenon
    <2>4. QED
      BY <2>2, <2>3
  <1>4. r \in Seq(Statuses) /\ Len(r) = Len(q) + 1 /\ \A i \in 1 .. Len(q) : r[i] = q[i]
    BY <1>3, AppendedList
  <1>5. PICK v : v = [r EXCEPT ![Len(r)] = s]
    OBVIOUS
  <1>6. /\ v \in Seq(Statuses) /\ Len(v) = Len(r)
        /\ \A i \in 1 .. Len(r) : v[i] = IF i = Len(r) THEN s ELSE r[i]
    <2>1. PICK m : m = Len(r)
      OBVIOUS
    <2>2. m \in 1 .. Len(r)
      BY <1>3, <1>4, <2>1
    <2>3. v = [r EXCEPT ![m] = s]
      BY <1>5, <2>1
    <2>4. r \in Seq(Statuses) /\ s \in Statuses /\ m \in 1 .. Len(r)
      BY <1>3, <1>4, <2>2
    <2>5. /\ [r EXCEPT ![m] = s] \in Seq(Statuses) /\ Len([r EXCEPT ![m] = s]) = Len(r)
          /\ \A i \in 1 .. Len(r) : [r EXCEPT ![m] = s][i] = IF i = m THEN s ELSE r[i]
      BY <2>4, ChangedList
    <2>6. QED
      BY <2>1, <2>3, <2>5, Zenon
  <1>7. PICK w : w = Append(q, s)
    OBVIOUS
  <1>8. /\ w \in Seq(Statuses) /\ Len(w) = Len(q) + 1 /\ \A i \in 1 .. Len(q) : w[i] = q[i]
        /\ w[Len(q) + 1] = s
    BY <1>3, <1>7, AppendedList
  <1>9. v = w
    <2>1. Len(v) = Len(w) /\ \A i \in 1 .. Len(w) : v[i] = w[i]
      BY <1>3, <1>4, <1>6, <1>8
    <2>2. v \in [1 .. Len(w) -> Statuses] /\ w \in [1 .. Len(w) -> Statuses]
      BY <1>6, <1>8, <2>1
    <2>3. QED
      BY <2>1, <2>2
  <1>10. PICK a : a = d.audit
    OBVIOUS
  <1>11. a \in [Statuses -> Nat] /\ b.audit \in [Statuses -> Nat]
    BY <1>10 DEF Books
  <1>12. \A e \in Statuses : a[e] = IF e = "CREATED" THEN b.audit[e] + 1 ELSE b.audit[e]
    BY <1>10, <1>11
  <1>13. PICK z : z = [a EXCEPT ![s] = a[s] + 1]
    OBVIOUS
  <1>14. z \in [Statuses -> Nat] /\ \A e \in Statuses : z[e] = IF e = s THEN a[e] + 1 ELSE a[e]
    BY <1>3, <1>11, <1>13
  <1>15. c = [d EXCEPT !.orders = v, !.audit = z]
    BY <1>2, <1>3, <1>5, <1>10, <1>13 DEF Ended, Audited, Books
  <1>16. c.orders = w /\ c.audit = z /\ c \in Books
    BY <1>6, <1>9, <1>14, <1>15 DEF Books
  <1>17. Unmoved(d, c)
    BY <1>15 DEF Unmoved, Books
  <1>18. Recorded(b, c, s)
    BY <1>1, <1>3, <1>7, <1>12, <1>14, <1>16 DEF Recorded
  <1>19. QED
    BY <1>16, <1>17, <1>18

\* An order is blocked and moves nothing, or it was allowed and is filled, as a buy of a
\* symbol nobody holds or as the sale of a whole position.
LEMMA OrderOutcome ==
    ASSUME NEW kind \in {"paper", "shadow"}, NEW b, b \in Books, OnePerSymbol(b),
           NEW o, o.symbol \in Symbols, o.quantity \in Int, NEW q, q.ltp \in Int,
           NEW action, NEW allowed \in BOOLEAN,
           NEW c, c = CreateOrder(kind, b, o, q, action, allowed)
    PROVE  /\ c \in Books
           /\ \E s \in {"BLOCKED", "FILLED"} :
                 Recorded(b, c, s) /\ Outcome(kind, b, c, o, q, action, allowed, s)
  <1>1. PICK d : d = Audited([b EXCEPT !.orders = Append(@, "CREATED")], "CREATED")
    OBVIOUS
  <1>2. PICK w : w = Append(b.orders, "CREATED")
    OBVIOUS
  <1>3. w \in Seq(Statuses)
    <2>1. b.orders \in Seq(Statuses) /\ "CREATED" \in Statuses
      BY DEF Books, Statuses
    <2>2. QED
      BY <1>2, <2>1, AppendedList
  <1>4. PICK a : a = [b.audit EXCEPT !["CREATED"] = @ + 1]
    OBVIOUS
  <1>5. a \in [Statuses -> Nat]
    <2>1. b.audit \in [Statuses -> Nat] /\ "CREATED" \in Statuses
      BY DEF Books, Statuses
    <2>2. QED
      BY <1>4, <2>1
  <1>6. d = [b EXCEPT !.orders = w, !.audit = a]
    BY <1>1, <1>2, <1>4 DEF Audited, Books
  <1>7. d \in Books /\ d.orders = w /\ d.audit = a /\ Unmoved(b, d)
    BY <1>3, <1>5, <1>6 DEF Books, Unmoved
  <1>8. b.open \in Seq(Held) /\ b.closed \in Seq(Int) /\ b.cash \in Int /\ b.realized \in Int
        /\ Len(b.open) \in Nat
    BY DEF Books
  <1>9. \/ /\ c = Ended(d, "BLOCKED")
        \/ /\ allowed /\ ValidOrder(kind, o, q, action)
           /\ o.side = "BUY" /\ c = FillBuy(kind, d, o, q.ltp)
        \/ /\ allowed /\ ValidOrder(kind, o, q, action)
           /\ c = FillSell(d, o, q.ltp)
    BY <1>1 DEF CreateOrder
  <1> DEFINE Goal == /\ c \in Books
                     /\ \E s \in {"BLOCKED", "FILLED"} :
                           Recorded(b, c, s) /\ Outcome(kind, b, c, o, q, action, allowed, s)
  <1>10. ASSUME c = Ended(d, "BLOCKED") PROVE Goal
    <2>1. c \in Books /\ Recorded(b, c, "BLOCKED") /\ Unmoved(d, c)
      BY <1>2, <1>4, <1>7, <1>10, EndRecords
    <2>2. Unmoved(b, c)
      BY <1>7, <2>1 DEF Unmoved
    <2>3. QED
      BY <2>1, <2>2 DEF Outcome
  <1>11. ASSUME NEW e, e \in Books, e.orders = w, e.audit = a, c = Ended(e, "FILLED")
         PROVE  c \in Books /\ Recorded(b, c, "FILLED") /\ Unmoved(e, c)
    BY <1>2, <1>4, <1>11, EndRecords
  <1>12. \A s : OpenAt(d, s) = OpenAt(b, s)
    BY <1>7 DEF OpenAt, Unmoved
  <1>13. ASSUME allowed, ValidOrder(kind, o, q, action), c = FillBuy(kind, d, o, q.ltp)
         PROVE  Goal
    <2>1. CASE (kind = "paper" /\ q.ltp * o.quantity > d.cash) \/ OpenAt(d, o.symbol) # 0
      <3>1. c = Ended(d, "BLOCKED")
        BY <1>13, <2>1 DEF FillBuy
      <3>2. QED
        BY <1>10, <3>1
    <2>2. CASE ~(kind = "paper" /\ q.ltp * o.quantity > d.cash) /\ ~(OpenAt(d, o.symbol) # 0)
      <3>1. PICK p : p = [symbol |-> o.symbol, side |-> "LONG", quantity |-> o.quantity,
                          entry |-> q.ltp, ltp |-> q.ltp]
        OBVIOUS
      <3>2. p \in Held
        BY <1>13, <3>1 DEF Held, ValidOrder
      <3>3. PICK open : open = Append(b.open, p)
        OBVIOUS
      <3>4. open \in Seq(Held)
        BY <1>8, <3>2, <3>3, AppendedList
      <3>5. PICK cash \in Int : cash = b.cash - q.ltp * o.quantity
        BY <1>8
      <3>6. PICK e : e = [d EXCEPT !.cash = cash, !.open = open]
        OBVIOUS
      <3>7. /\ e \in Books /\ e.orders = w /\ e.audit = a /\ e.cash = cash /\ e.open = open
            /\ e.closed = b.closed /\ e.realized = b.realized
        BY <1>7, <3>4, <3>6 DEF Books, Unmoved
      <3>8. c = Ended(e, "FILLED")
        <4>1. c = Ended([d EXCEPT !.cash = @ - q.ltp * o.quantity,
                         !.open = Append(@, [symbol |-> o.symbol, side |-> "LONG",
                                             quantity |-> o.quantity, entry |-> q.ltp,
                                             ltp |-> q.ltp])], "FILLED")
          BY <1>13, <2>2, Zenon DEF FillBuy
        <4>2. d.cash - q.ltp * o.quantity = cash /\ Append(d.open, p) = open
          BY <1>7, <3>3, <3>5 DEF Unmoved
        <4>3. QED
          BY <3>1, <3>6, <4>1, <4>2
      <3>9. c \in Books /\ Recorded(b, c, "FILLED") /\ Unmoved(e, c)
        BY <1>11, <3>7, <3>8
      <3>10. \A i \in 1 .. Len(b.open) : b.open[i].symbol # o.symbol
        <4>1. ~(OpenAt(b, o.symbol) # 0)
          BY <1>12, <2>2
        <4>2. QED
          BY <1>8, <4>1, OpenAtFinds
      <3>11. Bought(b, c, o, q.ltp)
        BY <3>1, <3>3, <3>5, <3>7, <3>9, <3>10 DEF Bought, Unmoved
      <3>12. kind = "paper" => q.ltp * o.quantity <= b.cash
        <4>1. d.cash = b.cash /\ q.ltp * o.quantity \in Int
          BY <1>7 DEF Unmoved
        <4>2. PICK cost \in Int : cost = q.ltp * o.quantity
          BY <4>1
        <4>3. QED
          BY <1>8, <2>2, <4>1, <4>2
      <3>13. Outcome(kind, b, c, o, q, action, allowed, "FILLED")
        BY <1>13, <3>11, <3>12 DEF Outcome
      <3>14. QED
        BY <3>9, <3>13
    <2>3. QED
      BY <2>1, <2>2
  <1>14. ASSUME allowed, ValidOrder(kind, o, q, action), c = FillSell(d, o, q.ltp)
         PROVE  Goal
    <2>1. PICK i : i = OpenAt(b, o.symbol)
      OBVIOUS
    <2>2. i = OpenAt(d, o.symbol)
      BY <1>12, <2>1
    <2>3. CASE i = 0
      <3>1. c = Ended(d, "BLOCKED")
        BY <1>14, <2>2, <2>3 DEF FillSell
      <3>2. QED
        BY <1>10, <3>1
    <2>4. CASE i # 0
      <3>1. i \in 1 .. Len(b.open)
        BY <1>8, <2>1, <2>4, OpenAtFinds
      <3>2. PICK p \in Held : p = b.open[i]
        BY <1>8, <3>1
      <3>3. p.quantity \in Int /\ p.entry \in Int
        BY DEF Held
      <3>4. PICK gain \in Int : gain = (q.ltp - p.entry) * p.quantity
        BY <3>3
      <3>5. PICK open : open = RemoveAt(b.open, i)
        OBVIOUS
      <3>6. open \in Seq(Held)
        BY <1>8, <3>1, <3>5, ShorterList
      <3>7. PICK closed : closed = Append(b.closed, gain)
        OBVIOUS
      <3>8. closed \in Seq(Int)
        BY <1>8, <3>4, <3>7, AppendedList
      <3>9. PICK cash \in Int : cash = b.cash + q.ltp * p.quantity
        BY <1>8, <3>3
      <3>10. PICK e : e = [d EXCEPT !.cash = cash, !.open = open, !.closed = closed,
                                    !.realized = b.realized + gain]
        OBVIOUS
      <3>11. b.realized + gain \in Int
        BY <1>8
      <3>12. /\ e \in Books /\ e.orders = w /\ e.audit = a /\ e.cash = cash /\ e.open = open
             /\ e.closed = closed /\ e.realized = b.realized + gain
        BY <1>7, <3>6, <3>8, <3>10, <3>11 DEF Books
      <3>13. c = Ended(e, "FILLED")
        <4>1. c = Ended([d EXCEPT !.cash = @ + q.ltp * d.open[i].quantity,
                           !.open = RemoveAt(@, i),
                           !.closed = Append(@, (q.ltp - d.open[i].entry) * d.open[i].quantity),
                           !.realized = @ + (q.ltp - d.open[i].entry) * d.open[i].quantity],
                        "FILLED")
          BY <1>14, <2>2, <2>4 DEF FillSell
        <4>2. d.cash = b.cash /\ d.open = b.open /\ d.closed = b.closed
              /\ d.realized = b.realized
          BY <1>7 DEF Unmoved
        <4>3. QED
          BY <3>2, <3>4, <3>5, <3>7, <3>9, <3>10, <4>1, <4>2
      <3>14. c \in Books /\ Recorded(b, c, "FILLED") /\ Unmoved(e, c)
        BY <1>11, <3>12, <3>13
      <3>15. Sold(b, c, i, q.ltp)
        BY <3>2, <3>4, <3>5, <3>7, <3>9, <3>12, <3>14 DEF Sold, Unmoved
      <3>16. Outcome(kind, b, c, o, q, action, allowed, "FILLED")
        BY <1>14, <3>1, <3>15 DEF Outcome
      <3>17. QED
        BY <3>14, <3>16
    <2>5. QED
      BY <2>3, <2>4
  <1>15. QED
    BY <1>9, <1>10, <1>13, <1>14

\* Blocked, bought or sold: positions stay one per symbol, and fills are counted.
LEMMA OrderKeepsBook ==
    ASSUME NEW b, BookInv(b), NEW c, c \in Books,
           NEW kind, NEW o, NEW q, NEW action, NEW allowed, NEW s \in {"BLOCKED", "FILLED"},
           Recorded(b, c, s), Outcome(kind, b, c, o, q, action, allowed, s)
    PROVE  BookInv(c)
  <1>1. PICK n \in Nat : n = Len(b.open)
    BY DEF BookInv, Books
  <1>2. PICK m \in Nat : m = Len(b.closed)
    BY DEF BookInv, Books
  <1>3. b.open \in Seq(Held) /\ b.closed \in Seq(Int) /\ c.open \in Seq(Held)
        /\ c.closed \in Seq(Int) /\ b.orders \in Seq(Statuses)
    BY DEF BookInv, Books
  <1>4. PICK k \in Nat : k = StatusCount(b, "FILLED")
    <2>1. StatusCount(b, "FILLED") = n + 2 * m
      BY <1>1, <1>2 DEF BookInv
    <2>2. n + 2 * m \in Nat
      OBVIOUS
    <2>3. QED
      BY <2>1, <2>2
  <1>5. StatusCount(c, "FILLED") = IF s = "FILLED" THEN k + 1 ELSE k
    <2>1. s \in Statuses /\ c.orders = Append(b.orders, s)
      BY DEF Statuses, Recorded
    <2>2. QED
      BY SMTT(20), <1>3, <1>4, <2>1, StatusAppended
  <1>6. k = n + 2 * m
    BY <1>1, <1>2, <1>4 DEF BookInv
  <1>7. CASE s = "BLOCKED"
    <2>1. c.open = b.open /\ c.closed = b.closed
      BY <1>7 DEF Outcome, Unmoved
    <2>2. OnePerSymbol(c)
      BY <2>1 DEF OnePerSymbol, BookInv
    <2>3. QED
      BY <1>1, <1>2, <1>5, <1>6, <1>7, <2>1, <2>2 DEF BookInv
  <1>8. ASSUME s = "FILLED", Bought(b, c, o, q.ltp)
        PROVE  BookInv(c)
    <2>1. PICK p : p = [symbol |-> o.symbol, side |-> "LONG", quantity |-> o.quantity,
                        entry |-> q.ltp, ltp |-> q.ltp]
      OBVIOUS
    <2>2. c.open = Append(b.open, p) /\ c.closed = b.closed /\ p.symbol = o.symbol
      BY <1>8, <2>1 DEF Bought
    <2>3. Len(c.open) = n + 1 /\ c.open[n + 1] = p /\ \A i \in 1 .. n : c.open[i] = b.open[i]
      BY <1>1, <1>3, <2>2
    <2>4. \A i \in 1 .. n : b.open[i].symbol # p.symbol
      BY <1>1, <1>8, <2>2 DEF Bought
    <2>5. \A i, j \in 1 .. n : b.open[i].symbol = b.open[j].symbol => i = j
      BY <1>1 DEF BookInv, OnePerSymbol
    <2>6. \A i : i \in 1 .. n + 1 <=> i \in 1 .. n \/ i = n + 1
      OBVIOUS
    <2>7. \A i, j \in 1 .. n + 1 : c.open[i].symbol = c.open[j].symbol => i = j
      BY <2>3, <2>4, <2>5, <2>6
    <2>8. OnePerSymbol(c)
      BY <2>3, <2>7 DEF OnePerSymbol
    <2>9. StatusCount(c, "FILLED") = Len(c.open) + 2 * Len(c.closed)
      <3>1. StatusCount(c, "FILLED") = k + 1
        BY <1>5, <1>8
      <3>2. Len(c.open) = n + 1 /\ Len(c.closed) = m
        BY <1>2, <2>2, <2>3
      <3>3. k + 1 = (n + 1) + 2 * m
        BY <1>6
      <3>4. QED
        BY <3>1, <3>2, <3>3
    <2>10. QED
      BY <2>8, <2>9 DEF BookInv
  <1>9. ASSUME s = "FILLED", NEW k1 \in 1 .. Len(b.open), Sold(b, c, k1, q.ltp)
        PROVE  BookInv(c)
    <2>1. PICK x : x = (q.ltp - b.open[k1].entry) * b.open[k1].quantity
      OBVIOUS
    <2>2. c.open = RemoveAt(b.open, k1) /\ c.closed = Append(b.closed, x)
      BY <1>9, <2>1 DEF Sold
    <2>3. /\ Len(c.open) = n - 1
          /\ \A j \in 1 .. n - 1 : c.open[j] = IF j < k1 THEN b.open[j] ELSE b.open[j + 1]
      BY SMTT(20), <1>1, <1>3, <2>2, ShorterList
    <2>4. Len(c.closed) = m + 1
      <3>1. Len(Append(b.closed, x)) = Len(b.closed) + 1
        BY <1>3
      <3>2. QED
        BY <1>2, <2>2, <3>1
    <2>5. \A i, j \in 1 .. n : b.open[i].symbol = b.open[j].symbol => i = j
      BY <1>1 DEF BookInv, OnePerSymbol
    <2>6. PICK h : h = [j \in 1 .. n - 1 |-> IF j < k1 THEN j ELSE j + 1]
      OBVIOUS
    <2>7. k1 \in Int /\ \A j \in 1 .. n - 1 : h[j] \in 1 .. n /\ c.open[j] = b.open[h[j]]
      BY <1>1, <2>3, <2>6
    <2>8. \A i, j \in 1 .. n - 1 : h[i] = h[j] => i = j
      <3>1. ASSUME NEW i \in 1 .. n - 1, NEW j \in 1 .. n - 1, h[i] = h[j]
            PROVE  i = j
        <4>1. /\ (i < k1 /\ h[i] = i) \/ (~(i < k1) /\ h[i] = i + 1)
              /\ (j < k1 /\ h[j] = j) \/ (~(j < k1) /\ h[j] = j + 1)
          BY <2>6
        <4>2. k1 \in Int /\ i \in Int /\ j \in Int
          BY <2>7
        <4>3. QED
          BY <3>1, <4>1, <4>2
      <3>2. QED
        BY <3>1
    <2>9. \A i, j \in 1 .. n - 1 : c.open[i].symbol = c.open[j].symbol => i = j
      <3>1. ASSUME NEW i \in 1 .. n - 1, NEW j \in 1 .. n - 1,
                   c.open[i].symbol = c.open[j].symbol
            PROVE  i = j
        <4>1. b.open[h[i]].symbol = b.open[h[j]].symbol
          BY <2>7, <3>1
        <4>2. h[i] = h[j]
          BY <2>5, <2>7, <4>1
        <4>3. QED
          BY <2>8, <4>2
      <3>2. QED
        BY <3>1
    <2>10. OnePerSymbol(c)
      BY <2>3, <2>9 DEF OnePerSymbol
    <2>11. StatusCount(c, "FILLED") = Len(c.open) + 2 * Len(c.closed)
      BY <1>2, <1>5, <1>6, <1>9, <2>3, <2>4
    <2>12. QED
      BY <2>10, <2>11 DEF BookInv
  <1>10. QED
    BY <1>7, <1>8, <1>9 DEF Outcome

\* What a position cost.
Costs(b) == [i \in DOMAIN b.open |-> b.open[i].entry * b.open[i].quantity]

\* The costs are numbers, one per position.
LEMMA CostsTyped ==
    ASSUME NEW b, b.open \in Seq(Held)
    PROVE  /\ Costs(b) \in [1 .. Len(b.open) -> Int]
           /\ \A i \in 1 .. Len(b.open) : Costs(b)[i] = b.open[i].entry * b.open[i].quantity
           /\ Invested(b) = SumFunction(Costs(b)) /\ Invested(b) \in Int
  <1>1. PICK n \in Nat : n = Len(b.open)
    OBVIOUS
  <1>2. DOMAIN b.open = 1 .. n
    BY <1>1
  <1>3. \A i \in 1 .. n : b.open[i].entry * b.open[i].quantity \in Int
    <2>1. SUFFICES ASSUME NEW i \in 1 .. n PROVE b.open[i].entry * b.open[i].quantity \in Int
      OBVIOUS
    <2>2. b.open[i] \in Held
      BY <1>1
    <2>3. b.open[i].entry \in Int /\ b.open[i].quantity \in Int
      BY <2>2 DEF Held
    <2>4. QED
      BY <2>3
  <1>4. /\ Costs(b) \in [1 .. n -> Int]
        /\ \A i \in 1 .. n : Costs(b)[i] = b.open[i].entry * b.open[i].quantity
    BY <1>2, <1>3 DEF Costs
  <1>5. Invested(b) = SumFunction(Costs(b))
    BY DEF Invested, Costs
  <1>6. IsFiniteSet(1 .. n)
    BY FS_Interval
  <1>7. SumFunction(Costs(b)) \in Int
    BY <1>4, <1>6, SumType DEF Summable
  <1>8. QED
    BY <1>1, <1>4, <1>5, <1>7

\* The audit log has the creation and the end of an order that is on record.
LEMMA OrderKeepsAudit ==
    ASSUME NEW b, BookInv(b), LedgerInv(b), NEW c, NEW s \in {"BLOCKED", "FILLED"},
           Recorded(b, c, s)
    PROVE  /\ c.audit["CREATED"] = Len(c.orders)
           /\ c.audit["FILLED"] = StatusCount(c, "FILLED")
           /\ c.audit["CANCELLED"] = StatusCount(c, "CANCELLED")
           /\ c.audit["BLOCKED"] = Len(c.orders) - StatusCount(c, "FILLED")
  <1>1. b.orders \in Seq(Statuses) /\ s \in Statuses /\ c.orders = Append(b.orders, s)
    BY DEF BookInv, Books, Statuses, Recorded
  <1>2. PICK n \in Nat : n = Len(b.orders)
    BY <1>1
  <1>3. Len(c.orders) = n + 1
    BY <1>1, <1>2
  <1>4. \A t : /\ StatusCount(b, t) \in Nat
               /\ StatusCount(c, t) = IF s = t THEN StatusCount(b, t) + 1 ELSE StatusCount(b, t)
    BY <1>1, StatusAppended
  <1>5. PICK f \in Nat : f = StatusCount(b, "FILLED")
    BY <1>4
  <1>6. PICK g \in Nat : g = StatusCount(b, "CANCELLED")
    BY <1>4
  <1>7. /\ StatusCount(c, "FILLED") = IF s = "FILLED" THEN f + 1 ELSE f
        /\ StatusCount(c, "CANCELLED") = g
    BY <1>4, <1>5, <1>6
  <1>8. /\ b.audit["CREATED"] = n /\ b.audit["FILLED"] = f
        /\ b.audit["CANCELLED"] = g /\ b.audit["BLOCKED"] = n - f
    BY <1>2, <1>5, <1>6 DEF LedgerInv
  <1>9. \A e \in Statuses :
           c.audit[e] = IF e \in {"CREATED", s} THEN b.audit[e] + 1 ELSE b.audit[e]
    BY DEF Recorded
  <1>10. /\ c.audit["CREATED"] = n + 1
         /\ c.audit["CANCELLED"] = g
         /\ s = "FILLED" => c.audit["FILLED"] = f + 1 /\ c.audit["BLOCKED"] = n - f
         /\ s = "BLOCKED" => c.audit["FILLED"] = f /\ c.audit["BLOCKED"] = (n - f) + 1
    BY <1>8, <1>9 DEF Statuses
  <1>11. CASE s = "FILLED"
    BY <1>3, <1>7, <1>10, <1>11
  <1>12. CASE s = "BLOCKED"
    BY <1>3, <1>7, <1>10, <1>12
  <1>13. QED
    BY <1>11, <1>12

\* Blocked, bought or sold: no order makes or loses money but by its profit.
LEMMA OrderKeepsMoney ==
    ASSUME NEW b, BookInv(b), LedgerInv(b), NEW c, c \in Books,
           NEW o, o.quantity \in Int, NEW q, q.ltp \in Int, NEW action, NEW allowed,
           NEW s \in {"BLOCKED", "FILLED"}, Outcome("paper", b, c, o, q, action, allowed, s)
    PROVE  /\ c.cash >= 0
           /\ c.cash + Invested(c) = InitialCash + c.realized
           /\ c.realized = SumFunction(c.closed)
  <1>1. /\ b.open \in Seq(Held) /\ c.open \in Seq(Held)
        /\ b.closed \in Seq(Int) /\ c.closed \in Seq(Int)
        /\ b.cash \in Int /\ b.realized \in Int
    BY DEF BookInv, Books
  <1>2. PICK n \in Nat : n = Len(b.open)
    BY <1>1
  <1>3. PICK f \in [1 .. n -> Int] : f = Costs(b) /\ Invested(b) = SumFunction(f)
    BY <1>1, <1>2, CostsTyped
  <1>4. PICK g : g = Costs(c) /\ g \in [1 .. Len(c.open) -> Int] /\ Invested(c) = SumFunction(g)
    BY <1>1, CostsTyped
  <1>5. Invested(b) \in Int
    BY <1>1, CostsTyped
  <1>6. /\ \A i \in 1 .. n : f[i] = b.open[i].entry * b.open[i].quantity
        /\ \A i \in 1 .. Len(c.open) : g[i] = c.open[i].entry * c.open[i].quantity
    BY <1>1, <1>2, <1>3, <1>4, CostsTyped
  <1>7. /\ b.cash >= 0 /\ b.cash + Invested(b) = InitialCash + b.realized
        /\ b.realized = SumFunction(b.closed) /\ InitialCash \in Int
    BY SafeAssumption DEF LedgerInv
  <1>8. CASE s = "BLOCKED"
    <2>1. c.cash = b.cash /\ c.open = b.open /\ c.closed = b.closed /\ c.realized = b.realized
      BY <1>8 DEF Outcome, Unmoved
    <2>2. Invested(c) = Invested(b)
      BY <2>1 DEF Invested
    <2>3. QED
      BY <1>7, <2>1, <2>2
  <1>9. ASSUME Bought(b, c, o, q.ltp), q.ltp * o.quantity <= b.cash
        PROVE  /\ c.cash >= 0
               /\ c.cash + Invested(c) = InitialCash + c.realized
               /\ c.realized = SumFunction(c.closed)
    <2>1. PICK p : p = [symbol |-> o.symbol, side |-> "LONG", quantity |-> o.quantity,
                        entry |-> q.ltp, ltp |-> q.ltp]
      OBVIOUS
    <2>2. /\ c.open = Append(b.open, p) /\ c.closed = b.closed /\ c.realized = b.realized
          /\ c.cash = b.cash - q.ltp * o.quantity
      BY <1>9, <2>1 DEF Bought
    <2>3. PICK cost \in Int : cost = q.ltp * o.quantity
      OBVIOUS
    <2>4. Len(c.open) = n + 1 /\ c.open[n + 1] = p /\ \A i \in 1 .. n : c.open[i] = b.open[i]
      <3>1. c.open = Append(b.open, p)
        BY <2>2
      <3>2. QED
        BY <1>1, <1>2, <3>1
    <2>5. n + 1 \in 1 .. n + 1 /\ \A i \in 1 .. n : i \in 1 .. n + 1
      OBVIOUS
    <2>6. g[n + 1] = cost
      BY <1>6, <2>1, <2>3, <2>4, <2>5
    <2>7. g \in [1 .. n + 1 -> Int] /\ \A i \in 1 .. n : g[i] = f[i]
      BY <1>4, <1>6, <2>4, <2>5
    <2>8. SumFunction(g) = SumFunction(f) + g[n + 1]
      BY <2>7, SumAppended
    <2>9. Invested(c) = Invested(b) + cost
      BY <1>3, <1>4, <2>6, <2>8
    <2>10. c.cash = b.cash - cost /\ cost <= b.cash
      BY <1>9, <2>2, <2>3
    <2>11. QED
      BY SMTT(20), <1>1, <1>5, <1>7, <2>2, <2>9, <2>10
  <1>10. ASSUME NEW i \in 1 .. Len(b.open), Sold(b, c, i, q.ltp), q.ltp > 0
         PROVE  /\ c.cash >= 0
                /\ c.cash + Invested(c) = InitialCash + c.realized
                /\ c.realized = SumFunction(c.closed)
    <2>1. PICK p \in Held : p = b.open[i]
      BY <1>1
    <2>2. PICK ltp \in Nat : ltp = q.ltp
      BY <1>10
    <2>3. PICK size \in Nat : size = p.quantity
      BY DEF Held
    <2>4. PICK entry \in Nat : entry = p.entry
      BY DEF Held
    <2>5. PICK x \in Int : x = (ltp - entry) * size
      OBVIOUS
    <2>6. ltp * size \in Nat /\ entry * size \in Int /\ ltp * size = x + entry * size
      BY <2>5
    <2>7. PICK got \in Nat : got = ltp * size
      BY <2>6
    <2>8. PICK paid \in Int : paid = entry * size
      BY <2>6
    <2>9. got = x + paid
      BY <2>6, <2>7, <2>8
    <2>10. /\ c.cash = b.cash + got /\ c.open = RemoveAt(b.open, i)
           /\ c.closed = Append(b.closed, x) /\ c.realized = b.realized + x
      BY <1>10, <2>1, <2>2, <2>3, <2>4, <2>5, <2>7 DEF Sold
    <2>11. /\ Len(c.open) = n - 1
           /\ \A j \in 1 .. n - 1 : c.open[j] = IF j < i THEN b.open[j] ELSE b.open[j + 1]
      BY ZenonT(40), <1>1, <1>2, <2>10, ShorterList
    <2>12. g \in [1 .. n - 1 -> Int] /\ i \in 1 .. n /\ i \in Int
      BY <1>2, <1>4, <2>11
    <2>13. \A j \in 1 .. n - 1 : g[j] = IF j < i THEN f[j] ELSE f[j + 1]
      <3>1. \A j \in 1 .. n - 1 : j \in 1 .. n /\ j + 1 \in 1 .. n
        OBVIOUS
      <3>2. \A j \in 1 .. n - 1 : g[j] = c.open[j].entry * c.open[j].quantity
        BY <1>6, <2>11
      <3>3. QED
        BY <1>6, <2>11, <3>1, <3>2
    <2>14. SumFunction(f) = SumFunction(g) + f[i]
      BY <2>12, <2>13, SumRemoved
    <2>15. f[i] = paid
      BY <1>6, <2>1, <2>3, <2>4, <2>8, <2>12
    <2>16. Invested(b) = Invested(c) + paid /\ Invested(c) \in Int
      BY <1>1, <1>3, <1>4, <2>14, <2>15, CostsTyped
    <2>17. SumFunction(c.closed) = SumFunction(b.closed) + x
      <3>1. PICK m \in Nat : m = Len(b.closed)
        BY <1>1
      <3>2. PICK u : u = b.closed
        OBVIOUS
      <3>3. PICK v : v = c.closed
        OBVIOUS
      <3>4. /\ v \in Seq(Int) /\ Len(v) = m + 1 /\ v[m + 1] = x
            /\ \A j \in 1 .. m : v[j] = u[j]
        BY <1>1, <2>10, <3>1, <3>2, <3>3, AppendedList
      <3>5. u \in [1 .. m -> Int] /\ v \in [1 .. m + 1 -> Int]
        BY SMTT(20), <1>1, <3>1, <3>2, <3>4
      <3>6. SumFunction(v) = SumFunction(u) + v[m + 1]
        BY <3>4, <3>5, SumAppended
      <3>7. QED
        BY <3>2, <3>3, <3>4, <3>6
    <2>18. c.cash = b.cash + got /\ c.realized = b.realized + x
      BY <2>10
    <2>19. c.cash >= 0
      BY <1>1, <1>7, <2>18
    <2>20. c.realized = SumFunction(c.closed)
      BY <1>7, <2>17, <2>18
    <2>21. c.cash + Invested(c) = InitialCash + c.realized
      <3>1. PICK money \in Int, made \in Int : money = b.cash /\ made = b.realized
        BY <1>1
      <3>2. PICK before \in Int, after \in Int :
                  before = Invested(b) /\ after = Invested(c)
        BY <1>5, <2>16
      <3>3. money + before = InitialCash + made /\ before = after + paid
        BY <1>7, <2>16, <3>1, <3>2
      <3>4. (money + got) + after = InitialCash + (made + x)
        BY <1>7, <2>9, <3>3
      <3>5. QED
        BY <2>18, <3>1, <3>2, <3>4
    <2>22. QED
      BY <2>19, <2>20, <2>21
  <1>11. QED
    BY <1>8, <1>9, <1>10 DEF Outcome, ValidOrder

\* A cancellation changes a status and the audit log, and nothing else.
LEMMA CancelKeeps ==
    ASSUME NEW b, BookInv(b), NEW i \in DOMAIN b.orders, NEW c, c = CancelOrder(b, i)
    PROVE  BookInv(c) /\ (LedgerInv(b) => LedgerInv(c))
  <1>1. CASE ~Cancellable(b, i)
    <2>1. c = b
      BY <1>1 DEF CancelOrder
    <2>2. QED
      BY <2>1
  <1>2. CASE Cancellable(b, i)
    <2>1. PICK r : r = [b.orders EXCEPT ![i] = "CANCELLED"]
      OBVIOUS
    <2>2. b.orders \in Seq(Statuses) /\ "CANCELLED" \in Statuses /\ i \in 1 .. Len(b.orders)
          /\ Len(b.orders) \in Nat
      BY DEF BookInv, Books, Statuses
    <2>3. r \in Seq(Statuses) /\ Len(r) = Len(b.orders)
      BY <2>1, <2>2, ChangedList
    <2>4. PICK a : a = [b.audit EXCEPT !["CANCELLED"] = @ + 1]
      OBVIOUS
    <2>5. b.audit \in [Statuses -> Nat]
      BY DEF BookInv, Books
    <2>6. a \in [Statuses -> Nat]
          /\ \A e \in Statuses : a[e] = IF e = "CANCELLED" THEN b.audit[e] + 1 ELSE b.audit[e]
      BY <2>2, <2>4, <2>5
    <2>7. b \in Books
      BY DEF BookInv
    <2>8. c = [b EXCEPT !.orders = r, !.audit = a]
      BY <1>2, <2>1, <2>4, <2>7 DEF CancelOrder, Audited, Books
    <2>9. /\ c \in Books /\ c.orders = r /\ c.audit = a /\ c.cash = b.cash /\ c.open = b.open
          /\ c.closed = b.closed /\ c.realized = b.realized
      BY <2>3, <2>6, <2>7, <2>8 DEF Books
    <2>10. b.orders[i] \notin {"FILLED", "CANCELLED"}
      BY <1>2 DEF Cancellable
    <2>11. /\ StatusCount(c, "FILLED") = StatusCount(b, "FILLED")
           /\ StatusCount(c, "CANCELLED") = StatusCount(b, "CANCELLED") + 1
      BY <2>1, <2>2, <2>9, <2>10, StatusChanged
    <2>12. BookInv(c)
      BY ZenonT(40), <2>9, <2>11 DEF BookInv, OnePerSymbol
    <2>13. Invested(c) = Invested(b)
      BY <2>9 DEF Invested
    <2>14. /\ c.audit["CREATED"] = b.audit["CREATED"] /\ c.audit["FILLED"] = b.audit["FILLED"]
           /\ c.audit["BLOCKED"] = b.audit["BLOCKED"]
           /\ c.audit["CANCELLED"] = b.audit["CANCELLED"] + 1
      BY <2>6, <2>9 DEF Statuses
    <2>15. Len(c.orders) = Len(b.orders)
      BY <2>3, <2>9
    <2>16. LedgerInv(b) => LedgerInv(c)
      BY <2>9, <2>11, <2>13, <2>14, <2>15 DEF LedgerInv
    <2>17. QED
      BY <2>12, <2>16
  <1>3. QED
    BY <1>1, <1>2

\* A mark changes the last prices and the unrealized profit, and nothing else.
LEMMA MarkKeeps ==
    ASSUME NEW b, BookInv(b), NEW symbol, NEW q, q.ltp \in Int,
           NEW c, c = MarkToMarket(b, symbol, q)
    PROVE  BookInv(c) /\ (LedgerInv(b) => LedgerInv(c))
  <1>1. b \in Books /\ b.open \in Seq(Held)
    BY DEF BookInv, Books
  <1>2. PICK n \in Nat : n = Len(b.open)
    BY <1>1
  <1>3. DOMAIN b.open = 1 .. n /\ \A i \in 1 .. n : b.open[i] \in Held
    BY <1>1, <1>2
  <1>4. PICK price : price = [i \in 1 .. n |->
            IF b.open[i].symbol = symbol /\ q.ltp # NoPrice THEN q.ltp ELSE b.open[i].ltp]
    OBVIOUS
  <1>5. \A i \in 1 .. n : price[i] \in Int
    BY <1>3, <1>4 DEF Held
  <1>6. PICK open : open = [i \in 1 .. n |-> [b.open[i] EXCEPT !.ltp = price[i]]]
    OBVIOUS
  <1>7. \A i \in 1 .. n : open[i] = [b.open[i] EXCEPT !.ltp = price[i]]
    BY <1>6
  <1>8. \A i \in 1 .. n : /\ open[i] \in Held /\ open[i].symbol = b.open[i].symbol
                         /\ open[i].entry = b.open[i].entry
                         /\ open[i].quantity = b.open[i].quantity
    BY ZenonT(40), <1>3, <1>5, <1>7 DEF Held
  <1>9. open \in [1 .. n -> Held]
    BY <1>6, <1>8
  <1>10. open \in Seq(Held) /\ Len(open) = n /\ DOMAIN open = 1 .. n
    BY <1>2, <1>9
  <1>11. PICK gains : gains = [i \in DOMAIN open |-> (open[i].ltp - open[i].entry) * open[i].quantity]
    OBVIOUS
  <1>12. gains \in [1 .. n -> Int]
    <2>1. ASSUME NEW i \in 1 .. n PROVE (open[i].ltp - open[i].entry) * open[i].quantity \in Int
      <3>1. open[i].ltp \in Int /\ open[i].entry \in Int /\ open[i].quantity \in Int
        BY <1>8 DEF Held
      <3>2. QED
        BY <3>1
    <2>2. QED
      BY <1>10, <1>11, <2>1
  <1>13. PICK gain \in Int : gain = SumFunction(gains)
    <2>1. IsFiniteSet(1 .. n)
      BY FS_Interval
    <2>2. QED
      BY <1>12, <2>1, SumType DEF Summable
  <1> DEFINE marked == [i \in DOMAIN b.open |-> [b.open[i] EXCEPT !.ltp =
                 IF b.open[i].symbol = symbol /\ q.ltp # NoPrice THEN q.ltp ELSE b.open[i].ltp]]
  <1>14. c = [b EXCEPT !.open = open, !.unrealized = gain]
    <2>1. open = marked
      BY <1>3, <1>4, <1>6
    <2>2. c = [b EXCEPT !.open = marked, !.unrealized = SumFunction([i \in DOMAIN marked |->
                  (marked[i].ltp - marked[i].entry) * marked[i].quantity])]
      BY Zenon DEF MarkToMarket
    <2> HIDE DEF marked
    <2>3. c = [b EXCEPT !.open = open, !.unrealized = SumFunction([i \in DOMAIN open |->
                  (open[i].ltp - open[i].entry) * open[i].quantity])]
      BY <2>1, <2>2
    <2>4. c = [b EXCEPT !.open = open, !.unrealized = SumFunction(gains)]
      BY <1>11, <2>3, Zenon
    <2>5. QED
      BY <1>13, <2>4, Zenon
  <1> HIDE DEF marked
  <1>15. /\ c \in Books /\ c.open = open /\ c.orders = b.orders /\ c.audit = b.audit
         /\ c.cash = b.cash /\ c.closed = b.closed /\ c.realized = b.realized
    BY <1>1, <1>10, <1>14 DEF Books
  <1>16. \A t : StatusCount(c, t) = StatusCount(b, t)
    BY <1>15 DEF StatusCount
  <1>17. OnePerSymbol(c)
    <2>1. \A i, j \in 1 .. n : b.open[i].symbol = b.open[j].symbol => i = j
      BY <1>2 DEF BookInv, OnePerSymbol
    <2>2. QED
      BY <1>8, <1>10, <1>15, <2>1 DEF OnePerSymbol
  <1>18. BookInv(c)
    BY <1>2, <1>10, <1>15, <1>16, <1>17 DEF BookInv
  <1>19. Costs(c) = Costs(b)
    BY <1>3, <1>8, <1>10, <1>15 DEF Costs
  <1>20. Invested(c) = Invested(b)
    BY <1>19 DEF Invested, Costs
  <1>21. LedgerInv(b) => LedgerInv(c)
    BY <1>15, <1>16, <1>20 DEF LedgerInv
  <1>22. QED
    BY <1>18, <1>21

\* Nothing is held, sold or ordered at first, nor after a reset.
LEMMA NewBookKeeps ==
    ASSUME NEW a \in [Statuses -> Nat], NEW b,
           b = [cash |-> InitialCash, open |-> <<>>, closed |-> <<>>, realized |-> 0,
                unrealized |-> 0, orders |-> <<>>, audit |-> a]
    PROVE  /\ BookInv(b)
           /\ (\A e \in Statuses : a[e] = 0) => LedgerInv(b)
  <1>1. /\ b.cash = InitialCash /\ b.open = <<>> /\ b.closed = <<>> /\ b.realized = 0
        /\ b.unrealized = 0 /\ b.orders = <<>> /\ b.audit = a
    OBVIOUS
  <1>2. b \in Books
    <2>1. InitialCash \in Int /\ 0 \in Int
      BY SafeAssumption
    <2>2. <<>> \in Seq(Held) /\ <<>> \in Seq(Int) /\ <<>> \in Seq(Statuses)
      OBVIOUS
    <2>3. /\ b.cash \in Int /\ b.open \in Seq(Held) /\ b.closed \in Seq(Int)
          /\ b.realized \in Int /\ b.unrealized \in Int /\ b.orders \in Seq(Statuses)
          /\ b.audit \in [Statuses -> Nat]
      BY <1>1, <2>1, <2>2
    <2>4. b = [cash |-> b.cash, open |-> b.open, closed |-> b.closed, realized |-> b.realized,
               unrealized |-> b.unrealized, orders |-> b.orders, audit |-> b.audit]
      BY <1>1
    <2>5. QED
      BY <2>3, <2>4 DEF Books
  <1>3. Len(b.open) = 0 /\ Len(b.closed) = 0 /\ Len(b.orders) = 0
        /\ DOMAIN b.open = {} /\ DOMAIN b.closed = {} /\ DOMAIN b.orders = {}
    BY <1>1
  <1>4. Cardinality({}) = 0
    BY FS_EmptySet
  <1>5. \A t : {i \in DOMAIN b.orders : b.orders[i] = t} = {}
    BY <1>3
  <1>6. \A t : StatusCount(b, t) = 0
    BY <1>4, <1>5 DEF StatusCount
  <1>7. BookInv(b)
    <2>1. 1 .. Len(b.open) = {}
      BY <1>3
    <2>2. OnePerSymbol(b)
      BY <2>1 DEF OnePerSymbol
    <2>3. Len(b.open) + 2 * Len(b.closed) = 0
      BY <1>3
    <2>4. StatusCount(b, "FILLED") = Len(b.open) + 2 * Len(b.closed)
      BY <1>6, <2>3
    <2>5. QED
      BY <1>2, <2>2, <2>4 DEF BookInv
  <1>8. SumFunction(b.closed) = 0
    BY <1>3, SumEmpty
  <1>9. Invested(b) = 0
    <2>1. PICK f : f = [i \in DOMAIN b.open |-> b.open[i].entry * b.open[i].quantity]
      OBVIOUS
    <2>2. DOMAIN f = {}
      BY <1>3, <2>1
    <2>3. QED
      BY <2>1, <2>2, SumEmpty DEF Invested
  <1>10. ASSUME \A e \in Statuses : a[e] = 0 PROVE LedgerInv(b)
    <2>1. /\ a["CREATED"] = 0 /\ a["FILLED"] = 0 /\ a["CANCELLED"] = 0 /\ a["BLOCKED"] = 0
      BY <1>10 DEF Statuses
    <2>2. InitialCash \in Nat
      BY SafeAssumption
    <2>3. QED
      BY <1>1, <1>3, <1>6, <1>8, <1>9, <2>1, <2>2 DEF LedgerInv
  <1>11. QED
    BY <1>7, <1>10

\* The safe signal names a side only when the quote can be acted on and the raw signal is
\* complete, and then it is the raw signal.
LEMMA SafeSignalIs ==
    ASSUME NEW c \in Cases, NEW sig, sig = SafeSignal(c.raw, c.quote)
    PROVE  /\ sig.confidence = c.raw.confidence
           /\ sig.action \in OrderSides =>
                 /\ IsActionable(c.quote) /\ ~Incomplete(c.raw)
                 /\ sig.action = c.raw.action /\ sig.stop = c.raw.stop
                 /\ sig.target = c.raw.target /\ sig.ratio = c.raw.ratio
  <1>1. PICK raw : raw = c.raw
    OBVIOUS
  <1>2. raw = [action |-> raw.action, stop |-> raw.stop, target |-> raw.target,
               ratio |-> raw.ratio, confidence |-> raw.confidence, blocked |-> raw.blocked]
    BY <1>1, SafeAssumption
  <1>3. PICK a, s, t, z, f, x :
              /\ a = raw.action /\ s = raw.stop /\ t = raw.target
              /\ z = raw.ratio /\ f = raw.confidence /\ x = raw.blocked
    OBVIOUS
  <1>4. raw = [action |-> a, stop |-> s, target |-> t, ratio |-> z, confidence |-> f,
               blocked |-> x]
    BY <1>2, <1>3
  <1>5. CASE ~IsActionable(c.quote)
    <2>1. sig = [raw EXCEPT !.action = "DATA_UNAVAILABLE", !.stop = NoPrice,
                            !.target = NoPrice, !.ratio = NoPrice]
      BY <1>1, <1>5 DEF SafeSignal
    <2>2. sig = [action |-> "DATA_UNAVAILABLE", stop |-> NoPrice, target |-> NoPrice,
                 ratio |-> NoPrice, confidence |-> f, blocked |-> x]
      BY <1>4, <2>1
    <2>3. sig.action = "DATA_UNAVAILABLE" /\ sig.confidence = f
      BY <2>2
    <2>4. QED
      BY <1>1, <1>3, <2>3 DEF OrderSides
  <1>6. CASE IsActionable(c.quote)
    <2>1. PICK b : b = IF a \notin AllowedActions THEN "DATA_UNAVAILABLE"
                       ELSE IF a \in OrderSides /\ Incomplete(raw) THEN "NO_TRADE" ELSE a
      OBVIOUS
    <2>2. sig = [raw EXCEPT !.action = IF @ \notin AllowedActions THEN "DATA_UNAVAILABLE"
                       ELSE IF @ \in OrderSides /\ Incomplete(raw) THEN "NO_TRADE" ELSE @]
      BY <1>1, <1>6 DEF SafeSignal
    <2>3. sig = [raw EXCEPT !.action = b]
      BY <1>3, <2>1, <2>2, Zenon
    <2>4. sig = [action |-> b, stop |-> s, target |-> t, ratio |-> z, confidence |-> f,
                 blocked |-> x]
      BY <1>4, <2>3
    <2>5. /\ sig.action = b /\ sig.stop = s /\ sig.target = t /\ sig.ratio = z
          /\ sig.confidence = f
      BY <2>4
    <2>6. b \in OrderSides => b = a /\ ~Incomplete(raw)
      BY <2>1 DEF OrderSides
    <2>7. QED
      BY <1>1, <1>3, <1>6, <2>5, <2>6
  <1>7. QED
    BY <1>5, <1>6

\* What an allowed order on a valid quote goes by: every check of the row was passed.
LEMMA FillsAreSafe ==
    ASSUME NEW c \in Cases, NEW open \in Seq(Held), c.quote.valid, c.quote.ltp > 0,
           RiskAllows(c.order, SafeSignal(c.raw, c.quote), c.quote, open, c.situation)
    PROVE  LET o == c.order raw == c.raw s == c.situation q == c.quote IN
           /\ q.valid /\ ~q.error /\ q.ltp > 0 /\ q.age <= 10
           /\ s.weekday < 5 /\ ~s.kill /\ ~s.drift /\ ~s.cooldown /\ s.path # "LIVE"
           /\ raw.action = o.side /\ ~Incomplete(raw) /\ raw.ratio >= Limits.minRatio
           /\ o.quantity <= Limits.maxQuantity /\ o.symbol \in Instruments
           /\ Len(open) < Limits.maxOpen
           /\ s.dailyPnl > 0 - Limits.dailyLoss \/ Limits.dailyLoss = 0
  <1>1. PICK sig : sig = SafeSignal(c.raw, c.quote)
    OBVIOUS
  <1>2. RiskAllows(c.order, sig, c.quote, open, c.situation)
    BY <1>1
  <1>3. SignalReasons(sig, c.order) = {}
    BY <1>2 DEF RiskAllows
  <1>4. sig.action \in OrderSides /\ sig.action = c.order.side
        /\ ~(sig.ratio = NoPrice \/ sig.ratio < Limits.minRatio)
    BY <1>3 DEF SignalReasons
  <1>5. /\ IsActionable(c.quote) /\ ~Incomplete(c.raw)
        /\ sig.action = c.raw.action /\ sig.ratio = c.raw.ratio
    BY <1>1, <1>4, SafeSignalIs
  <1>6. c.raw.action = c.order.side /\ ~(c.raw.ratio < Limits.minRatio)
    BY <1>4, <1>5
  <1>7. /\ c.raw.ratio \in Int /\ Limits.minRatio \in Int /\ c.quote.age \in Int
        /\ c.order.quantity \in Int /\ Limits.maxQuantity \in Int /\ Limits.maxOpen \in Int
        /\ c.situation.dailyPnl \in Int /\ Limits.dailyLoss \in Nat
    BY SafeAssumption
  <1>8. c.raw.ratio >= Limits.minRatio
    BY <1>6, <1>7
  <1>9. ~c.quote.error /\ ~(c.quote.age > 10)
    BY <1>5, <1>7 DEF IsActionable, HealthState, Missing
  <1>10. c.quote.age <= 10
    BY <1>7, <1>9
  <1>11. /\ ~c.situation.kill /\ ~c.situation.drift /\ ~c.situation.cooldown
         /\ c.situation.path # "LIVE" /\ c.situation.weekday < 5
         /\ c.order.symbol \in Instruments
    BY <1>2 DEF RiskAllows, ModeRefuses, IsMarketOpen
  <1>12. ~AccountRefuses(c.order, open, c.situation.openOrders, c.situation)
    BY <1>2 DEF RiskAllows
  <1>13. ~(c.order.quantity > Limits.maxQuantity) /\ ~(Len(open) >= Limits.maxOpen)
         /\ ~LossesRefuse(c.situation)
    BY <1>12 DEF AccountRefuses
  <1>14. c.order.quantity <= Limits.maxQuantity
    BY <1>7, <1>13
  <1>15. Len(open) < Limits.maxOpen
    <2>1. Len(open) \in Int
      OBVIOUS
    <2>2. QED
      BY <1>7, <1>13, <2>1
  <1>16. ~(Limits.dailyLoss > 0 /\ c.situation.dailyPnl <= 0 - Limits.dailyLoss)
    BY <1>13 DEF LossesRefuse
  <1>17. c.situation.dailyPnl > 0 - Limits.dailyLoss \/ Limits.dailyLoss = 0
    BY <1>7, <1>16
  <1>18. QED
    BY <1>5, <1>6, <1>8, <1>9, <1>10, <1>11, <1>14, <1>15, <1>17

\* The engine agrees with the safe signal about every signal, but for its ratio.
LEMMA ChecksAgree ==
    ASSUME NEW c \in Cases, NEW sig, sig = SafeSignal(c.raw, c.quote),
           NEW reasons, reasons = SignalReasons(sig, c.order)
    PROVE  IF sig.action = c.order.side /\ sig.action \in OrderSides
           THEN reasons \subseteq {"RISK_REWARD"}
           ELSE reasons # {}
  <1>1. CASE sig.action = c.order.side /\ sig.action \in OrderSides
    <2>1. /\ ~Incomplete(c.raw) /\ sig.confidence = c.raw.confidence
          /\ sig.stop = c.raw.stop /\ sig.target = c.raw.target
      BY <1>1, SafeSignalIs
    <2>2. /\ sig.stop # NoPrice /\ sig.target # NoPrice
          /\ ~(sig.confidence < Limits.minConfidence)
      BY <2>1 DEF Incomplete
    <2>3. reasons \subseteq {"RISK_REWARD"}
      BY <1>1, <2>2 DEF SignalReasons
    <2>4. QED
      BY <1>1, <2>3
  <1>2. CASE ~(sig.action = c.order.side /\ sig.action \in OrderSides)
    <2>1. CASE sig.action \notin OrderSides
      <3>1. "SIGNAL_NOT_ACTIONABLE" \in reasons
        BY <2>1 DEF SignalReasons
      <3>2. QED
        BY <1>2, <3>1
    <2>2. CASE sig.action \in OrderSides /\ sig.action # c.order.side
      <3>1. "ORDER_SIDE_DOES_NOT_MATCH_SIGNAL" \in reasons
        BY <2>2 DEF SignalReasons
      <3>2. QED
        BY <1>2, <3>1
    <2>3. QED
      BY <1>2, <2>1, <2>2
  <1>3. QED
    BY <1>1, <1>2

\* Two empty books, and nothing judged yet.
LEMMA SafeInitInv == SafeInit => SafeInv
  <1> SUFFICES ASSUME SafeInit
               PROVE  SafeInv
    OBVIOUS
  <1>1. PICK a \in [Statuses -> Nat] : a = [e \in Statuses |-> 0]
    OBVIOUS
  <1>2. PICK b : b = [cash |-> InitialCash, open |-> <<>>, closed |-> <<>>, realized |-> 0,
                      unrealized |-> 0, orders |-> <<>>, audit |-> a]
    OBVIOUS
  <1>3. paper = b /\ shadow = b
    BY <1>1, <1>2 DEF SafeInit, NewBook, Statuses
  <1>4. BookInv(b) /\ LedgerInv(b)
    <2>1. \A e \in Statuses : a[e] = 0
      BY <1>1
    <2>2. QED
      BY <1>2, <2>1, NewBookKeeps
  <1>5. judged.status = "NONE"
    BY DEF SafeInit
  <1>6. QED
    BY <1>3, <1>4, <1>5 DEF SafeInv, FilledOnlyWhenSafe, SignalChecksAgree

\* A fill of the shadow engine went by every check, as its record of the order says.
LEMMA ShadowOrderKeeps ==
    ASSUME SafeInv, ShadowOrder
    PROVE  SafeInv'
  <1>0. PICK c \in Cases : \E sig, allowed, after :
              /\ sig = SafeSignal(c.raw, c.quote)
              /\ allowed = RiskAllows(c.order, sig, c.quote, shadow.open, c.situation)
              /\ after = CreateOrder("shadow", shadow, c.order, c.quote, sig.action, allowed)
              /\ shadow' = after
              /\ judged' = [order |-> c.order, quote |-> c.quote, raw |-> c.raw,
                            situation |-> c.situation, open |-> shadow.open,
                            status |-> Last(after.orders)]
              /\ paper' = paper
    BY DEF ShadowOrder
  <1>1. PICK sig, allowed, after :
              /\ sig = SafeSignal(c.raw, c.quote)
              /\ allowed = RiskAllows(c.order, sig, c.quote, shadow.open, c.situation)
              /\ after = CreateOrder("shadow", shadow, c.order, c.quote, sig.action, allowed)
              /\ shadow' = after
              /\ judged' = [order |-> c.order, quote |-> c.quote, raw |-> c.raw,
                            situation |-> c.situation, open |-> shadow.open,
                            status |-> Last(after.orders)]
              /\ paper' = paper
    BY <1>0
  <1>2. /\ BookInv(shadow) /\ shadow \in Books /\ OnePerSymbol(shadow)
        /\ shadow.open \in Seq(Held) /\ shadow.orders \in Seq(Statuses)
        /\ BookInv(paper) /\ LedgerInv(paper)
    BY DEF SafeInv, BookInv, Books
  <1>3. allowed \in BOOLEAN
    BY <1>1 DEF RiskAllows
  <1>4. c.order.symbol \in Symbols /\ c.order.quantity \in Int /\ c.quote.ltp \in Int
    BY SafeAssumption DEF Symbols
  <1>5. after \in Books /\ \E s \in {"BLOCKED", "FILLED"} :
              /\ Recorded(shadow, after, s)
              /\ Outcome("shadow", shadow, after, c.order, c.quote, sig.action, allowed, s)
    BY <1>1, <1>2, <1>3, <1>4, OrderOutcome
  <1>6. PICK s \in {"BLOCKED", "FILLED"} :
              /\ Recorded(shadow, after, s)
              /\ Outcome("shadow", shadow, after, c.order, c.quote, sig.action, allowed, s)
    BY <1>5
  <1>7. BookInv(after)
    BY <1>2, <1>5, <1>6, OrderKeepsBook
  <1>8. Last(after.orders) = s
    <2>1. after.orders = Append(shadow.orders, s)
      BY <1>6 DEF Recorded
    <2>2. PICK r : r = Append(shadow.orders, s)
      OBVIOUS
    <2>3. s \in Statuses /\ Len(shadow.orders) \in Nat
      BY <1>2 DEF Statuses
    <2>4. Len(r) = Len(shadow.orders) + 1 /\ r[Len(shadow.orders) + 1] = s
      BY <1>2, <2>2, <2>3, AppendedList
    <2>5. QED
      BY <2>1, <2>2, <2>4 DEF Last
  <1>9. /\ judged'.status = s /\ judged'.order = c.order /\ judged'.quote = c.quote
        /\ judged'.raw = c.raw /\ judged'.situation = c.situation
        /\ judged'.open = shadow.open
    BY <1>1, <1>8
  <1>10. FilledOnlyWhenSafe'
    <2>1. ASSUME s = "FILLED"
          PROVE  LET o == c.order raw == c.raw n == c.situation q == c.quote IN
                 /\ q.valid /\ ~q.error /\ q.ltp > 0 /\ q.age <= 10
                 /\ n.weekday < 5 /\ ~n.kill /\ ~n.drift /\ ~n.cooldown /\ n.path # "LIVE"
                 /\ raw.action = o.side /\ ~Incomplete(raw) /\ raw.ratio >= Limits.minRatio
                 /\ o.quantity <= Limits.maxQuantity /\ o.symbol \in Instruments
                 /\ Len(shadow.open) < Limits.maxOpen
                 /\ n.dailyPnl > 0 - Limits.dailyLoss \/ Limits.dailyLoss = 0
      <3>1. allowed /\ ValidOrder("shadow", c.order, c.quote, sig.action)
        BY <1>6, <2>1 DEF Outcome
      <3>2. c.quote.valid /\ c.quote.ltp > 0
        BY <3>1 DEF ValidOrder
      <3>3. RiskAllows(c.order, SafeSignal(c.raw, c.quote), c.quote, shadow.open, c.situation)
        BY <1>1, <3>1
      <3>4. QED
        BY <1>2, <3>2, <3>3, FillsAreSafe
    <2>2. QED
      BY <1>9, <2>1 DEF FilledOnlyWhenSafe
  <1>11. SignalChecksAgree'
    <2>1. PICK reasons : reasons = SignalReasons(sig, c.order)
      OBVIOUS
    <2>2. IF sig.action = c.order.side /\ sig.action \in OrderSides
          THEN reasons \subseteq {"RISK_REWARD"}
          ELSE reasons # {}
      BY <1>1, <2>1, ChecksAgree
    <2>3. QED
      BY <1>1, <1>9, <2>1, <2>2 DEF SignalChecksAgree
  <1>12. QED
    BY <1>1, <1>2, <1>7, <1>10, <1>11 DEF SafeInv

\* Whatever is ordered, cancelled, marked and reset, the invariant is kept.
LEMMA SafeStepInv == SafeInv /\ [PaperNext \/ ShadowNext]_safeVars => SafeInv'
  <1> SUFFICES ASSUME SafeInv, [PaperNext \/ ShadowNext]_safeVars
               PROVE  SafeInv'
    OBVIOUS
  <1>1. BookInv(paper) /\ BookInv(shadow) /\ LedgerInv(paper)
    BY DEF SafeInv
  <1>2. judged' = judged => (FilledOnlyWhenSafe' /\ SignalChecksAgree')
    BY DEF SafeInv, FilledOnlyWhenSafe, SignalChecksAgree
  <1>3. CASE PaperOrder
    <2>1. PICK o \in Asked, q \in Quotes, allowed \in BOOLEAN :
                /\ paper' = CreateOrder("paper", paper, o, q, "", allowed)
                /\ shadow' = shadow /\ judged' = judged
      BY <1>3 DEF PaperOrder
    <2>2. PICK c, action : /\ action = ""
                           /\ c = CreateOrder("paper", paper, o, q, action, allowed)
      OBVIOUS
    <2>3. o.symbol \in Symbols /\ o.quantity \in Int /\ q.ltp \in Int
      BY SafeAssumption DEF Symbols
    <2>4. paper \in Books /\ OnePerSymbol(paper)
      BY <1>1 DEF BookInv
    <2>5. c \in Books /\ \E s \in {"BLOCKED", "FILLED"} :
               Recorded(paper, c, s) /\ Outcome("paper", paper, c, o, q, action, allowed, s)
      <3>1. PICK kind \in {"paper", "shadow"} : kind = "paper"
        OBVIOUS
      <3>2. c = CreateOrder(kind, paper, o, q, action, allowed)
        BY <2>2, <3>1
      <3>3. c \in Books /\ \E s \in {"BLOCKED", "FILLED"} :
                 Recorded(paper, c, s) /\ Outcome(kind, paper, c, o, q, action, allowed, s)
        BY <2>3, <2>4, <3>2, OrderOutcome
      <3>4. QED
        BY <3>1, <3>3
    <2>6. PICK s \in {"BLOCKED", "FILLED"} :
               Recorded(paper, c, s) /\ Outcome("paper", paper, c, o, q, action, allowed, s)
      BY <2>5
    <2>7. BookInv(c)
      BY <1>1, <2>5, <2>6, OrderKeepsBook
    <2>8. /\ c.audit["CREATED"] = Len(c.orders)
          /\ c.audit["FILLED"] = StatusCount(c, "FILLED")
          /\ c.audit["CANCELLED"] = StatusCount(c, "CANCELLED")
          /\ c.audit["BLOCKED"] = Len(c.orders) - StatusCount(c, "FILLED")
      BY <1>1, <2>6, OrderKeepsAudit
    <2>9. /\ c.cash >= 0
          /\ c.cash + Invested(c) = InitialCash + c.realized
          /\ c.realized = SumFunction(c.closed)
      BY <1>1, <2>3, <2>5, <2>6, OrderKeepsMoney
    <2>10. LedgerInv(c)
      BY <2>8, <2>9 DEF LedgerInv
    <2>11. paper' = c
      BY <2>1, <2>2
    <2>12. QED
      BY <1>1, <1>2, <2>1, <2>7, <2>10, <2>11 DEF SafeInv
  <1>4. CASE PaperCancel
    <2>1. PICK i \in DOMAIN paper.orders : /\ paper' = CancelOrder(paper, i)
                                           /\ shadow' = shadow /\ judged' = judged
      BY <1>4 DEF PaperCancel
    <2>2. BookInv(paper') /\ LedgerInv(paper')
      BY <1>1, <2>1, CancelKeeps
    <2>3. QED
      BY <1>1, <1>2, <2>1, <2>2 DEF SafeInv
  <1>5. CASE PaperMark
    <2>1. PICK o \in Asked, q \in Quotes : /\ paper' = MarkToMarket(paper, o.symbol, q)
                                            /\ shadow' = shadow /\ judged' = judged
      BY <1>5 DEF PaperMark
    <2>2. q.ltp \in Int
      BY SafeAssumption
    <2>3. BookInv(paper') /\ LedgerInv(paper')
      BY <1>1, <2>1, <2>2, MarkKeeps
    <2>4. QED
      BY <1>1, <1>2, <2>1, <2>3 DEF SafeInv
  <1>6. CASE ShadowOrder
    BY <1>6, ShadowOrderKeeps
  <1>7. CASE ShadowCancel
    <2>1. PICK i \in DOMAIN shadow.orders : /\ shadow' = CancelOrder(shadow, i)
                                            /\ paper' = paper /\ judged' = judged
      BY <1>7 DEF ShadowCancel
    <2>2. BookInv(shadow')
      BY <1>1, <2>1, CancelKeeps
    <2>3. QED
      BY <1>1, <1>2, <2>1, <2>2 DEF SafeInv
  <1>8. CASE ShadowReset
    <2>1. PICK a \in [Statuses -> Nat] : a = shadow.audit
      BY <1>1 DEF BookInv, Books
    <2>2. shadow' = [cash |-> InitialCash, open |-> <<>>, closed |-> <<>>, realized |-> 0,
                     unrealized |-> 0, orders |-> <<>>, audit |-> a]
      BY <1>8, <2>1 DEF ShadowReset, NewBook
    <2>3. BookInv(shadow')
      BY <2>2, NewBookKeeps
    <2>4. QED
      BY <1>1, <1>2, <1>8, <2>3 DEF SafeInv, ShadowReset
  <1>9. CASE UNCHANGED safeVars
    BY <1>9 DEF safeVars, SafeInv, FilledOnlyWhenSafe, SignalChecksAgree
  <1>10. QED
    BY <1>3, <1>4, <1>5, <1>6, <1>7, <1>8, <1>9 DEF PaperNext, ShadowNext

\* The invariant of the paper manager and the shadow engine.
THEOREM SafeInvariant == SafeSpec => []SafeInv
  BY SafeInitInv, SafeStepInv, PTL DEF SafeSpec

\* For any orders, quotes, signals, limits and capital: the paper manager's money adds up
\* and every order leaves its trace in either book; the shadow engine fills only what every
\* check in the row lets through; and its two checks of a signal agree.
THEOREM PaperOrdersAreSound == SafeSpec => []PaperOrdersSound
  <1>1. SafeInv => PaperOrdersSound
    <2>1. SUFFICES ASSUME SafeInv PROVE PaperOrdersSound
      OBVIOUS
    <2>2. BookInv(paper) /\ BookInv(shadow) /\ LedgerInv(paper)
      BY <2>1 DEF SafeInv
    <2>3. ASSUME NEW b, BookInv(b)
          PROVE  /\ IsInjective([i \in DOMAIN b.open |-> b.open[i].symbol])
                 /\ StatusCount(b, "FILLED") = Len(b.open) + 2 * Len(b.closed)
      <3>1. DOMAIN b.open = 1 .. Len(b.open)
        BY <2>3 DEF BookInv, Books
      <3>2. QED
        BY <2>3, <3>1 DEF BookInv, OnePerSymbol, IsInjective
    <2>4. PaperBooksBalance
      BY <2>2, <2>3 DEF PaperBooksBalance, LedgerInv
    <2>5. OrdersAudited
      BY <2>2, <2>3 DEF OrdersAudited, LedgerInv
    <2>6. QED
      BY <2>1, <2>4, <2>5 DEF PaperOrdersSound, SafeInv
  <1>2. QED
    BY <1>1, SafeInvariant, PTL

(***************************************************************************)
(* What is decided before an order, for any candles, levels, environments  *)
(* and reports, and at the submit of a live order, for any settings,       *)
(* orders, bodies and answers of the broker.                               *)
(*                                                                         *)
(* A plan is sound because its stop and targets are the farther of two     *)
(* levels of which one is far enough.  It mirrors because each function    *)
(* from the candles to the plan does: what is dropped is dropped on both   *)
(* sides, the range of a candle stays what it is, and the smaller of two   *)
(* prices turned round becomes the larger one.                             *)
(*                                                                         *)
(* The live submit: settings only change at a restart, which forgets every *)
(* preview, so what a preview was checked against is what is in force; and *)
(* the answer of a submit is one step old at most, so the reasons in it    *)
(* are those of the present state.                                         *)
(***************************************************************************)

(***************************************************************************)
(* The candles of a plan.                                                  *)
(***************************************************************************)
\* One candle more: it is kept when it has all its prices.
Keeping(r, c) == IF Positive(c) THEN Append(r, c) ELSE r

\* f goes through the candles.
IsLoop(f, s, L) == f = [i \in 0 .. L |-> IF i = 0 THEN <<>> ELSE Keeping(f[i - 1], s[i])]

\* There is such an f.
LEMMA LoopExists ==
    ASSUME NEW s, NEW L \in Nat
    PROVE  \E f : IsLoop(f, s, L)
  <1> DEFINE N == {n \in Nat : \E f : IsLoop(f, s, n)}
  <1>1. 0 \in N
    <2>1. IsLoop([n \in 0 .. 0 |-> <<>>], s, 0)
      BY DEF IsLoop
    <2>2. QED
      BY <2>1
  <1>2. ASSUME NEW n \in Nat, n \in N PROVE n + 1 \in N
    <2>1. PICK g : IsLoop(g, s, n)
      BY <1>2
    <2>2. PICK h : h = [i \in 0 .. n + 1 |-> IF i = 0 THEN <<>>
                                             ELSE Keeping(g[i - 1], s[i])]
      OBVIOUS
    <2>3. \A i \in 0 .. n : h[i] = g[i]
      BY <2>1, <2>2 DEF IsLoop
    <2>4. \A i \in 0 .. n + 1 : i # 0 => i - 1 \in 0 .. n
      OBVIOUS
    <2>5. IsLoop(h, s, n + 1)
      BY <2>2, <2>3, <2>4 DEF IsLoop
    <2>6. QED
      BY <2>5
  <1>3. Nat \subseteq N
    <2> HIDE DEF N
    <2>1. QED
      BY <1>1, <1>2, Counting
  <1>4. QED
    BY <1>3

\* Usable goes through them all.
LEMMA UsableLoops ==
    ASSUME NEW s \in Seq(Candles)
    PROVE  \E f : IsLoop(f, s, Len(s)) /\ Usable(s) = f[Len(s)]
  <1>1. PICK f : f = CHOOSE g : IsLoop(g, s, Len(s))
    OBVIOUS
  <1>2. IsLoop(f, s, Len(s))
    BY <1>1, LoopExists
  <1>3. Usable(s) = f[Len(s)]
    BY <1>1 DEF Usable, IsLoop, Keeping
  <1>4. QED
    BY <1>2, <1>3

\* One step of it.
LEMMA LoopStep ==
    ASSUME NEW s, NEW L \in Nat, NEW f, IsLoop(f, s, L), NEW n \in 0 .. L, n < L
    PROVE  /\ f[0] = <<>>
           /\ f[n + 1] = IF Positive(s[n + 1]) THEN Append(f[n], s[n + 1]) ELSE f[n]
  <1>1. n + 1 \in 0 .. L /\ n + 1 # 0 /\ (n + 1) - 1 = n /\ 0 \in 0 .. L
    OBVIOUS
  <1>2. QED
    BY <1>1 DEF IsLoop, Keeping

\* A history of candles with positive prices.
Rows(s) == s \in Seq(Candles) /\ \A i \in 1 .. Len(s) : Positive(s[i])

\* What is kept has positive prices.
LEMMA UsableRows ==
    ASSUME NEW s \in Seq(Candles)
    PROVE  Rows(Usable(s))
  <1>1. PICK f : IsLoop(f, s, Len(s)) /\ Usable(s) = f[Len(s)]
    BY UsableLoops
  <1>2. PICK L \in Nat : L = Len(s)
    OBVIOUS
  <1> DEFINE S == {n \in 0 .. L : Rows(f[n])}
  <1>3. 0 \in S
    <2>1. f[0] = <<>>
      BY <1>1, <1>2 DEF IsLoop
    <2>2. <<>> \in Seq(Candles) /\ Len(<<>>) = 0 /\ 0 \in 0 .. L
      OBVIOUS
    <2>3. Rows(<<>>)
      BY <2>2 DEF Rows
    <2>4. QED
      BY <2>1, <2>2, <2>3
  <1>4. ASSUME NEW n \in 0 .. L, n \in S, n < L PROVE n + 1 \in S
    <2>1. f[n + 1] = IF Positive(s[n + 1]) THEN Append(f[n], s[n + 1]) ELSE f[n]
      BY <1>1, <1>2, <1>4, LoopStep
    <2>2. PICK r \in Seq(Candles) : r = f[n] /\ \A i \in 1 .. Len(r) : Positive(r[i])
      BY <1>4 DEF Rows
    <2>3. n + 1 \in 1 .. Len(s)
      BY <1>2, <1>4
    <2>4. PICK c \in Candles : c = s[n + 1]
      BY <2>3
    <2>5. CASE Positive(c)
      <3>1. f[n + 1] = Append(r, c)
        BY <2>1, <2>2, <2>4, <2>5
      <3>2. Append(r, c) \in Seq(Candles) /\ Len(Append(r, c)) = Len(r) + 1
        OBVIOUS
      <3>3. \A i \in 1 .. Len(r) + 1 : Positive(Append(r, c)[i])
        BY <2>2, <2>5
      <3>4. Rows(Append(r, c)) /\ n + 1 \in 0 .. L
        BY <1>4, <3>2, <3>3 DEF Rows
      <3>5. QED
        BY <3>1, <3>4
    <2>6. CASE ~Positive(c)
      BY <1>4, <2>1, <2>4, <2>6
    <2>7. QED
      BY <2>5, <2>6
  <1>5. 0 .. L \subseteq S
    <2> HIDE DEF S
    <2>1. QED
      BY <1>3, <1>4, CountingTo
  <1>6. QED
    BY <1>1, <1>2, <1>5

\* Nothing is dropped from a history that has all its prices.
LEMMA RowsAreKept ==
    ASSUME NEW s, Rows(s)
    PROVE  Usable(s) = s
  <1>1. s \in Seq(Candles) /\ \A i \in 1 .. Len(s) : Positive(s[i])
    BY DEF Rows
  <1>2. PICK f : IsLoop(f, s, Len(s)) /\ Usable(s) = f[Len(s)]
    BY <1>1, UsableLoops
  <1>3. PICK L \in Nat : L = Len(s)
    BY <1>1
  <1> DEFINE First(n, r) == /\ r \in Seq(Candles) /\ Len(r) = n
                            /\ \A i \in 1 .. n : r[i] = s[i]
             S == {n \in 0 .. L : First(n, f[n])}
  <1>4. 0 \in S
    <2>1. f[0] = <<>>
      BY <1>2, <1>3 DEF IsLoop
    <2>2. <<>> \in Seq(Candles) /\ Len(<<>>) = 0 /\ 0 \in 0 .. L
      OBVIOUS
    <2>3. First(0, <<>>)
      BY <2>2
    <2>4. QED
      BY <2>1, <2>2, <2>3
  <1>5. ASSUME NEW n \in 0 .. L, n \in S, n < L PROVE n + 1 \in S
    <2>1. f[n + 1] = IF Positive(s[n + 1]) THEN Append(f[n], s[n + 1]) ELSE f[n]
      BY <1>2, <1>3, <1>5, LoopStep
    <2>2. PICK r \in Seq(Candles) : r = f[n] /\ Len(r) = n /\ \A i \in 1 .. n : r[i] = s[i]
      BY <1>5
    <2>3. n + 1 \in 1 .. Len(s) /\ n \in Nat
      BY <1>3, <1>5
    <2>4. PICK c \in Candles : c = s[n + 1]
      BY <1>1, <2>3
    <2>5. f[n + 1] = Append(r, c)
      BY <1>1, <2>1, <2>2, <2>3, <2>4
    <2>6. Append(r, c) \in Seq(Candles) /\ Len(Append(r, c)) = n + 1
      BY <2>2
    <2>7. \A i \in 1 .. n + 1 : Append(r, c)[i] = s[i]
      BY <2>2, <2>3, <2>4
    <2>8. n + 1 \in 0 .. L
      BY <1>5
    <2>9. QED
      BY <2>5, <2>6, <2>7, <2>8
  <1>6. 0 .. L \subseteq S
    <2> HIDE DEF S
    <2>1. QED
      BY <1>4, <1>5, CountingTo
  <1>7. First(L, f[L])
    BY <1>6
  <1>8. f[L] \in Seq(Candles) /\ Len(f[L]) = Len(s) /\ \A i \in 1 .. Len(s) : f[L][i] = s[i]
    BY <1>3, <1>7
  <1>9. f[L] = s
    BY <1>1, <1>8, SeqEqual
  <1>10. QED
    BY <1>2, <1>3, <1>9

(***************************************************************************)
(* The levels of a plan, and what becomes of them when prices are turned.  *)
(***************************************************************************)
\* t is the history rows turned round q.
Mirrored(rows, t, q) ==
    /\ Rows(rows) /\ q \in Int
    /\ t = [i \in DOMAIN rows |-> TurnedCandle(rows[i], q)]
    /\ \A i \in DOMAIN rows : Positive(TurnedCandle(rows[i], q))

\* A candle has four numbers, and so has the one it is turned to.
LEMMA CandleTurns ==
    ASSUME NEW c \in Candles, NEW q \in Int
    PROVE  /\ c.open \in Int /\ c.high \in Int /\ c.low \in Int /\ c.close \in Int
           /\ TurnedCandle(c, q) \in Candles
           /\ TurnedCandle(c, q).high = 2 * q - c.low
           /\ TurnedCandle(c, q).low = 2 * q - c.high
           /\ TurnedCandle(c, q).close = 2 * q - c.close
  BY DEF Candles, TurnedCandle, Turned

\* A turned history is a history, of which nothing is dropped.
LEMMA RowsTurn ==
    ASSUME NEW rows, NEW t, NEW q, Mirrored(rows, t, q)
    PROVE  /\ Rows(t) /\ Len(t) = Len(rows) /\ Usable(t) = t
           /\ \A i \in 1 .. Len(rows) : t[i] = TurnedCandle(rows[i], q) /\ rows[i] \in Candles
  <1>1. rows \in Seq(Candles) /\ DOMAIN rows = 1 .. Len(rows) /\ Len(rows) \in Nat /\ q \in Int
    BY DEF Mirrored, Rows
  <1>2. \A i \in 1 .. Len(rows) : rows[i] \in Candles
    BY <1>1
  <1>3. \A i \in 1 .. Len(rows) : TurnedCandle(rows[i], q) \in Candles
    BY <1>1, <1>2, CandleTurns
  <1>4. t = [i \in 1 .. Len(rows) |-> TurnedCandle(rows[i], q)]
    BY <1>1 DEF Mirrored
  <1>5. t \in Seq(Candles) /\ Len(t) = Len(rows)
    BY <1>1, <1>3, <1>4
  <1>6. \A i \in 1 .. Len(rows) : t[i] = TurnedCandle(rows[i], q)
    BY <1>4
  <1>7. Rows(t)
    BY <1>1, <1>5, <1>6 DEF Rows, Mirrored
  <1>8. QED
    BY <1>2, <1>5, <1>6, <1>7, RowsAreKept

\* A true range is a number.
LEMMA RangeType ==
    ASSUME NEW rows, Rows(rows), NEW i \in 2 .. Len(rows)
    PROVE  TrueRange(rows, i) \in Int
  <1>1. rows[i] \in Candles /\ rows[i - 1] \in Candles
    BY DEF Rows
  <1>2. PICK a, b, c : /\ a = rows[i].high - rows[i].low
                       /\ b = Apart(rows[i].high, rows[i - 1].close)
                       /\ c = Apart(rows[i].low, rows[i - 1].close)
    OBVIOUS
  <1>3. a \in Int /\ b \in Int /\ c \in Int
    <2>1. ASSUME NEW x \in Int, NEW y \in Int PROVE Apart(x, y) \in Int
      BY DEF Apart
    <2>2. /\ rows[i].high \in Int /\ rows[i].low \in Int /\ rows[i - 1].close \in Int
      BY <1>1 DEF Candles
    <2>3. b \in Int /\ c \in Int
      BY Zenon, <1>2, <2>1, <2>2
    <2>4. QED
      BY <1>2, <2>2, <2>3
  <1>4. IsFiniteSet({a, b, c}) /\ {a, b, c} # {} /\ {a, b, c} \subseteq Int
    BY <1>3, FewAreFinite
  <1>5. Max({a, b, c}) \in {a, b, c}
    BY <1>4, LargestExists
  <1>6. QED
    BY <1>2, <1>3, <1>5 DEF TrueRange

\* The range of a candle stays what it is when the candles are turned.
LEMMA RangeTurns ==
    ASSUME NEW rows, NEW t, NEW q, Mirrored(rows, t, q), NEW i \in 2 .. Len(rows)
    PROVE  TrueRange(t, i) = TrueRange(rows, i)
  <1>1. Len(rows) \in Nat /\ q \in Int
    BY DEF Mirrored, Rows
  <1>2. i \in 1 .. Len(rows) /\ i - 1 \in 1 .. Len(rows)
    BY <1>1
  <1>3. PICK c \in Candles : c = rows[i] /\ t[i] = TurnedCandle(c, q)
    BY <1>2, RowsTurn
  <1>4. PICK d \in Candles : d = rows[i - 1] /\ t[i - 1] = TurnedCandle(d, q)
    BY <1>2, RowsTurn
  <1>5. PICK x \in Int : x = c.high
    BY <1>1, CandleTurns
  <1>6. PICK y \in Int : y = c.low
    BY <1>1, CandleTurns
  <1>7. PICK z \in Int : z = d.close
    BY <1>1, CandleTurns
  <1>8. /\ t[i].high = 2 * q - y /\ t[i].low = 2 * q - x /\ t[i - 1].close = 2 * q - z
    <2>1. TurnedCandle(c, q).high = 2 * q - y /\ TurnedCandle(c, q).low = 2 * q - x
      BY <1>1, <1>5, <1>6, CandleTurns
    <2>2. TurnedCandle(d, q).close = 2 * q - z
      BY <1>1, <1>7, CandleTurns
    <2>3. QED
      BY <1>3, <1>4, <2>1, <2>2
  <1>9. /\ Apart(2 * q - y, 2 * q - z) = Apart(y, z)
        /\ Apart(2 * q - x, 2 * q - z) = Apart(x, z)
        /\ (2 * q - y) - (2 * q - x) = x - y
    BY <1>1 DEF Apart
  <1>10. TrueRange(rows, i) = Max({x - y, Apart(x, z), Apart(y, z)})
    BY <1>3, <1>4, <1>5, <1>6, <1>7 DEF TrueRange
  <1>11. TrueRange(t, i) = Max({x - y, Apart(y, z), Apart(x, z)})
    BY <1>8, <1>9 DEF TrueRange
  <1>12. {x - y, Apart(x, z), Apart(y, z)} = {x - y, Apart(y, z), Apart(x, z)}
    OBVIOUS
  <1>13. QED
    BY <1>10, <1>11, <1>12

\* And so does their mean, which is a number.
LEMMA AverageTurns ==
    ASSUME NEW rows, NEW t, NEW q, Mirrored(rows, t, q)
    PROVE  AverageTrueRange(t) = AverageTrueRange(rows)
  <1>1. PICK n \in Nat : n = Len(rows) /\ n = Len(t)
    BY RowsTurn DEF Mirrored, Rows
  <1>2. CASE n < 15
    BY <1>1, <1>2 DEF AverageTrueRange
  <1>3. CASE ~(n < 15)
    <2>1. \A i \in (n - 13) .. n : i \in 2 .. n
      BY <1>3
    <2>2. \A i \in (n - 13) .. n : TrueRange(t, i) = TrueRange(rows, i)
      BY <1>1, <2>1, RangeTurns
    <2>3. [i \in (n - 13) .. n |-> TrueRange(t, i)] = [i \in (n - 13) .. n |-> TrueRange(rows, i)]
      BY <2>2
    <2>4. QED
      BY <1>1, <1>3, <2>3 DEF AverageTrueRange
  <1>4. QED
    BY <1>2, <1>3

LEMMA AverageType ==
    ASSUME NEW rows, Rows(rows)
    PROVE  AverageTrueRange(rows) \in Int
  <1>1. PICK n \in Nat : n = Len(rows)
    BY DEF Rows
  <1>2. CASE n < 15
    BY <1>1, <1>2 DEF AverageTrueRange
  <1>3. CASE ~(n < 15)
    <2>1. PICK D, f : D = (n - 13) .. n /\ f = [i \in D |-> TrueRange(rows, i)]
      OBVIOUS
    <2>2. \A i \in D : i \in 2 .. n
      BY <1>3, <2>1
    <2>3. f \in [D -> Int]
      BY <1>1, <2>1, <2>2, RangeType
    <2>4. IsFiniteSet(D)
      <3>1. n - 13 \in Int /\ n \in Int
        OBVIOUS
      <3>2. QED
        BY <2>1, <3>1, FS_Interval
    <2>5. PICK g : IsTotal(f, g, D) /\ SumFunction(f) = g[D]
      BY <2>3, <2>4, SumTotals
    <2>6. PICK s \in Int : s = SumFunction(f)
      BY <2>5 DEF IsTotal
    <2>7. AverageTrueRange(rows) = s \div 14
      BY <1>1, <1>3, <2>1, <2>6 DEF AverageTrueRange
    <2>8. QED
      BY <2>7
  <1>4. QED
    BY <1>2, <1>3

\* What a request asks.
Requests ==
    [quote : Int, valid : BOOLEAN, candles : Seq(Candles), history : BOOLEAN,
     action : STRING, bull : Nat, bear : Nat, volumeOk : BOOLEAN,
     confidence : Int, atr : Int, support : Int, resistance : Int]

\* What the mirror of a request asks.
LEMMA MirrorAsks ==
    ASSUME NEW r \in Requests, NEW m, m = Mirror(r)
    PROVE  /\ m.quote = r.quote /\ m.valid = r.valid /\ m.history = r.history
           /\ m.volumeOk = r.volumeOk /\ m.confidence = r.confidence /\ m.atr = r.atr
           /\ m.action = TurnedSide(r.action) /\ m.bull = r.bear /\ m.bear = r.bull
           /\ m.support = (IF r.resistance <= 0 THEN 0 ELSE 2 * r.quote - r.resistance)
           /\ m.resistance = (IF r.support <= 0 THEN 0 ELSE 2 * r.quote - r.support)
           /\ m.candles = [i \in DOMAIN Usable(r.candles) |->
                              TurnedCandle(Usable(r.candles)[i], r.quote)]
  BY DEF Requests, Mirror, Turned

\* The numbers of a list make a finite set.
LEMMA NumbersOf ==
    ASSUME NEW D, IsFiniteSet(D), D # {}, NEW f \in [D -> Int]
    PROVE  /\ IsFiniteSet({f[i] : i \in D}) /\ {f[i] : i \in D} # {}
           /\ {f[i] : i \in D} \subseteq Int
  <1>1. PICK T : T = {f[i] : i \in D}
    OBVIOUS
  <1>2. f \in Surjection(D, T)
    BY <1>1 DEF Surjection
  <1>3. IsFiniteSet(T)
    BY <1>2, FS_Surjection
  <1>4. QED
    BY <1>1, <1>3

\* The last twenty candles, and their lows and highs.
Recent(rows) == Max({1, Len(rows) - 19}) .. Len(rows)
Lows(rows)   == {rows[i].low : i \in Recent(rows)}
Highs(rows)  == {rows[i].high : i \in Recent(rows)}

\* A set of positive numbers that has a largest and a smallest one.
Prices(S) == IsFiniteSet(S) /\ S # {} /\ S \subseteq Nat \ {0} /\ S \subseteq Int

LEMMA LowsAndHighs ==
    ASSUME NEW rows, Rows(rows), Len(rows) >= 21
    PROVE  /\ Recent(rows) \subseteq 1 .. Len(rows)
           /\ Prices(Lows(rows)) /\ Prices(Highs(rows))
  <1>1. PICK n \in Nat : n = Len(rows)
    BY DEF Rows
  <1>2. PICK D : D = Recent(rows)
    OBVIOUS
  <1>3. D = (n - 19) .. n
    <2>1. PICK x \in Int : x = Max({1, n - 19}) /\ x >= 1 /\ x >= n - 19 /\ x \in {1, n - 19}
      <3>1. 1 \in Int /\ n - 19 \in Int
        OBVIOUS
      <3>2. QED
        BY <3>1, MaxOfTwo
    <2>2. x = n - 19
      BY <1>1, <2>1
    <2>3. QED
      BY <1>1, <1>2, <2>1, <2>2 DEF Recent
  <1>4. IsFiniteSet(D) /\ D # {}
    <2>1. n - 19 \in Int /\ n \in Int
      OBVIOUS
    <2>2. IsFiniteSet(D)
      BY <1>3, <2>1, FS_Interval
    <2>3. n \in D
      BY <1>3
    <2>4. QED
      BY <2>2, <2>3
  <1>5. \A i \in D : i \in 1 .. n
    BY <1>1, <1>3
  <1>6. ASSUME NEW i \in D
        PROVE  /\ rows[i].low \in Int /\ rows[i].low > 0
               /\ rows[i].high \in Int /\ rows[i].high > 0
    <2>1. rows[i] \in Candles /\ Positive(rows[i])
      BY <1>1, <1>5 DEF Rows
    <2>2. QED
      BY <2>1 DEF Candles, Positive
  <1>7. PICK f \in [D -> Int] : \A i \in D : f[i] = rows[i].low
    <2>1. [i \in D |-> rows[i].low] \in [D -> Int]
      BY <1>6
    <2>2. QED
      BY <2>1
  <1>8. PICK g \in [D -> Int] : \A i \in D : g[i] = rows[i].high
    <2>1. [i \in D |-> rows[i].high] \in [D -> Int]
      BY <1>6
    <2>2. QED
      BY <2>1
  <1>9. Lows(rows) = {f[i] : i \in D} /\ Highs(rows) = {g[i] : i \in D}
    BY <1>2, <1>7, <1>8 DEF Lows, Highs
  <1>10. Prices({f[i] : i \in D})
    <2>1. \A i \in D : f[i] \in Nat \ {0}
      BY <1>6, <1>7
    <2>2. QED
      BY <1>4, <2>1, NumbersOf DEF Prices
  <1>11. Prices({g[i] : i \in D})
    <2>1. \A i \in D : g[i] \in Nat \ {0}
      BY <1>6, <1>8
    <2>2. QED
      BY <1>4, <2>1, NumbersOf DEF Prices
  <1>12. QED
    BY <1>1, <1>2, <1>5, <1>9, <1>10, <1>11

\* Turned, the lows become the highs.
LEMMA LowsTurn ==
    ASSUME NEW rows, NEW t, NEW q, Mirrored(rows, t, q), Len(rows) >= 21
    PROVE  /\ Min(Lows(rows)) \in Nat \ {0} /\ Max(Highs(rows)) \in Nat \ {0}
           /\ Min(Lows(t)) = 2 * q - Max(Highs(rows))
           /\ Max(Highs(t)) = 2 * q - Min(Lows(rows))
  <1>1. q \in Int /\ Rows(rows) /\ Len(t) = Len(rows)
    BY RowsTurn DEF Mirrored
  <1>2. Prices(Lows(rows)) /\ Prices(Highs(rows)) /\ Recent(rows) \subseteq 1 .. Len(rows)
    BY <1>1, LowsAndHighs
  <1>3. Recent(t) = Recent(rows)
    BY <1>1 DEF Recent
  <1>4. ASSUME NEW i \in Recent(rows)
        PROVE  t[i].high = 2 * q - rows[i].low /\ t[i].low = 2 * q - rows[i].high
    <2>1. i \in 1 .. Len(rows)
      BY <1>2
    <2>2. t[i] = TurnedCandle(rows[i], q) /\ rows[i] \in Candles
      BY <2>1, RowsTurn
    <2>3. QED
      BY <1>1, <2>2, CandleTurns
  <1>5. Highs(t) = {2 * q - x : x \in Lows(rows)}
    BY <1>3, <1>4 DEF Highs, Lows
  <1>6. Lows(t) = {2 * q - x : x \in Highs(rows)}
    BY <1>3, <1>4 DEF Highs, Lows
  <1>7. PICK k \in Int : k = 2 * q
    BY <1>1
  <1>8. Min(Lows(rows)) \in Lows(rows) /\ Max(Highs(t)) = k - Min(Lows(rows))
    BY <1>2, <1>5, <1>7, TurnedExtremes DEF Prices
  <1>9. Min(Lows(t)) = k - Max(Highs(rows))
    BY <1>2, <1>6, <1>7, TurnedExtremes DEF Prices
  <1>10. Max(Highs(rows)) \in Highs(rows)
    BY <1>2, LargestExists DEF Prices
  <1>11. QED
    BY <1>2, <1>7, <1>8, <1>9, <1>10 DEF Prices

\* The evidence for a plan, and what it is made of.
LEMMA EvidenceType ==
    ASSUME NEW r \in Requests, Len(Usable(r.candles)) >= 21
    PROVE  /\ Evidence(r).atr \in Int
           /\ Evidence(r).support \in Nat \ {0} /\ Evidence(r).resistance \in Nat \ {0}
  <1>1. PICK rows : rows = Usable(r.candles)
    OBVIOUS
  <1>2. r.candles \in Seq(Candles) /\ r.atr \in Int /\ r.support \in Int /\ r.resistance \in Int
    BY DEF Requests
  <1>3. Rows(rows) /\ Len(rows) >= 21
    BY <1>1, <1>2, UsableRows
  <1>4. Prices(Lows(rows)) /\ Prices(Highs(rows))
    BY <1>3, LowsAndHighs
  <1>5. Max(Highs(rows)) \in Highs(rows)
    BY <1>4, LargestExists DEF Prices
  <1>6. Min(Lows(rows)) \in Lows(rows)
    <2>1. 0 \in Int
      OBVIOUS
    <2>2. QED
      BY <1>4, <2>1, TurnedExtremes DEF Prices
  <1>7. Min(Lows(rows)) \in Nat \ {0} /\ Max(Highs(rows)) \in Nat \ {0}
    BY <1>4, <1>5, <1>6 DEF Prices
  <1>8. AverageTrueRange(rows) \in Int
    BY <1>3, AverageType
  <1>9. Evidence(r) = [atr |-> Given(r.atr, AverageTrueRange(rows)),
                       support |-> Given(r.support, Min(Lows(rows))),
                       resistance |-> Given(r.resistance, Max(Highs(rows)))]
    BY <1>1 DEF Evidence, Lows, Highs, Recent
  <1>10. QED
    BY <1>2, <1>7, <1>8, <1>9 DEF Given

\* Turned, the support becomes the resistance.
LEMMA EvidenceTurns ==
    ASSUME NEW r \in Requests, Len(Usable(r.candles)) >= 21, NEW t,
           Mirrored(Usable(r.candles), t, r.quote), NEW m, m = Mirror(r),
           r.support < 2 * r.quote, r.resistance < 2 * r.quote
    PROVE  Evidence(m) = [atr |-> Evidence(r).atr,
                          support |-> 2 * r.quote - Evidence(r).resistance,
                          resistance |-> 2 * r.quote - Evidence(r).support]
  <1>1. PICK rows : rows = Usable(r.candles)
    OBVIOUS
  <1>2. Mirrored(rows, t, r.quote) /\ Usable(t) = t /\ Len(rows) >= 21
    BY <1>1, RowsTurn
  <1>3. r.atr \in Int /\ r.support \in Int /\ r.resistance \in Int /\ r.quote \in Int
    BY DEF Requests
  <1>4. m.candles = t /\ m.atr = r.atr
        /\ m.support = (IF r.resistance <= 0 THEN 0 ELSE 2 * r.quote - r.resistance)
        /\ m.resistance = (IF r.support <= 0 THEN 0 ELSE 2 * r.quote - r.support)
    BY MirrorAsks DEF Mirrored
  <1>5. PICK l \in Int : l = Min(Lows(rows))
    BY <1>2, <1>3, LowsTurn
  <1>6. PICK h \in Int : h = Max(Highs(rows))
    BY <1>2, <1>3, LowsTurn
  <1>7. Min(Lows(t)) = 2 * r.quote - h /\ Max(Highs(t)) = 2 * r.quote - l
    BY <1>2, <1>3, <1>5, <1>6, LowsTurn
  <1>8. Evidence(r) = [atr |-> Given(r.atr, AverageTrueRange(rows)),
                       support |-> Given(r.support, l), resistance |-> Given(r.resistance, h)]
    BY <1>1, <1>5, <1>6 DEF Evidence, Lows, Highs, Recent
  <1>9. Evidence(m) = [atr |-> Given(m.atr, AverageTrueRange(t)),
                       support |-> Given(m.support, Min(Lows(t))),
                       resistance |-> Given(m.resistance, Max(Highs(t)))]
    BY <1>2, <1>4 DEF Evidence, Lows, Highs, Recent
  <1>10. Given(m.atr, AverageTrueRange(t)) = Given(r.atr, AverageTrueRange(rows))
    BY <1>2, <1>4, AverageTurns
  <1>11. Given(m.support, Min(Lows(t))) = 2 * r.quote - Given(r.resistance, h)
    BY <1>3, <1>4, <1>6, <1>7 DEF Given
  <1>12. Given(m.resistance, Max(Highs(t))) = 2 * r.quote - Given(r.support, l)
    BY <1>3, <1>4, <1>5, <1>7 DEF Given
  <1>13. QED
    BY <1>8, <1>9, <1>10, <1>11, <1>12

\* How the levels of a side are worked out: the stop in tenths, what it risks, and the
\* targets.
Worked(side, q, e, x) ==
    /\ x.stop = StopOf(side, q, e) /\ x.risk = Up(side) * (10 * q - x.stop)
    /\ x.first = FirstTarget(side, q, e, x.risk)
    /\ x.second = SecondTarget(side, q, x.first, x.risk)

Workings == [stop : Int, risk : Int, first : Int, second : Int]

\* Evidence in numbers.
Numbers(e) == e.atr \in Int /\ e.support \in Int /\ e.resistance \in Int

\* The levels are worked out so.
LEMMA LevelsWork ==
    ASSUME NEW side \in {"BUY", "SELL"}, NEW q \in Int, NEW e, Numbers(e)
    PROVE  \E x \in Workings :
              /\ Worked(side, q, e, x)
              /\ Levels(side, q, e) = [stop |-> 10 * x.stop, target1 |-> x.first,
                                       target2 |-> x.second]
  <1>1. MinReward \in Nat
    BY PlanAssumption
  <1>2. Up(side) \in {1, -1}
    BY DEF Up
  <1>3. ASSUME NEW a \in Int, NEW b \in Int PROVE Best(side, a, b) \in Int
    BY MaxOfTwo, MinOfTwo DEF Best
  <1>4. PICK st \in Int : st = StopOf(side, q, e)
    <2>1. /\ 10 * (q - e.atr) \in Int /\ 10 * e.support - e.atr \in Int
          /\ 10 * (q + e.atr) \in Int /\ 10 * e.resistance + e.atr \in Int
      BY DEF Numbers
    <2>2. Min({10 * (q - e.atr), 10 * e.support - e.atr}) \in Int
      BY <2>1, MinOfTwo
    <2>3. Max({10 * (q + e.atr), 10 * e.resistance + e.atr}) \in Int
      BY <2>1, MaxOfTwo
    <2>4. QED
      BY <2>2, <2>3 DEF StopOf
  <1>5. PICK rk \in Int : rk = Up(side) * (10 * q - st)
    BY <1>2
  <1>6. PICK w \in Int : w = Up(side) * (MinReward * rk)
    BY <1>1, <1>2
  <1>7. PICK v \in Int : v = Up(side) * ((MinReward + 10) * rk)
    BY <1>1, <1>2
  <1>8. PICK f \in Int : f = FirstTarget(side, q, e, rk)
    <2>1. PICK a \in Int : a = 100 * (IF side = "BUY" THEN e.resistance ELSE e.support)
      BY DEF Numbers
    <2>2. PICK b \in Int : b = 100 * q + w
      OBVIOUS
    <2>3. FirstTarget(side, q, e, rk) = Best(side, a, b)
      BY Zenon, <1>6, <2>1, <2>2 DEF FirstTarget
    <2>4. QED
      BY <1>3, <2>3
  <1>9. PICK g \in Int : g = SecondTarget(side, q, f, rk)
    <2>1. PICK a \in Int : a = f + Up(side) * (10 * rk)
      BY <1>2
    <2>2. PICK b \in Int : b = 100 * q + v
      OBVIOUS
    <2>3. SecondTarget(side, q, f, rk) = Best(side, a, b)
      BY Zenon, <1>7, <2>1, <2>2 DEF SecondTarget
    <2>4. QED
      BY <1>3, <2>3
  <1>10. Levels(side, q, e) = [stop |-> 10 * st, target1 |-> f, target2 |-> g]
    BY Zenon, <1>4, <1>5, <1>8, <1>9 DEF Levels
  <1>11. PICK x \in Workings : x = [stop |-> st, risk |-> rk, first |-> f, second |-> g]
    BY DEF Workings
  <1>12. x.stop = st /\ x.risk = rk /\ x.first = f /\ x.second = g
    BY <1>11
  <1>13. Worked(side, q, e, x)
    BY Zenon, <1>4, <1>5, <1>8, <1>9, <1>12 DEF Worked
  <1>14. QED
    BY <1>10, <1>12, <1>13

\* d is the evidence e turned round q.
Opposite(e, d, q) ==
    /\ Numbers(e) /\ Numbers(d) /\ d.atr = e.atr
    /\ d.resistance = 2 * q - e.support /\ d.support = 2 * q - e.resistance

\* Turned evidence is worked out to turned levels, at the same risk.
LEMMA WorkedTurns ==
    ASSUME NEW q \in Int, NEW e, NEW d, Opposite(e, d, q),
           NEW x \in Workings, Worked("BUY", q, e, x),
           NEW y \in Workings, Worked("SELL", q, d, y)
    PROVE  /\ y.stop = 20 * q - x.stop /\ y.risk = x.risk
           /\ y.first = 200 * q - x.first /\ y.second = 200 * q - x.second
  <1>1. /\ x.stop \in Int /\ x.risk \in Int /\ x.first \in Int /\ x.second \in Int
        /\ y.stop \in Int /\ y.risk \in Int /\ MinReward \in Nat
    BY PlanAssumption DEF Workings
  <1>2. PICK a \in Int : a = e.atr /\ a = d.atr
    BY DEF Opposite, Numbers
  <1>3. PICK s \in Int : s = e.support /\ d.resistance = 2 * q - s
    BY DEF Opposite, Numbers
  <1>4. PICK z \in Int : z = e.resistance /\ d.support = 2 * q - z
    BY DEF Opposite, Numbers
  <1>5. ASSUME NEW i \in Int, NEW j \in Int, NEW k \in Int
        PROVE  /\ Best("SELL", k - i, k - j) = k - Best("BUY", i, j)
               /\ Up("BUY") * i = i /\ Up("SELL") * i = -i
    BY TurnedPair DEF Best, Up
  <1>6. y.stop = 20 * q - x.stop
    <2>1. PICK i \in Int : i = 10 * (q - a)
      OBVIOUS
    <2>2. PICK j \in Int : j = 10 * s - a
      <3>1. 10 * s \in Int
        OBVIOUS
      <3>2. 10 * s - a \in Int
        BY <3>1
      <3>3. QED
        BY <3>2
    <2>3. 20 * q - i = 10 * (q + a) /\ 20 * q - j = 10 * (2 * q - s) + a /\ 20 * q \in Int
      BY <2>1, <2>2
    <2>4. x.stop = Min({i, j})
      BY Zenon, <1>2, <1>3, <2>1, <2>2 DEF Worked, StopOf
    <2>5. y.stop = Max({20 * q - i, 20 * q - j})
      BY Zenon, <1>2, <1>3, <2>3 DEF Worked, StopOf
    <2>6. QED
      BY <2>3, <2>4, <2>5, TurnedPair
  <1>7. y.risk = x.risk
    <2>1. x.risk = Up("BUY") * (10 * q - x.stop) /\ y.risk = Up("SELL") * (10 * q - y.stop)
      BY DEF Worked
    <2>2. 10 * q - x.stop \in Int /\ 10 * q - y.stop \in Int
      BY <1>1
    <2>3. x.risk = 10 * q - x.stop /\ y.risk = -(10 * q - y.stop)
      BY <1>5, <2>1, <2>2
    <2>4. QED
      BY <1>1, <1>6, <2>3
  <1>8. PICK rk \in Int : rk = x.risk /\ rk = y.risk
    BY <1>1, <1>7
  <1>9. y.first = 200 * q - x.first
    <2>1. PICK w \in Int : w = MinReward * rk
      BY <1>1
    <2>2. Up("BUY") * w = w /\ Up("SELL") * w = -w
      BY <1>5
    <2>3. PICK i \in Int : i = 100 * z
      OBVIOUS
    <2>4. PICK j \in Int : j = 100 * q + w
      OBVIOUS
    <2>5. 200 * q - i = 100 * (2 * q - z) /\ 200 * q - j = 100 * q + (-w) /\ 200 * q \in Int
      BY <2>3, <2>4
    <2>6. x.first = Best("BUY", i, j)
      BY Zenon, <1>4, <1>8, <2>1, <2>2, <2>3, <2>4 DEF Worked, FirstTarget
    <2>7. y.first = Best("SELL", 200 * q - i, 200 * q - j)
      <3>1. y.first = Best("SELL", 100 * d.support, 100 * q + Up("SELL") * (MinReward * y.risk))
        BY Zenon DEF Worked, FirstTarget
      <3>2. 100 * d.support = 200 * q - i
        BY <1>4, <2>5
      <3>3. 100 * q + Up("SELL") * (MinReward * y.risk) = 200 * q - j
        BY Zenon, <1>8, <2>1, <2>2, <2>5
      <3>4. QED
        BY Zenon, <3>1, <3>2, <3>3
    <2>8. QED
      BY <1>5, <2>5, <2>6, <2>7
  <1>10. y.second = 200 * q - x.second
    <2>1. PICK v \in Int : v = (MinReward + 10) * rk
      BY <1>1
    <2>2. PICK u \in Int : u = 10 * rk
      OBVIOUS
    <2>3. Up("BUY") * v = v /\ Up("SELL") * v = -v /\ Up("BUY") * u = u /\ Up("SELL") * u = -u
      BY <1>5
    <2>4. PICK i \in Int : i = x.first + u
      BY <1>1
    <2>5. PICK j \in Int : j = 100 * q + v
      OBVIOUS
    <2>6. 200 * q - i = y.first + (-u) /\ 200 * q - j = 100 * q + (-v) /\ 200 * q \in Int
      BY <1>1, <1>9, <2>4, <2>5
    <2>7. x.second = Best("BUY", i, j)
      <3>1. x.second = Best("BUY", x.first + Up("BUY") * (10 * x.risk),
                                   100 * q + Up("BUY") * ((MinReward + 10) * x.risk))
        BY Zenon DEF Worked, SecondTarget
      <3>2. x.first + Up("BUY") * (10 * x.risk) = i
        BY Zenon, <1>8, <2>2, <2>3, <2>4
      <3>3. 100 * q + Up("BUY") * ((MinReward + 10) * x.risk) = j
        BY Zenon, <1>8, <2>1, <2>3, <2>5
      <3>4. QED
        BY Zenon, <3>1, <3>2, <3>3
    <2>8. y.second = Best("SELL", 200 * q - i, 200 * q - j)
      <3>1. y.second = Best("SELL", y.first + Up("SELL") * (10 * y.risk),
                                    100 * q + Up("SELL") * ((MinReward + 10) * y.risk))
        BY Zenon DEF Worked, SecondTarget
      <3>2. y.first + Up("SELL") * (10 * y.risk) = 200 * q - i
        BY Zenon, <1>8, <2>2, <2>3, <2>6
      <3>3. 100 * q + Up("SELL") * ((MinReward + 10) * y.risk) = 200 * q - j
        BY Zenon, <1>8, <2>1, <2>3, <2>6
      <3>4. QED
        BY Zenon, <3>1, <3>2, <3>3
    <2>9. QED
      BY <1>5, <2>6, <2>7, <2>8
  <1>11. QED
    BY <1>6, <1>7, <1>9, <1>10

\* A stop is one range away at least and beyond the level behind it; the targets are as far
\* as the reward asked for, and one risk apart.
LEMMA WorkedBounds ==
    ASSUME NEW side \in {"BUY", "SELL"}, NEW q \in Int, NEW e, Numbers(e),
           NEW x \in Workings, Worked(side, q, e, x)
    PROVE  /\ x.risk = Up(side) * (10 * q - x.stop) /\ x.risk >= 10 * e.atr
           /\ Up(side) * (x.first - 100 * q) >= MinReward * x.risk
           /\ Up(side) * (x.second - x.first) >= 10 * x.risk
           /\ side = "BUY" => x.stop <= 10 * e.support - e.atr
           /\ side = "SELL" => x.stop >= 10 * e.resistance + e.atr
  <1>1. /\ x.stop \in Int /\ x.risk \in Int /\ x.first \in Int /\ x.second \in Int
        /\ MinReward \in Nat
    BY PlanAssumption DEF Workings
  <1>2. PICK a \in Int : a = e.atr
    BY DEF Numbers
  <1>3. PICK s \in Int : s = e.support
    BY DEF Numbers
  <1>4. PICK z \in Int : z = e.resistance
    BY DEF Numbers
  <1>5. PICK w \in Int : w = MinReward * x.risk
    BY <1>1
  <1>6. PICK v \in Int : v = (MinReward + 10) * x.risk
    BY <1>1
  <1>7. x.risk = Up(side) * (10 * q - x.stop)
    BY DEF Worked
  <1>8. CASE side = "BUY"
    <2>1. \A i \in Int : Up(side) * i = i
      BY <1>8 DEF Up
    <2>2. x.stop <= 10 * (q - a) /\ x.stop <= 10 * s - a
      <3>1. 10 * (q - a) \in Int /\ 10 * s - a \in Int
        OBVIOUS
      <3>2. x.stop = Min({10 * (q - a), 10 * s - a})
        BY <1>2, <1>3, <1>8 DEF Worked, StopOf
      <3>3. QED
        BY <3>1, <3>2, MinOfTwo
    <2>3. x.first >= 100 * q + w
      <3>1. 100 * z \in Int /\ 100 * q + w \in Int
        OBVIOUS
      <3>2. x.first = Max({100 * z, 100 * q + Up(side) * w})
        BY Zenon, <1>4, <1>5, <1>8 DEF Worked, FirstTarget, Best
      <3>3. Up(side) * w = w
        BY <2>1
      <3>4. QED
        BY <3>1, <3>2, <3>3, MaxOfTwo
    <2>4. x.second >= x.first + 10 * x.risk
      <3>1. x.first + 10 * x.risk \in Int /\ 100 * q + v \in Int /\ 10 * x.risk \in Int
        BY <1>1
      <3>2. x.second = Max({x.first + Up(side) * (10 * x.risk), 100 * q + Up(side) * v})
        BY Zenon, <1>6, <1>8 DEF Worked, SecondTarget, Best
      <3>3. Up(side) * v = v /\ Up(side) * (10 * x.risk) = 10 * x.risk
        BY <2>1, <3>1
      <3>4. PICK i \in Int : i = x.first + 10 * x.risk
        BY <3>1
      <3>5. PICK j \in Int : j = 100 * q + v
        BY <3>1
      <3>6. x.second = Max({i, j})
        BY Zenon, <3>2, <3>3, <3>4, <3>5
      <3>7. Max({i, j}) >= i
        BY MaxOfTwo
      <3>8. QED
        BY <3>4, <3>6, <3>7
    <2>5. x.risk = 10 * q - x.stop
      BY <1>1, <1>7, <2>1
    <2>6. /\ Up(side) * (x.first - 100 * q) = x.first - 100 * q
          /\ Up(side) * (x.second - x.first) = x.second - x.first
      BY <1>1, <2>1
    <2>7. x.risk >= 10 * a
      BY <1>1, <2>2, <2>5
    <2>8. x.first - 100 * q >= w /\ x.second - x.first >= 10 * x.risk
      BY <1>1, <2>3, <2>4
    <2>9. QED
      BY <1>2, <1>3, <1>5, <1>7, <1>8, <2>2, <2>6, <2>7, <2>8
  <1>9. CASE side = "SELL"
    <2>1. \A i \in Int : Up(side) * i = -i
      BY <1>9 DEF Up
    <2>2. x.stop >= 10 * (q + a) /\ x.stop >= 10 * z + a
      <3>1. 10 * (q + a) \in Int /\ 10 * z + a \in Int
        OBVIOUS
      <3>2. x.stop = Max({10 * (q + a), 10 * z + a})
        BY <1>2, <1>4, <1>9 DEF Worked, StopOf
      <3>3. QED
        BY <3>1, <3>2, MaxOfTwo
    <2>3. x.first <= 100 * q - w
      <3>1. 100 * s \in Int /\ 100 * q - w \in Int
        OBVIOUS
      <3>2. x.first = Min({100 * s, 100 * q + Up(side) * w})
        BY Zenon, <1>3, <1>5, <1>9 DEF Worked, FirstTarget, Best
      <3>3. 100 * q + Up(side) * w = 100 * q - w
        BY <2>1
      <3>4. PICK i \in Int : i = 100 * s
        BY <3>1
      <3>5. PICK j \in Int : j = 100 * q - w
        BY <3>1
      <3>6. x.first = Min({i, j})
        BY Zenon, <3>2, <3>3, <3>4, <3>5
      <3>7. Min({i, j}) <= j
        BY MinOfTwo
      <3>8. QED
        BY <3>5, <3>6, <3>7
    <2>4. x.second <= x.first - 10 * x.risk
      <3>1. /\ x.first - 10 * x.risk \in Int /\ 100 * q - v \in Int /\ 10 * x.risk \in Int
        BY <1>1
      <3>2. x.second = Min({x.first + Up(side) * (10 * x.risk), 100 * q + Up(side) * v})
        BY Zenon, <1>6, <1>9 DEF Worked, SecondTarget, Best
      <3>3. /\ 100 * q + Up(side) * v = 100 * q - v
            /\ x.first + Up(side) * (10 * x.risk) = x.first - 10 * x.risk
        BY <1>1, <2>1, <3>1
      <3>4. PICK i \in Int : i = x.first - 10 * x.risk
        BY <3>1
      <3>5. PICK j \in Int : j = 100 * q - v
        BY <3>1
      <3>6. x.second = Min({i, j})
        BY Zenon, <3>2, <3>3, <3>4, <3>5
      <3>7. Min({i, j}) <= i
        BY MinOfTwo
      <3>8. QED
        BY <3>4, <3>6, <3>7
    <2>5. x.risk = x.stop - 10 * q
      BY <1>1, <1>7, <2>1
    <2>6. /\ Up(side) * (x.first - 100 * q) = 100 * q - x.first
          /\ Up(side) * (x.second - x.first) = x.first - x.second
      BY <1>1, <2>1
    <2>7. x.risk >= 10 * a
      BY <1>1, <2>2, <2>5
    <2>8. 100 * q - x.first >= w /\ x.first - x.second >= 10 * x.risk
      BY <1>1, <2>3, <2>4
    <2>9. QED
      BY <1>2, <1>4, <1>5, <1>7, <1>9, <2>2, <2>6, <2>7, <2>8
  <1>10. QED
    BY <1>8, <1>9

(***************************************************************************)
(* The plans.                                                              *)
(***************************************************************************)
\* What a plan on a side says of the request it was built for.
Planned(r, side, x) ==
    /\ ~DataMissing(r) /\ ~(r.confidence < MinConfidence) /\ ~(Evidence(r).atr <= 0)
    /\ side = DerivedAction(r) /\ x \in Workings
    /\ Worked(side, r.quote, Evidence(r), x)
    /\ ~LevelsFail(side, 100 * r.quote, Levels(side, r.quote, Evidence(r)))
    /\ Levels(side, r.quote, Evidence(r))
          = [stop |-> 10 * x.stop, target1 |-> x.first, target2 |-> x.second]
    /\ Build(r) = [action |-> side, entry |-> 100 * r.quote, stop |-> 10 * x.stop,
                   target1 |-> x.first, target2 |-> x.second,
                   ratio |-> RiskReward(100 * r.quote,
                                        Levels(side, r.quote, Evidence(r)))]

\* The evidence for a request that misses no data is in numbers.
LEMMA EvidenceNumbers ==
    ASSUME NEW r \in Requests, ~DataMissing(r)
    PROVE  /\ Len(Usable(r.candles)) >= 21 /\ Numbers(Evidence(r)) /\ r.quote \in Int
           /\ Rows(Usable(r.candles))
  <1>1. r.candles \in Seq(Candles) /\ r.quote \in Int
    BY DEF Requests
  <1>2. Rows(Usable(r.candles))
    BY <1>1, UsableRows
  <1>3. Len(Usable(r.candles)) \in Nat
    BY <1>2 DEF Rows
  <1>4. Len(Usable(r.candles)) >= 21
    BY <1>3 DEF DataMissing
  <1>5. QED
    BY <1>1, <1>2, <1>4, EvidenceType DEF Numbers

\* What is not refused is built.
LEMMA BuildOf ==
    ASSUME NEW r, NEW z, z = Levels(DerivedAction(r), r.quote, Evidence(r)),
           ~DataMissing(r), ~(r.confidence < MinConfidence), ~(Evidence(r).atr <= 0),
           DerivedAction(r) # "NO_TRADE", ~LevelsFail(DerivedAction(r), 100 * r.quote, z)
    PROVE  Build(r) = [action |-> DerivedAction(r), entry |-> 100 * r.quote, stop |-> z.stop,
                       target1 |-> z.target1, target2 |-> z.target2,
                       ratio |-> RiskReward(100 * r.quote, z)]
  BY Zenon DEF Build

\* A plan is one of a side, worked out, or there is none.
LEMMA BuildGives ==
    ASSUME NEW r \in Requests
    PROVE  \/ Build(r) \in {NoPlan("NO_TRADE"), NoPlan("DATA_UNAVAILABLE")}
           \/ \E side \in {"BUY", "SELL"}, x \in Workings : Planned(r, side, x)
  <1>1. PICK side : side = DerivedAction(r)
    OBVIOUS
  <1>2. PICK e : e = Evidence(r)
    OBVIOUS
  <1>3. PICK lv : lv = Levels(side, r.quote, e)
    OBVIOUS
  <1>4. side \in {"BUY", "SELL", "NO_TRADE"}
    BY <1>1 DEF DerivedAction
  <1>5. SUFFICES ASSUME Build(r) \notin {NoPlan("NO_TRADE"), NoPlan("DATA_UNAVAILABLE")}
                 PROVE  \E s \in {"BUY", "SELL"}, x \in Workings : Planned(r, s, x)
    OBVIOUS
  <1>6. /\ ~DataMissing(r) /\ ~(r.confidence < MinConfidence) /\ ~(e.atr <= 0)
        /\ side # "NO_TRADE" /\ ~LevelsFail(side, 100 * r.quote, lv)
        /\ Build(r) = [action |-> side, entry |-> 100 * r.quote, stop |-> lv.stop,
                       target1 |-> lv.target1, target2 |-> lv.target2,
                       ratio |-> RiskReward(100 * r.quote, lv)]
    BY Zenon, <1>1, <1>2, <1>3, <1>5 DEF Build
  <1>7. Numbers(e) /\ r.quote \in Int
    BY <1>2, <1>6, EvidenceNumbers
  <1>8. PICK x \in Workings :
              /\ Worked(side, r.quote, e, x)
              /\ lv = [stop |-> 10 * x.stop, target1 |-> x.first, target2 |-> x.second]
    <2>1. PICK q \in Int : q = r.quote
      BY <1>7
    <2>2. side \in {"BUY", "SELL"}
      BY <1>4, <1>6
    <2>3. PICK x \in Workings :
                /\ Worked(side, q, e, x)
                /\ Levels(side, q, e) = [stop |-> 10 * x.stop, target1 |-> x.first,
                                         target2 |-> x.second]
      BY <1>7, <2>2, LevelsWork
    <2>4. QED
      BY Zenon, <1>3, <2>1, <2>3
  <1>9. lv.stop = 10 * x.stop /\ lv.target1 = x.first /\ lv.target2 = x.second
    BY <1>8
  <1>10. Planned(r, side, x)
    <2>1. /\ Levels(side, r.quote, Evidence(r))
                = [stop |-> 10 * x.stop, target1 |-> x.first, target2 |-> x.second]
          /\ Worked(side, r.quote, Evidence(r), x)
          /\ ~LevelsFail(side, 100 * r.quote, Levels(side, r.quote, Evidence(r)))
      BY Zenon, <1>2, <1>3, <1>6, <1>8
    <2>2. Build(r) = [action |-> side, entry |-> 100 * r.quote, stop |-> 10 * x.stop,
                      target1 |-> x.first, target2 |-> x.second,
                      ratio |-> RiskReward(100 * r.quote,
                                           Levels(side, r.quote, Evidence(r)))]
      BY Zenon, <1>2, <1>3, <1>6, <1>9
    <2>3. ~(Evidence(r).atr <= 0) /\ x \in Workings
      BY Zenon, <1>2, <1>6
    <2>4. QED
      BY Zenon, <1>1, <1>6, <2>1, <2>2, <2>3 DEF Planned
  <1>11. QED
    BY <1>4, <1>6, <1>10

\* A plan that is built is sound.
LEMMA BuiltIsSound ==
    ASSUME planned \in Requests, plan = Enriched(planned)
    PROVE  PlanSound
  <1>1. PICK p : p = Build(planned) /\ p = plan.plan /\ plan.decision = p.action
    BY DEF Enriched
  <1>2. CASE p \in {NoPlan("NO_TRADE"), NoPlan("DATA_UNAVAILABLE")}
    <2>1. p.action \in {"NO_TRADE", "DATA_UNAVAILABLE"} /\ p = NoPlan(p.action)
      BY <1>2 DEF NoPlan
    <2>2. QED
      BY <1>1, <2>1 DEF PlanSound
  <1>3. ASSUME NEW side \in {"BUY", "SELL"}, NEW x \in Workings, Planned(planned, side, x)
        PROVE  PlanSound
    <2>1. PICK e : e = Evidence(planned)
      OBVIOUS
    <2>2. PICK q \in Int : q = planned.quote
      BY DEF Requests
    <2>3. /\ p.action = side /\ p.entry = 100 * q /\ p.stop = 10 * x.stop
          /\ p.target1 = x.first /\ p.target2 = x.second
          /\ p.ratio = RiskReward(100 * q, Levels(side, q, e))
      <3>1. p = [action |-> side, entry |-> 100 * q, stop |-> 10 * x.stop,
                 target1 |-> x.first, target2 |-> x.second,
                 ratio |-> RiskReward(100 * q, Levels(side, q, e))]
        BY Zenon, <1>1, <1>3, <2>1, <2>2 DEF Planned
      <3>2. QED
        BY Zenon, <3>1
    <2>4. Numbers(e)
      BY <1>3, <2>1, EvidenceNumbers DEF Planned
    <2>5. Worked(side, q, e, x) /\ ~(e.atr <= 0)
      BY <1>3, <2>1, <2>2 DEF Planned
    <2>6. /\ x.stop \in Int /\ x.risk \in Int /\ x.first \in Int /\ x.second \in Int
          /\ MinReward \in Nat /\ Up(side) \in {1, -1}
      BY PlanAssumption DEF Workings, Up
    <2>7. /\ x.risk = Up(side) * (10 * q - x.stop) /\ x.risk >= 10 * e.atr
          /\ Up(side) * (x.first - 100 * q) >= MinReward * x.risk
          /\ Up(side) * (x.second - x.first) >= 10 * x.risk
          /\ side = "BUY" => x.stop <= 10 * e.support - e.atr
          /\ side = "SELL" => x.stop >= 10 * e.resistance + e.atr
      BY <2>2, <2>4, <2>5, WorkedBounds
    <2>8. e.atr \in Int /\ e.atr > 0 /\ e.support \in Int /\ e.resistance \in Int
      BY <2>4, <2>5 DEF Numbers
    <2>9. Up(side) * (100 * q - 10 * x.stop) = 10 * x.risk
      <3>1. Up(side) * (100 * q - 10 * x.stop) = 10 * (Up(side) * (10 * q - x.stop))
        BY <2>6
      <3>2. QED
        BY <2>7, <3>1
    <2>10. Up(side) * (p.entry - p.stop) >= 100 * e.atr
      BY <2>3, <2>6, <2>7, <2>8, <2>9
    <2>11. Up(side) * (p.target1 - p.entry) * 10 >= MinReward * (Up(side) * (p.entry - p.stop))
      <3>1. PICK w \in Int : w = MinReward * x.risk
        BY <2>6
      <3>2. MinReward * (10 * x.risk) = 10 * w
        BY <2>6, <3>1
      <3>3. PICK u \in Int : u = Up(side) * (x.first - 100 * q)
        BY <2>6
      <3>4. u >= w /\ u * 10 >= 10 * w
        BY <2>7, <3>1, <3>3
      <3>5. QED
        BY <2>3, <2>9, <3>2, <3>3, <3>4
    <2>12. Up(side) * (p.target2 - p.target1) >= Up(side) * (p.entry - p.stop)
      BY <2>3, <2>7, <2>9
    <2>13. p.ratio >= 10 * MinReward
      <3>1. ~(p.ratio < 10 * MinReward)
        BY <1>3, <2>1, <2>2, <2>3 DEF Planned, LevelsFail
      <3>2. p.ratio \in Int
        <4>1. PICK lv : lv = Levels(side, q, e) /\ lv.stop = 10 * x.stop /\ lv.target1 = x.first
          BY <1>3, <2>1, <2>2 DEF Planned
        <4>2. PICK rk \in Nat : rk = Apart(100 * q, lv.stop)
          BY <2>6, <4>1 DEF Apart
        <4>3. PICK rw \in Nat : rw = Apart(lv.target1, 100 * q)
          BY <2>6, <4>1 DEF Apart
        <4>4. p.ratio = IF rk = 0 THEN 0 ELSE (200 * rw + rk) \div (2 * rk)
          BY <2>3, <4>1, <4>2, <4>3 DEF RiskReward
        <4>5. rk # 0 => 2 * rk \in Nat \ {0} /\ 200 * rw + rk \in Int
          OBVIOUS
        <4>6. QED
          BY <4>4, <4>5
      <3>3. QED
        BY <2>6, <3>1, <3>2
    <2>14. IF p.action = "BUY" THEN p.stop < 100 * e.support ELSE p.stop > 100 * e.resistance
      BY <2>3, <2>6, <2>7, <2>8
    <2>15. /\ planned.action \in {"BUY", "SELL"} => p.action = planned.action
           /\ planned.confidence >= MinConfidence
      BY <1>3, <2>3, PlanAssumption DEF Planned, DerivedAction, Requests
    <2>16. p.action \notin {"NO_TRADE", "DATA_UNAVAILABLE"}
      BY <2>3
    <2>17. Up(side) = IF p.action = "BUY" THEN 1 ELSE -1
      BY <2>3 DEF Up
    <2>18. QED
      BY Zenon, <1>1, <2>1, <2>8, <2>10, <2>11, <2>12, <2>13, <2>14, <2>15, <2>16, <2>17
      DEF PlanSound
  <1>4. QED
    BY <1>1, <1>2, <1>3, BuildGives

\* Three votes for one side are three votes for the other one when they are turned.
LEMMA SideTurns ==
    ASSUME NEW r \in Requests, DerivedAction(r) \in {"BUY", "SELL"}, NEW m, m = Mirror(r)
    PROVE  DerivedAction(m) = TurnedSide(DerivedAction(r))
  <1>1. /\ m.volumeOk = r.volumeOk /\ m.action = TurnedSide(r.action)
        /\ m.bull = r.bear /\ m.bear = r.bull
    BY MirrorAsks
  <1>2. r.bull \in Nat /\ r.bear \in Nat
    BY DEF Requests
  <1>3. CASE r.action \in {"BUY", "SELL"}
    BY <1>1, <1>3 DEF DerivedAction, TurnedSide
  <1>4. CASE r.action \notin {"BUY", "SELL"}
    <2>1. m.action \notin {"BUY", "SELL"}
      BY <1>1, <1>4 DEF TurnedSide
    <2>2. CASE r.volumeOk /\ r.bull >= 3 /\ r.bull > r.bear
      BY <1>1, <1>2, <1>4, <2>1, <2>2 DEF DerivedAction, TurnedSide
    <2>3. CASE ~(r.volumeOk /\ r.bull >= 3 /\ r.bull > r.bear)
      BY <1>1, <1>2, <1>4, <2>1, <2>3 DEF DerivedAction, TurnedSide
    <2>4. QED
      BY <2>2, <2>3
  <1>5. QED
    BY <1>3, <1>4

\* d are the levels c turned round q.
OppositeLevels(c, d, q) ==
    /\ c.stop \in Int /\ c.target1 \in Int /\ c.target2 \in Int
    /\ d.stop = 2 * q - c.stop /\ d.target1 = 2 * q - c.target1
    /\ d.target2 = 2 * q - c.target2

\* Turned levels reward as much.
LEMMA RewardTurns ==
    ASSUME NEW q \in Int, NEW c, NEW d, OppositeLevels(c, d, q)
    PROVE  RiskReward(q, d) = RiskReward(q, c)
  <1>1. PICK s \in Int : s = c.stop /\ d.stop = 2 * q - s
    BY DEF OppositeLevels
  <1>2. PICK f \in Int : f = c.target1 /\ d.target1 = 2 * q - f
    BY DEF OppositeLevels
  <1>3. Apart(q, 2 * q - s) = Apart(q, s) /\ Apart(2 * q - f, q) = Apart(f, q)
    BY DEF Apart
  <1>4. Apart(q, d.stop) = Apart(q, c.stop) /\ Apart(d.target1, q) = Apart(c.target1, q)
    BY Zenon, <1>1, <1>2, <1>3
  <1>5. QED
    BY Zenon, <1>4 DEF RiskReward

\* They fail no check that the levels they were turned from passed, when all are positive.
LEMMA FailTurns ==
    ASSUME NEW side \in {"BUY", "SELL"}, NEW q \in Int, NEW c, NEW d, OppositeLevels(c, d, q),
           ~LevelsFail(side, q, c), c.stop < 2 * q, c.target1 < 2 * q, c.target2 < 2 * q
    PROVE  ~LevelsFail(TurnedSide(side), q, d)
  <1>1. PICK s \in Int : s = c.stop /\ d.stop = 2 * q - s
    BY DEF OppositeLevels
  <1>2. PICK f \in Int : f = c.target1 /\ d.target1 = 2 * q - f
    BY DEF OppositeLevels
  <1>3. PICK g \in Int : g = c.target2 /\ d.target2 = 2 * q - g
    BY DEF OppositeLevels
  <1>4. s < 2 * q /\ f < 2 * q /\ g < 2 * q
    BY <1>1, <1>2, <1>3
  <1>5. ~(RiskReward(q, c) < 10 * MinReward) /\ {q, c.stop, c.target1, c.target2} \subseteq Nat \ {0}
    BY DEF LevelsFail
  <1>6. ~(RiskReward(q, d) < 10 * MinReward)
    BY <1>5, RewardTurns
  <1>7. q > 0 /\ s > 0 /\ f > 0 /\ g > 0
    BY <1>1, <1>2, <1>3, <1>5
  <1>8. {q, d.stop, d.target1, d.target2} \subseteq Nat \ {0}
    <2>1. q \in Nat \ {0} /\ 2 * q - s \in Nat \ {0} /\ 2 * q - f \in Nat \ {0}
          /\ 2 * q - g \in Nat \ {0}
      BY <1>4, <1>7
    <2>2. QED
      BY Zenon, <1>1, <1>2, <1>3, <2>1
  <1>9. CASE side = "BUY"
    <2>1. s < q /\ f > q
      BY <1>1, <1>2, <1>9 DEF LevelsFail
    <2>2. ~(2 * q - s <= q) /\ ~(2 * q - f >= q) /\ ~(2 * q - f <= 0)
      BY <1>4, <2>1
    <2>3. TurnedSide(side) = "SELL" /\ "SELL" # "BUY"
      BY <1>9 DEF TurnedSide
    <2>4. ~(d.stop <= q \/ d.target1 >= q \/ d.target1 <= 0)
      BY <1>1, <1>2, <2>2
    <2>5. QED
      BY Zenon, <1>6, <1>8, <2>3, <2>4 DEF LevelsFail
  <1>10. CASE side = "SELL"
    <2>1. s > q /\ f < q
      BY <1>1, <1>2, <1>10 DEF LevelsFail
    <2>2. ~(2 * q - s <= 0) /\ ~(2 * q - s >= q) /\ ~(2 * q - f <= q)
      BY <1>4, <2>1
    <2>3. TurnedSide(side) = "BUY"
      BY <1>10 DEF TurnedSide
    <2>4. ~(d.stop <= 0 \/ d.stop >= q \/ d.target1 <= q)
      BY <1>1, <1>2, <2>2
    <2>5. QED
      BY Zenon, <1>6, <1>8, <2>3, <2>4 DEF LevelsFail
  <1>11. QED
    BY <1>9, <1>10

\* The mirror of a request that is planned, as long as its prices stay positive.
LEMMA MirrorBuilds ==
    ASSUME NEW r \in Requests, NEW side \in {"BUY", "SELL"}, NEW x \in Workings,
           Planned(r, side, x), Turnable(r, Build(r)), NEW m, m = Mirror(r)
    PROVE  /\ Build(m).action = TurnedSide(side) /\ Build(m).entry = 100 * r.quote
           /\ Build(m).stop = 200 * r.quote - 10 * x.stop
           /\ Build(m).target1 = 200 * r.quote - x.first
           /\ Build(m).target2 = 200 * r.quote - x.second
           /\ Build(m).ratio = Build(r).ratio
  <1>1. PICK q \in Int : q = r.quote
    BY DEF Requests
  <1>2. PICK rows : rows = Usable(r.candles)
    OBVIOUS
  <1>3. PICK e : e = Evidence(r)
    OBVIOUS
  <1>4. PICK t : t = [i \in DOMAIN rows |-> TurnedCandle(rows[i], q)]
    OBVIOUS
  <1>5. ~DataMissing(r) /\ ~(r.confidence < MinConfidence) /\ ~(e.atr <= 0)
    BY <1>3 DEF Planned
  <1>6. Rows(rows) /\ Len(rows) >= 21 /\ Numbers(e)
    BY <1>2, <1>3, <1>5, EvidenceNumbers
  <1>7. /\ r.support < 2 * q /\ r.resistance < 2 * q
        /\ \A i \in DOMAIN rows : Positive(TurnedCandle(rows[i], q))
    BY <1>1, <1>2 DEF Turnable
  <1>8. Mirrored(rows, t, q)
    BY <1>4, <1>6, <1>7 DEF Mirrored
  <1>9. /\ m.quote = q /\ m.valid = r.valid /\ m.history = r.history
        /\ m.confidence = r.confidence /\ m.candles = t
    <2>1. /\ m.quote = r.quote /\ m.valid = r.valid /\ m.history = r.history
          /\ m.confidence = r.confidence
          /\ m.candles = [i \in DOMAIN Usable(r.candles) |->
                             TurnedCandle(Usable(r.candles)[i], r.quote)]
      BY MirrorAsks
    <2>2. QED
      BY Zenon, <1>1, <1>2, <1>4, <2>1
  <1>10. Usable(t) = t /\ Len(t) = Len(rows)
    BY <1>8, RowsTurn
  <1>11. ~DataMissing(m)
    BY Zenon, <1>1, <1>2, <1>5, <1>9, <1>10 DEF DataMissing
  <1>12. PICK d : d = Evidence(m)
    OBVIOUS
  <1>13. d = [atr |-> e.atr, support |-> 2 * q - e.resistance, resistance |-> 2 * q - e.support]
    BY <1>1, <1>2, <1>3, <1>6, <1>7, <1>8, <1>12, EvidenceTurns
  <1>14. d.atr = e.atr /\ d.support = 2 * q - e.resistance /\ d.resistance = 2 * q - e.support
    BY <1>13
  <1>15. Numbers(d)
    BY <1>6, <1>14 DEF Numbers
  <1>16. Opposite(e, d, q) /\ Opposite(d, e, q)
    <2>1. /\ e.resistance = 2 * q - d.support /\ e.support = 2 * q - d.resistance
      BY <1>6, <1>14 DEF Numbers
    <2>2. QED
      BY <1>6, <1>14, <1>15, <2>1 DEF Opposite
  <1>17. PICK other \in {"BUY", "SELL"} : other = TurnedSide(side) /\ other # side
    BY DEF TurnedSide
  <1>18. DerivedAction(m) = other
    BY <1>17, SideTurns DEF Planned
  <1>19. PICK y \in Workings :
              /\ Worked(other, q, d, y)
              /\ Levels(other, q, d) = [stop |-> 10 * y.stop, target1 |-> y.first,
                                        target2 |-> y.second]
    BY <1>15, LevelsWork
  <1>20. Worked(side, q, e, x)
    BY <1>1, <1>3 DEF Planned
  <1>21. /\ x.stop \in Int /\ x.first \in Int /\ x.second \in Int
         /\ y.stop \in Int /\ y.first \in Int /\ y.second \in Int
    BY DEF Workings
  <1>22. /\ y.stop = 20 * q - x.stop /\ y.first = 200 * q - x.first
         /\ y.second = 200 * q - x.second
    <2>1. CASE side = "BUY"
      <3>1. other = "SELL"
        BY <1>17, <2>1
      <3>2. QED
        BY <1>16, <1>19, <1>20, <2>1, <3>1, WorkedTurns
    <2>2. CASE side = "SELL"
      <3>1. other = "BUY"
        BY <1>17, <2>2
      <3>2. /\ x.stop = 20 * q - y.stop /\ x.first = 200 * q - y.first
            /\ x.second = 200 * q - y.second
        BY <1>16, <1>19, <1>20, <2>2, <3>1, WorkedTurns
      <3>3. QED
        BY <1>21, <3>2
    <2>3. QED
      BY <2>1, <2>2
  <1>23. PICK c : c = Levels(side, q, e)
    OBVIOUS
  <1>24. PICK z : z = Levels(other, q, d)
    OBVIOUS
  <1>25. c.stop = 10 * x.stop /\ c.target1 = x.first /\ c.target2 = x.second
    BY <1>1, <1>3, <1>23 DEF Planned
  <1>26. z.stop = 200 * q - 10 * x.stop /\ z.target1 = 200 * q - x.first
         /\ z.target2 = 200 * q - x.second
    <2>1. z.stop = 10 * y.stop /\ z.target1 = y.first /\ z.target2 = y.second
      BY <1>19, <1>24
    <2>2. 10 * (20 * q - x.stop) = 200 * q - 10 * x.stop
      BY <1>21
    <2>3. QED
      BY Zenon, <1>22, <2>1, <2>2
  <1>27. PICK k \in Int : k = 100 * q /\ 2 * k = 200 * q
    OBVIOUS
  <1>28. OppositeLevels(c, z, k)
    BY <1>21, <1>25, <1>26, <1>27 DEF OppositeLevels
  <1>29. PICK p : /\ p = Build(r) /\ p.entry = k /\ p.stop = 10 * x.stop
                  /\ p.target1 = x.first /\ p.target2 = x.second
                  /\ p.ratio = RiskReward(k, c)
    <2>1. Build(r) = [action |-> side, entry |-> k, stop |-> 10 * x.stop,
                      target1 |-> x.first, target2 |-> x.second, ratio |-> RiskReward(k, c)]
      BY Zenon, <1>1, <1>3, <1>23, <1>27 DEF Planned
    <2>2. QED
      BY <2>1
  <1>30. c.stop < 2 * k /\ c.target1 < 2 * k /\ c.target2 < 2 * k
    BY <1>25, <1>29 DEF Turnable
  <1>31. ~LevelsFail(side, k, c)
    BY Zenon, <1>1, <1>3, <1>23, <1>27 DEF Planned
  <1>32. ~LevelsFail(other, k, z)
    BY <1>17, <1>28, <1>30, <1>31, FailTurns
  <1>33. RiskReward(k, z) = RiskReward(k, c)
    BY <1>28, RewardTurns
  <1>34. Build(m) = [action |-> other, entry |-> k, stop |-> z.stop, target1 |-> z.target1,
                     target2 |-> z.target2, ratio |-> RiskReward(k, z)]
    <2>1. ~(m.confidence < MinConfidence) /\ ~(d.atr <= 0) /\ other # "NO_TRADE"
      BY <1>5, <1>9, <1>14
    <2>2. ~(Evidence(m).atr <= 0) /\ DerivedAction(m) # "NO_TRADE"
      BY Zenon, <1>12, <1>18, <2>1
    <2>3. Levels(DerivedAction(m), m.quote, Evidence(m)) = z /\ 100 * m.quote = k
      BY Zenon, <1>9, <1>12, <1>18, <1>24, <1>27
    <2>4. ~LevelsFail(DerivedAction(m), 100 * m.quote,
                      Levels(DerivedAction(m), m.quote, Evidence(m)))
      BY Zenon, <1>18, <1>32, <2>3
    <2>5. PICK lv, way, at : /\ lv = Levels(DerivedAction(m), m.quote, Evidence(m))
                            /\ way = DerivedAction(m) /\ at = 100 * m.quote
      OBVIOUS
    <2>6. Build(m) = [action |-> way, entry |-> at, stop |-> lv.stop, target1 |-> lv.target1,
                      target2 |-> lv.target2, ratio |-> RiskReward(at, lv)]
      <3>1. Build(m) = [action |-> DerivedAction(m), entry |-> 100 * m.quote,
                        stop |-> lv.stop, target1 |-> lv.target1, target2 |-> lv.target2,
                        ratio |-> RiskReward(100 * m.quote, lv)]
        <4>1. ~DataMissing(m) /\ ~(m.confidence < MinConfidence)
          BY <1>11, <2>1
        <4>2. ~LevelsFail(DerivedAction(m), 100 * m.quote, lv)
          BY Zenon, <2>4, <2>5
        <4>3. QED
          BY ZenonT(40), <2>2, <2>5, <4>1, <4>2, BuildOf
      <3>2. QED
        BY Zenon, <2>5, <3>1
    <2>7. lv = z /\ way = other /\ at = k
      BY Zenon, <1>18, <2>3, <2>5
    <2>8. QED
      BY Zenon, <2>6, <2>7
  <1>35. PICK b : /\ b = Build(m) /\ b.action = other /\ b.entry = k /\ b.stop = z.stop
                  /\ b.target1 = z.target1 /\ b.target2 = z.target2
                  /\ b.ratio = RiskReward(k, z)
    BY <1>34
  <1>36. b.ratio = Build(r).ratio
    BY Zenon, <1>29, <1>33, <1>35
  <1>37. b.stop = 200 * q - 10 * x.stop /\ b.target1 = 200 * q - x.first
         /\ b.target2 = 200 * q - x.second
    BY Zenon, <1>26, <1>35
  <1>38. b.action = TurnedSide(side) /\ b.entry = 100 * q
    BY Zenon, <1>17, <1>27, <1>35
  <1>39. QED
    BY Zenon, <1>1, <1>35, <1>36, <1>37, <1>38

\* A plan that is built mirrors.
LEMMA BuiltMirrors ==
    ASSUME planned \in Requests, plan = Enriched(planned)
    PROVE  PlanMirrors
  <1>1. PICK p : p = Build(planned) /\ p = plan.plan /\ plan.decision = p.action
    BY DEF Enriched
  <1>2. CASE p \in {NoPlan("NO_TRADE"), NoPlan("DATA_UNAVAILABLE")}
    <2>1. p.action \in {"NO_TRADE", "DATA_UNAVAILABLE"}
      BY <1>2 DEF NoPlan
    <2>2. QED
      BY <1>1, <2>1 DEF PlanMirrors
  <1>3. ASSUME NEW side \in {"BUY", "SELL"}, NEW x \in Workings, Planned(planned, side, x)
        PROVE  PlanMirrors
    <2>1. SUFFICES ASSUME Turnable(planned, p)
                   PROVE  LET m == Build(Mirror(planned)) IN
                          /\ m.action = TurnedSide(p.action) /\ m.entry = p.entry
                          /\ m.stop = Turned(p.stop, p.entry)
                          /\ m.target1 = Turned(p.target1, p.entry)
                          /\ m.target2 = Turned(p.target2, p.entry) /\ m.ratio = p.ratio
      BY Zenon, <1>1 DEF PlanMirrors
    <2>2. PICK q \in Int : q = planned.quote
      BY DEF Requests
    <2>3. /\ p.action = side /\ p.entry = 100 * q /\ p.stop = 10 * x.stop
          /\ p.target1 = x.first /\ p.target2 = x.second
      <3>1. PICK w : p = [action |-> side, entry |-> 100 * q, stop |-> 10 * x.stop,
                          target1 |-> x.first, target2 |-> x.second, ratio |-> w]
        <4>1. PICK w : Build(planned) = [action |-> side, entry |-> 100 * planned.quote,
                                         stop |-> 10 * x.stop, target1 |-> x.first,
                                         target2 |-> x.second, ratio |-> w]
          BY <1>3, Zenon DEF Planned
        <4>2. QED
          BY Zenon, <1>1, <2>2, <4>1
      <3>2. QED
        BY Zenon, <3>1
    <2>4. PICK m : m = Build(Mirror(planned))
      OBVIOUS
    <2>5. /\ m.action = TurnedSide(side) /\ m.entry = 100 * q
          /\ m.stop = 200 * q - 10 * x.stop /\ m.target1 = 200 * q - x.first
          /\ m.target2 = 200 * q - x.second /\ m.ratio = p.ratio
      <3>1. Turnable(planned, Build(planned))
        BY Zenon, <1>1, <2>1
      <3>2. PICK r \in Requests : r = planned
        OBVIOUS
      <3>3. PICK n : n = Mirror(r)
        OBVIOUS
      <3>4. /\ Build(n).action = TurnedSide(side) /\ Build(n).entry = 100 * r.quote
            /\ Build(n).stop = 200 * r.quote - 10 * x.stop
            /\ Build(n).target1 = 200 * r.quote - x.first
            /\ Build(n).target2 = 200 * r.quote - x.second
            /\ Build(n).ratio = Build(r).ratio
        BY <1>3, <3>1, <3>2, <3>3, MirrorBuilds
      <3>5. QED
        BY Zenon, <1>1, <2>2, <2>4, <3>2, <3>3, <3>4
    <2>6. 2 * (100 * q) = 200 * q
      OBVIOUS
    <2>7. \A y : Turned(y, p.entry) = 200 * q - y
      BY Zenon, <2>3, <2>6 DEF Turned
    <2>8. PICK t1, t2, t3 : /\ t1 = Turned(p.stop, p.entry) /\ t2 = Turned(p.target1, p.entry)
                            /\ t3 = Turned(p.target2, p.entry)
      OBVIOUS
    <2>9. t1 = 200 * q - p.stop /\ t2 = 200 * q - p.target1 /\ t3 = 200 * q - p.target2
      BY Zenon, <2>7, <2>8
    <2>10. m.stop = t1 /\ m.target1 = t2 /\ m.target2 = t3
      BY <2>3, <2>5, <2>9
    <2>11. m.stop = Turned(p.stop, p.entry) /\ m.target1 = Turned(p.target1, p.entry)
      BY Zenon, <2>8, <2>10
    <2>12. m.target2 = Turned(p.target2, p.entry)
      BY Zenon, <2>8, <2>10
    <2>13. m.action = TurnedSide(p.action) /\ m.entry = p.entry /\ m.ratio = p.ratio
      BY Zenon, <2>3, <2>5
    <2>14. QED
      BY Zenon, <2>4, <2>11, <2>12, <2>13
  <1>4. QED
    BY <1>1, <1>2, <1>3, BuildGives

(***************************************************************************)
(* The readiness gates.                                                    *)
(***************************************************************************)
\* The verdict is worked out from what the checklist shows.
LEMMA ChecklistMatches ==
    ASSUME environment \in EnvironmentSet, reported \in ReportSet
    PROVE  ReadyMatchesChecklist
  <1>1. PICK env, r : env = environment /\ r = reported
    OBVIOUS
  <1>2. PICK failed : failed = FailedItems(env, r)
    OBVIOUS
  <1>3. PICK blocked : blocked = Blocked(env, r)
    OBVIOUS
  <1>4. PICK level : level = Level(env, r)
    OBVIOUS
  <1>5. /\ r.paper \in BOOLEAN /\ r.shadow \in BOOLEAN /\ r.market \in BOOLEAN
        /\ r.kill \in {"none", "active", "inactive"} /\ r.audit \in {"none", "empty", "events"}
        /\ r.live \in {"none", "open", "blocked"}
        /\ r.mutation \in {"none", "open", "ordered", "blocked"}
        /\ r.broker \in {"none", "readonly", "mutating", "silent"}
    BY <1>1 DEF ReportSet
  <1>6. level = IF r.paper /\ blocked \cap PaperBlockers = {}
                THEN IF r.shadow THEN "SHADOW_READY" ELSE "PAPER_READY" ELSE "BLOCKED"
    BY <1>3, <1>4, <1>5 DEF Level, ShadowReady, PaperReady
  <1>7. blocked \cap PaperBlockers = {} <=>
           /\ ConfiguredMode(env) \in SafeModes /\ r.kill # "active"
           /\ r.audit = "events" /\ r.paper
    BY <1>3, <1>5 DEF Blocked, PaperBlockers
  <1>8. /\ "trading_mode_safe" \in failed <=> ConfiguredMode(env) \notin SafeModes
        /\ "paper_order_manager_available" \in failed <=> ~r.paper
        /\ "shadow_engine_available" \in failed <=> ~r.shadow
        /\ "persistent_kill_switch_readable" \in failed <=> r.kill = "none"
        /\ "kill_switch_inactive" \in failed <=> r.kill # "inactive"
        /\ "durable_audit_log_has_evidence" \in failed <=> r.audit # "events"
        /\ "live_trading_disabled" \in failed <=> LiveTradingEnabled(env)
        /\ "live_order_submit_blocked" \in failed <=> r.live # "blocked"
    BY <1>2 DEF FailedItems
  <1>9. failed \subseteq
           {"trading_mode_safe", "live_trading_disabled", "broker_read_only_health_available",
            "broker_mutation_disabled", "paper_order_manager_available",
            "shadow_engine_available", "persistent_kill_switch_readable",
            "kill_switch_inactive", "durable_audit_log_has_evidence",
            "live_order_submit_blocked", "broker_mutation_endpoint_blocked",
            "market_data_health_available"}
    BY <1>2 DEF FailedItems
  <1>10. level # "BLOCKED" =>
             failed \subseteq {"live_trading_disabled", "broker_read_only_health_available",
                               "broker_mutation_disabled", "shadow_engine_available",
                               "persistent_kill_switch_readable", "kill_switch_inactive",
                               "live_order_submit_blocked", "broker_mutation_endpoint_blocked",
                               "market_data_health_available"}
    <2>1. SUFFICES ASSUME level # "BLOCKED"
                   PROVE  {"trading_mode_safe", "paper_order_manager_available",
                           "durable_audit_log_has_evidence"} \cap failed = {}
      BY <1>9
    <2>2. ConfiguredMode(env) \in SafeModes /\ r.audit = "events" /\ r.paper
      BY <1>6, <1>7, <2>1
    <2>3. QED
      BY <1>8, <2>2
  <1>11. level # "BLOCKED" /\ "kill_switch_inactive" \in failed => r.kill = "none"
    BY <1>5, <1>6, <1>7, <1>8
  <1>12. level = "SHADOW_READY" => "shadow_engine_available" \notin failed
    BY <1>6, <1>8
  <1>13. level = "BLOCKED" => failed # {}
    BY <1>6, <1>7, <1>8
  <1>14. failed = {} => blocked \subseteq
            {"BROKER_MUTATION_NOT_DISABLED", "BROKER_MUTATION_NOT_BLOCKED"}
    <2>1. SUFFICES ASSUME failed = {}
                   PROVE  blocked \subseteq
                             {"BROKER_MUTATION_NOT_DISABLED", "BROKER_MUTATION_NOT_BLOCKED"}
      OBVIOUS
    <2>2. /\ ConfiguredMode(env) \in SafeModes /\ ~LiveTradingEnabled(env)
          /\ r.kill = "inactive" /\ r.audit = "events" /\ r.live = "blocked"
          /\ r.paper /\ r.shadow
      BY <1>5, <1>8, <2>1
    <2>3. QED
      BY <1>3, <2>2 DEF Blocked
  <1>15. QED
    BY Zenon, <1>1, <1>2, <1>3, <1>4, <1>10, <1>11, <1>12, <1>13, <1>14
    DEF ReadyMatchesChecklist

\* Live trading needs its four settings, and is never ready for paper.
LEMMA LiveNeedsAll ==
    ASSUME environment \in EnvironmentSet, reported \in ReportSet
    PROVE  LiveNeedsEverything
  <1>1. PICK env \in EnvironmentSet : env = environment
    OBVIOUS
  <1>2. LiveTradingEnabled(env)
           <=> env.requested = "LIVE_ENABLED" /\ env.live /\ env.broker /\ env.database
    BY <1>1 DEF LiveTradingEnabled, ConfiguredMode, KnownModes, EnvironmentSet
  <1>3. LiveTradingEnabled(env) => Level(env, reported) = "BLOCKED"
    <2>1. SUFFICES ASSUME LiveTradingEnabled(env) PROVE ~PaperReady(env, reported)
      BY DEF Level, ShadowReady
    <2>2. ConfiguredMode(env) \notin SafeModes
      BY <2>1 DEF LiveTradingEnabled, SafeModes
    <2>3. "UNSAFE_TRADING_MODE" \in Blocked(env, reported) \cap PaperBlockers
      BY <2>2 DEF Blocked, PaperBlockers
    <2>4. QED
      BY <2>3 DEF PaperReady
  <1>4. ConfiguredMode([env EXCEPT !.requested = ConfiguredMode(env)]) = ConfiguredMode(env)
    <2>1. PICK again : again = [env EXCEPT !.requested = ConfiguredMode(env)]
      OBVIOUS
    <2>2. /\ again.requested = ConfiguredMode(env) /\ again.live = env.live
          /\ again.broker = env.broker /\ again.database = env.database
      BY <2>1 DEF EnvironmentSet
    <2>3. ConfiguredMode(again) = ConfiguredMode(env)
      BY <2>2 DEF ConfiguredMode, KnownModes
    <2>4. QED
      BY <2>1, <2>3
  <1>5. RiskLimitsOf(env).quantity >= 0 /\ RiskLimitsOf(env).confidence \in 0 .. 100
    <2>1. PICK a \in Int : a = env.quantity
      BY DEF EnvironmentSet
    <2>2. PICK b \in Int : b = env.confidence
      BY DEF EnvironmentSet
    <2>3. Max({0, a}) >= 0
      <3>1. 0 \in Int
        OBVIOUS
      <3>2. QED
        BY ONLY a \in Int, <3>1, MaxOfTwo
    <2>4. Min({100, b}) \in Int /\ Min({100, b}) <= 100
      <3>1. 100 \in Int
        OBVIOUS
      <3>2. QED
        BY ONLY b \in Int, <3>1, MinOfTwo
    <2>5. PICK least \in Int : least = Min({100, b}) /\ least <= 100
      BY <2>4
    <2>6. Max({0, least}) \in 0 .. 100
      <3>1. Max({0, least}) \in Int /\ Max({0, least}) >= 0 /\ Max({0, least}) \in {0, least}
        BY MaxOfTwo
      <3>2. QED
        BY <2>5, <3>1
    <2>7. QED
      BY Zenon, <2>1, <2>2, <2>3, <2>5, <2>6 DEF RiskLimitsOf
  <1>6. QED
    BY Zenon, <1>1, <1>2, <1>3, <1>4, <1>5 DEF LiveNeedsEverything

(***************************************************************************)
(* The order desk decides on evidence of these kinds, and as planned.      *)
(***************************************************************************)
DecisionInv ==
    /\ plan = [decision |-> "NONE"] \/ (planned \in Requests /\ plan = Enriched(planned))
    /\ environment \in EnvironmentSet /\ reported \in ReportSet

\* Before the first decision there is none.
LEMMA DecisionStarts == Init => DecisionInv
  <1>1. GoodReport \in ReportSet
    BY DEF GoodReport, ReportSet
  <1>2. (CHOOSE e \in Environments : TRUE) \in EnvironmentSet
    BY ReadyAssumption
  <1>3. QED
    BY <1>1, <1>2 DEF Init, PlanInit, DecisionInv

\* A decision is made from the evidence in hand, and the other desks make none.
LEMMA DecisionStep == DecisionInv /\ [Next]_vars => DecisionInv'
  <1>1. SUFFICES ASSUME DecisionInv, [Next]_vars PROVE DecisionInv'
    OBVIOUS
  <1>2. CASE Plan /\ UNCHANGED readyVars
    <2>1. PICK r \in PlanRequests : planned' = r /\ plan' = Enriched(r)
      BY <1>2 DEF Plan
    <2>2. r \in Requests
      BY PlanAssumption DEF Requests
    <2>3. plan' = Enriched(planned')
      BY <2>1
    <2>4. environment' = environment /\ reported' = reported
      BY <1>2 DEF readyVars
    <2>5. QED
      BY <1>1, <2>1, <2>2, <2>3, <2>4 DEF DecisionInv
  <1>3. CASE EvaluateGates /\ UNCHANGED planVars
    <2>1. environment' \in EnvironmentSet /\ reported' \in ReportSet
      BY <1>3, ReadyAssumption DEF EvaluateGates
    <2>2. QED
      BY <1>1, <1>3, <2>1 DEF DecisionInv, planVars
  <1>4. CASE UNCHANGED <<planVars, readyVars>>
    BY <1>1, <1>4 DEF DecisionInv, planVars, readyVars
  <1>5. (Plan /\ UNCHANGED readyVars) \/ (EvaluateGates /\ UNCHANGED planVars)
        \/ UNCHANGED <<planVars, readyVars>>
    BY <1>1, Zenon DEF Next, vars, PlanNext, ReadyNext
  <1>6. QED
    BY <1>2, <1>3, <1>4, <1>5

\* For any candles, levels and votes a request may bring, and any environment and reports: a
\* plan of the order desk is complete, sound and the same for both sides, and the verdict on
\* a setup agrees with its checklist.
THEOREM DecisionsAreSound == Spec => []DecisionsSound
  <1>1. DecisionInv => DecisionsSound
    <2>1. SUFFICES ASSUME DecisionInv PROVE DecisionsSound
      OBVIOUS
    <2>2. environment \in EnvironmentSet /\ reported \in ReportSet
      BY <2>1 DEF DecisionInv
    <2>3. ReadyMatchesChecklist /\ LiveNeedsEverything
      BY <2>2, ChecklistMatches, LiveNeedsAll
    <2>4. CASE plan = [decision |-> "NONE"]
      <3>1. plan.decision \notin {"BUY", "SELL", "NO_TRADE", "DATA_UNAVAILABLE"}
        BY <2>4
      <3>2. PlanSound /\ PlanMirrors
        BY <3>1 DEF PlanSound, PlanMirrors
      <3>3. QED
        BY <2>3, <3>2 DEF DecisionsSound
    <2>5. CASE planned \in Requests /\ plan = Enriched(planned)
      BY <2>3, <2>5, BuiltIsSound, BuiltMirrors DEF DecisionsSound
    <2>6. QED
      BY <2>1, <2>4, <2>5 DEF DecisionInv
  <1>2. QED
    BY <1>1, DecisionStarts, DecisionStep, PTL DEF Spec

(***************************************************************************)
(* The live submit.                                                        *)
(***************************************************************************)
AllReasons ==
    {"credentials", "token", "user", "instruments", "live", "manual", "kill", "exchange", "side",
     "type", "product", "quantity", "most", "price", "symbol", "no client", "no margin", "margin"}
    \cup {m.reason : m \in Margins}

PreviewSet == [order : LiveOrders, margin : Margins, reasons : SUBSET AllReasons]

Submit(id, c) == [id |-> id, confirm |-> c, reasons |-> SubmitReasons(id, c)]

\* What is kept of a preview is what the settings of now say of it.
PreviewsCurrent ==
    \A id \in DOMAIN previews :
        /\ OrderReasons(previews[id].order) \subseteq previews[id].reasons
        /\ MarginReasons(previews[id].margin) \subseteq previews[id].reasons

SubmitCurrent == submitted = <<>> \/ \E id, c : submitted = <<Submit(id, c)>>

TerminalInvariant ==
    /\ settings \in Settings /\ previews \in Seq(PreviewSet)
    /\ PreviewsCurrent /\ SubmitCurrent

\* A new preview carries known reasons only.
LEMMA PreviewOfType ==
  ASSUME NEW o \in LiveOrders, NEW m \in Margins
  PROVE  PreviewOf(o, m) \in PreviewSet
  <1>1. ReadinessReasons \subseteq AllReasons
    BY DEF ReadinessReasons, AllReasons
  <1>2. OrderReasons(o) \subseteq AllReasons
    BY DEF OrderReasons, AllReasons
  <1>3. MarginReasons(m) \subseteq AllReasons
    BY DEF MarginReasons, AllReasons
  <1>4. QED
    BY <1>1, <1>2, <1>3 DEF PreviewOf, PreviewSet

\* A kept preview's order and margin are among those that can be asked for and answered.
LEMMA PreviewType ==
  ASSUME TerminalInvariant, NEW id \in DOMAIN previews
  PROVE  previews[id].order \in LiveOrders /\ previews[id].margin \in Margins
  <1>1. previews \in Seq(PreviewSet)
    BY DEF TerminalInvariant
  <1>2. id \in 1 .. Len(previews)
    BY <1>1
  <1>3. previews[id] \in PreviewSet
    BY <1>1, <1>2, ElementOfSeq
  <1>4. QED
    BY <1>3 DEF PreviewSet

\* The reasons of a submit look at nothing that an unchanged state could tell apart.
LEMMA SubmitUnchanged ==
  ASSUME UNCHANGED <<settings, instrumentFile, webKill, previews>>, NEW id, NEW c
  PROVE  Submit(id, c)' = Submit(id, c)
  BY DEF Submit, SubmitReasons, ReadinessReasons, KillSwitchActive

\* Old previews stay true to settings that do not change.
LEMMA PreviewsUnchanged ==
  ASSUME PreviewsCurrent, UNCHANGED <<settings, previews>>
  PROVE  PreviewsCurrent'
  BY ZenonT(40) DEF PreviewsCurrent, OrderReasons, MarginReasons

\* Every request, switch, file change and restart keeps the invariant.
LEMMA TerminalStep == TerminalInvariant /\ [LiveTerminalNext]_liveTerminalVars => TerminalInvariant'
  <1> SUFFICES ASSUME TerminalInvariant, [LiveTerminalNext]_liveTerminalVars
               PROVE  TerminalInvariant'
    OBVIOUS
  <1>1. CASE PreviewLiveOrder
    <2>1. PICK o \in LiveOrders, m \in Margins : previews' = Append(previews, PreviewOf(o, m))
      BY <1>1 DEF PreviewLiveOrder
    <2>2. settings' = settings /\ submitted' = <<>>
      BY <1>1 DEF PreviewLiveOrder
    <2>3. PreviewOf(o, m) \in PreviewSet /\ previews \in Seq(PreviewSet)
      BY PreviewOfType DEF TerminalInvariant
    <2>4. previews' \in Seq(PreviewSet)
      BY <2>1, <2>3
    <2>5. PreviewsCurrent'
      <3> SUFFICES ASSUME NEW id \in DOMAIN previews'
                   PROVE  /\ OrderReasons(previews'[id].order) \subseteq previews'[id].reasons
                          /\ MarginReasons(previews'[id].margin) \subseteq previews'[id].reasons
        BY ZenonT(40), <2>2 DEF PreviewsCurrent, OrderReasons, MarginReasons
      <3>1. CASE id \in DOMAIN previews
        <4>1. previews'[id] = previews[id]
          BY <2>1, <2>3, <3>1
        <4>2. QED
          BY <3>1, <4>1 DEF TerminalInvariant, PreviewsCurrent
      <3>2. CASE id \notin DOMAIN previews
        <4>1. previews'[id] = PreviewOf(o, m)
          BY <2>1, <2>3, <3>2
        <4>2. QED
          BY <4>1 DEF PreviewOf
      <3>3. QED
        BY <3>1, <3>2
    <2>6. QED
      BY <2>2, <2>4, <2>5 DEF TerminalInvariant, SubmitCurrent
  <1>2. CASE SubmitLiveOrder
    <2>1. UNCHANGED <<settings, instrumentFile, webKill, previews>>
      BY <1>2 DEF SubmitLiveOrder
    <2>2. PICK id, c : submitted' = <<Submit(id, c)>>
      BY <1>2 DEF SubmitLiveOrder, Submit
    <2>3. SubmitCurrent'
      BY <2>1, <2>2, SubmitUnchanged DEF SubmitCurrent
    <2>4. QED
      BY <2>1, <2>3, PreviewsUnchanged DEF TerminalInvariant
  <1>3. CASE SetWebKill \/ InstrumentsChange
    BY <1>3, PreviewsUnchanged DEF TerminalInvariant, SetWebKill, InstrumentsChange, SubmitCurrent
  <1>4. CASE ServerRestarts
    <2>1. settings' \in Settings /\ previews' = <<>> /\ submitted' = <<>>
      BY <1>4 DEF ServerRestarts
    <2>2. DOMAIN previews' = {} /\ previews' \in Seq(PreviewSet)
      BY <2>1
    <2>3. QED
      BY <2>1, <2>2 DEF TerminalInvariant, PreviewsCurrent, SubmitCurrent
  <1>5. CASE UNCHANGED liveTerminalVars
    <2>1. UNCHANGED <<settings, instrumentFile, webKill, previews, submitted>>
      BY <1>5 DEF liveTerminalVars
    <2>2. SubmitCurrent'
      BY <2>1, SubmitUnchanged DEF TerminalInvariant, SubmitCurrent
    <2>3. QED
      BY <2>1, <2>2, PreviewsUnchanged DEF TerminalInvariant
  <1>6. QED
    BY <1>1, <1>2, <1>3, <1>4, <1>5 DEF LiveTerminalNext

\* What a preview and the last submit rest on is what is in force.
THEOREM TerminalInvariantHolds == LiveTerminalSpec => []TerminalInvariant
  <1>1. LiveTerminalInit => TerminalInvariant
    BY DEF LiveTerminalInit, TerminalInvariant, PreviewsCurrent, SubmitCurrent
  <1>2. QED
    BY <1>1, TerminalStep, PTL DEF LiveTerminalSpec

\* A submit with no reason left is of an order this process found in order, ready then and now.
THEOREM RefusalIsDeliberate == LiveTerminalSpec => []OnlyRefusalRemains
  <1>1. TerminalInvariant => OnlyRefusalRemains
    <2> SUFFICES ASSUME TerminalInvariant, submitted # <<>>, submitted[1].reasons = {}
                 PROVE  LET id == submitted[1].id
                        IN /\ id \in DOMAIN previews
                           /\ submitted[1].confirm.typed /\ submitted[1].confirm.approval
                           /\ settings.submit /\ settings.live /\ settings.manual
                           /\ ~settings.kill /\ ~webKill /\ instrumentFile
                           /\ LET o == previews[id].order
                              IN o.symbol \in settings.whitelist /\ o.quantity \in 1 .. settings.most
      BY DEF OnlyRefusalRemains
    <2>1. PICK id, c : submitted = <<Submit(id, c)>>
      BY DEF TerminalInvariant, SubmitCurrent
    <2>2. submitted[1].id = id /\ submitted[1].confirm = c /\ SubmitReasons(id, c) = {}
      BY <2>1 DEF Submit
    <2>3. id \in DOMAIN previews /\ c.typed /\ c.approval /\ settings.submit
      BY <2>2 DEF SubmitReasons
    <2>4. ReadinessReasons = {} /\ previews[id].reasons = {}
      BY <2>2, <2>3 DEF SubmitReasons
    <2>5. settings.live /\ settings.manual /\ ~settings.kill /\ ~webKill /\ instrumentFile
      BY <2>4 DEF ReadinessReasons, KillSwitchActive
    <2>6. OrderReasons(previews[id].order) = {}
      BY <2>3, <2>4 DEF TerminalInvariant, PreviewsCurrent
    <2>7. previews[id].order \in LiveOrders /\ settings \in Settings
      BY <2>3, PreviewType DEF TerminalInvariant
    <2> DEFINE o == previews[id].order
    <2> HIDE DEF o
    <2>8. o.symbol \in settings.whitelist /\ ~(o.quantity < 1) /\ ~(o.quantity > settings.most)
      BY <2>6 DEF OrderReasons, o
    <2>9. o.quantity \in 1 .. settings.most
      BY <2>7, <2>8, NumbersAssumption DEF o
    <2>10. QED
      BY <2>2, <2>3, <2>5, <2>8, <2>9 DEF o
  <1>2. QED
    BY <1>1, TerminalInvariantHolds, PTL

\* No event between a preview and its submit clears what stood against the preview.
THEOREM BlockedPreviewsStay == LiveTerminalSpec => []BlockedStaysBlocked
  <1>1. TerminalInvariant => BlockedStaysBlocked
    <2> SUFFICES ASSUME TerminalInvariant, submitted # <<>>, submitted[1].id \in DOMAIN previews
                 PROVE  previews[submitted[1].id].reasons \subseteq submitted[1].reasons
      BY DEF BlockedStaysBlocked
    <2>1. PICK id, c : submitted = <<Submit(id, c)>>
      BY DEF TerminalInvariant, SubmitCurrent
    <2>2. submitted[1].id = id /\ submitted[1].reasons = SubmitReasons(id, c)
      BY <2>1 DEF Submit
    <2>3. QED
      BY <2>2 DEF SubmitReasons
  <1>2. QED
    BY <1>1, TerminalInvariantHolds, PTL

\* A clean preview rests on figures of the broker that cover the order.
THEOREM CleanPreviewsAreCovered == LiveTerminalSpec => []CleanPreviewIsCovered
  <1>1. TerminalInvariant => CleanPreviewIsCovered
    <2> SUFFICES ASSUME TerminalInvariant, NEW id \in DOMAIN previews, previews[id].reasons = {}
                 PROVE  LET m == previews[id].margin
                        IN /\ m.reason = "none" /\ NoNumber \notin {m.required, m.available}
                           /\ NaN \notin {m.required, m.available} => m.required <= m.available
      BY DEF CleanPreviewIsCovered
    <2> DEFINE m == previews[id].margin
    <2>1. m \in Margins
      BY PreviewType
    <2>2. MarginReasons(m) = {}
      BY DEF TerminalInvariant, PreviewsCurrent
    <2> HIDE DEF m
    <2>3. /\ m.reason = "none" /\ m.required # NoNumber /\ m.available # NoNumber
          /\ ~Below(m.available, m.required)
      BY <2>2 DEF MarginReasons
    <2>4. NaN \notin {m.required, m.available} => m.required <= m.available
      BY <2>1, <2>3, NumbersAssumption DEF Below
    <2>5. QED
      BY <2>3, <2>4 DEF m
  <1>2. QED
    BY <1>1, TerminalInvariantHolds, PTL

\* Previews and submits together, for all orders, settings and figures of the broker.
THEOREM PreviewsAreSound == LiveTerminalSpec => []PreviewsSound
  BY RefusalIsDeliberate, BlockedPreviewsStay, CleanPreviewsAreCovered, PTL DEF PreviewsSound
=============================================================================
