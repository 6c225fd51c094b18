---------------------------- MODULE Grid_proofs ----------------------------
(***************************************************************************)
(* Proofs about the two simulations of the futures grid.  First grids on a *)
(* shared account, for any number of symbols, any bars and regime          *)
(* verdicts, any leverage, margins, fees and rates, and each of the exit   *)
(* variants; then single sessions, for any configurations and candles.     *)
(*                                                                         *)
(* THE ACCOUNT.  Every operation on it changes the inventory and margin of *)
(* one symbol, so the sums over the symbols change by one summand.  The    *)
(* cost of an inventory has the sign of its quantity: otherwise an         *)
(* inventory that is closed would leave a cost behind.                     *)
(*                                                                         *)
(* THE TURNS.  A turn is a composition of operators on a world, which is   *)
(* account, grids and records; each of them keeps what the world promises  *)
(* of the symbol in turn, and leaves the other symbols alone.              *)
(*                                                                         *)
(* THE SESSIONS.  Prices rise with the levels, so a leg meets the highest  *)
(* buys or the lowest sells and leaves the orders a ladder around its end. *)
(* Every event moves the wallet by what it says, so the books close event  *)
(* by event.  What is due is looked at where the price moves; on a candle  *)
(* that stands still only the funding has changed anything.                *)
(***************************************************************************)
EXTENDS MCGrid, FiniteSetTheorems, Sums_proofs

-----------------------------------------------------------------------------
(* What an account promises                                                *)

Inventory == [qty : Int, cost : Int]

Snapshots == [equity : Int, margin : Int, available : Int, active : Nat, notional : Int,
              drawdown : Int]

Accounts == [wallet : Int, peak : Nat \ {0}, drawdown : Int, bankrupt : BOOLEAN,
             liquidations : Nat, makerFees : Int, takerFees : Int, profit : Int, churn : Int,
             history : Seq(Snapshots), traded : Int, turned : BOOLEAN,
             inv : [Symbols -> Inventory], margin : [Symbols -> Nat]]

\* Cost has the sign of the quantity: none without a quantity.
Signed(inv) == (inv.qty >= 0 => inv.cost >= 0) /\ (inv.qty <= 0 => inv.cost <= 0)

Costs(inv) == [s \in Symbols |-> inv[s].cost]

Booked(a) ==
    ~a.turned /\ ~a.bankrupt =>
        a.wallet = InitialCapital + a.traded + Total(Costs(a.inv))

\* The drawdown is the deepest one recorded, and none before the first bar.
Deepest(a) ==
    ~a.bankrupt =>
        /\ \A k \in DOMAIN a.history : a.history[k].drawdown <= a.drawdown
        /\ \/ a.history = <<>> /\ a.drawdown = 0
           \/ \E k \in DOMAIN a.history : a.history[k].drawdown = a.drawdown

Ended(a) ==
    /\ ~a.bankrupt => a.liquidations = 0
    /\ a.bankrupt => a.liquidations = 1 /\ a.wallet >= 0 /\ \A s \in Symbols : a.inv[s] = Flat

AccountOk(a) ==
    /\ a \in Accounts
    /\ \A s \in Symbols : Signed(a.inv[s])
    /\ Booked(a)
    /\ Deepest(a)
    /\ Ended(a)

-----------------------------------------------------------------------------
(* Sums over the symbols                                                   *)

\* Every symbol has one place in Order.
LEMMA Places ==
    /\ Len(Order) \in Nat \ {0}
    /\ \A i \in 1 .. Len(Order) : Order[i] \in Symbols
    /\ \A s \in Symbols : \E i \in 1 .. Len(Order) : Order[i] = s
<1>1. Order \in Seq(Symbols) /\ Order # <<>>
  BY AccountAssumption
<1>2. Len(Order) \in Nat \ {0} /\ DOMAIN Order = 1 .. Len(Order)
  BY <1>1
<1> QED
  BY <1>2 DEF Symbols, Range

LEMMA TotalInt ==
    ASSUME NEW w, \A s \in Symbols : w[s] \in Int
    PROVE  Total(w) \in Int
<1> DEFINE v == [i \in 1 .. Len(Order) |-> w[Order[i]]]
<1>1. \A i \in 1 .. Len(Order) : v[i] \in Int
  BY Places
<1> HIDE DEF v
<1>2. SumTo(v, Len(Order)) \in Int
  BY <1>1, Places, SumToInt
<1> QED
  BY <1>2 DEF Total, v

LEMMA TotalAgree ==
    ASSUME NEW w, NEW v, \A s \in Symbols : w[s] = v[s]
    PROVE  Total(w) = Total(v)
<1> DEFINE f(u) == [i \in 1 .. Len(Order) |-> u[Order[i]]]
<1>1. \A i \in 1 .. Len(Order) : f(w)[i] = f(v)[i]
  BY Places
<1>2. Total(w) = SumTo(f(w), Len(Order)) /\ Total(v) = SumTo(f(v), Len(Order))
  BY DEF Total
<1> HIDE DEF f
<1> QED
  BY <1>1, <1>2, Places, SumToAgree

\* What one symbol adds is replaced.
LEMMA TotalReplace ==
    ASSUME NEW old, NEW new, NEW s \in Symbols,
           \A x \in Symbols : old[x] \in Int /\ new[x] \in Int,
           \A x \in Symbols \ {s} : new[x] = old[x]
    PROVE  Total(new) = Total(old) - old[s] + new[s]
<1>0. PICK n \in Nat : n = Len(Order)
  BY Places
<1>1. PICK k \in 1 .. n : Order[k] = s
  BY <1>0, Places
<1>2. PICK f, g : f = [i \in 1 .. n |-> old[Order[i]]] /\ g = [i \in 1 .. n |-> new[Order[i]]]
  OBVIOUS
<1>3. \A i \in 1 .. n : f[i] \in Int /\ g[i] \in Int
  BY <1>0, <1>2, Places
<1>4. \A i \in 1 .. n : i # k => g[i] = f[i]
  <2> SUFFICES ASSUME NEW i \in 1 .. n, i # k
               PROVE  new[Order[i]] = old[Order[i]]
    BY <1>2
  <2>1. Order[i] \in Symbols /\ Order[i] # s
    BY <1>0, <1>1, Places, AccountAssumption
  <2> QED
    BY <2>1
<1>5. SumTo(g, n) = SumTo(f, n) - f[k] + g[k]
  BY <1>3, <1>4, SumToReplace
<1>6. Total(old) = SumTo(f, n) /\ Total(new) = SumTo(g, n)
  BY <1>0, <1>2 DEF Total
<1> QED
  BY <1>1, <1>2, <1>5, <1>6

-----------------------------------------------------------------------------
(* Amounts                                                                 *)

LEMMA RatedInt ==
    ASSUME NEW m \in Int, NEW r \in Int
    PROVE  Rated(m, r) \in Int
<1>1. PICK x \in Int : x = m * r
  OBVIOUS
<1> QED
  BY <1>1 DEF Rated, Thousand

LEMMA RatesAreInt ==
    /\ MakerFee \in Int /\ TakerFee \in Int /\ Slippage \in Int
    /\ MaintenanceRate \in Int /\ LiquidationFee \in Int
    /\ TakerFee + LiquidationFee \in Int
BY AccountAssumption

LEMMA ValuesInt ==
    ASSUME NEW inv \in Inventory, NEW price \in Int
    PROVE  /\ inv.qty \in Int /\ inv.cost \in Int
           /\ Unrealized(inv, price) \in Int
           /\ Notional(inv, price) \in Int
           /\ SlippedValue(inv, price, Slippage) \in Int
           /\ ExitPnl(inv, price, Slippage) = SlippedValue(inv, price, Slippage) - inv.cost
<1>1. inv.qty \in Int /\ inv.cost \in Int
  BY DEF Inventory
<1>2. PICK q \in Int : q = inv.qty * price
  BY <1>1
<1>3. Magnitude(inv.qty) \in Int
  BY <1>1 DEF Magnitude
<1>4. Notional(inv, price) \in Int
  BY <1>3 DEF Notional
<1>5. Rated(Notional(inv, price), Slippage) \in Int
  BY <1>4, RatedInt, RatesAreInt
<1> QED
  BY <1>1, <1>2, <1>4, <1>5 DEF Unrealized, SlippedValue, ExitPnl

\* A share of at most the whole is at most the whole.
LEMMA ShareBounds ==
    ASSUME NEW c \in Nat, NEW u \in Nat, NEW q \in Nat \ {0}, u <= q
    PROVE  /\ (c * u) \div q \in 0 .. c
           /\ u = q => (c * u) \div q = c
<1>1. PICK x \in Nat : x = c * u
  OBVIOUS
<1>2. PICK y \in Nat : y = c * q
  OBVIOUS
<1>3. x <= y
  <2>1. c * u <= c * q
    OBVIOUS
  <2> QED BY <1>1, <1>2, <2>1
<1>4. PICK d \in Int : d = x \div q
  OBVIOUS
<1>5. d * q <= x /\ x < (d + 1) * q
  BY <1>4
<1>6. d >= 0
  <2> SUFFICES ASSUME d + 1 <= 0 PROVE FALSE
    OBVIOUS
  <2>1. (d + 1) * q <= 0
    OBVIOUS
  <2> QED BY <1>5, <2>1
<1>7. d <= c
  <2> SUFFICES ASSUME d >= c + 1 PROVE FALSE
    OBVIOUS
  <2>1. d * q >= (c + 1) * q
    OBVIOUS
  <2>2. (c + 1) * q = y + q
    BY <1>2
  <2> QED BY <1>3, <1>5, <2>1, <2>2
<1>8. u = q => d = c
  <2> SUFFICES ASSUME u = q, d < c PROVE FALSE
    BY <1>7
  <2>1. (d + 1) * q <= c * q
    OBVIOUS
  <2> QED BY <1>1, <1>5, <2>1
<1> QED
  BY <1>1, <1>4, <1>6, <1>7, <1>8

LEMMA CarriedBounds ==
    ASSUME NEW inv \in Inventory, NEW u \in Nat, inv.qty # 0
    PROVE  /\ Carried(inv, u) \in Int
           /\ u <= Magnitude(inv.qty) /\ inv.qty > 0 =>
                 Carried(inv, u) \in 0 .. Magnitude(inv.cost)
           /\ u <= Magnitude(inv.qty) /\ inv.qty < 0 =>
                 -Carried(inv, u) \in 0 .. Magnitude(inv.cost)
           /\ u = Magnitude(inv.qty) =>
                 Carried(inv, u) = IF inv.qty < 0 THEN -Magnitude(inv.cost) ELSE Magnitude(inv.cost)
<1>1. inv.qty \in Int /\ inv.cost \in Int
  BY DEF Inventory
<1>2. PICK q \in Nat \ {0} : q = Magnitude(inv.qty)
  BY <1>1 DEF Magnitude
<1>3. PICK c \in Nat : c = Magnitude(inv.cost)
  BY <1>1 DEF Magnitude
<1>4. PICK m \in Nat : m = c * u
  OBVIOUS
<1>5. PICK d \in Int : d = m \div q
  OBVIOUS
<1>6. Carried(inv, u) = IF inv.qty < 0 THEN -d ELSE d
  BY <1>2, <1>3, <1>4, <1>5 DEF Carried
<1>7. u <= q => d \in 0 .. c /\ (u = q => d = c)
  BY <1>4, <1>5, ShareBounds
<1> QED
  BY <1>1, <1>2, <1>3, <1>6, <1>7

\* A trade leaves the cost on the side of the quantity.
LEMMA TradedSigned ==
    ASSUME NEW inv \in Inventory, Signed(inv), NEW d \in Int, NEW price \in Nat
    PROVE  /\ Traded(inv, d, price) \in Inventory
           /\ Signed(Traded(inv, d, price))
           /\ Realized(inv, d, price) \in Int
           /\ ~Flips(inv, d) =>
                 Realized(inv, d, price)
                   = Traded(inv, d, price).cost - inv.cost - d * price
<1>1. inv.qty \in Int /\ inv.cost \in Int
  BY DEF Inventory
<1> DEFINE new == inv.qty + d
<1>2. Traded(inv, d, price).qty = new /\ new \in Int
  BY <1>1 DEF Traded
<1>3. PICK worth \in Int : worth = d * price
  OBVIOUS
<1>4. (d >= 0 => worth >= 0) /\ (d <= 0 => worth <= 0)
  BY <1>3
<1>5. Adds(inv, d) <=> (inv.qty >= 0 /\ d >= 0) \/ (inv.qty <= 0 /\ d <= 0)
                          \/ inv.qty = 0 \/ d = 0
  BY <1>1 DEF Adds
<1>6. Flips(inv, d) <=> (inv.qty > 0 /\ new < 0) \/ (inv.qty < 0 /\ new > 0)
  BY <1>1 DEF Flips
<1>7. CASE Adds(inv, d)
  <2>1. Traded(inv, d, price) = [qty |-> new, cost |-> inv.cost + worth]
    BY <1>3, <1>7 DEF Traded
  <2>2. Realized(inv, d, price) = 0
    BY <1>7 DEF Realized
  <2>3. inv.cost + worth \in Int
    BY <1>1
  <2>4. (new >= 0 => inv.cost + worth >= 0) /\ (new <= 0 => inv.cost + worth <= 0)
    BY <1>1, <1>4, <1>5, <1>7 DEF Signed
  <2> QED
    BY <1>1, <1>2, <1>3, <2>1, <2>2, <2>3, <2>4 DEF Inventory, Signed
<1>8. CASE ~Adds(inv, d)
  <2>1. inv.qty # 0 /\ d # 0
    BY <1>5, <1>8
  <2>2. PICK u \in Nat : u = Magnitude(d)
    BY DEF Magnitude
  <2>3. PICK k \in Int : k = Carried(inv, u)
    BY <2>1, CarriedBounds
  <2>4. Realized(inv, d, price) = -worth - k
    BY <1>3, <1>8, <2>2, <2>3 DEF Realized
  <2>5. CASE Flips(inv, d)
    <3>1. PICK cost \in Int : cost = new * price
      BY <1>2
    <3>2. (new >= 0 => cost >= 0) /\ (new <= 0 => cost <= 0)
      BY <1>2, <3>1
    <3>3. Traded(inv, d, price) = [qty |-> new, cost |-> cost]
      BY <1>8, <2>5, <3>1 DEF Traded
    <3> QED
      BY <1>2, <2>4, <2>5, <3>2, <3>3 DEF Inventory, Signed
  <2>6. CASE ~Flips(inv, d)
    <3>1. Traded(inv, d, price) = [qty |-> new, cost |-> inv.cost - k]
      BY <1>8, <2>2, <2>3, <2>6 DEF Traded
    <3>2. CASE inv.qty > 0
      <4>1. d < 0 /\ new >= 0 /\ u = -d /\ u <= inv.qty /\ (new = 0 => u = inv.qty)
        BY <1>1, <1>5, <1>6, <1>8, <2>2, <2>6, <3>2 DEF Magnitude
      <4>2. Magnitude(inv.qty) = inv.qty /\ Magnitude(inv.cost) = inv.cost
        BY <1>1, <3>2 DEF Magnitude, Signed
      <4>3. k \in 0 .. inv.cost /\ (new = 0 => k = inv.cost)
        BY <2>1, <2>3, <3>2, <4>1, <4>2, CarriedBounds
      <4> QED
        BY <1>1, <1>2, <1>3, <2>4, <3>1, <4>1, <4>3 DEF Inventory, Signed
    <3>3. CASE inv.qty < 0
      <4>1. d > 0 /\ new <= 0 /\ u = d /\ u <= -inv.qty /\ (new = 0 => u = -inv.qty)
        BY <1>1, <1>5, <1>6, <1>8, <2>2, <2>6, <3>3 DEF Magnitude
      <4>2. Magnitude(inv.qty) = -inv.qty /\ Magnitude(inv.cost) = -inv.cost
        BY <1>1, <3>3 DEF Magnitude, Signed
      <4>3. -k \in 0 .. -inv.cost /\ (new = 0 => k = inv.cost)
        BY <1>1, <2>1, <2>3, <3>3, <4>1, <4>2, CarriedBounds
      <4> QED
        BY <1>1, <1>2, <1>3, <2>4, <3>1, <4>1, <4>3 DEF Inventory, Signed
    <3> QED
      BY <1>1, <2>1, <3>2, <3>3
  <2> QED
    BY <2>5, <2>6
<1> QED
  BY <1>7, <1>8

-----------------------------------------------------------------------------
(* Operations on the inventory and the margin of one symbol                *)

\* What only the end of a bar changes.
Untouched(a, b) ==
    /\ b.peak = a.peak /\ b.drawdown = a.drawdown /\ b.history = a.history
    /\ b.bankrupt = a.bankrupt /\ b.liquidations = a.liquidations

\* All symbols but one are what they were.
Apart(a, b, s) ==
    \A x \in Symbols \ {s} : b.inv[x] = a.inv[x] /\ b.margin[x] = a.margin[x]

\* An account whose wallet moves by what it traded and what it holds at cost.
LEMMA InventoryChange ==
    ASSUME NEW a, AccountOk(a), NEW b \in Accounts, NEW s \in Symbols,
           Untouched(a, b), Apart(a, b, s), Signed(b.inv[s]),
           \/ /\ b.inv[s] = a.inv[s] /\ b.wallet = a.wallet
              /\ b.traded = a.traded /\ b.turned = a.turned
           \/ /\ ~a.bankrupt
              /\ ~b.turned =>
                    /\ ~a.turned
                    /\ b.wallet - b.traded - b.inv[s].cost = a.wallet - a.traded - a.inv[s].cost
    PROVE  AccountOk(b)
<1>1. a \in Accounts
  BY DEF AccountOk
<1>2. \A x \in Symbols : Signed(b.inv[x])
  BY DEF AccountOk, Apart
<1>3. Deepest(b)
  BY DEF AccountOk, Deepest, Untouched
<1>4. Ended(b)
  BY DEF AccountOk, Ended, Untouched, Apart
<1>5. Booked(b)
  <2> SUFFICES ASSUME ~b.turned, ~b.bankrupt
               PROVE  b.wallet = InitialCapital + b.traded + Total(Costs(b.inv))
    BY DEF Booked
  <2>1. /\ a.wallet \in Int /\ a.traded \in Int /\ b.wallet \in Int /\ b.traded \in Int
        /\ a.inv \in [Symbols -> Inventory] /\ b.inv \in [Symbols -> Inventory]
    BY <1>1 DEF Accounts
  <2>2. \A x \in Symbols : /\ Costs(a.inv)[x] = a.inv[x].cost /\ Costs(b.inv)[x] = b.inv[x].cost
                           /\ a.inv[x].cost \in Int /\ b.inv[x].cost \in Int
    BY <2>1 DEF Costs, Inventory
  <2>3. \A x \in Symbols \ {s} : Costs(b.inv)[x] = Costs(a.inv)[x]
    BY <2>2 DEF Apart
  <2>4. Total(Costs(b.inv)) = Total(Costs(a.inv)) - a.inv[s].cost + b.inv[s].cost
    <3>1. PICK old, new : old = Costs(a.inv) /\ new = Costs(b.inv)
      OBVIOUS
    <3>2. \A x \in Symbols : old[x] \in Int /\ new[x] \in Int
      BY <2>2, <3>1
    <3>3. \A x \in Symbols \ {s} : new[x] = old[x]
      BY <2>3, <3>1
    <3>4. Total(new) = Total(old) - old[s] + new[s]
      BY <3>2, <3>3, TotalReplace
    <3> QED
      BY <2>2, <3>1, <3>4
  <2>5. Total(Costs(a.inv)) \in Int
    BY <2>2, TotalInt
  <2>6. ~a.turned /\ ~a.bankrupt
    BY DEF Untouched
  <2>7. a.wallet = InitialCapital + a.traded + Total(Costs(a.inv))
    BY <2>6 DEF AccountOk, Booked
  <2>8. InitialCapital \in Int /\ a.inv[s].cost \in Int /\ b.inv[s].cost \in Int
    BY <2>2, AccountAssumption
  <2>9. b.wallet - b.traded - b.inv[s].cost = a.wallet - a.traded - a.inv[s].cost
    OBVIOUS
  <2>10. PICK old, new, sum \in Int :
            old = a.inv[s].cost /\ new = b.inv[s].cost /\ sum = Total(Costs(a.inv))
    BY <2>5, <2>8
  <2>11. Total(Costs(b.inv)) = sum - old + new
    BY <2>4, <2>10
  <2>12. PICK w, t, v, u \in Int :
            w = a.wallet /\ t = a.traded /\ v = b.wallet /\ u = b.traded
    BY <2>1
  <2>13. v - u - new = w - t - old /\ w = InitialCapital + t + sum
    BY <2>7, <2>9, <2>10, <2>12
  <2>14. v = InitialCapital + u + (sum - old + new)
    <3>1. PICK k \in Int : k = InitialCapital
      BY <2>8
    <3>2. v - u - new = w - t - old
      BY <2>13
    <3>3. w = k + t + sum
      BY <2>13, <3>1
    <3>4. v = k + u + (sum - old + new)
      BY <3>2, <3>3
    <3> QED BY <3>1, <3>4
  <2> QED
    BY <2>11, <2>12, <2>14
<1> QED
  BY <1>2, <1>3, <1>4, <1>5 DEF AccountOk

LEMMA ReleaseMarginOk ==
    ASSUME NEW a, AccountOk(a), NEW s \in Symbols, NEW b, b = ReleaseMargin(a, s)
    PROVE  /\ AccountOk(b) /\ Untouched(a, b) /\ Apart(a, b, s)
           /\ b.inv[s] = a.inv[s] /\ b.margin[s] = 0
<1>1. a \in Accounts /\ Signed(a.inv[s])
  BY DEF AccountOk
<1>2. b \in Accounts
  BY <1>1 DEF Accounts, ReleaseMargin
<1>3. /\ b.inv = a.inv /\ b.wallet = a.wallet /\ b.traded = a.traded /\ b.turned = a.turned
      /\ b.margin = [a.margin EXCEPT ![s] = 0]
      /\ Untouched(a, b)
  BY <1>1 DEF Accounts, ReleaseMargin, Untouched
<1>4. Apart(a, b, s) /\ b.margin[s] = 0
  BY <1>1, <1>3 DEF Apart, Accounts
<1> QED
  BY <1>1, <1>2, <1>3, <1>4, InventoryChange

LEMMA AllocateMarginOk ==
    ASSUME NEW a, AccountOk(a), NEW s \in Symbols, NEW amount \in Nat,
           NEW b, b = AllocateMargin(a, s, amount)
    PROVE  /\ AccountOk(b) /\ Untouched(a, b) /\ Apart(a, b, s)
           /\ b.wallet = a.wallet /\ b.inv = a.inv
           /\ b.margin[s] = a.margin[s] + amount
           /\ MarginAllocated(b) = MarginAllocated(a) + amount
           /\ MarginAllocated(a) \in Int
<1>1. a \in Accounts /\ Signed(a.inv[s])
  BY DEF AccountOk
<1>2. a.margin \in [Symbols -> Nat] /\ a.margin[s] + amount \in Nat
  BY <1>1 DEF Accounts
<1>3. b \in Accounts
  BY <1>1, <1>2 DEF Accounts, AllocateMargin
<1>4. /\ b.inv = a.inv /\ b.wallet = a.wallet /\ b.traded = a.traded /\ b.turned = a.turned
      /\ b.margin = [a.margin EXCEPT ![s] = a.margin[s] + amount]
      /\ Untouched(a, b)
  BY <1>1 DEF Accounts, AllocateMargin, Untouched
<1>5. Apart(a, b, s) /\ b.margin[s] = a.margin[s] + amount
  BY <1>2, <1>4 DEF Apart
<1>6. b.margin \in [Symbols -> Nat]
  BY <1>3 DEF Accounts
<1>7. Total(b.margin) = Total(a.margin) - a.margin[s] + b.margin[s]
  BY <1>2, <1>5, <1>6, TotalReplace DEF Apart
<1>8. Total(a.margin) \in Int
  BY <1>2, TotalInt
<1>9. MarginAllocated(b) = MarginAllocated(a) + amount
  BY <1>2, <1>5, <1>7, <1>8 DEF MarginAllocated
<1> QED
  BY <1>1, <1>3, <1>4, <1>5, <1>8, <1>9, InventoryChange DEF MarginAllocated

LEMMA FlatIsSigned == Signed(Flat) /\ Flat \in Inventory /\ Flat.qty = 0 /\ Flat.cost = 0
BY DEF Signed, Flat, Inventory

\* An inventory without a quantity has no cost either.
LEMMA NoQuantityIsFlat ==
    ASSUME NEW inv \in Inventory, Signed(inv), inv.qty = 0
    PROVE  inv = Flat
BY DEF Inventory, Signed, Flat

LEMMA MarketCloseOk ==
    ASSUME NEW a, AccountOk(a), NEW s \in Symbols, NEW price \in Int, NEW reason,
           NEW b, b = MarketClose(a, s, price, reason).account
    PROVE  /\ AccountOk(b) /\ Untouched(a, b) /\ Apart(a, b, s)
           /\ b.inv[s] = Flat /\ b.margin[s] = 0
<1>1. a \in Accounts /\ Signed(a.inv[s]) /\ a.inv[s] \in Inventory
  BY DEF AccountOk, Accounts
<1>2. CASE a.inv[s].qty = 0
  <2>1. b = ReleaseMargin(a, s)
    BY <1>2 DEF MarketClose
  <2> QED
    BY <1>1, <1>2, <2>1, ReleaseMarginOk, NoQuantityIsFlat
<1>3. CASE a.inv[s].qty # 0
  <2>1. PICK value \in Int : value = SlippedValue(a.inv[s], price, Slippage)
    BY <1>1, ValuesInt
  <2>2. PICK pnl \in Int : pnl = ExitPnl(a.inv[s], price, Slippage)
    BY <1>1, <2>1, ValuesInt
  <2>3. pnl = value - a.inv[s].cost /\ a.inv[s].cost \in Int
    BY <1>1, <2>1, <2>2, ValuesInt
  <2>4. PICK fee \in Int : fee = Rated(Magnitude(value), TakerFee)
    <3>1. Magnitude(value) \in Int
      BY DEF Magnitude
    <3> QED BY <3>1, RatedInt, RatesAreInt
  <2>5. PICK loss \in Int : loss = IF pnl < 0 THEN -pnl ELSE 0
    OBVIOUS
  <2>6. b = [a EXCEPT !.wallet = @ + pnl - fee, !.takerFees = @ + fee,
                      !.churn = IF reason \in {"GATE", "CHURN"} THEN @ + fee + loss ELSE @,
                      !.traded = @ + value - fee,
                      !.inv[s] = Flat, !.margin[s] = 0]
    BY <1>3, <2>1, <2>2, <2>4, <2>5 DEF MarketClose
  <2>7. /\ a.wallet + pnl - fee \in Int /\ a.takerFees + fee \in Int
        /\ a.churn + fee + loss \in Int /\ a.churn \in Int /\ a.traded + value - fee \in Int
    <3>1. a.wallet \in Int /\ a.takerFees \in Int /\ a.churn \in Int /\ a.traded \in Int
      BY <1>1 DEF Accounts
    <3> QED BY <3>1
  <2>7a. /\ [a.inv EXCEPT ![s] = Flat] \in [Symbols -> Inventory]
         /\ [a.margin EXCEPT ![s] = 0] \in [Symbols -> Nat]
    <3>1. a.inv \in [Symbols -> Inventory] /\ a.margin \in [Symbols -> Nat]
      BY <1>1 DEF Accounts
    <3> QED BY <3>1, FlatIsSigned
  <2>8. b \in Accounts
    BY <1>1, <2>6, <2>7, <2>7a DEF Accounts
  <2>9. /\ b.wallet = a.wallet + pnl - fee /\ b.traded = a.traded + value - fee
        /\ b.turned = a.turned
        /\ b.inv = [a.inv EXCEPT ![s] = Flat] /\ b.margin = [a.margin EXCEPT ![s] = 0]
        /\ Untouched(a, b)
    BY <1>1, <2>6 DEF Accounts, Untouched
  <2>10. Apart(a, b, s) /\ b.inv[s] = Flat /\ b.margin[s] = 0
    BY <1>1, <2>9 DEF Apart, Accounts
  <2>11. ~a.bankrupt
    BY <1>3, FlatIsSigned DEF AccountOk, Ended
  <2>12. a.wallet \in Int /\ a.traded \in Int
    BY <1>1 DEF Accounts
  <2>13. b.wallet - b.traded - b.inv[s].cost = a.wallet - a.traded - a.inv[s].cost
    <3>1. PICK w, t, c \in Int : w = a.wallet /\ t = a.traded /\ c = a.inv[s].cost
      BY <2>3, <2>12
    <3>2. b.wallet = w + pnl - fee /\ b.traded = t + value - fee /\ pnl = value - c
      BY <2>3, <2>9, <3>1
    <3>3. b.inv[s].cost = 0
      BY <2>10, FlatIsSigned
    <3>4. (w + pnl - fee) - (t + value - fee) - 0 = w - t - c
      BY <3>2
    <3> QED BY <3>1, <3>2, <3>3, <3>4
  <2>14. Signed(b.inv[s])
    BY <2>10, FlatIsSigned
  <2> QED
    BY <2>8, <2>9, <2>10, <2>11, <2>13, <2>14, InventoryChange
<1> QED
  BY <1>2, <1>3

LEMMA FilledOk ==
    ASSUME NEW a, AccountOk(a), ~a.bankrupt, NEW s \in Symbols, NEW d \in Int, NEW price \in Nat,
           NEW b, b = Filled(a, s, d, price)
    PROVE  /\ AccountOk(b) /\ Untouched(a, b) /\ Apart(a, b, s)
           /\ b.margin = a.margin
<1>1. a \in Accounts /\ Signed(a.inv[s]) /\ a.inv[s] \in Inventory
  BY DEF AccountOk, Accounts
<1>2. PICK worth \in Int : worth = d * price
  OBVIOUS
<1>3. PICK fee \in Int : fee = Rated(Magnitude(d) * price, MakerFee)
  <2>1. PICK m \in Int : m = Magnitude(d)
    BY DEF Magnitude
  <2>2. m * price \in Int
    OBVIOUS
  <2> QED BY <2>1, <2>2, RatedInt, RatesAreInt
<1>4. PICK pnl \in Int : pnl = Realized(a.inv[s], d, price)
  BY <1>1, TradedSigned
<1>5. PICK after \in Inventory : after = Traded(a.inv[s], d, price)
  BY <1>1, TradedSigned
<1>6. Signed(after) /\ (~Flips(a.inv[s], d) => pnl = after.cost - a.inv[s].cost - worth)
  BY <1>1, <1>2, <1>4, <1>5, TradedSigned
<1>7. b = [a EXCEPT !.wallet = @ - fee + pnl, !.makerFees = @ + fee, !.profit = @ + pnl,
                    !.traded = @ - worth - fee,
                    !.turned = @ \/ Flips(a.inv[s], d),
                    !.inv[s] = after]
  BY <1>1, <1>2, <1>3, <1>4, <1>5 DEF Filled, Accounts
<1>8. PICK flips \in BOOLEAN : flips = (a.turned \/ Flips(a.inv[s], d))
  BY <1>1 DEF Accounts
<1>9. /\ a.wallet - fee + pnl \in Int /\ a.makerFees + fee \in Int /\ a.profit + pnl \in Int
      /\ a.traded - worth - fee \in Int
  <2>1. a.wallet \in Int /\ a.makerFees \in Int /\ a.profit \in Int /\ a.traded \in Int
    BY <1>1 DEF Accounts
  <2> QED BY <2>1
<1>9a. [a.inv EXCEPT ![s] = after] \in [Symbols -> Inventory]
  <2>1. a.inv \in [Symbols -> Inventory]
    BY <1>1 DEF Accounts
  <2> QED BY <2>1
<1>10. b \in Accounts
  BY <1>1, <1>7, <1>8, <1>9, <1>9a DEF Accounts
<1>11. /\ b.wallet = a.wallet - fee + pnl /\ b.traded = a.traded - worth - fee
       /\ b.turned = flips
       /\ b.inv = [a.inv EXCEPT ![s] = after] /\ b.margin = a.margin
       /\ Untouched(a, b)
  BY <1>1, <1>7, <1>8 DEF Accounts, Untouched
<1>12. Apart(a, b, s) /\ b.inv[s] = after
  BY <1>1, <1>11 DEF Apart, Accounts
<1>13. a.wallet \in Int /\ a.traded \in Int /\ a.inv[s].cost \in Int /\ after.cost \in Int
  BY <1>1 DEF Accounts, Inventory
<1>14. ASSUME ~b.turned
       PROVE  /\ ~a.turned
              /\ b.wallet - b.traded - b.inv[s].cost = a.wallet - a.traded - a.inv[s].cost
  <2>1. ~a.turned /\ ~Flips(a.inv[s], d)
    BY <1>8, <1>11, <1>14
  <2> QED
    BY <1>6, <1>11, <1>12, <1>13, <2>1
<1> QED
  BY <1>6, <1>10, <1>11, <1>12, <1>14, InventoryChange


-----------------------------------------------------------------------------
(* The whole account                                                       *)

LEMMA SymbolsFinite == IsFiniteSet(Symbols)
<1>1. PICK n \in Nat : n = Len(Order)
  BY Places
<1>2. Order \in [1 .. n -> Symbols]
  BY <1>1, AccountAssumption
<1>3. Order \in Surjection(1 .. n, Symbols)
  BY <1>1, <1>2, Places DEF Surjection
<1>4. IsFiniteSet(1 .. n)
  BY FS_Interval
<1> QED
  BY <1>3, <1>4, FS_Surjection

LEMMA NewAccountOk == AccountOk(NewAccount) /\ ~NewAccount.bankrupt
<1> DEFINE a == NewAccount
           inv == [s \in Symbols |-> Flat]
<1>1. InitialCapital \in Nat \ {0}
  BY AccountAssumption
<1>2. inv \in [Symbols -> Inventory]
  BY FlatIsSigned
<1>3. << >> \in Seq(Snapshots)
  OBVIOUS
<1>4. a \in Accounts
  BY <1>1, <1>2, <1>3 DEF NewAccount, Accounts
<1>5. /\ a.wallet = InitialCapital /\ a.traded = 0 /\ a.drawdown = 0 /\ a.history = << >>
      /\ a.bankrupt = FALSE /\ a.liquidations = 0 /\ a.inv = inv
  BY DEF NewAccount
<1>6. \A s \in Symbols : Signed(a.inv[s])
  BY <1>5, FlatIsSigned
<1>7. Booked(a)
  <2>1. \A s \in Symbols : Costs(inv)[s] = 0
    BY FlatIsSigned DEF Costs
  <2>2. Total(Costs(inv)) = 0
    <3>1. PICK n \in Nat : n = Len(Order)
      BY Places
    <3>2. PICK w : w = [i \in 1 .. n |-> Costs(inv)[Order[i]]]
      OBVIOUS
    <3>3. \A i \in 1 .. n : w[i] = 0
      BY <2>1, <3>1, <3>2, Places
    <3> QED
      BY <3>1, <3>2, <3>3, SumToNothing DEF Total
  <2> QED
    BY <1>1, <1>5, <2>2 DEF Booked
<1>8. Deepest(a)
  BY <1>5 DEF Deepest
<1>9. Ended(a)
  BY <1>5 DEF Ended
<1> QED
  BY <1>4, <1>5, <1>6, <1>7, <1>8, <1>9 DEF AccountOk

\* What the account is worth, and what it has allotted.
LEMMA WorthInt ==
    ASSUME NEW a \in Accounts, NEW prices, \A x \in Symbols : prices[x] \in Int
    PROVE  /\ RawEquity(a, prices) \in Int
           /\ EquityOf(a, prices) \in Nat
           /\ MaintenanceMargin(a, prices) \in Int
           /\ MarginAllocated(a) \in Int
           /\ AvailableMargin(a, prices) \in Nat
           /\ Total([s \in Symbols |-> Notional(a.inv[s], prices[s])]) \in Int
<1>1. /\ a.wallet \in Int /\ a.inv \in [Symbols -> Inventory]
      /\ a.margin \in [Symbols -> Nat]
  BY DEF Accounts
<1>2. \A s \in Symbols : /\ Unrealized(a.inv[s], prices[s]) \in Int
                         /\ Notional(a.inv[s], prices[s]) \in Int
                         /\ Rated(Notional(a.inv[s], prices[s]), MaintenanceRate) \in Int
  BY <1>1, ValuesInt, RatedInt, RatesAreInt
<1>3. RawEquity(a, prices) \in Int
  <2>1. PICK w : w = [s \in Symbols |-> Unrealized(a.inv[s], prices[s])]
    OBVIOUS
  <2>2. Total(w) \in Int
    BY <1>2, <2>1, TotalInt
  <2> QED BY <1>1, <2>1, <2>2 DEF RawEquity
<1>4. MaintenanceMargin(a, prices) \in Int
  <2>1. PICK w : w = [s \in Symbols |-> Rated(Notional(a.inv[s], prices[s]), MaintenanceRate)]
    OBVIOUS
  <2>2. Total(w) \in Int
    BY <1>2, <2>1, TotalInt
  <2> QED BY <2>1, <2>2 DEF MaintenanceMargin
<1>5. MarginAllocated(a) \in Int
  BY <1>1, TotalInt DEF MarginAllocated
<1>6. Total([s \in Symbols |-> Notional(a.inv[s], prices[s])]) \in Int
  <2>1. PICK w : w = [s \in Symbols |-> Notional(a.inv[s], prices[s])]
    OBVIOUS
  <2>2. Total(w) \in Int
    BY <1>2, <2>1, TotalInt
  <2> QED BY <2>1, <2>2
<1>7. EquityOf(a, prices) \in Nat
  BY <1>3 DEF EquityOf, Larger
<1>8. AvailableMargin(a, prices) \in Nat
  BY <1>5, <1>7 DEF AvailableMargin, Larger
<1> QED
  BY <1>3, <1>4, <1>5, <1>6, <1>7, <1>8

\* The worth depends on wallet and inventories only.
LEMMA SameWorth ==
    ASSUME NEW a, NEW b, NEW prices,
           b.wallet = a.wallet, b.inv = a.inv, b.bankrupt = a.bankrupt
    PROVE  /\ RawEquity(b, prices) = RawEquity(a, prices)
           /\ EquityOf(b, prices) = EquityOf(a, prices)
           /\ MaintenanceMargin(b, prices) = MaintenanceMargin(a, prices)
BY DEF RawEquity, EquityOf, MaintenanceMargin

LEMMA DrawdownInt ==
    ASSUME NEW peak \in Nat \ {0}, NEW equity \in Nat
    PROVE  /\ (Thousand * (peak - equity)) \div peak \in Int
           /\ equity <= peak => (Thousand * (peak - equity)) \div peak >= 0
<1>1. PICK m \in Int : m = Thousand * (peak - equity)
  BY DEF Thousand
<1>2. equity <= peak => m >= 0
  BY <1>1 DEF Thousand
<1>3. PICK d \in Int : d = m \div peak
  OBVIOUS
<1>4. m >= 0 => d >= 0
  BY <1>3
<1> QED
  BY <1>1, <1>2, <1>3, <1>4

LEMMA SnapshotOk ==
    ASSUME NEW a \in Accounts, NEW prices, \A x \in Symbols : prices[x] \in Int
    PROVE  Snapshot(a, prices) \in Snapshots
<1>1. /\ EquityOf(a, prices) \in Nat /\ MarginAllocated(a) \in Int
      /\ AvailableMargin(a, prices) \in Int
      /\ Total([s \in Symbols |-> Notional(a.inv[s], prices[s])]) \in Int
  BY WorthInt
<1>2. Cardinality({s \in Symbols : a.inv[s].qty # 0 \/ a.margin[s] > 0}) \in Nat
  BY SymbolsFinite, FS_Subset, FS_CardinalityType
<1>3. (Thousand * (a.peak - EquityOf(a, prices))) \div a.peak \in Int
  BY <1>1, DrawdownInt DEF Accounts
<1>4. Thousand \in Int
  BY DEF Thousand
<1> QED
  BY <1>1, <1>2, <1>3, <1>4 DEF Snapshot, Snapshots

\* A snapshot is appended; nothing else changes.
LEMMA RecordedFields ==
    ASSUME NEW a \in Accounts, NEW prices, \A x \in Symbols : prices[x] \in Int,
           NEW b, b = Recorded(a, prices)
    PROVE  /\ b \in Accounts
           /\ b.history = Append(a.history, Snapshot(a, prices))
           /\ b.wallet = a.wallet /\ b.peak = a.peak /\ b.drawdown = a.drawdown
           /\ b.bankrupt = a.bankrupt /\ b.liquidations = a.liquidations
           /\ b.traded = a.traded /\ b.turned = a.turned
           /\ b.inv = a.inv /\ b.margin = a.margin
<1>1. PICK h : h = Append(a.history, Snapshot(a, prices))
  OBVIOUS
<1>2. h \in Seq(Snapshots)
  BY <1>1, SnapshotOk DEF Accounts
<1>3. b = [a EXCEPT !.history = h]
  BY <1>1 DEF Recorded, Accounts
<1> QED
  BY <1>1, <1>2, <1>3 DEF Accounts

LEMMA RecordedBankrupt ==
    ASSUME NEW a, AccountOk(a), a.bankrupt,
           NEW prices, \A x \in Symbols : prices[x] \in Int,
           NEW b, b = Recorded(a, prices)
    PROVE  AccountOk(b) /\ b.bankrupt
<1>1. a \in Accounts
  BY DEF AccountOk
<1> QED
  BY <1>1, RecordedFields DEF AccountOk, Booked, Deepest, Ended

LEMMA LiquidatedOk ==
    ASSUME NEW a, AccountOk(a), ~a.bankrupt,
           NEW prices, \A x \in Symbols : prices[x] \in Int,
           NEW b, b = Liquidated(a, prices)
    PROVE  AccountOk(b) /\ b.bankrupt
<1>1. a \in Accounts /\ a.inv \in [Symbols -> Inventory] /\ a.margin \in [Symbols -> Nat]
      /\ a.wallet \in Int /\ a.takerFees \in Int
  BY DEF AccountOk, Accounts
<1>2. PICK value : value = [s \in Symbols |-> SlippedValue(a.inv[s], prices[s], Slippage)]
  OBVIOUS
<1>3. \A s \in Symbols : value[s] \in Int /\ a.inv[s].cost \in Int
  BY <1>1, <1>2, ValuesInt
<1>4. PICK fee : fee = [s \in Symbols |-> Rated(Magnitude(value[s]), TakerFee + LiquidationFee)]
  OBVIOUS
<1>5. \A s \in Symbols : fee[s] \in Int
  <2> SUFFICES ASSUME NEW s \in Symbols
               PROVE  Rated(Magnitude(value[s]), TakerFee + LiquidationFee) \in Int
    BY <1>4
  <2>1. Magnitude(value[s]) \in Int
    BY <1>3 DEF Magnitude
  <2> QED
    BY <2>1, RatedInt, RatesAreInt
<1>6. PICK gain : gain = [s \in Symbols |-> value[s] - a.inv[s].cost - fee[s]]
  OBVIOUS
<1>7. Total(gain) \in Int /\ Total(fee) \in Int
  <2>1. \A s \in Symbols : gain[s] \in Int
    BY <1>3, <1>5, <1>6
  <2> QED BY <1>5, <2>1, TotalInt
<1>8. PICK left \in Nat : left = Larger(0, a.wallet + Total(gain))
  BY <1>1, <1>7 DEF Larger
<1>9. PICK margin : margin = [s \in Symbols |-> IF a.inv[s].qty # 0 THEN 0 ELSE a.margin[s]]
  OBVIOUS
<1>10. b = [a EXCEPT !.bankrupt = TRUE, !.liquidations = @ + 1, !.wallet = left,
                     !.takerFees = @ + Total(fee),
                     !.inv = [s \in Symbols |-> Flat], !.margin = margin]
  BY <1>1, <1>2, <1>4, <1>6, <1>8, <1>9 DEF Liquidated, Accounts
<1>11. PICK flat \in [Symbols -> Inventory] : flat = [s \in Symbols |-> Flat]
  BY FlatIsSigned
<1>11a. margin \in [Symbols -> Nat]
  BY <1>1, <1>9
<1>12. a.liquidations = 0 /\ a.liquidations + 1 = 1
  BY <1>1, <1>7 DEF AccountOk, Ended
<1>12a. PICK fees \in Int : fees = a.takerFees + Total(fee)
  BY <1>1, <1>7
<1>12b. b = [a EXCEPT !.bankrupt = TRUE, !.liquidations = 1, !.wallet = left,
                      !.takerFees = fees, !.inv = flat, !.margin = margin]
  BY <1>1, <1>10, <1>11, <1>12, <1>12a DEF Accounts
<1>13. b \in Accounts
  <2>1. PICK c : c = [a EXCEPT !.bankrupt = TRUE, !.liquidations = 1, !.wallet = left]
    OBVIOUS
  <2>2. c \in Accounts
    <3>1. PICK yes \in BOOLEAN : yes = TRUE
      OBVIOUS
    <3>2. c = [a EXCEPT !.bankrupt = yes, !.liquidations = 1, !.wallet = left]
      BY <2>1, <3>1
    <3>3. PICK d : d = [a EXCEPT !.bankrupt = yes]
      OBVIOUS
    <3>4. d \in Accounts
      BY <1>1, <3>3 DEF Accounts
    <3>5. c = [d EXCEPT !.liquidations = 1, !.wallet = left]
      BY <1>1, <3>2, <3>3 DEF Accounts
    <3>6. 1 \in Nat /\ left \in Int
      OBVIOUS
    <3> QED BY <3>4, <3>5, <3>6 DEF Accounts
  <2>3. b = [c EXCEPT !.takerFees = fees, !.inv = flat, !.margin = margin]
    BY <1>1, <1>12b, <2>1 DEF Accounts
  <2> QED
    BY <1>11a, <2>2, <2>3 DEF Accounts
<1>14. b.bankrupt /\ b.liquidations = 1 /\ b.wallet = left /\ b.inv = flat
  BY <1>1, <1>12b DEF Accounts
<1>15. \A s \in Symbols : b.inv[s] = Flat /\ Signed(b.inv[s])
  BY <1>11, <1>14, FlatIsSigned
<1> QED
  BY <1>8, <1>13, <1>14, <1>15 DEF AccountOk, Booked, Deepest, Ended

\* At the end of a bar the account is liquidated or above its maintenance margin.
LEMMA SteppedOk ==
    ASSUME NEW a, AccountOk(a),
           NEW prices, \A x \in Symbols : prices[x] \in Int,
           NEW b, b = Stepped(a, prices)
    PROVE  /\ AccountOk(b)
           /\ a.bankrupt => b.bankrupt
           /\ ~b.bankrupt => /\ b.inv = a.inv /\ b.margin = a.margin
                             /\ RawEquity(b, prices) > MaintenanceMargin(b, prices)
<1>1. a \in Accounts /\ a.bankrupt \in BOOLEAN
  BY DEF AccountOk, Accounts
<1>2. CASE a.bankrupt
  <2>1. b = Recorded(a, prices)
    BY <1>2 DEF Stepped
  <2> QED
    BY <1>2, <2>1, RecordedBankrupt
<1>3. CASE ~a.bankrupt /\ (RawEquity(a, prices) <= MaintenanceMargin(a, prices)
                             \/ RawEquity(a, prices) <= 0)
  <2>1. PICK gone : gone = Liquidated(a, prices)
    OBVIOUS
  <2>2. b = Recorded(gone, prices)
    BY <1>3, <2>1 DEF Stepped
  <2>3. AccountOk(gone) /\ gone.bankrupt
    BY <1>3, <2>1, LiquidatedOk
  <2> QED
    BY <1>3, <2>2, <2>3, RecordedBankrupt
<1>4. CASE ~a.bankrupt /\ ~(RawEquity(a, prices) <= MaintenanceMargin(a, prices)
                              \/ RawEquity(a, prices) <= 0)
  <2>1. PICK equity \in Nat : equity = EquityOf(a, prices)
    BY <1>1, WorthInt
  <2>2. a.peak \in Nat \ {0} /\ a.drawdown \in Int
    BY <1>1 DEF Accounts
  <2>3. PICK peak \in Nat \ {0} : peak = Larger(a.peak, equity)
    BY <2>1, <2>2 DEF Larger
  <2>4. equity <= peak
    BY <2>1, <2>2, <2>3 DEF Larger
  <2>5. PICK depth \in Int : depth = (Thousand * (peak - equity)) \div peak
    BY DrawdownInt
  <2>6. depth >= 0
    BY <2>4, <2>5, DrawdownInt
  <2>7. PICK deepest \in Int : deepest = Larger(a.drawdown, depth)
    BY <2>2 DEF Larger
  <2>8. PICK c : c = [a EXCEPT !.peak = peak, !.drawdown = deepest]
    OBVIOUS
  <2>9. c \in Accounts
    BY <1>1, <2>8 DEF Accounts
  <2>10. /\ c.wallet = a.wallet /\ c.inv = a.inv /\ c.bankrupt = a.bankrupt
         /\ c.liquidations = a.liquidations /\ c.traded = a.traded /\ c.turned = a.turned
         /\ c.history = a.history /\ c.margin = a.margin
         /\ c.peak = peak /\ c.drawdown = deepest
    BY <1>1, <2>8 DEF Accounts
  <2>11. b = Recorded(c, prices)
    BY <1>1, <1>4, <2>1, <2>3, <2>5, <2>7, <2>8 DEF Stepped, Accounts
  <2>12. PICK snap : snap = Snapshot(c, prices)
    OBVIOUS
  <2>13. snap \in Snapshots
    BY <2>9, <2>12, SnapshotOk
  <2>14. snap.drawdown = depth
    <3>1. EquityOf(c, prices) = equity
      BY <2>1, <2>10, SameWorth
    <3> QED
      BY <1>4, <2>5, <2>10, <2>12, <3>1 DEF Snapshot
  <2>15. /\ b \in Accounts /\ b.history = Append(a.history, snap)
         /\ b.wallet = a.wallet /\ b.inv = a.inv /\ b.bankrupt = a.bankrupt
         /\ b.liquidations = a.liquidations /\ b.traded = a.traded /\ b.turned = a.turned
         /\ b.margin = a.margin /\ b.drawdown = deepest
    BY <2>9, <2>10, <2>11, <2>12, RecordedFields
  <2>16. Deepest(b)
    <3>1. PICK h \in Seq(Snapshots) : h = a.history
      BY <1>1 DEF Accounts
    <3>2. PICK n \in Nat : n = Len(h)
      OBVIOUS
    <3>3. /\ b.history = Append(h, snap) /\ DOMAIN b.history = 1 .. n + 1
          /\ b.history[n + 1] = snap /\ \A k \in 1 .. n : b.history[k] = h[k]
      BY <2>13, <2>15, <3>1, <3>2
    <3>4. /\ \A k \in 1 .. n : h[k].drawdown <= a.drawdown /\ h[k].drawdown \in Int
          /\ \/ n = 0 /\ a.drawdown = 0
             \/ \E k \in 1 .. n : h[k].drawdown = a.drawdown
      <4>1. DOMAIN h = 1 .. n /\ (h = << >> => n = 0)
        BY <3>2
      <4>2. \A k \in 1 .. n : h[k].drawdown \in Int
        <5> SUFFICES ASSUME NEW k \in 1 .. n PROVE h[k].drawdown \in Int
          OBVIOUS
        <5>1. h[k] \in Snapshots
          BY <3>2
        <5> QED BY <5>1 DEF Snapshots
      <4> QED
        BY <1>4, <3>1, <4>1, <4>2 DEF AccountOk, Deepest
    <3>5. deepest >= a.drawdown /\ deepest >= depth /\ deepest \in {a.drawdown, depth}
      BY <2>2, <2>7 DEF Larger
    <3>6. ASSUME NEW k \in 1 .. n + 1 PROVE b.history[k].drawdown <= deepest
      BY <2>2, <2>14, <3>2, <3>3, <3>4, <3>5
    <3>7. \E k \in 1 .. n + 1 : b.history[k].drawdown = deepest
      <4>1. CASE deepest = depth
        <5>1. n + 1 \in 1 .. n + 1
          OBVIOUS
        <5> QED BY <2>14, <3>3, <4>1, <5>1
      <4>2. CASE deepest = a.drawdown /\ deepest # depth
        <5>1. ~(n = 0 /\ a.drawdown = 0)
          BY <2>6, <2>7, <4>2 DEF Larger
        <5>2. PICK k \in 1 .. n : h[k].drawdown = a.drawdown
          BY <3>4, <5>1
        <5>3. k \in 1 .. n + 1
          OBVIOUS
        <5> QED BY <3>3, <4>2, <5>2, <5>3
      <4> QED BY <3>5, <4>1, <4>2
    <3> QED
      BY <2>15, <3>3, <3>6, <3>7 DEF Deepest
  <2>17. AccountOk(b)
    BY <1>4, <2>15, <2>16 DEF AccountOk, Booked, Ended
  <2>18. RawEquity(b, prices) > MaintenanceMargin(b, prices)
    <3>1. RawEquity(b, prices) = RawEquity(a, prices)
          /\ MaintenanceMargin(b, prices) = MaintenanceMargin(a, prices)
      BY <2>15, SameWorth
    <3>2. RawEquity(a, prices) \in Int /\ MaintenanceMargin(a, prices) \in Int
      BY <1>1, WorthInt
    <3> QED BY <1>4, <3>1, <3>2
  <2> QED
    BY <1>4, <2>15, <2>17, <2>18
<1> QED
  BY <1>1, <1>2, <1>3, <1>4


-----------------------------------------------------------------------------
(* The end of a run: the inventories are closed one after the other        *)

ClosedTable(h, a, prices, n) ==
    h = [i \in 0 .. n |->
            IF i = 0 THEN a
            ELSE MarketClose(h[i - 1], Order[i], prices[Order[i]], "TIMEOUT").account]

LEMMA ClosedTableExists ==
    ASSUME NEW a, NEW prices, NEW m \in Nat
    PROVE  \E h : ClosedTable(h, a, prices, m)
<1> DEFINE F(x, i) == MarketClose(x, Order[i], prices[Order[i]], "TIMEOUT").account
           S == {n \in Nat : \E h : ClosedTable(h, a, prices, n)}
<1>0. \A h, n : ClosedTable(h, a, prices, n) <=>
                  h = [i \in 0 .. n |-> IF i = 0 THEN a ELSE F(h[i - 1], i)]
  BY DEF ClosedTable
<1> HIDE DEF F
<1>1. 0 \in S
  <2>1. PICK h : h = [i \in 0 .. 0 |-> a]
    OBVIOUS
  <2>2. h = [i \in 0 .. 0 |-> IF i = 0 THEN a ELSE F(h[i - 1], i)]
    BY <2>1
  <2> QED BY <1>0, <2>2
<1>2. \A n \in Nat : n \in S => n + 1 \in S
  <2> SUFFICES ASSUME NEW n \in Nat, n \in S PROVE n + 1 \in S
    OBVIOUS
  <2>1. PICK g : g = [i \in 0 .. n |-> IF i = 0 THEN a ELSE F(g[i - 1], i)]
    BY <1>0
  <2>2. PICK h : h = [i \in 0 .. n + 1 |-> IF i = n + 1 THEN F(g[n], n + 1) ELSE g[i]]
    OBVIOUS
  <2>3. \A i \in 0 .. n + 1 : h[i] = IF i = 0 THEN a ELSE F(h[i - 1], i)
    <3> SUFFICES ASSUME NEW i \in 0 .. n + 1
                 PROVE  h[i] = IF i = 0 THEN a ELSE F(h[i - 1], i)
      OBVIOUS
    <3>1. CASE i = n + 1
      <4>1. h[i] = F(g[n], n + 1) /\ h[i - 1] = g[n] /\ i # 0
        BY <2>2, <3>1
      <4> QED BY <3>1, <4>1
    <3>2. CASE i \in 0 .. n
      <4>1. g[i] = IF i = 0 THEN a ELSE F(g[i - 1], i)
        BY <2>1, <3>2
      <4>2. h[i] = g[i] /\ (i # 0 => h[i - 1] = g[i - 1])
        BY <2>2, <3>2
      <4> QED BY <4>1, <4>2
    <3> QED BY <3>1, <3>2
  <2>4. h = [i \in 0 .. n + 1 |-> IF i = 0 THEN a ELSE F(h[i - 1], i)]
    <3>1. h = [i \in 0 .. n + 1 |-> h[i]]
      BY <2>2
    <3> QED BY <2>3, <3>1
  <2> QED BY <1>0, <2>4
<1> HIDE DEF S
<1>3. m \in S
  BY <1>1, <1>2, SetInduction
<1> QED BY <1>3 DEF S

LEMMA AllClosedOk ==
    ASSUME NEW a, AccountOk(a), NEW prices, \A x \in Symbols : prices[x] \in Int,
           NEW b, b = AllClosed(a, prices)
    PROVE  AccountOk(b) /\ Untouched(a, b) /\ \A s \in Symbols : b.inv[s] = Flat
<1>1. PICK n \in Nat : n = Len(Order)
  BY Places
<1>2. PICK h : h = CHOOSE g : ClosedTable(g, a, prices, n)
  OBVIOUS
<1>3. ClosedTable(h, a, prices, n)
  BY <1>2, ClosedTableExists
<1>4. b = h[n]
  BY <1>1, <1>2 DEF AllClosed, ClosedTable
<1>5. h[0] = a
  BY <1>3 DEF ClosedTable
<1>6. \A i \in 0 .. n - 1 :
         h[i + 1] = MarketClose(h[i], Order[i + 1], prices[Order[i + 1]], "TIMEOUT").account
  BY <1>3 DEF ClosedTable
<1> DEFINE Good(i) == /\ AccountOk(h[i]) /\ Untouched(a, h[i])
                      /\ \A k \in 1 .. i : h[i].inv[Order[k]] = Flat
           S == {i \in Nat : i <= n => Good(i)}
<1>7. 0 \in S
  BY <1>5 DEF Untouched
<1>8. \A i \in Nat : i \in S => i + 1 \in S
  <2> SUFFICES ASSUME NEW i \in Nat, i \in S, i + 1 <= n PROVE Good(i + 1)
    OBVIOUS
  <2>1. Good(i)
    OBVIOUS
  <2>2. PICK s \in Symbols : s = Order[i + 1]
    BY <1>1, Places
  <2>3. PICK price \in Int : price = prices[s]
    OBVIOUS
  <2>4. i \in 0 .. n - 1
    OBVIOUS
  <2>5. h[i + 1] = MarketClose(h[i], s, price, "TIMEOUT").account
    BY <1>6, <2>2, <2>3, <2>4
  <2>6. /\ AccountOk(h[i + 1]) /\ Untouched(h[i], h[i + 1]) /\ Apart(h[i], h[i + 1], s)
        /\ h[i + 1].inv[s] = Flat
    BY <2>1, <2>5, MarketCloseOk
  <2>7. Untouched(a, h[i + 1])
    BY <2>1, <2>6 DEF Untouched
  <2>8. ASSUME NEW k \in 1 .. i + 1 PROVE h[i + 1].inv[Order[k]] = Flat
    <3>1. CASE Order[k] = s
      BY <2>6, <3>1
    <3>2. CASE Order[k] # s
      <4>1. k \in 1 .. i /\ k \in 1 .. n
        BY <2>2, <3>2
      <4>2. Order[k] \in Symbols
        BY <1>1, <4>1, Places
      <4> QED BY <2>1, <2>6, <3>2, <4>1, <4>2 DEF Apart
    <3> QED BY <3>1, <3>2
  <2> QED BY <2>6, <2>7, <2>8
<1> HIDE DEF S
<1>9. n \in S
  BY <1>7, <1>8, SetInduction
<1>10. Good(n)
  BY <1>9 DEF S
<1> QED
  BY <1>1, <1>4, <1>10, Places

-----------------------------------------------------------------------------
(* Fills along a leg                                                       *)

LEMMA GridConstants ==
    /\ NumGrids \in Nat \ {0} /\ MinimumMargin \in Nat \ {0} /\ AtrPeriod \in Nat \ {0}
    /\ HysteresisBars \in Nat \ {0} /\ MaxSessionBars \in Nat \ {0}
    /\ Leverage \in Nat /\ RequestedMargin \in Nat /\ StopLossRoi \in Nat
    /\ AtrMultiplier \in Nat
    /\ RangePct \in 0 .. 999
BY GridAssumption DEF Thousand

\* What fills leave alone: everything of the grid but its orders and counters, and
\* everything of the account but the inventory of one symbol and the money.
Kept(p, q, s) ==
    /\ AccountOk(q.account) /\ Untouched(p.account, q.account)
    /\ Apart(p.account, q.account, s)
    /\ q.account.margin = p.account.margin
    /\ q.grid \in Grid
    /\ q.grid.state = p.grid.state /\ q.grid.bars = p.grid.bars
    /\ q.grid.streak = p.grid.streak /\ q.grid.margin = p.grid.margin

LEMMA QuantityNat ==
    ASSUME NEW g \in Grid, NEW i \in 0 .. NumGrids
    PROVE  Quantity(g, i) \in Nat /\ g.level[i] \in Nat
<1>1. PICK m \in Nat : m = g.margin
  BY DEF Grid
<1>2. PICK l \in Nat \ {0} : l = g.level[i]
  BY DEF Grid
<1>3. PICK x \in Nat : x = m * Leverage
  BY GridConstants
<1>4. PICK n \in Nat \ {0} : n = NumGrids
  BY GridConstants
<1>5. PICK y \in Nat : y = x \div n
  OBVIOUS
<1>6. y \div l \in Nat
  OBVIOUS
<1> QED
  BY <1>1, <1>2, <1>3, <1>4, <1>5, <1>6 DEF Quantity

LEMMA FilledAtOk ==
    ASSUME NEW p, AccountOk(p.account), ~p.account.bankrupt, p.grid \in Grid,
           NEW s \in Symbols, NEW i \in 0 .. NumGrids, NEW side,
           NEW q, q = FilledAt(p, s, i, side)
    PROVE  Kept(p, q, s)
<1>1. PICK d \in Int : d = (IF side = "BUY" THEN 1 ELSE -1) * Quantity(p.grid, i)
  BY QuantityNat
<1>2. PICK price \in Nat : price = p.grid.level[i]
  BY QuantityNat
<1>3. q.account = Filled(p.account, s, d, price)
  BY <1>1, <1>2 DEF FilledAt
<1>4. /\ AccountOk(q.account) /\ Untouched(p.account, q.account)
      /\ Apart(p.account, q.account, s) /\ q.account.margin = p.account.margin
  BY <1>3, FilledOk
<1>5. PICK completed \in Nat :
         completed = IF Adds(p.account.inv[s], d) THEN p.grid.completed ELSE p.grid.completed + 1
  BY DEF Grid
<1>6. PICK orders \in [buys : SUBSET (0 .. NumGrids), sells : SUBSET (0 .. NumGrids)] :
         orders = IF side = "BUY" THEN AfterBuy(p.grid.orders, i, p.grid.level)
                  ELSE AfterSell(p.grid.orders, i, p.grid.level)
  <2>1. DOMAIN p.grid.level = 0 .. NumGrids
    BY DEF Grid
  <2>2. p.grid.orders \in [buys : SUBSET (0 .. NumGrids), sells : SUBSET (0 .. NumGrids)]
    BY DEF Grid
  <2> QED
    BY <2>1, <2>2 DEF AfterBuy, AfterSell
<1>7. PICK fills \in Nat : fills = p.grid.fills + 1
  BY DEF Grid
<1>8. q.grid = [p.grid EXCEPT !.fills = fills, !.completed = completed, !.orders = orders]
  BY <1>1, <1>5, <1>6, <1>7 DEF FilledAt, Grid
<1>9. /\ q.grid \in Grid
      /\ q.grid.state = p.grid.state /\ q.grid.bars = p.grid.bars
      /\ q.grid.streak = p.grid.streak /\ q.grid.margin = p.grid.margin
  BY <1>8 DEF Grid
<1> QED
  BY <1>4, <1>9 DEF Kept

\* The places of the levels in the order in which the price meets them.
PlaceOf(falling, n) == IF falling THEN NumGrids + 1 - n ELSE n - 1
SideOf(falling) == IF falling THEN "BUY" ELSE "SELL"

LegTable(h, p, s, falling, met, n) ==
    h = [k \in 0 .. n |->
            IF k = 0 THEN p
            ELSE IF PlaceOf(falling, k) \in met
            THEN FilledAt(h[k - 1], s, PlaceOf(falling, k), SideOf(falling))
            ELSE h[k - 1]]

LEMMA LegTableExists ==
    ASSUME NEW p, NEW s, NEW falling, NEW met, NEW m \in Nat
    PROVE  \E h : LegTable(h, p, s, falling, met, m)
<1> DEFINE F(x, k) == IF PlaceOf(falling, k) \in met
                      THEN FilledAt(x, s, PlaceOf(falling, k), SideOf(falling)) ELSE x
           S == {n \in Nat : \E h : LegTable(h, p, s, falling, met, n)}
<1>0. \A h, n : LegTable(h, p, s, falling, met, n) <=>
                  h = [k \in 0 .. n |-> IF k = 0 THEN p ELSE F(h[k - 1], k)]
  BY DEF LegTable
<1> HIDE DEF F
<1>1. 0 \in S
  <2>1. PICK h : h = [k \in 0 .. 0 |-> p]
    OBVIOUS
  <2>2. h = [k \in 0 .. 0 |-> IF k = 0 THEN p ELSE F(h[k - 1], k)]
    BY <2>1
  <2> QED BY <1>0, <2>2
<1>2. \A n \in Nat : n \in S => n + 1 \in S
  <2> SUFFICES ASSUME NEW n \in Nat, n \in S PROVE n + 1 \in S
    OBVIOUS
  <2>1. PICK g : g = [k \in 0 .. n |-> IF k = 0 THEN p ELSE F(g[k - 1], k)]
    BY <1>0
  <2>2. PICK h : h = [k \in 0 .. n + 1 |-> IF k = n + 1 THEN F(g[n], n + 1) ELSE g[k]]
    OBVIOUS
  <2>3. \A k \in 0 .. n + 1 : h[k] = IF k = 0 THEN p ELSE F(h[k - 1], k)
    <3> SUFFICES ASSUME NEW k \in 0 .. n + 1
                 PROVE  h[k] = IF k = 0 THEN p ELSE F(h[k - 1], k)
      OBVIOUS
    <3>1. CASE k = n + 1
      <4>1. h[k] = F(g[n], n + 1) /\ h[k - 1] = g[n] /\ k # 0
        BY <2>2, <3>1
      <4> QED BY <3>1, <4>1
    <3>2. CASE k \in 0 .. n
      <4>1. g[k] = IF k = 0 THEN p ELSE F(g[k - 1], k)
        BY <2>1, <3>2
      <4>2. h[k] = g[k] /\ (k # 0 => h[k - 1] = g[k - 1])
        BY <2>2, <3>2
      <4> QED BY <4>1, <4>2
    <3> QED BY <3>1, <3>2
  <2>4. h = [k \in 0 .. n + 1 |-> IF k = 0 THEN p ELSE F(h[k - 1], k)]
    <3>1. h = [k \in 0 .. n + 1 |-> h[k]]
      BY <2>2
    <3> QED BY <2>3, <3>1
  <2>5. LegTable(h, p, s, falling, met, n + 1)
    BY <1>0, <2>4
  <2> QED BY <2>5
<1> HIDE DEF S
<1>3. m \in S
  BY <1>1, <1>2, SetInduction
<1> QED BY <1>3 DEF S

LEMMA LegOk ==
    ASSUME NEW p, AccountOk(p.account), ~p.account.bankrupt, p.grid \in Grid,
           NEW s \in Symbols, NEW leg, NEW q, q = ExecuteLeg(p, s, leg)
    PROVE  Kept(p, q, s)
<1>1. PICK falling : falling = (leg[2] < leg[1])
  OBVIOUS
<1>2. PICK met : met = IF falling
               THEN {i \in p.grid.orders.buys : p.grid.level[i] \in leg[2] .. leg[1]}
               ELSE {i \in p.grid.orders.sells : p.grid.level[i] \in leg[1] .. leg[2]}
  OBVIOUS
<1>3. PICK n \in Nat : n = NumGrids + 1
  BY GridConstants
<1>4. PICK h : h = CHOOSE g : LegTable(g, p, s, falling, met, n)
  OBVIOUS
<1>5. LegTable(h, p, s, falling, met, n)
  BY <1>4, LegTableExists
<1>6. q = h[n]
  BY <1>1, <1>2, <1>3, <1>4 DEF ExecuteLeg, LegTable, PlaceOf, SideOf
<1>7. h[0] = p
  BY <1>5 DEF LegTable
<1>8. \A k \in 0 .. n - 1 :
         \/ h[k + 1] = h[k]
         \/ /\ PlaceOf(falling, k + 1) \in 0 .. NumGrids
            /\ h[k + 1] = FilledAt(h[k], s, PlaceOf(falling, k + 1), SideOf(falling))
  <2> SUFFICES ASSUME NEW k \in 0 .. n - 1, h[k + 1] # h[k]
               PROVE  /\ PlaceOf(falling, k + 1) \in 0 .. NumGrids
                      /\ h[k + 1] = FilledAt(h[k], s, PlaceOf(falling, k + 1), SideOf(falling))
    OBVIOUS
  <2>1. k + 1 \in 0 .. n /\ k + 1 # 0 /\ (k + 1) - 1 = k
    OBVIOUS
  <2>2. /\ h[k + 1] = FilledAt(h[k], s, PlaceOf(falling, k + 1), SideOf(falling))
        /\ PlaceOf(falling, k + 1) \in met
    BY <1>5, <2>1 DEF LegTable
  <2>3. met \subseteq 0 .. NumGrids
    BY <1>2 DEF Grid
  <2> QED BY <2>2, <2>3
<1> DEFINE S == {k \in Nat : k <= n => Kept(p, h[k], s)}
<1>9. 0 \in S
  BY <1>7 DEF Kept, Untouched, Apart
<1>10. \A k \in Nat : k \in S => k + 1 \in S
  <2> SUFFICES ASSUME NEW k \in Nat, k \in S, k + 1 <= n PROVE Kept(p, h[k + 1], s)
    OBVIOUS
  <2>1. Kept(p, h[k], s) /\ k \in 0 .. n - 1
    OBVIOUS
  <2>2. CASE h[k + 1] = h[k]
    BY <2>1, <2>2
  <2>3. CASE h[k + 1] # h[k]
    <3>1. PICK i \in 0 .. NumGrids : h[k + 1] = FilledAt(h[k], s, i, SideOf(falling))
      BY <1>8, <2>1, <2>3
    <3>2. AccountOk(h[k].account) /\ ~h[k].account.bankrupt /\ h[k].grid \in Grid
      BY <2>1 DEF Kept, Untouched
    <3>3. Kept(h[k], h[k + 1], s)
      BY <3>1, <3>2, FilledAtOk
    <3> QED BY <2>1, <3>3 DEF Kept, Untouched, Apart
  <2> QED BY <2>2, <2>3
<1> HIDE DEF S
<1>11. n \in S
  BY <1>9, <1>10, SetInduction
<1>12. Kept(p, h[n], s)
  BY <1>11 DEF S
<1> QED
  BY <1>6, <1>12


-----------------------------------------------------------------------------
(* New grids and average ranges                                            *)

LEMMA LevelPositive ==
    ASSUME NEW price \in Nat \ {0}, NEW i \in 0 .. NumGrids
    PROVE  LevelsAround(price)[i] \in Nat \ {0}
<1>1. PICK r \in 0 .. 999 : r = RangePct
  BY GridConstants
<1>2. PICK m \in Nat : m = price * r
  OBVIOUS
<1>3. m <= price * 999
  BY <1>2
<1>4. PICK half \in Int : half = m \div 1000
  OBVIOUS
<1>5. half >= 0 /\ half <= price - 1
  BY <1>2, <1>3, <1>4
<1>6. half = Rated(price, RangePct)
  BY <1>1, <1>2, <1>4 DEF Rated, Thousand
<1>7. PICK n \in Nat \ {0} : n = NumGrids
  BY GridConstants
<1>8. PICK x \in Nat : x = i * 2 * half
  <2>1. PICK h \in Nat : h = half
    BY <1>5
  <2>2. i * 2 * h \in Nat
    BY <1>7
  <2> QED BY <2>1, <2>2
<1>9. x \div n >= 0 /\ x \div n \in Int
  OBVIOUS
<1>10. LevelsAround(price)[i] = price - half + x \div n
  BY <1>6, <1>7, <1>8 DEF LevelsAround
<1> QED
  BY <1>5, <1>9, <1>10

LEMMA NewGridOk ==
    ASSUME NEW price \in Nat \ {0}, NEW margin \in Nat, NEW g, g = NewGrid(price, margin)
    PROVE  /\ g \in Grid /\ g.state = "ACTIVE" /\ g.bars = 0 /\ g.streak = 0
           /\ g.margin = margin
<1>1. PICK level : level = LevelsAround(price)
  OBVIOUS
<1>2. level \in [0 .. NumGrids -> Nat \ {0}]
  <2>1. level = [i \in 0 .. NumGrids |-> level[i]]
    BY <1>1 DEF LevelsAround
  <2>2. \A i \in 0 .. NumGrids : level[i] \in Nat \ {0}
    BY <1>1, LevelPositive
  <2> QED BY <2>1, <2>2
<1>3. PICK orders : orders = [buys |-> {i \in DOMAIN level : level[i] < price},
                              sells |-> {i \in DOMAIN level : level[i] > price}]
  OBVIOUS
<1>4. orders \in [buys : SUBSET (0 .. NumGrids), sells : SUBSET (0 .. NumGrids)]
  BY <1>2, <1>3
<1>5. g = [state |-> "ACTIVE", bars |-> 0, streak |-> 0, margin |-> margin, level |-> level,
           stop |-> {}, high |-> price, low |-> price, completed |-> 0, fills |-> 0,
           orders |-> orders]
  BY <1>1, <1>3 DEF NewGrid
<1> QED
  BY <1>2, <1>4, <1>5 DEF Grid

LEMMA BarInt ==
    ASSUME NEW c \in PriceBar
    PROVE  /\ c.open \in Nat \ {0} /\ c.close \in Nat \ {0}
           /\ c.high \in Int /\ c.low \in Int
BY DEF PriceBar

\* There is a range to average once a bar has opened after the first.
LEMMA AtrInt ==
    ASSUME NEW s, candles[s] \in Seq(PriceBar), Len(candles[s]) >= 2
    PROVE  Atr(s) \in Int
<1>1. PICK shown \in Seq(PriceBar) : shown = candles[s] /\ Len(shown) >= 2
  OBVIOUS
<1>1a. Len(shown) \in Nat
  OBVIOUS
<1>1b. PICK l \in Nat : l = Len(shown) /\ l >= 2
  BY <1>1, <1>1a
<1>1c. l - 1 \in Nat \ {0}
  BY <1>1b
<1>1d. Len(shown) - 1 \in Nat \ {0}
  BY <1>1b, <1>1c
<1>2. PICK n \in Nat \ {0} : n = Len(shown) - 1
  BY <1>1d
<1>3. \A k \in 1 .. n : shown[k] \in PriceBar
  BY <1>2
<1>4. \A k \in 1 .. n : TrueRange(shown, k) \in Int
  <2> SUFFICES ASSUME NEW k \in 1 .. n PROVE TrueRange(shown, k) \in Int
    OBVIOUS
  <2>1. shown[k].high \in Int /\ shown[k].low \in Int
    BY <1>3, BarInt
  <2>2. CASE k = 1
    BY <2>1, <2>2 DEF TrueRange
  <2>3. CASE k # 1
    <3>1. shown[k - 1].close \in Int
      <4>1. k - 1 \in 1 .. n
        BY <2>3
      <4>2. shown[k - 1] \in PriceBar
        BY <1>3, <4>1
      <4> QED BY <4>2, BarInt
    <3>2. PICK high, low, close \in Int :
             high = shown[k].high /\ low = shown[k].low /\ close = shown[k - 1].close
      BY <2>1, <3>1
    <3>3. Magnitude(high - close) \in Int /\ Magnitude(low - close) \in Int
      BY DEF Magnitude
    <3>4. Larger(Magnitude(high - close), Magnitude(low - close)) \in Int
      BY <3>3 DEF Larger
    <3> QED BY <2>3, <3>2, <3>4 DEF TrueRange, Larger
  <2> QED BY <2>2, <2>3
<1>5. PICK before \in Nat : before = Larger(0, n - AtrPeriod) /\ before < n
  <2>1. PICK period \in Nat \ {0} : period = AtrPeriod
    BY GridConstants
  <2>2. Larger(0, n - period) \in Nat /\ Larger(0, n - period) < n
    BY DEF Larger
  <2> QED BY <2>1, <2>2
<1>6. PICK w : w = [k \in 1 .. n - before |-> TrueRange(shown, before + k)]
  OBVIOUS
<1>7. \A k \in 1 .. n - before : w[k] \in Int
  <2> SUFFICES ASSUME NEW k \in 1 .. n - before PROVE w[k] \in Int
    OBVIOUS
  <2>1. before + k \in 1 .. n
    OBVIOUS
  <2> QED BY <1>4, <1>6, <2>1
<1>8. PICK m \in Nat \ {0} : m = n - before
  BY <1>5
<1>9. SumTo(w, m) \in Int
  BY <1>7, <1>8, SumToInt
<1>10. SumTo(w, m) \div m \in Int
  BY <1>9
<1> QED
  BY <1>1, <1>2, <1>5, <1>6, <1>8, <1>10 DEF Atr

-----------------------------------------------------------------------------
(* Worlds                                                                  *)

IsWorld(w) ==
    w = [account |-> w.account, grids |-> w.grids, records |-> w.records]

WorldOk(w) ==
    /\ IsWorld(w)
    /\ AccountOk(w.account)
    /\ w.grids \in [Symbols -> Grid \union {None}]

\* Only one symbol is dealt with.
Only(w, v, s) ==
    /\ Untouched(w.account, v.account) /\ Apart(w.account, v.account, s)
    /\ \A x \in Symbols \ {s} : v.grids[x] = w.grids[x]

\* What holds for a symbol between the turns: an inventory only with a grid, whose
\* margin is allotted, and no orders unless it is active.
Managed(w, s) ==
    /\ w.grids[s] = None => w.account.inv[s].qty = 0
    /\ w.grids[s] # None =>
          /\ w.grids[s].margin <= w.account.margin[s]
          /\ w.grids[s].state = "ACTIVE" \/ w.grids[s].orders = NoOrders

LEMMA OnlyTwice ==
    ASSUME NEW u, NEW v, NEW w, NEW s, Only(u, v, s), Only(v, w, s)
    PROVE  Only(u, w, s)
BY DEF Only, Untouched, Apart

LEMMA OnlyItself ==
    ASSUME NEW w, NEW s
    PROVE  Only(w, w, s)
BY DEF Only, Untouched, Apart

\* Another grid for one symbol, on the same account.
LEMMA RegriddedOk ==
    ASSUME NEW w, WorldOk(w), NEW s \in Symbols,
           NEW v, IsWorld(v), v.account = w.account,
           v.grids \in [Symbols -> Grid \union {None}],
           \A x \in Symbols \ {s} : v.grids[x] = w.grids[x]
    PROVE  WorldOk(v) /\ Only(w, v, s)
BY DEF WorldOk, Only, Untouched, Apart

\* Another account that differs in one symbol, with the same grids.
LEMMA ReaccountedOk ==
    ASSUME NEW w, WorldOk(w), NEW s \in Symbols,
           NEW a, AccountOk(a), Untouched(w.account, a), Apart(w.account, a, s),
           NEW v, IsWorld(v), v.account = a, v.grids = w.grids
    PROVE  WorldOk(v) /\ Only(w, v, s)
BY DEF WorldOk, Only

LEMMA DroppedOk ==
    ASSUME NEW w, WorldOk(w), NEW s \in Symbols, NEW v, v = Dropped(w, s)
    PROVE  /\ WorldOk(v) /\ Only(w, v, s) /\ v.grids[s] = None
           /\ v.account.inv = w.account.inv
<1>1. PICK a : a = ReleaseMargin(w.account, s)
  OBVIOUS
<1>2. AccountOk(w.account)
  BY DEF WorldOk
<1>3. /\ AccountOk(a) /\ Untouched(w.account, a) /\ Apart(w.account, a, s)
  BY <1>1, <1>2, ReleaseMarginOk
<1>4. a.inv = w.account.inv
  BY <1>1, <1>2 DEF ReleaseMargin, AccountOk, Accounts
<1>5. PICK u : u = [account |-> a, grids |-> w.grids, records |-> w.records]
  OBVIOUS
<1>5a. IsWorld(u) /\ u.account = a /\ u.grids = w.grids
  BY <1>5 DEF IsWorld
<1>6. WorldOk(u) /\ Only(w, u, s)
  BY <1>3, <1>5a, ReaccountedOk
<1>7. IsWorld(v) /\ v.account = u.account /\ v.grids = [u.grids EXCEPT ![s] = None]
  BY <1>1, <1>5a DEF Dropped, WorldOk, IsWorld
<1>7a. /\ v.grids \in [Symbols -> Grid \union {None}] /\ v.grids[s] = None
       /\ \A x \in Symbols \ {s} : v.grids[x] = u.grids[x]
  BY <1>6, <1>7 DEF WorldOk
<1>8. WorldOk(v) /\ Only(u, v, s)
  BY <1>6, <1>7, <1>7a, RegriddedOk
<1> QED
  BY <1>4, <1>5a, <1>6, <1>7, <1>7a, <1>8, OnlyTwice

LEMMA ExitedOk ==
    ASSUME NEW w, WorldOk(w), NEW s \in Symbols, NEW price \in Int, NEW type, NEW reason,
           NEW v, v = Exited(w, s, price, type, reason)
    PROVE  WorldOk(v) /\ Only(w, v, s) /\ v.grids[s] = None /\ v.account.inv[s].qty = 0
<1>1. CASE w.account.inv[s].qty = 0
  <2>1. v = Dropped(w, s)
    BY <1>1 DEF Exited
  <2> QED
    BY <1>1, <2>1, DroppedOk
<1>2. CASE w.account.inv[s].qty # 0
  <2>1. PICK a : a = MarketClose(w.account, s, price, reason).account
    OBVIOUS
  <2>2. PICK r : r = Append(w.records, ExitRecord(s, type, w.account.inv[s], price,
                                 MarketClose(w.account, s, price, reason).net))
    OBVIOUS
  <2>3. PICK u : u = [w EXCEPT !.account = a, !.records = r]
    OBVIOUS
  <2>4. v = Dropped(u, s)
    <3>1. w = [account |-> w.account, grids |-> w.grids, records |-> w.records]
      BY DEF WorldOk, IsWorld
    <3>2. u = [w EXCEPT !.account = a,
                        !.records = Append(@, ExitRecord(s, type, w.account.inv[s], price,
                                 MarketClose(w.account, s, price, reason).net))]
      BY <2>2, <2>3, <3>1
    <3> QED
      BY <1>2, <2>1, <3>2 DEF Exited
  <2>5. PICK old : old = w.account
    OBVIOUS
  <2>5a. AccountOk(old) /\ a = MarketClose(old, s, price, reason).account
    BY <2>1, <2>5 DEF WorldOk
  <2>5b. /\ AccountOk(a) /\ Untouched(old, a) /\ Apart(old, a, s)
         /\ a.inv[s] = Flat
    BY <2>5a, MarketCloseOk
  <2>6. /\ AccountOk(a) /\ Untouched(w.account, a) /\ Apart(w.account, a, s)
        /\ a.inv[s] = Flat
    BY <2>5, <2>5b
  <2>6a. IsWorld(u) /\ u.account = a /\ u.grids = w.grids
    BY <2>3 DEF WorldOk, IsWorld
  <2>7. WorldOk(u) /\ Only(w, u, s) /\ u.account = a
    BY <2>6, <2>6a, ReaccountedOk
  <2>8. WorldOk(v) /\ Only(u, v, s) /\ v.grids[s] = None /\ v.account.inv = u.account.inv
    BY <2>4, <2>7, DroppedOk
  <2> QED
    BY <2>6, <2>7, <2>8, OnlyTwice, FlatIsSigned
<1> QED
  BY <1>1, <1>2

LEMMA FrozenOk ==
    ASSUME NEW w, WorldOk(w), NEW s \in Symbols, w.grids[s] # None,
           NEW state \in {"FROZEN", "FROZEN_ATR"}, NEW v, v = Frozen(w, s, state)
    PROVE  /\ WorldOk(v) /\ Only(w, v, s) /\ v.account = w.account
           /\ v.grids[s] \in Grid /\ v.grids[s].state = state /\ v.grids[s].orders = NoOrders
           /\ v.grids[s].margin = w.grids[s].margin /\ v.grids[s].streak = w.grids[s].streak
           /\ v.grids[s].bars = w.grids[s].bars
<1>1. w.grids[s] \in Grid
  BY DEF WorldOk
<1>2. PICK none \in [buys : SUBSET (0 .. NumGrids), sells : SUBSET (0 .. NumGrids)] :
         none = NoOrders
  BY DEF NoOrders
<1>3. PICK g : g = [w.grids[s] EXCEPT !.state = state, !.orders = none]
  OBVIOUS
<1>4. /\ g \in Grid /\ g.state = state /\ g.orders = none /\ g.margin = w.grids[s].margin
      /\ g.streak = w.grids[s].streak /\ g.bars = w.grids[s].bars
  BY <1>1, <1>3 DEF Grid
<1>5. IsWorld(v) /\ v.account = w.account /\ v.grids = [w.grids EXCEPT ![s] = g]
  BY <1>2, <1>3 DEF Frozen, WorldOk, IsWorld
<1>6. /\ v.grids \in [Symbols -> Grid \union {None}] /\ v.grids[s] = g
      /\ \A x \in Symbols \ {s} : v.grids[x] = w.grids[x]
  BY <1>4, <1>5 DEF WorldOk
<1>7. WorldOk(v) /\ Only(w, v, s)
  BY <1>5, <1>6, RegriddedOk
<1> QED
  BY <1>2, <1>4, <1>5, <1>6, <1>7


-----------------------------------------------------------------------------
(* A symbol decides at the open of a bar                                   *)

\* The parts of a grid that only a decision changes.
Like(g, h) ==
    h.state = g.state /\ h.bars = g.bars /\ h.streak = g.streak /\ h.margin = g.margin

LEMMA ExitedManaged ==
    ASSUME NEW v, NEW s, v.grids[s] = None, v.account.inv[s].qty = 0
    PROVE  Managed(v, s)
BY DEF Managed

LEMMA StopsAreInt ==
    ASSUME NEW s \in Symbols, candles[s] \in Seq(PriceBar), Len(candles[s]) >= 2,
           NEW price \in Int, NEW qty \in Int
    PROVE  TrailingStop(qty, price, Atr(s)) \in SUBSET Int
<1>1. PICK atr \in Int : atr = Atr(s)
  BY AtrInt
<1>2. AtrMultiplier \in Int
  BY GridConstants
<1>3. PICK far \in Int : far = AtrMultiplier * atr
  BY <1>2
<1> QED
  BY <1>1, <1>3 DEF TrailingStop

LEMMA RefusedOk ==
    ASSUME NEW w, WorldOk(w), NEW s \in Symbols, w.grids[s] # None, Managed(w, s),
           variant \in Variants, candles[s] \in Seq(PriceBar), Len(candles[s]) >= 2,
           NEW price \in Int, NEW v, v = Refused(w, s, price)
    PROVE  /\ WorldOk(v) /\ Only(w, v, s) /\ Managed(v, s)
           /\ v.grids[s] # None => /\ v.grids[s].bars = w.grids[s].bars
                                   /\ v.grids[s].streak = w.grids[s].streak
           /\ variant = "IMMEDIATE_CLOSE" => v.grids[s] = None
           /\ variant \in {"FREEZE", "FREEZE_ATR"} => v.grids[s].state # "ACTIVE"
           /\ variant = "HYSTERESIS" /\ Confirmed(w.grids[s]) => v.grids[s] = None
<1>0. variant \in {"IMMEDIATE_CLOSE", "FREEZE", "FREEZE_ATR", "HYSTERESIS"}
  BY GridAssumption
<1>1. CASE variant = "IMMEDIATE_CLOSE"
  <2>1. v = Exited(w, s, price, "IMMEDIATE", "CHURN")
    BY <1>1 DEF Refused
  <2>2. WorldOk(v) /\ Only(w, v, s) /\ v.grids[s] = None /\ v.account.inv[s].qty = 0
    BY <2>1, ExitedOk
  <2> QED BY <1>1, <2>2, ExitedManaged
<1>2. CASE variant = "FREEZE" /\ w.grids[s].state = "ACTIVE"
  <2>1. v = Frozen(w, s, "FROZEN")
    BY <1>2 DEF Refused
  <2>2. /\ WorldOk(v) /\ Only(w, v, s) /\ v.account = w.account
        /\ v.grids[s] \in Grid /\ v.grids[s].state = "FROZEN" /\ v.grids[s].orders = NoOrders
        /\ v.grids[s].margin = w.grids[s].margin /\ v.grids[s].streak = w.grids[s].streak
        /\ v.grids[s].bars = w.grids[s].bars
    BY <2>1, FrozenOk
  <2>3. v.grids[s] # None
    BY <2>2, NoneIsNoGrid
  <2> QED BY <1>2, <2>2, <2>3 DEF Managed
<1>3. CASE variant = "FREEZE_ATR" /\ w.grids[s].state = "ACTIVE"
  <2>1. PICK u : u = Frozen(w, s, "FROZEN_ATR")
    OBVIOUS
  <2>2. /\ WorldOk(u) /\ Only(w, u, s) /\ u.account = w.account
        /\ u.grids[s] \in Grid /\ u.grids[s].state = "FROZEN_ATR"
        /\ u.grids[s].orders = NoOrders
        /\ u.grids[s].margin = w.grids[s].margin /\ u.grids[s].streak = w.grids[s].streak
        /\ u.grids[s].bars = w.grids[s].bars
    BY <2>1, FrozenOk
  <2>3. PICK stops \in SUBSET Int :
           stops = TrailingStop(w.account.inv[s].qty, price, Atr(s))
    <3>1. w.account.inv[s].qty \in Int
      BY DEF WorldOk, AccountOk, Accounts, Inventory
    <3> QED BY <3>1, StopsAreInt
  <2>4. v = [u EXCEPT !.grids[s] = [@ EXCEPT !.high = price, !.low = price, !.stop = stops]]
    BY <1>3, <2>1, <2>3 DEF Refused
  <2>5. PICK g : g = [u.grids[s] EXCEPT !.high = price, !.low = price, !.stop = stops]
    OBVIOUS
  <2>6. /\ g \in Grid /\ g.state = "FROZEN_ATR" /\ g.orders = NoOrders
        /\ g.margin = w.grids[s].margin /\ g.streak = w.grids[s].streak
        /\ g.bars = w.grids[s].bars
    BY <2>2, <2>5 DEF Grid
  <2>7. IsWorld(v) /\ v.account = u.account /\ v.grids = [u.grids EXCEPT ![s] = g]
    BY <2>2, <2>4, <2>5 DEF WorldOk, IsWorld
  <2>8. /\ v.grids \in [Symbols -> Grid \union {None}] /\ v.grids[s] = g
        /\ \A x \in Symbols \ {s} : v.grids[x] = u.grids[x]
    BY <2>2, <2>6, <2>7 DEF WorldOk
  <2>9. WorldOk(v) /\ Only(u, v, s)
    BY <2>2, <2>7, <2>8, RegriddedOk
  <2>10. Only(w, v, s)
    BY <2>2, <2>9, OnlyTwice
  <2>11. v.grids[s] # None
    BY <2>6, <2>8, NoneIsNoGrid
  <2>12. v.account = w.account
    BY <2>2, <2>7
  <2>13. Managed(v, s)
    BY <2>6, <2>8, <2>11, <2>12 DEF Managed
  <2> QED BY <1>3, <2>6, <2>8, <2>9, <2>10, <2>13
<1>4. CASE variant \in {"FREEZE", "FREEZE_ATR"} /\ w.grids[s].state # "ACTIVE"
  <2>1. v = w
    BY <1>4 DEF Refused
  <2> QED BY <1>4, <2>1, OnlyItself
<1>5. CASE variant = "HYSTERESIS" /\ Confirmed(w.grids[s])
  <2>1. v = Exited(w, s, price, "HYSTERESIS_CONFIRMED", "CHURN")
    BY <1>5 DEF Refused
  <2>2. WorldOk(v) /\ Only(w, v, s) /\ v.grids[s] = None /\ v.account.inv[s].qty = 0
    BY <2>1, ExitedOk
  <2> QED BY <1>5, <2>2, ExitedManaged
<1>6. CASE variant = "HYSTERESIS" /\ ~Confirmed(w.grids[s])
  <2>1. v = w
    BY <1>6 DEF Refused
  <2> QED BY <1>6, <2>1, OnlyItself
<1> QED
  BY <1>0, <1>1, <1>2, <1>3, <1>4, <1>5, <1>6

LEMMA RecenteredOk ==
    ASSUME NEW w, WorldOk(w), NEW s \in Symbols, w.grids[s] # None, Managed(w, s),
           NEW price \in Int, NEW v, v = Recentered(w, s, price)
    PROVE  /\ WorldOk(v) /\ Only(w, v, s) /\ Managed(v, s)
           /\ v.grids[s] # None => v.grids[s] = w.grids[s] /\ v.grids[s].state = "ACTIVE"
<1>1. CASE w.grids[s].state \in {"FROZEN", "FROZEN_ATR"}
  <2>1. v = Exited(w, s, price, "RECENTER_CHOP", "RECENTER")
    BY <1>1 DEF Recentered
  <2>2. WorldOk(v) /\ Only(w, v, s) /\ v.grids[s] = None /\ v.account.inv[s].qty = 0
    BY <2>1, ExitedOk
  <2> QED BY <2>2, ExitedManaged
<1>2. CASE w.grids[s].state \notin {"FROZEN", "FROZEN_ATR"}
  <2>1. v = w
    BY <1>2 DEF Recentered
  <2>2. w.grids[s].state = "ACTIVE"
    <3>1. w.grids[s] \in Grid
      BY DEF WorldOk
    <3> QED BY <1>2, <3>1 DEF Grid
  <2> QED BY <2>1, <2>2, OnlyItself
<1> QED
  BY <1>1, <1>2

LEMMA TimedOutOk ==
    ASSUME NEW w, WorldOk(w), NEW s \in Symbols, Managed(w, s),
           NEW price \in Int, NEW v, v = TimedOut(w, s, price)
    PROVE  /\ WorldOk(v) /\ Only(w, v, s) /\ Managed(v, s)
           /\ v.grids[s] # None => v.grids[s] = w.grids[s] /\ v.grids[s].bars < MaxSessionBars
<1>1. CASE w.grids[s] # None /\ w.grids[s].bars >= MaxSessionBars
  <2>1. PICK old : old = w.account
    OBVIOUS
  <2>2. PICK a : a = MarketClose(old, s, price, "TIMEOUT").account
    OBVIOUS
  <2>3. AccountOk(old)
    BY <2>1 DEF WorldOk
  <2>4. AccountOk(a) /\ Untouched(old, a) /\ Apart(old, a, s) /\ a.inv[s] = Flat
    BY <2>2, <2>3, MarketCloseOk
  <2>5. PICK u : u = [w EXCEPT !.account = a]
    OBVIOUS
  <2>6. IsWorld(u) /\ u.account = a /\ u.grids = w.grids
    BY <2>5 DEF WorldOk, IsWorld
  <2>7. WorldOk(u) /\ Only(w, u, s)
    BY <2>1, <2>4, <2>6, ReaccountedOk
  <2>8. v = Dropped(u, s)
    BY <1>1, <2>1, <2>2, <2>5 DEF TimedOut, WorldOk, IsWorld
  <2>9. WorldOk(v) /\ Only(u, v, s) /\ v.grids[s] = None /\ v.account.inv = u.account.inv
    BY <2>7, <2>8, DroppedOk
  <2>10. v.account.inv[s].qty = 0
    BY <2>4, <2>6, <2>9, FlatIsSigned
  <2> QED BY <2>7, <2>9, <2>10, OnlyTwice, ExitedManaged
<1>2. CASE ~(w.grids[s] # None /\ w.grids[s].bars >= MaxSessionBars)
  <2>1. v = w
    BY <1>2 DEF TimedOut
  <2>2. ASSUME w.grids[s] # None PROVE w.grids[s].bars < MaxSessionBars
    <3>1. w.grids[s].bars \in Nat
      BY <2>2 DEF WorldOk, Grid
    <3> QED BY <1>2, <2>2, <3>1, GridConstants
  <2> QED BY <2>1, <2>2, OnlyItself
<1> QED
  BY <1>1, <1>2

\* The margins of all symbols together are within the equity, and the grid of the
\* symbol is within its margin.
Covered(w, s, prices) ==
    /\ MarginAllocated(w.account) <= EquityOf(w.account, prices)
    /\ w.account.margin[s] >= w.grids[s].margin

LEMMA ReopenedOk ==
    ASSUME NEW w, WorldOk(w), NEW s \in Symbols, ~w.account.bankrupt,
           w.grids[s] = None, w.account.inv[s].qty = 0,
           NEW prices, \A x \in Symbols : prices[x] \in Nat \ {0},
           NEW v, v = Reopened(w, s, prices)
    PROVE  /\ WorldOk(v) /\ Only(w, v, s) /\ Managed(v, s)
           /\ v.grids[s] # None => /\ v.grids[s].state = "ACTIVE"
                                   /\ v.grids[s].bars < MaxSessionBars
                                   /\ Covered(v, s, prices)
<1>1. PICK old : old = w.account
  OBVIOUS
<1>2. AccountOk(old) /\ old \in Accounts /\ ~old.bankrupt
  BY <1>1 DEF WorldOk, AccountOk
<1>3. PICK free \in Nat : free = AvailableMargin(old, prices)
  <2>1. \A x \in Symbols : prices[x] \in Int
    OBVIOUS
  <2> QED BY <1>2, <2>1, WorthInt
<1>4. PICK amount \in Nat : amount = Allotment(old, RequestedMargin, prices) /\ amount <= free
  BY <1>3, GridConstants DEF Allotment, Smaller
<1>5. PICK a : a = AllocateMargin(old, s, amount)
  OBVIOUS
<1>6. /\ AccountOk(a) /\ Untouched(old, a) /\ Apart(old, a, s)
      /\ a.wallet = old.wallet /\ a.inv = old.inv
      /\ a.margin[s] = old.margin[s] + amount
      /\ MarginAllocated(a) = MarginAllocated(old) + amount
      /\ MarginAllocated(old) \in Int
  BY <1>2, <1>5, AllocateMarginOk
<1>7. PICK taken : taken = [w EXCEPT !.account = a]
  OBVIOUS
<1>8. IsWorld(taken) /\ taken.account = a /\ taken.grids = w.grids
  BY <1>7 DEF WorldOk, IsWorld
<1>9. WorldOk(taken) /\ Only(w, taken, s)
  BY <1>1, <1>6, <1>8, ReaccountedOk
<1>10. CASE amount < MinimumMargin
  <2>1. v = taken
    BY <1>1, <1>4, <1>5, <1>7, <1>10, GridConstants DEF Reopened, WorldOk, IsWorld
  <2> QED
    BY <1>1, <1>6, <1>8, <1>9, <2>1 DEF Managed
<1>11. CASE amount >= MinimumMargin
  <2>1. PICK g : g = NewGrid(prices[s], amount)
    OBVIOUS
  <2>2. /\ g \in Grid /\ g.state = "ACTIVE" /\ g.bars = 0 /\ g.streak = 0
        /\ g.margin = amount
    BY <2>1, NewGridOk
  <2>3. v = [taken EXCEPT !.grids[s] = g]
    BY <1>1, <1>4, <1>5, <1>7, <1>11, <2>1 DEF Reopened, WorldOk, IsWorld
  <2>4. IsWorld(v) /\ v.account = taken.account /\ v.grids = [taken.grids EXCEPT ![s] = g]
    BY <1>8, <2>3 DEF IsWorld
  <2>5. /\ v.grids \in [Symbols -> Grid \union {None}] /\ v.grids[s] = g
        /\ \A x \in Symbols \ {s} : v.grids[x] = taken.grids[x]
    BY <1>9, <2>2, <2>4 DEF WorldOk
  <2>6. WorldOk(v) /\ Only(taken, v, s)
    BY <1>9, <2>4, <2>5, RegriddedOk
  <2>7. g # None
    BY <2>2, NoneIsNoGrid
  <2>8. v.account = a
    BY <1>8, <2>4
  <2>9. old.margin[s] \in Nat
    BY <1>2 DEF Accounts
  <2>10. Managed(v, s)
    BY <1>6, <2>2, <2>5, <2>7, <2>8, <2>9 DEF Managed
  <2>11. MarginAllocated(a) <= EquityOf(a, prices)
    <3>1. EquityOf(a, prices) = EquityOf(old, prices)
      BY <1>6, SameWorth DEF Untouched
    <3>2. PICK equity \in Nat : equity = EquityOf(old, prices)
      <4>1. \A x \in Symbols : prices[x] \in Int
        OBVIOUS
      <4> QED BY <1>2, <4>1, WorthInt
    <3>3. PICK allotted \in Int : allotted = MarginAllocated(old)
      BY <1>6
    <3>4. free = Larger(0, equity - allotted)
      BY <1>2, <1>3, <3>2, <3>3 DEF AvailableMargin
    <3>5. amount > 0
      BY <1>11, GridConstants
    <3>6. allotted + amount <= equity
      BY <1>4, <3>4, <3>5 DEF Larger
    <3> QED BY <1>6, <3>1, <3>2, <3>3, <3>6
  <2>12. Covered(v, s, prices)
    BY <1>6, <2>2, <2>5, <2>8, <2>9, <2>11 DEF Covered
  <2> QED
    BY <1>9, <2>2, <2>5, <2>6, <2>10, <2>12, OnlyTwice, GridConstants
<1>12. MinimumMargin \in Nat
  BY GridConstants
<1> QED
  BY <1>10, <1>11, <1>12


\* What the variant demands of a symbol whose regime has just been looked at; the
\* streak is the one before this look.
Demanded(w, v, s, ok) ==
    /\ ok => v.grids[s] = None \/ v.grids[s].state = "ACTIVE"
    /\ ~ok => /\ variant = "IMMEDIATE_CLOSE" => v.grids[s] = None
              /\ variant \in {"FREEZE", "FREEZE_ATR"} =>
                    v.grids[s] = None \/ v.grids[s].state # "ACTIVE"
              /\ variant = "HYSTERESIS" /\ w.grids[s] # None
                    /\ w.grids[s].streak + 1 >= HysteresisBars => v.grids[s] = None
              /\ v.grids[s] # None => /\ w.grids[s] # None
                                      /\ v.grids[s].streak = w.grids[s].streak + 1

Counted(w, s, ok) == [w EXCEPT !.grids[s] = Aged(@, ok)]

LEMMA CountedOk ==
    ASSUME NEW w, WorldOk(w), NEW s \in Symbols, w.grids[s] # None, Managed(w, s),
           NEW ok \in BOOLEAN,
           NEW v, v = Counted(w, s, ok)
    PROVE  /\ WorldOk(v) /\ Only(w, v, s) /\ Managed(v, s) /\ v.grids[s] # None
           /\ v.grids[s].streak = IF ok THEN 0 ELSE w.grids[s].streak + 1
<1>1. w.grids[s] \in Grid /\ w.grids \in [Symbols -> Grid \union {None}]
  BY DEF WorldOk
<1>2. PICK aged \in Nat : aged = w.grids[s].bars + 1
  BY <1>1 DEF Grid
<1>3. PICK streak \in Nat : streak = IF ok THEN 0 ELSE w.grids[s].streak + 1
  BY <1>1 DEF Grid
<1>4. PICK g : g = [w.grids[s] EXCEPT !.bars = aged, !.streak = streak]
  OBVIOUS
<1>5. /\ g \in Grid /\ g.streak = streak /\ g.state = w.grids[s].state
      /\ g.orders = w.grids[s].orders /\ g.margin = w.grids[s].margin
  BY <1>1, <1>4 DEF Grid
<1>6. IsWorld(v) /\ v.account = w.account /\ v.grids = [w.grids EXCEPT ![s] = g]
  <2>1. g = Aged(w.grids[s], ok)
    BY <1>1, <1>2, <1>3, <1>4 DEF Aged, Grid
  <2> QED
    BY <2>1 DEF Counted, WorldOk, IsWorld
<1>7. /\ v.grids \in [Symbols -> Grid \union {None}] /\ v.grids[s] = g
      /\ \A x \in Symbols \ {s} : v.grids[x] = w.grids[x]
  BY <1>1, <1>5, <1>6
<1>8. WorldOk(v) /\ Only(w, v, s)
  BY <1>6, <1>7, RegriddedOk
<1>9. g # None
  BY <1>5, NoneIsNoGrid
<1> QED
  BY <1>3, <1>5, <1>6, <1>7, <1>8, <1>9 DEF Managed

LEMMA JudgedOk ==
    ASSUME NEW w, WorldOk(w), NEW s \in Symbols, w.grids[s] # None, Managed(w, s),
           variant \in Variants, candles[s] \in Seq(PriceBar), Len(candles[s]) >= 2,
           NEW ok \in BOOLEAN, NEW price \in Int,
           NEW c, c = Counted(w, s, ok),
           NEW v, v = TimedOut(IF ok THEN Recentered(c, s, price) ELSE Refused(c, s, price),
                               s, price)
    PROVE  /\ WorldOk(v) /\ Only(w, v, s) /\ Managed(v, s) /\ Demanded(w, v, s, ok)
           /\ v.grids[s] # None => v.grids[s].bars < MaxSessionBars
<1>1. /\ WorldOk(c) /\ Only(w, c, s) /\ Managed(c, s) /\ c.grids[s] # None
      /\ c.grids[s].streak = IF ok THEN 0 ELSE w.grids[s].streak + 1
  BY CountedOk
<1>2. PICK u : u = IF ok THEN Recentered(c, s, price) ELSE Refused(c, s, price)
  OBVIOUS
<1>3. v = TimedOut(u, s, price)
  BY <1>2
<1>4. CASE ok
  <2>1. /\ WorldOk(u) /\ Only(c, u, s) /\ Managed(u, s)
        /\ u.grids[s] # None => u.grids[s].state = "ACTIVE"
    <3>1. u = Recentered(c, s, price)
      BY <1>2, <1>4
    <3> QED BY <1>1, <3>1, RecenteredOk
  <2>2. /\ WorldOk(v) /\ Only(u, v, s) /\ Managed(v, s)
        /\ v.grids[s] # None => v.grids[s] = u.grids[s] /\ v.grids[s].bars < MaxSessionBars
    BY <1>3, <2>1, TimedOutOk
  <2>3. Only(w, v, s)
    BY <1>1, <2>1, <2>2, OnlyTwice
  <2> QED
    BY <1>4, <2>1, <2>2, <2>3 DEF Demanded
<1>5. CASE ~ok
  <2>1. u = Refused(c, s, price)
    BY <1>2, <1>5
  <2>2. /\ WorldOk(u) /\ Only(c, u, s) /\ Managed(u, s)
        /\ u.grids[s] # None => u.grids[s].streak = c.grids[s].streak
        /\ variant = "IMMEDIATE_CLOSE" => u.grids[s] = None
        /\ variant \in {"FREEZE", "FREEZE_ATR"} => u.grids[s].state # "ACTIVE"
        /\ variant = "HYSTERESIS" /\ Confirmed(c.grids[s]) => u.grids[s] = None
    BY <1>1, <2>1, RefusedOk
  <2>3. /\ WorldOk(v) /\ Only(u, v, s) /\ Managed(v, s)
        /\ v.grids[s] # None => v.grids[s] = u.grids[s] /\ v.grids[s].bars < MaxSessionBars
    BY <1>3, <2>2, TimedOutOk
  <2>4. Only(w, v, s)
    BY <1>1, <2>2, <2>3, OnlyTwice
  <2>5. c.grids[s].streak = w.grids[s].streak + 1
    BY <1>1, <1>5
  <2>6. Demanded(w, v, s, ok)
    BY <1>5, <2>2, <2>3, <2>5 DEF Demanded, Confirmed
  <2> QED
    BY <2>3, <2>4, <2>6
<1> QED
  BY <1>4, <1>5

LEMMA DecidedOk ==
    ASSUME NEW w, WorldOk(w), NEW s \in Symbols, ~w.account.bankrupt, Managed(w, s),
           variant \in Variants, candles[s] \in Seq(PriceBar), Len(candles[s]) >= 2,
           NEW ok \in BOOLEAN,
           NEW prices, \A x \in Symbols : prices[x] \in Nat \ {0},
           NEW v, v = Decided(w, s, ok, prices)
    PROVE  /\ WorldOk(v) /\ Only(w, v, s) /\ Managed(v, s) /\ Demanded(w, v, s, ok)
           /\ v.grids[s] # None /\ w.grids[s] # None => v.grids[s].bars < MaxSessionBars
           /\ v.grids[s] # None /\ w.grids[s] = None =>
                 Covered(v, s, prices) /\ v.grids[s].bars < MaxSessionBars
<1>1. PICK c : c = Counted(w, s, ok)
  OBVIOUS
<1>2. PICK price \in Nat \ {0} : price = prices[s]
  OBVIOUS
<1>3. PICK j : j = IF w.grids[s] = None THEN w
                   ELSE TimedOut(IF ok THEN Recentered(c, s, price) ELSE Refused(c, s, price),
                                 s, price)
  OBVIOUS
<1>4. v = IF j.grids[s] = None /\ ok THEN Reopened(j, s, prices) ELSE j
  BY <1>1, <1>2, <1>3 DEF Decided, Counted
<1>5. /\ WorldOk(j) /\ Only(w, j, s) /\ Managed(j, s) /\ Demanded(w, j, s, ok)
      /\ w.grids[s] # None /\ j.grids[s] # None => j.grids[s].bars < MaxSessionBars
      /\ w.grids[s] = None => j.grids[s] = None
  <2>1. CASE w.grids[s] = None
    <3>1. j = w
      BY <1>3, <2>1
    <3> QED BY <2>1, <3>1, OnlyItself DEF Demanded
  <2>2. CASE w.grids[s] # None
    <3>1. j = TimedOut(IF ok THEN Recentered(c, s, price) ELSE Refused(c, s, price), s, price)
      BY <1>3, <2>2
    <3>2. price \in Int
      OBVIOUS
    <3> QED BY <1>1, <2>2, <3>1, <3>2, JudgedOk
  <2> QED BY <2>1, <2>2
<1>6. CASE ~(j.grids[s] = None /\ ok)
  <2>1. v = j
    BY <1>4, <1>6
  <2> QED BY <1>5, <2>1
<1>7. CASE j.grids[s] = None /\ ok
  <2>1. v = Reopened(j, s, prices)
    BY <1>4, <1>7
  <2>2. j.account.inv[s].qty = 0
    BY <1>5, <1>7 DEF Managed
  <2>3. ~j.account.bankrupt
    BY <1>5 DEF Only, Untouched
  <2>4. /\ WorldOk(v) /\ Only(j, v, s) /\ Managed(v, s)
        /\ v.grids[s] # None => /\ v.grids[s].state = "ACTIVE"
                                /\ v.grids[s].bars < MaxSessionBars
                                /\ Covered(v, s, prices)
    BY <1>5, <1>7, <2>1, <2>2, <2>3, ReopenedOk
  <2>5. Only(w, v, s)
    BY <1>5, <2>4, OnlyTwice
  <2> QED BY <1>7, <2>4, <2>5 DEF Demanded
<1> QED
  BY <1>6, <1>7

-----------------------------------------------------------------------------
(* A symbol plays a bar                                                    *)

LEMMA KeptTwice ==
    ASSUME NEW p, NEW q, NEW r, NEW s, Kept(p, q, s), Kept(q, r, s)
    PROVE  Kept(p, r, s)
BY DEF Kept, Untouched, Apart

\* A grid that is still there after a step of the bar is the one that was there.
Stays(w, v, s) ==
    v.grids[s] # None => w.grids[s] # None /\ Like(w.grids[s], v.grids[s])

LEMMA TrailedOk ==
    ASSUME NEW w, WorldOk(w), NEW s \in Symbols, Managed(w, s),
           candles[s] \in Seq(PriceBar), Len(candles[s]) >= 2,
           NEW c \in PriceBar, NEW v, v = Trailed(w, s, c)
    PROVE  WorldOk(v) /\ Only(w, v, s) /\ Managed(v, s) /\ Stays(w, v, s)
<1>1. CASE w.grids[s] = None
  <2>1. v = w
    BY <1>1 DEF Trailed
  <2> QED BY <1>1, <2>1, OnlyItself DEF Stays
<1>2. CASE w.grids[s] # None /\ (w.grids[s].state # "FROZEN_ATR" \/ w.grids[s].stop = {})
  <2>1. v = w
    BY <1>2 DEF Trailed
  <2> QED BY <1>2, <2>1, OnlyItself DEF Stays, Like
<1>3. CASE w.grids[s] # None /\ w.grids[s].state = "FROZEN_ATR" /\ w.grids[s].stop # {}
  <2>1. PICK g \in Grid : g = w.grids[s]
    BY <1>3 DEF WorldOk
  <2>2. g.stop \in SUBSET Int /\ g.high \in Int /\ g.low \in Int
    BY DEF Grid
  <2>3. PICK long : long = (w.account.inv[s].qty > 0)
    OBVIOUS
  <2>4. PICK old \in Int : old = StopOf(g)
    BY <1>3, <2>1, <2>2 DEF StopOf
  <2>5. PICK extended : extended = IF long THEN c.high > g.high ELSE c.low < g.low
    OBVIOUS
  <2>6. c.high \in Int /\ c.low \in Int
    BY BarInt
  <2>7. PICK far \in Int : far = AtrMultiplier * Atr(s)
    <3>1. PICK atr \in Int : atr = Atr(s)
      BY AtrInt
    <3>2. AtrMultiplier \in Int
      BY GridConstants
    <3> QED BY <3>1, <3>2
  <2>8. PICK moved \in Int : moved = IF long THEN Larger(old, c.high - far)
                                     ELSE Smaller(old, c.low + far)
    BY <2>6 DEF Larger, Smaller
  <2>9. PICK stop \in Int : stop = IF extended THEN moved ELSE old
    OBVIOUS
  <2>10. PICK high \in Int : high = IF long THEN Larger(g.high, c.high) ELSE g.high
    BY <2>2, <2>6 DEF Larger
  <2>11. PICK low \in Int : low = IF long THEN g.low ELSE Smaller(g.low, c.low)
    BY <2>2, <2>6 DEF Smaller
  <2>12. PICK h : h = [g EXCEPT !.stop = {stop}, !.high = high, !.low = low]
    OBVIOUS
  <2>13. h \in Grid /\ Like(g, h) /\ h.orders = g.orders
    <3>1. {stop} \in SUBSET Int
      OBVIOUS
    <3> QED BY <2>12, <3>1 DEF Grid, Like
  <2>14. PICK kept : kept = [w EXCEPT !.grids[s] = h]
    OBVIOUS
  <2>15. v = IF (IF long THEN c.low <= stop ELSE c.high >= stop)
             THEN Exited(kept, s, stop, "ATR_TRAILING", "SL") ELSE kept
    <3>1. h = Followed(g, long, stop, c)
      BY <2>10, <2>11, <2>12 DEF Followed, Grid
    <3>2. kept = [w EXCEPT !.grids[s] = Followed(@, long, stop, c)]
      BY <2>1, <2>14, <3>1 DEF WorldOk, IsWorld
    <3>3. moved = IF long THEN Larger(old, c.high - AtrMultiplier * Atr(s))
                  ELSE Smaller(old, c.low + AtrMultiplier * Atr(s))
      BY <2>7, <2>8
    <3> QED
      BY <1>3, <2>1, <2>3, <2>4, <2>5, <2>9, <3>2, <3>3 DEF Trailed
  <2>16. IsWorld(kept) /\ kept.account = w.account /\ kept.grids = [w.grids EXCEPT ![s] = h]
    BY <2>14 DEF WorldOk, IsWorld
  <2>17. /\ kept.grids \in [Symbols -> Grid \union {None}] /\ kept.grids[s] = h
         /\ \A x \in Symbols \ {s} : kept.grids[x] = w.grids[x]
    BY <2>13, <2>16 DEF WorldOk
  <2>18. WorldOk(kept) /\ Only(w, kept, s)
    BY <2>16, <2>17, RegriddedOk
  <2>19. CASE IF long THEN c.low <= stop ELSE c.high >= stop
    <3>1. v = Exited(kept, s, stop, "ATR_TRAILING", "SL")
      BY <2>15, <2>19
    <3>2. WorldOk(v) /\ Only(kept, v, s) /\ v.grids[s] = None /\ v.account.inv[s].qty = 0
      BY <2>18, <3>1, ExitedOk
    <3> QED BY <2>18, <3>2, OnlyTwice, ExitedManaged DEF Stays
  <2>20. CASE ~(IF long THEN c.low <= stop ELSE c.high >= stop)
    <3>1. v = kept
      BY <2>15, <2>20
    <3>2. h # None
      BY <2>13, NoneIsNoGrid
    <3>3. Managed(v, s)
      BY <1>3, <2>1, <2>13, <2>16, <2>17, <3>1, <3>2 DEF Managed, Like
    <3>4. Stays(w, v, s)
      BY <1>3, <2>1, <2>13, <2>17, <3>1 DEF Stays
    <3> QED BY <2>18, <3>1, <3>3, <3>4
  <2> QED BY <2>19, <2>20
<1> QED
  BY <1>1, <1>2, <1>3

LEMMA WorkedOk ==
    ASSUME NEW w, WorldOk(w), NEW s \in Symbols, ~w.account.bankrupt, Managed(w, s),
           NEW c \in PriceBar, NEW v, v = Worked(w, s, c)
    PROVE  WorldOk(v) /\ Only(w, v, s) /\ Managed(v, s) /\ Stays(w, v, s)
<1>1. CASE w.grids[s] = None \/ w.grids[s].state # "ACTIVE"
  <2>1. v = w
    BY <1>1 DEF Worked
  <2> QED BY <1>1, <2>1, OnlyItself DEF Stays, Like
<1>2. CASE w.grids[s] # None /\ w.grids[s].state = "ACTIVE"
  <2>1. PICK leg : leg = Legs(c.open, c)
    OBVIOUS
  <2>2. PICK p : p = [account |-> w.account, grid |-> w.grids[s]]
    OBVIOUS
  <2>3. PICK first : first = ExecuteLeg(p, s, leg[1])
    OBVIOUS
  <2>4. PICK second : second = ExecuteLeg(first, s, leg[2])
    OBVIOUS
  <2>5. PICK done : done = ExecuteLeg(second, s, leg[3])
    OBVIOUS
  <2>6. v = [w EXCEPT !.account = done.account, !.grids[s] = done.grid]
    BY <1>2, <2>1, <2>2, <2>3, <2>4, <2>5 DEF Worked
  <2>7. AccountOk(p.account) /\ ~p.account.bankrupt /\ p.grid \in Grid
    BY <1>2, <2>2 DEF WorldOk
  <2>8. Kept(p, first, s)
    BY <2>3, <2>7, LegOk
  <2>9. AccountOk(first.account) /\ ~first.account.bankrupt /\ first.grid \in Grid
    BY <2>7, <2>8 DEF Kept, Untouched
  <2>10. Kept(first, second, s)
    BY <2>4, <2>9, LegOk
  <2>11. AccountOk(second.account) /\ ~second.account.bankrupt /\ second.grid \in Grid
    BY <2>9, <2>10 DEF Kept, Untouched
  <2>12. Kept(second, done, s)
    BY <2>5, <2>11, LegOk
  <2>13. Kept(p, done, s)
    BY <2>8, <2>10, <2>12, KeptTwice
  <2>14. PICK u : u = [account |-> done.account, grids |-> w.grids, records |-> w.records]
    OBVIOUS
  <2>15. IsWorld(u) /\ u.account = done.account /\ u.grids = w.grids
    BY <2>14 DEF IsWorld
  <2>16. /\ AccountOk(done.account) /\ Untouched(w.account, done.account)
         /\ Apart(w.account, done.account, s) /\ done.account.margin = w.account.margin
         /\ done.grid \in Grid /\ Like(w.grids[s], done.grid)
    BY <2>2, <2>13 DEF Kept, Like
  <2>17. WorldOk(u) /\ Only(w, u, s)
    BY <2>15, <2>16, ReaccountedOk
  <2>18. IsWorld(v) /\ v.account = u.account /\ v.grids = [u.grids EXCEPT ![s] = done.grid]
    BY <2>6, <2>15 DEF WorldOk, IsWorld
  <2>19. /\ v.grids \in [Symbols -> Grid \union {None}] /\ v.grids[s] = done.grid
         /\ \A x \in Symbols \ {s} : v.grids[x] = u.grids[x]
    BY <2>16, <2>17, <2>18 DEF WorldOk
  <2>20. WorldOk(v) /\ Only(u, v, s)
    BY <2>17, <2>18, <2>19, RegriddedOk
  <2>21. done.grid # None
    BY <2>16, NoneIsNoGrid
  <2>22. Managed(v, s)
    BY <1>2, <2>15, <2>16, <2>18, <2>19, <2>21 DEF Managed, Like
  <2>23. Stays(w, v, s)
    BY <1>2, <2>16, <2>19 DEF Stays
  <2>24. Only(w, v, s)
    BY <2>17, <2>20, OnlyTwice
  <2> QED
    BY <2>20, <2>22, <2>23, <2>24
<1> QED
  BY <1>1, <1>2

LEMMA StopLossOk ==
    ASSUME NEW w, WorldOk(w), NEW s \in Symbols, Managed(w, s),
           NEW c \in PriceBar, NEW v, v = StopLoss(w, s, c)
    PROVE  WorldOk(v) /\ Only(w, v, s) /\ Managed(v, s) /\ Stays(w, v, s)
<1>1. CASE v = w
  BY <1>1, OnlyItself DEF Stays, Like
<1>2. CASE v # w
  <2>1. v = Exited(w, s, c.close, "SL_HIT", "SL")
    BY <1>2 DEF StopLoss
  <2>2. c.close \in Int
    BY BarInt
  <2>3. WorldOk(v) /\ Only(w, v, s) /\ v.grids[s] = None /\ v.account.inv[s].qty = 0
    BY <2>1, <2>2, ExitedOk
  <2> QED
    BY <2>3, ExitedManaged DEF Stays
<1> QED
  BY <1>1, <1>2

LEMMA PlayedOk ==
    ASSUME NEW w, WorldOk(w), NEW s \in Symbols, ~w.account.bankrupt, Managed(w, s),
           candles[s] \in Seq(PriceBar), Len(candles[s]) >= 2,
           NEW c \in PriceBar, NEW v, v = Played(w, s, c)
    PROVE  WorldOk(v) /\ Only(w, v, s) /\ Managed(v, s) /\ Stays(w, v, s)
<1>1. PICK t : t = Trailed(w, s, c)
  OBVIOUS
<1>2. PICK u : u = Worked(t, s, c)
  OBVIOUS
<1>3. v = StopLoss(u, s, c)
  BY <1>1, <1>2 DEF Played
<1>4. WorldOk(t) /\ Only(w, t, s) /\ Managed(t, s) /\ Stays(w, t, s)
  BY <1>1, TrailedOk
<1>5. ~t.account.bankrupt
  BY <1>4 DEF Only, Untouched
<1>6. WorldOk(u) /\ Only(t, u, s) /\ Managed(u, s) /\ Stays(t, u, s)
  BY <1>2, <1>4, <1>5, WorkedOk
<1>7. WorldOk(v) /\ Only(u, v, s) /\ Managed(v, s) /\ Stays(u, v, s)
  BY <1>3, <1>6, StopLossOk
<1>8. Only(w, v, s)
  BY <1>4, <1>6, <1>7, OnlyTwice
<1>9. Stays(w, v, s)
  BY <1>4, <1>6, <1>7 DEF Stays, Like
<1> QED
  BY <1>7, <1>8, <1>9


-----------------------------------------------------------------------------
(* The loop                                                                *)

\* What the variant demands of a symbol that has decided about the bar.
Obeyed(s) ==
    /\ variant = "IMMEDIATE_CLOSE" /\ RefusedFor(s, 1) => grids[s] = None
    /\ variant \in {"FREEZE", "FREEZE_ATR"} /\ RefusedFor(s, 1) =>
          grids[s] = None \/ grids[s].state # "ACTIVE"
    /\ variant = "HYSTERESIS" /\ RefusedFor(s, HysteresisBars) => grids[s] = None
    /\ RefusedFor(s, 1) \/ grids[s] = None \/ grids[s].state = "ACTIVE"

\* The symbol at this place has not yet decided about the bar.
Undecided(i) == phase = "DECIDE" /\ i >= turn

\* A grid has counted every refused regime at the end of the verdicts, but for the
\* one on which it has not yet decided.
StreakCounted(i) ==
    grids[Order[i]] # None =>
        \A n \in Nat :
            RefusedFor(Order[i], IF Undecided(i) THEN n + 1 ELSE n) =>
                grids[Order[i]].streak >= n

GridType ==
    /\ variant \in Variants
    /\ WorldOk(World)
    /\ candles \in [Symbols -> Seq(PriceBar)]
    /\ allowed \in [Symbols -> Seq(BOOLEAN)]
    /\ phase \in {"BAR", "DECIDE", "PLAY", "STEP", "END"}
    /\ turn \in 1 .. Len(Order)

BarsSeen ==
    /\ \A s \in Symbols : Len(candles[s]) >= 1
    /\ phase \in {"DECIDE", "PLAY", "STEP"} =>
          \A s \in Symbols : Len(candles[s]) >= 2 /\ Len(allowed[s]) >= 1

AccountEnds ==
    /\ account.bankrupt => phase \in {"BAR", "END"}
    /\ phase = "END" => \A s \in Symbols : account.inv[s] = Flat
    /\ phase = "BAR" /\ ~account.bankrupt /\ account.history # << >> =>
          RawEquity(account, ClosePrices) > MaintenanceMargin(account, ClosePrices)

GridsManaged ==
    ~account.bankrupt /\ phase # "END" =>
        \A s \in Symbols : /\ Managed(World, s)
                           /\ grids[s] # None => grids[s].bars < MaxSessionBars

StreaksCounted == \A i \in 1 .. Len(Order) : StreakCounted(i)

DecisionsObeyed ==
    \A i \in 1 .. Len(Order) :
        (phase = "DECIDE" /\ i < turn) \/ phase = "PLAY" => Obeyed(Order[i])

GridInvariant ==
    /\ GridType
    /\ BarsSeen
    /\ AccountEnds
    /\ GridsManaged
    /\ StreaksCounted
    /\ DecisionsObeyed

-----------------------------------------------------------------------------
(* Verdicts                                                                *)

LEMMA LastRefused ==
    ASSUME NEW s, allowed[s] \in Seq(BOOLEAN), Len(allowed[s]) >= 1, NEW ok, ok = Last(allowed[s])
    PROVE  /\ ok \in BOOLEAN
           /\ RefusedFor(s, 1) <=> ~ok
           /\ \A n \in Nat \ {0} : RefusedFor(s, n) => ~ok
<1>1. PICK v \in Seq(BOOLEAN) : v = allowed[s] /\ Len(v) >= 1
  OBVIOUS
<1>2. PICK l \in Nat : l = Len(v) /\ l >= 1
  BY <1>1
<1>3. ok = v[l] /\ v[l] \in BOOLEAN
  BY <1>1, <1>2 DEF Last
<1>4. RefusedFor(s, 1) <=> ~v[l]
  <2>1. 0 .. 1 - 1 = {0} /\ l - 0 = l
    OBVIOUS
  <2> QED BY <1>1, <1>2, <2>1 DEF RefusedFor
<1>5. ASSUME NEW n \in Nat \ {0}, RefusedFor(s, n) PROVE ~v[l]
  <2>1. 0 \in 0 .. n - 1 /\ l - 0 = l
    OBVIOUS
  <2> QED BY <1>1, <1>2, <1>5, <2>1 DEF RefusedFor
<1> QED
  BY <1>3, <1>4, <1>5

\* One more verdict: the refusals before it are one fewer.
LEMMA OneMoreVerdict ==
    ASSUME NEW s, NEW v \in Seq(BOOLEAN), NEW ok \in BOOLEAN, NEW n \in Nat,
           allowed[s] = v, allowed'[s] = Append(v, ok),
           RefusedFor(s, n + 1)'
    PROVE  RefusedFor(s, n)
<1>1. PICK l \in Nat : l = Len(v)
  OBVIOUS
<1>2. PICK u : u = Append(v, ok)
  OBVIOUS
<1>3. Len(u) = l + 1 /\ \A k \in 1 .. l : u[k] = v[k]
  BY <1>1, <1>2
<1>4. l + 1 >= n + 1 /\ \A k \in 0 .. n : ~u[l + 1 - k]
  <2>1. 0 .. (n + 1) - 1 = 0 .. n
    OBVIOUS
  <2>2. Len(u) >= n + 1 /\ \A k \in 0 .. (n + 1) - 1 : ~u[Len(u) - k]
    BY <1>2 DEF RefusedFor
  <2> QED BY <1>3, <2>1, <2>2
<1>5. ASSUME NEW k \in 0 .. n - 1 PROVE ~v[l - k]
  <2>1. k + 1 \in 0 .. n /\ l + 1 - (k + 1) = l - k /\ l - k \in 1 .. l
    BY <1>4
  <2>2. ~u[l - k]
    BY <1>4, <2>1
  <2> QED BY <1>3, <2>1, <2>2
<1> QED
  BY <1>1, <1>4, <1>5 DEF RefusedFor

LEMMA PricesOk ==
    ASSUME candles \in [Symbols -> Seq(PriceBar)], \A s \in Symbols : Len(candles[s]) >= 1
    PROVE  /\ \A s \in Symbols : Current(s) \in PriceBar
           /\ \A s \in Symbols : OpenPrices[s] \in Nat \ {0} /\ ClosePrices[s] \in Nat \ {0}
<1>1. ASSUME NEW s \in Symbols PROVE Current(s) \in PriceBar
  <2>1. PICK shown \in Seq(PriceBar) : shown = candles[s] /\ Len(shown) >= 1
    OBVIOUS
  <2>2. PICK l \in Nat : l = Len(shown) /\ l >= 1
    BY <2>1
  <2>3. shown[l] \in PriceBar
    BY <2>2
  <2> QED BY <2>1, <2>2, <2>3 DEF Current, Last
<1> QED
  BY <1>1, BarInt DEF OpenPrices, ClosePrices

-----------------------------------------------------------------------------
(* The initial states                                                      *)

LEMMA GridInit ==
    ASSUME Init
    PROVE  GridInvariant
<1> USE DEF Init
<1>1. AccountOk(account) /\ ~account.bankrupt /\ account.history = << >>
  BY NewAccountOk DEF NewAccount
<1>2. GridType
  <2>1. WorldOk(World)
    BY <1>1 DEF WorldOk, World, IsWorld
  <2>2. << WarmUp >> \in Seq(PriceBar)
    BY GridAssumption
  <2>3. candles \in [Symbols -> Seq(PriceBar)]
    BY <2>2
  <2>4. << >> \in Seq(BOOLEAN)
    OBVIOUS
  <2>5. allowed \in [Symbols -> Seq(BOOLEAN)]
    BY <2>4
  <2>6. 1 \in 1 .. Len(Order)
    BY Places
  <2> QED BY <2>1, <2>3, <2>5, <2>6 DEF GridType
<1>3. BarsSeen
  BY DEF BarsSeen
<1>4. AccountEnds
  BY <1>1 DEF AccountEnds
<1>5. \A s \in Symbols : grids[s] = None
  OBVIOUS
<1>6. GridsManaged
  <2>1. \A s \in Symbols : account.inv[s].qty = 0
    BY FlatIsSigned DEF NewAccount
  <2> QED BY <1>5, <2>1 DEF GridsManaged, Managed, World
<1>7. StreaksCounted
  BY <1>5, Places DEF StreaksCounted, StreakCounted
<1>8. DecisionsObeyed
  BY DEF DecisionsObeyed
<1> QED
  BY <1>2, <1>3, <1>4, <1>6, <1>7, <1>8 DEF GridInvariant


-----------------------------------------------------------------------------
(* A new bar                                                               *)

LEMMA NextBarKeeps ==
    ASSUME GridInvariant, NEW row \in Rows, NextBar(row)
    PROVE  GridInvariant'
<1> USE DEF NextBar
<1>1. GridType /\ BarsSeen /\ AccountEnds /\ GridsManaged /\ StreaksCounted
  BY DEF GridInvariant
<1>2. /\ variant \in Variants /\ WorldOk(World) /\ candles \in [Symbols -> Seq(PriceBar)]
      /\ allowed \in [Symbols -> Seq(BOOLEAN)]
  BY <1>1 DEF GridType
<1>3. row.bar \in [Symbols -> PriceBar] /\ row.allowed \in [Symbols -> BOOLEAN]
  BY GridAssumption
<1>4. World' = World
  BY DEF World
<1>5. \A s \in Symbols : /\ candles'[s] = Append(candles[s], row.bar[s])
                         /\ candles'[s] \in Seq(PriceBar)
                         /\ Len(candles'[s]) >= 2
  <2> SUFFICES ASSUME NEW s \in Symbols
               PROVE  /\ Append(candles[s], row.bar[s]) \in Seq(PriceBar)
                      /\ Len(Append(candles[s], row.bar[s])) >= 2
    OBVIOUS
  <2>1. PICK shown \in Seq(PriceBar) : shown = candles[s] /\ Len(shown) >= 1
    BY <1>1, <1>2 DEF BarsSeen
  <2>2. PICK l \in Nat : l = Len(shown)
    OBVIOUS
  <2>3. PICK bar \in PriceBar : bar = row.bar[s]
    BY <1>3
  <2>4. Append(shown, bar) \in Seq(PriceBar) /\ Len(Append(shown, bar)) = l + 1
    BY <2>2
  <2> QED BY <2>1, <2>2, <2>3, <2>4
<1>6. \A s \in Symbols : /\ allowed'[s] = Append(allowed[s], row.allowed[s])
                         /\ allowed'[s] \in Seq(BOOLEAN)
                         /\ Len(allowed'[s]) >= 1
  <2> SUFFICES ASSUME NEW s \in Symbols
               PROVE  /\ Append(allowed[s], row.allowed[s]) \in Seq(BOOLEAN)
                      /\ Len(Append(allowed[s], row.allowed[s])) >= 1
    OBVIOUS
  <2>1. PICK v \in Seq(BOOLEAN) : v = allowed[s]
    BY <1>2
  <2>2. PICK l \in Nat : l = Len(v)
    OBVIOUS
  <2>3. PICK ok \in BOOLEAN : ok = row.allowed[s]
    BY <1>3
  <2>4. Append(v, ok) \in Seq(BOOLEAN) /\ Len(Append(v, ok)) = l + 1
    BY <2>2
  <2> QED BY <2>1, <2>2, <2>3, <2>4
<1>7. GridType'
  <2>1. candles' \in [Symbols -> Seq(PriceBar)]
    <3>1. candles' = [s \in Symbols |-> candles'[s]]
      OBVIOUS
    <3> QED BY <1>5, <3>1
  <2>2. allowed' \in [Symbols -> Seq(BOOLEAN)]
    <3>1. allowed' = [s \in Symbols |-> allowed'[s]]
      OBVIOUS
    <3> QED BY <1>6, <3>1
  <2>3. 1 \in 1 .. Len(Order)
    BY Places
  <2>4. WorldOk(World)'
    BY <1>2, <1>4
  <2>5. variant' \in Variants /\ phase' = "DECIDE" /\ turn' = 1
    BY <1>2
  <2> QED BY <2>1, <2>2, <2>3, <2>4, <2>5 DEF GridType
<1>8. BarsSeen'
  <2>1. \A s \in Symbols : Len(candles'[s]) >= 1
    <3> SUFFICES ASSUME NEW s \in Symbols PROVE Len(candles'[s]) >= 1
      OBVIOUS
    <3>1. PICK shown \in Seq(PriceBar) : shown = candles'[s] /\ Len(shown) >= 2
      BY <1>5
    <3>2. Len(shown) \in Nat
      OBVIOUS
    <3> QED BY <3>1, <3>2
  <2> QED BY <1>5, <1>6, <2>1 DEF BarsSeen
<1>9. AccountEnds'
  BY DEF AccountEnds
<1>10. GridsManaged'
  <2>1. grids' = grids
    OBVIOUS
  <2>2. \A s \in Symbols : Managed(World, s) /\ (grids[s] # None => grids[s].bars < MaxSessionBars)
    BY <1>1 DEF GridsManaged
  <2>3. \A s \in Symbols : Managed(World, s)'
    BY <1>4, <2>2
  <2> QED BY <2>1, <2>2, <2>3 DEF GridsManaged
<1>11. StreaksCounted'
  <2> SUFFICES ASSUME NEW i \in 1 .. Len(Order), grids'[Order[i]] # None, NEW n \in Nat,
                      RefusedFor(Order[i], IF Undecided(i) THEN n + 1 ELSE n)'
               PROVE  grids'[Order[i]].streak >= n
    BY DEF StreaksCounted, StreakCounted
  <2>1. PICK s \in Symbols : s = Order[i]
    BY Places
  <2>2. Undecided(i)' /\ ~Undecided(i)
    <3>1. PICK k \in Nat : k = Len(Order)
      BY Places
    <3> QED BY <3>1 DEF Undecided
  <2>3. PICK v \in Seq(BOOLEAN) : v = allowed[s]
    BY <1>2
  <2>4. PICK ok \in BOOLEAN : ok = row.allowed[s]
    BY <1>3
  <2>5. allowed'[s] = Append(v, ok)
    BY <1>6, <2>3, <2>4
  <2>6. RefusedFor(s, n + 1)'
    BY <2>1, <2>2
  <2>7. RefusedFor(s, n)
    BY <2>3, <2>5, <2>6, OneMoreVerdict
  <2>8. StreakCounted(i)
    BY <1>1 DEF StreaksCounted
  <2> QED
    BY <2>1, <2>2, <2>7, <2>8 DEF StreakCounted
<1>12. DecisionsObeyed'
  BY DEF DecisionsObeyed
<1> QED
  BY <1>7, <1>8, <1>9, <1>10, <1>11, <1>12 DEF GridInvariant

-----------------------------------------------------------------------------
(* A symbol's turn                                                         *)

\* A world follows another in which only the symbol in turn was dealt with.
LEMMA WorldFollows ==
    ASSUME NEW v, IsWorld(v), Becomes(v)
    PROVE  World' = v
BY DEF IsWorld, Becomes, World

\* What holds of an account after a turn.
LEMMA TurnTaken ==
    ASSUME GridInvariant, ~account.bankrupt, phase \in {"DECIDE", "PLAY"},
           NEW s \in Symbols,
           NEW v, WorldOk(v), Only(World, v, s), Managed(v, s), Becomes(v),
           v.grids[s] # None => v.grids[s].bars < MaxSessionBars,
           phase' \in {"DECIDE", "PLAY", "STEP"}, turn' \in 1 .. Len(Order),
           UNCHANGED <<variant, candles, allowed>>
    PROVE  /\ GridType' /\ BarsSeen' /\ AccountEnds' /\ GridsManaged'
           /\ \A x \in Symbols \ {s} : grids'[x] = grids[x]
           /\ grids'[s] = v.grids[s]
<1>1. GridType /\ BarsSeen /\ GridsManaged
  BY DEF GridInvariant
<1>2. World' = v
  BY WorldFollows DEF WorldOk
<1>3. account' = v.account /\ grids' = v.grids
  BY DEF Becomes
<1>4. World.account = account /\ World.grids = grids
  BY DEF World
<1>5. GridType'
  <2>1. WorldOk(World')
    BY <1>2
  <2>2. /\ variant' \in Variants /\ candles' \in [Symbols -> Seq(PriceBar)]
        /\ allowed' \in [Symbols -> Seq(BOOLEAN)]
    BY <1>1 DEF GridType
  <2> QED BY <2>1, <2>2 DEF GridType
<1>6. BarsSeen'
  BY <1>1 DEF BarsSeen
<1>7. ~account'.bankrupt
  BY <1>3, <1>4 DEF Only, Untouched
<1>8. AccountEnds'
  BY <1>7 DEF AccountEnds
<1>9. \A x \in Symbols \ {s} : grids'[x] = grids[x]
  BY <1>3, <1>4 DEF Only
<1>10. GridsManaged'
  <2> SUFFICES ASSUME NEW x \in Symbols
               PROVE  Managed(v, x) /\ (v.grids[x] # None => v.grids[x].bars < MaxSessionBars)
    BY <1>2, <1>3 DEF GridsManaged
  <2>1. CASE x = s
    BY <2>1
  <2>2. CASE x # s
    <3>1. Managed(World, x) /\ (grids[x] # None => grids[x].bars < MaxSessionBars)
      BY <1>1 DEF GridsManaged
    <3>2. v.grids[x] = grids[x] /\ v.account.inv[x] = account.inv[x]
          /\ v.account.margin[x] = account.margin[x]
      BY <1>4, <2>2 DEF Only, Apart
    <3> QED BY <1>4, <3>1, <3>2 DEF Managed
  <2> QED BY <2>1, <2>2
<1> QED
  BY <1>3, <1>5, <1>6, <1>8, <1>9, <1>10

\* The turn passes from place to place.
LEMMA TurnPasses ==
    ASSUME turn \in 1 .. Len(Order), NEW here, NEW after, Advance(here, after)
    PROVE  /\ turn' \in 1 .. Len(Order)
           /\ \/ turn < Len(Order) /\ phase' = here /\ turn' = turn + 1
              \/ turn = Len(Order) /\ phase' = after /\ turn' = 1
<1>1. PICK n \in Nat \ {0} : n = Len(Order)
  BY Places
<1> QED
  BY <1>1 DEF Advance

LEMMA PlacesDiffer ==
    ASSUME NEW i \in 1 .. Len(Order), NEW k \in 1 .. Len(Order), i # k
    PROVE  Order[i] # Order[k] /\ Order[i] \in Symbols
BY Places, AccountAssumption

LEMMA DecideKeeps ==
    ASSUME GridInvariant, Decide
    PROVE  /\ GridInvariant'
           /\ \A x \in Symbols :
                 grids[x] = None /\ grids'[x] # None =>
                    /\ MarginAllocated(account') <= EquityOf(account', OpenPrices)
                    /\ account'.margin[x] >= grids'[x].margin
<1>1. GridType /\ BarsSeen /\ AccountEnds /\ GridsManaged /\ StreaksCounted /\ DecisionsObeyed
  BY DEF GridInvariant
<1>2. /\ variant \in Variants /\ WorldOk(World) /\ candles \in [Symbols -> Seq(PriceBar)]
      /\ allowed \in [Symbols -> Seq(BOOLEAN)] /\ turn \in 1 .. Len(Order)
  BY <1>1 DEF GridType
<1>3. phase = "DECIDE" /\ Advance("DECIDE", "PLAY") /\ UNCHANGED <<variant, candles, allowed>>
  BY DEF Decide
<1>4. PICK s \in Symbols : s = Order[turn]
  BY <1>2, Places
<1>5. /\ candles[s] \in Seq(PriceBar) /\ Len(candles[s]) >= 2
      /\ allowed[s] \in Seq(BOOLEAN) /\ Len(allowed[s]) >= 1
  BY <1>1, <1>2, <1>3 DEF BarsSeen
<1>6. PICK ok : ok = Last(allowed[s])
  OBVIOUS
<1>7. /\ ok \in BOOLEAN /\ (RefusedFor(s, 1) <=> ~ok)
      /\ \A n \in Nat \ {0} : RefusedFor(s, n) => ~ok
  BY <1>5, <1>6, LastRefused
<1>8. PICK prices : prices = OpenPrices
  OBVIOUS
<1>9. \A x \in Symbols : prices[x] \in Nat \ {0}
  BY <1>1, <1>2, <1>8, PricesOk DEF BarsSeen
<1>10. ~account.bankrupt
  BY <1>1, <1>3 DEF AccountEnds
<1>11. World.account = account /\ World.grids = grids
  BY DEF World
<1>12. Managed(World, s) /\ (grids[s] # None => grids[s].bars < MaxSessionBars)
  BY <1>1, <1>3, <1>10 DEF GridsManaged
<1>13. PICK v : v = Decided(World, s, ok, prices)
  OBVIOUS
<1>14. Becomes(v)
  BY <1>4, <1>6, <1>8, <1>13 DEF Decide
<1>15. /\ WorldOk(v) /\ Only(World, v, s) /\ Managed(v, s) /\ Demanded(World, v, s, ok)
       /\ v.grids[s] # None => v.grids[s].bars < MaxSessionBars
       /\ v.grids[s] # None /\ World.grids[s] = None => Covered(v, s, prices)
  BY <1>2, <1>5, <1>7, <1>9, <1>10, <1>11, <1>12, <1>13, DecidedOk
<1>16. /\ turn' \in 1 .. Len(Order)
       /\ \/ turn < Len(Order) /\ phase' = "DECIDE" /\ turn' = turn + 1
          \/ turn = Len(Order) /\ phase' = "PLAY" /\ turn' = 1
  BY <1>2, <1>3, TurnPasses
<1>17. /\ GridType' /\ BarsSeen' /\ AccountEnds' /\ GridsManaged'
       /\ \A x \in Symbols \ {s} : grids'[x] = grids[x]
       /\ grids'[s] = v.grids[s]
  BY <1>3, <1>10, <1>14, <1>15, <1>16, TurnTaken
<1>18. \A i \in 1 .. Len(Order) :
          /\ Undecided(i)' <=> Undecided(i) /\ i # turn
          /\ (phase' = "DECIDE" /\ i < turn') \/ phase' = "PLAY" <=> i <= turn \/ phase' = "PLAY"
  <2>1. PICK n \in Nat : n = Len(Order)
    BY Places
  <2> QED BY <1>2, <1>3, <1>16, <2>1 DEF Undecided
<1>19. Undecided(turn)
  BY <1>2, <1>3 DEF Undecided
<1>20. \A n \in Nat : RefusedFor(s, n + 1) => grids[s] = None \/ grids[s].streak >= n
  BY <1>1, <1>2, <1>4, <1>19 DEF StreaksCounted, StreakCounted
<1>21. \A n, x : RefusedFor(x, n)' <=> RefusedFor(x, n)
  BY <1>3 DEF RefusedFor
<1>22. ASSUME grids[s] # None PROVE grids[s].streak \in Nat
  <2>1. grids[s] \in Grid
    BY <1>2, <1>11, <1>22 DEF WorldOk
  <2> QED BY <2>1 DEF Grid
<1>23. ASSUME grids'[s] # None PROVE grids'[s].streak \in Nat
  <2>1. grids'[s] \in Grid
    BY <1>15, <1>17, <1>23 DEF WorldOk
  <2> QED BY <2>1 DEF Grid
<1>24. StreaksCounted'
  <2> SUFFICES ASSUME NEW i \in 1 .. Len(Order), grids'[Order[i]] # None, NEW n \in Nat,
                      RefusedFor(Order[i], IF Undecided(i) THEN n + 1 ELSE n)'
               PROVE  grids'[Order[i]].streak >= n
    BY DEF StreaksCounted, StreakCounted
  <2>1. CASE i = turn
    <3>1. Order[i] = s /\ ~Undecided(i)'
      BY <1>4, <1>18, <2>1
    <3>2. RefusedFor(s, n)
      BY <1>21, <3>1
    <3>3. CASE n = 0
      BY <1>23, <3>1, <3>3
    <3>4. CASE n # 0
      <4>1. ~ok
        BY <1>7, <3>2, <3>4
      <4>2. grids[s] # None /\ grids'[s].streak = grids[s].streak + 1
        BY <1>11, <1>15, <1>17, <3>1, <4>1 DEF Demanded
      <4>3. PICK m \in Nat : n = m + 1
        <5>1. n - 1 \in Nat /\ n = (n - 1) + 1
          BY <3>4
        <5> QED BY <5>1
      <4>4. grids[s].streak >= m
        BY <1>20, <3>2, <4>2, <4>3
      <4> QED BY <1>22, <3>1, <4>2, <4>3, <4>4
    <3> QED BY <3>3, <3>4
  <2>2. CASE i # turn
    <3>1. Order[i] # s /\ Order[i] \in Symbols
      BY <1>2, <1>4, <2>2, PlacesDiffer
    <3>2. grids'[Order[i]] = grids[Order[i]]
      BY <1>17, <3>1
    <3>3. Undecided(i)' <=> Undecided(i)
      BY <1>18, <2>2
    <3>4. RefusedFor(Order[i], IF Undecided(i) THEN n + 1 ELSE n)
      BY <1>21, <3>3
    <3>5. StreakCounted(i)
      BY <1>1 DEF StreaksCounted
    <3> QED BY <3>2, <3>4, <3>5 DEF StreakCounted
  <2> QED BY <2>1, <2>2
<1>25. DecisionsObeyed'
  <2> SUFFICES ASSUME NEW i \in 1 .. Len(Order),
                      (phase' = "DECIDE" /\ i < turn') \/ phase' = "PLAY"
               PROVE  Obeyed(Order[i])'
    BY DEF DecisionsObeyed
  <2>1. CASE i = turn
    <3>1. Order[i] = s
      BY <1>4, <2>1
    <3>2. ASSUME variant = "HYSTERESIS", RefusedFor(s, HysteresisBars) PROVE v.grids[s] = None
      <4>1. ~ok
        BY <1>7, <3>2, GridConstants
      <4>2. CASE grids[s] = None
        BY <1>11, <1>15, <4>1, <4>2 DEF Demanded
      <4>3. CASE grids[s] # None
        <5>1. PICK m \in Nat : HysteresisBars = m + 1
          <6>1. HysteresisBars - 1 \in Nat /\ HysteresisBars = (HysteresisBars - 1) + 1
            BY GridConstants
          <6> QED BY <6>1
        <5>2. grids[s].streak >= m
          BY <1>20, <3>2, <4>3, <5>1
        <5>3. grids[s].streak + 1 >= HysteresisBars
          BY <1>22, <4>3, <5>1, <5>2
        <5> QED BY <1>11, <1>15, <3>2, <4>1, <4>3, <5>3 DEF Demanded
      <4> QED BY <4>2, <4>3
    <3>3. /\ RefusedFor(s, 1) /\ variant = "IMMEDIATE_CLOSE" => v.grids[s] = None
          /\ RefusedFor(s, 1) /\ variant \in {"FREEZE", "FREEZE_ATR"} =>
                v.grids[s] = None \/ v.grids[s].state # "ACTIVE"
          /\ RefusedFor(s, 1) \/ v.grids[s] = None \/ v.grids[s].state = "ACTIVE"
      BY <1>7, <1>15 DEF Demanded
    <3>4. variant' = variant
      BY <1>3
    <3> QED
      BY <1>17, <1>21, <3>1, <3>2, <3>3, <3>4 DEF Obeyed
  <2>2. CASE i # turn
    <3>1. Order[i] # s /\ Order[i] \in Symbols
      BY <1>2, <1>4, <2>2, PlacesDiffer
    <3>2. grids'[Order[i]] = grids[Order[i]]
      BY <1>17, <3>1
    <3>3. i < turn
      <4>1. PICK n \in Nat : n = Len(Order)
        BY Places
      <4> QED BY <1>2, <1>16, <2>2, <4>1
    <3>4. Obeyed(Order[i])
      BY <1>1, <1>3, <3>3 DEF DecisionsObeyed
    <3>5. variant' = variant
      BY <1>3
    <3> QED BY <1>21, <3>2, <3>4, <3>5 DEF Obeyed
  <2> QED BY <2>1, <2>2
<1>26. ASSUME NEW x \in Symbols, grids[x] = None, grids'[x] # None
       PROVE  /\ MarginAllocated(account') <= EquityOf(account', OpenPrices)
              /\ account'.margin[x] >= grids'[x].margin
  <2>1. x = s
    BY <1>17, <1>26
  <2>2. Covered(v, s, prices)
    BY <1>11, <1>15, <1>17, <1>26, <2>1
  <2>3. account' = v.account
    BY <1>14 DEF Becomes
  <2> QED
    BY <1>8, <1>17, <2>1, <2>2, <2>3 DEF Covered
<1> QED
  BY <1>17, <1>24, <1>25, <1>26 DEF GridInvariant


LEMMA PlayKeeps ==
    ASSUME GridInvariant, Play
    PROVE  /\ GridInvariant'
           /\ \A x \in Symbols : grids[x] = None => grids'[x] = None
<1>1. GridType /\ BarsSeen /\ AccountEnds /\ GridsManaged /\ StreaksCounted /\ DecisionsObeyed
  BY DEF GridInvariant
<1>2. /\ variant \in Variants /\ WorldOk(World) /\ candles \in [Symbols -> Seq(PriceBar)]
      /\ turn \in 1 .. Len(Order)
  BY <1>1 DEF GridType
<1>3. phase = "PLAY" /\ Advance("PLAY", "STEP") /\ UNCHANGED <<variant, candles, allowed>>
  BY DEF Play
<1>4. PICK s \in Symbols : s = Order[turn]
  BY <1>2, Places
<1>5. candles[s] \in Seq(PriceBar) /\ Len(candles[s]) >= 2
  BY <1>1, <1>2, <1>3 DEF BarsSeen
<1>6. PICK c \in PriceBar : c = Current(s)
  BY <1>1, <1>2, PricesOk DEF BarsSeen
<1>7. ~account.bankrupt
  BY <1>1, <1>3 DEF AccountEnds
<1>8. World.account = account /\ World.grids = grids
  BY DEF World
<1>9. Managed(World, s) /\ (grids[s] # None => grids[s].bars < MaxSessionBars)
  BY <1>1, <1>3, <1>7 DEF GridsManaged
<1>10. PICK v : v = Played(World, s, c)
  OBVIOUS
<1>11. Becomes(v)
  BY <1>4, <1>6, <1>10 DEF Play
<1>12. WorldOk(v) /\ Only(World, v, s) /\ Managed(v, s) /\ Stays(World, v, s)
  BY <1>2, <1>5, <1>7, <1>8, <1>9, <1>10, PlayedOk
<1>13. v.grids[s] # None => grids[s] # None /\ v.grids[s].bars < MaxSessionBars
  BY <1>8, <1>9, <1>12 DEF Stays, Like
<1>14. /\ turn' \in 1 .. Len(Order)
       /\ \/ turn < Len(Order) /\ phase' = "PLAY" /\ turn' = turn + 1
          \/ turn = Len(Order) /\ phase' = "STEP" /\ turn' = 1
  BY <1>2, <1>3, TurnPasses
<1>15. /\ GridType' /\ BarsSeen' /\ AccountEnds' /\ GridsManaged'
       /\ \A x \in Symbols \ {s} : grids'[x] = grids[x]
       /\ grids'[s] = v.grids[s]
  BY <1>3, <1>7, <1>11, <1>12, <1>13, <1>14, TurnTaken
<1>16. \A x \in Symbols : grids'[x] # None =>
          /\ grids[x] # None /\ grids'[x].state = grids[x].state
          /\ grids'[x].streak = grids[x].streak
  BY <1>8, <1>12, <1>15 DEF Stays, Like
<1>17. \A n, x : RefusedFor(x, n)' <=> RefusedFor(x, n)
  BY <1>3 DEF RefusedFor
<1>18. \A i \in 1 .. Len(Order) : ~Undecided(i) /\ ~Undecided(i)'
  BY <1>3, <1>14 DEF Undecided
<1>19. StreaksCounted'
  <2> SUFFICES ASSUME NEW i \in 1 .. Len(Order), grids'[Order[i]] # None, NEW n \in Nat,
                      RefusedFor(Order[i], IF Undecided(i) THEN n + 1 ELSE n)'
               PROVE  grids'[Order[i]].streak >= n
    BY DEF StreaksCounted, StreakCounted
  <2>1. Order[i] \in Symbols
    BY Places
  <2>2. RefusedFor(Order[i], IF Undecided(i) THEN n + 1 ELSE n)
    BY <1>17, <1>18
  <2>3. StreakCounted(i)
    BY <1>1 DEF StreaksCounted
  <2> QED BY <1>16, <2>1, <2>2, <2>3 DEF StreakCounted
<1>20. DecisionsObeyed'
  <2> SUFFICES ASSUME NEW i \in 1 .. Len(Order) PROVE Obeyed(Order[i])'
    BY DEF DecisionsObeyed
  <2>1. Order[i] \in Symbols
    BY Places
  <2>2. Obeyed(Order[i])
    BY <1>1, <1>3 DEF DecisionsObeyed
  <2>3. variant' = variant
    BY <1>3
  <2> QED BY <1>16, <1>17, <2>1, <2>2, <2>3 DEF Obeyed
<1> QED
  BY <1>15, <1>16, <1>19, <1>20 DEF GridInvariant

-----------------------------------------------------------------------------
(* The end of a bar, and of a run                                          *)

\* The grids and the verdicts are left alone.
LEMMA GridsLeftAlone ==
    ASSUME GridInvariant, phase \notin {"DECIDE", "PLAY"},
           UNCHANGED <<variant, grids, candles, allowed, turn>>,
           AccountOk(account'), phase' \in {"BAR", "END"}
    PROVE  GridType' /\ StreaksCounted' /\ DecisionsObeyed'
<1>1. GridType /\ StreaksCounted
  BY DEF GridInvariant
<1>2. WorldOk(World')
  BY <1>1 DEF GridType, WorldOk, IsWorld, World
<1>3. GridType'
  BY <1>1, <1>2 DEF GridType
<1>4. \A n, x : RefusedFor(x, n)' <=> RefusedFor(x, n)
  BY DEF RefusedFor
<1>5. StreaksCounted'
  <2> SUFFICES ASSUME NEW i \in 1 .. Len(Order), grids'[Order[i]] # None, NEW n \in Nat,
                      RefusedFor(Order[i], IF Undecided(i) THEN n + 1 ELSE n)'
               PROVE  grids'[Order[i]].streak >= n
    BY DEF StreaksCounted, StreakCounted
  <2>1. ~Undecided(i) /\ ~Undecided(i)'
    BY DEF Undecided
  <2>2. RefusedFor(Order[i], n)
    BY <1>4, <2>1
  <2>3. StreakCounted(i)
    BY <1>1 DEF StreaksCounted
  <2> QED BY <2>1, <2>2, <2>3 DEF StreakCounted
<1>6. DecisionsObeyed'
  BY DEF DecisionsObeyed
<1> QED
  BY <1>3, <1>5, <1>6

LEMMA StepAccountKeeps ==
    ASSUME GridInvariant, StepAccount
    PROVE  GridInvariant'
<1> USE DEF StepAccount
<1>1. GridType /\ BarsSeen /\ AccountEnds /\ GridsManaged
  BY DEF GridInvariant
<1>2. \A x \in Symbols : ClosePrices[x] \in Int
  BY <1>1, PricesOk DEF GridType, BarsSeen
<1>3. AccountOk(account)
  BY <1>1 DEF GridType, WorldOk, World
<1>4. PICK a : a = account
  OBVIOUS
<1>5. PICK prices : prices = ClosePrices
  OBVIOUS
<1>6. PICK b : b = Stepped(a, prices)
  OBVIOUS
<1>7. /\ AccountOk(b)
      /\ ~b.bankrupt => /\ b.inv = a.inv /\ b.margin = a.margin
                        /\ RawEquity(b, prices) > MaintenanceMargin(b, prices)
  BY <1>2, <1>3, <1>4, <1>5, <1>6, SteppedOk
<1>8. account' = b
  BY <1>4, <1>5, <1>6
<1>9. ClosePrices' = prices
  BY <1>5 DEF ClosePrices, Current
<1>10. GridType' /\ StreaksCounted' /\ DecisionsObeyed'
  BY <1>7, <1>8, GridsLeftAlone
<1>11. BarsSeen'
  BY <1>1 DEF BarsSeen
<1>12. AccountEnds'
  BY <1>7, <1>8, <1>9 DEF AccountEnds
<1>13. GridsManaged'
  <2> SUFFICES ASSUME ~account'.bankrupt, NEW x \in Symbols
               PROVE  Managed(World, x)' /\ (grids'[x] # None => grids'[x].bars < MaxSessionBars)
    BY DEF GridsManaged
  <2>1. ~account.bankrupt /\ phase = "STEP"
    BY <1>1 DEF AccountEnds
  <2>2. Managed(World, x) /\ (grids[x] # None => grids[x].bars < MaxSessionBars)
    BY <1>1, <2>1 DEF GridsManaged
  <2>3. World'.account.inv = World.account.inv /\ World'.account.margin = World.account.margin
        /\ World'.grids = World.grids
    BY <1>4, <1>7, <1>8 DEF World
  <2> QED
    BY <2>2, <2>3 DEF Managed
<1> QED
  BY <1>10, <1>11, <1>12, <1>13 DEF GridInvariant

LEMMA FinishKeeps ==
    ASSUME GridInvariant, Finish
    PROVE  GridInvariant'
<1> USE DEF Finish
<1>1. GridType /\ BarsSeen
  BY DEF GridInvariant
<1>2. PICK prices : prices = ClosePrices
  OBVIOUS
<1>3. \A x \in Symbols : prices[x] \in Int
  BY <1>1, <1>2, PricesOk DEF GridType, BarsSeen
<1>4. PICK a : a = account
  OBVIOUS
<1>5. AccountOk(a)
  BY <1>1, <1>4 DEF GridType, WorldOk, World
<1>6. PICK c : c = AllClosed(a, prices)
  OBVIOUS
<1>7. AccountOk(c) /\ \A s \in Symbols : c.inv[s] = Flat
  BY <1>3, <1>5, <1>6, AllClosedOk
<1>8. PICK b : b = Stepped(c, prices)
  OBVIOUS
<1>9. AccountOk(b) /\ (~b.bankrupt => b.inv = c.inv)
  BY <1>3, <1>7, <1>8, SteppedOk
<1>10. \A s \in Symbols : b.inv[s] = Flat
  BY <1>7, <1>9 DEF AccountOk, Ended
<1>11. account' = b
  BY <1>2, <1>4, <1>6, <1>8
<1>12. GridType' /\ StreaksCounted' /\ DecisionsObeyed'
  BY <1>9, <1>11, GridsLeftAlone
<1>13. BarsSeen'
  BY <1>1 DEF BarsSeen
<1>14. AccountEnds'
  BY <1>10, <1>11 DEF AccountEnds
<1>15. GridsManaged'
  BY DEF GridsManaged
<1> QED
  BY <1>12, <1>13, <1>14, <1>15 DEF GridInvariant

-----------------------------------------------------------------------------
(* The theorems                                                            *)

LEMMA GridNext ==
    ASSUME GridInvariant, [Next]_gridVars
    PROVE  GridInvariant'
<1>1. CASE \E row \in Rows : NextBar(row)
  BY <1>1, NextBarKeeps
<1>2. CASE Decide
  BY <1>2, DecideKeeps
<1>3. CASE Play
  BY <1>3, PlayKeeps
<1>4. CASE StepAccount
  BY <1>4, StepAccountKeeps
<1>5. CASE Finish
  BY <1>5, FinishKeeps
<1>6. CASE UNCHANGED gridVars
  <2> USE <1>6 DEF gridVars
  <2>1. GridType' /\ BarsSeen'
    BY DEF GridInvariant, GridType, BarsSeen, World
  <2>2. AccountEnds'
    BY DEF GridInvariant, AccountEnds, ClosePrices, Current
  <2>3. GridsManaged'
    BY DEF GridInvariant, GridsManaged, World
  <2>4. \A n, x : RefusedFor(x, n)' <=> RefusedFor(x, n)
    BY DEF RefusedFor
  <2>5. StreaksCounted'
    BY <2>4 DEF GridInvariant, StreaksCounted, StreakCounted, Undecided
  <2>6. DecisionsObeyed'
    BY <2>4 DEF GridInvariant, DecisionsObeyed, Obeyed
  <2> QED
    BY <2>1, <2>2, <2>3, <2>5, <2>6 DEF GridInvariant
<1> QED
  BY <1>1, <1>2, <1>3, <1>4, <1>5, <1>6 DEF Next

\* The inductive invariant of a run of backtest_exit_variants.py: the types, what an
\* account promises, grids that are managed, streaks that are counted.
THEOREM GridsAreManaged == Spec => []GridInvariant
<1>1. Init => GridInvariant
  BY GridInit
<1>2. GridInvariant /\ [Next]_gridVars => GridInvariant'
  BY GridNext
<1> QED
  BY <1>1, <1>2, PTL DEF Spec

\* An inventory always belongs to a running grid and is never left on an account that
\* has ended; the margin of a grid is allotted, and a session never outlives its bars.
THEOREM InventoryIsManaged == Spec => []InventoryManaged
<1>1. GridInvariant => InventoryManaged
  <2> SUFFICES ASSUME GridInvariant, NEW s \in Symbols
               PROVE  /\ account.inv[s].qty # 0 => grids[s] # None
                      /\ phase = "END" \/ account.bankrupt => account.inv[s] = Flat
                      /\ grids[s] # None /\ ~account.bankrupt /\ phase # "END" =>
                            /\ grids[s].margin <= account.margin[s]
                            /\ grids[s].bars < MaxSessionBars
    BY DEF InventoryManaged
  <2>1. GridType /\ AccountEnds /\ GridsManaged
    BY DEF GridInvariant
  <2>2. AccountOk(account)
    BY <2>1 DEF GridType, WorldOk, World
  <2>3. CASE phase = "END" \/ account.bankrupt
    <3>1. account.inv[s] = Flat
      BY <2>1, <2>2, <2>3 DEF AccountEnds, AccountOk, Ended
    <3> QED BY <2>3, <3>1, FlatIsSigned
  <2>4. CASE ~(phase = "END" \/ account.bankrupt)
    <3>1. Managed(World, s) /\ (grids[s] # None => grids[s].bars < MaxSessionBars)
      BY <2>1, <2>4 DEF GridsManaged
    <3> QED BY <2>4, <3>1 DEF Managed, World
  <2> QED BY <2>3, <2>4
<1> QED
  BY <1>1, GridsAreManaged, PTL

\* Once all symbols have decided, a refused regime has had the effect that the variant
\* asks for, and no grid is frozen under a regime that is good.
THEOREM RegimeIsObeyed == Spec => []RegimeObeyed
<1>1. GridInvariant => RegimeObeyed
  <2> SUFFICES ASSUME GridInvariant, phase = "PLAY", NEW s \in Symbols
               PROVE  /\ variant = "IMMEDIATE_CLOSE" /\ RefusedFor(s, 1) => grids[s] = None
                      /\ variant \in {"FREEZE", "FREEZE_ATR"} /\ RefusedFor(s, 1) =>
                            grids[s] = None \/ grids[s].orders = NoOrders
                      /\ variant = "HYSTERESIS" /\ RefusedFor(s, HysteresisBars) =>
                            grids[s] = None
                      /\ RefusedFor(s, 1) \/ grids[s] = None \/ grids[s].state = "ACTIVE"
    BY DEF RegimeObeyed
  <2>1. AccountEnds /\ GridsManaged /\ DecisionsObeyed
    BY DEF GridInvariant
  <2>2. PICK i \in 1 .. Len(Order) : Order[i] = s
    BY Places
  <2>3. Obeyed(s)
    BY <2>1, <2>2 DEF DecisionsObeyed
  <2>4. ~account.bankrupt
    BY <2>1 DEF AccountEnds
  <2>5. Managed(World, s)
    BY <2>1, <2>4 DEF GridsManaged
  <2> QED
    BY <2>3, <2>5 DEF Obeyed, Managed, World
<1> QED
  BY <1>1, GridsAreManaged, PTL

\* The wallet is what was traded, and after every bar the account is above its
\* maintenance margin or has been liquidated once and owes nothing.
THEOREM AccountIsSound == Spec => []AccountSound
<1>1. GridInvariant => AccountSound
  <2> SUFFICES ASSUME GridInvariant PROVE BooksMatchTrades /\ SolventOrHalted
    BY DEF AccountSound
  <2>1. GridType /\ AccountEnds
    BY DEF GridInvariant
  <2>2. AccountOk(account)
    BY <2>1 DEF GridType, WorldOk, World
  <2>3. BooksMatchTrades
    BY <2>2 DEF BooksMatchTrades, AccountOk, Booked, Costs
  <2>4. ASSUME account.bankrupt
        PROVE  /\ account.liquidations = 1 /\ account.wallet >= 0
               /\ EquityOf(account, ClosePrices) = 0
    BY <2>2, <2>4 DEF AccountOk, Ended, EquityOf
  <2>5. ASSUME phase = "BAR", ~account.bankrupt, account.history # << >>
        PROVE  account.drawdown = Max({account.history[k].drawdown : k \in DOMAIN account.history})
    <3>1. PICK d \in Int : d = account.drawdown
      BY <2>2 DEF AccountOk, Accounts
    <3>2. PICK D : D = {account.history[k].drawdown : k \in DOMAIN account.history}
      OBVIOUS
    <3>3. D \subseteq Int
      <4> SUFFICES ASSUME NEW k \in DOMAIN account.history
                   PROVE  account.history[k].drawdown \in Int
        BY <3>2
      <4>1. account.history \in Seq(Snapshots)
        BY <2>2 DEF AccountOk, Accounts
      <4>2. account.history[k] \in Snapshots
        BY <4>1
      <4> QED BY <4>2 DEF Snapshots
    <3>4. d \in D /\ \A x \in D : d >= x
      <4>1. \A k \in DOMAIN account.history : account.history[k].drawdown <= d
        BY <2>2, <2>5, <3>1 DEF AccountOk, Deepest
      <4>2. \E k \in DOMAIN account.history : account.history[k].drawdown = d
        BY <2>2, <2>5, <3>1 DEF AccountOk, Deepest
      <4> QED BY <3>1, <3>2, <3>3, <4>1, <4>2
    <3>5. Max(D) = d
      <4>1. PICK m : m = Max(D)
        OBVIOUS
      <4>2. m \in D /\ \A x \in D : m >= x
        BY <3>4, <4>1 DEF Max
      <4>3. m >= d /\ d >= m /\ m \in Int
        BY <3>3, <3>4, <4>2
      <4> QED BY <4>1, <4>3
    <3> QED BY <3>1, <3>2, <3>5
  <2>6. SolventOrHalted
    BY <2>1, <2>4, <2>5 DEF SolventOrHalted, AccountEnds
  <2> QED BY <2>3, <2>6
<1> QED
  BY <1>1, GridsAreManaged, PTL

\* A grid that is started is covered by the equity that no other grid has been allotted.
THEOREM PoolIsNeverOversold == Spec => PoolNeverOversold
<1> DEFINE Covering ==
              \A s \in Symbols :
                 grids[s] = None /\ grids'[s] # None =>
                    /\ MarginAllocated(account') <= EquityOf(account', OpenPrices)
                    /\ account'.margin[s] >= grids'[s].margin
<1>1. GridInvariant /\ [Next]_gridVars => [Covering]_gridVars
  <2> SUFFICES ASSUME GridInvariant, Next PROVE Covering
    OBVIOUS
  <2>1. CASE Decide
    BY <2>1, DecideKeeps
  <2>2. CASE Play
    BY <2>2, PlayKeeps
  <2>3. CASE ~Decide /\ ~Play
    <3>1. grids' = grids
      BY <2>3 DEF Next, NextBar, StepAccount, Finish
    <3> QED BY <3>1
  <2> QED BY <2>1, <2>2, <2>3
<1>2. Spec => [][Next]_gridVars
  BY PTL DEF Spec
<1> QED
  BY <1>1, <1>2, GridsAreManaged, PTL DEF PoolNeverOversold

-----------------------------------------------------------------------------
(* Sessions: the grids that simulator.py plays one at a time.              *)

\* The instance's formulas are this module's.
LEMMA SameFormulas ==
    /\ \A w, n : R!SumTo(w, n) = SumTo(w, n)
    /\ \A n : R!Magnitude(n) = Magnitude(n)
    /\ \A m, n : R!Larger(m, n) = Larger(m, n)
    /\ \A m, rate : R!Rated(m, rate) = Rated(m, rate)
    /\ R!Flat = Flat
    /\ \A inv, price : R!Unrealized(inv, price) = Unrealized(inv, price)
    /\ \A inv, price : R!Notional(inv, price) = Notional(inv, price)
    /\ \A inv, d : R!Flips(inv, d) = Flips(inv, d)
    /\ \A inv, d, price : R!Realized(inv, d, price) = Realized(inv, d, price)
    /\ \A inv, d, price : R!Traded(inv, d, price) = Traded(inv, d, price)
    /\ \A inv, price, rate : R!SlippedValue(inv, price, rate) = SlippedValue(inv, price, rate)
    /\ \A inv, price, rate : R!ExitPnl(inv, price, rate) = ExitPnl(inv, price, rate)
<1>1. \A w, n : R!SumTo(w, n) = SumTo(w, n)
  BY DEF R!SumTo, SumTo
<1>2. \A n : R!Magnitude(n) = Magnitude(n)
  BY DEF R!Magnitude, Magnitude
<1>3. \A m, n : R!Larger(m, n) = Larger(m, n)
  BY DEF R!Larger, Larger
<1>4. \A m, rate : R!Rated(m, rate) = Rated(m, rate)
  BY DEF R!Rated, Rated, R!Thousand, Thousand
<1>5. R!Flat = Flat
  BY DEF R!Flat, Flat
<1>6. \A inv, price : R!Unrealized(inv, price) = Unrealized(inv, price)
  BY DEF R!Unrealized, Unrealized
<1>7. \A inv, price : R!Notional(inv, price) = Notional(inv, price)
  BY <1>2 DEF R!Notional, Notional
<1>8. \A inv, d : R!Flips(inv, d) = Flips(inv, d)
  BY DEF R!Flips, Flips
<1>9. \A inv, units : R!Carried(inv, units) = Carried(inv, units)
  BY <1>2 DEF R!Carried, Carried
<1>10. \A inv, d : R!Adds(inv, d) = Adds(inv, d)
  BY DEF R!Adds, Adds
<1>11. \A inv, d, price : R!Realized(inv, d, price) = Realized(inv, d, price)
  BY <1>2, <1>9, <1>10 DEF R!Realized, Realized
<1>12. \A inv, d, price : R!Traded(inv, d, price) = Traded(inv, d, price)
  BY <1>2, <1>8, <1>9, <1>10 DEF R!Traded, Traded
<1>13. \A inv, price, rate : R!SlippedValue(inv, price, rate) = SlippedValue(inv, price, rate)
  BY <1>4, <1>7 DEF R!SlippedValue, SlippedValue
<1>14. \A inv, price, rate : R!ExitPnl(inv, price, rate) = ExitPnl(inv, price, rate)
  BY <1>13 DEF R!ExitPnl, ExitPnl
<1> QED
  BY <1>1, <1>2, <1>3, <1>4, <1>5, <1>6, <1>7, <1>8, <1>11, <1>12, <1>13, <1>14

-----------------------------------------------------------------------------
(* Levels                                                                  *)

\* Prices that rise from level to level.
Rising(level, n) ==
    /\ level \in [0 .. n -> Nat \ {0}]
    /\ \A i, j \in 0 .. n : i < j => level[i] < level[j]

GoodConfig(cfg) == cfg \in R!GridConfig /\ Rising(R!Levels(cfg), cfg.grids)

LEMMA QuotientsApart ==
    ASSUME NEW x \in Nat, NEW y \in Nat, NEW n \in Nat \ {0}, x + n <= y
    PROVE  x \div n \in Nat /\ y \div n \in Nat /\ x \div n < y \div n
<1>1. PICK p \in Nat : p = x \div n
  OBVIOUS
<1>2. PICK q \in Nat : q = y \div n
  OBVIOUS
<1>3. p * n <= x /\ y < (q + 1) * n
  BY <1>1, <1>2
<1>4. p < q
  <2> SUFFICES ASSUME q <= p PROVE FALSE
    OBVIOUS
  <2>1. PICK e \in Nat : p = q + e
    <3>1. p - q \in Nat /\ p = q + (p - q)
      OBVIOUS
    <3> QED BY <3>1
  <2>4. (p + 1) * n = (q + 1) * n + e * n /\ e * n \in Nat
    BY <2>1
  <2>2. (p + 1) * n = p * n + n
    OBVIOUS
  <2>3. p * n \in Nat /\ (q + 1) * n \in Nat
    OBVIOUS
  <2> QED
    BY <1>3, <2>2, <2>3, <2>4
<1> QED
  BY <1>1, <1>2, <1>4

LEMMA StepsRise ==
    ASSUME NEW cfg \in R!GridConfig, cfg.lower + cfg.grids <= cfg.upper
    PROVE  Rising(R!Steps(cfg), cfg.grids)
<1>1. PICK low \in Nat \ {0} : low = cfg.lower
  BY DEF R!GridConfig
<1>2. PICK n \in Nat \ {0} : n = cfg.grids
  BY DEF R!GridConfig
<1>3. PICK wide \in Nat : wide = cfg.upper - cfg.lower /\ n <= wide
  BY <1>1, <1>2 DEF R!GridConfig
<1>4. PICK x : x = [i \in 0 .. n |-> i * wide]
  OBVIOUS
<1>5. \A i \in 0 .. n : x[i] \in Nat /\ R!Steps(cfg)[i] = low + x[i] \div n
  BY <1>1, <1>2, <1>3, <1>4 DEF R!Steps
<1>6. ASSUME NEW i \in 0 .. n, NEW j \in 0 .. n, i < j
      PROVE  x[i] + n <= x[j]
  <2>1. (i + 1) * wide <= j * wide
    <3>1. PICK e \in Nat : j = i + 1 + e
      <4>1. j - (i + 1) \in Nat /\ j = i + 1 + (j - (i + 1))
        BY <1>6
      <4> QED BY <4>1
    <3>2. j * wide = (i + 1) * wide + e * wide /\ e * wide \in Nat
      BY <3>1
    <3> QED BY <3>2
  <2>2. (i + 1) * wide = i * wide + wide
    OBVIOUS
  <2>3. i * wide \in Nat /\ j * wide \in Nat
    OBVIOUS
  <2> QED
    BY <1>3, <1>4, <2>1, <2>2, <2>3
<1>7. \A i \in 0 .. n : x[i] \div n \in Nat
  <2>1. \A y \in Nat : y \div n \in Nat
    OBVIOUS
  <2> QED BY <1>5, <2>1
<1>8. \A i, j \in 0 .. n : i < j => x[i] \div n < x[j] \div n
  BY <1>5, <1>6, QuotientsApart
<1>9. R!Steps(cfg) = [i \in 0 .. n |-> R!Steps(cfg)[i]]
  BY <1>2 DEF R!Steps
<1>10. \A i \in 0 .. n : R!Steps(cfg)[i] \in Nat \ {0}
  BY <1>1, <1>5, <1>7
<1>11. \A i, j \in 0 .. n : i < j => R!Steps(cfg)[i] < R!Steps(cfg)[j]
  BY <1>1, <1>5, <1>7, <1>8
<1> QED
  BY <1>2, <1>9, <1>10, <1>11 DEF Rising

PowerTable(h, low, ratio, n) ==
    h = [i \in 0 .. n |-> IF i = 0 THEN low ELSE h[i - 1] * ratio]

LEMMA PowerTableExists ==
    ASSUME NEW low, NEW ratio, NEW m \in Nat
    PROVE  \E h : PowerTable(h, low, ratio, m)
<1> DEFINE S == {n \in Nat : \E h : PowerTable(h, low, ratio, n)}
<1>1. 0 \in S
  <2>1. PICK h : h = [i \in 0 .. 0 |-> low]
    OBVIOUS
  <2>2. h = [i \in 0 .. 0 |-> IF i = 0 THEN low ELSE h[i - 1] * ratio]
    BY <2>1
  <2> QED BY <2>2 DEF PowerTable
<1>2. \A n \in Nat : n \in S => n + 1 \in S
  <2> SUFFICES ASSUME NEW n \in Nat, n \in S PROVE n + 1 \in S
    OBVIOUS
  <2>1. PICK g : g = [i \in 0 .. n |-> IF i = 0 THEN low ELSE g[i - 1] * ratio]
    BY DEF PowerTable
  <2>2. PICK h : h = [i \in 0 .. n + 1 |-> IF i = n + 1 THEN g[n] * ratio ELSE g[i]]
    OBVIOUS
  <2>3. ASSUME NEW i \in 0 .. n + 1
        PROVE  h[i] = IF i = 0 THEN low ELSE h[i - 1] * ratio
    <3>1. CASE i = n + 1
      <4>1. h[i] = g[n] * ratio /\ h[i - 1] = g[n] /\ i # 0
        BY <2>2, <3>1
      <4> QED BY <4>1
    <3>2. CASE i \in 0 .. n
      <4>1. g[i] = IF i = 0 THEN low ELSE g[i - 1] * ratio
        BY <2>1, <3>2
      <4>2. h[i] = g[i] /\ (i # 0 => h[i - 1] = g[i - 1])
        BY <2>2, <3>2
      <4> QED BY <4>1, <4>2
    <3> QED BY <3>1, <3>2
  <2>4. h = [i \in 0 .. n + 1 |-> IF i = 0 THEN low ELSE h[i - 1] * ratio]
    <3>1. h = [i \in 0 .. n + 1 |-> h[i]]
      BY <2>2
    <3> QED BY <2>3, <3>1
  <2> QED BY <2>4 DEF PowerTable
<1> HIDE DEF S
<1>3. m \in S
  BY <1>1, <1>2, SetInduction
<1> QED BY <1>3 DEF S

LEMMA PowersRise ==
    ASSUME NEW cfg \in R!GridConfig, NEW ratio \in Nat, ratio >= 2
    PROVE  Rising(R!Powers(cfg, ratio), cfg.grids)
<1>1. PICK low \in Nat \ {0} : low = cfg.lower
  BY DEF R!GridConfig
<1>2. PICK n \in Nat \ {0} : n = cfg.grids
  BY DEF R!GridConfig
<1>3. PICK h : h = CHOOSE g : PowerTable(g, low, ratio, n)
  OBVIOUS
<1>4. PowerTable(h, low, ratio, n)
  BY <1>3, PowerTableExists
<1>5. R!Powers(cfg, ratio) = h
  BY <1>1, <1>2, <1>3 DEF R!Powers, PowerTable
<1>6. /\ h[0] = low
      /\ \A k \in 0 .. n - 1 : h[k + 1] = h[k] * ratio
  <2>1. \A k \in 0 .. n - 1 : k + 1 \in 0 .. n /\ k + 1 # 0 /\ (k + 1) - 1 = k
    OBVIOUS
  <2> QED BY <1>4, <2>1 DEF PowerTable
<1> DEFINE S == {k \in Nat : k <= n =>
                   \A i \in 0 .. k : h[i] \in Nat \ {0} /\ (i < k => h[i] < h[k])}
<1>7. 0 \in S
  BY <1>1, <1>6
<1>8. \A k \in Nat : k \in S => k + 1 \in S
  <2> SUFFICES ASSUME NEW k \in Nat, k \in S, k + 1 <= n, NEW i \in 0 .. k + 1
               PROVE  h[i] \in Nat \ {0} /\ (i < k + 1 => h[i] < h[k + 1])
    OBVIOUS
  <2>1. \A m \in 0 .. k : h[m] \in Nat \ {0} /\ (m < k => h[m] < h[k])
    OBVIOUS
  <2>2. PICK x \in Nat \ {0} : x = h[k]
    BY <2>1
  <2>3. PICK y \in Nat : y = x * ratio
    OBVIOUS
  <2>4. x * 2 <= x * ratio
    OBVIOUS
  <2>5. x < y
    BY <2>3, <2>4
  <2>6. h[k + 1] = y
    BY <1>6, <2>2, <2>3
  <2>7. CASE i = k + 1
    BY <2>5, <2>6, <2>7
  <2>8. CASE i \in 0 .. k
    <3>1. h[i] \in Nat \ {0} /\ (i < k => h[i] < x) /\ (i = k => h[i] = x)
      BY <2>1, <2>2, <2>8
    <3> QED BY <2>5, <2>6, <2>8, <3>1
  <2> QED BY <2>7, <2>8
<1> HIDE DEF S
<1>9. \A k \in Nat : k \in S
  BY <1>7, <1>8, SetInduction
<1>10. /\ \A k \in 0 .. n : h[k] \in Nat \ {0}
       /\ \A i, k \in 0 .. n : i < k => h[i] < h[k]
  BY <1>9 DEF S
<1>11. h = [i \in 0 .. n |-> h[i]]
  BY <1>4 DEF PowerTable
<1> QED
  BY <1>2, <1>5, <1>10, <1>11 DEF Rising

LEMMA SpacedRises ==
    ASSUME NEW cfg \in R!GridConfig, R!Spaced(cfg)
    PROVE  GoodConfig(cfg)
<1>1. CASE cfg.mode = "ARITHMETIC"
  BY <1>1, StepsRise DEF GoodConfig, R!Levels, R!Spaced
<1>2. CASE cfg.mode # "ARITHMETIC"
  <2>1. PICK r \in 2 .. cfg.upper : r = R!Ratio(cfg)
    BY <1>2 DEF R!Ratio, R!Spaced
  <2>2. Rising(R!Powers(cfg, r), cfg.grids)
    <3>1. r \in Nat /\ r >= 2
      BY DEF R!GridConfig
    <3> QED BY <3>1, PowersRise
  <2> QED
    BY <1>2, <2>1, <2>2 DEF GoodConfig, R!Levels
<1> QED
  BY <1>1, <1>2

\* A grid that the gated run puts around an open is one of rising levels.
LEMMA AroundRises ==
    ASSUME config \in RadarConfigs, NEW c \in Candles
    PROVE  GoodConfig(R!Around(c.open))
<1>1. PICK price \in Nat \ {0} : price = c.open
  BY SessionAssumption DEF R!SessionAssumption, R!Candle
<1>2. config \in R!RadarConfig /\ config.grids <= 2 * R!Rated(price, config.range)
  BY <1>1, SessionAssumption DEF R!SessionAssumption
<1>3. PICK r \in 0 .. 999 : r = config.range
  BY <1>2 DEF R!RadarConfig, R!Thousand
<1>4. PICK m \in Nat : m = price * r
  OBVIOUS
<1>5. m <= price * 999
  BY <1>4
<1>6. PICK half \in Int : half = m \div 1000
  OBVIOUS
<1>7. half >= 0 /\ half <= price - 1
  BY <1>4, <1>5, <1>6
<1>8. half = R!Rated(price, config.range)
  BY <1>3, <1>4, <1>6 DEF R!Rated, R!Thousand
<1>9. PICK cfg : cfg = R!Around(price)
  OBVIOUS
<1>10. /\ cfg = [lower |-> price - half, upper |-> price + half, grids |-> config.grids,
                 margin |-> config.margin, leverage |-> config.leverage,
                 type |-> "NEUTRAL", mode |-> "ARITHMETIC",
                 stopLoss |-> config.stopLoss, takeProfit |-> config.takeProfit]
  BY <1>8, <1>9 DEF R!Around
<1>11. cfg \in R!GridConfig
  <2>1. price - half \in Nat \ {0} /\ price + half \in Nat \ {0}
    BY <1>7
  <2> QED
    BY <1>2, <1>10, <2>1 DEF R!GridConfig, R!RadarConfig
<1>12. R!Spaced(cfg)
  <2>1. PICK n \in Nat : n = config.grids
    BY <1>2 DEF R!RadarConfig
  <2>2. n <= 2 * half
    BY <1>2, <1>8, <2>1
  <2> QED
    BY <1>7, <1>10, <2>1, <2>2 DEF R!Spaced
<1> QED
  BY <1>1, <1>9, <1>11, <1>12, SpacedRises

-----------------------------------------------------------------------------
(* Orders                                                                  *)

\* Buys below, sells above, and at most one level between them without either.
Ladder(orders, n) ==
    /\ orders.buys \subseteq 0 .. n /\ orders.sells \subseteq 0 .. n
    /\ \A i \in orders.buys, j \in 0 .. n : j < i => j \in orders.buys
    /\ \A i \in orders.sells, j \in 0 .. n : i < j => j \in orders.sells
    /\ \A i \in orders.buys, j \in orders.sells : i < j
    /\ \A i, j \in (0 .. n) \ (orders.buys \cup orders.sells) : i = j

Bracketed(orders, level, price) ==
    /\ \A i \in orders.buys : level[i] <= price
    /\ \A i \in orders.sells : price <= level[i]

\* The orders after the price has come down from one price to another, or up.
AfterFall(orders, met, n) ==
    [buys |-> orders.buys \ met,
     sells |-> orders.sells \cup {i \in 0 .. n : i - 1 \in met}]
AfterRise(orders, met, n) ==
    [buys |-> orders.buys \cup {i \in 0 .. n : i + 1 \in met},
     sells |-> orders.sells \ met]

LEMMA FallKeepsLadder ==
    ASSUME NEW n \in Nat, NEW level, Rising(level, n), NEW orders, Ladder(orders, n),
           NEW from \in Int, NEW to \in Int, to < from, Bracketed(orders, level, from),
           NEW met, met = R!MetFalling(orders.buys, level, from, to),
           NEW after, after = AfterFall(orders, met, n)
    PROVE  Ladder(after, n) /\ Bracketed(after, level, to)
<1>1. \A i \in 0 .. n : level[i] \in Int
  BY DEF Rising
<1>2. \A i, j \in 0 .. n : i <= j => level[i] <= level[j]
  <2> SUFFICES ASSUME NEW i \in 0 .. n, NEW j \in 0 .. n, i <= j PROVE level[i] <= level[j]
    OBVIOUS
  <2>1. CASE i = j
    BY <1>1, <2>1
  <2>2. CASE i < j
    BY <1>1, <2>2 DEF Rising
  <2> QED BY <2>1, <2>2
<1>3. PICK buys, sells : /\ buys = orders.buys /\ sells = orders.sells
                         /\ buys \subseteq 0 .. n /\ sells \subseteq 0 .. n
  BY DEF Ladder
<1>4. /\ \A i \in buys, j \in 0 .. n : j < i => j \in buys
      /\ \A i \in sells, j \in 0 .. n : i < j => j \in sells
      /\ \A i \in buys, j \in sells : i < j
      /\ \A i, j \in 0 .. n : i \notin buys /\ i \notin sells /\ j \notin buys /\ j \notin sells
            => i = j
  BY <1>3 DEF Ladder
<1>5. \A i : i \in met <=> i \in buys /\ to <= level[i]
  BY <1>1, <1>3 DEF R!MetFalling, Bracketed
<1>6. PICK more : more = {i \in 0 .. n : i - 1 \in met}
  OBVIOUS
<1>7. after.buys = buys \ met /\ after.sells = sells \cup more
  BY <1>3, <1>6 DEF AfterFall
<1>8. \A i \in buys \ met, j \in 0 .. n : j < i => j \in buys \ met
  BY <1>1, <1>2, <1>3, <1>4, <1>5
<1>9. ASSUME NEW i \in sells \cup more, NEW j \in 0 .. n, i < j, j \notin sells
      PROVE  j \in more
  <2>1. i \in more
    BY <1>4, <1>9
  <2>2. i - 1 \in met /\ i - 1 \in 0 .. n /\ i \in 0 .. n
    BY <1>3, <1>5, <1>6, <2>1
  <2>3. j - 1 \in 0 .. n /\ i <= j - 1 /\ j - 1 < j
    BY <1>9, <2>2
  <2>4. j - 1 \notin sells
    BY <1>4, <1>9, <2>3
  <2>5. j - 1 \in buys
    <3>1. CASE j \in buys
      BY <1>4, <2>3, <3>1
    <3>2. CASE j \notin buys
      <4>1. j - 1 # j
        BY <2>3
      <4> QED BY <1>4, <1>9, <2>3, <2>4, <3>2, <4>1
    <3> QED BY <3>1, <3>2
  <2>6. to <= level[j - 1]
    <3>1. to <= level[i - 1] /\ level[i - 1] <= level[j - 1]
      BY <1>2, <1>5, <2>2, <2>3
    <3> QED BY <1>1, <2>2, <2>3, <3>1
  <2>7. j - 1 \in met
    BY <1>5, <2>5, <2>6
  <2> QED BY <1>6, <2>7
<1>10. ASSUME NEW i \in buys \ met, NEW j \in sells \cup more PROVE i < j
  <2>1. CASE j \in sells
    BY <1>4, <2>1
  <2>2. CASE j \in more
    <3>1. j - 1 \in buys /\ to <= level[j - 1] /\ j - 1 \in 0 .. n /\ i \in 0 .. n /\ j \in 0 .. n
      BY <1>3, <1>5, <1>6, <2>2
    <3>2. level[i] < to
      BY <1>1, <1>5, <3>1
    <3>3. ~(j - 1 <= i)
      BY <1>1, <1>2, <3>1, <3>2
    <3> QED BY <3>1, <3>3
  <2> QED BY <2>1, <2>2
<1>11. ASSUME NEW i \in 0 .. n, NEW j \in 0 .. n, i < j,
              i \notin buys \ met, j \notin buys \ met, i \notin sells \cup more, j \notin sells \cup more
       PROVE  FALSE
  <2>1. j - 1 \in 0 .. n /\ i <= j - 1 /\ j - 1 \notin met
    BY <1>6, <1>11
  <2>2. j - 1 \notin sells
    BY <1>4, <1>11, <2>1
  <2>3. j - 1 \in buys
    <3>1. CASE j \in buys
      BY <1>4, <2>1, <3>1
    <3>2. CASE j \notin buys
      <4>1. j - 1 # j
        BY <2>1
      <4> QED BY <1>4, <1>11, <2>1, <2>2, <3>2, <4>1
    <3> QED BY <3>1, <3>2
  <2>4. level[j - 1] < to
    BY <1>1, <1>5, <2>1, <2>3
  <2>5. i # j - 1
    BY <1>11, <2>1, <2>3
  <2>6. i \in buys
    BY <1>4, <2>1, <2>3, <2>5
  <2>7. i \in met
    BY <1>11, <2>6
  <2>8. level[i] <= level[j - 1] /\ to <= level[i]
    BY <1>2, <1>5, <2>1, <2>7
  <2> QED BY <1>1, <2>1, <2>4, <2>8
<1>12. \A i \in buys \ met : level[i] <= to
  BY <1>1, <1>3, <1>5
<1>13. ASSUME NEW i \in sells \cup more PROVE to <= level[i]
  <2>1. CASE i \in sells
    <3>1. from <= level[i] /\ level[i] \in Int
      BY <1>1, <1>3, <2>1 DEF Bracketed
    <3> QED BY <3>1
  <2>2. CASE i \in more
    <3>1. i - 1 \in 0 .. n /\ i \in 0 .. n /\ to <= level[i - 1]
      BY <1>3, <1>5, <1>6, <2>2
    <3>2. level[i - 1] <= level[i]
      BY <1>2, <3>1
    <3> QED BY <1>1, <3>1, <3>2
  <2> QED BY <2>1, <2>2
<1>14. Ladder(after, n)
  <2>1. after.buys \subseteq 0 .. n /\ after.sells \subseteq 0 .. n
    BY <1>3, <1>6, <1>7
  <2>2. \A i, j \in (0 .. n) \ (after.buys \cup after.sells) : i = j
    <3> SUFFICES ASSUME NEW i \in (0 .. n) \ (after.buys \cup after.sells),
                        NEW j \in (0 .. n) \ (after.buys \cup after.sells), i # j
                 PROVE  FALSE
      OBVIOUS
    <3>1. i \in 0 .. n /\ j \in 0 .. n /\ (i < j \/ j < i)
      OBVIOUS
    <3> QED BY <1>7, <1>11, <3>1
  <2> QED BY <1>7, <1>8, <1>9, <1>10, <2>1, <2>2 DEF Ladder
<1> QED
  BY <1>7, <1>12, <1>13, <1>14 DEF Bracketed

LEMMA RiseKeepsLadder ==
    ASSUME NEW n \in Nat, NEW level, Rising(level, n), NEW orders, Ladder(orders, n),
           NEW from \in Int, NEW to \in Int, from < to, Bracketed(orders, level, from),
           NEW met, met = R!MetRising(orders.sells, level, from, to),
           NEW after, after = AfterRise(orders, met, n)
    PROVE  Ladder(after, n) /\ Bracketed(after, level, to)
<1>1. \A i \in 0 .. n : level[i] \in Int
  BY DEF Rising
<1>2. \A i, j \in 0 .. n : i <= j => level[i] <= level[j]
  <2> SUFFICES ASSUME NEW i \in 0 .. n, NEW j \in 0 .. n, i <= j PROVE level[i] <= level[j]
    OBVIOUS
  <2>1. CASE i = j
    BY <1>1, <2>1
  <2>2. CASE i < j
    BY <1>1, <2>2 DEF Rising
  <2> QED BY <2>1, <2>2
<1>3. PICK buys, sells : /\ buys = orders.buys /\ sells = orders.sells
                         /\ buys \subseteq 0 .. n /\ sells \subseteq 0 .. n
  BY DEF Ladder
<1>4. /\ \A i \in buys, j \in 0 .. n : j < i => j \in buys
      /\ \A i \in sells, j \in 0 .. n : i < j => j \in sells
      /\ \A i \in buys, j \in sells : i < j
      /\ \A i, j \in 0 .. n : i \notin buys /\ i \notin sells /\ j \notin buys /\ j \notin sells
            => i = j
  BY <1>3 DEF Ladder
<1>5. \A i : i \in met <=> i \in sells /\ level[i] <= to
  BY <1>1, <1>3 DEF R!MetRising, Bracketed
<1>6. PICK more : more = {i \in 0 .. n : i + 1 \in met}
  OBVIOUS
<1>7. after.buys = buys \cup more /\ after.sells = sells \ met
  BY <1>3, <1>6 DEF AfterRise
<1>8. \A i \in sells \ met, j \in 0 .. n : i < j => j \in sells \ met
  BY <1>1, <1>2, <1>3, <1>4, <1>5
<1>9. ASSUME NEW i \in buys \cup more, NEW j \in 0 .. n, j < i, j \notin buys
      PROVE  j \in more
  <2>1. i \in more
    BY <1>4, <1>9
  <2>2. i + 1 \in met /\ i + 1 \in 0 .. n /\ i \in 0 .. n
    BY <1>3, <1>5, <1>6, <2>1
  <2>3. j + 1 \in 0 .. n /\ j + 1 <= i /\ j < j + 1
    BY <1>9, <2>2
  <2>4. j + 1 \notin buys
    BY <1>4, <1>9, <2>3
  <2>5. j + 1 \in sells
    <3>1. CASE j \in sells
      BY <1>4, <2>3, <3>1
    <3>2. CASE j \notin sells
      <4>1. j + 1 # j
        BY <2>3
      <4> QED BY <1>4, <1>9, <2>3, <2>4, <3>2, <4>1
    <3> QED BY <3>1, <3>2
  <2>6. level[j + 1] <= to
    <3>1. level[j + 1] <= level[i + 1] /\ level[i + 1] <= to
      BY <1>2, <1>5, <2>2, <2>3
    <3> QED BY <1>1, <2>2, <2>3, <3>1
  <2>7. j + 1 \in met
    BY <1>5, <2>5, <2>6
  <2> QED BY <1>6, <2>7
<1>10. ASSUME NEW i \in buys \cup more, NEW j \in sells \ met PROVE i < j
  <2>1. CASE i \in buys
    BY <1>4, <2>1
  <2>2. CASE i \in more
    <3>1. i + 1 \in sells /\ level[i + 1] <= to /\ i + 1 \in 0 .. n /\ i \in 0 .. n /\ j \in 0 .. n
      BY <1>3, <1>5, <1>6, <2>2
    <3>2. to < level[j]
      BY <1>1, <1>5, <3>1
    <3>3. ~(j <= i + 1)
      BY <1>1, <1>2, <3>1, <3>2
    <3> QED BY <3>1, <3>3
  <2> QED BY <2>1, <2>2
<1>11. ASSUME NEW i \in 0 .. n, NEW j \in 0 .. n, j < i,
              i \notin sells \ met, j \notin sells \ met, i \notin buys \cup more, j \notin buys \cup more
       PROVE  FALSE
  <2>1. j + 1 \in 0 .. n /\ j + 1 <= i /\ j + 1 \notin met
    BY <1>6, <1>11
  <2>2. j + 1 \notin buys
    BY <1>4, <1>11, <2>1
  <2>3. j + 1 \in sells
    <3>1. CASE j \in sells
      BY <1>4, <2>1, <3>1
    <3>2. CASE j \notin sells
      <4>1. j + 1 # j
        BY <2>1
      <4> QED BY <1>4, <1>11, <2>1, <2>2, <3>2, <4>1
    <3> QED BY <3>1, <3>2
  <2>4. to < level[j + 1]
    BY <1>1, <1>5, <2>1, <2>3
  <2>5. i # j + 1
    BY <1>11, <2>1, <2>3
  <2>6. i \in sells
    BY <1>4, <2>1, <2>3, <2>5
  <2>7. i \in met
    BY <1>11, <2>6
  <2>8. level[j + 1] <= level[i] /\ level[i] <= to
    BY <1>2, <1>5, <2>1, <2>7
  <2> QED BY <1>1, <2>1, <2>4, <2>8
<1>12. \A i \in sells \ met : to <= level[i]
  BY <1>1, <1>3, <1>5
<1>13. ASSUME NEW i \in buys \cup more PROVE level[i] <= to
  <2>1. CASE i \in buys
    <3>1. level[i] <= from /\ level[i] \in Int
      BY <1>1, <1>3, <2>1 DEF Bracketed
    <3> QED BY <3>1
  <2>2. CASE i \in more
    <3>1. i + 1 \in 0 .. n /\ i \in 0 .. n /\ level[i + 1] <= to
      BY <1>3, <1>5, <1>6, <2>2
    <3>2. level[i] <= level[i + 1]
      BY <1>2, <3>1
    <3> QED BY <1>1, <3>1, <3>2
  <2> QED BY <2>1, <2>2
<1>14. Ladder(after, n)
  <2>1. after.buys \subseteq 0 .. n /\ after.sells \subseteq 0 .. n
    BY <1>3, <1>6, <1>7
  <2>2. \A i, j \in (0 .. n) \ (after.buys \cup after.sells) : i = j
    <3> SUFFICES ASSUME NEW i \in (0 .. n) \ (after.buys \cup after.sells),
                        NEW j \in (0 .. n) \ (after.buys \cup after.sells), i # j
                 PROVE  FALSE
      OBVIOUS
    <3>1. i \in 0 .. n /\ j \in 0 .. n /\ (i < j \/ j < i)
      OBVIOUS
    <3> QED BY <1>7, <1>11, <3>1
  <2> QED BY <1>7, <1>8, <1>9, <1>10, <2>1, <2>2 DEF Ladder
<1> QED
  BY <1>7, <1>12, <1>13, <1>14 DEF Bracketed

\* What InitialOrders leaves.
LEMMA InitialLadder ==
    ASSUME NEW cfg, GoodConfig(cfg), NEW price \in Int,
           NEW orders, orders = R!InitialOrders(cfg, price)
    PROVE  Ladder(orders, cfg.grids) /\ Bracketed(orders, R!Levels(cfg), price)
<1>1. PICK n \in Nat : n = cfg.grids
  BY DEF GoodConfig, R!GridConfig
<1>2. PICK level : level = R!Levels(cfg)
  OBVIOUS
<1>3. level \in [0 .. n -> Nat \ {0}] /\ \A i, j \in 0 .. n : i < j => level[i] < level[j]
  BY <1>1, <1>2 DEF GoodConfig, Rising
<1>4. DOMAIN level = 0 .. n /\ \A i \in 0 .. n : level[i] \in Int
  BY <1>3
<1>5. PICK below, above : /\ below = {i \in 0 .. n : level[i] < price}
                          /\ above = {i \in 0 .. n : level[i] > price}
  OBVIOUS
<1>6. \/ orders.buys = below /\ orders.sells = above
      \/ orders.buys = below /\ orders.sells = (0 .. n) \ below
      \/ orders.buys = (0 .. n) \ above /\ orders.sells = above
  <2>1. cfg.type \in {"NEUTRAL", "LONG", "SHORT"}
    BY DEF GoodConfig, R!GridConfig
  <2> QED BY <1>2, <1>4, <1>5, <2>1 DEF R!InitialOrders
<1>7. Bracketed(orders, level, price)
  BY <1>4, <1>5, <1>6 DEF Bracketed
<1>8. \A i \in 0 .. n : /\ i \in below <=> level[i] < price
                        /\ i \in above <=> level[i] > price
  BY <1>5
<1>9. below \subseteq 0 .. n /\ above \subseteq 0 .. n
  BY <1>5
<1>10. \A i, j \in 0 .. n : level[i] = level[j] => i = j
  BY <1>3, <1>4
<1>14. /\ \A i \in below, j \in 0 .. n : j < i => j \in below
       /\ \A i \in above, j \in 0 .. n : i < j => j \in above
  BY <1>3, <1>4, <1>8, <1>9
<1>15. below \cap above = {}
  BY <1>4, <1>8, <1>9
<1>16. \A i, j \in 0 .. n : i < j \/ i = j \/ j < i
  OBVIOUS
<1>11. /\ \A i \in orders.buys, j \in 0 .. n : j < i => j \in orders.buys
       /\ \A i \in orders.sells, j \in 0 .. n : i < j => j \in orders.sells
  BY <1>6, <1>9, <1>14
<1>12. \A i \in orders.buys, j \in orders.sells : i < j
  BY <1>6, <1>9, <1>14, <1>15, <1>16
<1>13. \A i, j \in (0 .. n) \ (orders.buys \cup orders.sells) : i = j
  BY <1>4, <1>6, <1>8, <1>10
<1> QED
  BY <1>1, <1>2, <1>6, <1>7, <1>9, <1>11, <1>12, <1>13 DEF Ladder

-----------------------------------------------------------------------------
(* The books of a session                                                  *)

Endings == {"LIQUIDATED", "CLOSED_SL", "CLOSED_TP", "CLOSED_GATE", "TIMEOUT"}
Trades == {"BUY_FILL", "SELL_FILL", "FUNDING"} \cup Endings

SessionEvents ==
    [type : Trades, qty : Int, value : Int, fee : Int, pnl : Int, inventory : Int, wallet : Int]

SessionRecords ==
    [status : {"ACTIVE"} \cup Endings, config : R!GridConfig, lastPrice : Nat \ {0},
     wallet : Int, peak : Nat \ {0}, drawdown : Int, inv : Inventory, peakInventory : Int,
     maxNotional : Int, profit : Int, fees : Int, funding : Int, completed : Nat, fills : Nat,
     orders : [buys : SUBSET Nat, sells : SUBSET Nat], events : Seq(SessionEvents)]

\* The inventory before the next event.
Held(s) == IF s.events = <<>> THEN 0 ELSE s.events[Len(s.events)].inventory

\* Money is accounted for by the events, and by the inventory at cost as long as no
\* fill has turned it.
InBooks(s) ==
    /\ R!NetPnl(s) = s.profit - s.fees - s.funding + R!ExitProfit(s)
    /\ s.fees = R!FeesCharged(s)
    /\ ~R!Turned(s) => R!NetPnl(s) = R!CashMoved(s) + s.inv.cost
    /\ s.inv.qty = Held(s) /\ Signed(s.inv)

SessionOk(s) == s \in SessionRecords /\ GoodConfig(s.config) /\ InBooks(s)

LEMMA EventValues ==
    ASSUME NEW e \in SessionEvents
    PROVE  /\ R!Cash(e) \in Int /\ R!FeeOf(e) \in Int /\ R!ExitOf(e) \in Int
           /\ e.inventory \in Int /\ e.wallet \in Int /\ e.fee \in Int
<1>1. e.value \in Int /\ e.fee \in Int /\ e.pnl \in Int /\ e.inventory \in Int /\ e.wallet \in Int
  BY DEF SessionEvents
<1>2. \A x \in Int : -x \in Int
  OBVIOUS
<1>3. R!Cash(e) \in Int
  BY <1>1, <1>2 DEF R!Cash
<1> QED
  BY <1>1, <1>3 DEF R!FeeOf, R!ExitOf

LEMMA OneSummandMore ==
    ASSUME NEW n \in Nat, NEW w, NEW v, \A i \in 1 .. n : w[i] \in Int /\ v[i] = w[i],
           v[n + 1] \in Int
    PROVE  /\ SumTo(w, n) \in Int
           /\ SumTo(v, n + 1) = SumTo(w, n) + v[n + 1]
<1>1. SumTo(w, n) = SumTo(v, n)
  BY SumToAgree
<1> QED
  BY <1>1, SumToStep, SumToInt

\* What an event adds to the sums, and when it turns the inventory.
LEMMA EventAdded ==
    ASSUME NEW s, s.events \in Seq(SessionEvents), NEW e \in SessionEvents,
           NEW t, t.events = Append(s.events, e)
    PROVE  /\ R!CashMoved(s) \in Int /\ R!CashMoved(t) = R!CashMoved(s) + R!Cash(e)
           /\ R!FeesCharged(s) \in Int /\ R!FeesCharged(t) = R!FeesCharged(s) + R!FeeOf(e)
           /\ R!ExitProfit(s) \in Int /\ R!ExitProfit(t) = R!ExitProfit(s) + R!ExitOf(e)
           /\ R!Turned(s) => R!Turned(t)
           /\ Held(s) * e.inventory < 0 => R!Turned(t)
           /\ Held(t) = e.inventory
<1>1. PICK n \in Nat : n = Len(s.events)
  OBVIOUS
<1>2. /\ DOMAIN s.events = 1 .. n /\ DOMAIN t.events = 1 .. n + 1
      /\ \A k \in 1 .. n : s.events[k] \in SessionEvents /\ t.events[k] = s.events[k]
      /\ t.events[n + 1] = e /\ Len(t.events) = n + 1 /\ t.events # <<>>
  BY <1>1
<1>3. R!CashMoved(s) \in Int /\ R!CashMoved(t) = R!CashMoved(s) + R!Cash(e)
  <2>1. PICK w, v : /\ w = [k \in 1 .. n |-> R!Cash(s.events[k])]
                    /\ v = [k \in 1 .. n + 1 |-> R!Cash(t.events[k])]
    OBVIOUS
  <2>2. \A i \in 1 .. n : w[i] \in Int /\ v[i] = w[i]
    BY <1>2, <2>1, EventValues
  <2>3. v[n + 1] = R!Cash(e) /\ v[n + 1] \in Int
    BY <1>2, <2>1, EventValues
  <2>4. Len(w) = n /\ Len(v) = n + 1
    BY <2>1
  <2>5. R!CashMoved(s) = SumTo(w, n) /\ R!CashMoved(t) = SumTo(v, n + 1)
    BY <1>2, <2>1, <2>4, SameFormulas DEF R!CashMoved, R!Total
  <2> QED BY <2>2, <2>3, <2>5, OneSummandMore
<1>4. R!FeesCharged(s) \in Int /\ R!FeesCharged(t) = R!FeesCharged(s) + R!FeeOf(e)
  <2>1. PICK w, v : /\ w = [k \in 1 .. n |-> R!FeeOf(s.events[k])]
                    /\ v = [k \in 1 .. n + 1 |-> R!FeeOf(t.events[k])]
    OBVIOUS
  <2>2. \A i \in 1 .. n : w[i] \in Int /\ v[i] = w[i]
    BY <1>2, <2>1, EventValues
  <2>3. v[n + 1] = R!FeeOf(e) /\ v[n + 1] \in Int
    BY <1>2, <2>1, EventValues
  <2>4. Len(w) = n /\ Len(v) = n + 1
    BY <2>1
  <2>5. R!FeesCharged(s) = SumTo(w, n) /\ R!FeesCharged(t) = SumTo(v, n + 1)
    BY <1>2, <2>1, <2>4, SameFormulas DEF R!FeesCharged, R!Total
  <2> QED BY <2>2, <2>3, <2>5, OneSummandMore
<1>5. R!ExitProfit(s) \in Int /\ R!ExitProfit(t) = R!ExitProfit(s) + R!ExitOf(e)
  <2>1. PICK w, v : /\ w = [k \in 1 .. n |-> R!ExitOf(s.events[k])]
                    /\ v = [k \in 1 .. n + 1 |-> R!ExitOf(t.events[k])]
    OBVIOUS
  <2>2. \A i \in 1 .. n : w[i] \in Int /\ v[i] = w[i]
    BY <1>2, <2>1, EventValues
  <2>3. v[n + 1] = R!ExitOf(e) /\ v[n + 1] \in Int
    BY <1>2, <2>1, EventValues
  <2>4. Len(w) = n /\ Len(v) = n + 1
    BY <2>1
  <2>5. R!ExitProfit(s) = SumTo(w, n) /\ R!ExitProfit(t) = SumTo(v, n + 1)
    BY <1>2, <2>1, <2>4, SameFormulas DEF R!ExitProfit, R!Total
  <2> QED BY <2>2, <2>3, <2>5, OneSummandMore
<1>6. \A k \in 1 .. n : R!TurnedAt(s, k) => R!TurnedAt(t, k)
  <2> SUFFICES ASSUME NEW k \in 1 .. n, R!TurnedAt(s, k) PROVE R!TurnedAt(t, k)
    OBVIOUS
  <2>1. k # 1 => k - 1 \in 1 .. n
    OBVIOUS
  <2> QED BY <1>2, <2>1 DEF R!TurnedAt
<1>7. R!Turned(s) => R!Turned(t)
  BY <1>2, <1>6 DEF R!Turned
<1>8. Held(s) * e.inventory < 0 => R!Turned(t)
  <2> SUFFICES ASSUME Held(s) * e.inventory < 0 PROVE R!TurnedAt(t, n + 1)
    BY <1>2 DEF R!Turned
  <2>1. Held(s) = IF n + 1 = 1 THEN 0 ELSE t.events[(n + 1) - 1].inventory
    <3>1. s.events = <<>> <=> n = 0
      BY <1>1
    <3>2. n # 0 => n \in 1 .. n
      OBVIOUS
    <3>3. (n + 1) - 1 = n /\ (n + 1 = 1 <=> n = 0)
      OBVIOUS
    <3> QED BY <1>1, <1>2, <3>1, <3>2, <3>3 DEF Held
  <2> QED BY <1>2, <2>1 DEF R!TurnedAt
<1>9. Held(t) = e.inventory
  BY <1>2 DEF Held
<1> QED
  BY <1>3, <1>4, <1>5, <1>7, <1>8, <1>9

\* The books move as an event says.
Moved(s, t, e) ==
    /\ t.wallet - s.wallet
          = (t.profit - s.profit) - (t.fees - s.fees) - (t.funding - s.funding) + R!ExitOf(e)
    /\ t.fees - s.fees = R!FeeOf(e)
    /\ \/ s.inv.qty * t.inv.qty < 0
       \/ t.wallet - s.wallet = R!Cash(e) + t.inv.cost - s.inv.cost

LEMMA BooksMove ==
    ASSUME NEW s, SessionOk(s), NEW t \in SessionRecords, t.config = s.config,
           NEW e \in SessionEvents, t.events = Append(s.events, e),
           t.inv.qty = e.inventory, Signed(t.inv), Moved(s, t, e)
    PROVE  SessionOk(t)
<1>1. s \in SessionRecords /\ GoodConfig(s.config) /\ InBooks(s)
  BY DEF SessionOk
<1>2. s.events \in Seq(SessionEvents)
  BY <1>1 DEF SessionRecords
<1>3. /\ R!CashMoved(s) \in Int /\ R!CashMoved(t) = R!CashMoved(s) + R!Cash(e)
      /\ R!FeesCharged(s) \in Int /\ R!FeesCharged(t) = R!FeesCharged(s) + R!FeeOf(e)
      /\ R!ExitProfit(s) \in Int /\ R!ExitProfit(t) = R!ExitProfit(s) + R!ExitOf(e)
      /\ R!Turned(s) => R!Turned(t)
      /\ Held(s) * e.inventory < 0 => R!Turned(t)
      /\ Held(t) = e.inventory
  BY <1>2, EventAdded
<1>4. R!Cash(e) \in Int /\ R!FeeOf(e) \in Int /\ R!ExitOf(e) \in Int
  BY EventValues
<1>5. /\ s.wallet \in Int /\ s.profit \in Int /\ s.fees \in Int /\ s.funding \in Int
      /\ t.wallet \in Int /\ t.profit \in Int /\ t.fees \in Int /\ t.funding \in Int
      /\ s.inv.cost \in Int /\ t.inv.cost \in Int
  BY <1>1 DEF SessionRecords, Inventory
<1>6. PICK m \in Int : m = s.config.margin
  BY <1>1 DEF GoodConfig, R!GridConfig
<1>7. R!NetPnl(s) = s.wallet - m /\ R!NetPnl(t) = t.wallet - m
  BY <1>6 DEF R!NetPnl
<1>8. R!NetPnl(t) = t.profit - t.fees - t.funding + R!ExitProfit(t)
  <2>1. s.wallet - m = s.profit - s.fees - s.funding + R!ExitProfit(s)
    BY <1>1, <1>7 DEF InBooks
  <2>2. PICK x \in Int, y \in Int : x = R!ExitProfit(s) /\ y = R!ExitOf(e)
    BY <1>3, <1>4
  <2>3. s.wallet - m = s.profit - s.fees - s.funding + x
    BY <2>1, <2>2
  <2>4. t.wallet - s.wallet
           = (t.profit - s.profit) - (t.fees - s.fees) - (t.funding - s.funding) + y
    BY <2>2 DEF Moved
  <2>6. PICK w \in Int, v \in Int, p \in Int, q \in Int, f \in Int, g \in Int, u \in Int,
             r \in Int : /\ w = s.wallet /\ v = t.wallet /\ p = s.profit /\ q = t.profit
                        /\ f = s.fees /\ g = t.fees /\ u = s.funding /\ r = t.funding
    BY <1>5
  <2>7. w - m = p - f - u + x
    BY <2>3, <2>6
  <2>8. v - w = (q - p) - (g - f) - (r - u) + y
    BY <2>4, <2>6
  <2>9. v - m = q - g - r + (x + y)
    BY <2>7, <2>8
  <2>5. t.wallet - m = t.profit - t.fees - t.funding + (x + y)
    BY <2>6, <2>9
  <2> QED
    BY <1>3, <1>7, <2>2, <2>5
<1>9. t.fees = R!FeesCharged(t)
  <2>1. s.fees = R!FeesCharged(s)
    BY <1>1 DEF InBooks
  <2> QED
    BY <1>3, <1>4, <1>5, <2>1 DEF Moved
<1>10. ~R!Turned(t) => R!NetPnl(t) = R!CashMoved(t) + t.inv.cost
  <2> SUFFICES ASSUME ~R!Turned(t) PROVE R!NetPnl(t) = R!CashMoved(t) + t.inv.cost
    OBVIOUS
  <2>1. ~R!Turned(s) /\ ~(s.inv.qty * t.inv.qty < 0)
    BY <1>1, <1>3 DEF InBooks
  <2>2. t.wallet - s.wallet = R!Cash(e) + t.inv.cost - s.inv.cost
    BY <2>1 DEF Moved
  <2>3. s.wallet - m = R!CashMoved(s) + s.inv.cost
    BY <1>1, <1>7, <2>1 DEF InBooks
  <2>4. PICK x \in Int, y \in Int : x = R!CashMoved(s) /\ y = R!Cash(e)
    BY <1>3, <1>4
  <2>5. t.wallet - m = (x + y) + t.inv.cost
    <3>1. PICK w \in Int, v \in Int, c \in Int, d \in Int :
             /\ w = s.wallet /\ v = t.wallet /\ c = s.inv.cost /\ d = t.inv.cost
      BY <1>5
    <3>2. w - m = x + c /\ v - w = y + d - c
      BY <2>2, <2>3, <2>4, <3>1
    <3>3. v - m = (x + y) + d
      BY <3>2
    <3> QED BY <3>1, <3>3
  <2> QED
    BY <1>3, <1>7, <2>4, <2>5
<1> QED
  BY <1>1, <1>3, <1>8, <1>9, <1>10 DEF SessionOk, InBooks

-----------------------------------------------------------------------------
(* Fills                                                                   *)

\* What fills leave alone.
Steady(s, t) == t.config = s.config /\ t.status = s.status /\ t.lastPrice = s.lastPrice

LEMMA BookedOk ==
    ASSUME NEW s, SessionOk(s), NEW type, NEW d \in Int, NEW price \in Nat,
           (type = "BUY_FILL" /\ d >= 0) \/ (type = "SELL_FILL" /\ d <= 0),
           NEW t, t = R!Booked(s, type, d, price)
    PROVE  SessionOk(t) /\ Steady(s, t) /\ t.orders = s.orders
<1>1. s \in SessionRecords /\ s.inv \in Inventory /\ Signed(s.inv)
  BY DEF SessionOk, InBooks, SessionRecords
<1>2. PICK size \in Nat : size = R!Magnitude(d)
  BY DEF R!Magnitude
<1>3. PICK value \in Int : value = size * price
  OBVIOUS
<1>4. PICK fee \in Int : fee = R!Rated(value, MakerFee)
  BY RatedInt, RatesAreInt, SameFormulas
<1>5. PICK pnl \in Int, inv \in Inventory :
         /\ pnl = R!Realized(s.inv, d, price) /\ inv = R!Traded(s.inv, d, price) /\ Signed(inv)
         /\ ~R!Flips(s.inv, d) => pnl = inv.cost - s.inv.cost - d * price
  BY <1>1, TradedSigned, SameFormulas
<1>6. inv.qty = s.inv.qty + d /\ inv.qty \in Int
  BY <1>1, <1>5 DEF R!Traded, Inventory
<1>7. PICK most \in Int : most = R!Larger(s.peakInventory, R!Magnitude(inv.qty))
  BY <1>1, <1>6 DEF R!Larger, R!Magnitude, SessionRecords
<1>8. PICK worth \in Int : worth = R!Larger(s.maxNotional, R!Notional(inv, price))
  <2>1. PICK m \in Int : m = R!Magnitude(inv.qty)
    BY <1>6 DEF R!Magnitude
  <2>2. R!Notional(inv, price) \in Int
    BY <2>1 DEF R!Notional
  <2> QED BY <1>1, <2>2 DEF R!Larger, SessionRecords
<1>9. PICK wallet \in Int, fees \in Int, profit \in Int, fills \in Nat :
         /\ wallet = s.wallet - fee + pnl /\ fees = s.fees + fee
         /\ profit = s.profit + pnl /\ fills = s.fills + 1
  <2>1. PICK w \in Int, f \in Int, p \in Int, k \in Nat :
           w = s.wallet /\ f = s.fees /\ p = s.profit /\ k = s.fills
    BY <1>1 DEF SessionRecords
  <2>2. w - fee + pnl \in Int /\ f + fee \in Int /\ p + pnl \in Int /\ k + 1 \in Nat
    OBVIOUS
  <2> QED BY <2>1, <2>2
<1>10. PICK mid : mid = [s EXCEPT !.wallet = wallet, !.fees = fees, !.fills = fills,
                                  !.profit = profit, !.inv = inv,
                                  !.peakInventory = most, !.maxNotional = worth]
  OBVIOUS
<1>11. /\ mid \in SessionRecords /\ mid.inv = inv /\ mid.wallet = wallet
       /\ mid.fees = fees /\ mid.profit = profit /\ mid.funding = s.funding
       /\ mid.events = s.events /\ mid.orders = s.orders /\ Steady(s, mid)
  BY <1>1, <1>10 DEF SessionRecords, Steady
<1>12. PICK e : e = R!Event(type, size, value, fee, pnl, mid)
  OBVIOUS
<1>13. e = [type |-> type, qty |-> size, value |-> value, fee |-> fee, pnl |-> pnl,
            inventory |-> inv.qty, wallet |-> wallet]
  BY <1>11, <1>12 DEF R!Event
<1>14. e \in SessionEvents
  BY <1>6, <1>13 DEF SessionEvents, Trades
<1>15. t = [mid EXCEPT !.events = Append(s.events, e)]
  <2>1. R!Rated(R!Magnitude(d) * price, MakerFee) = fee /\ R!Magnitude(d) * price = value
    BY <1>2, <1>3, <1>4
  <2>2. mid = [s EXCEPT !.wallet = @ - fee + pnl, !.fees = @ + fee, !.fills = @ + 1,
                        !.profit = @ + pnl, !.inv = inv,
                        !.peakInventory = R!Larger(@, R!Magnitude(inv.qty)),
                        !.maxNotional = R!Larger(@, R!Notional(inv, price))]
    BY <1>1, <1>7, <1>8, <1>9, <1>10 DEF SessionRecords
  <2>3. t = [mid EXCEPT !.events = Append(@, e)]
    BY <1>2, <1>3, <1>4, <1>5, <1>12, <2>1, <2>2 DEF R!Booked
  <2> QED BY <1>11, <2>3 DEF SessionRecords
<1>16. Append(s.events, e) \in Seq(SessionEvents)
  BY <1>1, <1>14 DEF SessionRecords
<1>17. /\ t \in SessionRecords /\ t.inv = inv /\ t.wallet = wallet
       /\ t.fees = fees /\ t.profit = profit /\ t.funding = s.funding
       /\ t.events = Append(s.events, e) /\ t.orders = s.orders /\ Steady(s, t)
  BY <1>11, <1>15, <1>16 DEF SessionRecords, Steady
<1>18. Moved(s, t, e)
  <2>1. /\ s.wallet \in Int /\ s.fees \in Int /\ s.profit \in Int /\ s.funding \in Int
        /\ s.inv.cost \in Int /\ inv.cost \in Int /\ s.inv.qty \in Int
    BY <1>1 DEF SessionRecords, Inventory
  <2>2. R!ExitOf(e) = 0 /\ R!FeeOf(e) = fee
    BY <1>13 DEF R!ExitOf, R!FeeOf
  <2>3. PICK bought \in Int : bought = d * price
    OBVIOUS
  <2>4. R!Cash(e) = -bought - fee
    <3>1. CASE type = "BUY_FILL" /\ d >= 0
      <4>1. value = bought
        BY <1>2, <1>3, <2>3, <3>1 DEF R!Magnitude
      <4> QED BY <1>13, <3>1, <4>1 DEF R!Cash
    <3>2. CASE type = "SELL_FILL" /\ d <= 0
      <4>1. size = -d
        BY <1>2, <3>2 DEF R!Magnitude
      <4>2. value = -bought
        BY <1>3, <2>3, <4>1
      <4> QED BY <1>13, <3>2, <4>2 DEF R!Cash
    <3> QED BY <3>1, <3>2
  <2>5. R!Flips(s.inv, d) <=> s.inv.qty * inv.qty < 0
    BY <1>6 DEF R!Flips
  <2>6. ~R!Flips(s.inv, d) => pnl = inv.cost - s.inv.cost - bought
    BY <1>5, <2>3
  <2>10. PICK w \in Int, f \in Int, p \in Int, u \in Int, c \in Int, k \in Int :
            /\ w = s.wallet /\ f = s.fees /\ p = s.profit /\ u = s.funding
            /\ c = s.inv.cost /\ k = inv.cost
    BY <2>1
  <2>11. wallet = w - fee + pnl /\ fees = f + fee /\ profit = p + pnl
    BY <1>9, <2>10
  <2>12. wallet - w = (profit - p) - (fees - f) - (u - u) + 0 /\ fees - f = fee
    BY <2>11
  <2>7. ~R!Flips(s.inv, d) => t.wallet - s.wallet = R!Cash(e) + t.inv.cost - s.inv.cost
    <3> SUFFICES ASSUME ~R!Flips(s.inv, d)
                 PROVE  t.wallet - s.wallet = R!Cash(e) + t.inv.cost - s.inv.cost
      OBVIOUS
    <3>1. pnl = k - c - bought
      BY <2>6, <2>10
    <3>2. wallet - w = (-bought - fee) + k - c
      BY <2>11, <3>1
    <3> QED BY <1>17, <2>4, <2>10, <3>2
  <2>8. t.fees - s.fees = fee
    BY <1>17, <2>10, <2>12
  <2>9. t.wallet - s.wallet = (t.profit - s.profit) - (t.fees - s.fees)
                              - (t.funding - s.funding) + R!ExitOf(e)
    BY <1>17, <2>2, <2>10, <2>12
  <2> QED BY <1>17, <2>2, <2>5, <2>7, <2>8, <2>9 DEF Moved
<1>19. t.inv.qty = e.inventory /\ Signed(t.inv) /\ t.config = s.config
  BY <1>5, <1>13, <1>17 DEF Steady
<1>20. SessionOk(t)
  BY <1>14, <1>17, <1>18, <1>19, BooksMove
<1> QED
  BY <1>17, <1>20

\* Only these fields are in the books.
LEMMA SameBooks ==
    ASSUME NEW s, SessionOk(s), NEW t \in SessionRecords, t.config = s.config,
           t.wallet = s.wallet, t.profit = s.profit, t.fees = s.fees, t.funding = s.funding,
           t.inv = s.inv, t.events = s.events
    PROVE  SessionOk(t)
<1>1. GoodConfig(s.config) /\ InBooks(s)
  BY DEF SessionOk
<1>2. R!CashMoved(t) = R!CashMoved(s)
  BY DEF R!CashMoved
<1>3. R!FeesCharged(t) = R!FeesCharged(s)
  BY DEF R!FeesCharged
<1>4. R!ExitProfit(t) = R!ExitProfit(s)
  BY DEF R!ExitProfit
<1>5. R!Turned(t) <=> R!Turned(s)
  BY DEF R!Turned, R!TurnedAt
<1>6. R!NetPnl(t) = R!NetPnl(s) /\ Held(t) = Held(s)
  BY DEF R!NetPnl, Held
<1> QED
  BY <1>1, <1>2, <1>3, <1>4, <1>5, <1>6 DEF SessionOk, InBooks

LEMMA SessionQuantityNat ==
    ASSUME NEW cfg, GoodConfig(cfg), NEW i \in 0 .. cfg.grids
    PROVE  R!Quantity(cfg, i) \in Nat /\ R!Levels(cfg)[i] \in Nat \ {0}
<1>1. PICK n \in Nat \ {0}, m \in Nat, lever \in Nat :
         n = cfg.grids /\ m = cfg.margin /\ lever = cfg.leverage
  BY DEF GoodConfig, R!GridConfig
<1>2. PICK price \in Nat \ {0} : price = R!Levels(cfg)[i]
  BY DEF GoodConfig, Rising
<1>3. PICK amount \in Nat : amount = m * lever
  OBVIOUS
<1>4. \A x \in Nat, y \in Nat \ {0} : x \div y \in Nat
  OBVIOUS
<1>5. (amount \div n) \div price \in Nat
  BY <1>4
<1> QED
  BY <1>1, <1>2, <1>3, <1>5 DEF R!Quantity

LEMMA FillBuyOk ==
    ASSUME NEW s, SessionOk(s), NEW i \in 0 .. s.config.grids,
           s.orders.buys \subseteq 0 .. s.config.grids,
           s.orders.sells \subseteq 0 .. s.config.grids,
           NEW t, t = R!FillBuy(s, i)
    PROVE  /\ SessionOk(t) /\ Steady(s, t)
           /\ t.orders = R!AfterBuy(s.orders, i, R!Levels(s.config))
<1>1. GoodConfig(s.config)
  BY DEF SessionOk
<1>2. PICK n \in Nat : n = s.config.grids
  BY <1>1 DEF GoodConfig, R!GridConfig
<1>3. PICK level : level = R!Levels(s.config) /\ DOMAIN level = 0 .. n
  BY <1>1, <1>2 DEF GoodConfig, Rising
<1>4. R!Quantity(s.config, i) \in Nat /\ level[i] \in Nat
  BY <1>1, <1>3, SessionQuantityNat
<1>5. PICK u : u = R!Booked(s, "BUY_FILL", R!Quantity(s.config, i), level[i])
  OBVIOUS
<1>6. SessionOk(u) /\ Steady(s, u) /\ u.orders = s.orders
  BY <1>4, <1>5, BookedOk
<1>7. PICK o : o = R!AfterBuy(s.orders, i, level)
  OBVIOUS
<1>8. o \in [buys : SUBSET Nat, sells : SUBSET Nat]
  BY <1>2, <1>3, <1>7 DEF R!AfterBuy
<1>9. t = [u EXCEPT !.orders = o]
  BY <1>3, <1>5, <1>6, <1>7 DEF R!FillBuy
<1>10. u \in SessionRecords
  BY <1>6 DEF SessionOk
<1>11. /\ t \in SessionRecords /\ t.config = u.config /\ t.orders = o
       /\ t.wallet = u.wallet /\ t.profit = u.profit /\ t.fees = u.fees /\ t.funding = u.funding
       /\ t.inv = u.inv /\ t.events = u.events /\ t.status = u.status /\ t.lastPrice = u.lastPrice
  BY <1>8, <1>9, <1>10 DEF SessionRecords
<1>12. SessionOk(t)
  BY <1>6, <1>11, SameBooks
<1> QED
  BY <1>3, <1>6, <1>7, <1>11, <1>12 DEF Steady

LEMMA FillSellOk ==
    ASSUME NEW s, SessionOk(s), NEW i \in 0 .. s.config.grids,
           s.orders.buys \subseteq 0 .. s.config.grids,
           s.orders.sells \subseteq 0 .. s.config.grids,
           NEW t, t = R!FillSell(s, i)
    PROVE  /\ SessionOk(t) /\ Steady(s, t)
           /\ t.orders = R!AfterSell(s.orders, i, R!Levels(s.config))
<1>1. GoodConfig(s.config)
  BY DEF SessionOk
<1>2. PICK n \in Nat : n = s.config.grids
  BY <1>1 DEF GoodConfig, R!GridConfig
<1>3. PICK level : level = R!Levels(s.config) /\ DOMAIN level = 0 .. n
  BY <1>1, <1>2 DEF GoodConfig, Rising
<1>4. PICK q \in Nat : q = R!Quantity(s.config, i) /\ level[i] \in Nat
  BY <1>1, <1>3, SessionQuantityNat
<1>5. PICK u : u = R!Booked(s, "SELL_FILL", -q, level[i])
  OBVIOUS
<1>6. SessionOk(u) /\ Steady(s, u) /\ u.orders = s.orders
  <2>1. -q \in Int /\ -q <= 0
    OBVIOUS
  <2> QED BY <1>4, <1>5, <2>1, BookedOk
<1>7. PICK o : o = R!AfterSell(s.orders, i, level)
  OBVIOUS
<1>8. o \in [buys : SUBSET Nat, sells : SUBSET Nat]
  BY <1>2, <1>3, <1>7 DEF R!AfterSell
<1>10. u \in SessionRecords
  BY <1>6 DEF SessionOk
<1>13. PICK k \in Nat : k = IF s.inv.qty > 0 THEN 1 ELSE 0
  OBVIOUS
<1>9. t = [u EXCEPT !.orders = o, !.completed = u.completed + k]
  BY <1>3, <1>4, <1>5, <1>6, <1>7, <1>10, <1>13 DEF R!FillSell, SessionRecords
<1>14. u.completed + k \in Nat
  BY <1>10 DEF SessionRecords
<1>11. /\ t \in SessionRecords /\ t.config = u.config /\ t.orders = o
       /\ t.wallet = u.wallet /\ t.profit = u.profit /\ t.fees = u.fees /\ t.funding = u.funding
       /\ t.inv = u.inv /\ t.events = u.events /\ t.status = u.status /\ t.lastPrice = u.lastPrice
  BY <1>8, <1>9, <1>10, <1>14 DEF SessionRecords
<1>12. SessionOk(t)
  BY <1>6, <1>11, SameBooks
<1> QED
  BY <1>3, <1>6, <1>7, <1>11, <1>12 DEF Steady

\* The places of the levels in the order in which the price meets them.
LevelAt(falling, top, k) == IF falling THEN top + 1 - k ELSE k - 1

CrossTable(h, s, falling, top, met, n) ==
    h = [k \in 0 .. n |->
            IF k = 0 THEN s
            ELSE IF LevelAt(falling, top, k) \notin met THEN h[k - 1]
            ELSE IF falling THEN R!FillBuy(h[k - 1], LevelAt(falling, top, k))
            ELSE R!FillSell(h[k - 1], LevelAt(falling, top, k))]

LEMMA CrossTableExists ==
    ASSUME NEW s, NEW falling, NEW top, NEW met, NEW m \in Nat
    PROVE  \E h : CrossTable(h, s, falling, top, met, m)
<1> DEFINE F(x, k) == IF LevelAt(falling, top, k) \notin met THEN x
                      ELSE IF falling THEN R!FillBuy(x, LevelAt(falling, top, k))
                      ELSE R!FillSell(x, LevelAt(falling, top, k))
           S == {n \in Nat : \E h : CrossTable(h, s, falling, top, met, n)}
<1>0. \A h, n : CrossTable(h, s, falling, top, met, n) <=>
                  h = [k \in 0 .. n |-> IF k = 0 THEN s ELSE F(h[k - 1], k)]
  BY DEF CrossTable
<1> HIDE DEF F
<1>1. 0 \in S
  <2>1. PICK h : h = [k \in 0 .. 0 |-> s]
    OBVIOUS
  <2>2. h = [k \in 0 .. 0 |-> IF k = 0 THEN s ELSE F(h[k - 1], k)]
    BY <2>1
  <2> QED BY <1>0, <2>2
<1>2. \A n \in Nat : n \in S => n + 1 \in S
  <2> SUFFICES ASSUME NEW n \in Nat, n \in S PROVE n + 1 \in S
    OBVIOUS
  <2>1. PICK g : g = [k \in 0 .. n |-> IF k = 0 THEN s ELSE F(g[k - 1], k)]
    BY <1>0
  <2>2. PICK h : h = [k \in 0 .. n + 1 |-> IF k = n + 1 THEN F(g[n], n + 1) ELSE g[k]]
    OBVIOUS
  <2>3. \A k \in 0 .. n + 1 : h[k] = IF k = 0 THEN s ELSE F(h[k - 1], k)
    <3> SUFFICES ASSUME NEW k \in 0 .. n + 1
                 PROVE  h[k] = IF k = 0 THEN s ELSE F(h[k - 1], k)
      OBVIOUS
    <3>1. CASE k = n + 1
      <4>1. h[k] = F(g[n], n + 1) /\ h[k - 1] = g[n] /\ k # 0
        BY <2>2, <3>1
      <4> QED BY <3>1, <4>1
    <3>2. CASE k \in 0 .. n
      <4>1. g[k] = IF k = 0 THEN s ELSE F(g[k - 1], k)
        BY <2>1, <3>2
      <4>2. h[k] = g[k] /\ (k # 0 => h[k - 1] = g[k - 1])
        BY <2>2, <3>2
      <4> QED BY <4>1, <4>2
    <3> QED BY <3>1, <3>2
  <2>4. h = [k \in 0 .. n + 1 |-> IF k = 0 THEN s ELSE F(h[k - 1], k)]
    <3>1. h = [k \in 0 .. n + 1 |-> h[k]]
      BY <2>2
    <3> QED BY <2>3, <3>1
  <2>5. CrossTable(h, s, falling, top, met, n + 1)
    BY <1>0, <2>4
  <2> QED BY <2>5
<1> HIDE DEF S
<1>3. m \in S
  BY <1>1, <1>2, SetInduction
<1> QED BY <1>3 DEF S

LEMMA OneBuyMore ==
    ASSUME NEW n \in Nat, NEW level, DOMAIN level = 0 .. n, NEW orders, NEW met, NEW i \in 0 .. n,
           met \subseteq 0 .. n
    PROVE  R!AfterBuy(AfterFall(orders, met, n), i, level) = AfterFall(orders, met \cup {i}, n)
<1>1. (orders.buys \ met) \ {i} = orders.buys \ (met \cup {i})
  OBVIOUS
<1>2. {i + 1} \cap (0 .. n) = {j \in 0 .. n : j - 1 = i}
  OBVIOUS
<1>3. (orders.sells \cup {j \in 0 .. n : j - 1 \in met}) \cup {j \in 0 .. n : j - 1 = i}
         = orders.sells \cup {j \in 0 .. n : j - 1 \in met \cup {i}}
  OBVIOUS
<1> QED
  BY <1>1, <1>2, <1>3 DEF R!AfterBuy, AfterFall

LEMMA OneSellMore ==
    ASSUME NEW n \in Nat, NEW level, DOMAIN level = 0 .. n, NEW orders, NEW met, NEW i \in 0 .. n,
           met \subseteq 0 .. n, NEW after, after = AfterRise(orders, met, n)
    PROVE  R!AfterSell(after, i, level) = AfterRise(orders, met \cup {i}, n)
<1>1. (orders.sells \ met) \ {i} = orders.sells \ (met \cup {i})
  OBVIOUS
<1>2. {i - 1} \cap (0 .. n) = {j \in 0 .. n : j + 1 = i}
  OBVIOUS
<1>3. (orders.buys \cup {j \in 0 .. n : j + 1 \in met}) \cup {j \in 0 .. n : j + 1 = i}
         = orders.buys \cup {j \in 0 .. n : j + 1 \in met \cup {i}}
  OBVIOUS
<1> QED
  BY <1>1, <1>2, <1>3 DEF R!AfterSell, AfterRise

\* What filling the orders on a leg leaves alone.
LegFilled(s, t, orders) == SessionOk(t) /\ Steady(s, t) /\ t.orders = orders

\* The levels met by the time so many have been looked at.
FromTop(met, top, k) == {i \in met : top + 1 <= i + k}
FromBottom(met, k) == {i \in met : i < k}

LEMMA FallFills ==
    ASSUME NEW s, SessionOk(s), Ladder(s.orders, s.config.grids),
           NEW met \in SUBSET (0 .. s.config.grids), NEW h,
           CrossTable(h, s, TRUE, s.config.grids, met, s.config.grids + 1)
    PROVE  LegFilled(s, h[s.config.grids + 1], AfterFall(s.orders, met, s.config.grids))
<1>1. GoodConfig(s.config)
  BY DEF SessionOk
<1>2. PICK top \in Nat : top = s.config.grids
  BY <1>1 DEF GoodConfig, R!GridConfig
<1>3. PICK level : level = R!Levels(s.config) /\ DOMAIN level = 0 .. top
  BY <1>1, <1>2 DEF GoodConfig, Rising
<1>4. \A k \in 0 .. top :
         h[k + 1] = IF top - k \notin met THEN h[k] ELSE R!FillBuy(h[k], top - k)
  <2>1. \A k \in 0 .. top : k + 1 \in 0 .. top + 1 /\ k + 1 # 0 /\ (k + 1) - 1 = k
                            /\ top + 1 - (k + 1) = top - k
    OBVIOUS
  <2> QED BY <1>2, <2>1 DEF CrossTable, LevelAt
<1>5. h[0] = s
  BY <1>2 DEF CrossTable
<1>6. /\ s.orders.buys \subseteq 0 .. top /\ s.orders.sells \subseteq 0 .. top
      /\ met \subseteq 0 .. top
  BY <1>2 DEF Ladder
<1>7. LegFilled(s, h[0], AfterFall(s.orders, FromTop(met, top, 0), top))
  <2>1. FromTop(met, top, 0) = {}
    <3>2. \A i \in 0 .. top : ~(top + 1 <= i + 0)
      OBVIOUS
    <3>1. \A i \in met : ~(top + 1 <= i + 0)
      BY <1>6, <3>2
    <3> QED BY <3>1 DEF FromTop
  <2>2. AfterFall(s.orders, {}, top) = s.orders
    <3>1. s.orders \in [buys : SUBSET Nat, sells : SUBSET Nat]
      BY DEF SessionOk, SessionRecords
    <3>2. /\ s.orders.buys \ {} = s.orders.buys
          /\ s.orders.sells \cup {i \in 0 .. top : i - 1 \in {}} = s.orders.sells
      OBVIOUS
    <3> QED BY <3>1, <3>2 DEF AfterFall
  <2> QED BY <1>5, <2>1, <2>2 DEF LegFilled, Steady
<1>8. ASSUME NEW k \in 0 .. top, LegFilled(s, h[k], AfterFall(s.orders, FromTop(met, top, k), top))
      PROVE  LegFilled(s, h[k + 1], AfterFall(s.orders, FromTop(met, top, k + 1), top))
  <2>1. PICK m : m = FromTop(met, top, k)
    OBVIOUS
  <2>2. LegFilled(s, h[k], AfterFall(s.orders, m, top)) /\ m \subseteq 0 .. top
    BY <1>6, <1>8, <2>1 DEF FromTop
  <2>3. PICK i \in 0 .. top : i = top - k
    OBVIOUS
  <2>4. CASE i \notin met
    <3>1. FromTop(met, top, k + 1) = m
      <4>1. \A j \in met : top + 1 <= j + (k + 1) <=> top + 1 <= j + k
        BY <1>6, <1>8, <2>3, <2>4
      <4> QED BY <2>1, <4>1 DEF FromTop
    <3> QED BY <1>4, <2>2, <2>3, <2>4, <3>1
  <2>5. CASE i \in met
    <3>1. FromTop(met, top, k + 1) = m \cup {i}
      <4>1. \A j \in met : top + 1 <= j + (k + 1) <=> top + 1 <= j + k \/ j = i
        BY <1>6, <1>8, <2>3
      <4> QED BY <2>1, <2>5, <4>1 DEF FromTop
    <3>2. h[k + 1] = R!FillBuy(h[k], i)
      BY <1>4, <2>3, <2>5
    <3>3. /\ h[k].orders = AfterFall(s.orders, m, top) /\ SessionOk(h[k]) /\ Steady(s, h[k])
          /\ h[k].config = s.config
      BY <2>2 DEF LegFilled, Steady
    <3>4. h[k].orders.buys \subseteq 0 .. top /\ h[k].orders.sells \subseteq 0 .. top
      BY <1>6, <3>3 DEF AfterFall
    <3>5. /\ SessionOk(h[k + 1]) /\ Steady(h[k], h[k + 1])
          /\ h[k + 1].orders = R!AfterBuy(h[k].orders, i, level)
      BY <1>2, <1>3, <3>2, <3>3, <3>4, FillBuyOk
    <3>6. h[k + 1].orders = AfterFall(s.orders, m \cup {i}, top)
      <4>1. R!AfterBuy(AfterFall(s.orders, m, top), i, level)
               = AfterFall(s.orders, m \cup {i}, top)
        BY <1>3, <2>2, OneBuyMore
      <4> QED BY <3>3, <3>5, <4>1
    <3> QED BY <3>1, <3>3, <3>5, <3>6 DEF LegFilled, Steady
  <2> QED BY <2>4, <2>5
<1>9. FromTop(met, top, top + 1) = met
  <2>1. \A i \in 0 .. top : top + 1 <= i + (top + 1)
    OBVIOUS
  <2> QED BY <1>6, <2>1 DEF FromTop
<1> DEFINE S == {k \in Nat : k <= top + 1 => LegFilled(s, h[k], AfterFall(s.orders, FromTop(met, top, k), top))}
<1>10. 0 \in S
  BY <1>7
<1>11. \A k \in Nat : k \in S => k + 1 \in S
  <2> SUFFICES ASSUME NEW k \in Nat, k \in S, k + 1 <= top + 1
               PROVE  LegFilled(s, h[k + 1], AfterFall(s.orders, FromTop(met, top, k + 1), top))
    OBVIOUS
  <2>1. k \in 0 .. top /\ LegFilled(s, h[k], AfterFall(s.orders, FromTop(met, top, k), top))
    OBVIOUS
  <2> QED BY <1>8, <2>1
<1> HIDE DEF S
<1>12. top + 1 \in S
  BY <1>10, <1>11, SetInduction
<1>13. LegFilled(s, h[top + 1], AfterFall(s.orders, FromTop(met, top, top + 1), top))
  BY <1>12 DEF S
<1> QED
  BY <1>2, <1>9, <1>13

LEMMA RiseFills ==
    ASSUME NEW s, SessionOk(s), Ladder(s.orders, s.config.grids),
           NEW met \in SUBSET (0 .. s.config.grids), NEW h,
           CrossTable(h, s, FALSE, s.config.grids, met, s.config.grids + 1)
    PROVE  LegFilled(s, h[s.config.grids + 1], AfterRise(s.orders, met, s.config.grids))
<1>1. GoodConfig(s.config)
  BY DEF SessionOk
<1>2. PICK top \in Nat : top = s.config.grids
  BY <1>1 DEF GoodConfig, R!GridConfig
<1>3. PICK level : level = R!Levels(s.config) /\ DOMAIN level = 0 .. top
  BY <1>1, <1>2 DEF GoodConfig, Rising
<1>4. \A k \in 0 .. top :
         h[k + 1] = IF k \notin met THEN h[k] ELSE R!FillSell(h[k], k)
  <2>1. \A k \in 0 .. top : k + 1 \in 0 .. top + 1 /\ k + 1 # 0 /\ (k + 1) - 1 = k
    OBVIOUS
  <2> QED BY <1>2, <2>1 DEF CrossTable, LevelAt
<1>5. h[0] = s
  BY <1>2 DEF CrossTable
<1>6. /\ s.orders.buys \subseteq 0 .. top /\ s.orders.sells \subseteq 0 .. top
      /\ met \subseteq 0 .. top
  BY <1>2 DEF Ladder
<1>7. LegFilled(s, h[0], AfterRise(s.orders, FromBottom(met, 0), top))
  <2>1. FromBottom(met, 0) = {}
    <3>1. \A i \in met : ~(i < 0)
      BY <1>6
    <3> QED BY <3>1 DEF FromBottom
  <2>2. AfterRise(s.orders, {}, top) = s.orders
    <3>1. s.orders \in [buys : SUBSET Nat, sells : SUBSET Nat]
      BY DEF SessionOk, SessionRecords
    <3>2. /\ s.orders.sells \ {} = s.orders.sells
          /\ s.orders.buys \cup {i \in 0 .. top : i + 1 \in {}} = s.orders.buys
      OBVIOUS
    <3> QED BY <3>1, <3>2 DEF AfterRise
  <2> QED BY <1>5, <2>1, <2>2 DEF LegFilled, Steady
<1>8. ASSUME NEW k \in 0 .. top, LegFilled(s, h[k], AfterRise(s.orders, FromBottom(met, k), top))
      PROVE  LegFilled(s, h[k + 1], AfterRise(s.orders, FromBottom(met, k + 1), top))
  <2>1. PICK m : m = FromBottom(met, k)
    OBVIOUS
  <2>2. LegFilled(s, h[k], AfterRise(s.orders, m, top)) /\ m \subseteq 0 .. top
    BY <1>6, <1>8, <2>1 DEF FromBottom
  <2>3. k \in 0 .. top
    BY <1>8
  <2>4. CASE k \notin met
    <3>1. FromBottom(met, k + 1) = m
      <4>1. \A j \in met : j < k + 1 <=> j < k
        BY <1>6, <2>3, <2>4
      <4> QED BY <2>1, <4>1 DEF FromBottom
    <3> QED BY <1>4, <2>2, <2>3, <2>4, <3>1
  <2>5. CASE k \in met
    <3>1. FromBottom(met, k + 1) = m \cup {k}
      <4>2. \A j \in 0 .. top : j < k + 1 <=> j < k \/ j = k
        BY <2>3
      <4>1. \A j \in met : j < k + 1 <=> j < k \/ j = k
        BY <1>6, <4>2
      <4> QED BY <2>1, <2>5, <4>1 DEF FromBottom
    <3>2. h[k + 1] = R!FillSell(h[k], k)
      BY <1>4, <2>3, <2>5
    <3>3. /\ h[k].orders = AfterRise(s.orders, m, top) /\ SessionOk(h[k]) /\ Steady(s, h[k])
          /\ h[k].config = s.config
      BY <2>2 DEF LegFilled, Steady
    <3>4. h[k].orders.buys \subseteq 0 .. top /\ h[k].orders.sells \subseteq 0 .. top
      BY <1>6, <3>3 DEF AfterRise
    <3>5. /\ SessionOk(h[k + 1]) /\ Steady(h[k], h[k + 1])
          /\ h[k + 1].orders = R!AfterSell(h[k].orders, k, level)
      BY <1>2, <1>3, <2>3, <3>2, <3>3, <3>4, FillSellOk
    <3>6. h[k + 1].orders = AfterRise(s.orders, m \cup {k}, top)
      <4>1. R!AfterSell(h[k].orders, k, level) = AfterRise(s.orders, m \cup {k}, top)
        BY <1>3, <2>2, <2>3, <3>3, OneSellMore
      <4> QED BY <3>5, <4>1
    <3> QED BY <3>1, <3>3, <3>5, <3>6 DEF LegFilled, Steady
  <2> QED BY <2>4, <2>5
<1>9. FromBottom(met, top + 1) = met
  <2>1. \A i \in 0 .. top : i < top + 1
    OBVIOUS
  <2> QED BY <1>6, <2>1 DEF FromBottom
<1> DEFINE S == {k \in Nat : k <= top + 1 => LegFilled(s, h[k], AfterRise(s.orders, FromBottom(met, k), top))}
<1>10. 0 \in S
  BY <1>7
<1>11. \A k \in Nat : k \in S => k + 1 \in S
  <2> SUFFICES ASSUME NEW k \in Nat, k \in S, k + 1 <= top + 1
               PROVE  LegFilled(s, h[k + 1], AfterRise(s.orders, FromBottom(met, k + 1), top))
    OBVIOUS
  <2>1. k \in 0 .. top /\ LegFilled(s, h[k], AfterRise(s.orders, FromBottom(met, k), top))
    OBVIOUS
  <2> QED BY <1>8, <2>1
<1> HIDE DEF S
<1>12. top + 1 \in S
  BY <1>10, <1>11, SetInduction
<1>13. LegFilled(s, h[top + 1], AfterRise(s.orders, FromBottom(met, top + 1), top))
  BY <1>12 DEF S
<1> QED
  BY <1>2, <1>9, <1>13

\* A session whose orders no price has passed over.
LadderAt(s, price) ==
    /\ Ladder(s.orders, s.config.grids)
    /\ Bracketed(s.orders, R!Levels(s.config), price)

LEMMA CrossedOk ==
    ASSUME NEW s, SessionOk(s), NEW from \in Int, NEW to \in Int, from # to, LadderAt(s, from),
           NEW t, t = R!Crossed(s, R!Levels(s.config), from, to)
    PROVE  SessionOk(t) /\ Steady(s, t) /\ LadderAt(t, to)
<1>1. GoodConfig(s.config)
  BY DEF SessionOk
<1>2. PICK top \in Nat : top = s.config.grids
  BY <1>1 DEF GoodConfig, R!GridConfig
<1>3. PICK level : level = R!Levels(s.config) /\ Rising(level, top)
  BY <1>1, <1>2 DEF GoodConfig
<1>4. Ladder(s.orders, top) /\ Bracketed(s.orders, level, from)
  BY <1>2, <1>3 DEF LadderAt
<1>5. PICK met : met = IF to < from THEN R!MetFalling(s.orders.buys, level, from, to)
                       ELSE R!MetRising(s.orders.sells, level, from, to)
  OBVIOUS
<1>6. met \in SUBSET (0 .. top)
  <2>1. s.orders.buys \subseteq 0 .. top /\ s.orders.sells \subseteq 0 .. top
    BY <1>4 DEF Ladder
  <2> QED BY <1>5, <2>1 DEF R!MetFalling, R!MetRising
<1>7. PICK falling \in BOOLEAN : falling <=> to < from
  OBVIOUS
<1>8. PICK h : h = CHOOSE g : CrossTable(g, s, falling, top, met, top + 1)
  OBVIOUS
<1>9. CrossTable(h, s, falling, top, met, top + 1)
  <2>1. top + 1 \in Nat
    OBVIOUS
  <2> QED BY <1>8, <2>1, CrossTableExists
<1>10. t = h[top + 1]
  BY <1>2, <1>3, <1>5, <1>7, <1>8 DEF R!Crossed, CrossTable, LevelAt
<1>11. CASE to < from
  <2>1. CrossTable(h, s, TRUE, top, met, top + 1)
    BY <1>7, <1>9, <1>11
  <2>2. PICK after : after = AfterFall(s.orders, met, top)
    OBVIOUS
  <2>3. LegFilled(s, t, after)
    BY <1>2, <1>4, <1>6, <1>10, <2>1, <2>2, FallFills
  <2>4. met = R!MetFalling(s.orders.buys, level, from, to)
    BY <1>5, <1>11
  <2>5. Ladder(after, top) /\ Bracketed(after, level, to)
    BY <1>3, <1>4, <1>11, <2>2, <2>4, FallKeepsLadder
  <2> QED
    BY <1>2, <1>3, <2>3, <2>5 DEF LegFilled, Steady, LadderAt
<1>12. CASE ~(to < from)
  <2>1. CrossTable(h, s, FALSE, top, met, top + 1)
    BY <1>7, <1>9, <1>12
  <2>2. PICK after : after = AfterRise(s.orders, met, top)
    OBVIOUS
  <2>3. LegFilled(s, t, after)
    BY <1>2, <1>4, <1>6, <1>10, <2>1, <2>2, RiseFills
  <2>4. met = R!MetRising(s.orders.sells, level, from, to) /\ from < to
    BY <1>5, <1>12
  <2>5. Ladder(after, top) /\ Bracketed(after, level, to)
    BY <1>3, <1>4, <2>2, <2>4, RiseKeepsLadder
  <2> QED
    BY <1>2, <1>3, <2>3, <2>5 DEF LegFilled, Steady, LadderAt
<1> QED
  BY <1>11, <1>12

-----------------------------------------------------------------------------
(* Exits and funding                                                       *)

LEMMA TerminateOk ==
    ASSUME NEW s, SessionOk(s), NEW status \in Endings, NEW price \in Nat,
           NEW t, t = R!Terminate(s, status, price)
    PROVE  /\ SessionOk(t) /\ t.config = s.config /\ t.status = status
           /\ t.inv = R!Flat /\ t.orders = R!NoOrders
<1>1. s \in SessionRecords /\ s.inv \in Inventory
  BY DEF SessionOk, SessionRecords
<1>2. PICK amount \in Int : amount = R!SlippedValue(s.inv, price, Slippage)
  BY <1>1, ValuesInt, RatesAreInt, SameFormulas
<1>3. PICK slipped \in Nat : slipped = R!Magnitude(amount)
  BY DEF R!Magnitude
<1>4. PICK fee \in Int :
         fee = R!Rated(slipped, TakerFee)
               + (IF status = "LIQUIDATED" THEN R!Rated(slipped, LiquidationFee) ELSE 0)
  <2>1. slipped \in Int /\ TakerFee \in Int /\ LiquidationFee \in Int
    BY RatesAreInt
  <2>2. Rated(slipped, TakerFee) \in Int /\ Rated(slipped, LiquidationFee) \in Int
    BY <2>1, RatedInt
  <2>3. R!Rated(slipped, TakerFee) \in Int /\ R!Rated(slipped, LiquidationFee) \in Int
    BY <2>2, SameFormulas
  <2> QED BY <2>3
<1>5. PICK w \in Int, f \in Int, p \in Int, u \in Int, c \in Int, q \in Int :
         /\ w = s.wallet /\ f = s.fees /\ p = s.profit /\ u = s.funding
         /\ c = s.inv.cost /\ q = R!Magnitude(s.inv.qty)
  <2>1. PICK q \in Int : q = R!Magnitude(s.inv.qty)
    BY <1>1 DEF Inventory, R!Magnitude
  <2> QED BY <1>1, <2>1 DEF SessionRecords, Inventory
<1>6. PICK pnl \in Int : pnl = amount - c
  OBVIOUS
<1>7. pnl = R!ExitPnl(s.inv, price, Slippage)
  BY <1>2, <1>5, <1>6 DEF R!ExitPnl
<1>8. PICK wallet \in Int, fees \in Int : wallet = w + pnl - fee /\ fees = f + fee
  OBVIOUS
<1>9. PICK mid : mid = [s EXCEPT !.status = status, !.orders = R!NoOrders, !.inv = R!Flat,
                                 !.wallet = wallet, !.fees = fees]
  OBVIOUS
<1>10. R!Flat \in Inventory /\ R!NoOrders \in [buys : SUBSET Nat, sells : SUBSET Nat]
       /\ R!Flat.qty = 0 /\ R!Flat.cost = 0
  BY DEF R!Flat, R!NoOrders, Inventory
<1>11. /\ mid \in SessionRecords /\ mid.inv = R!Flat /\ mid.wallet = wallet /\ mid.fees = fees
       /\ mid.profit = s.profit /\ mid.funding = s.funding /\ mid.events = s.events
       /\ mid.orders = R!NoOrders /\ mid.status = status /\ mid.config = s.config
  BY <1>1, <1>9, <1>10 DEF SessionRecords
<1>12. PICK e : e = R!Event(status, q, amount, fee, pnl, mid)
  OBVIOUS
<1>13. e = [type |-> status, qty |-> q, value |-> amount, fee |-> fee, pnl |-> pnl,
            inventory |-> 0, wallet |-> wallet]
  BY <1>10, <1>11, <1>12 DEF R!Event
<1>14. e \in SessionEvents
  BY <1>13 DEF SessionEvents, Trades
<1>15. t = [mid EXCEPT !.events = Append(s.events, e)]
  <2>1. mid = [s EXCEPT !.status = status, !.orders = R!NoOrders, !.inv = R!Flat,
                        !.wallet = @ + pnl - fee, !.fees = @ + fee]
    BY <1>1, <1>5, <1>8, <1>9 DEF SessionRecords
  <2>2. t = [mid EXCEPT !.events = Append(@, e)]
    BY <1>2, <1>3, <1>4, <1>5, <1>7, <1>12, <2>1 DEF R!Terminate
  <2> QED BY <1>11, <2>2 DEF SessionRecords
<1>16. Append(s.events, e) \in Seq(SessionEvents)
  BY <1>1, <1>14 DEF SessionRecords
<1>17. /\ t \in SessionRecords /\ t.inv = R!Flat /\ t.wallet = wallet /\ t.fees = fees
       /\ t.profit = s.profit /\ t.funding = s.funding /\ t.events = Append(s.events, e)
       /\ t.orders = R!NoOrders /\ t.status = status /\ t.config = s.config
  BY <1>11, <1>15, <1>16 DEF SessionRecords
<1>18. Moved(s, t, e)
  <2>1. R!ExitOf(e) = pnl /\ R!FeeOf(e) = fee /\ R!Cash(e) = amount - fee
    BY <1>13 DEF R!ExitOf, R!FeeOf, R!Cash, Endings
  <2>2. wallet - w = (p - p) - (fees - f) - (u - u) + pnl /\ fees - f = fee
        /\ wallet - w = (amount - fee) + 0 - c
    BY <1>6, <1>8
  <2> QED BY <1>5, <1>10, <1>17, <2>1, <2>2 DEF Moved
<1>19. t.inv.qty = e.inventory /\ Signed(t.inv)
  BY <1>10, <1>13, <1>17 DEF Signed
<1> QED
  BY <1>14, <1>17, <1>18, <1>19, BooksMove

\* The last event is a payment of funding.
PaidFunding(s, t) ==
    \E e \in SessionEvents :
       /\ t.events = Append(s.events, e)
       /\ e.type = "FUNDING" /\ e.wallet + e.fee = s.wallet

LEMMA FundedOk ==
    ASSUME NEW s, SessionOk(s), NEW price \in Nat, NEW rate \in Int,
           NEW t, t = R!Funded(s, price, rate)
    PROVE  /\ SessionOk(t) /\ Steady(s, t) /\ t.orders = s.orders /\ t.inv = s.inv
           /\ PaidFunding(s, t)
<1>1. s \in SessionRecords /\ s.inv \in Inventory /\ Signed(s.inv)
  BY DEF SessionOk, InBooks, SessionRecords
<1>2. PICK m \in Int : m = R!Rated(R!Notional(s.inv, price), rate)
  <2>1. Notional(s.inv, price) \in Int
    BY <1>1, ValuesInt
  <2>2. Rated(Notional(s.inv, price), rate) \in Int
    BY <2>1, RatedInt
  <2> QED BY <2>2, SameFormulas
<1>3. PICK cost \in Int : cost = (IF s.inv.qty > 0 THEN 1 ELSE -1) * m
  OBVIOUS
<1>5. PICK w \in Int, f \in Int, p \in Int, u \in Int, c \in Int, q \in Int :
         /\ w = s.wallet /\ f = s.fees /\ p = s.profit /\ u = s.funding
         /\ c = s.inv.cost /\ q = R!Magnitude(s.inv.qty)
  <2>1. PICK q \in Int : q = R!Magnitude(s.inv.qty)
    BY <1>1 DEF Inventory, R!Magnitude
  <2> QED BY <1>1, <2>1 DEF SessionRecords, Inventory
<1>8. PICK wallet \in Int, funding \in Int : wallet = w - cost /\ funding = u + cost
  OBVIOUS
<1>9. PICK mid : mid = [s EXCEPT !.wallet = wallet, !.funding = funding]
  OBVIOUS
<1>11. /\ mid \in SessionRecords /\ mid.inv = s.inv /\ mid.wallet = wallet /\ mid.fees = s.fees
       /\ mid.profit = s.profit /\ mid.funding = funding /\ mid.events = s.events
       /\ mid.orders = s.orders /\ Steady(s, mid)
  BY <1>1, <1>9 DEF SessionRecords, Steady
<1>12. PICK e : e = R!Event("FUNDING", q, 0, cost, 0, mid)
  OBVIOUS
<1>13. e = [type |-> "FUNDING", qty |-> q, value |-> 0, fee |-> cost, pnl |-> 0,
            inventory |-> s.inv.qty, wallet |-> wallet]
  BY <1>11, <1>12 DEF R!Event
<1>14. e \in SessionEvents
  BY <1>1, <1>13 DEF SessionEvents, Trades, Inventory
<1>15. t = [mid EXCEPT !.events = Append(s.events, e)]
  <2>1. mid = [s EXCEPT !.wallet = @ - cost, !.funding = @ + cost]
    BY <1>1, <1>5, <1>8, <1>9 DEF SessionRecords
  <2>2. t = [mid EXCEPT !.events = Append(@, e)]
    BY <1>2, <1>3, <1>5, <1>12, <2>1 DEF R!Funded
  <2> QED BY <1>11, <2>2 DEF SessionRecords
<1>16. Append(s.events, e) \in Seq(SessionEvents)
  BY <1>1, <1>14 DEF SessionRecords
<1>17. /\ t \in SessionRecords /\ t.inv = s.inv /\ t.wallet = wallet /\ t.fees = s.fees
       /\ t.profit = s.profit /\ t.funding = funding /\ t.events = Append(s.events, e)
       /\ t.orders = s.orders /\ Steady(s, t)
  BY <1>11, <1>15, <1>16 DEF SessionRecords, Steady
<1>18. Moved(s, t, e)
  <2>1. R!ExitOf(e) = 0 /\ R!FeeOf(e) = 0 /\ R!Cash(e) = 0 - cost
    BY <1>13 DEF R!ExitOf, R!FeeOf, R!Cash
  <2>2. wallet - w = (p - p) - (f - f) - (funding - u) + 0 /\ f - f = 0
        /\ wallet - w = (0 - cost) + c - c
    BY <1>8
  <2> QED BY <1>5, <1>17, <2>1, <2>2 DEF Moved
<1>19. t.inv.qty = e.inventory /\ Signed(t.inv) /\ t.config = s.config
  BY <1>1, <1>13, <1>17 DEF Steady
<1>20. SessionOk(t)
  BY <1>14, <1>17, <1>18, <1>19, BooksMove
<1>21. e.type = "FUNDING" /\ e.wallet + e.fee = s.wallet
  BY <1>5, <1>8, <1>13
<1> QED
  BY <1>14, <1>17, <1>20, <1>21 DEF PaidFunding

-----------------------------------------------------------------------------
(* Candles                                                                 *)

\* A session that has ended holds nothing.
Settled(s) == s.status \in Endings /\ s.inv = R!Flat /\ s.orders = R!NoOrders

\* What is looked at where the price has moved, and everywhere.
Unstopped(s, price) == ~R!IsLiquidatable(s, price) /\ ~R!StopLossDue(s, price)

LEMMA StoppedOk ==
    ASSUME NEW s, SessionOk(s), s.status = "ACTIVE", NEW from \in Nat, NEW to \in Nat,
           LadderAt(s, to), NEW t, t = R!Stopped(s, from, to)
    PROVE  /\ SessionOk(t) /\ t.config = s.config
           /\ \/ Settled(t)
              \/ /\ t = s /\ ~R!TakeProfitDue(t, to)
                 /\ to # from => Unstopped(t, to)
<1>1. CASE to # from /\ R!IsLiquidatable(s, to)
  <2>1. t = R!Terminate(s, "LIQUIDATED", to)
    BY <1>1 DEF R!Stopped
  <2>2. "LIQUIDATED" \in Endings
    BY DEF Endings
  <2>3. /\ SessionOk(t) /\ t.config = s.config /\ t.status = "LIQUIDATED"
        /\ t.inv = R!Flat /\ t.orders = R!NoOrders
    BY <2>1, <2>2, TerminateOk
  <2> QED BY <2>2, <2>3 DEF Settled
<1>2. CASE to # from /\ ~R!IsLiquidatable(s, to) /\ R!StopLossDue(s, to)
  <2>1. t = R!Terminate(s, "CLOSED_SL", to)
    BY <1>2 DEF R!Stopped
  <2>2. "CLOSED_SL" \in Endings
    BY DEF Endings
  <2>3. /\ SessionOk(t) /\ t.config = s.config /\ t.status = "CLOSED_SL"
        /\ t.inv = R!Flat /\ t.orders = R!NoOrders
    BY <2>1, <2>2, TerminateOk
  <2> QED BY <2>2, <2>3 DEF Settled
<1>3. CASE (to # from => Unstopped(s, to)) /\ R!TakeProfitDue(s, to)
  <2>1. t = R!Terminate(s, "CLOSED_TP", to)
    BY <1>3 DEF R!Stopped, Unstopped
  <2>2. "CLOSED_TP" \in Endings
    BY DEF Endings
  <2>3. /\ SessionOk(t) /\ t.config = s.config /\ t.status = "CLOSED_TP"
        /\ t.inv = R!Flat /\ t.orders = R!NoOrders
    BY <2>1, <2>2, TerminateOk
  <2> QED BY <2>2, <2>3 DEF Settled
<1>4. CASE (to # from => Unstopped(s, to)) /\ ~R!TakeProfitDue(s, to)
  <2>1. t = s
    BY <1>4 DEF R!Stopped, Unstopped
  <2> QED BY <1>4, <2>1
<1> QED
  BY <1>1, <1>2, <1>3, <1>4 DEF Unstopped

\* A leg of the way either ends the session or brings it, with all orders it has
\* met filled and nothing due, to the end of the leg.
Brought(s, t, from, to) ==
    /\ SessionOk(t) /\ t.config = s.config
    /\ \/ Settled(t)
       \/ /\ Steady(s, t) /\ LadderAt(t, to) /\ ~R!TakeProfitDue(t, to)
          /\ to # from => Unstopped(t, to)
          /\ to = from => t = s

LEMMA TraverseOk ==
    ASSUME NEW s, SessionOk(s), s.status = "ACTIVE", NEW from \in Nat, NEW to \in Nat,
           LadderAt(s, from), NEW t, t = R!TraverseLeg(s, from, to)
    PROVE  Brought(s, t, from, to)
<1>1. PICK u : u = IF to = from THEN s ELSE R!Crossed(s, R!Levels(s.config), from, to)
  OBVIOUS
<1>2. SessionOk(u) /\ Steady(s, u) /\ LadderAt(u, to) /\ (to = from => u = s)
  <2>1. CASE to = from
    BY <1>1, <2>1 DEF Steady
  <2>2. CASE to # from
    <3>1. from \in Int /\ to \in Int
      OBVIOUS
    <3> QED BY <1>1, <2>2, <3>1, CrossedOk
  <2> QED BY <2>1, <2>2
<1>3. t = R!Stopped(u, from, to)
  BY <1>1 DEF R!TraverseLeg
<1>4. u.status = "ACTIVE" /\ u.config = s.config
  BY <1>2 DEF Steady
<1>5. /\ SessionOk(t) /\ t.config = u.config
      /\ \/ Settled(t)
         \/ /\ t = u /\ ~R!TakeProfitDue(t, to)
            /\ to # from => Unstopped(t, to)
  BY <1>2, <1>3, <1>4, StoppedOk
<1> QED
  BY <1>2, <1>4, <1>5 DEF Brought

LEMMA WalkOk ==
    ASSUME NEW s, NEW t, NEW start \in Nat, NEW from \in Nat, NEW to \in Nat,
           s.status = "ACTIVE", Brought(s, t, start, from),
           NEW u, u = R!Walk(t, <<from, to>>)
    PROVE  /\ SessionOk(u) /\ u.config = s.config
           /\ \/ Settled(u)
              \/ /\ Steady(s, u) /\ LadderAt(u, to) /\ ~R!TakeProfitDue(u, to)
                 /\ ~(start = from /\ from = to) => Unstopped(u, to)
                 /\ start = from /\ from = to => u = s
<1>1. SessionOk(t) /\ t.config = s.config
  BY DEF Brought
<1>2. CASE Settled(t)
  <2>1. u = t
    BY <1>2 DEF R!Walk, Settled, Endings
  <2> QED BY <1>1, <1>2, <2>1
<1>3. CASE ~Settled(t)
  <2>1. /\ Steady(s, t) /\ LadderAt(t, from) /\ t.status = "ACTIVE"
        /\ from # start => Unstopped(t, from)
        /\ from = start => t = s
    BY <1>3 DEF Brought, Steady
  <2>2. u = R!TraverseLeg(t, from, to)
    BY <2>1 DEF R!Walk
  <2>3. Brought(t, u, from, to)
    BY <1>1, <2>1, <2>2, TraverseOk
  <2>4. CASE Settled(u)
    BY <1>1, <2>3, <2>4 DEF Brought
  <2>5. CASE ~Settled(u)
    <3>1. /\ SessionOk(u) /\ u.config = s.config /\ Steady(s, u) /\ LadderAt(u, to)
          /\ ~R!TakeProfitDue(u, to)
      BY <1>1, <2>1, <2>3, <2>5 DEF Brought, Steady
    <3>2. CASE to # from
      BY <2>3, <2>5, <3>1, <3>2 DEF Brought
    <3>3. CASE to = from
      <4>1. u = t
        BY <2>3, <2>5, <3>3 DEF Brought
      <4> QED BY <2>1, <3>1, <3>3, <4>1
    <3> QED BY <3>2, <3>3
  <2> QED BY <2>4, <2>5
<1> QED
  BY <1>2, <1>3

\* The three legs of a candle.
LEMMA WalkedOk ==
    ASSUME NEW s, SessionOk(s), s.status = "ACTIVE", NEW start \in Nat, LadderAt(s, start),
           NEW c \in R!Candle, {c.open, c.close} \subseteq c.low .. c.high,
           NEW t, t = R!Walked(s, c, start)
    PROVE  /\ SessionOk(t) /\ t.config = s.config
           /\ \/ Settled(t)
              \/ /\ Steady(s, t) /\ LadderAt(t, c.close) /\ ~R!TakeProfitDue(t, c.close)
                 /\ \/ Unstopped(t, c.close)
                    \/ t = s /\ start = c.close /\ start = c.open
<1>1. PICK x \in Nat, y \in Nat, z \in Nat :
         /\ R!Legs(start, c) = <<<<start, x>>, <<x, y>>, <<y, z>>>>
         /\ {x, y} = {c.low, c.high} /\ z = c.close
  <2>1. c.low \in Nat /\ c.high \in Nat /\ c.close \in Nat /\ c.open \in Nat
    BY DEF R!Candle
  <2>2. CASE c.close >= c.open
    <3>1. R!Legs(start, c) = <<<<start, c.low>>, <<c.low, c.high>>, <<c.high, c.close>>>>
      BY <2>2 DEF R!Legs
    <3> QED BY <2>1, <3>1
  <2>3. CASE ~(c.close >= c.open)
    <3>1. R!Legs(start, c) = <<<<start, c.high>>, <<c.high, c.low>>, <<c.low, c.close>>>>
      BY <2>3 DEF R!Legs
    <3> QED BY <2>1, <3>1
  <2> QED BY <2>2, <2>3
<1>2. PICK first, second : /\ first = R!Walk(s, <<start, x>>)
                           /\ second = R!Walk(first, <<x, y>>)
  OBVIOUS
<1>3. t = R!Walk(second, <<y, z>>)
  BY <1>1, <1>2 DEF R!Walked
<1>4. Brought(s, first, start, x)
  <2>1. first = R!TraverseLeg(s, start, x)
    BY <1>2 DEF R!Walk
  <2> QED BY <2>1, TraverseOk
<1>5. /\ SessionOk(second) /\ second.config = s.config
      /\ \/ Settled(second)
         \/ /\ Steady(s, second) /\ LadderAt(second, y) /\ ~R!TakeProfitDue(second, y)
            /\ ~(start = x /\ x = y) => Unstopped(second, y)
            /\ start = x /\ x = y => second = s
  BY <1>2, <1>4, WalkOk
<1>6. CASE Settled(second)
  <2>1. t = second
    BY <1>3, <1>6 DEF R!Walk, Settled, Endings
  <2> QED BY <1>5, <1>6, <2>1
<1>7. CASE ~Settled(second)
  <2>1. second.status = "ACTIVE" /\ Steady(s, second) /\ LadderAt(second, y)
    BY <1>5, <1>7 DEF Steady
  <2>2. t = R!TraverseLeg(second, y, z)
    BY <1>3, <2>1 DEF R!Walk
  <2>3. Brought(second, t, y, z)
    BY <1>5, <2>1, <2>2, TraverseOk
  <2>4. CASE Settled(t)
    BY <1>5, <2>3, <2>4 DEF Brought
  <2>5. CASE ~Settled(t)
    <3>1. /\ SessionOk(t) /\ t.config = s.config /\ Steady(s, t) /\ LadderAt(t, c.close)
          /\ ~R!TakeProfitDue(t, c.close)
      BY <1>1, <1>5, <2>1, <2>3, <2>5 DEF Brought, Steady
    <3>2. CASE z # y
      <4>1. Unstopped(t, c.close)
        BY <1>1, <2>3, <2>5, <3>2 DEF Brought
      <4> QED BY <3>1, <4>1
    <3>3. CASE z = y
      <4>1. t = second
        BY <2>3, <2>5, <3>3 DEF Brought
      <4>2. CASE ~(start = x /\ x = y)
        <5>1. Unstopped(t, c.close)
          BY <1>1, <1>5, <1>7, <3>3, <4>1, <4>2
        <5> QED BY <3>1, <5>1
      <4>3. CASE start = x /\ x = y
        <5>1. t = s
          BY <1>5, <1>7, <4>1, <4>3
        <5>2. c.low = start /\ c.high = start /\ start = c.close
          BY <1>1, <3>3, <4>3
        <5>3. c.open \in Nat
          BY DEF R!Candle
        <5>4. start = c.open
          BY <5>2, <5>3
        <5> QED BY <3>1, <5>1, <5>2, <5>4
      <4> QED BY <4>2, <4>3
    <3> QED BY <3>2, <3>3
  <2> QED BY <2>4, <2>5
<1> QED
  BY <1>6, <1>7

\* What is due depends on the wallet, the inventory and the configuration.
LEMMA SameValue ==
    ASSUME NEW s, NEW t, t.wallet = s.wallet, t.inv = s.inv, t.config = s.config, NEW price
    PROVE  /\ R!IsLiquidatable(t, price) <=> R!IsLiquidatable(s, price)
           /\ R!StopLossDue(t, price) <=> R!StopLossDue(s, price)
           /\ R!TakeProfitDue(t, price) <=> R!TakeProfitDue(s, price)
<1>1. R!MarginBalance(t, price) = R!MarginBalance(s, price)
  BY DEF R!MarginBalance
<1>2. \A roi : /\ R!RoiAtMost(t, price, roi) <=> R!RoiAtMost(s, price, roi)
               /\ R!RoiAtLeast(t, price, roi) <=> R!RoiAtLeast(s, price, roi)
  BY <1>1 DEF R!RoiAtMost, R!RoiAtLeast
<1> QED
  BY <1>1, <1>2 DEF R!IsLiquidatable, R!StopLossDue, R!TakeProfitDue

\* Nothing is due, but for a stop loss that only funding has brought about.
TimelyAt(s, price) ==
    /\ ~R!IsLiquidatable(s, price) /\ ~R!TakeProfitDue(s, price)
    /\ R!StopLossDue(s, price) => \E k \in DOMAIN s.events : R!OnlyFundingSince(s, k, price)

\* A session between two candles.
GoodSession(s) ==
    /\ SessionOk(s)
    /\ \/ Settled(s)
       \/ s.status = "ACTIVE" /\ LadderAt(s, s.lastPrice) /\ TimelyAt(s, s.lastPrice)

LEMMA DrawnOk ==
    ASSUME NEW s, SessionOk(s), s.status = "ACTIVE", NEW price \in Nat \ {0},
           LadderAt(s, price), TimelyAt(s, price), NEW t, t = R!Drawn(s, price)
    PROVE  GoodSession(t) /\ t.config = s.config
<1>1. s \in SessionRecords /\ s.inv \in Inventory
  BY DEF SessionOk, SessionRecords
<1>2. PICK equity \in Int : equity = R!MarginBalance(s, price)
  <2>1. Unrealized(s.inv, price) \in Int
    BY <1>1, ValuesInt
  <2>2. R!Unrealized(s.inv, price) \in Int
    BY <2>1, SameFormulas
  <2> QED BY <1>1, <2>2 DEF R!MarginBalance, SessionRecords
<1>3. PICK high \in Nat \ {0} : high = s.peak
  BY <1>1 DEF SessionRecords
<1>4. PICK peak \in Nat \ {0} : peak = R!Larger(high, equity)
  BY DEF R!Larger
<1>5. PICK fall \in Int : fall = (1000 * (peak - equity)) \div peak
  <2>1. PICK x \in Int : x = 1000 * (peak - equity)
    OBVIOUS
  <2>2. x \div peak \in Int
    OBVIOUS
  <2> QED BY <2>1, <2>2
<1>6. PICK drawdown \in Int : drawdown = R!Larger(s.drawdown, fall)
  BY <1>1 DEF R!Larger, SessionRecords
<1>7. t = [s EXCEPT !.lastPrice = price, !.peak = peak, !.drawdown = drawdown]
  BY <1>1, <1>2, <1>3, <1>4, <1>5, <1>6 DEF R!Drawn, R!Thousand, SessionRecords
<1>8. /\ t \in SessionRecords /\ t.config = s.config /\ t.wallet = s.wallet
      /\ t.profit = s.profit /\ t.fees = s.fees /\ t.funding = s.funding /\ t.inv = s.inv
      /\ t.events = s.events /\ t.orders = s.orders /\ t.status = "ACTIVE" /\ t.lastPrice = price
  BY <1>1, <1>7 DEF SessionRecords
<1>9. SessionOk(t)
  BY <1>8, SameBooks
<1>10. LadderAt(t, price)
  BY <1>8 DEF LadderAt
<1>11. \A k : R!OnlyFundingSince(s, k, price) => R!OnlyFundingSince(t, k, price)
  <2> SUFFICES ASSUME NEW k, R!OnlyFundingSince(s, k, price)
               PROVE  R!OnlyFundingSince(t, k, price)
    OBVIOUS
  <2>1. PICK x : x = s.events[k].wallet + s.events[k].fee
    OBVIOUS
  <2>2. PICK a, b : a = [s EXCEPT !.wallet = x] /\ b = [t EXCEPT !.wallet = x]
    OBVIOUS
  <2>3. a.wallet = b.wallet /\ a.inv = b.inv /\ a.config = b.config
    BY <1>1, <1>8, <2>2 DEF SessionRecords
  <2>4. R!StopLossDue(b, price) <=> R!StopLossDue(a, price)
    BY <2>3, SameValue
  <2> QED
    BY <1>8, <2>1, <2>2, <2>4 DEF R!OnlyFundingSince
<1>12. /\ R!IsLiquidatable(t, price) <=> R!IsLiquidatable(s, price)
       /\ R!StopLossDue(t, price) <=> R!StopLossDue(s, price)
       /\ R!TakeProfitDue(t, price) <=> R!TakeProfitDue(s, price)
  BY <1>8, SameValue
<1>13. TimelyAt(t, price)
  BY <1>8, <1>11, <1>12 DEF TimelyAt
<1> QED
  BY <1>8, <1>9, <1>10, <1>13 DEF GoodSession

\* Funding on a candle that does not move the price.
LEMMA DueByFunding ==
    ASSUME NEW s, SessionOk(s), NEW t, SessionOk(t), t.config = s.config, t.inv = s.inv,
           NEW e \in SessionEvents, t.events = Append(s.events, e), e.type = "FUNDING",
           e.wallet + e.fee = s.wallet, NEW price,
           R!StopLossDue(s, price) => \E k \in DOMAIN s.events : R!OnlyFundingSince(s, k, price)
    PROVE  \E k \in DOMAIN t.events : R!OnlyFundingSince(t, k, price)
<1>1. s \in SessionRecords /\ t \in SessionRecords
  BY DEF SessionOk
<1>2. PICK n \in Nat : n = Len(s.events)
  BY <1>1 DEF SessionRecords
<1>3. /\ DOMAIN s.events = 1 .. n /\ DOMAIN t.events = 1 .. n + 1 /\ Len(t.events) = n + 1
      /\ \A k \in 1 .. n : t.events[k] = s.events[k]
      /\ t.events[n + 1] = e
  <2>1. s.events \in Seq(SessionEvents)
    BY <1>1 DEF SessionRecords
  <2> QED BY <1>2, <2>1
<1>4. CASE R!StopLossDue(s, price)
  <2>1. PICK k \in 1 .. n : R!OnlyFundingSince(s, k, price)
    BY <1>3, <1>4
  <2>2. \A j \in k .. n + 1 : t.events[j].type = "FUNDING"
    <3> SUFFICES ASSUME NEW j \in k .. n + 1 PROVE t.events[j].type = "FUNDING"
      OBVIOUS
    <3>1. CASE j = n + 1
      BY <1>3, <3>1
    <3>2. CASE j # n + 1
      <4>1. j \in k .. n /\ j \in 1 .. n
        BY <3>2
      <4> QED BY <1>2, <1>3, <2>1, <4>1 DEF R!OnlyFundingSince
    <3> QED BY <3>1, <3>2
  <2>3. PICK x : x = s.events[k].wallet + s.events[k].fee
    OBVIOUS
  <2>4. PICK a, b : a = [s EXCEPT !.wallet = x] /\ b = [t EXCEPT !.wallet = x]
    OBVIOUS
  <2>5. a.wallet = b.wallet /\ a.inv = b.inv /\ a.config = b.config
    BY <1>1, <2>4 DEF SessionRecords
  <2>6. R!StopLossDue(b, price) <=> R!StopLossDue(a, price)
    BY <2>5, SameValue
  <2>7. ~R!StopLossDue(b, price)
    BY <2>1, <2>3, <2>4, <2>6 DEF R!OnlyFundingSince
  <2>8. x = t.events[k].wallet + t.events[k].fee
    BY <1>3, <2>3
  <2>9. R!OnlyFundingSince(t, k, price)
    BY <1>3, <2>2, <2>4, <2>7, <2>8 DEF R!OnlyFundingSince
  <2>10. k \in 1 .. n + 1
    OBVIOUS
  <2> QED BY <1>3, <2>9, <2>10
<1>5. CASE ~R!StopLossDue(s, price)
  <2>1. PICK b : b = [t EXCEPT !.wallet = s.wallet]
    OBVIOUS
  <2>2. b.wallet = s.wallet /\ b.inv = s.inv /\ b.config = s.config
    BY <1>1, <2>1 DEF SessionRecords
  <2>3. ~R!StopLossDue(b, price)
    BY <1>5, <2>2, SameValue
  <2>4. t.events[n + 1].wallet + t.events[n + 1].fee = s.wallet
    BY <1>3
  <2>5. \A j \in n + 1 .. n + 1 : t.events[j].type = "FUNDING"
    <3>1. \A j \in n + 1 .. n + 1 : j = n + 1
      OBVIOUS
    <3> QED BY <1>3, <3>1
  <2>6. R!OnlyFundingSince(t, n + 1, price)
    BY <1>3, <2>1, <2>3, <2>4, <2>5 DEF R!OnlyFundingSince
  <2>7. n + 1 \in 1 .. n + 1
    OBVIOUS
  <2> QED BY <1>3, <2>6, <2>7
<1> QED
  BY <1>4, <1>5

LEMMA CandlePrices ==
    ASSUME NEW c \in Candles
    PROVE  /\ c \in R!Candle /\ {c.open, c.close} \subseteq c.low .. c.high
           /\ c.open \in Nat \ {0} /\ c.close \in Nat \ {0}
BY SessionAssumption DEF R!SessionAssumption, R!Candle

LEMMA ProcessCandleOk ==
    ASSUME NEW s, GoodSession(s), NEW c \in Candles, NEW rate \in FundingRates,
           NEW t, t = R!ProcessCandle(s, c, rate)
    PROVE  GoodSession(t) /\ t.config = s.config
<1>1. CASE Settled(s)
  <2>1. t = s
    BY <1>1 DEF R!ProcessCandle, Settled, Endings
  <2> QED BY <2>1
<1>2. CASE ~Settled(s)
  <2>1. PICK start \in Nat \ {0} : start = s.lastPrice
    BY DEF GoodSession, SessionOk, SessionRecords
  <2>2. SessionOk(s) /\ s.status = "ACTIVE" /\ LadderAt(s, start) /\ TimelyAt(s, start)
    BY <1>2, <2>1 DEF GoodSession
  <2>3. PICK pays \in BOOLEAN : pays <=> rate # 0 /\ s.inv.qty # 0
    OBVIOUS
  <2>4. PICK f : f = IF pays THEN R!Funded(s, c.open, rate) ELSE s
    OBVIOUS
  <2>5. rate \in Int
    BY SessionAssumption DEF R!SessionAssumption
  <2>6. c.open \in Nat /\ c.close \in Nat \ {0}
    BY CandlePrices
  <2>7. /\ SessionOk(f) /\ Steady(s, f) /\ f.orders = s.orders /\ f.inv = s.inv
        /\ ~pays => f = s
        /\ pays => PaidFunding(s, f)
    <3>1. CASE pays
      <4>1. PICK price \in Nat, share \in Int : f = R!Funded(s, price, share)
        BY <2>4, <2>5, <2>6, <3>1
      <4>2. /\ SessionOk(f) /\ Steady(s, f) /\ f.orders = s.orders /\ f.inv = s.inv
            /\ PaidFunding(s, f)
        BY <2>2, <4>1, FundedOk
      <4> QED BY <3>1, <4>2
    <3>2. CASE ~pays
      BY <2>2, <2>4, <3>2 DEF Steady
    <3> QED BY <3>1, <3>2
  <2>8. LadderAt(f, start) /\ f.status = "ACTIVE" /\ f.config = s.config
    BY <2>2, <2>7 DEF Steady, LadderAt
  <2>9. CASE pays /\ R!IsLiquidatable(f, c.open)
    <3>1. t = R!Terminate(f, "LIQUIDATED", c.open)
      BY <2>2, <2>3, <2>4, <2>9 DEF R!ProcessCandle
    <3>2. "LIQUIDATED" \in Endings
      BY DEF Endings
    <3>3. /\ SessionOk(t) /\ t.config = f.config /\ t.status = "LIQUIDATED"
          /\ t.inv = R!Flat /\ t.orders = R!NoOrders
      BY <2>6, <2>7, <3>1, <3>2, TerminateOk
    <3> QED BY <2>8, <3>2, <3>3 DEF GoodSession, Settled
  <2>10. CASE ~(pays /\ R!IsLiquidatable(f, c.open))
    <3>1. PICK w : w = R!Walked(f, c, start)
      OBVIOUS
    <3>2. t = R!Drawn(w, c.close)
      BY <2>1, <2>2, <2>3, <2>4, <2>10, <3>1 DEF R!ProcessCandle
    <3>3. /\ SessionOk(w) /\ w.config = f.config
          /\ \/ Settled(w)
             \/ /\ Steady(f, w) /\ LadderAt(w, c.close) /\ ~R!TakeProfitDue(w, c.close)
                /\ \/ Unstopped(w, c.close)
                   \/ w = f /\ start = c.close /\ start = c.open
      BY <2>7, <2>8, <3>1, CandlePrices, WalkedOk
    <3>4. CASE Settled(w)
      <4>1. t = w
        BY <3>2, <3>4 DEF R!Drawn, Settled, Endings
      <4> QED BY <2>8, <3>3, <3>4, <4>1 DEF GoodSession
    <3>5. CASE ~Settled(w)
      <4>1. w.status = "ACTIVE" /\ LadderAt(w, c.close) /\ ~R!TakeProfitDue(w, c.close)
        BY <2>8, <3>3, <3>5 DEF Steady
      <4>2. TimelyAt(w, c.close)
        <5>1. CASE Unstopped(w, c.close)
          BY <4>1, <5>1 DEF TimelyAt, Unstopped
        <5>2. CASE ~Unstopped(w, c.close)
          <6>1. w = f /\ start = c.close /\ start = c.open
            BY <3>3, <3>5, <5>2
          <6>2. CASE ~pays
            BY <2>2, <2>7, <6>1, <6>2
          <6>3. CASE pays
            <7>1. ~R!IsLiquidatable(w, c.close)
              BY <2>10, <6>1, <6>3
            <7>2. \E k \in DOMAIN w.events : R!OnlyFundingSince(w, k, c.close)
              <8>1. PICK e \in SessionEvents :
                       /\ f.events = Append(s.events, e)
                       /\ e.type = "FUNDING" /\ e.wallet + e.fee = s.wallet
                BY <2>7, <6>3 DEF PaidFunding
              <8>2. R!StopLossDue(s, start) =>
                       \E k \in DOMAIN s.events : R!OnlyFundingSince(s, k, start)
                BY <2>2 DEF TimelyAt
              <8>3. \E k \in DOMAIN f.events : R!OnlyFundingSince(f, k, start)
                BY <2>2, <2>7, <2>8, <8>1, <8>2, DueByFunding
              <8> QED BY <6>1, <8>3
            <7> QED BY <4>1, <7>1, <7>2 DEF TimelyAt
          <6> QED BY <6>2, <6>3
        <5> QED BY <5>1, <5>2
      <4>3. GoodSession(t) /\ t.config = w.config
        BY <2>6, <3>2, <3>3, <4>1, <4>2, DrawnOk
      <4> QED BY <2>8, <3>3, <4>3
    <3> QED BY <3>4, <3>5
  <2> QED BY <2>9, <2>10
<1> QED
  BY <1>1, <1>2

-----------------------------------------------------------------------------
(* The two drivers                                                         *)

LEMMA NewSessionOk ==
    ASSUME NEW cfg, GoodConfig(cfg), NEW price \in Nat \ {0}, NEW t, t = R!NewSession(cfg, price)
    PROVE  GoodSession(t) /\ t.config = cfg /\ t.status = "ACTIVE"
<1>1. PICK n \in Nat, m \in Nat \ {0} : n = cfg.grids /\ m = cfg.margin
  BY DEF GoodConfig, R!GridConfig
<1>2. PICK level : level = R!Levels(cfg) /\ DOMAIN level = 0 .. n
  BY <1>1 DEF GoodConfig, Rising
<1>3. PICK o : o = R!InitialOrders(cfg, price)
  OBVIOUS
<1>4. price \in Int
  OBVIOUS
<1>5. Ladder(o, n) /\ Bracketed(o, level, price)
  BY <1>1, <1>2, <1>3, <1>4, InitialLadder
<1>6. o \in [buys : SUBSET Nat, sells : SUBSET Nat]
  <2>1. o = [buys |-> o.buys, sells |-> o.sells]
    <3>1. cfg.type \in {"NEUTRAL", "LONG", "SHORT"}
      BY DEF GoodConfig, R!GridConfig
    <3> QED BY <1>3, <3>1 DEF R!InitialOrders
  <2>2. o.buys \subseteq 0 .. n /\ o.sells \subseteq 0 .. n
    BY <1>5 DEF Ladder
  <2>3. o.buys \in SUBSET Nat /\ o.sells \in SUBSET Nat
    BY <2>2
  <2> QED BY <2>1, <2>3
<1>7. /\ t = [status |-> "ACTIVE", config |-> cfg, lastPrice |-> price, wallet |-> m,
              peak |-> m, drawdown |-> 0, inv |-> Flat, peakInventory |-> 0,
              maxNotional |-> 0, profit |-> 0, fees |-> 0, funding |-> 0, completed |-> 0,
              fills |-> 0, orders |-> o, events |-> <<>>]
  BY <1>1, <1>3, SameFormulas DEF R!NewSession
<1>8. Flat \in Inventory /\ Signed(Flat) /\ Flat.qty = 0 /\ Flat.cost = 0
  BY FlatIsSigned
<1>9. <<>> \in Seq(SessionEvents)
  OBVIOUS
<1>10. cfg \in R!GridConfig
  BY DEF GoodConfig
<1>11. t \in SessionRecords
  BY <1>6, <1>7, <1>8, <1>9, <1>10 DEF SessionRecords
<1>12. /\ t.config = cfg /\ t.status = "ACTIVE" /\ t.lastPrice = price /\ t.wallet = m
       /\ t.inv = Flat /\ t.profit = 0 /\ t.fees = 0 /\ t.funding = 0 /\ t.orders = o
       /\ t.events = <<>>
  BY <1>7
<1>13. InBooks(t)
  <2>1. \A w : SumTo(w, 0) = 0
    BY SumToZero
  <2>2. DOMAIN t.events = {}
    BY <1>12
  <2>3. \A w : DOMAIN w = {} => [k \in {} |-> w[k]] = <<>>
    OBVIOUS
  <2>4. PICK x, y, z : /\ x = [k \in DOMAIN t.events |-> R!Cash(t.events[k])]
                       /\ y = [k \in DOMAIN t.events |-> R!FeeOf(t.events[k])]
                       /\ z = [k \in DOMAIN t.events |-> R!ExitOf(t.events[k])]
    OBVIOUS
  <2>5. Len(x) = 0 /\ Len(y) = 0 /\ Len(z) = 0
    <3>1. 1 .. 0 = {}
      OBVIOUS
    <3>2. DOMAIN x = 1 .. 0 /\ DOMAIN y = 1 .. 0 /\ DOMAIN z = 1 .. 0
      BY <2>2, <2>4, <3>1
    <3>3. x = [k \in 1 .. 0 |-> x[k]] /\ y = [k \in 1 .. 0 |-> y[k]] /\ z = [k \in 1 .. 0 |-> z[k]]
      BY <2>4, <3>2
    <3>4. \A q : q = [k \in 1 .. 0 |-> q[k]] => q \in Seq({})
      OBVIOUS
    <3> QED BY <3>2, <3>3, <3>4
  <2>6. R!CashMoved(t) = 0 /\ R!FeesCharged(t) = 0 /\ R!ExitProfit(t) = 0
    BY <2>1, <2>4, <2>5, SameFormulas DEF R!CashMoved, R!FeesCharged, R!ExitProfit, R!Total
  <2>7. R!NetPnl(t) = 0
    BY <1>1, <1>12 DEF R!NetPnl
  <2>8. Held(t) = 0
    BY <1>12 DEF Held
  <2> QED BY <1>8, <1>12, <2>6, <2>7, <2>8 DEF InBooks
<1>14. SessionOk(t)
  BY <1>11, <1>12, <1>13 DEF SessionOk
<1>15. LadderAt(t, price)
  BY <1>1, <1>2, <1>5, <1>12 DEF LadderAt
<1>16. TimelyAt(t, price)
  <2>1. R!MarginBalance(t, price) = m
    <3>1. R!Unrealized(Flat, price) = 0
      BY <1>8 DEF R!Unrealized
    <3> QED BY <1>12, <3>1 DEF R!MarginBalance
  <2>2. ~R!IsLiquidatable(t, price)
    BY <1>8, <1>12 DEF R!IsLiquidatable
  <2>3. \A roi \in Nat \ {0} : ~R!RoiAtMost(t, price, -roi) /\ ~R!RoiAtLeast(t, price, roi)
    <3> SUFFICES ASSUME NEW roi \in Nat \ {0}
                 PROVE  ~R!RoiAtMost(t, price, -roi) /\ ~R!RoiAtLeast(t, price, roi)
      OBVIOUS
    <3>1. PICK x \in Nat \ {0} : x = roi * m /\ (-roi) * m = -x
      OBVIOUS
    <3>2. 1000 * (m - m) = 0
      OBVIOUS
    <3>3. t.config.margin = m
      BY <1>1, <1>12
    <3>4. R!RoiAtMost(t, price, -roi) <=> 1000 * (m - m) <= (-roi) * m
      BY <2>1, <3>3 DEF R!RoiAtMost, R!Thousand
    <3>5. R!RoiAtLeast(t, price, roi) <=> 1000 * (m - m) >= roi * m
      BY <2>1, <3>3 DEF R!RoiAtLeast, R!Thousand
    <3>6. ~(0 <= -x) /\ ~(0 >= x)
      BY <3>1
    <3> QED BY <3>1, <3>2, <3>4, <3>5, <3>6
  <2>4. t.config.stopLoss \subseteq Nat \ {0} /\ t.config.takeProfit \subseteq Nat \ {0}
    BY <1>10, <1>12 DEF R!GridConfig
  <2>5. ~R!StopLossDue(t, price)
    BY <2>3, <2>4 DEF R!StopLossDue
  <2>6. ~R!TakeProfitDue(t, price)
    BY <2>3, <2>4 DEF R!TakeProfitDue
  <2> QED BY <2>2, <2>5, <2>6 DEF TimelyAt
<1> QED
  BY <1>12, <1>14, <1>15, <1>16 DEF GoodSession

LEMMA CloseOk ==
    ASSUME NEW s, GoodSession(s), NEW price \in Nat, NEW reason, NEW t, t = R!Close(s, price, reason)
    PROVE  GoodSession(t) /\ Settled(t)
<1>1. CASE s.status # "ACTIVE"
  <2>1. t = s
    BY <1>1 DEF R!Close
  <2> QED BY <1>1, <2>1 DEF GoodSession
<1>2. CASE s.status = "ACTIVE"
  <2>1. PICK status \in Endings : t = R!Terminate(s, status, price)
    <3>1. "CLOSED_GATE" \in Endings /\ "TIMEOUT" \in Endings
      BY DEF Endings
    <3>2. PICK status : status = IF reason = "GATE" THEN "CLOSED_GATE" ELSE "TIMEOUT"
      OBVIOUS
    <3>3. t = R!Terminate(s, status, price)
      BY <1>2, <3>2 DEF R!Close
    <3> QED BY <3>1, <3>2, <3>3
  <2>2. SessionOk(s)
    BY DEF GoodSession
  <2>3. /\ SessionOk(t) /\ t.status = status /\ t.inv = R!Flat /\ t.orders = R!NoOrders
    BY <2>1, <2>2, TerminateOk
  <2> QED BY <2>3 DEF GoodSession, Settled
<1> QED
  BY <1>1, <1>2

-----------------------------------------------------------------------------
(* The report on the sessions                                              *)

LEMMA SameSets ==
    /\ \A S : R!Cardinality(S) = Cardinality(S)
    /\ \A S : R!Max(S) = Max(S)
    /\ \A f : R!Range(f) = Range(f)
<1>1. \A S : R!Cardinality(S) = Cardinality(S)
  BY DEF R!Cardinality, Cardinality
<1>2. \A S : R!Max(S) = Max(S)
  BY DEF R!Max, Max
<1>3. \A f : R!Range(f) = Range(f)
  BY DEF R!Range, Range
<1> QED
  BY <1>1, <1>2, <1>3

LEMMA MaxOf ==
    ASSUME NEW S, S \subseteq Int, NEW m \in S, \A x \in S : x <= m
    PROVE  R!Max(S) = m
<1>1. PICK x : x = R!Max(S)
  OBVIOUS
<1>2. x \in S /\ \A y \in S : x >= y
  BY <1>1 DEF R!Max
<1>3. x \in Int /\ m \in Int /\ x >= m /\ x <= m
  BY <1>2
<1> QED
  BY <1>1, <1>3

FallTable(h, pnls, n) ==
    h = [i \in 0 .. n |->
            IF i = 0
            THEN [equity |-> SessionCapital, peak |-> SessionCapital, deepest |-> 0]
            ELSE R!Fallen(h[i - 1], pnls[i])]

LEMMA FallTableExists ==
    ASSUME NEW pnls, NEW m \in Nat
    PROVE  \E h : FallTable(h, pnls, m)
<1> DEFINE s == [equity |-> SessionCapital, peak |-> SessionCapital, deepest |-> 0]
           F(x, k) == R!Fallen(x, pnls[k])
           S == {n \in Nat : \E h : FallTable(h, pnls, n)}
<1>0. \A h, n : FallTable(h, pnls, n) <=>
                  h = [k \in 0 .. n |-> IF k = 0 THEN s ELSE F(h[k - 1], k)]
  BY DEF FallTable
<1> HIDE DEF F, s
<1>1. 0 \in S
  <2>1. PICK h : h = [k \in 0 .. 0 |-> s]
    OBVIOUS
  <2>2. h = [k \in 0 .. 0 |-> IF k = 0 THEN s ELSE F(h[k - 1], k)]
    BY <2>1
  <2> QED BY <1>0, <2>2
<1>2. \A n \in Nat : n \in S => n + 1 \in S
  <2> SUFFICES ASSUME NEW n \in Nat, n \in S PROVE n + 1 \in S
    OBVIOUS
  <2>1. PICK g : g = [k \in 0 .. n |-> IF k = 0 THEN s ELSE F(g[k - 1], k)]
    BY <1>0
  <2>2. PICK h : h = [k \in 0 .. n + 1 |-> IF k = n + 1 THEN F(g[n], n + 1) ELSE g[k]]
    OBVIOUS
  <2>3. \A k \in 0 .. n + 1 : h[k] = IF k = 0 THEN s ELSE F(h[k - 1], k)
    <3> SUFFICES ASSUME NEW k \in 0 .. n + 1
                 PROVE  h[k] = IF k = 0 THEN s ELSE F(h[k - 1], k)
      OBVIOUS
    <3>1. CASE k = n + 1
      <4>1. h[k] = F(g[n], n + 1) /\ h[k - 1] = g[n] /\ k # 0
        BY <2>2, <3>1
      <4> QED BY <3>1, <4>1
    <3>2. CASE k \in 0 .. n
      <4>1. g[k] = IF k = 0 THEN s ELSE F(g[k - 1], k)
        BY <2>1, <3>2
      <4>2. h[k] = g[k] /\ (k # 0 => h[k - 1] = g[k - 1])
        BY <2>2, <3>2
      <4> QED BY <4>1, <4>2
    <3> QED BY <3>1, <3>2
  <2>4. h = [k \in 0 .. n + 1 |-> IF k = 0 THEN s ELSE F(h[k - 1], k)]
    <3>1. h = [k \in 0 .. n + 1 |-> h[k]]
      BY <2>2
    <3> QED BY <2>3, <3>1
  <2>5. FallTable(h, pnls, n + 1)
    BY <1>0, <2>4
  <2> QED BY <2>5
<1> HIDE DEF S
<1>3. m \in S
  BY <1>1, <1>2, SetInduction
<1> QED BY <1>3 DEF S

\* The highest equity of the first j sessions, and how far it is below it.
PeakUntil(pnls, j) == R!Max({R!Equity(pnls, i) : i \in 0 .. j})
FallAt(pnls, j) == (R!Thousand * (PeakUntil(pnls, j) - R!Equity(pnls, j))) \div PeakUntil(pnls, j)

\* The loop's peak and deepest fall are those of the sessions so far.
Tracked(a, pnls, k) ==
    /\ a.equity = R!Equity(pnls, k) /\ a.peak \in Nat \ {0} /\ a.deepest \in Int
    /\ \A i \in 0 .. k : R!Equity(pnls, i) <= a.peak
    /\ \E i \in 0 .. k : R!Equity(pnls, i) = a.peak
    /\ \A j \in 0 .. k : FallAt(pnls, j) \in Int /\ FallAt(pnls, j) <= a.deepest
    /\ \E j \in 0 .. k : FallAt(pnls, j) = a.deepest

LEMMA PeakFound ==
    ASSUME NEW pnls, NEW k \in Nat, \A i \in 0 .. k : R!Equity(pnls, i) \in Int,
           NEW p \in Nat \ {0}, \A i \in 0 .. k : R!Equity(pnls, i) <= p,
           \E i \in 0 .. k : R!Equity(pnls, i) = p
    PROVE  /\ PeakUntil(pnls, k) = p
           /\ FallAt(pnls, k) = (1000 * (p - R!Equity(pnls, k))) \div p
           /\ FallAt(pnls, k) \in Int
<1>1. PICK S : S = {R!Equity(pnls, i) : i \in 0 .. k}
  OBVIOUS
<1>2. S \subseteq Int /\ p \in S /\ \A x \in S : x <= p
  BY <1>1
<1>3. PeakUntil(pnls, k) = p
  BY <1>1, <1>2, MaxOf DEF PeakUntil
<1>4. FallAt(pnls, k) = (1000 * (p - R!Equity(pnls, k))) \div p
  BY <1>3 DEF FallAt, R!Thousand
<1>5. PICK x \in Int : x = 1000 * (p - R!Equity(pnls, k))
  <2>1. R!Equity(pnls, k) \in Int
    OBVIOUS
  <2> QED BY <2>1
<1>6. x \div p \in Int
  OBVIOUS
<1> QED
  BY <1>3, <1>4, <1>5, <1>6

LEMMA EquitySteps ==
    ASSUME NEW pnls, NEW n \in Nat, \A i \in 1 .. n : pnls[i] \in Int
    PROVE  /\ R!Equity(pnls, 0) = SessionCapital
           /\ \A k \in 0 .. n : R!Equity(pnls, k) \in Int
           /\ \A k \in 0 .. n - 1 : R!Equity(pnls, k + 1) = R!Equity(pnls, k) + pnls[k + 1]
<1>1. SessionCapital \in Int
  BY SessionAssumption DEF R!SessionAssumption
<1>2. \A k \in 0 .. n : R!Equity(pnls, k) = SessionCapital + SumTo(pnls, k)
  BY SameFormulas DEF R!Equity
<1>3. \A k \in 0 .. n : SumTo(pnls, k) \in Int
  <2> SUFFICES ASSUME NEW k \in 0 .. n PROVE SumTo(pnls, k) \in Int
    OBVIOUS
  <2>1. \A i \in 1 .. k : pnls[i] \in Int
    OBVIOUS
  <2> QED BY <2>1, SumToInt
<1>4. ASSUME NEW k \in 0 .. n - 1
      PROVE  R!Equity(pnls, k + 1) = R!Equity(pnls, k) + pnls[k + 1]
  <2>1. k \in Nat /\ k \in 0 .. n /\ k + 1 \in 0 .. n /\ k + 1 \in 1 .. n
    BY <1>4
  <2>2. SumTo(pnls, k + 1) = SumTo(pnls, k) + pnls[k + 1]
    <3>1. \A i \in 1 .. k + 1 : pnls[i] \in Int
      BY <2>1
    <3> QED BY <2>1, <3>1, SumToStep
  <2>3. PICK x \in Int, y \in Int : x = SumTo(pnls, k) /\ y = pnls[k + 1]
    BY <1>3, <2>1
  <2> QED BY <1>1, <1>2, <2>1, <2>2, <2>3
<1>5. SumTo(pnls, 0) = 0
  BY SumToZero
<1>6. 0 \in 0 .. n
  OBVIOUS
<1>7. R!Equity(pnls, 0) = SessionCapital
  BY <1>1, <1>2, <1>5, <1>6
<1> QED
  BY <1>1, <1>2, <1>3, <1>4, <1>7

LEMMA FollowedStart ==
    ASSUME NEW pnls, R!Equity(pnls, 0) = SessionCapital
    PROVE  Tracked([equity |-> SessionCapital, peak |-> SessionCapital, deepest |-> 0], pnls, 0)
<1>1. PICK c \in Nat \ {0} : c = SessionCapital
  BY SessionAssumption DEF R!SessionAssumption
<1>2. \A i \in 0 .. 0 : i = 0
  OBVIOUS
<1>3. /\ FallAt(pnls, 0) = (1000 * (c - c)) \div c
  <2>1. /\ 0 \in Nat /\ \A i \in 0 .. 0 : R!Equity(pnls, i) \in Int
        /\ \A i \in 0 .. 0 : R!Equity(pnls, i) <= c
        /\ \E i \in 0 .. 0 : R!Equity(pnls, i) = c
    BY <1>1, <1>2
  <2>2. FallAt(pnls, 0) = (1000 * (c - R!Equity(pnls, 0))) \div c
    BY <2>1, PeakFound
  <2> QED BY <1>1, <2>2
<1>4. 0 \div c = 0
  OBVIOUS
<1>5. FallAt(pnls, 0) = 0
  <2>1. 1000 * (c - c) = 0
    OBVIOUS
  <2> QED BY <1>3, <1>4, <2>1
<1>6. R!Equity(pnls, 0) = c
  BY <1>1
<1> QED
  BY <1>1, <1>2, <1>5, <1>6 DEF Tracked

LEMMA FollowedStep ==
    ASSUME NEW pnls, NEW k \in Nat, \A i \in 0 .. k + 1 : R!Equity(pnls, i) \in Int,
           NEW pnl \in Int, R!Equity(pnls, k + 1) = R!Equity(pnls, k) + pnl,
           NEW a, Tracked(a, pnls, k), NEW b, b = R!Fallen(a, pnl)
    PROVE  Tracked(b, pnls, k + 1)
<1>1. PICK e \in Int, f \in Int : e = R!Equity(pnls, k) /\ f = R!Equity(pnls, k + 1) /\ f = e + pnl
  OBVIOUS
<1>2. PICK p \in Nat \ {0}, d \in Int : p = a.peak /\ d = a.deepest /\ a.equity = e
  BY <1>1 DEF Tracked
<1>3. PICK q \in Nat \ {0} : q = R!Larger(p, f)
  BY DEF R!Larger
<1>4. q >= p /\ q >= f /\ (q = p \/ q = f)
  BY <1>3 DEF R!Larger
<1>5. \A i \in 0 .. k + 1 : i \in 0 .. k \/ i = k + 1
  OBVIOUS
<1>6. (\A i \in 0 .. k : i \in 0 .. k + 1) /\ k + 1 \in 0 .. k + 1
  OBVIOUS
<1>7. /\ \A i \in 0 .. k : R!Equity(pnls, i) <= p
      /\ \E i \in 0 .. k : R!Equity(pnls, i) = p
      /\ \A j \in 0 .. k : FallAt(pnls, j) \in Int /\ FallAt(pnls, j) <= d
      /\ \E j \in 0 .. k : FallAt(pnls, j) = d
  BY <1>2 DEF Tracked
<1>8. \A i \in 0 .. k + 1 : R!Equity(pnls, i) <= q
  <2> SUFFICES ASSUME NEW i \in 0 .. k + 1 PROVE R!Equity(pnls, i) <= q
    OBVIOUS
  <2>1. PICK x \in Int : x = R!Equity(pnls, i)
    OBVIOUS
  <2>2. x <= p \/ x = f
    BY <1>1, <1>5, <1>7, <2>1
  <2> QED BY <1>4, <2>1, <2>2
<1>9. \E i \in 0 .. k + 1 : R!Equity(pnls, i) = q
  BY <1>1, <1>4, <1>6, <1>7
<1>10. PICK g \in Int : g = (1000 * (q - f)) \div q /\ FallAt(pnls, k + 1) = g
  <2>1. k + 1 \in Nat
    OBVIOUS
  <2> QED BY <1>1, <1>8, <1>9, <2>1, PeakFound
<1>11. PICK m \in Int : m = R!Larger(d, g)
  BY DEF R!Larger
<1>12. m >= d /\ m >= g /\ (m = d \/ m = g)
  BY <1>11 DEF R!Larger
<1>13. \A j \in 0 .. k + 1 : FallAt(pnls, j) \in Int /\ FallAt(pnls, j) <= m
  <2> SUFFICES ASSUME NEW j \in 0 .. k + 1 PROVE FallAt(pnls, j) \in Int /\ FallAt(pnls, j) <= m
    OBVIOUS
  <2>1. CASE j \in 0 .. k
    <3>1. PICK x \in Int : x = FallAt(pnls, j) /\ x <= d
      BY <1>7, <2>1
    <3> QED BY <1>12, <3>1
  <2>2. CASE j = k + 1
    BY <1>10, <1>12, <2>2
  <2> QED BY <1>5, <2>1, <2>2
<1>14. \E j \in 0 .. k + 1 : FallAt(pnls, j) = m
  BY <1>6, <1>7, <1>10, <1>12
<1>15. b = [equity |-> f, peak |-> q, deepest |-> m]
  BY <1>1, <1>2, <1>3, <1>10, <1>11 DEF R!Fallen, R!Thousand
<1>16. b.equity = f /\ b.peak = q /\ b.deepest = m
  BY <1>15
<1> QED
  BY <1>1, <1>8, <1>9, <1>13, <1>14, <1>16 DEF Tracked

LEMMA DrawdownFound ==
    ASSUME NEW pnls, NEW n \in Nat, Len(pnls) = n, \A i \in 1 .. n : pnls[i] \in Int
    PROVE  R!MaxDrawdown(pnls) = R!Max({FallAt(pnls, j) : j \in 0 .. n})
<1>1. PICK h : h = CHOOSE g : FallTable(g, pnls, n)
  OBVIOUS
<1>2. FallTable(h, pnls, n)
  BY <1>1, FallTableExists
<1>3. R!MaxDrawdown(pnls) = h[n].deepest
  BY <1>1 DEF R!MaxDrawdown, FallTable
<1>4. /\ h[0] = [equity |-> SessionCapital, peak |-> SessionCapital, deepest |-> 0]
      /\ \A k \in 0 .. n - 1 : h[k + 1] = R!Fallen(h[k], pnls[k + 1])
  <2>1. \A k \in 0 .. n - 1 : k + 1 \in 0 .. n /\ k + 1 # 0 /\ (k + 1) - 1 = k
    OBVIOUS
  <2> QED BY <1>2, <2>1 DEF FallTable
<1>5. /\ R!Equity(pnls, 0) = SessionCapital
      /\ \A k \in 0 .. n : R!Equity(pnls, k) \in Int
      /\ \A k \in 0 .. n - 1 : R!Equity(pnls, k + 1) = R!Equity(pnls, k) + pnls[k + 1]
  BY EquitySteps
<1> DEFINE S == {k \in Nat : k <= n => Tracked(h[k], pnls, k)}
<1>6. 0 \in S
  BY <1>4, <1>5, FollowedStart
<1>7. \A k \in Nat : k \in S => k + 1 \in S
  <2> SUFFICES ASSUME NEW k \in Nat, k \in S, k + 1 <= n PROVE Tracked(h[k + 1], pnls, k + 1)
    OBVIOUS
  <2>1. Tracked(h[k], pnls, k) /\ k \in 0 .. n - 1 /\ k + 1 \in 1 .. n
    OBVIOUS
  <2>2. PICK pnl \in Int : pnl = pnls[k + 1]
    BY <2>1
  <2>3. \A i \in 0 .. k + 1 : R!Equity(pnls, i) \in Int
    BY <1>5
  <2>4. R!Equity(pnls, k + 1) = R!Equity(pnls, k) + pnl
    BY <1>5, <2>1, <2>2
  <2>5. h[k + 1] = R!Fallen(h[k], pnl)
    BY <1>4, <2>1, <2>2
  <2> QED BY <2>1, <2>3, <2>4, <2>5, FollowedStep
<1> HIDE DEF S
<1>8. n \in S
  BY <1>6, <1>7, SetInduction
<1>9. Tracked(h[n], pnls, n)
  BY <1>8 DEF S
<1>10. PICK F : F = {FallAt(pnls, j) : j \in 0 .. n}
  OBVIOUS
<1>11. F \subseteq Int /\ h[n].deepest \in F /\ \A x \in F : x <= h[n].deepest
  BY <1>9, <1>10 DEF Tracked
<1>12. R!Max(F) = h[n].deepest
  BY <1>11, MaxOf
<1> QED
  BY <1>3, <1>10, <1>12

\* What MetricsFaithful says of the sessions.
LEMMA ReportFaithful ==
    ASSUME NEW results, NEW n \in Nat, DOMAIN results = 1 .. n, Len(results) = n,
           \A i \in 1 .. n : R!NetPnl(results[i]) \in Int,
           NEW m, m = R!Metrics(results),
           NEW pnls, pnls = [i \in DOMAIN results |-> R!NetPnl(results[i])]
    PROVE  /\ m.net = m.grossProfit - m.grossLoss
           /\ m.wins + m.losses <= m.sessions
           /\ m.maxDrawdown = R!Max({FallAt(pnls, j) : j \in 0 .. Len(pnls)})
<1>1. DOMAIN pnls = 1 .. n /\ Len(pnls) = n /\ \A i \in 1 .. n : pnls[i] \in Int
  OBVIOUS
<1>2. PICK wins, losses : /\ wins = {i \in 1 .. n : pnls[i] > 0}
                          /\ losses = {i \in 1 .. n : pnls[i] < 0}
  OBVIOUS
<1>3. PICK v, w : /\ v = [i \in 1 .. n |-> IF i \in wins THEN pnls[i] ELSE 0]
                  /\ w = [i \in 1 .. n |-> IF i \in losses THEN pnls[i] ELSE 0]
  OBVIOUS
<1>4. Len(v) = n /\ Len(w) = n
  BY <1>3
<1>5. /\ m.net = R!Total(pnls) /\ m.grossProfit = R!Total(v) /\ m.grossLoss = -R!Total(w)
      /\ m.wins = R!Cardinality(wins) /\ m.losses = R!Cardinality(losses)
      /\ m.sessions = Len(results) /\ m.maxDrawdown = R!MaxDrawdown(pnls)
  BY <1>1, <1>2, <1>3 DEF R!Metrics
<1>6. m.net = m.grossProfit - m.grossLoss
  <2>1. \A i \in 1 .. n : v[i] \in Int /\ w[i] \in Int /\ pnls[i] = v[i] + w[i]
    <3> SUFFICES ASSUME NEW i \in 1 .. n
                 PROVE  v[i] \in Int /\ w[i] \in Int /\ pnls[i] = v[i] + w[i]
      OBVIOUS
    <3>1. PICK x \in Int : x = pnls[i]
      BY <1>1
    <3>2. v[i] = (IF x > 0 THEN x ELSE 0) /\ w[i] = (IF x < 0 THEN x ELSE 0)
      BY <1>2, <1>3, <3>1
    <3> QED BY <3>1, <3>2
  <2>2. SumTo(pnls, n) = SumTo(v, n) + SumTo(w, n)
    BY <2>1, SumToPlus
  <2>3. SumTo(v, n) \in Int /\ SumTo(w, n) \in Int
    BY <2>1, SumToInt
  <2>4. R!Total(pnls) = SumTo(pnls, n) /\ R!Total(v) = SumTo(v, n) /\ R!Total(w) = SumTo(w, n)
    BY <1>1, <1>4, SameFormulas DEF R!Total
  <2>5. PICK x \in Int, y \in Int : x = SumTo(v, n) /\ y = SumTo(w, n)
    BY <2>3
  <2>6. x + y = x - (-y)
    OBVIOUS
  <2> QED BY <1>5, <2>2, <2>4, <2>5, <2>6
<1>7. m.wins + m.losses <= m.sessions
  <2>1. IsFiniteSet(1 .. n) /\ Cardinality(1 .. n) = n
    <3>1. 1 \in Int /\ n \in Int
      OBVIOUS
    <3>2. IsFiniteSet(1 .. n) /\ Cardinality(1 .. n) = IF 1 > n THEN 0 ELSE n - 1 + 1
      BY <3>1, FS_Interval
    <3> QED BY <3>2
  <2>2. wins \subseteq 1 .. n /\ losses \subseteq 1 .. n /\ wins \cap losses = {}
    BY <1>1, <1>2
  <2>3. IsFiniteSet(wins) /\ IsFiniteSet(losses)
    BY <2>1, <2>2, FS_Subset
  <2>4. Cardinality(wins \cup losses)
           = Cardinality(wins) + Cardinality(losses) - Cardinality(wins \cap losses)
    BY <2>3, FS_Union
  <2>5. Cardinality(wins \cap losses) = 0
    BY <2>2, FS_EmptySet
  <2>6. Cardinality(wins) \in Nat /\ Cardinality(losses) \in Nat
    BY <2>3, FS_CardinalityType
  <2>7. Cardinality(wins \cup losses) <= n
    <3>1. wins \cup losses \in SUBSET (1 .. n)
      BY <2>2
    <3>2. Cardinality(wins \cup losses) <= Cardinality(1 .. n)
      BY <2>1, <3>1, FS_Subset
    <3> QED BY <2>1, <3>2
  <2>8. PICK x \in Nat, y \in Nat : x = Cardinality(wins) /\ y = Cardinality(losses)
    BY <2>6
  <2>9. x + y <= n
    BY <2>4, <2>5, <2>7, <2>8
  <2> QED BY <1>5, <2>8, <2>9, SameSets
<1>8. m.maxDrawdown = R!Max({FallAt(pnls, j) : j \in 0 .. Len(pnls)})
  <2>1. R!MaxDrawdown(pnls) = R!Max({FallAt(pnls, j) : j \in 0 .. n})
    BY <1>1, DrawdownFound
  <2> QED BY <1>1, <1>5, <2>1
<1> QED
  BY <1>6, <1>7, <1>8

-----------------------------------------------------------------------------
(* The invariant of the sessions                                           *)

SessionsInvariant ==
    /\ \/ driver = "PLAIN" /\ config \in Configs
       \/ driver = "RADAR" /\ config \in RadarConfigs
    /\ current = None \/ current \in Candles
    /\ driver = "PLAIN" /\ session # None => current \in Candles
    /\ session = None \/ GoodSession(session)
    /\ sessions \in Seq(SessionRecords) /\ \A i \in DOMAIN sessions : GoodSession(sessions[i])

LEMMA AppendGood ==
    ASSUME NEW list \in Seq(SessionRecords), \A i \in DOMAIN list : GoodSession(list[i]),
           NEW s, GoodSession(s)
    PROVE  /\ Append(list, s) \in Seq(SessionRecords)
           /\ \A i \in DOMAIN Append(list, s) : GoodSession(Append(list, s)[i])
<1>1. s \in SessionRecords
  BY DEF GoodSession, SessionOk
<1>2. PICK n \in Nat : n = Len(list) /\ DOMAIN list = 1 .. n
  OBVIOUS
<1>3. PICK more : more = Append(list, s)
  OBVIOUS
<1>4. /\ more \in Seq(SessionRecords) /\ DOMAIN more = 1 .. n + 1
      /\ \A i \in 1 .. n : more[i] = list[i]
      /\ more[n + 1] = s
  BY <1>1, <1>2, <1>3
<1>5. ASSUME NEW i \in 1 .. n + 1 PROVE GoodSession(more[i])
  <2>1. CASE i = n + 1
    BY <1>4, <2>1
  <2>2. CASE i # n + 1
    <3>1. i \in 1 .. n
      BY <2>2
    <3> QED BY <1>2, <1>4, <3>1
  <2> QED BY <2>1, <2>2
<1> QED
  BY <1>3, <1>4, <1>5

LEMMA ConfigsGood ==
    ASSUME NEW cfg \in Configs
    PROVE  GoodConfig(cfg)
BY SpacedRises, SessionAssumption DEF R!SessionAssumption

LEMMA PlainBarKeeps ==
    ASSUME SessionsInvariant, NEW c \in Candles, NEW rate \in FundingRates, R!PlainBar(c, rate)
    PROVE  SessionsInvariant'
<1>1. driver = "PLAIN" /\ config \in Configs
  BY DEF SessionsInvariant, R!PlainBar
<1>2. PICK s : s = IF session = None THEN R!NewSession(config, c.open) ELSE session
  OBVIOUS
<1>3. GoodSession(s)
  <2>1. CASE session = None
    <3>1. GoodConfig(config) /\ c.open \in Nat \ {0}
      BY <1>1, ConfigsGood, CandlePrices
    <3> QED BY <1>2, <2>1, <3>1, NewSessionOk
  <2>2. CASE session # None
    BY <1>2, <2>2 DEF SessionsInvariant
  <2> QED BY <2>1, <2>2
<1>4. session' = R!ProcessCandle(s, c, rate)
  BY <1>2 DEF R!PlainBar
<1>5. GoodSession(session')
  BY <1>3, <1>4, ProcessCandleOk
<1>6. current' = c /\ UNCHANGED <<driver, config, sessions>>
  BY DEF R!PlainBar
<1> QED
  BY <1>1, <1>5, <1>6 DEF SessionsInvariant

LEMMA PlainEndKeeps ==
    ASSUME SessionsInvariant, R!PlainEnd
    PROVE  SessionsInvariant'
<1>1. /\ driver = "PLAIN" /\ session # None /\ current \in Candles /\ GoodSession(session)
      /\ config \in Configs
  BY DEF SessionsInvariant, R!PlainEnd
<1>2. PICK t : t = R!Close(session, current.close, "TIMEOUT")
  OBVIOUS
<1>3. GoodSession(t)
  <2>1. current.close \in Nat
    BY <1>1, CandlePrices
  <2> QED BY <1>1, <1>2, <2>1, CloseOk
<1>4. session' = t /\ sessions' = <<t>> /\ UNCHANGED <<driver, config, current>>
  BY <1>2 DEF R!PlainEnd
<1>5. t \in SessionRecords
  BY <1>3 DEF GoodSession, SessionOk
<1>6. PICK list : list = <<t>>
  OBVIOUS
<1>7. list \in Seq(SessionRecords) /\ \A i \in DOMAIN list : list[i] = t
  BY <1>5, <1>6
<1> QED
  BY <1>1, <1>3, <1>4, <1>6, <1>7 DEF SessionsInvariant

LEMMA RadarBarKeeps ==
    ASSUME SessionsInvariant, NEW c \in Candles, NEW rate \in FundingRates, NEW verdict \in BOOLEAN,
           R!RadarBar(c, verdict, rate)
    PROVE  SessionsInvariant'
<1>1. driver = "RADAR" /\ config \in RadarConfigs /\ current \in Candles
  BY DEF SessionsInvariant, R!RadarBar
<1>2. PICK played :
         /\ played = IF session = None THEN None
                     ELSE R!AfterGate(R!ProcessCandle(session, current, rate), held + 1, verdict, c)
         /\ LET over == played # None /\ played.status # "ACTIVE"
                kept == IF over THEN None ELSE played
            IN  /\ sessions' = IF over THEN Append(sessions, played) ELSE sessions
                /\ session' = IF kept = None /\ verdict
                              THEN R!NewSession(R!Around(c.open), c.open) ELSE kept
  BY DEF R!RadarBar
<1>3. played = None \/ GoodSession(played)
  <2>1. CASE session = None
    BY <1>2, <2>1
  <2>2. CASE session # None
    <3>1. PICK s : s = R!ProcessCandle(session, current, rate)
      OBVIOUS
    <3>2. GoodSession(session)
      BY <2>2 DEF SessionsInvariant
    <3>3. GoodSession(s)
      BY <1>1, <3>1, <3>2, ProcessCandleOk
    <3>4. played = R!AfterGate(s, held + 1, verdict, c)
      BY <1>2, <2>2, <3>1
    <3>5. played = s \/ \E reason : played = R!Close(s, c.open, reason)
      BY <3>4 DEF R!AfterGate
    <3>6. c.open \in Nat
      BY CandlePrices
    <3>7. CASE played = s
      BY <3>3, <3>7
    <3>8. CASE \E reason : played = R!Close(s, c.open, reason)
      <4>1. PICK reason : played = R!Close(s, c.open, reason)
        BY <3>8
      <4> QED BY <3>3, <3>6, <4>1, CloseOk
    <3> QED BY <3>5, <3>7, <3>8
  <2> QED BY <2>1, <2>2
<1>4. PICK kept : kept = IF played # None /\ played.status # "ACTIVE" THEN None ELSE played
  OBVIOUS
<1>5. kept = None \/ GoodSession(kept)
  BY <1>3, <1>4
<1>6. session' = IF kept = None /\ verdict THEN R!NewSession(R!Around(c.open), c.open) ELSE kept
  BY <1>2, <1>4
<1>7. GoodSession(R!NewSession(R!Around(c.open), c.open))
  <2>1. GoodConfig(R!Around(c.open)) /\ c.open \in Nat \ {0}
    BY <1>1, AroundRises, CandlePrices
  <2> QED BY <2>1, NewSessionOk
<1>8. session' = None \/ GoodSession(session')
  BY <1>5, <1>6, <1>7
<1>9. sessions' = sessions \/ (GoodSession(played) /\ sessions' = Append(sessions, played))
  BY <1>2, <1>3
<1>10. sessions' \in Seq(SessionRecords) /\ \A i \in DOMAIN sessions' : GoodSession(sessions'[i])
  <2>1. sessions \in Seq(SessionRecords) /\ \A i \in DOMAIN sessions : GoodSession(sessions[i])
    BY DEF SessionsInvariant
  <2>2. CASE sessions' = sessions
    BY <2>1, <2>2
  <2>3. CASE GoodSession(played) /\ sessions' = Append(sessions, played)
    BY <2>1, <2>3, AppendGood
  <2> QED BY <1>9, <2>2, <2>3
<1>11. current' = c /\ UNCHANGED <<driver, config>>
  BY DEF R!RadarBar
<1> QED
  BY <1>1, <1>8, <1>10, <1>11 DEF SessionsInvariant

LEMMA RadarEndKeeps ==
    ASSUME SessionsInvariant, R!RadarEnd
    PROVE  SessionsInvariant'
<1>1. driver = "RADAR" /\ config \in RadarConfigs /\ current \in Candles
  BY DEF SessionsInvariant, R!RadarEnd
<1>2. sessions \in Seq(SessionRecords) /\ \A i \in DOMAIN sessions : GoodSession(sessions[i])
  BY DEF SessionsInvariant
<1>3. session' = None /\ UNCHANGED <<driver, config, current>>
  BY DEF R!RadarEnd
<1>4. sessions' \in Seq(SessionRecords) /\ \A i \in DOMAIN sessions' : GoodSession(sessions'[i])
  <2>1. CASE session = None
    <3>1. sessions' = sessions
      BY <2>1 DEF R!RadarEnd
    <3> QED BY <1>2, <3>1
  <2>2. CASE session # None
    <3>1. PICK t : t = R!Close(session, current.close, "TIMEOUT")
      OBVIOUS
    <3>2. sessions' = Append(sessions, t)
      BY <2>2, <3>1 DEF R!RadarEnd
    <3>3. GoodSession(session) /\ current.close \in Nat
      BY <1>1, <2>2, CandlePrices DEF SessionsInvariant
    <3>4. GoodSession(t)
      BY <3>1, <3>3, CloseOk
    <3> QED BY <1>2, <3>2, <3>4, AppendGood
  <2> QED BY <2>1, <2>2
<1> QED
  BY <1>1, <1>3, <1>4 DEF SessionsInvariant

LEMMA SessionsInit ==
    ASSUME R!Init
    PROVE  SessionsInvariant
<1>1. <<>> \in Seq(SessionRecords) /\ DOMAIN <<>> = {}
  OBVIOUS
<1> QED
  BY <1>1 DEF R!Init, SessionsInvariant

LEMMA SessionsNext ==
    ASSUME SessionsInvariant, [R!Next]_(R!vars)
    PROVE  SessionsInvariant'
<1>1. CASE UNCHANGED R!vars
  BY <1>1 DEF R!vars, SessionsInvariant
<1>2. CASE \E c \in Candles, rate \in FundingRates : R!PlainBar(c, rate)
  BY <1>2, PlainBarKeeps
<1>3. CASE R!PlainEnd
  BY <1>3, PlainEndKeeps
<1>4. ASSUME NEW c \in Candles, R!RadarStart(c) PROVE SessionsInvariant'
  BY <1>4 DEF R!RadarStart, SessionsInvariant
<1>5. CASE \E c \in Candles, rate \in FundingRates, verdict \in BOOLEAN :
              R!RadarBar(c, verdict, rate)
  BY <1>5, RadarBarKeeps
<1>6. CASE R!RadarEnd
  BY <1>6, RadarEndKeeps
<1> QED
  BY <1>1, <1>2, <1>3, <1>4, <1>5, <1>6 DEF R!Next

LEMMA SessionsAreGood ==
    ASSUME SessionsInvariant, NEW s \in R!Sessions
    PROVE  GoodSession(s)
<1>1. s \in Range(sessions) \/ (s = session /\ session # None)
  <2>1. R!Sessions = Range(sessions) \cup (IF session = None THEN {} ELSE {session})
    <3>1. R!Range(sessions) = Range(sessions)
      BY SameSets
    <3> QED BY <3>1 DEF R!Sessions
  <2> QED BY <2>1
<1>2. CASE s \in Range(sessions)
  <2>1. PICK i \in DOMAIN sessions : s = sessions[i]
    BY <1>2 DEF Range
  <2> QED BY <2>1 DEF SessionsInvariant
<1>3. CASE s = session /\ session # None
  BY <1>3 DEF SessionsInvariant
<1> QED
  BY <1>1, <1>2, <1>3

LEMMA BracketFollows ==
    ASSUME NEW s, SessionOk(s), LadderAt(s, s.lastPrice)
    PROVE  /\ \A i \in s.orders.buys : R!Levels(s.config)[i] <= s.lastPrice
           /\ \A i \in s.orders.sells : s.lastPrice <= R!Levels(s.config)[i]
           /\ \A i \in s.orders.buys, j \in s.orders.sells : i < j
           /\ R!Cardinality(DOMAIN R!Levels(s.config) \ (s.orders.buys \cup s.orders.sells)) <= 1
<1>1. DOMAIN R!Levels(s.config) = 0 .. s.config.grids
  BY DEF SessionOk, GoodConfig, Rising
<1>2. PICK S : S = DOMAIN R!Levels(s.config) \ (s.orders.buys \cup s.orders.sells)
  OBVIOUS
<1>3. \A i, j \in S : i = j
  BY <1>1, <1>2 DEF LadderAt, Ladder
<1>4. Cardinality(S) <= 1
  <2>1. CASE S = {}
    BY <2>1, FS_EmptySet
  <2>2. CASE S # {}
    <3>1. PICK x : S = {x}
      BY <1>3, <2>2
    <3>2. Cardinality(S) = 1
      BY <3>1, FS_Singleton
    <3> QED BY <3>2
  <2> QED BY <2>1, <2>2
<1> QED
  BY <1>2, <1>4, SameSets DEF LadderAt, Ladder, Bracketed

LEMMA AccountFollows ==
    ASSUME NEW s, GoodSession(s)
    PROVE  /\ R!NetPnl(s) = s.profit - s.fees - s.funding + R!ExitProfit(s)
           /\ s.fees = R!FeesCharged(s)
           /\ s.status # "ACTIVE" /\ ~R!Turned(s) => R!Unexplained(s) = 0
<1>1. InBooks(s) /\ s \in SessionRecords
  BY DEF GoodSession, SessionOk
<1>2. R!NetPnl(s) \in Int
  BY <1>1 DEF R!NetPnl, SessionRecords, R!GridConfig
<1>3. ASSUME s.status # "ACTIVE", ~R!Turned(s) PROVE R!Unexplained(s) = 0
  <2>1. s.inv = R!Flat
    BY <1>3 DEF GoodSession, Settled
  <2>2. s.inv.cost = 0
    BY <2>1 DEF R!Flat
  <2>3. R!NetPnl(s) = R!CashMoved(s) + 0
    BY <1>1, <1>3, <2>2 DEF InBooks
  <2>4. R!CashMoved(s) \in Int
    <3>1. PICK e \in SessionEvents : TRUE
      <4>1. [type |-> "FUNDING", qty |-> 0, value |-> 0, fee |-> 0, pnl |-> 0,
             inventory |-> 0, wallet |-> 0] \in SessionEvents
        BY DEF SessionEvents, Trades
      <4> QED BY <4>1
    <3>2. PICK t : t = [s EXCEPT !.events = Append(s.events, e)]
      OBVIOUS
    <3>3. t.events = Append(s.events, e) /\ s.events \in Seq(SessionEvents)
      BY <1>1, <3>2 DEF SessionRecords
    <3> QED BY <3>3, EventAdded
  <2>5. R!NetPnl(s) - R!CashMoved(s) = 0
    BY <2>3, <2>4
  <2> QED BY <2>5 DEF R!Unexplained
<1> QED
  BY <1>1, <1>3 DEF InBooks

LEMMA SessionsSoundFollows ==
    ASSUME SessionsInvariant
    PROVE  SessionsSound
<1>1. \A s \in R!Sessions : GoodSession(s)
  BY SessionsAreGood
<1>2. R!OrdersBracketPrice
  <2> SUFFICES ASSUME NEW s \in R!Sessions, s.status = "ACTIVE"
               PROVE  /\ \A i \in s.orders.buys : R!Levels(s.config)[i] <= s.lastPrice
                      /\ \A i \in s.orders.sells : s.lastPrice <= R!Levels(s.config)[i]
                      /\ \A i \in s.orders.buys, j \in s.orders.sells : i < j
                      /\ R!Cardinality(DOMAIN R!Levels(s.config)
                                         \ (s.orders.buys \cup s.orders.sells)) <= 1
    BY DEF R!OrdersBracketPrice
  <2>1. SessionOk(s) /\ LadderAt(s, s.lastPrice)
    BY <1>1 DEF GoodSession, Settled, Endings
  <2> QED BY <2>1, BracketFollows
<1>3. R!StoppedInTime
  <2> SUFFICES ASSUME NEW s \in R!Sessions
               PROVE  /\ s.status = "ACTIVE" =>
                            /\ ~R!IsLiquidatable(s, s.lastPrice)
                            /\ ~R!TakeProfitDue(s, s.lastPrice)
                            /\ R!StopLossDue(s, s.lastPrice) =>
                                  \E k \in DOMAIN s.events : R!OnlyFundingSince(s, k, s.lastPrice)
                      /\ s.status # "ACTIVE" => s.inv = R!Flat /\ s.orders = R!NoOrders
    BY DEF R!StoppedInTime
  <2> QED BY <1>1 DEF GoodSession, Settled, Endings, TimelyAt
<1>4. R!AccountsClose
  BY <1>1, AccountFollows DEF R!AccountsClose
<1>5. R!MetricsFaithful
  <2>1. PICK n \in Nat : n = Len(sessions) /\ DOMAIN sessions = 1 .. n
    BY DEF SessionsInvariant
  <2>2. \A i \in 1 .. n : R!NetPnl(sessions[i]) \in Int
    <3> SUFFICES ASSUME NEW i \in 1 .. n PROVE R!NetPnl(sessions[i]) \in Int
      OBVIOUS
    <3>1. sessions[i] \in SessionRecords
      BY <2>1 DEF SessionsInvariant
    <3>2. sessions[i].wallet \in Int /\ sessions[i].config \in R!GridConfig
      BY <3>1 DEF SessionRecords
    <3>3. sessions[i].config.margin \in Int
      BY <3>2 DEF R!GridConfig
    <3>4. PICK w \in Int, m \in Int : w = sessions[i].wallet /\ m = sessions[i].config.margin
      BY <3>2, <3>3
    <3> QED BY <3>4 DEF R!NetPnl
  <2>3. PICK m, pnls : /\ m = R!Metrics(sessions)
                       /\ pnls = [i \in DOMAIN sessions |-> R!NetPnl(sessions[i])]
    OBVIOUS
  <2>4. /\ m.net = m.grossProfit - m.grossLoss
        /\ m.wins + m.losses <= m.sessions
        /\ m.maxDrawdown = R!Max({FallAt(pnls, j) : j \in 0 .. Len(pnls)})
    BY <2>1, <2>2, <2>3, ReportFaithful
  <2> QED BY <2>3, <2>4 DEF R!MetricsFaithful, FallAt, PeakUntil
<1> QED
  BY <1>2, <1>3, <1>4, <1>5 DEF SessionsSound

\* The sessions of both drivers of the simulator are sound after every candle: no
\* resting order is passed over by the path of the price (_traverse_segment), a live
\* session is solvent, short of its take profit, and within its stop loss but for
\* funding since the price last moved, one that has ended holds nothing
\* (_terminate), its wallet follows from its reported profit, fees and funding
\* and from its events, and the report of calculate_grid_metrics agrees with a
\* definition of its own.  For every range, number of grids, candles, rates and
\* number of sessions.
THEOREM SessionsAreSound == R!Spec => []SessionsSound
<1>1. R!Init => SessionsInvariant
  BY SessionsInit
<1>2. SessionsInvariant /\ [R!Next]_(R!vars) => SessionsInvariant'
  BY SessionsNext
<1>3. SessionsInvariant => SessionsSound
  BY SessionsSoundFollows
<1> QED
  BY <1>1, <1>2, <1>3, PTL DEF R!Spec

\* The run that checks the multi-symbol engine of the continuous grid and the grid
\* sessions side by side takes only steps of the one or of the other, so that what
\* is proved of each specification holds of the run.
THEOREM GridsAreBoth == ResearchSpec => Spec /\ R!Spec
<1>1. ResearchInit => Init /\ R!Init
  BY DEF ResearchInit
<1>2. [ResearchNext]_<<program, gridVars, sessionVars>> => [Next]_gridVars
  BY DEF ResearchNext
<1>3. [ResearchNext]_<<program, gridVars, sessionVars>> => [R!Next]_(R!vars)
  BY DEF ResearchNext, sessionVars, R!vars
<1> QED
  BY <1>1, <1>2, <1>3, PTL DEF ResearchSpec, Spec, R!Spec
=============================================================================
