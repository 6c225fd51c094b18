----------------------- MODULE PortfolioCalls_proofs -----------------------
(***************************************************************************)
(* PortfolioEngine under any sequence of calls: its safety invariants and  *)
(* the implementation of the cash ledger, for any number of symbols and    *)
(* any sets of prices, times, rates and costs.                             *)
(***************************************************************************)
EXTENDS PortfolioCalls, Portfolio_proofs

(* The inductive invariant.  Sound alone is not inductive: a restore       *)
(* without statistics keeps CashConservation only because the statistics   *)
(* it rebuilds are the running ones.                                       *)
CallsInv == Sound /\ StatisticsMatchHistory

(* A new engine satisfies the invariant.                                   *)
LEMMA InitCallsInv == Init => CallsInv
BY NewBooksSound, NewBooksAccounted DEF Init, CallsInv

(* open_position preserves it.                                             *)
LEMMA OpenStep ==
    ASSUME CallsInv, NEW s \in Symbols, Open(s) PROVE CallsInv'
<1>1. PICK p \in Offered : positions[s] = None /\ OpenPosition(s, p)
  BY DEF Open
<1>2. p \in Position /\ p.unrealized = 0 /\ p.fundingPaid = 0
  BY CallsAssumption
<1>3. Sound'
  BY <1>1, <1>2, OpenPositionSound DEF CallsInv
<1>4. StatisticsMatchHistory'
  BY <1>1, <1>2, OpenPositionAccounted DEF CallsInv, Sound
<1> QED BY <1>3, <1>4 DEF CallsInv

(* So does close_position, whether it succeeds or raises.                  *)
LEMMA CloseStep ==
    ASSUME CallsInv, NEW s \in Symbols, Close(s) PROVE CallsInv'
<1>1. PICK price \in Prices, reason \in CloseReasons, t \in Times, funding \in Costs :
         \/ ClosePosition(s, price, reason, t, funding)
         \/ CloseRaises(s, price, reason, t, funding)
  BY DEF Close
<1>2. price \in Positive /\ t \in Nat /\ funding \in Int
  BY CallsAssumption
<1>3. CASE ClosePosition(s, price, reason, t, funding)
  <2>1. Sound'
    BY <1>2, <1>3, ClosePositionSound DEF CallsInv
  <2>2. StatisticsMatchHistory'
    BY <1>2, <1>3, ClosePositionAccounted DEF CallsInv, Sound
  <2> QED BY <2>1, <2>2 DEF CallsInv
<1>4. CASE CloseRaises(s, price, reason, t, funding)
  <2>1. Sound'
    BY <1>2, <1>4, CloseRaisesSound DEF CallsInv
  <2>2. StatisticsMatchHistory'
    BY <1>4 DEF CloseRaises, StatisticsMatchHistory
  <2> QED BY <2>1, <2>2 DEF CallsInv
<1> QED BY <1>1, <1>3, <1>4

(* So does update_market_prices, with any number of prices.                *)
LEMMA MarkStep ==
    ASSUME CallsInv, NEW prices, \A s \in DOMAIN prices : prices[s] \in Prices,
           UpdateMarketPrices(prices)
    PROVE  CallsInv'
<1>1. \A s \in DOMAIN prices : prices[s] \in Int
  <2>1. Prices \subseteq Int
    BY CallsAssumption DEF Positive
  <2> QED BY <2>1
<1>2. Sound'
  BY <1>1, UpdateMarketPricesSound DEF CallsInv
<1>3. StatisticsMatchHistory'
  BY <1>1, UpdateMarketPricesAccounted DEF CallsInv, Sound
<1> QED BY <1>2, <1>3 DEF CallsInv

(* So does apply_funding_settlements.                                      *)
LEMMA FundStep ==
    ASSUME CallsInv, NEW t \in Times, NEW rate \in Rates, ApplyFunding(t, rate)
    PROVE  CallsInv'
<1>1. t \in Nat /\ DOMAIN rate \subseteq Symbols /\ \A s \in DOMAIN rate : rate[s] \in Int
  BY CallsAssumption
<1>2. Sound'
  BY <1>1, ApplyFundingSound DEF CallsInv
<1>3. StatisticsMatchHistory'
  BY <1>1, ApplyFundingAccounted DEF CallsInv, Sound
<1> QED BY <1>2, <1>3 DEF CallsInv

(* A restore without statistics changes nothing at all.                    *)
LEMMA RestoreStep ==
    ASSUME CallsInv, ~closeRaised, RestoreWithoutStatistics PROVE CallsInv'
<1>1. UNCHANGED books
  BY RestoreIsExact DEF CallsInv
<1> QED BY <1>1 DEF CallsInv, Sound, BooksOK, EquityIdentity, CashConservation,
                    StatisticsMatchHistory, RestoredStatistics, SumHistory, books

(* No call and no stuttering breaks the invariant.                         *)
LEMMA NextCallsInv == CallsInv /\ [Next]_books => CallsInv'
<1> SUFFICES ASSUME CallsInv, [Next]_books PROVE CallsInv'
  OBVIOUS
<1>1. ASSUME NEW s \in Symbols, Open(s) PROVE CallsInv'
  BY <1>1, OpenStep
<1>2. ASSUME NEW s \in Symbols, Close(s) PROVE CallsInv'
  BY <1>2, CloseStep
<1>3. CASE Mark
  <2>1. PICK prices \in [Symbols -> Prices] : UpdateMarketPrices(prices)
    BY <1>3 DEF Mark
  <2> QED BY <2>1, MarkStep
<1>4. CASE MarkOne
  <2>1. PICK s \in Symbols, price \in Prices : UpdateMarketPrices([x \in {s} |-> price])
    BY <1>4 DEF MarkOne
  <2> QED BY <2>1, MarkStep
<1>5. CASE Fund
  <2>1. PICK t \in Times, rate \in Rates : ApplyFunding(t, rate)
    BY <1>5 DEF Fund
  <2> QED BY <2>1, FundStep
<1>6. CASE ~closeRaised /\ RestoreWithoutStatistics
  BY <1>6, RestoreStep
<1>7. CASE UNCHANGED books
  BY <1>7 DEF CallsInv, Sound, BooksOK, EquityIdentity, CashConservation,
              StatisticsMatchHistory, RestoredStatistics, SumHistory, books
<1> QED BY <1>1, <1>2, <1>3, <1>4, <1>5, <1>6, <1>7 DEF Next

(* The invariant holds after any sequence of calls to the engine.          *)
THEOREM CallsInvariant == Spec => []CallsInv
<1>1. Init => CallsInv
  BY InitCallsInv
<1>2. CallsInv /\ [Next]_books => CallsInv'
  BY NextCallsInv
<1> QED BY <1>1, <1>2, PTL DEF Spec

(* Every account the engine can reach has the type of the code's data.     *)
THEOREM BooksTypeCorrect == Spec => []BooksOK
<1>1. CallsInv => BooksOK
  BY DEF CallsInv, Sound
<1> QED BY <1>1, CallsInvariant, PTL

(* Equity always equals free cash plus open positions at their marks.      *)
THEOREM EquityIsIdentified == Spec => []EquityIdentity
<1>1. CallsInv => EquityIdentity
  BY DEF CallsInv, Sound
<1> QED BY <1>1, CallsInvariant, PTL

(* No sequence of calls creates or loses money.                            *)
THEOREM CashIsConserved == Spec => []CashConservation
<1>1. CallsInv => CashConservation
  BY DEF CallsInv, Sound
<1> QED BY <1>1, CallsInvariant, PTL

(* Whatever the callers do, the books have their types and add up.         *)
THEOREM BooksStaySound == Spec => []BooksSound
<1>1. BooksOK /\ EquityIdentity /\ CashConservation => BooksSound
  BY DEF BooksSound
<1> QED BY <1>1, BooksTypeCorrect, EquityIsIdentified, CashIsConserved, PTL

(* The running statistics never drift from the history.                    *)
THEOREM StatisticsNeverDrift == Spec => []StatisticsMatchHistory
<1>1. CallsInv => StatisticsMatchHistory
  BY DEF CallsInv
<1> QED BY <1>1, CallsInvariant, PTL

-----------------------------------------------------------------------------
(* The engine implements the ledger.                                       *)

(* The cost of open positions is never negative.                           *)
LEMMA ExposureNatural == ASSUME NEW book \in Books PROVE Exposure(book) >= 0
<1> DEFINE zero == [i \in 1 .. NumSymbols |-> 0]
<1>1. \A i \in 1 .. NumSymbols :
         zero[i] \in Int /\ SizesOf(book)[i] \in Int /\ zero[i] <= SizesOf(book)[i]
  BY SizesAreInt, SymbolsAre
<1>2. \A i \in 1 .. NumSymbols : zero[i] = 0
  OBVIOUS
<1> HIDE DEF zero
<1>3. SumTo(zero, NumSymbols) <= SumTo(SizesOf(book), NumSymbols)
  BY <1>1, SumToMonotone, SymbolsAre
<1>4. SumTo(zero, NumSymbols) = 0
  BY <1>2, SumToNothing, SymbolsAre
<1> QED BY <1>3, <1>4, ExposureIsSum

(* Arithmetic of a payment ...                                             *)
LEMMA Payment ==
    ASSUME NEW a \in Nat, NEW b \in Nat PROVE a - b <= a /\ b = a - (a - b)
OBVIOUS

(* ... and of a close, for natural balances.                               *)
LEMMA Balance ==
    ASSUME NEW a \in Nat, NEW b \in Nat, NEW c \in Nat PROVE b = a + c + (b - a - c)
OBVIOUS

(* A new engine is a new ledger.                                           *)
LEMMA LedgerInit == Init => L!Init
<1> SUFFICES ASSUME Init PROVE L!Init
  OBVIOUS
<1>1. Sound
  BY NewBooksSound DEF Init
<1>2. free = InitialCapital /\ NetProfit(statistics) = 0 /\ InitialCapital \in Nat
  BY PortfolioAssumption DEF Init, NewBooks, NetProfit, NoTrades
<1>3. Exposure(positions) \in Int
  BY <1>1, BookSumsType DEF Sound, BooksOK, Books
<1>4. Exposure(positions) = 0
  BY <1>1, <1>2, <1>3 DEF Sound, CashConservation
<1> QED BY <1>2, <1>4 DEF L!Init

(* Opening a position holds its cost.                                      *)
LEMMA LedgerOpen ==
    ASSUME CallsInv, NEW s \in Symbols, Open(s) PROVE L!Next
<1>1. PICK p \in Offered : positions[s] = None /\ OpenPosition(s, p)
  BY DEF Open
<1>2. p \in Position /\ p.unrealized = 0
  BY CallsAssumption
<1>3. Exposure(positions)' = Exposure(positions) + Size(p)
  BY <1>1, <1>2, OpenPositionSound DEF CallsInv
<1>4. Exposure(positions) \in Int /\ Size(p) \in Nat /\ Size(p) > 0
  BY <1>2, BookSumsType, SizeType DEF CallsInv, Sound, BooksOK, Books
<1>5. Size(p) <= free /\ free' = free - Size(p) /\ statistics' = statistics
  BY <1>1 DEF OpenPosition
<1>6. NetProfit(statistics)' = NetProfit(statistics)
  BY <1>5
<1>7. Exposure(positions)' - Exposure(positions) = Size(p)
  BY <1>3, <1>4
<1>8. L!Hold(Exposure(positions)' - Exposure(positions))
  BY <1>3, <1>4, <1>5, <1>6, <1>7 DEF L!Hold
<1> QED BY <1>8 DEF L!Next

(* Closing one releases it with its profit; a raising close moves no money.*)
LEMMA LedgerClose ==
    ASSUME CallsInv, NEW s \in Symbols, Close(s) PROVE L!Next \/ UNCHANGED L!vars
<1>1. PICK price \in Prices, reason \in CloseReasons, t \in Times, funding \in Costs :
         \/ ClosePosition(s, price, reason, t, funding)
         \/ CloseRaises(s, price, reason, t, funding)
  BY DEF Close
<1>2. price \in Positive /\ t \in Nat /\ funding \in Int
  BY CallsAssumption
<1>3. CASE ClosePosition(s, price, reason, t, funding)
  <2> DEFINE size == Size(positions[s])
             profit == NetProfit(statistics)' - NetProfit(statistics)
  <2>1. /\ Sound'
        /\ Exposure(positions)' = Exposure(positions) - size
        /\ NetProfit(statistics)' = NetProfit(statistics) + (free' - free - size)
    BY <1>2, <1>3, ClosePositionSound DEF CallsInv
  <2>2. Exposure(positions) \in Int /\ Exposure(positions)' \in Int /\ Exposure(positions)' >= 0
    <3>1. positions \in Books /\ positions' \in Books
      BY <2>1 DEF CallsInv, Sound, BooksOK, Books
    <3> QED BY <3>1, BookSumsType, ExposureNatural
  <2>3. size \in Nat /\ size > 0
    <3>1. positions[s] \in Position
      BY <1>3 DEF ClosePosition, CloseInOrder, CallsInv, Sound, BooksOK
    <3> QED BY <3>1, SizeType
  <2>4. free \in Nat /\ free' \in Nat /\ NetProfit(statistics) \in Int
    <3>1. free \in Nat /\ free' \in Nat /\ statistics \in Statistics
      BY <2>1 DEF CallsInv, Sound, BooksOK
    <3> QED BY <3>1 DEF NetProfit, Statistics
  <2> HIDE DEF size
  <2>5. Exposure(positions) - Exposure(positions)' = size /\ profit = free' - free - size
    BY <2>1, <2>2, <2>3, <2>4
  <2> HIDE DEF profit
  <2>6. NetProfit(statistics)' = NetProfit(statistics) + profit
    BY <2>1, <2>5
  <2>7. L!Release(size, profit)
    <3>1. 0 < size /\ size <= Exposure(positions)
      BY <2>1, <2>2, <2>3
    <3>2. free' = free + size + profit /\ free + size + profit >= 0
      <4>1. profit \in Int /\ profit = free' - free - size
        BY <2>3, <2>4, <2>5
      <4>2. free' = free + size + profit
        BY <2>3, <2>4, <4>1, Balance
      <4>3. free' >= 0
        BY <2>4
      <4> QED BY <4>2, <4>3
    <3> QED BY <2>1, <2>6, <3>1, <3>2 DEF L!Release
  <2>8. L!Release(Exposure(positions) - Exposure(positions)',
                  NetProfit(statistics)' - NetProfit(statistics))
    BY <2>5, <2>7 DEF profit
  <2> QED BY <2>8 DEF L!Next
<1>4. CASE CloseRaises(s, price, reason, t, funding)
  <2>1. UNCHANGED <<free, positions, statistics>>
    BY <1>4 DEF CloseRaises
  <2> QED BY <2>1 DEF L!vars
<1> QED BY <1>1, <1>3, <1>4

(* Marking moves no money.                                                 *)
LEMMA LedgerMark ==
    ASSUME CallsInv, NEW prices, \A s \in DOMAIN prices : prices[s] \in Prices,
           UpdateMarketPrices(prices)
    PROVE  UNCHANGED L!vars
<1>1. \A s \in DOMAIN prices : prices[s] \in Int
  <2>1. Prices \subseteq Int
    BY CallsAssumption DEF Positive
  <2> QED BY <2>1
<1>2. Exposure(positions)' = Exposure(positions) /\ UNCHANGED <<free, statistics>>
  BY <1>1, UpdateMarketPricesSound DEF CallsInv
<1> QED BY <1>2 DEF L!vars

(* Funding is charged.                                                     *)
LEMMA LedgerFund ==
    ASSUME CallsInv, NEW t \in Times, NEW rate \in Rates, ApplyFunding(t, rate)
    PROVE  L!Next
<1>1. t \in Nat /\ DOMAIN rate \subseteq Symbols /\ \A s \in DOMAIN rate : rate[s] \in Int
  BY CallsAssumption
<1>2. /\ Sound'
      /\ Exposure(positions)' = Exposure(positions)
      /\ NetProfit(statistics)' = NetProfit(statistics) - (free - free')
  BY <1>1, ApplyFundingSound DEF CallsInv
<1>3. free \in Nat /\ free' \in Nat
  BY <1>2 DEF CallsInv, Sound, BooksOK
<1>4. L!Charge(free - free')
  <2>1. free - free' <= free /\ free' = free - (free - free')
    BY <1>3, Payment
  <2> QED BY <1>2, <2>1 DEF L!Charge
<1> QED BY <1>4 DEF L!Next

(* Every step of the engine is one of the ledger, or none.                 *)
LEMMA LedgerNext == CallsInv /\ [Next]_books => [L!Next]_(L!vars)
<1> SUFFICES ASSUME CallsInv, [Next]_books PROVE [L!Next]_(L!vars)
  OBVIOUS
<1>1. ASSUME NEW s \in Symbols, Open(s) PROVE [L!Next]_(L!vars)
  BY <1>1, LedgerOpen
<1>2. ASSUME NEW s \in Symbols, Close(s) PROVE [L!Next]_(L!vars)
  BY <1>2, LedgerClose
<1>3. CASE Mark
  <2>1. PICK prices \in [Symbols -> Prices] : UpdateMarketPrices(prices)
    BY <1>3 DEF Mark
  <2> QED BY <2>1, LedgerMark
<1>4. CASE MarkOne
  <2>1. PICK s \in Symbols, price \in Prices : UpdateMarketPrices([x \in {s} |-> price])
    BY <1>4 DEF MarkOne
  <2> QED BY <2>1, LedgerMark
<1>5. CASE Fund
  <2>1. PICK t \in Times, rate \in Rates : ApplyFunding(t, rate)
    BY <1>5 DEF Fund
  <2> QED BY <2>1, LedgerFund
<1>6. CASE ~closeRaised /\ RestoreWithoutStatistics
  <2>1. UNCHANGED books
    BY <1>6, RestoreIsExact DEF CallsInv
  <2> QED BY <2>1 DEF books, L!vars
<1>7. CASE UNCHANGED books
  BY <1>7 DEF books, L!vars
<1> QED BY <1>1, <1>2, <1>3, <1>4, <1>5, <1>6, <1>7 DEF Next

(* Every step of the engine is a step of the ledger or changes no money.   *)
THEOREM EngineImplementsLedger == Spec => ImplementsLedger
<1>1. Init => L!Init
  BY LedgerInit
<1>2. CallsInv /\ [Next]_books => [L!Next]_(L!vars)
  BY LedgerNext
<1> QED BY <1>1, <1>2, CallsInvariant, PTL DEF Spec, ImplementsLedger, L!Spec

-----------------------------------------------------------------------------
(* Funding that was paid is not paid again: what a position has paid       *)
(* changes only with its cursor, and the cursor only moves forward.        *)
THEOREM NoFundingTwice == Spec => FundingPaidOnce
<1> DEFINE Once == \A s \in Symbols :
              positions[s] # None /\ positions'[s] # None =>
                  \/ positions'[s].fundedUntil > positions[s].fundedUntil
                  \/ /\ positions'[s].fundedUntil = positions[s].fundedUntil
                     /\ positions'[s].fundingPaid = positions[s].fundingPaid
<1>1. CallsInv /\ [Next]_books => [Once]_books
  <2> SUFFICES ASSUME CallsInv, Next, NEW s \in Symbols,
                      positions[s] # None, positions'[s] # None
               PROVE  \/ positions'[s].fundedUntil > positions[s].fundedUntil
                      \/ /\ positions'[s].fundedUntil = positions[s].fundedUntil
                         /\ positions'[s].fundingPaid = positions[s].fundingPaid
    OBVIOUS
  <2>1. positions[s] \in Position
    BY DEF CallsInv, Sound, BooksOK
  <2>2. ASSUME NEW x \in Symbols, Open(x) PROVE positions'[s] = positions[s]
    <3>1. PICK p \in Offered : positions[x] = None /\ positions' = [positions EXCEPT ![x] = p]
      BY <2>2 DEF Open, OpenPosition
    <3> QED BY <3>1
  <2>3. ASSUME NEW x \in Symbols, Close(x) PROVE positions'[s] = positions[s]
    <3>1. positions' = positions \/ positions' = [positions EXCEPT ![x] = None]
      BY <2>3 DEF Close, ClosePosition, CloseRaises
    <3>2. positions \in [Symbols -> Position \cup {None}]
      BY DEF CallsInv, Sound, BooksOK
    <3> QED BY <3>1, <3>2
  <2>4. ASSUME NEW prices, \A x \in DOMAIN prices : prices[x] \in Int,
               UpdateMarketPrices(prices)
        PROVE  /\ positions'[s].fundedUntil = positions[s].fundedUntil
               /\ positions'[s].fundingPaid = positions[s].fundingPaid
    <3>1. positions'[s] = Marked(prices)[s]
      BY <2>4 DEF UpdateMarketPrices
    <3>2. \/ positions'[s] = positions[s]
          \/ positions'[s] = [positions[s] EXCEPT !.unrealized = Gross(positions[s], prices[s])]
      BY <3>1 DEF Marked
    <3> QED BY <2>1, <3>2 DEF Position
  <2>5. Mark \/ MarkOne => \E prices : /\ \A x \in DOMAIN prices : prices[x] \in Int
                                       /\ UpdateMarketPrices(prices)
    <3>1. Prices \subseteq Int
      BY CallsAssumption DEF Positive
    <3>2. CASE Mark
      <4>1. PICK prices \in [Symbols -> Prices] : UpdateMarketPrices(prices)
        BY <3>2 DEF Mark
      <4> QED BY <3>1, <4>1
    <3>3. CASE MarkOne
      <4>1. PICK x \in Symbols, price \in Prices : UpdateMarketPrices([y \in {x} |-> price])
        BY <3>3 DEF MarkOne
      <4> QED BY <3>1, <4>1
    <3> QED BY <3>2, <3>3
  <2>6. ASSUME NEW t \in Times, NEW rate \in Rates, ApplyFunding(t, rate)
        PROVE  \/ positions'[s].fundedUntil > positions[s].fundedUntil
               \/ positions'[s] = positions[s]
    <3>1. CASE s \in Payers(t, rate)
      <4> DEFINE c == Charge(s, rate)
      <4>1. positions'[s] = [positions[s] EXCEPT !.fundingPaid = @ + c, !.fundedUntil = t]
        BY <2>6, <3>1 DEF ApplyFunding
      <4> HIDE DEF c
      <4>2. positions'[s].fundedUntil = t
        BY <2>1, <4>1 DEF Position
      <4>3. positions[s].fundedUntil < t
        BY <3>1 DEF Payers
      <4>4. t \in Nat /\ positions[s].fundedUntil \in Nat
        BY <2>1, CallsAssumption DEF Position
      <4> QED BY <4>2, <4>3, <4>4
    <3>2. CASE s \notin Payers(t, rate)
      BY <2>6, <3>2 DEF ApplyFunding
    <3> QED BY <3>1, <3>2
  <2>7. CASE RestoreWithoutStatistics
    BY <2>7 DEF RestoreWithoutStatistics
  <2> QED BY <2>2, <2>3, <2>4, <2>5, <2>6, <2>7 DEF Next, Fund
<1> QED BY <1>1, CallsInvariant, PTL DEF Spec, FundingPaidOnce
=============================================================================
