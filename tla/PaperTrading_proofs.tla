------------------------- MODULE PaperTrading_proofs -------------------------
(***************************************************************************)
(* Proofs about the paper trader, for any number of symbols, any policy,   *)
(* setups, candles and funding histories, any clock and any history of     *)
(* failures.  In two parts.                                                *)
(*                                                                         *)
(* THE EXECUTION ENGINE over the portfolio (module PaperExecution): what   *)
(* PortfolioEngine promises holds at every step of every batch, a symbol   *)
(* is committed at most once, and the slots of the policy are never        *)
(* exceeded; every order and every stop that a candle reaches is dealt     *)
(* with, at a price that it proves, and every settlement is paid once.     *)
(*                                                                         *)
(* THE POLL CYCLE AND THE STATE STORE (module PaperTrading): however often *)
(* cycles fail and the program dies, a candle is never played twice on the *)
(* same books, and every saved state is one to continue from.  Its         *)
(* invariant speaks of three things at once: the books in memory           *)
(* (PaperInv), the watermark beside them, and the snapshot on disk, which  *)
(* must itself satisfy what the engine needs when it is resumed from it.   *)
(***************************************************************************)
EXTENDS PaperTrading, Portfolio_proofs

-----------------------------------------------------------------------------
(* PART ONE.  The execution engine                                         *)

Playing == Phases \ {"Idle", "Halted", "Raised"}

\* Types of what the execution engine adds to the books.
EngineOK ==
    /\ pending \in [Symbols -> Order \cup {None}]
    /\ phase \in Phases
    /\ turn \in Symbols
    /\ openTime \in Nat
    /\ peak \in Nat
    /\ enteredIntrabar \subseteq Symbols
    /\ phase \in Playing => candles \in [Symbols -> Candle]
    /\ settlements \in Histories

Accounts == Sound /\ StatisticsMatchHistory
Commitments == OneCommitmentPerSymbol /\ SlotLimit

(* The inductive invariant.                                                *)
PaperInv == EngineOK /\ Accounts /\ Commitments

-----------------------------------------------------------------------------
(* Counting what a book holds                                              *)

HeldAs(q) == IF q # None THEN 1 ELSE 0
ShortAs(q) == IF q # None /\ q.direction = "BEARISH" THEN 1 ELSE 0

HeldIn(book) == [s \in Symbols |-> HeldAs(book[s])]
ShortsIn(book) == [s \in Symbols |-> ShortAs(book[s])]

(* The counts of the risk manager as sums.                                 *)
LEMMA CountsAreSums ==
    ASSUME NEW book
    PROVE  /\ Trades(book) = SumTo(HeldIn(book), NumSymbols)
           /\ Shorts(book) = SumTo(ShortsIn(book), NumSymbols)
<1>1. Trades(book) = SumTo(HeldIn(book), NumSymbols)
  BY DEF Trades, CountTo, HeldIn, HeldAs, Symbols
<1>2. Shorts(book) = SumTo(ShortsIn(book), NumSymbols)
  BY DEF Shorts, CountTo, ShortsIn, ShortAs, Symbols
<1> QED BY <1>1, <1>2

(* Counts are integers.                                                    *)
LEMMA CountsType == ASSUME NEW book PROVE Trades(book) \in Int /\ Shorts(book) \in Int
<1>1. \A i \in 1 .. NumSymbols : HeldIn(book)[i] \in Int /\ ShortsIn(book)[i] \in Int
  BY SymbolsAre DEF HeldIn, HeldAs, ShortsIn, ShortAs
<1>2. SumTo(HeldIn(book), NumSymbols) \in Int
  BY <1>1, SumToInt, SymbolsAre
<1>3. SumTo(ShortsIn(book), NumSymbols) \in Int
  BY <1>1, SumToInt, SymbolsAre
<1> QED BY <1>2, <1>3, CountsAreSums

(* Replacing what one symbol holds changes the counts by the difference.   *)
LEMMA CountsReplace ==
    ASSUME NEW book, DOMAIN book = Symbols, NEW s \in Symbols, NEW q
    PROVE  LET after == [book EXCEPT ![s] = q]
           IN  /\ Trades(after) = Trades(book) - HeldAs(book[s]) + HeldAs(q)
               /\ Shorts(after) = Shorts(book) - ShortAs(book[s]) + ShortAs(q)
<1> DEFINE after == [book EXCEPT ![s] = q]
<1>1. \A i \in 1 .. NumSymbols :
         /\ HeldIn(book)[i] \in Int /\ HeldIn(after)[i] \in Int
         /\ ShortsIn(book)[i] \in Int /\ ShortsIn(after)[i] \in Int
  BY SymbolsAre DEF HeldIn, HeldAs, ShortsIn, ShortAs
<1>2. \A i \in 1 .. NumSymbols : i # s =>
         HeldIn(after)[i] = HeldIn(book)[i] /\ ShortsIn(after)[i] = ShortsIn(book)[i]
  BY SymbolsAre DEF HeldIn, ShortsIn
<1>3. /\ HeldIn(book)[s] = HeldAs(book[s]) /\ HeldIn(after)[s] = HeldAs(q)
      /\ ShortsIn(book)[s] = ShortAs(book[s]) /\ ShortsIn(after)[s] = ShortAs(q)
  BY DEF HeldIn, ShortsIn
<1> HIDE DEF after
<1>4. s \in 1 .. NumSymbols /\ NumSymbols \in Nat
  BY SymbolsAre
<1>5. SumTo(HeldIn(after), NumSymbols) =
         SumTo(HeldIn(book), NumSymbols) - HeldIn(book)[s] + HeldIn(after)[s]
  BY <1>1, <1>2, <1>4, SumToReplace
<1>6. SumTo(ShortsIn(after), NumSymbols) =
         SumTo(ShortsIn(book), NumSymbols) - ShortsIn(book)[s] + ShortsIn(after)[s]
  BY <1>1, <1>2, <1>4, SumToReplace
<1>7. /\ Trades(after) = Trades(book) - HeldAs(book[s]) + HeldAs(q)
      /\ Shorts(after) = Shorts(book) - ShortAs(book[s]) + ShortAs(q)
  BY <1>3, <1>5, <1>6, CountsAreSums
<1> QED BY <1>7 DEF after

\* The same symbols hold something, in the same directions.
SameHoldings(after, book) ==
    \A s \in Symbols : /\ after[s] = None <=> book[s] = None
                       /\ book[s] # None => after[s].direction = book[s].direction

(* Books with the same holdings count the same.                            *)
LEMMA SameCounts ==
    ASSUME NEW book, NEW after, SameHoldings(after, book)
    PROVE  Trades(after) = Trades(book) /\ Shorts(after) = Shorts(book)
<1>1. \A i \in 1 .. NumSymbols :
         HeldIn(after)[i] = HeldIn(book)[i] /\ ShortsIn(after)[i] = ShortsIn(book)[i]
  BY SymbolsAre DEF SameHoldings, HeldIn, HeldAs, ShortsIn, ShortAs
<1>2. SumTo(HeldIn(after), NumSymbols) = SumTo(HeldIn(book), NumSymbols)
  BY <1>1, SumToAgree, SymbolsAre
<1>3. SumTo(ShortsIn(after), NumSymbols) = SumTo(ShortsIn(book), NumSymbols)
  BY <1>1, SumToAgree, SymbolsAre
<1> QED BY <1>2, <1>3, CountsAreSums

-----------------------------------------------------------------------------
(* What each operation does to the accounts and the commitments            *)

(* Nothing that leaves books and orders alone disturbs them.               *)
LEMMA SameKeeps ==
    ASSUME Accounts, Commitments, UNCHANGED books, UNCHANGED pending
    PROVE  Accounts' /\ Commitments'
<1>1. UNCHANGED <<free, total, positions, history, statistics, closeRaised>>
  BY DEF books
<1>2. Accounts'
  BY <1>1 DEF Accounts, Sound, BooksOK, EquityIdentity, CashConservation,
              StatisticsMatchHistory, RestoredStatistics, SumHistory
<1>3. Commitments'
  BY <1>1 DEF Commitments, OneCommitmentPerSymbol, SlotLimit
<1> QED BY <1>2, <1>3

(* Operations that leave the same symbols held keep the commitments.       *)
LEMMA SameHoldingsKeep ==
    ASSUME Commitments, SameHoldings(positions', positions), UNCHANGED pending
    PROVE  Commitments'
<1>1. OneCommitmentPerSymbol'
  BY DEF Commitments, OneCommitmentPerSymbol, SameHoldings
<1>2. Trades(positions') = Trades(positions) /\ Shorts(positions') = Shorts(positions)
  BY SameCounts
<1>3. SlotLimit'
  BY <1>2 DEF Commitments, SlotLimit
<1> QED BY <1>1, <1>3 DEF Commitments

(* Marking keeps both.                                                     *)
LEMMA MarkKeeps ==
    ASSUME Accounts, Commitments, NEW prices, \A s \in DOMAIN prices : prices[s] \in Int,
           UpdateMarketPrices(prices), UNCHANGED pending
    PROVE  Accounts' /\ Commitments'
<1>1. Accounts'
  BY UpdateMarketPricesSound, UpdateMarketPricesAccounted DEF Accounts, Sound
<1>2. positions' = Marked(prices)
  BY DEF UpdateMarketPrices
<1>3. SameHoldings(positions', positions)
  <2> SUFFICES ASSUME NEW s \in Symbols
               PROVE  /\ Marked(prices)[s] = None <=> positions[s] = None
                      /\ positions[s] # None =>
                            Marked(prices)[s].direction = positions[s].direction
    BY <1>2 DEF SameHoldings
  <2>1. CASE positions[s] # None /\ s \in DOMAIN prices
    <3> DEFINE m == Gross(positions[s], prices[s])
               q == [positions[s] EXCEPT !.unrealized = m]
    <3>1. positions[s] \in Position
      BY <2>1 DEF Accounts, Sound, BooksOK
    <3>2. Marked(prices)[s] = q
      BY <2>1 DEF Marked
    <3>3. m \in Int
      BY <2>1, <3>1, GrossType
    <3> HIDE DEF m
    <3>4. q \in Position /\ q.direction = positions[s].direction
      BY <3>1, <3>3 DEF Position
    <3>5. q # None
      BY <3>4, NoneAssumption
    <3> QED BY <2>1, <3>2, <3>4, <3>5
  <2>2. CASE ~(positions[s] # None /\ s \in DOMAIN prices)
    BY <2>2 DEF Marked
  <2> QED BY <2>1, <2>2
<1>4. Commitments'
  BY <1>3, SameHoldingsKeep
<1> QED BY <1>1, <1>4

(* Funding keeps both.                                                     *)
LEMMA FundKeeps ==
    ASSUME Accounts, Commitments, NEW time \in Nat, NEW rate,
           DOMAIN rate \subseteq Symbols, \A s \in DOMAIN rate : rate[s] \in Int,
           ApplyFunding(time, rate), UNCHANGED pending
    PROVE  Accounts' /\ Commitments'
<1>1. Accounts'
  BY ApplyFundingSound, ApplyFundingAccounted DEF Accounts, Sound
<1>2. positions' = Funded(time, rate) /\ positions \in Books
  BY DEF ApplyFunding, Funded, Accounts, Sound, BooksOK, Books
<1>3. SameHoldings(positions', positions)
  <2> SUFFICES ASSUME NEW s \in Symbols
               PROVE  /\ Funded(time, rate)[s] = None <=> positions[s] = None
                      /\ positions[s] # None =>
                            Funded(time, rate)[s].direction = positions[s].direction
    BY <1>2 DEF SameHoldings
  <2>1. Funded(time, rate)[s] = None <=> positions[s] = None
    BY <1>2, FundedPositions
  <2>2. ASSUME positions[s] # None
        PROVE  Funded(time, rate)[s].direction = positions[s].direction
    <3>1. positions[s] \in Position
      BY <1>2, <2>2 DEF Books
    <3> DEFINE c == Charge(s, rate)
    <3>2. Funded(time, rate)[s] =
             IF s \in Payers(time, rate)
             THEN [positions[s] EXCEPT !.fundingPaid = @ + c, !.fundedUntil = time]
             ELSE positions[s]
      BY DEF Funded
    <3> HIDE DEF c
    <3> QED BY <3>1, <3>2 DEF Position
  <2> QED BY <2>1, <2>2
<1>4. Commitments'
  BY <1>3, SameHoldingsKeep
<1> QED BY <1>1, <1>4

(* A symbol that lets go of its position frees its slots.                  *)
LEMMA CloseKeeps ==
    ASSUME Accounts, Commitments, NEW s \in Symbols, NEW price \in Positive,
           NEW reason \in CloseReasons, NEW time \in Nat, NEW funding \in Int,
           ClosePosition(s, price, reason, time, funding), UNCHANGED pending
    PROVE  Accounts' /\ Commitments'
<1>1. Accounts'
  BY ClosePositionSound, ClosePositionAccounted DEF Accounts, Sound
<1>2. positions' = [positions EXCEPT ![s] = None] /\ DOMAIN positions = Symbols
  BY DEF ClosePosition, Accounts, Sound, BooksOK
<1>3. OneCommitmentPerSymbol'
  BY <1>2 DEF Commitments, OneCommitmentPerSymbol
<1>4. /\ Trades(positions') = Trades(positions) - HeldAs(positions[s]) + HeldAs(None)
      /\ Shorts(positions') = Shorts(positions) - ShortAs(positions[s]) + ShortAs(None)
  BY <1>2, CountsReplace
<1>5. Trades(positions') <= Trades(positions) /\ Shorts(positions') <= Shorts(positions)
  BY <1>4, CountsType DEF HeldAs, ShortAs
<1>6. SlotLimit'
  <2>1. Policy.maxTrades \in Int /\ Policy.shorts.maximum \in Int
    BY PolicyAssumption DEF PolicyType
  <2>2. /\ Trades(positions) \in Int /\ Shorts(positions) \in Int
        /\ Trades(positions') \in Int /\ Shorts(positions') \in Int
        /\ Trades(pending) \in Int /\ Shorts(pending) \in Int
    BY CountsType
  <2> QED BY <1>5, <2>1, <2>2 DEF Commitments, SlotLimit
<1> QED BY <1>1, <1>3, <1>6 DEF Commitments

(* A close that raises has touched neither.                                *)
LEMMA RaiseKeeps ==
    ASSUME Accounts, Commitments, NEW s \in Symbols, NEW price \in Positive,
           NEW reason \in CloseReasons, NEW time \in Nat, NEW funding \in Int,
           CloseRaises(s, price, reason, time, funding), UNCHANGED pending
    PROVE  Accounts' /\ Commitments'
<1>1. Sound' /\ UNCHANGED <<free, positions, statistics>>
  BY CloseRaisesSound DEF Accounts
<1>2. StatisticsMatchHistory'
  BY DEF CloseRaises, StatisticsMatchHistory
<1>3. Commitments'
  BY <1>1 DEF Commitments, OneCommitmentPerSymbol, SlotLimit
<1> QED BY <1>1, <1>2, <1>3 DEF Accounts

(* A cancelled order frees its slots.                                      *)
LEMMA CancelKeeps ==
    ASSUME EngineOK, Accounts, Commitments, NEW s \in Symbols,
           UNCHANGED books, CancelSetup(s)
    PROVE  Accounts' /\ Commitments'
<1>0. UNCHANGED <<free, total, positions, history, statistics, closeRaised>>
  BY DEF books
<1>1. Accounts'
  BY <1>0 DEF Accounts, Sound, BooksOK, EquityIdentity, CashConservation,
              StatisticsMatchHistory, RestoredStatistics, SumHistory
<1>2. pending' = [pending EXCEPT ![s] = None] /\ DOMAIN pending = Symbols
  BY DEF CancelSetup, OtherOrders, EngineOK
<1>3. OneCommitmentPerSymbol'
  BY <1>0, <1>2 DEF Commitments, OneCommitmentPerSymbol
<1>4. /\ Trades(pending') = Trades(pending) - HeldAs(pending[s]) + HeldAs(None)
      /\ Shorts(pending') = Shorts(pending) - ShortAs(pending[s]) + ShortAs(None)
  BY <1>2, CountsReplace
<1>5. Trades(pending') <= Trades(pending) /\ Shorts(pending') <= Shorts(pending)
  BY <1>4, CountsType DEF HeldAs, ShortAs
<1>6. SlotLimit'
  <2>1. Policy.maxTrades \in Int /\ Policy.shorts.maximum \in Int
    BY PolicyAssumption DEF PolicyType
  <2>2. /\ Trades(positions) \in Int /\ Shorts(positions) \in Int
        /\ Trades(pending') \in Int /\ Shorts(pending') \in Int
        /\ Trades(pending) \in Int /\ Shorts(pending) \in Int
    BY CountsType
  <2>3. Trades(positions') = Trades(positions) /\ Shorts(positions') = Shorts(positions)
    BY <1>0
  <2> QED BY <1>5, <2>1, <2>2, <2>3 DEF Commitments, SlotLimit
<1> QED BY <1>1, <1>3, <1>6 DEF Commitments

(* An order is registered only into free slots of an uncommitted symbol.   *)
LEMMA RegisterKeeps ==
    ASSUME EngineOK, Accounts, Commitments, NEW s \in Symbols, NEW o \in Order,
           RiskAllows(s, o, pending, peak), UNCHANGED books,
           pending' = [pending EXCEPT ![s] = o]
    PROVE  Accounts' /\ Commitments'
<1>0. UNCHANGED <<free, total, positions, history, statistics, closeRaised>>
  BY DEF books
<1>1. Accounts'
  BY <1>0 DEF Accounts, Sound, BooksOK, EquityIdentity, CashConservation,
              StatisticsMatchHistory, RestoredStatistics, SumHistory
<1>2. /\ positions[s] = None /\ pending[s] = None
      /\ Trades(positions) + Trades(pending) < Policy.maxTrades
      /\ o.direction = "BEARISH" /\ Policy.shorts.enabled =>
            Shorts(positions) + Shorts(pending) < Policy.shorts.maximum
  BY DEF RiskAllows, TradeAllowed, ShortAllowed
<1>3. DOMAIN pending = Symbols
  BY DEF EngineOK
<1>4. OneCommitmentPerSymbol'
  BY <1>0, <1>2, <1>3 DEF Commitments, OneCommitmentPerSymbol
<1>5. /\ Trades(pending') = Trades(pending) - HeldAs(pending[s]) + HeldAs(o)
      /\ Shorts(pending') = Shorts(pending) - ShortAs(pending[s]) + ShortAs(o)
  BY <1>3, CountsReplace
<1>6. /\ HeldAs(pending[s]) = 0 /\ HeldAs(o) = 1 /\ ShortAs(pending[s]) = 0
      /\ ShortAs(o) = IF o.direction = "BEARISH" THEN 1 ELSE 0
  BY <1>2, NoneIsNoOrder DEF HeldAs, ShortAs
<1>7. SlotLimit'
  <2>1. Policy.maxTrades \in Int /\ Policy.shorts.maximum \in Int
    BY PolicyAssumption DEF PolicyType
  <2>2. /\ Trades(positions) \in Int /\ Shorts(positions) \in Int
        /\ Trades(pending) \in Int /\ Shorts(pending) \in Int
    BY CountsType
  <2>3. Trades(positions') = Trades(positions) /\ Shorts(positions') = Shorts(positions)
    BY <1>0
  <2>4. Trades(positions') + Trades(pending') <= Policy.maxTrades
    BY <1>2, <1>5, <1>6, <2>1, <2>2, <2>3
  <2>5. Policy.shorts.enabled => Shorts(positions') + Shorts(pending') <= Policy.shorts.maximum
    <3>1. CASE o.direction = "BEARISH"
      BY <1>2, <1>5, <1>6, <2>1, <2>2, <2>3, <3>1
    <3>2. CASE o.direction # "BEARISH"
      <4>1. Shorts(pending') = Shorts(pending)
        BY <1>5, <1>6, <2>2, <3>2
      <4> QED BY <2>3, <4>1 DEF Commitments, SlotLimit
    <3> QED BY <3>1, <3>2
  <2> QED BY <2>4, <2>5 DEF SlotLimit
<1> QED BY <1>1, <1>4, <1>7 DEF Commitments

(* A fill moves the slots of the order to the position.                    *)
LEMMA FillKeeps ==
    ASSUME EngineOK, Accounts, Commitments, NEW s \in Symbols, NEW p \in Position,
           positions[s] = None, pending[s] # None, p.direction = pending[s].direction,
           p.unrealized = 0, p.fundingPaid = 0,
           OpenPosition(s, p), CancelSetup(s)
    PROVE  Accounts' /\ Commitments'
<1>1. Accounts'
  BY OpenPositionSound, OpenPositionAccounted DEF Accounts, Sound
<1>2. /\ pending' = [pending EXCEPT ![s] = None] /\ DOMAIN pending = Symbols
      /\ positions' = [positions EXCEPT ![s] = p] /\ DOMAIN positions = Symbols
  BY DEF CancelSetup, OtherOrders, OpenPosition, EngineOK, Accounts, Sound, BooksOK
<1>3. OneCommitmentPerSymbol'
  BY <1>2 DEF Commitments, OneCommitmentPerSymbol
<1>4. /\ Trades(pending') = Trades(pending) - HeldAs(pending[s]) + HeldAs(None)
      /\ Shorts(pending') = Shorts(pending) - ShortAs(pending[s]) + ShortAs(None)
  BY <1>2, CountsReplace
<1>5. /\ Trades(positions') = Trades(positions) - HeldAs(positions[s]) + HeldAs(p)
      /\ Shorts(positions') = Shorts(positions) - ShortAs(positions[s]) + ShortAs(p)
  BY <1>2, CountsReplace
<1>6. /\ HeldAs(pending[s]) = HeldAs(p) /\ ShortAs(pending[s]) = ShortAs(p)
      /\ HeldAs(positions[s]) = 0 /\ ShortAs(positions[s]) = 0
      /\ HeldAs(None) = 0 /\ ShortAs(None) = 0
      /\ HeldAs(p) \in Int /\ ShortAs(p) \in Int
  BY NoneAssumption DEF HeldAs, ShortAs
<1>7. /\ Trades(positions) \in Int /\ Shorts(positions) \in Int
      /\ Trades(pending) \in Int /\ Shorts(pending) \in Int
  BY CountsType
<1>8. /\ Trades(positions') + Trades(pending') = Trades(positions) + Trades(pending)
      /\ Shorts(positions') + Shorts(pending') = Shorts(positions) + Shorts(pending)
  BY <1>4, <1>5, <1>6, <1>7
<1>9. SlotLimit'
  BY <1>8 DEF Commitments, SlotLimit
<1> QED BY <1>1, <1>3, <1>9 DEF Commitments

-----------------------------------------------------------------------------
(* Types along a batch                                                     *)

(* A nonempty set of times has an earliest one.                            *)
LEMMA EarliestIsIn ==
    ASSUME NEW T, T \subseteq Nat, T # {}
    PROVE  Earliest(T) \in T /\ Earliest(T) \in Nat /\ \A u \in T : Earliest(T) <= u
<1> DEFINE R == OpToRel(<, Nat)
<1>1. IsWellFoundedOn(R, Nat)
  BY NatLessThanWellFounded
<1> HIDE DEF R
<1>2. \E t \in T : \A u \in T : ~(<<u, t>> \in R)
  BY <1>1, WFMin
<1>3. PICK t \in T : \A u \in T : ~(<<u, t>> \in R)
  BY <1>2
<1>4. ASSUME NEW u \in T PROVE t <= u
  <2>1. t \in Nat /\ u \in Nat
    OBVIOUS
  <2>2. ASSUME u < t PROVE <<u, t>> \in R
    BY <2>1, <2>2 DEF R, OpToRel
  <2>3. ~(u < t)
    BY <1>3, <2>2
  <2> QED BY <2>1, <2>3
<1> QED BY <1>4 DEF Earliest

(* A funding group is one for open positions at a time in the future.      *)
LEMMA GroupType ==
    ASSUME EngineOK, NEW horizon, Due(horizon) # {}
    PROVE  LET t == Earliest(Due(horizon))
           IN  /\ t \in Nat
               /\ DOMAIN Group(t) \subseteq Symbols
               /\ \A s \in DOMAIN Group(t) : Group(t)[s] \in Int
<1>1. Due(horizon) \subseteq Nat
  BY ExecutionAssumption DEF Due, EngineOK
<1>2. Earliest(Due(horizon)) \in Nat
  BY <1>1, EarliestIsIn
<1>3. ASSUME NEW t PROVE /\ DOMAIN Group(t) \subseteq Symbols
                         /\ \A s \in DOMAIN Group(t) : Group(t)[s] \in Int
  BY ExecutionAssumption DEF Group, EngineOK
<1> QED BY <1>2, <1>3

(* The observed peak is a natural number when the equity is.               *)
LEMMA PeakType ==
    ASSUME EngineOK, Accounts', Observed \/ UNCHANGED peak PROVE peak' \in Nat
BY DEF EngineOK, Accounts, Sound, BooksOK, Observed

(* Going on to another phase of the same batch.                            *)
LEMMA GoToKeeps ==
    ASSUME EngineOK, NEW next \in Phases, GoTo(next), phase \in Playing,
           UNCHANGED pending, peak' \in Nat
    PROVE  EngineOK'
<1>1. 1 \in Symbols
  BY SymbolsAre, PortfolioAssumption
<1> QED BY <1>1 DEF EngineOK, GoTo

(* Going on to the next symbol, or from the last one to the next phase.    *)
LEMMA AdvanceKeeps ==
    ASSUME EngineOK, Accounts', phase \in Playing, NEW next \in Phases, NEW observe,
           Advance(next, observe), enteredIntrabar' \subseteq Symbols,
           pending' \in [Symbols -> Order \cup {None}]
    PROVE  EngineOK'
<1>1. turn' \in Symbols
  BY SymbolsAre, PortfolioAssumption DEF EngineOK, Advance, Symbols
<1>2. peak' \in Nat
  BY PeakType DEF Advance
<1>3. phase' \in Phases /\ UNCHANGED <<candles, openTime, settlements>>
  BY DEF Advance, EngineOK
<1> QED BY <1>1, <1>2, <1>3 DEF EngineOK

(* One group of a settlement loop, or its failure.                         *)
LEMMA SettleKeeps ==
    ASSUME PaperInv, phase \in Playing, NEW horizon, Settle(horizon)
    PROVE  PaperInv'
<1>1. CASE SettleGroup(horizon)
  <2> DEFINE t == Earliest(Due(horizon))
  <2>1. ApplyFunding(t, Group(t)) /\ Due(horizon) # {} /\ Observed
        /\ UNCHANGED <<pending, batch>>
    BY <1>1 DEF SettleGroup
  <2>2. /\ t \in Nat /\ DOMAIN Group(t) \subseteq Symbols
        /\ \A s \in DOMAIN Group(t) : Group(t)[s] \in Int
    BY <2>1, GroupType DEF PaperInv
  <2> HIDE DEF t
  <2>3. Accounts' /\ Commitments'
    BY <2>1, <2>2, FundKeeps DEF PaperInv
  <2>4. peak' \in Nat
    BY <2>1, <2>3, PeakType DEF PaperInv
  <2>5. EngineOK'
    BY <2>1, <2>4 DEF PaperInv, EngineOK, batch
  <2> QED BY <2>3, <2>5 DEF PaperInv
<1>2. CASE SettleFails(horizon)
  <2>1. GoTo("Halted") /\ UNCHANGED <<books, pending, peak>>
    BY <1>2 DEF SettleFails
  <2>2. Accounts' /\ Commitments'
    BY <2>1, SameKeeps DEF PaperInv
  <2>3. EngineOK'
    BY <2>1, GoToKeeps DEF PaperInv, EngineOK, Phases
  <2> QED BY <2>2, <2>3 DEF PaperInv
<1> QED BY <1>1, <1>2 DEF Settle

(* The end of a settlement loop, or of any phase that changes no book.     *)
LEMMA PhaseEndKeeps ==
    ASSUME PaperInv, phase \in Playing, NEW next \in Phases, GoTo(next),
           UNCHANGED <<books, pending>>, Observed \/ UNCHANGED peak
    PROVE  PaperInv'
<1>1. Accounts' /\ Commitments'
  BY SameKeeps DEF PaperInv
<1>2. peak' \in Nat
  BY <1>1, PeakType DEF PaperInv
<1>3. EngineOK'
  BY <1>2, GoToKeeps DEF PaperInv
<1> QED BY <1>1, <1>3 DEF PaperInv

(* What the candles of a batch say about prices.                           *)
LEMMA CandlePrices ==
    ASSUME EngineOK, phase \in Playing, NEW s \in Symbols
    PROVE  candles[s].open \in Positive /\ candles[s].close \in Positive
BY DEF EngineOK, Candle

(* Exits are at a price of the candle or at a level of the position.       *)
LEMMA ExitTypes ==
    ASSUME EngineOK, phase \in Playing, NEW s \in Symbols, positions[s] \in Position,
           NEW entered
    PROVE  /\ \A x \in OpeningExit(positions[s], candles[s]) :
                 x.price \in Positive /\ x.reason \in CloseReasons
           /\ \A x \in IntrabarExit(positions[s], candles[s], entered) :
                 x.price \in Positive /\ x.reason \in CloseReasons
<1>1. candles[s].open \in Positive
  BY CandlePrices
<1>2. positions[s].stop \in Positive /\ positions[s].target \in Positive
  BY DEF Position
<1>3. \A x \in OpeningExit(positions[s], candles[s]) :
         x.price \in Positive /\ x.reason \in CloseReasons
  BY <1>1 DEF OpeningExit, Exit, CloseReasons
<1>4. \A x \in RangeExit(positions[s], candles[s], entered) :
         x.price \in Positive /\ x.reason \in CloseReasons
  BY <1>2 DEF RangeExit, Exit, CloseReasons
<1> QED BY <1>3, <1>4 DEF IntrabarExit

-----------------------------------------------------------------------------
(* The steps                                                               *)

(* One symbol's turn in a phase of exits.                                  *)
LEMMA ExitTurnKeeps ==
    ASSUME PaperInv, phase \in Playing, NEW next \in Phases, NEW observe,
           NEW exits, UNCHANGED <<pending, enteredIntrabar>>,
           positions[turn] # None =>
               \A x \in exits : x.price \in Positive /\ x.reason \in CloseReasons,
           \/ /\ positions[turn] # None
              /\ \E x \in exits : CloseAt(turn, x)
              /\ Advance(next, observe)
           \/ /\ positions[turn] # None
              /\ \E x \in exits : CloseAtRaises(turn, x)
              /\ Raise
           \/ UNCHANGED books /\ Advance(next, observe)
    PROVE  PaperInv'
<1>0. /\ pending' \in [Symbols -> Order \cup {None}]
      /\ enteredIntrabar' \subseteq Symbols
      /\ turn \in Symbols /\ openTime \in Nat
  BY DEF PaperInv, EngineOK
<1>1. ASSUME positions[turn] # None, NEW x \in exits, CloseAt(turn, x), Advance(next, observe)
      PROVE  PaperInv'
  <2>1. positions[turn].fundingPaid \in Int
    BY <1>0, <1>1 DEF PaperInv, Accounts, Sound, BooksOK, Position
  <2>2. Accounts' /\ Commitments'
    BY <1>0, <1>1, <2>1, CloseKeeps DEF CloseAt, PaperInv
  <2>3. EngineOK'
    BY <1>0, <1>1, <2>2, AdvanceKeeps DEF PaperInv
  <2> QED BY <2>2, <2>3 DEF PaperInv
<1>2. ASSUME positions[turn] # None, NEW x \in exits, CloseAtRaises(turn, x), Raise
      PROVE  PaperInv'
  <2>1. positions[turn].fundingPaid \in Int
    BY <1>0, <1>2 DEF PaperInv, Accounts, Sound, BooksOK, Position
  <2>2. Accounts' /\ Commitments'
    BY <1>0, <1>2, <2>1, RaiseKeeps DEF CloseAtRaises, PaperInv
  <2>3. EngineOK'
    BY <1>2, GoToKeeps DEF Raise, PaperInv, EngineOK, Phases
  <2> QED BY <2>2, <2>3 DEF PaperInv
<1>3. ASSUME UNCHANGED books, Advance(next, observe) PROVE PaperInv'
  <2>1. Accounts' /\ Commitments'
    BY <1>3, SameKeeps DEF PaperInv
  <2>2. EngineOK'
    BY <1>0, <1>3, <2>1, AdvanceKeeps DEF PaperInv
  <2> QED BY <2>1, <2>2 DEF PaperInv
<1> QED BY <1>1, <1>2, <1>3

(* The position an order turns into.                                       *)
LEMMA FilledPositionType ==
    ASSUME EngineOK, phase \in Playing, NEW s \in Symbols, pending[s] # None
    PROVE  /\ FilledPosition(s) \in Position
           /\ FilledPosition(s).direction = pending[s].direction
           /\ FilledPosition(s).unrealized = 0 /\ FilledPosition(s).fundingPaid = 0
<1>1. pending[s] \in Order /\ candles[s].open \in Positive /\ openTime \in Nat
  BY CandlePrices DEF EngineOK
<1> DEFINE e == FillPrice(pending[s], candles[s])
<1>2. e \in Positive
  BY <1>1 DEF FillPrice, Order
<1> HIDE DEF e
<1>3. Filled(s).entry = e
  BY <1>1 DEF Filled, Order, e
<1> QED BY <1>1, <1>2, <1>3 DEF FilledPosition, Position, Order

(* One symbol's turn in a phase of fills.                                  *)
LEMMA FillTurnKeeps ==
    ASSUME PaperInv, phase \in Playing, NEW next \in Phases, NEW observe,
           Advance(next, observe),
           \/ pending[turn] # None /\ Fill(turn)
           \/ pending[turn] # None /\ CancelAtFill(turn)
           \/ PassOver
    PROVE  PaperInv'
<1>0. turn \in Symbols
  BY DEF PaperInv, EngineOK
<1>1. CASE pending[turn] # None /\ Fill(turn)
  <2>1. OpenPosition(turn, FilledPosition(turn)) /\ CancelSetup(turn)
    BY <1>1 DEF Fill
  <2>2. positions[turn] = None
    BY <1>0, <1>1 DEF PaperInv, Commitments, OneCommitmentPerSymbol
  <2>3. Accounts' /\ Commitments'
    BY <1>0, <1>1, <2>1, <2>2, FilledPositionType, FillKeeps DEF PaperInv
  <2>4. enteredIntrabar' \subseteq Symbols
    BY <1>0, <1>1 DEF Fill, PaperInv, EngineOK
  <2>5. pending' \in [Symbols -> Order \cup {None}]
    BY <2>1 DEF CancelSetup, OtherOrders, PaperInv, EngineOK
  <2>6. EngineOK'
    BY <2>3, <2>4, <2>5, AdvanceKeeps DEF PaperInv
  <2> QED BY <2>3, <2>6 DEF PaperInv
<1>2. CASE pending[turn] # None /\ CancelAtFill(turn)
  <2>1. UNCHANGED <<books, enteredIntrabar>> /\ CancelSetup(turn)
    BY <1>2 DEF CancelAtFill
  <2>2. Accounts' /\ Commitments'
    BY <1>0, <2>1, CancelKeeps DEF PaperInv
  <2>3. pending' \in [Symbols -> Order \cup {None}] /\ enteredIntrabar' \subseteq Symbols
    BY <2>1 DEF CancelSetup, OtherOrders, PaperInv, EngineOK
  <2>4. EngineOK'
    BY <2>2, <2>3, AdvanceKeeps DEF PaperInv
  <2> QED BY <2>2, <2>4 DEF PaperInv
<1>3. CASE PassOver
  <2>1. UNCHANGED <<books, pending, enteredIntrabar>>
    BY <1>3 DEF PassOver
  <2>2. Accounts' /\ Commitments'
    BY <2>1, SameKeeps DEF PaperInv
  <2>3. EngineOK'
    BY <2>1, <2>2, AdvanceKeeps DEF PaperInv, EngineOK
  <2> QED BY <2>2, <2>3 DEF PaperInv
<1> QED BY <1>1, <1>2, <1>3

(* Marking all positions at prices of the candle.                          *)
LEMMA MarkStepKeeps ==
    ASSUME PaperInv, phase \in Playing, NEW prices,
           prices = OpenPrices \/ prices = ClosePrices,
           UpdateMarketPrices(prices), UNCHANGED pending
    PROVE  Accounts' /\ Commitments'
<1>1. \A s \in Symbols : candles[s].open \in Int /\ candles[s].close \in Int
  BY CandlePrices DEF PaperInv, Positive
<1>2. \A s \in DOMAIN prices : prices[s] \in Int
  BY <1>1 DEF OpenPrices, ClosePrices
<1> QED BY <1>2, MarkKeeps DEF PaperInv

(* Every step of a batch keeps the invariant.                              *)
LEMMA BatchStepKeeps == ASSUME PaperInv, BatchStep PROVE PaperInv'
<1>1. CASE SettlePrior
  <2>1. phase \in Playing /\ "MarkOpen" \in Phases
    BY <1>1 DEF SettlePrior, Playing, Phases
  <2> QED BY <1>1, <2>1, SettleKeeps, PhaseEndKeeps DEF SettlePrior
<1>2. CASE MarkOpen
  <2>1. phase \in Playing /\ {"SettleOpen", "Raised"} \subseteq Phases
    BY <1>2 DEF MarkOpen, Playing, Phases
  <2>2. CASE UpdateMarketPrices(OpenPrices) /\ GoTo("SettleOpen") /\ UNCHANGED <<pending, peak>>
    <3>1. Accounts' /\ Commitments'
      BY <2>1, <2>2, MarkStepKeeps
    <3>2. EngineOK'
      BY <2>1, <2>2, GoToKeeps DEF PaperInv, EngineOK
    <3> QED BY <3>1, <3>2 DEF PaperInv
  <2>3. CASE Raise /\ UNCHANGED books
    BY <2>1, <2>3, PhaseEndKeeps DEF Raise
  <2> QED BY <1>2, <2>2, <2>3 DEF MarkOpen
<1>3. CASE SettleOpen
  <2>1. phase \in Playing /\ "GapExits" \in Phases
    BY <1>3 DEF SettleOpen, Playing, Phases
  <2> QED BY <1>3, <2>1, SettleKeeps, PhaseEndKeeps DEF SettleOpen
<1>4. CASE GapExits
  <2> DEFINE exits == OpeningExit(positions[turn], candles[turn])
  <2>1. phase \in Playing /\ "OpenFills" \in Phases
    BY <1>4 DEF GapExits, ExitTurn, Playing, Phases
  <2>2. positions[turn] # None =>
           \A x \in exits : x.price \in Positive /\ x.reason \in CloseReasons
    <3>1. turn \in Symbols /\ (positions[turn] # None => positions[turn] \in Position)
      BY DEF PaperInv, EngineOK, Accounts, Sound, BooksOK
    <3> QED BY <2>1, <3>1, ExitTypes DEF PaperInv
  <2>3. /\ UNCHANGED <<pending, enteredIntrabar>>
        /\ \/ /\ positions[turn] # None
              /\ \E x \in exits : CloseAt(turn, x)
              /\ Advance("OpenFills", TRUE)
           \/ /\ positions[turn] # None
              /\ \E x \in exits : CloseAtRaises(turn, x)
              /\ Raise
           \/ UNCHANGED books /\ Advance("OpenFills", TRUE)
    BY <1>4 DEF GapExits, ExitTurn
  <2> HIDE DEF exits
  <2> QED BY <2>1, <2>2, <2>3, ExitTurnKeeps
<1>5. CASE OpenFills
  <2>1. phase \in Playing /\ "IntrabarFills" \in Phases
    BY <1>5 DEF OpenFills, FillTurn, Playing, Phases
  <2>2. /\ Advance("IntrabarFills", FALSE)
        /\ \/ pending[turn] # None /\ Fill(turn)
           \/ pending[turn] # None /\ CancelAtFill(turn)
           \/ PassOver
    BY <1>5 DEF OpenFills, FillTurn
  <2> QED BY <2>1, <2>2, FillTurnKeeps
<1>6. CASE IntrabarFills
  <2>1. phase \in Playing /\ "IntrabarExits" \in Phases
    BY <1>6 DEF IntrabarFills, FillTurn, Playing, Phases
  <2>2. /\ Advance("IntrabarExits", TRUE)
        /\ \/ pending[turn] # None /\ Fill(turn)
           \/ pending[turn] # None /\ CancelAtFill(turn)
           \/ PassOver
    BY <1>6 DEF IntrabarFills, FillTurn
  <2> QED BY <2>1, <2>2, FillTurnKeeps
<1>7. CASE IntrabarExits
  <2> DEFINE exits == IntrabarExit(positions[turn], candles[turn], turn \in enteredIntrabar)
  <2>1. phase \in Playing /\ "SettleClose" \in Phases
    BY <1>7 DEF IntrabarExits, ExitTurn, Playing, Phases
  <2>2. positions[turn] # None =>
           \A x \in exits : x.price \in Positive /\ x.reason \in CloseReasons
    <3>1. turn \in Symbols /\ (positions[turn] # None => positions[turn] \in Position)
      BY DEF PaperInv, EngineOK, Accounts, Sound, BooksOK
    <3> QED BY <2>1, <3>1, ExitTypes DEF PaperInv
  <2>3. /\ UNCHANGED <<pending, enteredIntrabar>>
        /\ \/ /\ positions[turn] # None
              /\ \E x \in exits : CloseAt(turn, x)
              /\ Advance("SettleClose", FALSE)
           \/ /\ positions[turn] # None
              /\ \E x \in exits : CloseAtRaises(turn, x)
              /\ Raise
           \/ UNCHANGED books /\ Advance("SettleClose", FALSE)
    BY <1>7 DEF IntrabarExits, ExitTurn
  <2> HIDE DEF exits
  <2> QED BY <2>1, <2>2, <2>3, ExitTurnKeeps
<1>8. CASE SettleClose
  <2>1. phase \in Playing /\ "MarkClose" \in Phases
    BY <1>8 DEF SettleClose, Playing, Phases
  <2> QED BY <1>8, <2>1, SettleKeeps, PhaseEndKeeps DEF SettleClose
<1>9. CASE MarkClose
  <2>1. phase \in Playing /\ "Idle" \in Phases /\ 1 \in Symbols
    BY <1>9, SymbolsAre, PortfolioAssumption DEF MarkClose, Playing, Phases
  <2>2. UpdateMarketPrices(ClosePrices) /\ Observed /\ UNCHANGED <<pending, openTime, settlements>>
        /\ phase' = "Idle" /\ turn' = 1 /\ enteredIntrabar' = {}
    BY <1>9 DEF MarkClose
  <2>3. Accounts' /\ Commitments'
    BY <2>1, <2>2, MarkStepKeeps
  <2>4. peak' \in Nat
    BY <2>2, <2>3, PeakType DEF PaperInv
  <2>5. "Idle" \notin Playing
    BY DEF Playing
  <2>6. EngineOK'
    BY <2>1, <2>2, <2>4, <2>5 DEF PaperInv, EngineOK
  <2> QED BY <2>3, <2>6 DEF PaperInv
<1> QED BY <1>1, <1>2, <1>3, <1>4, <1>5, <1>6, <1>7, <1>8, <1>9 DEF BatchStep

-----------------------------------------------------------------------------
(* Between batches                                                         *)

(* An engine without positions and orders satisfies the invariant.         *)
LEMMA InitKeeps == Init => PaperInv
<1> SUFFICES ASSUME Init PROVE PaperInv
  OBVIOUS
<1>1. Accounts
  BY NewBooksSound, NewBooksAccounted DEF Init, Accounts
<1>2. EngineOK
  <2>1. 1 \in Symbols /\ InitialCapital \in Nat
    BY SymbolsAre, PortfolioAssumption
  <2> QED BY <2>1 DEF Init, EngineOK, NoOrders, Phases, Playing
<1>3. \A s \in Symbols : positions[s] = None /\ pending[s] = None
  BY DEF Init, NewBooks, NoOrders
<1>4. SlotLimit
  <2>1. \A i \in 1 .. NumSymbols : /\ HeldIn(positions)[i] = 0 /\ ShortsIn(positions)[i] = 0
                                   /\ HeldIn(pending)[i] = 0 /\ ShortsIn(pending)[i] = 0
    BY <1>3, SymbolsAre DEF HeldIn, HeldAs, ShortsIn, ShortAs
  <2>2. /\ Trades(positions) = 0 /\ Trades(pending) = 0
        /\ Shorts(positions) = 0 /\ Shorts(pending) = 0
    BY <2>1, SumToNothing, CountsAreSums, SymbolsAre
  <2>3. Policy.maxTrades \in Nat /\ Policy.shorts.maximum \in Nat
    BY PolicyAssumption DEF PolicyType
  <2> QED BY <2>2, <2>3 DEF SlotLimit
<1> QED BY <1>1, <1>2, <1>3, <1>4 DEF PaperInv, Commitments, OneCommitmentPerSymbol

(* A signal registers an order only within the commitments.                *)
LEMMA ExecuteSetupKeeps ==
    ASSUME PaperInv, NEW s \in Symbols, NEW setup \in Setups, ExecuteSetup(s, setup)
    PROVE  PaperInv'
<1>1. setup \in Setup /\ openTime \in Nat
  BY ExecutionAssumption DEF PaperInv, EngineOK
<1>2. NewOrder(setup) \in Order
  BY <1>1 DEF NewOrder, Order, Setup
<1> DEFINE o == NewOrder(setup)
<1> HIDE DEF o
<1>3. /\ RiskAllows(s, o, pending, peak) /\ pending' = [pending EXCEPT ![s] = o]
      /\ UNCHANGED <<books, batch, peak>>
  BY DEF ExecuteSetup, o
<1>4. Accounts' /\ Commitments'
  BY <1>2, <1>3, RegisterKeeps DEF PaperInv, o
<1>5. EngineOK'
  BY <1>2, <1>3 DEF PaperInv, EngineOK, batch, o
<1> QED BY <1>4, <1>5 DEF PaperInv

(* A batch that begins changes nothing but its own variables.              *)
LEMMA StartBatchKeeps ==
    ASSUME PaperInv, NEW t \in Nat, NEW c \in [Symbols -> Candles], StartBatch(t, c)
    PROVE  PaperInv'
<1>1. c \in [Symbols -> Candle]
  BY ExecutionAssumption
<1>2. Accounts' /\ Commitments'
  BY SameKeeps DEF StartBatch, PaperInv
<1>3. EngineOK'
  <2>1. 1 \in Symbols /\ "SettlePrior" \in Phases
    BY SymbolsAre, PortfolioAssumption DEF Phases
  <2> QED BY <1>1, <2>1 DEF StartBatch, PaperInv, EngineOK
<1> QED BY <1>2, <1>3 DEF PaperInv

(* So does the batch of a later candle.                                    *)
LEMMA NextBatchKeeps == ASSUME PaperInv, NextBatch PROVE PaperInv'
<1>1. PICK n \in Bars, c \in [Symbols -> Candles] : StartBatch(n * BarLength, c)
  BY DEF NextBatch
<1>2. n * BarLength \in Nat
  BY ExecutionAssumption
<1> QED BY <1>1, <1>2, StartBatchKeeps

(* The invariant holds at every step of every batch: whatever the setups,  *)
(* the candles and the funding history, with batches that stop halfway at  *)
(* an exception or a funding halt.                                         *)
THEOREM PaperInvariant == Spec => []PaperInv
<1>1. ASSUME PaperInv, [Next]_vars PROVE PaperInv'
  <2>1. CASE UNCHANGED vars
    <3>1. UNCHANGED books /\ UNCHANGED <<pending, batch, peak>>
      BY <2>1 DEF vars
    <3>2. Accounts' /\ Commitments'
      BY <1>1, <3>1, SameKeeps DEF PaperInv
    <3>3. EngineOK'
      BY <1>1, <3>1 DEF PaperInv, EngineOK, batch
    <3> QED BY <3>2, <3>3 DEF PaperInv
  <2>2. CASE Next
    BY <1>1, <2>2, ExecuteSetupKeeps, NextBatchKeeps, BatchStepKeeps DEF Next
  <2> QED BY <1>1, <2>1, <2>2
<1> QED BY InitKeeps, <1>1, PTL DEF Spec

(* The engine's state has its types.                                       *)
THEOREM EngineTypeCorrect == Spec => []ExecutionOK
<1>1. PaperInv => ExecutionOK
  BY DEF PaperInv, EngineOK, Accounts, Sound, ExecutionOK
<1> QED BY <1>1, PaperInvariant, PTL

(* A symbol is never committed twice, so close_position always finds the   *)
(* one position it pays back.                                              *)
THEOREM CommittedOnce == Spec => []OneCommitmentPerSymbol
<1>1. PaperInv => OneCommitmentPerSymbol
  BY DEF PaperInv, Commitments
<1> QED BY <1>1, PaperInvariant, PTL

(* Positions and waiting orders never exceed the slots of the policy.      *)
THEOREM SlotsSuffice == Spec => []SlotLimit
<1>1. PaperInv => SlotLimit
  BY DEF PaperInv, Commitments
<1> QED BY <1>1, PaperInvariant, PTL

(* In the middle of a batch, too, equity is free cash plus the worth of    *)
(* the open positions, and no money is created or lost.                    *)
THEOREM MoneyIsAccounted == Spec => [](EquityIdentity /\ CashConservation)
<1>1. PaperInv => EquityIdentity /\ CashConservation
  BY DEF PaperInv, Accounts, Sound
<1> QED BY <1>1, PaperInvariant, PTL

(* Only the mark at the close ends a batch, and it observes the equity.    *)
LEMMA IdleAfterMarkClose ==
    ASSUME PaperInv, BatchStep, phase' = "Idle" PROVE MarkClose
<1>1. ASSUME NEW horizon, phase # "Idle", Settle(horizon) PROVE phase' # "Idle"
  BY <1>1 DEF Settle, SettleGroup, SettleFails, GoTo, batch
<1>2. ASSUME NEW exits, NEW next, NEW observe, phase # "Idle", next # "Idle",
             ExitTurn(exits, next, observe)
      PROVE  phase' # "Idle"
  BY <1>2 DEF ExitTurn, Advance, Raise, GoTo
<1>3. ASSUME NEW eligible, NEW next, NEW observe, phase # "Idle", next # "Idle",
             FillTurn(eligible, next, observe)
      PROVE  phase' # "Idle"
  BY <1>3 DEF FillTurn, Advance
<1>4. CASE SettlePrior
  BY <1>1, <1>4 DEF SettlePrior, GoTo
<1>5. CASE MarkOpen
  BY <1>5 DEF MarkOpen, Raise, GoTo
<1>6. CASE SettleOpen
  BY <1>1, <1>6 DEF SettleOpen, GoTo
<1>7. CASE GapExits
  BY <1>2, <1>7 DEF GapExits
<1>8. CASE OpenFills
  BY <1>3, <1>8 DEF OpenFills
<1>9. CASE IntrabarFills
  BY <1>3, <1>9 DEF IntrabarFills
<1>10. CASE IntrabarExits
  BY <1>2, <1>10 DEF IntrabarExits
<1>11. CASE SettleClose
  BY <1>1, <1>11 DEF SettleClose, GoTo
<1> QED BY <1>4, <1>5, <1>6, <1>7, <1>8, <1>9, <1>10, <1>11 DEF BatchStep

(* Between batches the peak is no less than the equity, although several   *)
(* steps of a batch change the equity without observing it.                *)
THEOREM SavableBetweenBatches == Spec => []SavableWhenIdle
<1>1. Init => SavableWhenIdle
  BY PortfolioAssumption DEF Init, NewBooks, SavableWhenIdle
<1>2. ASSUME PaperInv, PaperInv', SavableWhenIdle, [Next]_vars PROVE SavableWhenIdle'
  <2>1. CASE UNCHANGED vars
    BY <1>2, <2>1 DEF vars, books, batch, SavableWhenIdle
  <2>2. CASE \E s \in Symbols, setup \in Setups : ExecuteSetup(s, setup)
    BY <1>2, <2>2 DEF ExecuteSetup, books, batch, SavableWhenIdle
  <2>3. CASE NextBatch
    BY <2>3 DEF NextBatch, StartBatch, SavableWhenIdle
  <2>4. CASE BatchStep
    <3>1. CASE phase' = "Idle"
      <4>1. Observed
        BY <1>2, <2>4, <3>1, IdleAfterMarkClose DEF MarkClose
      <4>2. total' \in Nat /\ peak \in Nat
        BY <1>2 DEF PaperInv, EngineOK, Accounts, Sound, BooksOK
      <4> QED BY <4>1, <4>2 DEF Observed, SavableWhenIdle
    <3> QED BY <3>1 DEF SavableWhenIdle
  <2> QED BY <1>2, <2>1, <2>2, <2>3, <2>4 DEF Next
<1> QED BY <1>1, <1>2, PaperInvariant, PTL DEF Spec

(* The books add up in the middle of a batch too, no symbol is committed   *)
(* twice, and the state between batches can be saved.                      *)
THEOREM ExecutionStaysSound == Spec => []ExecutionSound
<1>1. ExecutionOK /\ EquityIdentity /\ CashConservation /\ OneCommitmentPerSymbol
      /\ SavableWhenIdle => ExecutionSound
  BY DEF ExecutionSound
<1> QED BY <1>1, EngineTypeCorrect, MoneyIsAccounted, CommittedOnce, SavableBetweenBatches, PTL

-----------------------------------------------------------------------------
(* Capital and risk of positions and orders together                       *)

SizeAs(q) == IF q = None THEN 0 ELSE Size(q)
RiskAs(q) == IF q = None THEN 0 ELSE MaxRisk(q)

SizesIn(book) == [s \in Symbols |-> SizeAs(book[s])]
RisksIn(book) == [s \in Symbols |-> RiskAs(book[s])]

Risk(book) == SumOver(MaxRisk, book)

\* What every position and order has of a Setup.
Sized(q) == q.entry \in Positive /\ q.quantity \in Positive /\ q.stop \in Positive

SizedBook(book) ==
    DOMAIN book = Symbols /\ \A s \in Symbols : book[s] # None => Sized(book[s])

(* The sums of the risk view.                                              *)
LEMMA ViewIsSums ==
    ASSUME NEW book
    PROVE  /\ Exposure(book) = SumTo(SizesIn(book), NumSymbols)
           /\ Risk(book) = SumTo(RisksIn(book), NumSymbols)
<1>1. Exposure(book) = SumTo(SizesIn(book), NumSymbols)
  BY DEF Exposure, SumOver, SizesIn, SizeAs
<1>2. Risk(book) = SumTo(RisksIn(book), NumSymbols)
  BY DEF Risk, SumOver, RisksIn, RiskAs
<1> QED BY <1>1, <1>2

(* Capital and risk of one order or position are integers.                 *)
LEMMA SizedType ==
    ASSUME NEW q, q # None => Sized(q) PROVE SizeAs(q) \in Int /\ RiskAs(q) \in Int
<1>1. CASE q = None
  BY <1>1 DEF SizeAs, RiskAs
<1>2. CASE q # None
  <2>1. q.entry \in Nat /\ q.quantity \in Nat /\ q.stop \in Nat /\ Unit \in Nat
    BY <1>2, PortfolioAssumption DEF Sized, Positive
  <2>2. q.quantity * q.entry \in Int
    BY <2>1
  <2>3. Unit * (q.quantity * q.entry) \in Int
    BY <2>1, <2>2
  <2> DEFINE d == IF q.entry > q.stop THEN q.entry - q.stop ELSE q.stop - q.entry
  <2>4. d \in Int
    BY <2>1
  <2> HIDE DEF d
  <2>5. q.quantity * d \in Int
    BY <2>1, <2>4
  <2>6. Unit * (q.quantity * d) \in Int
    BY <2>1, <2>5
  <2> QED BY <1>2, <2>3, <2>6 DEF SizeAs, RiskAs, Size, MaxRisk, d
<1> QED BY <1>1, <1>2

(* Capital and risk of a book are integers.                                *)
LEMMA ViewType ==
    ASSUME NEW book, SizedBook(book) PROVE Exposure(book) \in Int /\ Risk(book) \in Int
<1>1. \A i \in 1 .. NumSymbols : SizesIn(book)[i] \in Int /\ RisksIn(book)[i] \in Int
  BY SizedType, SymbolsAre DEF SizedBook, SizesIn, RisksIn
<1>2. SumTo(SizesIn(book), NumSymbols) \in Int /\ SumTo(RisksIn(book), NumSymbols) \in Int
  BY <1>1, SumToInt, SymbolsAre
<1> QED BY <1>2, ViewIsSums

(* Replacing what one symbol holds changes both by the difference.         *)
LEMMA ViewReplace ==
    ASSUME NEW book, SizedBook(book), NEW s \in Symbols, NEW q, q # None => Sized(q)
    PROVE  LET after == [book EXCEPT ![s] = q]
           IN  /\ Exposure(after) = Exposure(book) - SizeAs(book[s]) + SizeAs(q)
               /\ Risk(after) = Risk(book) - RiskAs(book[s]) + RiskAs(q)
<1> DEFINE after == [book EXCEPT ![s] = q]
<1>1. SizedBook(after)
  BY DEF SizedBook
<1>2. \A i \in Symbols : /\ i # s => after[i] = book[i]
                         /\ i = s => after[i] = q
  BY DEF SizedBook
<1> HIDE DEF after
<1>3. \A i \in 1 .. NumSymbols :
         /\ SizesIn(book)[i] \in Int /\ SizesIn(after)[i] \in Int
         /\ RisksIn(book)[i] \in Int /\ RisksIn(after)[i] \in Int
  BY <1>1, SizedType, SymbolsAre DEF SizedBook, SizesIn, RisksIn
<1>4. \A i \in 1 .. NumSymbols : i # s =>
         SizesIn(after)[i] = SizesIn(book)[i] /\ RisksIn(after)[i] = RisksIn(book)[i]
  BY <1>2, SymbolsAre DEF SizesIn, RisksIn
<1>5. /\ SizesIn(book)[s] = SizeAs(book[s]) /\ SizesIn(after)[s] = SizeAs(q)
      /\ RisksIn(book)[s] = RiskAs(book[s]) /\ RisksIn(after)[s] = RiskAs(q)
  BY <1>2 DEF SizesIn, RisksIn
<1>6. s \in 1 .. NumSymbols /\ NumSymbols \in Nat
  BY SymbolsAre
<1>7. SumTo(SizesIn(after), NumSymbols) =
         SumTo(SizesIn(book), NumSymbols) - SizesIn(book)[s] + SizesIn(after)[s]
  BY <1>3, <1>4, <1>6, SumToReplace
<1>8. SumTo(RisksIn(after), NumSymbols) =
         SumTo(RisksIn(book), NumSymbols) - RisksIn(book)[s] + RisksIn(after)[s]
  BY <1>3, <1>4, <1>6, SumToReplace
<1>9. /\ Exposure(after) = Exposure(book) - SizeAs(book[s]) + SizeAs(q)
      /\ Risk(after) = Risk(book) - RiskAs(book[s]) + RiskAs(q)
  BY <1>5, <1>7, <1>8, ViewIsSums
<1> QED BY <1>9 DEF after

(* A positive factor may be dropped from both sides of a comparison.       *)
LEMMA DropFactor ==
    ASSUME NEW x \in Int, NEW y \in Int, NEW k \in Nat \ {0}, x * k <= y * k
    PROVE  x <= y
<1> SUFFICES ASSUME y + 1 <= x PROVE FALSE
  OBVIOUS
<1>1. PICK d \in Nat : x = y + 1 + d
  <2>1. x - y - 1 \in Nat /\ x = y + 1 + (x - y - 1)
    OBVIOUS
  <2> QED BY <2>1
<1>2. x * k = y * k + k + d * k
  BY <1>1
<1>3. d * k \in Nat /\ y * k \in Int
  OBVIOUS
<1> QED BY <1>2, <1>3

(* Reached thresholds are at most the whole peak, so one is the strictest. *)
LEMMA StrictestExists ==
    ASSUME EngineOK, total \in Nat, total > 0, ReachedTiers(peak) # {}
    PROVE  StrictestReached(peak) \in Policy.tiers
<1>1. /\ CurrentPeak(peak) \in Nat /\ CurrentPeak(peak) > 0
      /\ Whole \in Nat /\ Policy.tiers \subseteq [threshold : Nat, multiplier : Fraction, halt : BOOLEAN]
  BY PolicyAssumption DEF EngineOK, CurrentPeak, PolicyType
<1>2. ASSUME NEW t \in ReachedTiers(peak)
      PROVE  t.threshold \in Nat /\ Whole - t.threshold \in Nat
  <2> DEFINE P == CurrentPeak(peak)
  <2>1. t.threshold \in Nat /\ (P - total) * Whole >= t.threshold * P
    BY <1>1 DEF ReachedTiers, DrawdownReaches
  <2> HIDE DEF P
  <2>2. P \in Nat \ {0} /\ Whole \in Nat
    BY <1>1 DEF P
  <2>3. (P - total) * Whole = Whole * P - total * Whole
    BY <2>2
  <2>4. total * Whole \in Nat /\ Whole * P \in Int /\ t.threshold * P \in Int
    BY <2>1, <2>2
  <2>5. t.threshold * P <= Whole * P
    BY <2>1, <2>3, <2>4
  <2>6. t.threshold <= Whole
    BY <2>1, <2>2, <2>5, DropFactor
  <2> QED BY <2>1, <2>2, <2>6
<1> DEFINE T == {Whole - t.threshold : t \in ReachedTiers(peak)}
<1>3. T \subseteq Nat /\ T # {}
  BY <1>2
<1>4. Earliest(T) \in T /\ \A u \in T : Earliest(T) <= u
  BY <1>3, EarliestIsIn
<1>5. PICK t \in ReachedTiers(peak) : Earliest(T) = Whole - t.threshold
  BY <1>4
<1>6. \A u \in ReachedTiers(peak) : t.threshold >= u.threshold
  <2> SUFFICES ASSUME NEW u \in ReachedTiers(peak) PROVE t.threshold >= u.threshold
    OBVIOUS
  <2>1. Whole - t.threshold <= Whole - u.threshold
    BY <1>4, <1>5
  <2>2. t.threshold \in Nat /\ u.threshold \in Nat /\ Whole \in Nat
    BY <1>1, <1>2
  <2> QED BY <2>1, <2>2
<1>7. StrictestReached(peak) \in ReachedTiers(peak)
  BY <1>6 DEF StrictestReached
<1> QED BY <1>7 DEF ReachedTiers

(* The budget of a trade is an integer.                                    *)
LEMMA BudgetType ==
    ASSUME EngineOK, total \in Nat, total > 0, NEW direction
    PROVE  Budget(direction, peak) \in Int
<1>1. /\ Whole \in Nat /\ Policy.legacyPenalty \in Fraction
      /\ Policy.shorts.multiplier \in Fraction /\ Policy.baseRisk \in Nat
      /\ \A t \in Policy.tiers : t.multiplier \in Fraction
  BY PolicyAssumption DEF PolicyType
<1>2. Penalty(peak) \in Int
  BY <1>1, StrictestExists DEF Penalty, Fraction
<1>3. ShortMultiplier(direction) \in Int
  BY <1>1 DEF ShortMultiplier, Fraction
<1>4. Penalty(peak) * ShortMultiplier(direction) \in Int
  BY <1>2, <1>3
<1>5. Policy.baseRisk * (Penalty(peak) * ShortMultiplier(direction)) \in Int
  BY <1>1, <1>4
<1> QED BY <1>5 DEF Budget

(* What an accepted risk is within.                                        *)
LEMMA RiskWithin ==
    ASSUME EngineOK, total \in Nat, free \in Nat, NEW s, NEW o, NEW reserved,
           SizedBook(positions), SizedBook(reserved), Sized(o), o # None,
           RiskAllows(s, o, reserved, peak)
    PROVE  /\ Exposure(reserved) <= free - Size(o)
           /\ (Exposure(positions) + Exposure(reserved) + Size(o)) * Whole
                 <= total * Policy.maxExposure
           /\ Policy.heat =>
                 (Risk(positions) + Risk(reserved) + MaxRisk(o)) * Whole <= total * Policy.maxHeat
<1>1. /\ Exposure(positions) \in Int /\ Exposure(reserved) \in Int
      /\ Risk(positions) \in Int /\ Risk(reserved) \in Int
      /\ Size(o) \in Int /\ MaxRisk(o) \in Int
  BY ViewType, SizedType DEF SizeAs, RiskAs
<1>2. Size(o) <= free - Exposure(reserved)
      /\ (ViewExposure(reserved) + Size(o)) * Whole <= total * Policy.maxExposure
      /\ MaxRisk(o) * (Whole * (Whole * Whole)) <= MaxBudget(o.direction, reserved, peak)
  BY DEF RiskAllows
<1>3. ASSUME Policy.heat
      PROVE  (Risk(positions) + Risk(reserved) + MaxRisk(o)) * Whole <= total * Policy.maxHeat
  <2> DEFINE H == total * Policy.maxHeat
             V == Risk(positions) + Risk(reserved)
             M == MaxRisk(o)
             B == Budget(o.direction, peak)
             R == RemainingHeat(reserved)
             k == Whole * Whole
  <2>1. Whole \in Nat /\ Whole > 0 /\ H \in Int /\ V \in Int /\ M \in Int
    BY <1>1, PolicyAssumption DEF PolicyType
  <2>2. R = (H - Whole * V) * k
    BY DEF RemainingHeat, ViewRisk, Risk
  <2>3. M * (Whole * k) <= IF R < B THEN R ELSE B
    BY <1>2, <1>3 DEF MaxBudget
  <2>4. k \in Nat \ {0}
    BY <2>1
  <2>5. B \in Int
    <3>1. total > 0
      BY DEF RiskAllows, TradeAllowed
    <3> QED BY <3>1, BudgetType
  <2> HIDE DEF H, V, M, B, R, k
  <2>6. M * (Whole * k) = (M * Whole) * k
    BY <2>1, <2>4
  <2>7. (H - Whole * V) * k \in Int
    BY <2>1, <2>4
  <2>8. (M * Whole) * k <= (H - Whole * V) * k
    <3>1. R \in Int
      BY <2>2, <2>7
    <3>2. (IF R < B THEN R ELSE B) <= R
      BY <2>5, <3>1
    <3>3. M * (Whole * k) \in Int
      BY <2>1, <2>4
    <3> DEFINE L == M * (Whole * k)
    <3> HIDE DEF L
    <3>4. L <= R
      BY <2>3, <2>5, <3>1, <3>2, <3>3 DEF L
    <3> QED BY <2>2, <2>6, <3>4 DEF L
  <2>9. M * Whole <= H - Whole * V
    BY <2>1, <2>4, <2>8, DropFactor
  <2> QED BY <2>1, <2>9 DEF H, V, M
<1>4. Exposure(reserved) <= free - Size(o)
  BY <1>1, <1>2
<1>5. (Exposure(positions) + Exposure(reserved) + Size(o)) * Whole <= total * Policy.maxExposure
  BY <1>2 DEF ViewExposure
<1> QED BY <1>3, <1>4, <1>5

-----------------------------------------------------------------------------
(* Commitments at the moment they are made                                 *)

Covered ==
    /\ Exposure(pending) <= free
    /\ ViewExposure(pending) * Whole <= total * Policy.maxExposure
    /\ Policy.heat => ViewRisk(pending) * Whole <= total * Policy.maxHeat

(* The books of the engine can be summed.                                  *)
LEMMA BooksAreSized ==
    ASSUME PaperInv
    PROVE  /\ SizedBook(positions) /\ SizedBook(pending)
           /\ free \in Nat /\ total \in Nat
BY NoneAssumption, NoneIsNoOrder
   DEF PaperInv, EngineOK, Accounts, Sound, BooksOK, SizedBook, Sized, Position, Order

(* An order that is registered is covered together with the others.        *)
LEMMA RegisterCovers ==
    ASSUME PaperInv, NEW s \in Symbols, NEW setup \in Setups, ExecuteSetup(s, setup)
    PROVE  Covered'
<1> DEFINE o == NewOrder(setup)
<1>1. o \in Order
  BY ExecutionAssumption DEF NewOrder, Order, Setup, PaperInv, EngineOK
<1>2. /\ pending[s] = None /\ RiskAllows(s, o, pending, peak)
      /\ pending' = [pending EXCEPT ![s] = o]
      /\ UNCHANGED <<free, total, positions>>
  BY DEF ExecuteSetup, books
<1> HIDE DEF o
<1>3. Sized(o) /\ o # None
  BY <1>1, NoneIsNoOrder DEF Sized, Order
<1>4. SizedBook(positions) /\ SizedBook(pending) /\ free \in Nat /\ total \in Nat
  BY BooksAreSized
<1>5. /\ Exposure(pending) <= free - Size(o)
      /\ (Exposure(positions) + Exposure(pending) + Size(o)) * Whole <= total * Policy.maxExposure
      /\ Policy.heat =>
            (Risk(positions) + Risk(pending) + MaxRisk(o)) * Whole <= total * Policy.maxHeat
  BY <1>2, <1>3, <1>4, RiskWithin DEF PaperInv
<1>6. /\ Exposure(pending') = Exposure(pending) - SizeAs(pending[s]) + SizeAs(o)
      /\ Risk(pending') = Risk(pending) - RiskAs(pending[s]) + RiskAs(o)
  BY <1>2, <1>3, <1>4, ViewReplace
<1>7. /\ Exposure(positions) \in Int /\ Exposure(pending) \in Int
      /\ Risk(positions) \in Int /\ Risk(pending) \in Int
      /\ Size(o) \in Int /\ MaxRisk(o) \in Int
  BY <1>3, <1>4, ViewType, SizedType DEF SizeAs, RiskAs
<1>8. /\ Exposure(pending') = Exposure(pending) + Size(o)
      /\ Risk(pending') = Risk(pending) + MaxRisk(o)
  BY <1>2, <1>3, <1>6, <1>7 DEF SizeAs, RiskAs
<1>9. Exposure(positions') = Exposure(positions) /\ Risk(positions') = Risk(positions)
  BY <1>2
<1>10. /\ Exposure(positions') + Exposure(pending') =
             Exposure(positions) + Exposure(pending) + Size(o)
       /\ Risk(positions') + Risk(pending') = Risk(positions) + Risk(pending) + MaxRisk(o)
  BY <1>7, <1>8, <1>9
<1>11. Exposure(pending') <= free
  BY <1>4, <1>5, <1>7, <1>8
<1> QED BY <1>2, <1>5, <1>10, <1>11 DEF Covered, ViewExposure, ViewRisk, Risk

(* A fill is covered together with the orders that still wait.             *)
LEMMA FillCovers ==
    ASSUME PaperInv, phase \in Playing, NEW s \in Symbols, pending[s] # None, Fill(s)
    PROVE  Covered'
<1> DEFINE p == FilledPosition(s)
           others == OtherOrders(s)
<1>1. /\ RiskAllows(s, Filled(s), others, peak) /\ OpenPosition(s, p)
      /\ pending' = others
  BY DEF Fill, CancelSetup
<1>2. /\ p \in Position /\ Filled(s) \in Order
      /\ p.entry = Filled(s).entry /\ p.quantity = Filled(s).quantity /\ p.stop = Filled(s).stop
  <2>1. pending[s] \in Order /\ candles[s].open \in Positive
    BY CandlePrices DEF PaperInv, EngineOK
  <2>2. FillPrice(pending[s], candles[s]) \in Positive
    BY <2>1 DEF FillPrice, Order
  <2>3. Filled(s) \in Order /\ Filled(s).quantity = pending[s].quantity
        /\ Filled(s).stop = pending[s].stop
    BY <2>1, <2>2 DEF Filled, Order
  <2>4. p \in Position
    BY FilledPositionType DEF PaperInv
  <2> QED BY <2>3, <2>4 DEF FilledPosition
<1>3. others = [pending EXCEPT ![s] = None]
  BY DEF OtherOrders
<1> HIDE DEF p, others
<1>4. positions[s] = None
  BY DEF PaperInv, Commitments, OneCommitmentPerSymbol
<1>5. Sized(p) /\ p # None /\ Sized(Filled(s)) /\ Filled(s) # None
  BY <1>2, NoneAssumption, NoneIsNoOrder DEF Sized, Position, Order
<1>6. SizedBook(positions) /\ SizedBook(pending) /\ SizedBook(others)
      /\ free \in Nat /\ total \in Nat
  BY <1>3, BooksAreSized DEF SizedBook
<1>7. /\ Exposure(others) <= free - Size(Filled(s))
      /\ (Exposure(positions) + Exposure(others) + Size(Filled(s))) * Whole
            <= total * Policy.maxExposure
      /\ Policy.heat =>
            (Risk(positions) + Risk(others) + MaxRisk(Filled(s))) * Whole
               <= total * Policy.maxHeat
  BY <1>1, <1>5, <1>6, RiskWithin DEF PaperInv
<1>8. Size(Filled(s)) = Size(p) /\ MaxRisk(Filled(s)) = MaxRisk(p)
  BY <1>2 DEF Size, MaxRisk
<1>9. free' = free - Size(p) /\ total' = total /\ positions' = [positions EXCEPT ![s] = p]
  BY <1>1 DEF OpenPosition
<1>10. /\ Exposure(positions') = Exposure(positions) - SizeAs(positions[s]) + SizeAs(p)
       /\ Risk(positions') = Risk(positions) - RiskAs(positions[s]) + RiskAs(p)
  BY <1>5, <1>6, <1>9, ViewReplace
<1>11. /\ Exposure(positions) \in Int /\ Exposure(others) \in Int
       /\ Risk(positions) \in Int /\ Risk(others) \in Int
       /\ Size(p) \in Int /\ MaxRisk(p) \in Int
  BY <1>5, <1>6, ViewType, SizedType DEF SizeAs, RiskAs
<1>12. /\ Exposure(positions') = Exposure(positions) + Size(p)
       /\ Risk(positions') = Risk(positions) + MaxRisk(p)
  BY <1>4, <1>5, <1>10, <1>11 DEF SizeAs, RiskAs
<1>13. /\ Exposure(positions') + Exposure(pending') =
             Exposure(positions) + Exposure(others) + Size(p)
       /\ Risk(positions') + Risk(pending') = Risk(positions) + Risk(others) + MaxRisk(p)
  BY <1>1, <1>11, <1>12
<1> QED BY <1>1, <1>7, <1>8, <1>9, <1>13 DEF Covered, ViewExposure, ViewRisk, Risk

\* No symbol opens a position or registers an order in this step.
NothingNew == \A s \in Symbols : ~Opens(s) /\ ~Registers(s)

(* Settling funding opens nothing and registers nothing.                   *)
LEMMA SettleIsNotNew ==
    ASSUME PaperInv, NEW horizon, Settle(horizon) PROVE NothingNew
<1>1. CASE SettleGroup(horizon)
  <2> DEFINE t == Earliest(Due(horizon))
  <2>1. ApplyFunding(t, Group(t)) /\ Due(horizon) # {} /\ UNCHANGED pending
    BY <1>1 DEF SettleGroup
  <2>2. /\ t \in Nat /\ DOMAIN Group(t) \subseteq Symbols
        /\ \A s \in DOMAIN Group(t) : Group(t)[s] \in Int
    BY <2>1, GroupType DEF PaperInv
  <2> HIDE DEF t
  <2>3. positions' = Funded(t, Group(t)) /\ positions \in Books
    BY <2>1 DEF ApplyFunding, Funded, PaperInv, Accounts, Sound, BooksOK, Books
  <2>4. \A s \in Symbols : positions'[s] = None <=> positions[s] = None
    BY <2>2, <2>3, FundedPositions
  <2> QED BY <2>1, <2>4 DEF NothingNew, Opens, Registers
<1>2. CASE SettleFails(horizon)
  BY <1>2 DEF SettleFails, books, NothingNew, Opens, Registers
<1> QED BY <1>1, <1>2 DEF Settle

(* Nor does marking.                                                       *)
LEMMA MarkIsNotNew ==
    ASSUME NEW prices, UpdateMarketPrices(prices), UNCHANGED pending PROVE NothingNew
<1>1. \A s \in Symbols : positions[s] = None => positions'[s] = None
  BY DEF UpdateMarketPrices, Marked
<1> QED BY <1>1 DEF NothingNew, Opens, Registers

(* Nor does an exit.                                                       *)
LEMMA ExitIsNotNew ==
    ASSUME PaperInv, NEW exits, UNCHANGED pending,
           \/ \E x \in exits : CloseAt(turn, x)
           \/ \E x \in exits : CloseAtRaises(turn, x)
           \/ UNCHANGED books
    PROVE  NothingNew
<1>1. DOMAIN positions = Symbols
  BY DEF PaperInv, Accounts, Sound, BooksOK
<1>2. positions' = [positions EXCEPT ![turn] = None] \/ positions' = positions
  BY DEF CloseAt, CloseAtRaises, ClosePosition, CloseRaises, books
<1> QED BY <1>1, <1>2 DEF NothingNew, Opens, Registers

(* A turn in a phase of fills leaves things covered or makes nothing new.  *)
LEMMA FillTurnCovers ==
    ASSUME PaperInv, phase \in Playing,
           \/ pending[turn] # None /\ Fill(turn)
           \/ pending[turn] # None /\ CancelAtFill(turn)
           \/ PassOver
    PROVE  Covered' \/ NothingNew
<1>1. turn \in Symbols /\ DOMAIN pending = Symbols
  BY DEF PaperInv, EngineOK
<1>2. CASE pending[turn] # None /\ Fill(turn)
  BY <1>1, <1>2, FillCovers
<1>3. CASE CancelAtFill(turn)
  BY <1>1, <1>3 DEF CancelAtFill, CancelSetup, OtherOrders, books, NothingNew, Opens, Registers
<1>4. CASE PassOver
  BY <1>4 DEF PassOver, books, NothingNew, Opens, Registers
<1> QED BY <1>2, <1>3, <1>4

(* Whatever order is registered or filled, and at whatever price: the      *)
(* orders that still wait are covered by free cash, and exposure and heat  *)
(* of positions and orders together are within the policy.                 *)
THEOREM CommitmentsAreCovered == Spec => CommitmentsCovered
<1>1. PaperInv /\ [Next]_vars =>
         [(\E s \in Symbols : Opens(s) \/ Registers(s)) =>
             /\ (Exposure(pending) <= free)'
             /\ (ViewExposure(pending) * Whole <= total * Policy.maxExposure)'
             /\ Policy.heat => (ViewRisk(pending) * Whole <= total * Policy.maxHeat)']_vars
  <2> SUFFICES ASSUME PaperInv, Next PROVE Covered' \/ NothingNew
    BY DEF Covered, NothingNew
  <2>1. CASE \E s \in Symbols, setup \in Setups : ExecuteSetup(s, setup)
    BY <2>1, RegisterCovers
  <2>2. CASE NextBatch
    BY <2>2 DEF NextBatch, StartBatch, books, NothingNew, Opens, Registers
  <2>3. CASE SettlePrior \/ SettleOpen \/ SettleClose
    <3>1. (\E horizon : Settle(horizon)) \/ UNCHANGED <<books, pending>>
      BY <2>3 DEF SettlePrior, SettleOpen, SettleClose
    <3>2. CASE UNCHANGED <<books, pending>>
      BY <3>2 DEF books, NothingNew, Opens, Registers
    <3> QED BY <3>1, <3>2, SettleIsNotNew
  <2>4. CASE MarkOpen \/ MarkClose
    <3>1. /\ UNCHANGED pending
          /\ (\E prices : UpdateMarketPrices(prices)) \/ UNCHANGED books
      BY <2>4 DEF MarkOpen, MarkClose, Raise
    <3>2. CASE UNCHANGED books
      BY <3>1, <3>2 DEF books, NothingNew, Opens, Registers
    <3> QED BY <3>1, <3>2, MarkIsNotNew
  <2>5. CASE GapExits \/ IntrabarExits
    <3>1. /\ UNCHANGED pending
          /\ \E exits : \/ \E x \in exits : CloseAt(turn, x)
                        \/ \E x \in exits : CloseAtRaises(turn, x)
                        \/ UNCHANGED books
      BY <2>5 DEF GapExits, IntrabarExits, ExitTurn
    <3> QED BY <3>1, ExitIsNotNew
  <2>6. CASE OpenFills \/ IntrabarFills
    <3>1. /\ phase \in Playing
          /\ \/ pending[turn] # None /\ Fill(turn)
             \/ pending[turn] # None /\ CancelAtFill(turn)
             \/ PassOver
      BY <2>6 DEF OpenFills, IntrabarFills, FillTurn, Playing, Phases
    <3> QED BY <3>1, FillTurnCovers
  <2> QED BY <2>1, <2>2, <2>3, <2>4, <2>5, <2>6 DEF Next, BatchStep
<1> QED BY <1>1, PaperInvariant, PTL DEF Spec, CommitmentsCovered

-----------------------------------------------------------------------------
(* What one candle does: every order that it reached and every stop that   *)
(* it touched is dealt with, capital goes to the orders in the fixed       *)
(* order, no price is taken that the candle does not prove, and every      *)
(* settlement is paid exactly once.                                        *)
(*                                                                         *)
(* A batch goes through the symbols once in each phase, so most of the     *)
(* invariants say what holds already of the symbols before the turn, and   *)
(* of all of them in the later phases.                                     *)

\* The phases before the waiting orders are looked at.
Early == {"SettlePrior", "MarkOpen", "SettleOpen", "GapExits"}

-----------------------------------------------------------------------------
(* The shapes of a step                                                    *)

\* Two positions, or none, on the same terms: marks and funding may differ.
SameTerms(q, p) ==
    /\ q = None <=> p = None
    /\ p # None => /\ q.direction = p.direction /\ q.entry = p.entry
                   /\ q.quantity = p.quantity
                   /\ q.stop = p.stop /\ q.target = p.target
                   /\ q.openedAt = p.openedAt /\ q.signalTime = p.signalTime

SamePositions == \A s \in Symbols : SameTerms(positions'[s], positions[s])

\* Orders, positions and trades are what they were.
Quiet == SamePositions /\ UNCHANGED <<pending, history>>

\* A group of settlements is paid, or nothing happens at all.
StaysInPhase == Quiet /\ UNCHANGED batch

\* A phase without turns ends, or the batch stops.
EndsPhase ==
    /\ Quiet
    /\ phase \in Playing
    /\ UNCHANGED <<candles, openTime, enteredIntrabar, settlements>>
    /\ \/ phase' \in {"Halted", "Raised"}
       \/ phase = "SettlePrior" /\ phase' = "MarkOpen"
       \/ phase = "MarkOpen" /\ phase' = "SettleOpen"
       \/ phase = "SettleOpen" /\ phase' = "GapExits"
       \/ phase = "SettleClose" /\ phase' = "MarkClose"

EndsBatch ==
    /\ Quiet
    /\ phase = "MarkClose"
    /\ phase' = "Idle"
    /\ UNCHANGED <<openTime, settlements>>

RegistersOrder ==
    /\ phase = "Idle"
    /\ UNCHANGED <<positions, history, batch>>
    /\ \E s \in Symbols, setup \in Setups :
           pending[s] = None /\ pending' = [pending EXCEPT ![s] = NewOrder(setup)]

StartsBatch ==
    /\ phase = "Idle"
    /\ phase' = "SettlePrior"
    /\ UNCHANGED <<positions, history, pending, settlements>>
    /\ openTime' \in Nat /\ openTime' > openTime
    /\ candles' \in [Symbols -> Candles]
    /\ enteredIntrabar' = {}
    /\ \A s \in Symbols : positions[s] # None => positions[s].fundedUntil <= openTime'

(* Equal positions are on the same terms.                                  *)
LEMMA UnchangedIsSame == ASSUME UNCHANGED positions PROVE SamePositions
BY DEF SamePositions, SameTerms

(* Marks do not touch the terms of a position, nor its funding.            *)
LEMMA MarkIsSame ==
    ASSUME PaperInv, NEW prices, \A s \in DOMAIN prices : prices[s] \in Int,
           UpdateMarketPrices(prices)
    PROVE  /\ SamePositions /\ UNCHANGED history
           /\ \A s \in Symbols : positions[s] # None =>
                 /\ positions'[s].fundingPaid = positions[s].fundingPaid
                 /\ positions'[s].fundedUntil = positions[s].fundedUntil
<1> SUFFICES ASSUME NEW s \in Symbols
             PROVE  /\ SameTerms(positions'[s], positions[s])
                    /\ positions[s] # None =>
                          /\ positions'[s].fundingPaid = positions[s].fundingPaid
                          /\ positions'[s].fundedUntil = positions[s].fundedUntil
  BY DEF SamePositions, UpdateMarketPrices
<1>1. positions'[s] = IF positions[s] # None /\ s \in DOMAIN prices
                      THEN [positions[s] EXCEPT !.unrealized = Gross(positions[s], prices[s])]
                      ELSE positions[s]
  BY DEF UpdateMarketPrices, Marked
<1>2. CASE positions[s] # None /\ s \in DOMAIN prices
  <2> DEFINE m == Gross(positions[s], prices[s])
             q == [positions[s] EXCEPT !.unrealized = m]
  <2>1. positions[s] \in Position
    BY <1>2 DEF PaperInv, Accounts, Sound, BooksOK
  <2>2. m \in Int
    BY <1>2, <2>1, GrossType
  <2> HIDE DEF m
  <2>3. q \in Position
    BY <2>1, <2>2 DEF Position
  <2>4. q # None
    BY <2>3, NoneAssumption
  <2>5. positions'[s] = q
    BY <1>1, <1>2 DEF m
  <2> QED BY <1>2, <2>1, <2>4, <2>5 DEF SameTerms, Position
<1>3. CASE ~(positions[s] # None /\ s \in DOMAIN prices)
  BY <1>1, <1>3 DEF SameTerms
<1> QED BY <1>2, <1>3

(* Paying a group touches no terms; its payers are those of the group, and *)
(* their cursors move to its time.                                         *)
LEMMA FundIsSame ==
    ASSUME PaperInv, NEW time \in Nat, NEW rate,
           DOMAIN rate \subseteq Symbols, \A s \in DOMAIN rate : rate[s] \in Int,
           ApplyFunding(time, rate)
    PROVE  /\ SamePositions /\ UNCHANGED history
           /\ \A s \in Symbols : positions[s] # None =>
                 /\ s \in Payers(time, rate) =>
                       /\ positions'[s].fundingPaid = positions[s].fundingPaid + Charge(s, rate)
                       /\ positions'[s].fundedUntil = time
                 /\ s \notin Payers(time, rate) => positions'[s] = positions[s]
<1>0. positions \in Books /\ positions' = Funded(time, rate)
  BY DEF PaperInv, Accounts, Sound, BooksOK, Books, ApplyFunding, Funded
<1> SUFFICES ASSUME NEW s \in Symbols
             PROVE  /\ SameTerms(positions'[s], positions[s])
                    /\ positions[s] # None =>
                          /\ s \in Payers(time, rate) =>
                                /\ positions'[s].fundingPaid =
                                      positions[s].fundingPaid + Charge(s, rate)
                                /\ positions'[s].fundedUntil = time
                          /\ s \notin Payers(time, rate) => positions'[s] = positions[s]
  BY DEF SamePositions, ApplyFunding
<1>1. positions'[s] = None <=> positions[s] = None
  BY <1>0, FundedPositions
<1>2. CASE s \in Payers(time, rate)
  <2> DEFINE c == Charge(s, rate)
  <2>1. positions[s] \in Position
    BY <1>0, <1>2 DEF Payers, Books
  <2>2. positions'[s] = [positions[s] EXCEPT !.fundingPaid = @ + c, !.fundedUntil = time]
    BY <1>0, <1>2 DEF Funded
  <2> HIDE DEF c
  <2>3. /\ positions'[s].fundingPaid = positions[s].fundingPaid + c
        /\ positions'[s].fundedUntil = time
        /\ SameTerms(positions'[s], positions[s])
    BY <1>1, <2>1, <2>2 DEF SameTerms, Position
  <2> QED BY <1>2, <2>3 DEF c
<1>3. CASE s \notin Payers(time, rate)
  BY <1>0, <1>3 DEF Funded, SameTerms
<1> QED BY <1>2, <1>3

(* A settlement loop stays in its phase or halts the engine.               *)
LEMMA SettleShape ==
    ASSUME PaperInv, phase \in Playing, NEW horizon, Settle(horizon)
    PROVE  StaysInPhase \/ EndsPhase
<1>1. CASE SettleGroup(horizon)
  <2> DEFINE t == Earliest(Due(horizon))
  <2>1. ApplyFunding(t, Group(t)) /\ Due(horizon) # {} /\ UNCHANGED <<pending, batch>>
    BY <1>1 DEF SettleGroup
  <2>2. /\ t \in Nat /\ DOMAIN Group(t) \subseteq Symbols
        /\ \A s \in DOMAIN Group(t) : Group(t)[s] \in Int
    BY <2>1, GroupType DEF PaperInv
  <2> HIDE DEF t
  <2> QED BY <2>1, <2>2, FundIsSame DEF StaysInPhase, Quiet
<1>2. CASE SettleFails(horizon)
  BY <1>2, UnchangedIsSame DEF SettleFails, GoTo, books, EndsPhase, Quiet
<1> QED BY <1>1, <1>2 DEF Settle

(* The prices that a batch marks at are integers.                          *)
LEMMA MarkPrices ==
    ASSUME PaperInv, phase \in Playing, NEW prices, prices = OpenPrices \/ prices = ClosePrices
    PROVE  \A s \in DOMAIN prices : prices[s] \in Int
<1>1. \A s \in Symbols : candles[s].open \in Int /\ candles[s].close \in Int
  BY CandlePrices DEF PaperInv, Positive
<1> QED BY <1>1 DEF OpenPrices, ClosePrices

(* Every step has one of these shapes.                                     *)
LEMMA StepShapes ==
    ASSUME PaperInv, [Next]_vars
    PROVE  \/ StaysInPhase \/ EndsPhase \/ EndsBatch \/ RegistersOrder \/ StartsBatch
           \/ GapExits \/ OpenFills \/ IntrabarFills \/ IntrabarExits
<1>1. CASE UNCHANGED vars
  BY <1>1, UnchangedIsSame DEF vars, books, StaysInPhase, Quiet
<1>2. CASE \E s \in Symbols, setup \in Setups : ExecuteSetup(s, setup)
  BY <1>2 DEF ExecuteSetup, RegistersOrder, books
<1>3. CASE NextBatch
  <2>1. PICK n \in Bars, c \in [Symbols -> Candles] :
           n * BarLength > openTime /\ StartBatch(n * BarLength, c)
    BY <1>3 DEF NextBatch
  <2>2. n * BarLength \in Nat
    BY ExecutionAssumption
  <2> QED BY <2>1, <2>2 DEF StartBatch, StartsBatch, books
<1>4. CASE SettlePrior
  <2>1. phase \in Playing
    BY <1>4 DEF SettlePrior, Playing, Phases
  <2>2. CASE Settle(openTime - 1)
    BY <2>1, <2>2, SettleShape
  <2>3. CASE GoTo("MarkOpen") /\ UNCHANGED <<books, pending, peak>>
    BY <1>4, <2>1, <2>3, UnchangedIsSame DEF SettlePrior, GoTo, books, EndsPhase, Quiet
  <2> QED BY <1>4, <2>2, <2>3 DEF SettlePrior
<1>5. CASE MarkOpen
  <2>1. phase \in Playing
    BY <1>5 DEF MarkOpen, Playing, Phases
  <2>2. CASE UpdateMarketPrices(OpenPrices) /\ GoTo("SettleOpen") /\ UNCHANGED <<pending, peak>>
    BY <1>5, <2>1, <2>2, MarkIsSame, MarkPrices DEF MarkOpen, GoTo, EndsPhase, Quiet
  <2>3. CASE Raise /\ UNCHANGED books
    BY <2>1, <2>3, UnchangedIsSame DEF Raise, GoTo, books, EndsPhase, Quiet
  <2> QED BY <1>5, <2>2, <2>3 DEF MarkOpen
<1>6. CASE SettleOpen
  <2>1. phase \in Playing
    BY <1>6 DEF SettleOpen, Playing, Phases
  <2>2. CASE Settle(openTime)
    BY <2>1, <2>2, SettleShape
  <2>3. CASE UNCHANGED <<books, pending>> /\ GoTo("GapExits")
    BY <1>6, <2>1, <2>3, UnchangedIsSame DEF SettleOpen, GoTo, books, EndsPhase, Quiet
  <2> QED BY <1>6, <2>2, <2>3 DEF SettleOpen
<1>7. CASE SettleClose
  <2>1. phase \in Playing
    BY <1>7 DEF SettleClose, Playing, Phases
  <2>2. CASE Settle(closeTime)
    BY <2>1, <2>2, SettleShape
  <2>3. CASE GoTo("MarkClose") /\ UNCHANGED <<books, pending, peak>>
    BY <1>7, <2>1, <2>3, UnchangedIsSame DEF SettleClose, GoTo, books, EndsPhase, Quiet
  <2> QED BY <1>7, <2>2, <2>3 DEF SettleClose
<1>8. CASE MarkClose
  <2>1. phase \in Playing
    BY <1>8 DEF MarkClose, Playing, Phases
  <2> QED BY <1>8, <2>1, MarkIsSame, MarkPrices DEF MarkClose, EndsBatch, Quiet
<1> QED BY <1>1, <1>2, <1>3, <1>4, <1>5, <1>6, <1>7, <1>8 DEF Next, BatchStep

\* The loop goes on to the next symbol, or from the last one to the next phase.
Advances(next) ==
    IF turn < NumSymbols
    THEN turn' = turn + 1 /\ phase' = phase
    ELSE turn' = 1 /\ phase' = next

\* The record of the position whose turn it is, if it leaves by exit x.
Record(x) == Closed(turn, x.price, x.reason, openTime, positions[turn].fundingPaid)

ExitShape(exits, next) ==
    /\ UNCHANGED <<pending, enteredIntrabar, candles, openTime, settlements>>
    /\ \/ /\ positions[turn] # None
          /\ \E x \in exits : history' = Append(history, Record(x))
          /\ positions' = [positions EXCEPT ![turn] = None]
          /\ Advances(next)
       \/ /\ positions[turn] # None
          /\ \E x \in exits : history' = Append(history, Record(x))
          /\ UNCHANGED positions
          /\ phase' = "Raised"
       \/ /\ positions[turn] # None => exits = {}
          /\ UNCHANGED <<positions, history>>
          /\ Advances(next)

FillShape(eligible, next) ==
    /\ UNCHANGED <<history, candles, openTime, settlements>>
    /\ Advances(next)
    /\ \/ /\ pending[turn] # None /\ eligible /\ positions[turn] = None
          /\ positions' = [positions EXCEPT ![turn] = FilledPosition(turn)]
          /\ pending' = [pending EXCEPT ![turn] = None]
          /\ enteredIntrabar' = IF FillsAtOpen(turn) THEN enteredIntrabar
                                ELSE enteredIntrabar \cup {turn}
       \/ /\ pending[turn] # None /\ eligible
          /\ pending' = [pending EXCEPT ![turn] = None]
          /\ UNCHANGED <<positions, enteredIntrabar>>
       \/ /\ pending[turn] # None => ~eligible
          /\ UNCHANGED <<positions, pending, enteredIntrabar>>

(* The turn of a symbol in the loops over positions.                       *)
LEMMA ExitTurnShape ==
    ASSUME PaperInv, NEW exits, NEW next, NEW observe, ExitTurn(exits, next, observe)
    PROVE  ExitShape(exits, next)
<1>1. CASE /\ positions[turn] # None
           /\ \E x \in exits : CloseAt(turn, x)
           /\ Advance(next, observe)
  <2>1. PICK x \in exits : CloseAt(turn, x)
    BY <1>1
  <2>2. history' = Append(history, Record(x)) /\ positions' = [positions EXCEPT ![turn] = None]
    BY <2>1 DEF CloseAt, ClosePosition, Record
  <2>3. Advances(next) /\ UNCHANGED <<candles, openTime, settlements>>
    BY <1>1 DEF Advance, Advances
  <2> QED BY <1>1, <2>2, <2>3 DEF ExitTurn, ExitShape
<1>2. CASE /\ positions[turn] # None
           /\ \E x \in exits : CloseAtRaises(turn, x)
           /\ Raise
  <2>1. PICK x \in exits : CloseAtRaises(turn, x)
    BY <1>2
  <2>2. history' = Append(history, Record(x)) /\ UNCHANGED positions
    BY <2>1 DEF CloseAtRaises, CloseRaises, Record
  <2>3. phase' = "Raised" /\ UNCHANGED <<candles, openTime, settlements>>
    BY <1>2 DEF Raise, GoTo
  <2> QED BY <1>2, <2>2, <2>3 DEF ExitTurn, ExitShape
<1>3. CASE /\ positions[turn] # None => exits = {}
           /\ UNCHANGED books
           /\ Advance(next, observe)
  BY <1>3 DEF ExitTurn, ExitShape, Advance, Advances, books
<1> QED BY <1>1, <1>2, <1>3 DEF ExitTurn

(* The turn of a symbol in the loops over the waiting orders.              *)
LEMMA FillTurnShape ==
    ASSUME PaperInv, NEW eligible, NEW next, NEW observe, FillTurn(eligible, next, observe)
    PROVE  FillShape(eligible, next)
<1>0. turn \in Symbols
  BY DEF PaperInv, EngineOK
<1>1. Advances(next) /\ UNCHANGED <<candles, openTime, settlements>>
  BY DEF FillTurn, Advance, Advances
<1>2. CASE pending[turn] # None /\ eligible /\ Fill(turn)
  <2>1. positions[turn] = None
    BY <1>0, <1>2 DEF PaperInv, Commitments, OneCommitmentPerSymbol
  <2> QED BY <1>1, <1>2, <2>1
      DEF Fill, OpenPosition, CancelSetup, OtherOrders, FillsAtOpen, FillShape
<1>3. CASE pending[turn] # None /\ eligible /\ CancelAtFill(turn)
  BY <1>1, <1>3 DEF CancelAtFill, CancelSetup, OtherOrders, books, FillShape
<1>4. CASE (pending[turn] # None => ~eligible) /\ PassOver
  BY <1>1, <1>4 DEF PassOver, books, FillShape
<1> QED BY <1>2, <1>3, <1>4 DEF FillTurn

(* Whatever has had its turn after the step had it before, or in it.       *)
LEMMA TurnsPassed ==
    ASSUME PaperInv, NEW next, next # phase, Advances(next)
    PROVE  \/ phase' = phase /\ \A s \in Symbols : s < turn' => s < turn \/ s = turn
           \/ phase' = next /\ \A s \in Symbols : s < turn \/ s = turn
BY SymbolsAre DEF Advances, PaperInv, EngineOK, Symbols

-----------------------------------------------------------------------------
(* The inductive invariants                                                *)

\* The candles of a batch are among those assumed possible.
RealCandles == phase \in Playing => candles \in [Symbols -> Candles]

\* An order has its levels the right way around; a short position that was
\* filled at a better price still has its stop below twice its entry.
Levelled ==
    /\ \A s \in Symbols : pending[s] # None => WellFormed(pending[s])
    /\ \A s \in Symbols : positions[s] # None /\ positions[s].direction = "BEARISH" =>
           positions[s].stop < 2 * positions[s].entry

\* The orders that have been looked at and still wait are not for this candle.
OrdersDecided ==
    /\ phase = "OpenFills" =>
          \A s \in Symbols : s < turn /\ pending[s] # None => ~FillsAtOpen(s)
    /\ phase \in {"IntrabarFills", "IntrabarExits", "SettleClose", "MarkClose"} =>
          \A s \in Symbols : pending[s] # None => ~FillsAtOpen(s)
    /\ phase = "IntrabarFills" =>
          \A s \in Symbols : s < turn /\ pending[s] # None => ~FillsInside(s)
    /\ phase \in {"IntrabarExits", "SettleClose", "MarkClose"} =>
          \A s \in Symbols : pending[s] # None => ~FillsInside(s)

\* A position that was entered inside the candle has the levels of its order,
\* and its entry at a price of the candle.
EnteredInside ==
    /\ phase \in Early \cup {"OpenFills"} => enteredIntrabar = {}
    /\ phase \in Playing =>
          \A s \in enteredIntrabar : positions[s] # None =>
              WellFormed(positions[s]) /\ Within(positions[s].entry, candles[s])

Unstopped(s) ==
    ~NoBetter(positions[s].direction, Worst(positions[s].direction, candles[s]), positions[s].stop)

\* The positions that have been looked at and are still open were not stopped.
StopsLookedAt ==
    /\ phase = "IntrabarExits" =>
          \A s \in Symbols : s < turn /\ positions[s] # None => Unstopped(s)
    /\ phase \in {"SettleClose", "MarkClose"} =>
          \A s \in Symbols : positions[s] # None => Unstopped(s)

\* Until the intrabar exits, whatever left in this candle left at its open.
ProceedsAtOpen ==
    /\ \A i \in 1 .. Len(history) : history[i].exitTime <= openTime
    /\ phase \in Early \cup {"OpenFills", "IntrabarFills"} =>
          \A i \in 1 .. Len(history) :
              history[i].exitTime = openTime =>
                  history[i].exit = candles[history[i].symbol].open

CandleInv ==
    RealCandles /\ Levelled /\ OrdersDecided /\ EnteredInside /\ StopsLookedAt /\ ProceedsAtOpen

(* The turns, phase by phase.                                              *)
LEMMA TurnShapes ==
    ASSUME PaperInv
    PROVE  /\ GapExits => /\ phase = "GapExits"
                          /\ ExitShape(OpeningExit(positions[turn], candles[turn]), "OpenFills")
           /\ IntrabarExits =>
                 /\ phase = "IntrabarExits"
                 /\ ExitShape(IntrabarExit(positions[turn], candles[turn], turn \in enteredIntrabar),
                              "SettleClose")
           /\ OpenFills => phase = "OpenFills" /\ FillShape(FillsAtOpen(turn), "IntrabarFills")
           /\ IntrabarFills =>
                 phase = "IntrabarFills" /\ FillShape(FillsInside(turn), "IntrabarExits")
BY ExitTurnShape, FillTurnShape DEF GapExits, IntrabarExits, OpenFills, IntrabarFills

(* The candles stay those of the batch.                                    *)
LEMMA RealCandlesKept ==
    ASSUME PaperInv, RealCandles, [Next]_vars PROVE RealCandles'
<1>1. CASE GapExits \/ IntrabarExits
  BY <1>1, TurnShapes DEF ExitShape, RealCandles, Playing, Phases
<1>2. CASE OpenFills \/ IntrabarFills
  BY <1>2, TurnShapes DEF FillShape, RealCandles, Playing, Phases
<1>3. CASE StaysInPhase
  BY <1>3 DEF StaysInPhase, batch, RealCandles
<1>4. CASE EndsPhase
  BY <1>4 DEF EndsPhase, RealCandles
<1>5. CASE EndsBatch \/ RegistersOrder
  BY <1>5 DEF EndsBatch, RegistersOrder, batch, RealCandles, Playing
<1>6. CASE StartsBatch
  BY <1>6 DEF StartsBatch, RealCandles
<1> QED BY <1>1, <1>2, <1>3, <1>4, <1>5, <1>6, StepShapes

(* The position that an order becomes, next to the order.                  *)
LEMMA FilledLevels ==
    ASSUME PaperInv, phase \in Playing, pending[turn] # None, WellFormed(pending[turn])
    PROVE  LET o == pending[turn]
               p == FilledPosition(turn)
           IN  /\ o \in Order /\ p \in Position
               /\ p.direction = o.direction /\ p.stop = o.stop /\ p.target = o.target
               /\ p.entry = IF FillsAtOpen(turn) THEN candles[turn].open ELSE o.entry
               /\ p.openedAt = openTime /\ p.fundedUntil = openTime /\ p.fundingPaid = 0
               /\ p.direction = "BEARISH" => p.stop < 2 * p.entry
<1>1. turn \in Symbols
  BY DEF PaperInv, EngineOK
<1>2. pending[turn] \in Order /\ candles[turn].open \in Positive
  BY <1>1, CandlePrices DEF PaperInv, EngineOK
<1>3. FilledPosition(turn) \in Position
  BY <1>1, FilledPositionType DEF PaperInv
<1>4. FilledPosition(turn).entry = IF FillsAtOpen(turn) THEN candles[turn].open
                                   ELSE pending[turn].entry
  BY <1>2 DEF FilledPosition, Filled, FillPrice, FillsAtOpen, Order
<1>5. FilledPosition(turn).direction = "BEARISH" =>
         FilledPosition(turn).stop < 2 * FilledPosition(turn).entry
  <2> SUFFICES ASSUME pending[turn].direction = "BEARISH"
               PROVE  pending[turn].stop < 2 * FilledPosition(turn).entry
    BY DEF FilledPosition
  <2>1. pending[turn].stop < 2 * pending[turn].entry
    BY DEF WellFormed
  <2>2. FillsAtOpen(turn) => candles[turn].open >= pending[turn].entry
    BY DEF FillsAtOpen, AtOpen, NoBetter
  <2>3. pending[turn].stop \in Nat /\ pending[turn].entry \in Nat /\ candles[turn].open \in Nat
    BY <1>2 DEF Order, Positive
  <2> QED BY <1>4, <2>1, <2>2, <2>3
<1> QED BY <1>2, <1>3, <1>4, <1>5 DEF FilledPosition

(* The levels stay the right way around.                                   *)
LEMMA LevelledKept ==
    ASSUME PaperInv, Levelled, [Next]_vars PROVE Levelled'
<1>0. DOMAIN positions = Symbols /\ DOMAIN pending = Symbols /\ turn \in Symbols
  BY DEF PaperInv, EngineOK, Accounts, Sound, BooksOK
<1>1. ASSUME Quiet PROVE Levelled'
  BY <1>1 DEF Quiet, SamePositions, SameTerms, Levelled
<1>2. ASSUME NEW exits, NEW next, ExitShape(exits, next) PROVE Levelled'
  BY <1>0, <1>2 DEF ExitShape, Levelled
<1>3. ASSUME NEW eligible, NEW next, phase \in Playing, FillShape(eligible, next)
      PROVE  Levelled'
  <2>1. /\ pending[turn] # None => WellFormed(pending[turn])
        /\ \A s \in Symbols : pending'[s] = pending[s] \/ pending'[s] = None
    BY <1>0, <1>3 DEF FillShape, Levelled
  <2>2. \A s \in Symbols : pending'[s] # None => WellFormed(pending'[s])
    BY <2>1 DEF Levelled
  <2>3. pending[turn] # None /\ FilledPosition(turn).direction = "BEARISH" =>
           FilledPosition(turn).stop < 2 * FilledPosition(turn).entry
    BY <1>3, <2>1, FilledLevels
  <2>4. \A s \in Symbols : \/ positions'[s] = positions[s]
                           \/ /\ s = turn /\ pending[turn] # None
                              /\ positions'[s] = FilledPosition(turn)
    BY <1>0, <1>3 DEF FillShape
  <2> QED BY <2>2, <2>3, <2>4 DEF Levelled
<1>4. ASSUME RegistersOrder PROVE Levelled'
  <2>1. PICK r \in Symbols, setup \in Setups : pending' = [pending EXCEPT ![r] = NewOrder(setup)]
    BY <1>4 DEF RegistersOrder
  <2>2. WellFormed(NewOrder(setup))
    BY ExecutionAssumption DEF WellFormed, NewOrder
  <2> QED BY <1>0, <1>4, <2>1, <2>2 DEF RegistersOrder, Levelled
<1>5. CASE GapExits \/ IntrabarExits
  BY <1>2, <1>5, TurnShapes
<1>6. CASE OpenFills \/ IntrabarFills
  BY <1>3, <1>6, TurnShapes DEF Playing, Phases
<1>7. CASE StaysInPhase \/ EndsPhase \/ EndsBatch
  BY <1>1, <1>7 DEF StaysInPhase, EndsPhase, EndsBatch
<1>8. CASE StartsBatch
  BY <1>8 DEF StartsBatch, Levelled
<1> QED BY <1>4, <1>5, <1>6, <1>7, <1>8, StepShapes

(* Orders that have been decided stay decided.                             *)
LEMMA OrdersDecidedKept ==
    ASSUME PaperInv, OrdersDecided, [Next]_vars PROVE OrdersDecided'
<1>0. DOMAIN pending = Symbols /\ turn \in Symbols
  BY DEF PaperInv, EngineOK
<1>1. ASSUME NEW eligible, NEW next, next # phase, FillShape(eligible, next)
      PROVE  /\ UNCHANGED candles
             /\ \A s \in Symbols : pending'[s] # None =>
                   pending'[s] = pending[s] /\ (s = turn => ~eligible)
             /\ \/ phase' = phase /\ \A s \in Symbols : s < turn' => s < turn \/ s = turn
                \/ phase' = next /\ \A s \in Symbols : s < turn \/ s = turn
  <2>1. \A s \in Symbols : pending'[s] # None =>
           pending'[s] = pending[s] /\ (s = turn => ~eligible)
    BY <1>0, <1>1 DEF FillShape
  <2> QED BY <1>1, <2>1, TurnsPassed DEF FillShape
<1>2. CASE OpenFills
  <2>1. phase = "OpenFills" /\ FillShape(FillsAtOpen(turn), "IntrabarFills")
    BY <1>2, TurnShapes
  <2>2. /\ UNCHANGED candles
        /\ \A s \in Symbols : pending'[s] # None =>
              pending'[s] = pending[s] /\ (s = turn => ~FillsAtOpen(turn))
        /\ \/ phase' = phase /\ \A s \in Symbols : s < turn' => s < turn \/ s = turn
           \/ phase' = "IntrabarFills" /\ \A s \in Symbols : s < turn \/ s = turn
    BY <1>1, <2>1
  <2>3. phase' = "IntrabarFills" => turn' = 1
    BY <2>1 DEF FillShape, Advances
  <2>4. \A s \in Symbols : ~(s < 1)
    BY SymbolsAre
  <2> QED BY <2>1, <2>2, <2>3, <2>4 DEF OrdersDecided, FillsAtOpen
<1>3. CASE IntrabarFills
  <2>1. phase = "IntrabarFills" /\ FillShape(FillsInside(turn), "IntrabarExits")
    BY <1>3, TurnShapes
  <2>2. /\ UNCHANGED candles
        /\ \A s \in Symbols : pending'[s] # None =>
              pending'[s] = pending[s] /\ (s = turn => ~FillsInside(turn))
        /\ \/ phase' = phase /\ \A s \in Symbols : s < turn' => s < turn \/ s = turn
           \/ phase' = "IntrabarExits" /\ \A s \in Symbols : s < turn \/ s = turn
    BY <1>1, <2>1
  <2> QED BY <2>1, <2>2 DEF OrdersDecided, FillsAtOpen, FillsInside
<1>4. CASE GapExits
  <2>1. UNCHANGED pending /\ phase' \in {"GapExits", "OpenFills", "Raised"}
        /\ (phase' = "OpenFills" => turn' = 1)
    BY <1>4, TurnShapes DEF ExitShape, Advances
  <2>2. \A s \in Symbols : ~(s < 1)
    BY SymbolsAre
  <2> QED BY <2>1, <2>2 DEF OrdersDecided
<1>5. CASE IntrabarExits
  <2>1. UNCHANGED <<pending, candles>> /\ phase = "IntrabarExits"
        /\ phase' \in {"IntrabarExits", "SettleClose", "Raised"}
    BY <1>5, TurnShapes DEF ExitShape, Advances
  <2> QED BY <2>1 DEF OrdersDecided, FillsAtOpen, FillsInside
<1>6. CASE StaysInPhase
  BY <1>6 DEF StaysInPhase, Quiet, batch, OrdersDecided, FillsAtOpen, FillsInside
<1>7. CASE EndsPhase
  BY <1>7 DEF EndsPhase, Quiet, OrdersDecided, FillsAtOpen, FillsInside
<1>8. CASE EndsBatch \/ RegistersOrder \/ StartsBatch
  BY <1>8 DEF EndsBatch, RegistersOrder, StartsBatch, batch, OrdersDecided
<1> QED BY <1>2, <1>3, <1>4, <1>5, <1>6, <1>7, <1>8, StepShapes

(* A limit that is reached inside the candle is a price of the candle.     *)
LEMMA FillPriceTraded ==
    ASSUME NEW c \in Candles, NEW o \in Order
    PROVE  /\ Within(c.open, c) /\ Within(c.close, c)
           /\ ~AtOpen(o, c) /\ Touched(o, c) => Within(o.entry, c)
<1>1. c \in Candle /\ c.open \in c.low .. c.high /\ c.close \in c.low .. c.high
  BY ExecutionAssumption
<1>2. c.open \in Nat /\ c.low \in Nat /\ c.high \in Nat /\ o.entry \in Nat
  BY <1>1 DEF Candle, Order, Positive
<1> QED BY <1>1, <1>2 DEF AtOpen, Touched, Worst, NoBetter, Within

(* Entries inside the candle stay within it and keep their levels.         *)
LEMMA EnteredInsideKept ==
    ASSUME PaperInv, RealCandles, Levelled, EnteredInside, [Next]_vars PROVE EnteredInside'
<1>0. DOMAIN positions = Symbols /\ turn \in Symbols /\ enteredIntrabar \subseteq Symbols
  BY DEF PaperInv, EngineOK, Accounts, Sound, BooksOK
<1>1. ASSUME Quiet, UNCHANGED <<candles, enteredIntrabar>>, phase \in Playing
      PROVE  \A s \in enteredIntrabar' : positions'[s] # None =>
                WellFormed(positions'[s]) /\ Within(positions'[s].entry, candles'[s])
  BY <1>0, <1>1 DEF Quiet, SamePositions, SameTerms, EnteredInside, WellFormed
<1>2. ASSUME NEW exits, NEW next, ExitShape(exits, next), phase \in Playing
      PROVE  \A s \in enteredIntrabar' : positions'[s] # None =>
                WellFormed(positions'[s]) /\ Within(positions'[s].entry, candles'[s])
  BY <1>0, <1>2 DEF ExitShape, EnteredInside
<1>3. CASE GapExits
  BY <1>2, <1>3, TurnShapes DEF ExitShape, EnteredInside, Early, Playing, Phases
<1>4. CASE IntrabarExits
  <2>1. phase = "IntrabarExits" /\ phase' \in {"IntrabarExits", "SettleClose", "Raised"}
    BY <1>4, TurnShapes DEF ExitShape, Advances
  <2> QED BY <1>2, <1>4, <2>1, TurnShapes DEF EnteredInside, Early, Playing, Phases
<1>5. CASE OpenFills
  <2>1. phase = "OpenFills" /\ FillShape(FillsAtOpen(turn), "IntrabarFills")
    BY <1>5, TurnShapes
  <2>2. enteredIntrabar' = {}
    BY <2>1 DEF FillShape, EnteredInside
  <2> QED BY <2>2 DEF EnteredInside
<1>6. CASE IntrabarFills
  <2>1. phase = "IntrabarFills" /\ FillShape(FillsInside(turn), "IntrabarExits")
        /\ phase' \in {"IntrabarFills", "IntrabarExits"} /\ UNCHANGED candles
    BY <1>6, TurnShapes DEF FillShape, Advances
  <2>2. phase \in Playing
    BY <2>1 DEF Playing, Phases
  <2>3. ASSUME pending[turn] # None, FillsInside(turn)
        PROVE  /\ WellFormed(FilledPosition(turn))
               /\ Within(FilledPosition(turn).entry, candles[turn])
    <3>1. WellFormed(pending[turn])
      BY <1>0, <2>3 DEF Levelled
    <3>2. /\ pending[turn] \in Order /\ FilledPosition(turn) \in Position
          /\ FilledPosition(turn).direction = pending[turn].direction
          /\ FilledPosition(turn).stop = pending[turn].stop
          /\ FilledPosition(turn).target = pending[turn].target
          /\ FilledPosition(turn).entry = pending[turn].entry
      BY <2>2, <2>3, <3>1, FilledLevels DEF FillsInside
    <3>3. candles[turn] \in Candles
      BY <1>0, <2>2 DEF RealCandles
    <3>4. Within(pending[turn].entry, candles[turn])
      BY <2>3, <3>2, <3>3, FillPriceTraded DEF FillsInside, FillsAtOpen
    <3> QED BY <3>1, <3>2, <3>4 DEF WellFormed
  <2>4. \A s \in enteredIntrabar' : positions'[s] # None =>
           \/ s \in enteredIntrabar /\ positions'[s] = positions[s]
           \/ /\ s = turn /\ pending[turn] # None /\ FillsInside(turn)
              /\ positions'[s] = FilledPosition(turn)
    BY <1>0, <2>1 DEF FillShape
  <2>5. \A s \in enteredIntrabar' : positions'[s] # None =>
           WellFormed(positions'[s]) /\ Within(positions'[s].entry, candles'[s])
    BY <2>1, <2>2, <2>3, <2>4 DEF EnteredInside
  <2> QED BY <2>1, <2>5 DEF EnteredInside, Early
<1>7. CASE StaysInPhase
  BY <1>1, <1>7 DEF StaysInPhase, batch, EnteredInside
<1>8. CASE EndsPhase
  BY <1>1, <1>8 DEF EndsPhase, EnteredInside, Early, Playing
<1>9. CASE EndsBatch \/ RegistersOrder \/ StartsBatch
  BY <1>9 DEF EndsBatch, RegistersOrder, StartsBatch, batch, EnteredInside, Early, Playing
<1> QED BY <1>3, <1>4, <1>5, <1>6, <1>7, <1>8, <1>9, StepShapes

(* The stops that have been looked at are dealt with.                      *)
LEMMA StopsLookedAtKept ==
    ASSUME PaperInv, StopsLookedAt, [Next]_vars PROVE StopsLookedAt'
<1>0. DOMAIN positions = Symbols /\ turn \in Symbols
  BY DEF PaperInv, EngineOK, Accounts, Sound, BooksOK
<1>1. CASE IntrabarExits
  <2> DEFINE exits == IntrabarExit(positions[turn], candles[turn], turn \in enteredIntrabar)
  <2>1. phase = "IntrabarExits" /\ ExitShape(exits, "SettleClose")
    BY <1>1, TurnShapes
  <2>2. exits = {} => Unstopped(turn)
    BY DEF IntrabarExit, RangeExit, Unstopped
  <2> HIDE DEF exits
  <2>3. phase' = "Raised" \/ Advances("SettleClose")
    BY <2>1 DEF ExitShape
  <2>4. phase' # "Raised" =>
           \A s \in Symbols : positions'[s] # None =>
               positions'[s] = positions[s] /\ (s = turn => Unstopped(turn))
    BY <1>0, <2>1, <2>2 DEF ExitShape, Advances
  <2>5. CASE phase' = "Raised"
    BY <2>5 DEF StopsLookedAt
  <2>6. CASE Advances("SettleClose") /\ phase' # "Raised"
    <3>1. \/ phase' = phase /\ \A s \in Symbols : s < turn' => s < turn \/ s = turn
          \/ phase' = "SettleClose" /\ \A s \in Symbols : s < turn \/ s = turn
      BY <2>1, <2>6, TurnsPassed
    <3>2. UNCHANGED candles
      BY <2>1 DEF ExitShape
    <3> QED BY <2>1, <2>4, <2>6, <3>1, <3>2 DEF StopsLookedAt, Unstopped
  <2> QED BY <2>3, <2>5, <2>6
<1>2. ASSUME Quiet, UNCHANGED candles,
             NEW s \in Symbols, positions'[s] # None, positions[s] # None => Unstopped(s)
      PROVE  Unstopped(s)'
  BY <1>2 DEF Quiet, SamePositions, SameTerms, Unstopped
<1>3. CASE StaysInPhase
  <2>1. Quiet /\ UNCHANGED <<candles, phase, turn>>
    BY <1>3 DEF StaysInPhase, batch
  <2>2. \A s \in Symbols : positions'[s] # None => positions[s] # None
    BY <2>1 DEF Quiet, SamePositions, SameTerms
  <2> QED BY <1>2, <2>1, <2>2 DEF StopsLookedAt
<1>4. CASE EndsPhase
  <2>1. Quiet /\ UNCHANGED candles
    BY <1>4 DEF EndsPhase
  <2>2. \A s \in Symbols : positions'[s] # None => positions[s] # None
    BY <2>1 DEF Quiet, SamePositions, SameTerms
  <2>3. \/ phase' \notin {"IntrabarExits", "SettleClose", "MarkClose"}
        \/ phase = "SettleClose" /\ phase' = "MarkClose"
    BY <1>4 DEF EndsPhase
  <2> QED BY <1>2, <2>1, <2>2, <2>3 DEF StopsLookedAt
<1>5. CASE IntrabarFills
  <2>1. /\ phase' \in {"IntrabarFills", "IntrabarExits"}
        /\ phase' = "IntrabarExits" => turn' = 1
    BY <1>5, TurnShapes DEF FillShape, Advances
  <2>2. \A s \in Symbols : ~(s < 1)
    BY SymbolsAre
  <2> QED BY <2>1, <2>2 DEF StopsLookedAt
<1>6. CASE GapExits \/ OpenFills
  <2>1. phase' \in {"GapExits", "OpenFills", "IntrabarFills", "Raised"}
    BY <1>6, TurnShapes DEF ExitShape, FillShape, Advances
  <2> QED BY <2>1 DEF StopsLookedAt
<1>7. CASE EndsBatch \/ RegistersOrder \/ StartsBatch
  BY <1>7 DEF EndsBatch, RegistersOrder, StartsBatch, batch, StopsLookedAt
<1> QED BY <1>1, <1>3, <1>4, <1>5, <1>6, <1>7, StepShapes

(* The history after one more trade.                                       *)
LEMMA Appended ==
    ASSUME PaperInv, NEW trade
    PROVE  /\ Len(history) \in Nat
           /\ Len(Append(history, trade)) = Len(history) + 1
           /\ \A i \in 1 .. Len(history) + 1 :
                 \/ i \in 1 .. Len(history) /\ Append(history, trade)[i] = history[i]
                 \/ i = Len(history) + 1 /\ Append(history, trade)[i] = trade
<1>1. history \in Seq(ClosedTrade)
  BY DEF PaperInv, Accounts, Sound, BooksOK
<1> QED BY <1>1

(* Only exits at the open happen before the intrabar exits.                *)
LEMMA ProceedsAtOpenKept ==
    ASSUME PaperInv, ProceedsAtOpen, [Next]_vars PROVE ProceedsAtOpen'
<1>0. openTime \in Nat /\ turn \in Symbols
  BY DEF PaperInv, EngineOK
<1>1. CASE GapExits
  <2>1. phase = "GapExits" /\ ExitShape(OpeningExit(positions[turn], candles[turn]), "OpenFills")
    BY <1>1, TurnShapes
  <2>2. ASSUME NEW x \in OpeningExit(positions[turn], candles[turn])
        PROVE  /\ Record(x).exitTime = openTime
               /\ Record(x).exit = candles[Record(x).symbol].open
    BY <2>2 DEF OpeningExit, Exit, Record, Closed
  <2>3. UNCHANGED <<openTime, candles>>
        /\ (history' = history \/ \E x \in OpeningExit(positions[turn], candles[turn]) :
                                     history' = Append(history, Record(x)))
    BY <2>1 DEF ExitShape
  <2>4. CASE history' = history
    BY <2>1, <2>3, <2>4 DEF ProceedsAtOpen, Early
  <2>5. CASE \E x \in OpeningExit(positions[turn], candles[turn]) :
                history' = Append(history, Record(x))
    <3>1. PICK x \in OpeningExit(positions[turn], candles[turn]) :
             history' = Append(history, Record(x))
      BY <2>5
    <3> DEFINE trade == Record(x)
    <3>2. trade.exitTime = openTime /\ trade.exit = candles[trade.symbol].open
      BY <2>2
    <3>3. history' = Append(history, trade)
      BY <3>1
    <3> HIDE DEF trade
    <3>4. /\ Len(history) \in Nat /\ Len(history') = Len(history) + 1
          /\ \A i \in 1 .. Len(history) + 1 :
                \/ i \in 1 .. Len(history) /\ history'[i] = history[i]
                \/ i = Len(history) + 1 /\ history'[i] = trade
      BY <3>3, Appended
    <3>5. /\ \A i \in 1 .. Len(history) : history[i].exitTime <= openTime
          /\ \A i \in 1 .. Len(history) :
                history[i].exitTime = openTime => history[i].exit = candles[history[i].symbol].open
      BY <2>1 DEF ProceedsAtOpen, Early
    <3> QED BY <1>0, <2>3, <3>2, <3>4, <3>5 DEF ProceedsAtOpen
  <2> QED BY <2>3, <2>4, <2>5
<1>2. CASE IntrabarExits
  <2> DEFINE exits == IntrabarExit(positions[turn], candles[turn], turn \in enteredIntrabar)
  <2>1. phase = "IntrabarExits" /\ ExitShape(exits, "SettleClose")
    BY <1>2, TurnShapes
  <2> HIDE DEF exits
  <2>2. phase' \in {"IntrabarExits", "SettleClose", "Raised"} /\ UNCHANGED openTime
    BY <2>1 DEF ExitShape, Advances
  <2>3. history' = history \/ \E x \in exits : history' = Append(history, Record(x))
    BY <2>1 DEF ExitShape
  <2>4. \A x : Record(x).exitTime = openTime
    BY DEF Record, Closed
  <2>5. \A i \in 1 .. Len(history') : history'[i].exitTime <= openTime
    <3>1. CASE history' = history
      BY <3>1 DEF ProceedsAtOpen
    <3>2. CASE \E x \in exits : history' = Append(history, Record(x))
      <4>1. PICK x \in exits : history' = Append(history, Record(x))
        BY <3>2
      <4> DEFINE trade == Record(x)
      <4>2. trade.exitTime = openTime /\ history' = Append(history, trade)
        BY <2>4, <4>1
      <4> HIDE DEF trade
      <4>3. /\ Len(history') = Len(history) + 1
            /\ \A i \in 1 .. Len(history) + 1 :
                  \/ i \in 1 .. Len(history) /\ history'[i] = history[i]
                  \/ i = Len(history) + 1 /\ history'[i] = trade
        BY <4>2, Appended
      <4> QED BY <1>0, <4>2, <4>3 DEF ProceedsAtOpen
    <3> QED BY <2>3, <3>1, <3>2
  <2> QED BY <2>2, <2>5 DEF ProceedsAtOpen, Early
<1>3. CASE OpenFills \/ IntrabarFills
  <2>1. UNCHANGED <<history, candles, openTime>> /\ phase \in {"OpenFills", "IntrabarFills"}
    BY <1>3, TurnShapes DEF FillShape
  <2> QED BY <2>1 DEF ProceedsAtOpen
<1>4. CASE StaysInPhase
  BY <1>4 DEF StaysInPhase, Quiet, batch, ProceedsAtOpen
<1>5. CASE EndsPhase
  BY <1>5 DEF EndsPhase, Quiet, ProceedsAtOpen, Early
<1>6. CASE EndsBatch
  BY <1>6 DEF EndsBatch, Quiet, ProceedsAtOpen, Early
<1>7. CASE RegistersOrder
  BY <1>7 DEF RegistersOrder, batch, ProceedsAtOpen
<1>8. CASE StartsBatch
  <2>1. openTime' \in Int /\ openTime' > openTime /\ UNCHANGED history
    BY <1>8 DEF StartsBatch
  <2>2. \A i \in 1 .. Len(history) : history[i].exitTime \in Nat
    <3>1. \A i \in 1 .. Len(history) : history[i] \in ClosedTrade
      BY DEF PaperInv, Accounts, Sound, BooksOK
    <3> QED BY <3>1 DEF ClosedTrade
  <2> QED BY <1>0, <2>1, <2>2 DEF ProceedsAtOpen
<1> QED BY <1>1, <1>2, <1>3, <1>4, <1>5, <1>6, <1>7, <1>8, StepShapes

(* The invariant of the candle holds at every step of every batch.         *)
THEOREM CandleInvariant == Spec => []CandleInv
<1>1. Init => CandleInv
  <2> SUFFICES ASSUME Init PROVE CandleInv
    OBVIOUS
  <2>1. phase = "Idle" /\ enteredIntrabar = {} /\ history = <<>>
        /\ \A s \in Symbols : pending[s] = None /\ positions[s] = None
    BY DEF Init, NewBooks, NoOrders
  <2>2. Len(history) = 0
    BY <2>1
  <2> QED BY <2>1, <2>2
      DEF CandleInv, RealCandles, Levelled, OrdersDecided, EnteredInside, StopsLookedAt,
          ProceedsAtOpen, Early, Playing
<1>2. ASSUME PaperInv, CandleInv, [Next]_vars PROVE CandleInv'
  BY <1>2, RealCandlesKept, LevelledKept, OrdersDecidedKept, EnteredInsideKept, StopsLookedAtKept,
     ProceedsAtOpenKept
     DEF CandleInv
<1> QED BY <1>1, <1>2, PaperInvariant, PTL DEF Spec

-----------------------------------------------------------------------------
(* The close of the candle can be marked                                   *)

(* A position that the candle did not stop is worth something at its close.*)
LEMMA WorthAtClose ==
    ASSUME PaperInv, CandleInv, phase = "MarkClose", NEW s \in Symbols, positions[s] # None
    PROVE  Size(positions[s]) + Gross(positions[s], candles[s].close) >= 0
<1> DEFINE p == positions[s]
           x == candles[s].close
<1>1. candles[s] \in Candles /\ candles[s] \in Candle /\ x \in candles[s].low .. candles[s].high
  BY ExecutionAssumption DEF CandleInv, RealCandles, Playing, Phases
<1>2. /\ x \in Nat /\ candles[s].low \in Nat /\ candles[s].high \in Nat
      /\ candles[s].low <= x /\ x <= candles[s].high
  BY <1>1 DEF Candle, Positive
<1>3. p \in Position
  BY DEF PaperInv, Accounts, Sound, BooksOK
<1>4. /\ p.quantity \in Nat /\ p.entry \in Nat /\ p.stop \in Nat /\ Unit \in Nat
      /\ p.direction \in {"BULLISH", "BEARISH"}
  BY <1>3, PortfolioAssumption DEF Position, Positive, Directions
<1>5. CASE p.direction = "BULLISH"
  <2>1. Gross(p, x) = Unit * (p.quantity * (x - p.entry))
    BY <1>2, <1>4, <1>5 DEF Gross, Sign
  <2>2. p.quantity * (x - p.entry) = p.quantity * x - p.quantity * p.entry
    BY <1>2, <1>4
  <2>3. p.quantity * x \in Nat /\ p.quantity * p.entry \in Nat
    BY <1>2, <1>4
  <2> DEFINE a == p.quantity * x
             b == p.quantity * p.entry
  <2> HIDE DEF a, b
  <2>4. Unit * (a - b) = Unit * a - Unit * b /\ Unit * a \in Nat /\ Unit * b \in Nat
    BY <1>4, <2>3 DEF a, b
  <2>5. Size(p) = Unit * b /\ Gross(p, x) = Unit * (a - b)
    BY <2>1, <2>2 DEF Size, a, b
  <2> QED BY <2>4, <2>5
<1>6. CASE p.direction = "BEARISH"
  <2>1. p.stop < 2 * p.entry
    BY <1>6 DEF CandleInv, Levelled
  <2>2. ~(candles[s].high >= p.stop)
    BY <1>6 DEF CandleInv, StopsLookedAt, Unstopped, NoBetter, Worst
  <2>3. x <= 2 * p.entry
    BY <1>2, <1>4, <2>1, <2>2
  <2>4. PICK d \in Nat : 2 * p.entry = x + d
    <3>1. 2 * p.entry - x \in Nat /\ 2 * p.entry = x + (2 * p.entry - x)
      BY <1>2, <1>4, <2>3
    <3> QED BY <3>1
  <2>5. x - p.entry = p.entry - d
    BY <1>2, <1>4, <2>4
  <2>6. Gross(p, x) = (-1) * (Unit * (p.quantity * (p.entry - d)))
    BY <1>6, <2>5 DEF Gross, Sign
  <2>7. p.quantity * (p.entry - d) = p.quantity * p.entry - p.quantity * d
        /\ p.quantity * p.entry \in Nat /\ p.quantity * d \in Nat
    BY <1>4
  <2> DEFINE a == p.quantity * d
             b == p.quantity * p.entry
  <2> HIDE DEF a, b
  <2>8. Unit * (b - a) = Unit * b - Unit * a /\ Unit * a \in Nat /\ Unit * b \in Nat
    BY <1>4, <2>7 DEF a, b
  <2>9. Size(p) = Unit * b /\ Gross(p, x) = (-1) * (Unit * (b - a))
    BY <2>6, <2>7 DEF Size, a, b
  <2> QED BY <2>8, <2>9
<1> QED BY <1>4, <1>5, <1>6

(* So AccountState accepts the balance after the mark at the close.        *)
LEMMA CloseCanBeMarked ==
    ASSUME PaperInv, CandleInv, phase = "MarkClose" PROVE MarkBookable(ClosePrices)
<1> DEFINE book == Marked(ClosePrices)
           worth == [s \in Symbols |-> SizesOf(book)[s] + MarksOf(book)[s]]
<1>1. positions \in Books /\ free \in Nat /\ phase \in Playing
  BY DEF PaperInv, Accounts, Sound, BooksOK, Books, Playing, Phases
<1>2. book \in Books /\ \A s \in Symbols : SizeOf(book[s]) = SizeOf(positions[s])
  BY <1>1, MarkPrices, MarkedBook
<1>3. \A s \in Symbols : /\ SizesOf(book)[s] \in Int /\ MarksOf(book)[s] \in Int
                         /\ SizesOf(book)[s] + MarksOf(book)[s] >= 0
  <2> TAKE s \in Symbols
  <2>1. SizesOf(book)[s] \in Int /\ MarksOf(book)[s] \in Int
    BY <1>2, SizesAreInt
  <2>2. SizesOf(book)[s] = SizeOf(positions[s]) /\ MarksOf(book)[s] = MarkOf(book[s])
    BY <1>2 DEF SizesOf, MarksOf
  <2>3. CASE positions[s] = None
    <3>1. book[s] = None
      BY <2>3 DEF Marked
    <3> QED BY <2>1, <2>2, <2>3, <3>1 DEF SizeOf, MarkOf
  <2>4. CASE positions[s] # None
    <3> DEFINE m == Gross(positions[s], candles[s].close)
    <3>1. Size(positions[s]) + m >= 0
      BY <2>4, WorthAtClose
    <3>2. positions[s] \in Position
      BY <1>1, <2>4 DEF Books
    <3>3. book[s] = [positions[s] EXCEPT !.unrealized = m]
      BY <2>4 DEF Marked, ClosePrices
    <3> HIDE DEF m
    <3>4. book[s].unrealized = m
      BY <3>2, <3>3 DEF Position
    <3>5. book[s] # None
      <4>1. SizeOf(book[s]) = Size(positions[s]) /\ Size(positions[s]) > 0
        BY <1>2, <2>4, <3>2, SizeType DEF SizeOf
      <4>2. Size(positions[s]) \in Nat
        BY <3>2, SizeType
      <4> QED BY <4>1, <4>2 DEF SizeOf
    <3> HIDE DEF book
    <3> QED BY <2>1, <2>2, <2>4, <3>1, <3>4, <3>5 DEF SizeOf, MarkOf
  <2> QED BY <2>3, <2>4
<1> HIDE DEF book
<1>4. \A i \in 1 .. NumSymbols : /\ SizesOf(book)[i] \in Int /\ MarksOf(book)[i] \in Int
                                 /\ worth[i] = SizesOf(book)[i] + MarksOf(book)[i]
                                 /\ worth[i] \in Nat
  BY <1>3, SymbolsAre
<1> HIDE DEF worth
<1>5. SumTo(worth, NumSymbols) = Exposure(book) + Marks(book)
  <2>1. SumTo(worth, NumSymbols) =
           SumTo(SizesOf(book), NumSymbols) + SumTo(MarksOf(book), NumSymbols)
    BY <1>4, SumToPlus, SymbolsAre
  <2> QED BY <2>1, ExposureIsSum, MarksIsSum
<1>6. SumTo(worth, NumSymbols) \in Nat
  BY <1>4, SumToNat, SymbolsAre
<1>7. Exposure(book) \in Int /\ Marks(book) \in Int
  BY <1>2, BookSumsType
<1>8. Representable(Equity(free, book), free)
  BY <1>1, <1>5, <1>6, <1>7, EquityIs DEF Representable
<1> QED BY <1>8 DEF MarkBookable, book

(* Every order that the candle reached was filled or cancelled before the  *)
(* exits began, no position survives its stop, and whatever the candle,    *)
(* its close can be marked.                                                *)
THEOREM CandleIsHonoured == Spec => []CandleHonoured
<1>1. ASSUME PaperInv, CandleInv PROVE CandleHonoured
  <2>1. ReachedOrdersDecided
    BY <1>1 DEF CandleInv, OrdersDecided, FillsInside, ReachedOrdersDecided
  <2>2. StopsTaken
    BY <1>1 DEF CandleInv, StopsLookedAt, Unstopped, StopsTaken
  <2>3. CloseMarkBookable
    BY <1>1, CloseCanBeMarked DEF CloseMarkBookable
  <2> QED BY <2>1, <2>2, <2>3 DEF CandleHonoured
<1> QED BY <1>1, PaperInvariant, CandleInvariant, PTL

-----------------------------------------------------------------------------
(* The order of fills and the prices they take                             *)

(* A position opens only in the turn of its order, as that order is filled.*)
LEMMA OpensInTurn ==
    ASSUME PaperInv, [Next]_vars, NEW s \in Symbols, Opens(s)
    PROVE  /\ s = turn /\ pending[s] # None
           /\ UNCHANGED <<history, candles, openTime>>
           /\ positions'[s] = FilledPosition(s)
           /\ \/ phase = "OpenFills" /\ FillsAtOpen(s)
              \/ phase = "IntrabarFills" /\ FillsInside(s)
<1>0. DOMAIN positions = Symbols /\ turn \in Symbols
  BY DEF PaperInv, EngineOK, Accounts, Sound, BooksOK
<1>1. ASSUME Quiet PROVE FALSE
  BY <1>1 DEF Quiet, SamePositions, SameTerms, Opens
<1>2. ASSUME NEW exits, NEW next, ExitShape(exits, next) PROVE FALSE
  BY <1>0, <1>2 DEF ExitShape, Opens
<1>3. ASSUME NEW eligible, NEW next, FillShape(eligible, next)
      PROVE  /\ s = turn /\ pending[s] # None /\ eligible
             /\ UNCHANGED <<history, candles, openTime>>
             /\ positions'[s] = FilledPosition(s)
  BY <1>0, <1>3 DEF FillShape, Opens
<1>4. CASE StaysInPhase \/ EndsPhase \/ EndsBatch
  BY <1>1, <1>4 DEF StaysInPhase, EndsPhase, EndsBatch
<1>5. CASE RegistersOrder \/ StartsBatch
  BY <1>5 DEF RegistersOrder, StartsBatch, Opens
<1>6. CASE GapExits \/ IntrabarExits
  BY <1>2, <1>6, TurnShapes
<1>7. CASE OpenFills
  BY <1>3, <1>7, TurnShapes
<1>8. CASE IntrabarFills
  BY <1>3, <1>8, TurnShapes
<1> QED BY <1>4, <1>5, <1>6, <1>7, <1>8, StepShapes

(* Fills happen in the fixed order of allocation: those at the open before *)
(* those inside the candle, by priority among equals, and from no proceeds *)
(* but those of exits at the open.                                         *)
THEOREM CandleInOrder == Spec => CandleOrder
<1>1. PaperInv /\ CandleInv /\ [Next]_vars =>
         [(\E s \in Symbols : Opens(s)) =>
             \A i \in 1 .. Len(history) :
                 history[i].exitTime = openTime =>
                     history[i].exit = candles[history[i].symbol].open]_vars
  BY OpensInTurn DEF CandleInv, ProceedsAtOpen
<1>2. PaperInv /\ CandleInv /\ [Next]_vars =>
         [\A s \in Symbols : Opens(s) =>
             \A r \in Symbols : pending[r] # None => ~Precedes(r, s)]_vars
  <2> SUFFICES ASSUME PaperInv, CandleInv, [Next]_vars, NEW s \in Symbols, Opens(s),
                      NEW r \in Symbols, pending[r] # None
               PROVE  ~Precedes(r, s)
    OBVIOUS
  <2>1. /\ s = turn
        /\ \/ phase = "OpenFills" /\ FillsAtOpen(s)
           \/ phase = "IntrabarFills" /\ FillsInside(s)
    BY OpensInTurn
  <2>2. /\ phase = "OpenFills" => (r < turn => ~FillsAtOpen(r))
        /\ phase = "IntrabarFills" => ~FillsAtOpen(r) /\ (r < turn => ~FillsInside(r))
    BY DEF CandleInv, OrdersDecided
  <2> QED BY <2>1, <2>2 DEF Precedes, FillsInside
<1> QED BY <1>1, <1>2, PaperInvariant, CandleInvariant, PTL
        DEF Spec, CandleOrder, ProceedsComeLate, AllocationOrder

(* An exit happens at a price of the candle: at its open, or at a level    *)
(* that lies between the open (or the entry) and what the candle touched.  *)
LEMMA ExitPriceTraded ==
    ASSUME NEW c \in Candles, NEW p \in Position, NEW entered \in BOOLEAN,
           entered => WellFormed(p) /\ Within(p.entry, c)
    PROVE  /\ \A x \in OpeningExit(p, c) : Within(x.price, c)
           /\ \A x \in IntrabarExit(p, c, entered) : Within(x.price, c)
<1>1. c \in Candle /\ c.open \in c.low .. c.high /\ c.close \in c.low .. c.high
  BY ExecutionAssumption
<1>2. /\ c.open \in Nat /\ c.close \in Nat /\ c.low \in Nat /\ c.high \in Nat
      /\ p.entry \in Nat /\ p.stop \in Nat /\ p.target \in Nat /\ p.direction \in Directions
  BY <1>1 DEF Candle, Position, Positive
<1>3. \A x \in OpeningExit(p, c) : Within(x.price, c)
  BY <1>1 DEF OpeningExit, Exit, Within
<1>4. ASSUME entered \/ OpeningExit(p, c) = {}, NEW x \in RangeExit(p, c, entered)
      PROVE  Within(x.price, c)
  <2>1. \/ x.price = p.stop /\ NoBetter(p.direction, Worst(p.direction, c), p.stop)
        \/ /\ x.price = p.target
           /\ NoWorse(p.direction, IF entered THEN c.close ELSE Best(p.direction, c), p.target)
    BY <1>4 DEF RangeExit, Exit
  <2>2. CASE entered
    BY <1>1, <1>2, <2>1, <2>2
       DEF WellFormed, Within, NoBetter, NoWorse, Worst, Best, Directions
  <2>3. CASE ~entered
    <3>1. ~NoBetter(p.direction, c.open, p.stop) /\ ~NoWorse(p.direction, c.open, p.target)
      BY <1>4, <2>3 DEF OpeningExit
    <3> QED BY <1>1, <1>2, <2>1, <2>3, <3>1
            DEF Within, NoBetter, NoWorse, Worst, Best, Directions
  <2> QED BY <2>2, <2>3
<1> QED BY <1>3, <1>4 DEF IntrabarExit

(* A target is taken at an open beyond it, or when the stop is untouched   *)
(* and, after an entry inside the candle, the close is beyond it.          *)
LEMMA TargetProven ==
    ASSUME NEW p, NEW c, NEW entered \in BOOLEAN, NEW x, x.reason = "TAKE_PROFIT",
           \/ ~entered /\ x \in OpeningExit(p, c)
           \/ x \in IntrabarExit(p, c, entered)
    PROVE  \/ ~entered /\ NoWorse(p.direction, c.open, p.target)
           \/ /\ ~NoBetter(p.direction, Worst(p.direction, c), p.stop)
              /\ entered => NoWorse(p.direction, c.close, p.target)
BY DEF OpeningExit, RangeExit, IntrabarExit, Exit

(* The trade of an exit, where it leaves a record.                         *)
LEMMA ExitRecords ==
    ASSUME PaperInv, CandleInv, NEW exits, NEW next, ExitShape(exits, next)
    PROVE  /\ UNCHANGED candles
           /\ \/ UNCHANGED <<positions, history>>
              \/ \E x \in exits :
                    /\ Len(history') = Len(history) + 1
                    /\ history'[Len(history')].exit = x.price
                    /\ history'[Len(history')].symbol = turn
                    /\ history'[Len(history')].reason = x.reason
                    /\ positions[turn] # None
                    /\ \A s \in Symbols : s # turn => positions'[s] = positions[s]
<1>0. DOMAIN positions = Symbols /\ turn \in Symbols
  BY DEF PaperInv, EngineOK, Accounts, Sound, BooksOK
<1> SUFFICES ASSUME ~UNCHANGED <<positions, history>>
             PROVE  \E x \in exits :
                       /\ Len(history') = Len(history) + 1
                       /\ history'[Len(history')].exit = x.price
                       /\ history'[Len(history')].symbol = turn
                       /\ history'[Len(history')].reason = x.reason
                       /\ positions[turn] # None
                       /\ \A s \in Symbols : s # turn => positions'[s] = positions[s]
  BY DEF ExitShape
<1>1. PICK x \in exits : history' = Append(history, Record(x))
  BY DEF ExitShape
<1>2. positions[turn] # None /\ \A s \in Symbols : s # turn => positions'[s] = positions[s]
  BY <1>0 DEF ExitShape
<1>3. Record(x).exit = x.price /\ Record(x).symbol = turn /\ Record(x).reason = x.reason
  BY DEF Record, Closed
<1> DEFINE trade == Record(x)
<1>4. history' = Append(history, trade)
  BY <1>1
<1> HIDE DEF trade
<1>5. Len(history') = Len(history) + 1 /\ history'[Len(history) + 1] = trade
  BY <1>4, Appended DEF PaperInv, Accounts, Sound, BooksOK
<1> QED BY <1>2, <1>3, <1>5 DEF trade

(* What leaves in a step: nothing, or the position whose turn it is, by an *)
(* exit that the candle gives it.                                          *)
LEMMA LeavesInTurn ==
    ASSUME PaperInv, CandleInv, [Next]_vars
    PROVE  \/ /\ \A s \in Symbols : positions[s] # None => positions'[s] # None
              /\ UNCHANGED history
           \/ /\ phase \in Playing
              /\ \E x : /\ \/ turn \notin enteredIntrabar
                              /\ x \in OpeningExit(positions[turn], candles[turn])
                           \/ x \in IntrabarExit(positions[turn], candles[turn],
                                                 turn \in enteredIntrabar)
                        /\ Len(history') = Len(history) + 1
                        /\ history'[Len(history')].exit = x.price
                        /\ history'[Len(history')].symbol = turn
                        /\ history'[Len(history')].reason = x.reason
                        /\ positions[turn] # None
                        /\ \A s \in Symbols : s # turn => positions'[s] = positions[s]
<1>0. DOMAIN positions = Symbols /\ turn \in Symbols
  BY DEF PaperInv, EngineOK, Accounts, Sound, BooksOK
<1>1. CASE StaysInPhase \/ EndsPhase \/ EndsBatch
  BY <1>1 DEF StaysInPhase, EndsPhase, EndsBatch, Quiet, SamePositions, SameTerms
<1>2. CASE RegistersOrder \/ StartsBatch
  BY <1>2 DEF RegistersOrder, StartsBatch
<1>3. CASE OpenFills \/ IntrabarFills
  <2>1. /\ UNCHANGED history
        /\ positions' = positions \/ positions' = [positions EXCEPT ![turn] = FilledPosition(turn)]
        /\ phase \in Playing
    BY <1>3, TurnShapes DEF FillShape, Playing, Phases
  <2>2. positions'[turn] # None \/ positions' = positions
    <3>1. positions' # positions => pending[turn] # None
      BY <1>3, TurnShapes DEF FillShape
    <3>2. pending[turn] # None => FilledPosition(turn) \in Position
      BY <1>0, <2>1, FilledPositionType DEF PaperInv
    <3> QED BY <1>0, <2>1, <3>1, <3>2, NoneAssumption
  <2> QED BY <1>0, <2>1, <2>2
<1>4. CASE GapExits
  <2>1. phase = "GapExits" /\ ExitShape(OpeningExit(positions[turn], candles[turn]), "OpenFills")
    BY <1>4, TurnShapes
  <2>2. turn \notin enteredIntrabar /\ phase \in Playing
    BY <2>1 DEF CandleInv, EnteredInside, Early, Playing, Phases
  <2> QED BY <2>1, <2>2, ExitRecords
<1>5. CASE IntrabarExits
  <2>1. /\ phase = "IntrabarExits" /\ phase \in Playing
        /\ ExitShape(IntrabarExit(positions[turn], candles[turn], turn \in enteredIntrabar),
                     "SettleClose")
    BY <1>5, TurnShapes DEF Playing, Phases
  <2> QED BY <2>1, ExitRecords
<1> QED BY <1>1, <1>2, <1>3, <1>4, <1>5, StepShapes

(* Entries and exits happen at prices the candle traded.                   *)
LEMMA PricesTraded ==
    ASSUME PaperInv, CandleInv, [Next]_vars
    PROVE  /\ \A s \in Symbols : Opens(s) => Within(positions'[s].entry, candles[s])
           /\ Len(history') > Len(history) =>
                 LET trade == history'[Len(history')]
                 IN  Within(trade.exit, candles[trade.symbol])
<1>0. turn \in Symbols /\ Len(history) \in Nat
  BY DEF PaperInv, EngineOK, Accounts, Sound, BooksOK
<1>1. ASSUME NEW s \in Symbols, Opens(s) PROVE Within(positions'[s].entry, candles[s])
  <2>1. /\ s = turn /\ pending[turn] # None /\ positions'[s] = FilledPosition(turn)
        /\ phase \in Playing /\ (FillsAtOpen(turn) \/ FillsInside(turn))
    BY <1>1, OpensInTurn DEF Playing, Phases
  <2>2. WellFormed(pending[turn]) /\ candles[turn] \in Candles
    BY <1>0, <2>1 DEF CandleInv, Levelled, RealCandles
  <2>3. /\ pending[turn] \in Order
        /\ FilledPosition(turn).entry = IF FillsAtOpen(turn) THEN candles[turn].open
                                        ELSE pending[turn].entry
    BY <2>1, <2>2, FilledLevels
  <2> QED BY <2>1, <2>2, <2>3, FillPriceTraded DEF FillsAtOpen, FillsInside
<1>2. ASSUME Len(history') > Len(history)
      PROVE  Within(history'[Len(history')].exit, candles[history'[Len(history')].symbol])
  <2>1. phase \in Playing
    BY <1>0, <1>2, LeavesInTurn
  <2>2. PICK x : /\ \/ turn \notin enteredIntrabar
                       /\ x \in OpeningExit(positions[turn], candles[turn])
                    \/ x \in IntrabarExit(positions[turn], candles[turn],
                                          turn \in enteredIntrabar)
                 /\ history'[Len(history')].exit = x.price
                 /\ history'[Len(history')].symbol = turn
                 /\ positions[turn] # None
    BY <1>0, <1>2, LeavesInTurn
  <2>3. positions[turn] \in Position /\ candles[turn] \in Candles
    BY <1>0, <2>1, <2>2 DEF PaperInv, Accounts, Sound, BooksOK, CandleInv, RealCandles
  <2>4. turn \in enteredIntrabar =>
           WellFormed(positions[turn]) /\ Within(positions[turn].entry, candles[turn])
    BY <2>1, <2>2 DEF CandleInv, EnteredInside
  <2> DEFINE entered == turn \in enteredIntrabar
  <2>5. entered \in BOOLEAN /\ (turn \notin enteredIntrabar <=> ~entered)
    OBVIOUS
  <2>6. /\ \A y \in OpeningExit(positions[turn], candles[turn]) : Within(y.price, candles[turn])
        /\ \A y \in IntrabarExit(positions[turn], candles[turn], entered) :
              Within(y.price, candles[turn])
    <3> HIDE DEF entered
    <3>1. entered => WellFormed(positions[turn]) /\ Within(positions[turn].entry, candles[turn])
      BY <2>4 DEF entered
    <3> QED BY <2>3, <2>5, <3>1, ExitPriceTraded
  <2> QED BY <2>2, <2>6
<1> QED BY <1>1, <1>2

(* The simulation takes no price that the candle does not prove: it fills  *)
(* and leaves at prices that were traded, and takes a profit only where no *)
(* other reading of the candle makes it a loss.                            *)
THEOREM PricesAreHonest == Spec => HonestPrices
<1>1. PaperInv /\ CandleInv /\ [Next]_vars =>
         [/\ \A s \in Symbols : Opens(s) => Within(positions'[s].entry, candles[s])
          /\ Len(history') > Len(history) =>
                LET trade == history'[Len(history')]
                IN  Within(trade.exit, candles[trade.symbol])]_vars
  BY PricesTraded
<1>2. PaperInv /\ CandleInv /\ [Next]_vars =>
         [\A s \in Symbols :
             /\ positions[s] # None /\ positions'[s] = None
             /\ history'[Len(history')].reason = "TAKE_PROFIT"
             => LET d == positions[s].direction
                    c == candles[s]
                    atOpen == s \notin enteredIntrabar /\ NoWorse(d, c.open, positions[s].target)
                IN  \/ atOpen
                    \/ /\ ~NoBetter(d, Worst(d, c), positions[s].stop)
                       /\ s \in enteredIntrabar =>
                             NoWorse(d, c.close, positions[s].target)]_vars
  <2> SUFFICES ASSUME PaperInv, CandleInv, [Next]_vars, NEW s \in Symbols,
                      positions[s] # None, positions'[s] = None,
                      history'[Len(history')].reason = "TAKE_PROFIT"
               PROVE  \/ /\ s \notin enteredIntrabar
                         /\ NoWorse(positions[s].direction, candles[s].open, positions[s].target)
                      \/ /\ ~NoBetter(positions[s].direction,
                                      Worst(positions[s].direction, candles[s]),
                                      positions[s].stop)
                         /\ s \in enteredIntrabar =>
                               NoWorse(positions[s].direction, candles[s].close,
                                       positions[s].target)
    OBVIOUS
  <2>1. PICK x : /\ \/ turn \notin enteredIntrabar
                       /\ x \in OpeningExit(positions[turn], candles[turn])
                    \/ x \in IntrabarExit(positions[turn], candles[turn],
                                          turn \in enteredIntrabar)
                 /\ x.reason = "TAKE_PROFIT"
                 /\ s = turn
    BY LeavesInTurn
  <2> DEFINE entered == turn \in enteredIntrabar
  <2>2. entered \in BOOLEAN
    OBVIOUS
  <2>3. \/ ~entered /\ x \in OpeningExit(positions[s], candles[s])
        \/ x \in IntrabarExit(positions[s], candles[s], entered)
    BY <2>1
  <2>4. entered <=> s \in enteredIntrabar
    BY <2>1
  <2> HIDE DEF entered
  <2> QED BY <2>1, <2>2, <2>3, <2>4, TargetProven
<1> QED BY <1>1, <1>2, PaperInvariant, CandleInvariant, PTL
        DEF Spec, HonestPrices, TradedPrices, NoOptimisticExit

-----------------------------------------------------------------------------
(* Funding                                                                 *)

\* FundingBetween, with the funding history as a parameter
Rates(h, s, from, to) ==
    [t \in 1 .. to |-> IF t > from /\ t \in DOMAIN h[s] THEN h[s][t] ELSE 0]

FundingOver(h, s, direction, quantity, from, to) ==
    Sign(direction) * (quantity * SumTo(Rates(h, s, from, to), to))

PaidUp(h, s, p) ==
    p.fundingPaid = FundingOver(h, s, p.direction, p.quantity, p.openedAt, p.fundedUntil)

TradePaid(h, trade) ==
    trade.funding = FundingOver(h, trade.symbol, trade.direction, trade.quantity,
                                trade.entryTime, trade.exitTime)

\* No position of the book has a settlement before it, up to the horizon.
NoneDue(book, h, horizon) ==
    \A s \in Symbols : book[s] # None =>
        \A t \in DOMAIN h[s] : t <= horizon => ~(book[s].fundedUntil < t)

(* Nothing is in the future of a position that has no settlement due.      *)
LEMMA NothingIsDue == ASSUME NEW horizon
                      PROVE  Due(horizon) = {} <=> NoneDue(positions, settlements, horizon)
BY DEF Due, NoneDue

\* Open positions and closed trades have paid exactly what they owe.
Ledgers ==
    /\ \A s \in Symbols : positions[s] # None =>
          /\ PaidUp(settlements, s, positions[s])
          /\ positions[s].openedAt <= positions[s].fundedUntil
    /\ \A i \in 1 .. Len(history) : TradePaid(settlements, history[i])

\* Until the settlements of a candle, nothing after its open has been paid.
CursorsInTime ==
    phase \in Playing \ {"SettleClose", "MarkClose"} =>
        \A s \in Symbols : positions[s] # None => positions[s].fundedUntil <= openTime

NothingDue ==
    /\ phase \in {"GapExits", "OpenFills", "IntrabarFills", "IntrabarExits"} =>
          NoneDue(positions, settlements, openTime)
    /\ phase \in {"MarkClose", "Idle"} => NoneDue(positions, settlements, closeTime)

FundInv == Ledgers /\ CursorsInTime /\ NothingDue

(* The rates of a symbol are integers.                                     *)
LEMMA RatesType ==
    ASSUME NEW h \in Histories, NEW s \in Symbols, NEW from, NEW to
    PROVE  \A t \in 1 .. to : Rates(h, s, from, to)[t] \in Int
BY ExecutionAssumption DEF Rates

(* A position that has just been entered owes nothing.                     *)
LEMMA FundingNone ==
    ASSUME NEW h, NEW s, NEW direction, NEW quantity \in Nat, NEW time \in Nat
    PROVE  FundingOver(h, s, direction, quantity, time, time) = 0
<1>1. \A t \in 1 .. time : Rates(h, s, time, time)[t] = 0
  BY DEF Rates
<1>2. SumTo(Rates(h, s, time, time), time) = 0
  BY <1>1, SumToNothing
<1>3. quantity * 0 = 0 /\ Sign(direction) * 0 = 0
  BY SignType
<1> QED BY <1>2, <1>3 DEF FundingOver

(* Time without a settlement costs nothing.                                *)
LEMMA FundingRests ==
    ASSUME NEW h \in Histories, NEW s \in Symbols, NEW direction, NEW quantity,
           NEW from \in Nat, NEW to \in Nat, NEW later \in Nat, to <= later,
           \A t \in DOMAIN h[s] : t <= later => ~(to < t)
    PROVE  FundingOver(h, s, direction, quantity, from, later) =
              FundingOver(h, s, direction, quantity, from, to)
<1>1. \A t \in to + 1 .. later : Rates(h, s, from, later)[t] = 0
  BY DEF Rates
<1>2. SumTo(Rates(h, s, from, later), later) = SumTo(Rates(h, s, from, later), to)
  BY <1>1, RatesType, SumToTail
<1>3. \A t \in 1 .. to : Rates(h, s, from, later)[t] = Rates(h, s, from, to)[t]
  BY DEF Rates
<1>4. SumTo(Rates(h, s, from, later), to) = SumTo(Rates(h, s, from, to), to)
  BY <1>3, SumToAgree
<1> QED BY <1>2, <1>4 DEF FundingOver

(* The next settlement is added to what was paid before.                   *)
LEMMA FundingGrows ==
    ASSUME NEW h \in Histories, NEW s \in Symbols, NEW direction, NEW quantity \in Nat,
           NEW from \in Nat, NEW to \in Nat, from <= to,
           NEW time \in DOMAIN h[s], to < time,
           \A t \in DOMAIN h[s] : to < t => time <= t
    PROVE  FundingOver(h, s, direction, quantity, from, time) =
              FundingOver(h, s, direction, quantity, from, to)
                  + Sign(direction) * (quantity * h[s][time])
<1> DEFINE rates == Rates(h, s, from, time)
<1>1. time \in Nat /\ h[s][time] \in Int /\ time - 1 \in Nat /\ to <= time - 1
  BY ExecutionAssumption
<1>2. rates[time] = h[s][time]
  BY <1>1 DEF Rates
<1>3. \A t \in 1 .. time : rates[t] \in Int
  BY RatesType
<1>4. \A t \in to + 1 .. time - 1 : rates[t] = 0
  BY <1>1 DEF Rates
<1>5. \A t \in 1 .. to : rates[t] = Rates(h, s, from, to)[t]
  BY <1>1 DEF Rates
<1> HIDE DEF rates
<1>6. SumTo(rates, time - 1) = SumTo(rates, to)
  <2> DEFINE n == time - 1
  <2>1. n \in Nat /\ to <= n /\ \A t \in 1 .. n : rates[t] \in Int
    BY <1>1, <1>3
  <2>2. \A t \in to + 1 .. n : rates[t] = 0
    BY <1>4
  <2> HIDE DEF n
  <2>3. SumTo(rates, n) = SumTo(rates, to)
    BY <2>1, <2>2, SumToTail
  <2> QED BY <2>3 DEF n
<1>7. SumTo(rates, to) = SumTo(Rates(h, s, from, to), to)
  BY <1>5, SumToAgree
<1>8. SumTo(rates, time) = SumTo(rates, time - 1) + rates[time]
  <2>1. SumTo(rates, (time - 1) + 1) = SumTo(rates, time - 1) + rates[(time - 1) + 1]
    BY <1>1, SumToStep
  <2>2. (time - 1) + 1 = time
    BY <1>1
  <2> QED BY <2>1, <2>2
<1> DEFINE a == SumTo(Rates(h, s, from, to), to)
           b == h[s][time]
<1>9. SumTo(rates, time) = a + b
  BY <1>2, <1>6, <1>7, <1>8
<1>10. a \in Int /\ b \in Int
  BY <1>1, RatesType, SumToInt
<1> HIDE DEF a, b
<1>11. quantity * (a + b) = quantity * a + quantity * b
       /\ quantity * a \in Int /\ quantity * b \in Int
  BY <1>10
<1>12. Sign(direction) \in {1, -1}
  BY DEF Sign
<1>13. Sign(direction) * (quantity * (a + b)) =
          Sign(direction) * (quantity * a) + Sign(direction) * (quantity * b)
  BY <1>11, <1>12
<1> QED BY <1>9, <1>13 DEF FundingOver, rates, a, b

\* Positions on the same terms that have paid the same.
SameLedgers ==
    \A s \in Symbols :
        /\ SameTerms(positions'[s], positions[s])
        /\ positions[s] # None =>
              /\ positions'[s].fundingPaid = positions[s].fundingPaid
              /\ positions'[s].fundedUntil = positions[s].fundedUntil

(* Ledgers, cursors and what is due stay as they are then.                 *)
LEMMA SameLedgersKeep ==
    ASSUME SameLedgers, UNCHANGED <<history, settlements>>
    PROVE  /\ Ledgers => Ledgers'
           /\ \A s \in Symbols : positions'[s] # None =>
                 positions[s] # None /\ positions'[s].fundedUntil = positions[s].fundedUntil
           /\ \A horizon : NoneDue(positions, settlements, horizon) =>
                 NoneDue(positions', settlements', horizon)
BY DEF SameLedgers, SameTerms, Ledgers, PaidUp, NoneDue

(* A group of settlements adds exactly what its payers owe for it, and its *)
(* time is the new cursor.                                                 *)
LEMMA GroupPays ==
    ASSUME PaperInv, Ledgers, NEW horizon \in Int, SettleGroup(horizon)
    PROVE  /\ Ledgers' /\ UNCHANGED batch
           /\ \A s \in Symbols : positions'[s] # None =>
                 /\ positions[s] # None
                 /\ \/ positions'[s].fundedUntil = positions[s].fundedUntil
                    \/ positions'[s].fundedUntil \in Nat /\ positions'[s].fundedUntil <= horizon
<1> DEFINE t == Earliest(Due(horizon))
           rate == Group(t)
<1>1. ApplyFunding(t, rate) /\ Due(horizon) # {} /\ UNCHANGED <<pending, batch>>
  BY DEF SettleGroup
<1>2. /\ t \in Nat /\ DOMAIN rate \subseteq Symbols
      /\ \A s \in DOMAIN rate : rate[s] \in Int
  BY <1>1, GroupType DEF PaperInv
<1>3. t \in Due(horizon) /\ \A u \in Due(horizon) : t <= u
  <2>1. Due(horizon) \subseteq Nat
    BY ExecutionAssumption DEF Due, PaperInv, EngineOK
  <2> QED BY <1>1, <2>1, EarliestIsIn
<1>4. \A s \in DOMAIN rate : s \in Symbols /\ t \in DOMAIN settlements[s]
                             /\ rate[s] = settlements[s][t]
  BY DEF Group
<1> HIDE DEF rate, t
<1>5. /\ SamePositions /\ UNCHANGED history
      /\ \A s \in Symbols : positions[s] # None =>
            /\ s \in Payers(t, rate) =>
                  /\ positions'[s].fundingPaid = positions[s].fundingPaid + Charge(s, rate)
                  /\ positions'[s].fundedUntil = t
            /\ s \notin Payers(t, rate) => positions'[s] = positions[s]
  BY <1>1, <1>2, FundIsSame
<1>6. settlements' = settlements /\ settlements \in Histories
  BY <1>1 DEF batch, PaperInv, EngineOK
<1>7. ASSUME NEW s \in Symbols, positions[s] # None
      PROVE  /\ PaidUp(settlements, s, positions'[s])
             /\ positions'[s].openedAt <= positions'[s].fundedUntil
             /\ \/ positions'[s].fundedUntil = positions[s].fundedUntil
                \/ positions'[s].fundedUntil \in Nat /\ positions'[s].fundedUntil <= horizon
  <2>1. /\ PaidUp(settlements, s, positions[s])
        /\ positions[s].openedAt <= positions[s].fundedUntil
    BY <1>7 DEF Ledgers
  <2>2. CASE s \notin Payers(t, rate)
    BY <1>5, <1>7, <2>1, <2>2
  <2>3. CASE s \in Payers(t, rate)
    <3> DEFINE p == positions[s]
               q == positions'[s]
    <3>1. /\ s \in DOMAIN rate /\ p.fundedUntil < t /\ p.openedAt < t
          /\ t \in DOMAIN settlements[s] /\ rate[s] = settlements[s][t]
      BY <1>1, <1>4, <2>3 DEF Payers, ApplyFunding, FundingInOrder
    <3>2. p \in Position
      BY <1>7 DEF PaperInv, Accounts, Sound, BooksOK
    <3>3. /\ p.openedAt \in Nat /\ p.fundedUntil \in Nat /\ p.quantity \in Nat
          /\ p.fundingPaid \in Int
      BY <3>2 DEF Position, Positive
    <3>4. \A u \in DOMAIN settlements[s] : p.fundedUntil < u => t <= u
      <4> SUFFICES ASSUME NEW u \in DOMAIN settlements[s], p.fundedUntil < u PROVE t <= u
        OBVIOUS
      <4>1. u \in Nat
        BY <1>6, ExecutionAssumption
      <4>2. CASE u <= horizon
        <5>1. u \in Due(horizon)
          BY <1>7, <4>2 DEF Due
        <5> QED BY <1>3, <5>1
      <4>3. CASE ~(u <= horizon)
        <5>1. t <= horizon
          BY <1>3 DEF Due
        <5> QED BY <1>2, <4>1, <4>3, <5>1
      <4> QED BY <4>2, <4>3
    <3>5. FundingOver(settlements, s, p.direction, p.quantity, p.openedAt, t) =
             FundingOver(settlements, s, p.direction, p.quantity, p.openedAt, p.fundedUntil)
                 + Sign(p.direction) * (p.quantity * settlements[s][t])
      BY <1>6, <2>1, <3>1, <3>3, <3>4, FundingGrows
    <3>6. q.fundingPaid = p.fundingPaid + Charge(s, rate) /\ q.fundedUntil = t
      BY <1>5, <1>7, <2>3
    <3>7. /\ q.direction = p.direction /\ q.quantity = p.quantity /\ q.openedAt = p.openedAt
      BY <1>5, <1>7 DEF SamePositions, SameTerms
    <3>8. q.fundingPaid = FundingOver(settlements, s, p.direction, p.quantity, p.openedAt, t)
      BY <2>1, <3>1, <3>5, <3>6 DEF PaidUp, Charge
    <3>9. PaidUp(settlements, s, q)
      BY <3>6, <3>7, <3>8 DEF PaidUp
    <3>10. t <= horizon
      BY <1>3 DEF Due
    <3> QED BY <1>2, <3>1, <3>3, <3>6, <3>7, <3>9, <3>10
  <2> QED BY <2>2, <2>3
<1>8. \A s \in Symbols : positions'[s] # None => positions[s] # None
  BY <1>5 DEF SamePositions, SameTerms
<1>9. \A i \in 1 .. Len(history') : TradePaid(settlements', history'[i])
  BY <1>5, <1>6 DEF Ledgers
<1>10. Ledgers'
  BY <1>6, <1>7, <1>8, <1>9 DEF Ledgers
<1> QED BY <1>1, <1>7, <1>8, <1>10

(* A position that leaves when nothing is due has paid everything up to    *)
(* its exit, and its trade says so.                                        *)
LEMMA ExitPays ==
    ASSUME PaperInv, FundInv, NEW exits, NEW next, ExitShape(exits, next),
           phase \in {"GapExits", "IntrabarExits"}
    PROVE  /\ Ledgers'
           /\ \A s \in Symbols : positions'[s] # None => positions'[s] = positions[s]
<1>0. /\ DOMAIN positions = Symbols /\ turn \in Symbols /\ openTime \in Nat
      /\ settlements \in Histories /\ settlements' = settlements
  BY DEF PaperInv, EngineOK, Accounts, Sound, BooksOK, ExitShape
<1>1. \A s \in Symbols : positions'[s] # None => positions'[s] = positions[s]
  BY <1>0 DEF ExitShape
<1>2. ASSUME positions[turn] # None, NEW x PROVE TradePaid(settlements, Record(x))
  <2> DEFINE p == positions[turn]
  <2>1. p \in Position
    BY <1>0, <1>2 DEF PaperInv, Accounts, Sound, BooksOK
  <2>2. p.openedAt \in Nat /\ p.fundedUntil \in Nat
    BY <2>1 DEF Position
  <2>3. PaidUp(settlements, turn, p)
    BY <1>0, <1>2 DEF FundInv, Ledgers
  <2>4. p.fundedUntil <= openTime
    BY <1>0, <1>2 DEF FundInv, CursorsInTime, Playing, Phases
  <2>5. \A t \in DOMAIN settlements[turn] : t <= openTime => ~(p.fundedUntil < t)
    BY <1>0, <1>2 DEF FundInv, NothingDue, NoneDue
  <2>6. FundingOver(settlements, turn, p.direction, p.quantity, p.openedAt, openTime) =
           FundingOver(settlements, turn, p.direction, p.quantity, p.openedAt, p.fundedUntil)
    BY <1>0, <2>2, <2>4, <2>5, FundingRests
  <2>7. /\ Record(x).funding = p.fundingPaid /\ Record(x).symbol = turn
        /\ Record(x).direction = p.direction /\ Record(x).quantity = p.quantity
        /\ Record(x).entryTime = p.openedAt /\ Record(x).exitTime = openTime
    BY DEF Record, Closed
  <2> QED BY <2>3, <2>6, <2>7 DEF PaidUp, TradePaid
<1>3. \A i \in 1 .. Len(history') : TradePaid(settlements, history'[i])
  <2>1. \A i \in 1 .. Len(history) : TradePaid(settlements, history[i])
    BY DEF FundInv, Ledgers
  <2>2. CASE history' = history
    BY <2>1, <2>2
  <2>3. CASE \E x \in exits : history' = Append(history, Record(x)) /\ positions[turn] # None
    <3>1. PICK x \in exits : history' = Append(history, Record(x)) /\ positions[turn] # None
      BY <2>3
    <3> DEFINE trade == Record(x)
    <3>2. TradePaid(settlements, trade) /\ history' = Append(history, trade)
      BY <1>2, <3>1
    <3> HIDE DEF trade
    <3>3. /\ Len(history') = Len(history) + 1
          /\ \A i \in 1 .. Len(history) + 1 :
                \/ i \in 1 .. Len(history) /\ history'[i] = history[i]
                \/ i = Len(history) + 1 /\ history'[i] = trade
      BY <3>2, Appended
    <3> QED BY <2>1, <3>2, <3>3
  <2> QED BY <2>2, <2>3 DEF ExitShape
<1>4. Ledgers'
  BY <1>0, <1>1, <1>3 DEF FundInv, Ledgers
<1> QED BY <1>1, <1>4

(* An order that fills becomes a position with nothing paid and nothing due*)
LEMMA FillPays ==
    ASSUME PaperInv, FundInv, NEW eligible, NEW next, FillShape(eligible, next),
           phase \in Playing
    PROVE  /\ Ledgers'
           /\ \A s \in Symbols : positions'[s] # None =>
                 \/ positions'[s] = positions[s]
                 \/ positions'[s].fundedUntil = openTime
<1>0. /\ DOMAIN positions = Symbols /\ turn \in Symbols /\ openTime \in Nat
      /\ settlements \in Histories /\ settlements' = settlements
      /\ history' = history
  BY DEF PaperInv, EngineOK, Accounts, Sound, BooksOK, FillShape
<1>1. \A s \in Symbols : \/ positions'[s] = positions[s]
                         \/ s = turn /\ pending[turn] # None /\ positions'[s] = FilledPosition(turn)
  BY <1>0 DEF FillShape
<1>2. ASSUME pending[turn] # None
      PROVE  /\ PaidUp(settlements, turn, FilledPosition(turn))
             /\ FilledPosition(turn).openedAt = openTime
             /\ FilledPosition(turn).fundedUntil = openTime
  <2> DEFINE p == FilledPosition(turn)
  <2>1. p.openedAt = openTime /\ p.fundedUntil = openTime /\ p.fundingPaid = 0
        /\ p.quantity = pending[turn].quantity
    BY DEF FilledPosition
  <2>2. pending[turn].quantity \in Nat
    BY <1>0, <1>2 DEF PaperInv, EngineOK, Order, Positive
  <2> HIDE DEF p
  <2>3. FundingOver(settlements, turn, p.direction, p.quantity, openTime, openTime) = 0
    BY <1>0, <2>1, <2>2, FundingNone
  <2>4. PaidUp(settlements, turn, p)
    BY <2>1, <2>3 DEF PaidUp
  <2> QED BY <2>1, <2>4 DEF p
<1>3. Ledgers'
  BY <1>0, <1>1, <1>2 DEF FundInv, Ledgers
<1> QED BY <1>1, <1>2, <1>3

(* A group that is paid before the candle closes leaves every cursor in    *)
(* the past.                                                               *)
LEMMA GroupKeeps ==
    ASSUME PaperInv, FundInv, NEW horizon \in Int, SettleGroup(horizon),
           \/ phase \in {"SettlePrior", "SettleOpen"} /\ horizon <= openTime
           \/ phase = "SettleClose"
    PROVE  FundInv'
<1>1. Ledgers' /\ UNCHANGED <<phase, openTime>>
      /\ \A s \in Symbols : positions'[s] # None =>
            /\ positions[s] # None
            /\ \/ positions'[s].fundedUntil = positions[s].fundedUntil
               \/ positions'[s].fundedUntil \in Nat /\ positions'[s].fundedUntil <= horizon
  BY GroupPays DEF FundInv, batch
<1>2. openTime \in Nat
  BY DEF PaperInv, EngineOK
<1>3. CursorsInTime'
  <2>1. CASE phase \in {"SettlePrior", "SettleOpen"}
    <3>1. \A s \in Symbols : positions[s] # None => positions[s].fundedUntil <= openTime
      BY <2>1 DEF FundInv, CursorsInTime, Playing, Phases
    <3> QED BY <1>1, <1>2, <2>1, <3>1 DEF CursorsInTime
  <2>2. CASE phase = "SettleClose"
    BY <1>1, <2>2 DEF CursorsInTime
  <2> QED BY <2>1, <2>2
<1>4. NothingDue'
  BY <1>1 DEF NothingDue
<1> QED BY <1>1, <1>3, <1>4 DEF FundInv

(* Nothing done to the positions is nothing done to the ledgers.           *)
LEMMA StillLedgers == ASSUME UNCHANGED positions PROVE SameLedgers
BY DEF SameLedgers, SameTerms

(* Marks leave the ledgers as they are.                                    *)
LEMMA MarkedLedgers ==
    ASSUME PaperInv, NEW prices, phase \in Playing, prices = OpenPrices \/ prices = ClosePrices,
           UpdateMarketPrices(prices)
    PROVE  SameLedgers /\ UNCHANGED history
BY MarkPrices, MarkIsSame DEF SameLedgers, SamePositions

(* Every step keeps the ledgers exact.                                     *)
LEMMA FundInvKept ==
    ASSUME PaperInv, FundInv, [Next]_vars PROVE FundInv'
<1>0. openTime \in Nat /\ BarLength \in Nat
  BY ExecutionAssumption DEF PaperInv, EngineOK
<1>1. ASSUME SameLedgers, UNCHANGED <<history, settlements, openTime>>,
             phase' \in Playing \ {"SettleClose", "MarkClose"} =>
                 phase \in Playing \ {"SettleClose", "MarkClose"},
             phase' \in {"GapExits", "OpenFills", "IntrabarFills", "IntrabarExits"} =>
                 NoneDue(positions, settlements, openTime),
             phase' \in {"MarkClose", "Idle"} => NoneDue(positions, settlements, closeTime)
      PROVE  FundInv'
  <2>1. /\ Ledgers'
        /\ \A s \in Symbols : positions'[s] # None =>
              positions[s] # None /\ positions'[s].fundedUntil = positions[s].fundedUntil
        /\ \A horizon : NoneDue(positions, settlements, horizon) =>
              NoneDue(positions', settlements', horizon)
    BY <1>1, SameLedgersKeep DEF FundInv
  <2>2. CursorsInTime'
    BY <1>1, <2>1 DEF FundInv, CursorsInTime
  <2>3. NothingDue'
    BY <1>1, <2>1 DEF NothingDue, closeTime
  <2> QED BY <2>1, <2>2, <2>3 DEF FundInv
<1>2. ASSUME UNCHANGED <<positions, history, batch>> PROVE FundInv'
  BY <1>1, <1>2, StillLedgers DEF batch, FundInv, NothingDue
<1>3. ASSUME NEW horizon, SettleFails(horizon) PROVE FundInv'
  BY <1>1, <1>3, StillLedgers DEF SettleFails, GoTo, books, Playing
<1>4. CASE UNCHANGED vars
  BY <1>2, <1>4 DEF vars, books
<1>5. CASE \E s \in Symbols, setup \in Setups : ExecuteSetup(s, setup)
  BY <1>2, <1>5 DEF ExecuteSetup, books
<1>6. CASE NextBatch
  <2>1. PICK n \in Bars, c \in [Symbols -> Candles] : StartBatch(n * BarLength, c)
    BY <1>6 DEF NextBatch
  <2>2. /\ phase' = "SettlePrior" /\ openTime' = n * BarLength
        /\ UNCHANGED <<positions, history, settlements>>
        /\ \A s \in Symbols : positions[s] # None => positions[s].fundedUntil <= openTime'
    BY <2>1 DEF StartBatch, books
  <2>3. Ledgers'
    BY <2>2 DEF FundInv, Ledgers
  <2> QED BY <2>2, <2>3 DEF FundInv, CursorsInTime, NothingDue
<1>7. CASE SettlePrior
  <2>1. phase = "SettlePrior"
    BY <1>7 DEF SettlePrior
  <2>2. CASE SettleGroup(openTime - 1)
    BY <1>0, <2>1, <2>2, GroupKeeps
  <2>3. CASE GoTo("MarkOpen") /\ UNCHANGED books
    BY <1>1, <2>1, <2>3, StillLedgers DEF GoTo, books, Playing, Phases
  <2> QED BY <1>3, <1>7, <2>2, <2>3 DEF SettlePrior, Settle
<1>8. CASE MarkOpen
  <2>1. phase = "MarkOpen" /\ phase \in Playing
    BY <1>8 DEF MarkOpen, Playing, Phases
  <2>2. CASE UpdateMarketPrices(OpenPrices) /\ GoTo("SettleOpen")
    <3>1. SameLedgers /\ UNCHANGED history
      BY <2>1, <2>2, MarkedLedgers
    <3> QED BY <1>1, <2>1, <2>2, <3>1 DEF GoTo, Playing, Phases
  <2>3. CASE Raise /\ UNCHANGED books
    BY <1>1, <2>1, <2>3, StillLedgers DEF Raise, GoTo, books, Playing, Phases
  <2> QED BY <1>8, <2>2, <2>3 DEF MarkOpen
<1>9. CASE SettleOpen
  <2>1. phase = "SettleOpen"
    BY <1>9 DEF SettleOpen
  <2>2. CASE SettleGroup(openTime)
    BY <1>0, <2>1, <2>2, GroupKeeps
  <2>3. CASE Due(openTime) = {} /\ UNCHANGED books /\ GoTo("GapExits")
    BY <1>1, <2>1, <2>3, StillLedgers, NothingIsDue DEF GoTo, books, Playing, Phases
  <2> QED BY <1>3, <1>9, <2>2, <2>3 DEF SettleOpen, Settle
<1>10. CASE SettleClose
  <2>1. phase = "SettleClose" /\ closeTime \in Int
    BY <1>0, <1>10 DEF SettleClose, closeTime
  <2>2. CASE SettleGroup(closeTime)
    BY <2>1, <2>2, GroupKeeps
  <2>3. CASE Due(closeTime) = {} /\ UNCHANGED books /\ GoTo("MarkClose")
    BY <1>1, <2>1, <2>3, StillLedgers, NothingIsDue DEF GoTo, books, Playing, Phases
  <2> QED BY <1>3, <1>10, <2>2, <2>3 DEF SettleClose, Settle
<1>11. CASE MarkClose
  <2>1. phase = "MarkClose" /\ phase \in Playing
    BY <1>11 DEF MarkClose, Playing, Phases
  <2>2. SameLedgers /\ UNCHANGED history
    BY <1>11, <2>1, MarkedLedgers DEF MarkClose
  <2>3. phase' = "Idle" /\ UNCHANGED <<openTime, settlements>>
    BY <1>11 DEF MarkClose
  <2> QED BY <1>1, <2>1, <2>2, <2>3 DEF FundInv, NothingDue, Playing
<1>12. ASSUME Ledgers', UNCHANGED <<settlements, openTime>>, phase \in Playing,
              \A s \in Symbols : positions'[s] # None =>
                  positions'[s] = positions[s] \/ positions'[s].fundedUntil = openTime,
              phase \in {"GapExits", "OpenFills", "IntrabarFills", "IntrabarExits"},
              phase' \in {"GapExits", "OpenFills", "IntrabarFills", "IntrabarExits",
                          "SettleClose", "Raised"}
       PROVE  FundInv'
  <2>1. NoneDue(positions, settlements, openTime)
        /\ \A s \in Symbols : positions[s] # None => positions[s].fundedUntil <= openTime
    BY <1>12 DEF FundInv, NothingDue, CursorsInTime, Playing, Phases
  <2>2. \A s \in Symbols : positions'[s] # None => positions'[s].fundedUntil <= openTime
    BY <1>0, <1>12, <2>1
  <2>3. NoneDue(positions', settlements', openTime)
    <3>1. \A s \in Symbols : \A t \in DOMAIN settlements[s] : t \in Nat
      BY ExecutionAssumption DEF PaperInv, EngineOK
    <3> QED BY <1>0, <1>12, <2>1, <3>1 DEF NoneDue
  <2> QED BY <1>12, <2>2, <2>3 DEF FundInv, CursorsInTime, NothingDue
<1>13. CASE GapExits
  <2>1. phase = "GapExits" /\ ExitShape(OpeningExit(positions[turn], candles[turn]), "OpenFills")
    BY <1>13, TurnShapes
  <2>2. phase' \in {"GapExits", "OpenFills", "Raised"} /\ UNCHANGED <<settlements, openTime>>
    BY <2>1 DEF ExitShape, Advances
  <2> QED BY <1>12, <2>1, <2>2, ExitPays DEF Playing, Phases
<1>14. CASE IntrabarExits
  <2> DEFINE exits == IntrabarExit(positions[turn], candles[turn], turn \in enteredIntrabar)
  <2>1. phase = "IntrabarExits" /\ ExitShape(exits, "SettleClose")
    BY <1>14, TurnShapes
  <2> HIDE DEF exits
  <2>2. phase' \in {"IntrabarExits", "SettleClose", "Raised"} /\ UNCHANGED <<settlements, openTime>>
    BY <2>1 DEF ExitShape, Advances
  <2> QED BY <1>12, <2>1, <2>2, ExitPays DEF Playing, Phases
<1>15. CASE OpenFills
  <2>1. phase = "OpenFills" /\ FillShape(FillsAtOpen(turn), "IntrabarFills")
    BY <1>15, TurnShapes
  <2>2. phase' \in {"OpenFills", "IntrabarFills"} /\ UNCHANGED <<settlements, openTime>>
    BY <2>1 DEF FillShape, Advances
  <2> QED BY <1>12, <2>1, <2>2, FillPays DEF Playing, Phases
<1>16. CASE IntrabarFills
  <2>1. phase = "IntrabarFills" /\ FillShape(FillsInside(turn), "IntrabarExits")
    BY <1>16, TurnShapes
  <2>2. phase' \in {"IntrabarFills", "IntrabarExits"} /\ UNCHANGED <<settlements, openTime>>
    BY <2>1 DEF FillShape, Advances
  <2> QED BY <1>12, <2>1, <2>2, FillPays DEF Playing, Phases
<1> QED BY <1>4, <1>5, <1>6, <1>7, <1>8, <1>9, <1>10, <1>11, <1>13, <1>14, <1>15, <1>16
        DEF Next, BatchStep

(* Every open position has paid every settlement between its entry and its *)
(* cursor once, every closed trade those up to its exit, and nothing is    *)
(* due when exits and entries are decided or when a batch ends.            *)
THEOREM FundingIsExact == Spec => []FundingExact
<1>1. Init => FundInv
  <2> SUFFICES ASSUME Init PROVE FundInv
    OBVIOUS
  <2>1. phase = "Idle" /\ history = <<>> /\ \A s \in Symbols : positions[s] = None
    BY DEF Init, NewBooks
  <2>2. Len(history) = 0
    BY <2>1
  <2> QED BY <2>1, <2>2 DEF FundInv, Ledgers, CursorsInTime, NothingDue, NoneDue, Playing
<1>2. PaperInv /\ FundInv /\ [Next]_vars => FundInv'
  BY FundInvKept
<1>3. FundInv => FundingExact
  <2> SUFFICES ASSUME FundInv PROVE FundingExact
    OBVIOUS
  <2>1. \A s, d, q, from, to : FundingBetween(s, d, q, from, to) =
                                  FundingOver(settlements, s, d, q, from, to)
    BY DEF FundingBetween, FundingOver, Rates
  <2> QED BY <2>1, NothingIsDue
          DEF FundInv, Ledgers, NothingDue, PaidUp, TradePaid, FundingExact
<1> QED BY <1>1, <1>2, <1>3, PaperInvariant, PTL DEF Spec

-----------------------------------------------------------------------------
(* PART TWO.  The poll cycle and the state store                           *)

-----------------------------------------------------------------------------
(* What a snapshot has to satisfy                                          *)

\* Entries are later than the signals they come from.
Forward(book, trades) ==
    /\ \A s \in Symbols : book[s] # None => book[s].signalTime < book[s].openedAt
    /\ \A i \in 1 .. Len(trades) : trades[i].signalTime < trades[i].entryTime

\* A saved state has the types, the sums and the commitments of PaperInv, was
\* not halted, has a peak, and its watermark covers it.
Resumable(d) ==
    /\ d.free \in Nat /\ d.total \in Nat /\ d.peak \in Nat /\ d.watermark \in Nat
    /\ d.positions \in [Symbols -> Position \cup {None}]
    /\ d.pending \in [Symbols -> Order \cup {None}]
    /\ d.history \in Seq(ClosedTrade)
    /\ d.statistics \in Statistics
    /\ d.halted = FALSE
    /\ d.total = Equity(d.free, d.positions)
    /\ d.free + Exposure(d.positions) = InitialCapital + NetProfit(d.statistics)
    /\ d.statistics = Rebuilt(d.history, d.positions)
    /\ \A s \in Symbols : d.positions[s] = None \/ d.pending[s] = None
    /\ Trades(d.positions) + Trades(d.pending) <= Policy.maxTrades
    /\ Policy.shorts.enabled =>
          Shorts(d.positions) + Shorts(d.pending) <= Policy.shorts.maximum
    /\ d.total <= d.peak
    /\ Forward(d.positions, d.history)
    /\ CoveredBy(d.watermark, d.positions, d.pending, d.history)

-----------------------------------------------------------------------------
(* The inductive invariant                                                 *)

\* A close that left a trade without booking it stops the engine for good.
RaisedLast == closeRaised => phase = "Raised"

\* Only a batch leaves the engine in the middle of something.
IdleOutside == cycle \notin {"Trading", "Down"} => phase = "Idle"

\* The watermark covers the books, or is about to when the batch is through.
Watermarked ==
    /\ Forward(positions, history)
    /\ \A s \in Symbols : pending[s] # None => pending[s].signalTime <= watermark
    /\ cycle \notin {"Trading", "Down"} => CoveredBy(watermark, positions, pending, history)
    /\ cycle = "Trading" =>
          openTime > watermark /\ CoveredBy(openTime, positions, pending, history)
    /\ cycle = "Gathering" => fetched[1] \in Nat /\ fetched[1] > watermark
    /\ cycle = "Analysing" => openTime = watermark

TradingInv ==
    /\ TradingOK
    /\ PaperInv
    /\ RaisedLast
    /\ IdleOutside
    /\ Watermarked
    /\ disk # None => Resumable(disk)

-----------------------------------------------------------------------------
(* The batch                                                               *)

(* A step of a batch that leaves a close unbooked ends the batch.          *)
LEMMA RaisedLastKept ==
    ASSUME PaperInv, RaisedLast, BatchStep PROVE RaisedLast'
<1>1. phase # "Raised"
  BY DEF BatchStep, SettlePrior, MarkOpen, SettleOpen, GapExits, OpenFills, IntrabarFills,
         IntrabarExits, SettleClose, MarkClose
<1>2. ASSUME NEW horizon, Settle(horizon) PROVE UNCHANGED closeRaised
  BY <1>2 DEF Settle, SettleGroup, SettleFails, ApplyFunding, books
<1>3. ASSUME NEW exits, NEW next, NEW observe, ExitTurn(exits, next, observe)
      PROVE  UNCHANGED closeRaised \/ phase' = "Raised"
  BY <1>3 DEF ExitTurn, CloseAt, ClosePosition, Raise, GoTo, books
<1>4. ASSUME NEW eligible, NEW next, NEW observe, FillTurn(eligible, next, observe)
      PROVE  UNCHANGED closeRaised
  BY <1>4 DEF FillTurn, Fill, OpenPosition, CancelAtFill, PassOver, books
<1>5. CASE SettlePrior \/ SettleOpen \/ SettleClose
  BY <1>1, <1>2, <1>5 DEF SettlePrior, SettleOpen, SettleClose, books, RaisedLast
<1>6. CASE MarkOpen \/ MarkClose
  BY <1>1, <1>6 DEF MarkOpen, MarkClose, UpdateMarketPrices, books, RaisedLast
<1>7. CASE GapExits \/ IntrabarExits
  BY <1>1, <1>3, <1>7 DEF GapExits, IntrabarExits, RaisedLast
<1>8. CASE OpenFills \/ IntrabarFills
  BY <1>1, <1>4, <1>8 DEF OpenFills, IntrabarFills, RaisedLast
<1> QED BY <1>5, <1>6, <1>7, <1>8 DEF BatchStep

(* In a batch for a candle later than the watermark, entries are later     *)
(* than their signals and nothing is later than the candle.                *)
LEMMA BatchGoesForward ==
    ASSUME PaperInv, BatchStep, watermark \in Nat, openTime > watermark,
           Forward(positions, history),
           \A s \in Symbols : pending[s] # None => pending[s].signalTime <= watermark,
           CoveredBy(openTime, positions, pending, history)
    PROVE  /\ openTime' = openTime
           /\ Forward(positions', history')
           /\ \A s \in Symbols : pending'[s] # None => pending'[s].signalTime <= watermark
           /\ CoveredBy(openTime, positions', pending', history')
<1>0. /\ DOMAIN positions = Symbols /\ DOMAIN pending = Symbols
      /\ turn \in Symbols /\ openTime \in Nat
  BY DEF PaperInv, EngineOK, Accounts, Sound, BooksOK
<1>1. phase # "Idle"
  BY DEF BatchStep, SettlePrior, MarkOpen, SettleOpen, GapExits, OpenFills, IntrabarFills,
         IntrabarExits, SettleClose, MarkClose
<1>2. ASSUME Quiet, UNCHANGED openTime
      PROVE  /\ openTime' = openTime
             /\ Forward(positions', history')
             /\ \A s \in Symbols : pending'[s] # None => pending'[s].signalTime <= watermark
             /\ CoveredBy(openTime, positions', pending', history')
  BY <1>2 DEF Quiet, SamePositions, SameTerms, Forward, CoveredBy
<1>3. ASSUME NEW exits, NEW next, ExitShape(exits, next)
      PROVE  /\ openTime' = openTime
             /\ Forward(positions', history')
             /\ \A s \in Symbols : pending'[s] # None => pending'[s].signalTime <= watermark
             /\ CoveredBy(openTime, positions', pending', history')
  <2>1. UNCHANGED <<pending, openTime>>
        /\ \A s \in Symbols : positions'[s] # None => positions'[s] = positions[s]
    BY <1>0, <1>3 DEF ExitShape
  <2>2. CASE history' = history
    BY <2>1, <2>2 DEF Forward, CoveredBy
  <2>3. CASE \E x \in exits : history' = Append(history, Record(x)) /\ positions[turn] # None
    <3>1. PICK x \in exits : history' = Append(history, Record(x)) /\ positions[turn] # None
      BY <2>3
    <3>2. /\ Record(x).exitTime = openTime
          /\ Record(x).signalTime = positions[turn].signalTime
          /\ Record(x).entryTime = positions[turn].openedAt
      BY DEF Record, Closed
    <3> DEFINE trade == Record(x)
    <3>3. /\ trade.signalTime < trade.entryTime /\ trade.exitTime <= openTime
          /\ history' = Append(history, trade)
      BY <1>0, <3>1, <3>2 DEF Forward
    <3> HIDE DEF trade
    <3>4. /\ Len(history') = Len(history) + 1
          /\ \A i \in 1 .. Len(history) + 1 :
                \/ i \in 1 .. Len(history) /\ history'[i] = history[i]
                \/ i = Len(history) + 1 /\ history'[i] = trade
      BY <3>3, Appended
    <3>5. Forward(positions', history')
      BY <2>1, <3>3, <3>4 DEF Forward
    <3>6. CoveredBy(openTime, positions', pending', history')
      BY <2>1, <3>3, <3>4 DEF CoveredBy
    <3> QED BY <2>1, <3>5, <3>6
  <2> QED BY <1>3, <2>2, <2>3 DEF ExitShape
<1>4. ASSUME NEW eligible, NEW next, FillShape(eligible, next)
      PROVE  /\ openTime' = openTime
             /\ Forward(positions', history')
             /\ \A s \in Symbols : pending'[s] # None => pending'[s].signalTime <= watermark
             /\ CoveredBy(openTime, positions', pending', history')
  <2>1. /\ UNCHANGED <<history, openTime>>
        /\ \A s \in Symbols : pending'[s] # None => pending'[s] = pending[s]
        /\ \A s \in Symbols : \/ positions'[s] = positions[s]
                              \/ /\ s = turn /\ pending[turn] # None
                                 /\ positions'[s] = FilledPosition(turn)
    BY <1>0, <1>4 DEF FillShape
  <2>2. pending[turn] # None => /\ FilledPosition(turn).openedAt = openTime
                                /\ FilledPosition(turn).signalTime <= watermark
                                /\ FilledPosition(turn).signalTime \in Nat
    BY <1>0 DEF FilledPosition, PaperInv, EngineOK, Order
  <2>3. Forward(positions', history')
    BY <1>0, <2>1, <2>2 DEF Forward
  <2>4. CoveredBy(openTime, positions', pending', history')
    BY <1>0, <2>1, <2>2 DEF CoveredBy
  <2> QED BY <2>1, <2>3, <2>4
<1>5. [Next]_vars
  BY DEF Next
<1>6. CASE StaysInPhase \/ EndsPhase \/ EndsBatch
  BY <1>2, <1>6 DEF StaysInPhase, EndsPhase, EndsBatch, batch
<1>7. CASE RegistersOrder \/ StartsBatch
  BY <1>1, <1>7 DEF RegistersOrder, StartsBatch
<1>8. CASE GapExits \/ IntrabarExits
  BY <1>3, <1>8, TurnShapes
<1>9. CASE OpenFills \/ IntrabarFills
  BY <1>4, <1>9, TurnShapes
<1> QED BY <1>5, <1>6, <1>7, <1>8, <1>9, StepShapes

-----------------------------------------------------------------------------
(* Memory and disk                                                         *)

(* What is saved between batches can be resumed.                           *)
LEMMA SnapshotIsResumable ==
    ASSUME TradingInv, cycle = "Saving", total <= peak
    PROVE  Resumable(Snapshot)
<1>1. phase = "Idle" /\ closeRaised = FALSE
  <2>1. phase = "Idle"
    BY DEF TradingInv, IdleOutside
  <2> QED BY <2>1 DEF TradingInv, RaisedLast, PaperInv, Accounts, Sound, BooksOK
<1>2. /\ Snapshot.free = free /\ Snapshot.total = total /\ Snapshot.positions = positions
      /\ Snapshot.pending = pending /\ Snapshot.history = history
      /\ Snapshot.statistics = statistics /\ Snapshot.peak = peak
      /\ Snapshot.watermark = watermark /\ Snapshot.halted = FALSE
  BY <1>1 DEF Snapshot
<1>3. /\ free \in Nat /\ total \in Nat /\ peak \in Nat /\ watermark \in Nat
      /\ positions \in [Symbols -> Position \cup {None}]
      /\ pending \in [Symbols -> Order \cup {None}]
      /\ history \in Seq(ClosedTrade)
      /\ statistics \in Statistics
  BY DEF TradingInv, TradingOK, PaperInv, EngineOK, Accounts, Sound, BooksOK
<1>4. /\ total = Equity(free, positions)
      /\ free + Exposure(positions) = InitialCapital + NetProfit(statistics)
  BY DEF TradingInv, PaperInv, Accounts, Sound, EquityIdentity, CashConservation
<1>5. statistics = Rebuilt(history, positions)
  BY <1>1, RestoredIs DEF TradingInv, PaperInv, Accounts, StatisticsMatchHistory
<1>6. /\ \A s \in Symbols : positions[s] = None \/ pending[s] = None
      /\ Trades(positions) + Trades(pending) <= Policy.maxTrades
      /\ Policy.shorts.enabled => Shorts(positions) + Shorts(pending) <= Policy.shorts.maximum
  BY DEF TradingInv, PaperInv, Commitments, OneCommitmentPerSymbol, SlotLimit
<1>7. Forward(positions, history) /\ CoveredBy(watermark, positions, pending, history)
  BY DEF TradingInv, Watermarked
<1> HIDE DEF Snapshot
<1> QED BY <1>2, <1>3, <1>4, <1>5, <1>6, <1>7 DEF Resumable

\* Memory after a restart
Restarted ==
    /\ turn' = 1 /\ openTime' = 0 /\ enteredIntrabar' = {} /\ closeRaised' = FALSE
    /\ UNCHANGED settlements

(* Fresh books add up, also after a step that makes them.                  *)
LEMMA NewBooksFit == NewBooks' => Accounts'
<1>1. NewBooks => Accounts
  BY NewBooksSound, NewBooksAccounted DEF Accounts
<1> QED BY <1>1, PTL

(* A fresh engine satisfies the invariant.                                 *)
LEMMA FreshStartKeeps ==
    ASSUME PaperInv, FreshStart, Restarted
    PROVE  /\ PaperInv' /\ phase' = "Idle" /\ watermark' = 0
           /\ Forward(positions', history')
           /\ CoveredBy(0, positions', pending', history')
<1>1. NewBooks'
  BY DEF FreshStart, Restarted, NewBooks
<1>2. Accounts'
  BY <1>1, NewBooksFit
<1>3. EngineOK'
  <2>1. 1 \in Symbols /\ InitialCapital \in Nat
    BY SymbolsAre, PortfolioAssumption
  <2> QED BY <2>1 DEF FreshStart, Restarted, PaperInv, EngineOK, NoOrders, Phases, Playing
<1>4. /\ \A s \in Symbols : positions'[s] = None /\ pending'[s] = None
      /\ history' = <<>>
  BY DEF FreshStart, NoOrders
<1>5. Commitments'
  <2>1. \A i \in 1 .. NumSymbols :
           /\ HeldIn(positions')[i] = 0 /\ ShortsIn(positions')[i] = 0
           /\ HeldIn(pending')[i] = 0 /\ ShortsIn(pending')[i] = 0
    BY <1>4, SymbolsAre DEF HeldIn, HeldAs, ShortsIn, ShortAs
  <2>2. /\ Trades(positions') = 0 /\ Trades(pending') = 0
        /\ Shorts(positions') = 0 /\ Shorts(pending') = 0
    BY <2>1, SumToNothing, CountsAreSums, SymbolsAre
  <2>3. Policy.maxTrades \in Nat /\ Policy.shorts.maximum \in Nat
    BY PolicyAssumption DEF PolicyType
  <2> QED BY <1>4, <2>2, <2>3 DEF Commitments, OneCommitmentPerSymbol, SlotLimit
<1>6. Len(history') = 0
  BY <1>4
<1>7. Forward(positions', history') /\ CoveredBy(0, positions', pending', history')
  BY <1>4, <1>6 DEF Forward, CoveredBy
<1> QED BY <1>2, <1>3, <1>5, <1>7 DEF PaperInv, FreshStart

(* An engine that is resumed from a resumable snapshot satisfies it too.   *)
LEMMA ResumeKeeps ==
    ASSUME PaperInv, Resumable(disk), Resume, Restarted
    PROVE  /\ PaperInv' /\ phase' = "Idle" /\ watermark' \in Nat
           /\ Forward(positions', history')
           /\ CoveredBy(watermark', positions', pending', history')
<1>1. /\ free' = disk.free /\ total' = disk.total /\ positions' = disk.positions
      /\ history' = disk.history /\ statistics' = disk.statistics /\ pending' = disk.pending
      /\ peak' = disk.peak /\ watermark' = disk.watermark /\ phase' = "Idle"
  BY DEF Resume, Resumable
<1>2. BooksOK'
  BY <1>1 DEF Resumable, Restarted, BooksOK
<1>3. EquityIdentity' /\ CashConservation'
  BY <1>1 DEF Resumable, EquityIdentity, CashConservation
<1>4. StatisticsMatchHistory'
  BY <1>1, RestoredIs DEF Resumable, StatisticsMatchHistory
<1>5. EngineOK'
  <2>1. 1 \in Symbols
    BY SymbolsAre, PortfolioAssumption
  <2> QED BY <1>1, <2>1 DEF Resumable, Restarted, PaperInv, EngineOK, Phases, Playing
<1>6. Commitments'
  BY <1>1 DEF Resumable, Commitments, OneCommitmentPerSymbol, SlotLimit
<1>7. PaperInv'
  BY <1>2, <1>3, <1>4, <1>5, <1>6 DEF PaperInv, Accounts, Sound
<1> QED BY <1>1, <1>7 DEF Resumable

-----------------------------------------------------------------------------
(* The steps                                                               *)

(* A step that leaves the engine alone leaves its invariant alone.         *)
LEMMA StillKeeps ==
    ASSUME TradingInv, UNCHANGED vars
    PROVE  PaperInv' /\ RaisedLast' /\ Forward(positions', history')
<1>1. UNCHANGED books /\ UNCHANGED <<pending, batch, peak>>
  BY DEF vars
<1>2. Accounts' /\ Commitments'
  BY <1>1, SameKeeps DEF TradingInv, PaperInv
<1>3. EngineOK'
  BY <1>1 DEF TradingInv, PaperInv, EngineOK, batch
<1>4. RaisedLast'
  BY <1>1 DEF TradingInv, RaisedLast, books, batch
<1>5. Forward(positions', history')
  BY <1>1 DEF TradingInv, Watermarked, books
<1> QED BY <1>2, <1>3, <1>4, <1>5 DEF PaperInv

(* The candles that have begun opened at times.                            *)
LEMMA BegunAreTimes == Begun \subseteq Nat /\ \A time : ClosedBy(time) \subseteq Begun
<1>1. ASSUME NEW n \in 1 .. (now \div BarLength) PROVE n * BarLength \in Nat
  <2>1. n \in Nat /\ BarLength \in Nat
    BY ExecutionAssumption
  <2> QED BY <2>1
<1> QED BY <1>1 DEF Begun, ClosedBy

(* Polling touches neither the engine nor the disk, and a cycle that goes  *)
(* on to trade has a candle that is later than the watermark.              *)
LEMMA PollingKeeps ==
    ASSUME TradingInv,
           Tick \/ BeginCycle \/ FetchKlines \/ Defer \/ Proceed \/ Analysed \/ SaveFails
               \/ BatchRaises \/ Crash
    PROVE  TradingInv'
<1>1. UNCHANGED <<vars, watermark, disk>>
  BY DEF Tick, BeginCycle, FetchKlines, Defer, Proceed, Analysed, SaveFails, BatchRaises,
         Crash, NextStage
<1>2. UNCHANGED <<positions, pending, history, openTime, phase>>
  BY <1>1 DEF vars, books, batch
<1>3. /\ cycle' \in Cycles /\ cycle' # "Trading"
      /\ cycle' = "Analysing" => cycle = "Analysing"
      /\ cycle' = "Gathering" => \/ Proceed
                                 \/ cycle = "Gathering" /\ UNCHANGED fetched
      /\ cycle' # "Down" => cycle \notin {"Trading", "Down"} \/ UNCHANGED cycle
  BY DEF Tick, BeginCycle, FetchKlines, Defer, Proceed, Analysed, SaveFails, BatchRaises,
         Crash, NextStage, poll, Cycles, AllFetched
<1>4. asked' \in 0 .. NumSymbols
  BY PortfolioAssumption DEF TradingInv, TradingOK, Tick, BeginCycle, FetchKlines, Defer, Proceed,
     Analysed, SaveFails, BatchRaises, Crash, NextStage, poll
<1>5. now' \in Nat
  BY DEF TradingInv, TradingOK, Tick, BeginCycle, FetchKlines, Defer, Proceed, Analysed,
         SaveFails, BatchRaises, Crash
<1>6. fetched' \in [Symbols -> Nat \cup {None}]
  <2>1. CASE FetchKlines
    <3>1. fetched' = fetched \/ \E t \in Begun : fetched' = [fetched EXCEPT ![asked + 1] = t]
      BY <2>1, BegunAreTimes DEF FetchKlines
    <3> QED BY <3>1, BegunAreTimes DEF TradingInv, TradingOK
  <2>2. CASE BeginCycle
    BY <2>2 DEF BeginCycle, Unfetched
  <2>3. CASE ~FetchKlines /\ ~BeginCycle
    BY <2>3 DEF TradingInv, TradingOK, Tick, Defer, Proceed, Analysed, SaveFails, BatchRaises,
       Crash, NextStage, poll
  <2> QED BY <2>1, <2>2, <2>3
<1>7. TradingOK'
  BY <1>1, <1>3, <1>4, <1>5, <1>6 DEF TradingInv, TradingOK
<1>8. PaperInv' /\ RaisedLast' /\ Forward(positions', history')
  BY <1>1, StillKeeps
<1>9. IdleOutside'
  BY <1>2, <1>3 DEF TradingInv, IdleOutside
<1>10. Watermarked'
  <2>1. cycle' = "Gathering" => fetched'[1] \in Nat /\ fetched'[1] > watermark
    <3>1. CASE Proceed
      <4>1. PICK t \in {n * BarLength : n \in Bars} :
               t > watermark /\ \A s \in Symbols : fetched[s] = t
        BY <3>1 DEF Proceed, Ready
      <4>2. t \in Nat
        BY ExecutionAssumption
      <4>3. 1 \in Symbols /\ fetched' = fetched
        BY <3>1, SymbolsAre, PortfolioAssumption DEF Proceed, NextStage
      <4> QED BY <4>1, <4>2, <4>3
    <3>2. CASE cycle = "Gathering" /\ UNCHANGED fetched
      BY <3>2 DEF TradingInv, Watermarked
    <3> QED BY <1>3, <3>1, <3>2
  <2>2. cycle' \notin {"Trading", "Down"} => cycle \notin {"Trading", "Down"}
    BY <1>3
  <2> QED BY <1>1, <1>2, <1>3, <1>8, <2>1, <2>2 DEF TradingInv, Watermarked
<1>11. (disk # None => Resumable(disk))'
  BY <1>1 DEF TradingInv
<1> QED BY <1>7, <1>8, <1>9, <1>10, <1>11 DEF TradingInv

(* A batch begins for a candle later than everything in the books.         *)
LEMMA TradeKeeps == ASSUME TradingInv, Trade PROVE TradingInv'
<1>1. PICK c \in [Symbols -> Candles] : StartBatch(fetched[1], c)
  BY DEF Trade
<1>2. fetched[1] \in Nat /\ fetched[1] > watermark /\ watermark \in Nat
  BY DEF Trade, TradingInv, Watermarked, TradingOK
<1>3. PaperInv'
  BY <1>1, <1>2, StartBatchKeeps DEF TradingInv
<1>4. /\ UNCHANGED <<positions, pending, history, closeRaised, watermark, disk, now, fetched>>
      /\ openTime' = fetched[1] /\ phase = "Idle" /\ cycle' = "Trading" /\ asked' = 0
      /\ cycle = "Gathering"
  BY <1>1 DEF StartBatch, books, Trade, NextStage
<1>5. RaisedLast' /\ IdleOutside'
  BY <1>4 DEF TradingInv, RaisedLast, IdleOutside, PaperInv, Accounts, Sound, BooksOK
<1>6. TradingOK'
  BY <1>4, PortfolioAssumption DEF TradingInv, TradingOK, Cycles
<1>7. CoveredBy(openTime', positions', pending', history')
  <2>1. CoveredBy(watermark, positions, pending, history)
    BY <1>4 DEF TradingInv, Watermarked
  <2>2. \A s \in Symbols : /\ positions[s] # None => positions[s].openedAt \in Nat
                           /\ pending[s] # None => pending[s].signalTime \in Nat
    <3>1. \A s \in Symbols : /\ positions[s] # None => positions[s] \in Position
                             /\ pending[s] # None => pending[s] \in Order
      BY DEF TradingInv, PaperInv, EngineOK, Accounts, Sound, BooksOK
    <3> QED BY <3>1 DEF Position, Order
  <2>3. \A i \in 1 .. Len(history) : history[i].exitTime \in Nat
    <3>1. \A i \in 1 .. Len(history) : history[i] \in ClosedTrade
      BY DEF TradingInv, PaperInv, Accounts, Sound, BooksOK
    <3> QED BY <3>1 DEF ClosedTrade
  <2> QED BY <1>2, <1>4, <2>1, <2>2, <2>3 DEF CoveredBy
<1>8. Watermarked'
  BY <1>2, <1>4, <1>7 DEF TradingInv, Watermarked
<1>9. (disk # None => Resumable(disk))'
  BY <1>4 DEF TradingInv
<1> QED BY <1>3, <1>5, <1>6, <1>8, <1>9 DEF TradingInv

(* The steps of the batch.                                                 *)
LEMMA TradingStepKeeps == ASSUME TradingInv, TradingStep PROVE TradingInv'
<1>1. /\ BatchStep /\ cycle = "Trading"
      /\ UNCHANGED <<now, cycle, asked, fetched, watermark, disk>>
  BY DEF TradingStep, poll
<1>2. PaperInv' /\ RaisedLast'
  BY <1>1, BatchStepKeeps, RaisedLastKept DEF TradingInv
<1>3. TradingOK' /\ IdleOutside'
  BY <1>1 DEF TradingInv, TradingOK, IdleOutside
<1>4. /\ openTime' = openTime
      /\ Forward(positions', history')
      /\ \A s \in Symbols : pending'[s] # None => pending'[s].signalTime <= watermark
      /\ CoveredBy(openTime, positions', pending', history')
  BY <1>1, BatchGoesForward DEF TradingInv, TradingOK, Watermarked
<1>5. Watermarked'
  BY <1>1, <1>4 DEF TradingInv, Watermarked
<1>6. (disk # None => Resumable(disk))'
  BY <1>1 DEF TradingInv
<1> QED BY <1>2, <1>3, <1>5, <1>6 DEF TradingInv

(* The watermark that covers the batch is committed.                       *)
LEMMA CommitKeeps == ASSUME TradingInv, Commit PROVE TradingInv'
<1>1. /\ UNCHANGED <<vars, now, disk, fetched>> /\ watermark' = openTime /\ phase = "Idle"
      /\ cycle = "Trading" /\ cycle' = "Analysing" /\ asked' = 0
  BY DEF Commit, NextStage
<1>2. UNCHANGED <<positions, pending, history, openTime, phase>> /\ openTime \in Nat
  BY <1>1 DEF vars, books, batch, TradingInv, PaperInv, EngineOK
<1>3. PaperInv' /\ RaisedLast' /\ Forward(positions', history')
  BY <1>1, StillKeeps
<1>4. TradingOK' /\ IdleOutside'
  BY <1>1, <1>2, PortfolioAssumption DEF TradingInv, TradingOK, IdleOutside, Cycles
<1>5. CoveredBy(openTime, positions, pending, history)
  BY <1>1 DEF TradingInv, Watermarked
<1>6. Watermarked'
  BY <1>1, <1>2, <1>3, <1>5 DEF Watermarked, CoveredBy
<1>7. (disk # None => Resumable(disk))'
  BY <1>1 DEF TradingInv
<1> QED BY <1>3, <1>4, <1>6, <1>7 DEF TradingInv

(* A new order is dated by the candle that was just committed.             *)
LEMMA AnalyseKeeps == ASSUME TradingInv, Analyse PROVE TradingInv'
<1>1. /\ cycle = "Analysing" /\ asked < NumSymbols /\ asked' = asked + 1
      /\ UNCHANGED <<now, cycle, fetched, watermark, disk>>
      /\ openTime = watermark /\ phase = "Idle"
  BY DEF Analyse, TradingInv, Watermarked, IdleOutside
<1>2. asked + 1 \in Symbols /\ asked' \in 0 .. NumSymbols
  BY <1>1, SymbolsAre, PortfolioAssumption DEF TradingInv, TradingOK
<1>3. TradingOK'
  BY <1>1, <1>2 DEF TradingInv, TradingOK
<1>4. (disk # None => Resumable(disk))'
  BY <1>1 DEF TradingInv
<1>5. CASE UNCHANGED vars
  <2>1. PaperInv' /\ RaisedLast' /\ UNCHANGED <<positions, pending, history, openTime, phase>>
    BY <1>5, StillKeeps DEF vars, books, batch
  <2> QED BY <1>1, <1>3, <1>4, <2>1 DEF TradingInv, IdleOutside, Watermarked
<1>6. CASE \E setup \in Setups : ExecuteSetup(asked + 1, setup)
  <2>1. PICK setup \in Setups : ExecuteSetup(asked + 1, setup)
    BY <1>6
  <2>2. PaperInv'
    BY <1>2, <2>1, ExecuteSetupKeeps DEF TradingInv
  <2>3. /\ UNCHANGED <<positions, history, closeRaised, openTime, phase>>
        /\ pending' = [pending EXCEPT ![asked + 1] = NewOrder(setup)]
    BY <2>1 DEF ExecuteSetup, books, batch
  <2>4. RaisedLast' /\ IdleOutside'
    BY <1>1, <2>3 DEF TradingInv, RaisedLast, IdleOutside
  <2>5. NewOrder(setup).signalTime = watermark /\ watermark <= watermark
    BY <1>1 DEF NewOrder, TradingInv, TradingOK
  <2>6. \A s \in Symbols : pending'[s] # None => pending'[s].signalTime <= watermark
    <3>1. DOMAIN pending = Symbols /\ \A s \in Symbols : pending[s] # None =>
                                         pending[s].signalTime <= watermark
      BY DEF TradingInv, PaperInv, EngineOK, Watermarked
    <3> QED BY <2>3, <2>5, <3>1
  <2>7. Watermarked'
    BY <1>1, <2>3, <2>6 DEF TradingInv, Watermarked, CoveredBy
  <2> QED BY <1>3, <1>4, <2>2, <2>4, <2>7 DEF TradingInv
<1> QED BY <1>5, <1>6 DEF Analyse

(* What is saved can be resumed.                                           *)
LEMMA SaveKeeps == ASSUME TradingInv, Save PROVE TradingInv'
<1>1. /\ UNCHANGED <<vars, now, watermark, fetched>> /\ disk' = Snapshot
      /\ cycle = "Saving" /\ cycle' = "Asleep" /\ asked' = 0 /\ peak >= total
  BY DEF Save, NextStage
<1>2. UNCHANGED <<positions, pending, history, openTime, phase>>
  BY <1>1 DEF vars, books, batch
<1>3. PaperInv' /\ RaisedLast' /\ Forward(positions', history')
  BY <1>1, StillKeeps
<1>4. TradingOK' /\ IdleOutside' /\ Watermarked'
  BY <1>1, <1>2, PortfolioAssumption
     DEF TradingInv, TradingOK, IdleOutside, Watermarked, Cycles
<1>5. Resumable(disk')
  <2>1. total <= peak
    BY <1>1 DEF TradingInv, PaperInv, EngineOK, Accounts, Sound, BooksOK
  <2> QED BY <1>1, <2>1, SnapshotIsResumable
<1> QED BY <1>3, <1>4, <1>5 DEF TradingInv, Resumable, CoveredBy, Forward

(* The process starts again, with the saved state if there is one.         *)
LEMMA RestartKeeps == ASSUME TradingInv, Restart PROVE TradingInv'
<1>1. /\ cycle = "Down" /\ cycle' = "Asleep" /\ asked' = 0 /\ UNCHANGED <<fetched, now, disk>>
      /\ Restarted /\ (FreshStart \/ Resume)
  BY DEF Restart, NextStage, Restarted
<1>2. /\ PaperInv' /\ phase' = "Idle" /\ watermark' \in Nat
      /\ Forward(positions', history')
      /\ CoveredBy(watermark', positions', pending', history')
  <2>1. CASE FreshStart
    BY <1>1, <2>1, FreshStartKeeps DEF TradingInv
  <2>2. CASE Resume
    BY <1>1, <2>2, ResumeKeeps DEF TradingInv, Resume
  <2> QED BY <1>1, <2>1, <2>2
<1>3. TradingOK' /\ IdleOutside' /\ RaisedLast'
  BY <1>1, <1>2, PortfolioAssumption
     DEF TradingInv, TradingOK, IdleOutside, RaisedLast, Restarted, Cycles
<1>4. Watermarked'
  BY <1>1, <1>2 DEF Watermarked, CoveredBy
<1>5. (disk # None => Resumable(disk))'
  BY <1>1 DEF TradingInv
<1> QED BY <1>2, <1>3, <1>4, <1>5 DEF TradingInv

(* Through every failed cycle, lost save, crash and restart: the engine's  *)
(* invariant holds, the watermark covers the books, and what is on disk is *)
(* the state of an engine that was not halted and may go on.               *)
THEOREM TradingInvariant == TradingSpec => []TradingInv
<1>1. TradingInit => TradingInv
  <2> SUFFICES ASSUME TradingInit PROVE TradingInv
    OBVIOUS
  <2>1. PaperInv
    BY InitKeeps DEF TradingInit
  <2>2. /\ \A s \in Symbols : positions[s] = None /\ pending[s] = None
        /\ history = <<>> /\ phase = "Idle" /\ closeRaised = FALSE
    BY DEF TradingInit, Init, NewBooks, NoOrders
  <2>3. Len(history) = 0
    BY <2>2
  <2>4. TradingOK
    BY PortfolioAssumption DEF TradingInit, TradingOK, Cycles, Unfetched
  <2>5. RaisedLast /\ IdleOutside /\ Watermarked
    BY <2>2, <2>3 DEF TradingInit, RaisedLast, IdleOutside, Watermarked, Forward, CoveredBy
  <2> QED BY <2>1, <2>4, <2>5 DEF TradingInit, TradingInv
<1>2. ASSUME TradingInv, [TradingNext]_tvars PROVE TradingInv'
  <2>1. CASE UNCHANGED tvars
    <3>1. UNCHANGED vars /\ UNCHANGED <<now, cycle, asked, fetched, watermark, disk>>
      BY <2>1 DEF tvars, poll
    <3>2. PaperInv' /\ RaisedLast' /\ UNCHANGED <<positions, pending, history, openTime, phase>>
      BY <1>2, <3>1, StillKeeps DEF vars, books, batch
    <3> QED BY <1>2, <3>1, <3>2 DEF TradingInv, TradingOK, IdleOutside, Watermarked
  <2>2. CASE TradingNext
    BY <1>2, <2>2, PollingKeeps, TradeKeeps, TradingStepKeeps, CommitKeeps, AnalyseKeeps,
       SaveKeeps, RestartKeeps
       DEF TradingNext, PollStep
  <2> QED BY <1>2, <2>1, <2>2
<1> QED BY <1>1, <1>2, PTL DEF TradingSpec

(* However cycles fail and the program dies and restarts, no entry is      *)
(* earlier than its signal and the watermark, in memory and on disk,       *)
(* covers the books beside it: a candle is never played twice on them.     *)
THEOREM CandlesArePlayedOnce == TradingSpec => []PlayedOnce
<1>1. TradingInv => PlayedOnce
  BY DEF TradingInv, Watermarked, Forward, Resumable, PlayedOnce, NoLookAhead,
         WatermarkCoversBooks
<1> QED BY <1>1, TradingInvariant, PTL

(* Every saved state is one that a running engine may continue from.       *)
THEOREM SnapshotsAreConsistent == TradingSpec => []ConsistentSnapshot
<1>1. TradingInv => ConsistentSnapshot
  BY DEF TradingInv, Resumable, Rebuilt, ConsistentSnapshot
<1> QED BY <1>1, TradingInvariant, PTL

(* The save that would record a halted engine is never reached, so that a  *)
(* restart finds no halt to restore: this is why HaltSurvivesRestart fails.*)
THEOREM NoHaltIsSaved == TradingSpec => [](disk # None => ~disk.halted)
<1>1. TradingInv => (disk # None => ~disk.halted)
  BY DEF TradingInv, Resumable
<1> QED BY <1>1, TradingInvariant, PTL

-----------------------------------------------------------------------------
(* Closed candles                                                          *)

\* In a cycle that goes by a clock at most this far ahead of the exchange,
\* the candles fetched have closed by that clock.
FetchedClosed(ahead) ==
    cycle \in {"Fetching", "Gathering"} =>
        /\ serverTime \in Int /\ serverTime <= now + ahead
        /\ \A s \in Symbols : fetched[s] # None =>
               fetched[s] \in Nat /\ CloseOf(fetched[s]) < serverTime

LEMMA FetchedClosedKept ==
    ASSUME NEW ahead \in Nat, \A drift \in ClockDrifts : drift <= ahead,
           TradingInv, FetchedClosed(ahead), [TradingNext]_tvars
    PROVE  FetchedClosed(ahead)'
<1>0. now \in Nat /\ DOMAIN fetched = Symbols /\ BarLength \in Nat /\ ClockDrifts \subseteq Int
  BY ExecutionAssumption, TradingAssumption DEF TradingInv, TradingOK
<1>1. CASE BeginCycle
  <2>1. /\ now' = now /\ fetched' = Unfetched
        /\ serverTime' = now \/ \E drift \in ClockDrifts : serverTime' = now + drift
    BY <1>1 DEF BeginCycle
  <2>2. serverTime' \in Int /\ serverTime' <= now + ahead
    BY <1>0, <2>1
  <2> QED BY <2>1, <2>2 DEF FetchedClosed, Unfetched
<1>2. CASE FetchKlines
  <2>1. /\ cycle = "Fetching" /\ UNCHANGED <<now, cycle, serverTime>>
        /\ \/ \E t \in ClosedBy(serverTime) : fetched' = [fetched EXCEPT ![asked + 1] = t]
           \/ UNCHANGED fetched
    BY <1>2 DEF FetchKlines
  <2>2. \A t \in ClosedBy(serverTime) : t \in Nat /\ CloseOf(t) < serverTime
    <3>1. \A t \in ClosedBy(serverTime) : t \in Nat /\ serverTime > CloseOf(t)
      BY BegunAreTimes DEF ClosedBy
    <3> QED BY <3>1
  <2>3. serverTime \in Int /\ serverTime <= now + ahead
        /\ \A s \in Symbols : fetched[s] # None =>
               fetched[s] \in Nat /\ CloseOf(fetched[s]) < serverTime
    BY <2>1 DEF FetchedClosed
  <2>4. \A s \in Symbols : fetched'[s] # None =>
            fetched'[s] \in Nat /\ CloseOf(fetched'[s]) < serverTime
    BY <1>0, <2>1, <2>2, <2>3
  <2> QED BY <2>1, <2>3, <2>4 DEF FetchedClosed, CloseOf
<1>3. CASE Tick
  BY <1>0, <1>3 DEF Tick, poll, FetchedClosed, CloseOf
<1>4. CASE UNCHANGED tvars
  BY <1>4 DEF tvars, poll, FetchedClosed, CloseOf
<1>5. CASE Proceed
  BY <1>5 DEF Proceed, AllFetched, NextStage, FetchedClosed, CloseOf
<1>6. CASE Defer \/ Trade \/ Commit \/ Analysed \/ Save \/ SaveFails \/ BatchRaises \/ Crash \/ Restart
  <2>1. cycle' \notin {"Fetching", "Gathering"}
    BY <1>6 DEF Defer, Trade, Commit, Analysed, Save, SaveFails, BatchRaises, Crash, Restart,
       NextStage
  <2> QED BY <2>1 DEF FetchedClosed
<1>7. CASE TradingStep \/ Analyse
  <2>1. cycle' \notin {"Fetching", "Gathering"}
    BY <1>7 DEF TradingStep, Analyse, poll
  <2> QED BY <2>1 DEF FetchedClosed
<1> QED BY <1>1, <1>2, <1>3, <1>4, <1>5, <1>6, <1>7 DEF TradingNext, PollStep

(* The candle of a batch that begins has closed by that clock.             *)
LEMMA TradeIsOfClosed ==
    ASSUME NEW ahead \in Nat, TradingInv, FetchedClosed(ahead), [TradingNext]_tvars,
           cycle = "Gathering", cycle' = "Trading"
    PROVE  CloseOf(openTime') < now + ahead
<1>1. Trade
  BY DEF TradingNext, PollStep, Tick, BeginCycle, FetchKlines, Defer, Proceed, TradingStep,
     Commit, Analyse, Analysed, Save, SaveFails, BatchRaises, Crash, Restart, NextStage, poll,
     tvars
<1>2. openTime' = fetched[1]
  BY <1>1 DEF Trade, StartBatch
<1>3. 1 \in Symbols /\ fetched[1] \in Nat /\ fetched[1] # None
  BY SymbolsAre, PortfolioAssumption, NoneIsNoTime DEF TradingInv, Watermarked
<1>4. /\ CloseOf(fetched[1]) < serverTime /\ serverTime <= now + ahead
      /\ serverTime \in Int
  BY <1>3 DEF FetchedClosed
<1>5. CloseOf(fetched[1]) \in Int /\ now \in Nat
  BY <1>3, ExecutionAssumption DEF CloseOf, TradingInv, TradingOK
<1> QED BY <1>2, <1>4, <1>5

(* A candle is played before it has closed by no more than the local clock *)
(* is ahead of the exchange.                                               *)
THEOREM PlayedWithinDrift ==
    ASSUME NEW ahead \in Nat, \A drift \in ClockDrifts : drift <= ahead
    PROVE  TradingSpec =>
              [][cycle = "Gathering" /\ cycle' = "Trading" =>
                     CloseOf(openTime') < now + ahead]_tvars
<1>1. TradingInit => FetchedClosed(ahead)
  BY DEF TradingInit, FetchedClosed
<1>2. TradingInv /\ FetchedClosed(ahead) /\ [TradingNext]_tvars => FetchedClosed(ahead)'
  BY FetchedClosedKept
<1>3. TradingInv /\ FetchedClosed(ahead) /\ [TradingNext]_tvars =>
         [cycle = "Gathering" /\ cycle' = "Trading" => CloseOf(openTime') < now + ahead]_tvars
  BY TradeIsOfClosed
<1> QED BY <1>1, <1>2, <1>3, TradingInvariant, PTL DEF TradingSpec

(* So a candle is played only after it has closed, if the local clock is   *)
(* never ahead.                                                            *)
THEOREM ClosedCandlesOnly ==
    ASSUME \A drift \in ClockDrifts : drift <= 0
    PROVE  TradingSpec => OnlyClosedCandles
<1>1. TradingInit => FetchedClosed(0)
  BY DEF TradingInit, FetchedClosed
<1>2. TradingInv /\ FetchedClosed(0) /\ [TradingNext]_tvars => FetchedClosed(0)'
  BY FetchedClosedKept
<1>3. TradingInv /\ FetchedClosed(0) /\ [TradingNext]_tvars =>
         [cycle = "Gathering" /\ cycle' = "Trading" => CloseOf(openTime') < now]_tvars
  <2> SUFFICES ASSUME TradingInv, FetchedClosed(0), [TradingNext]_tvars,
                      cycle = "Gathering", cycle' = "Trading"
               PROVE  CloseOf(openTime') < now
    OBVIOUS
  <2>1. CloseOf(openTime') < now + 0
    BY TradeIsOfClosed
  <2> QED BY <2>1 DEF TradingInv, TradingOK
<1> QED BY <1>1, <1>2, <1>3, TradingInvariant, PTL DEF TradingSpec, OnlyClosedCandles
=============================================================================
