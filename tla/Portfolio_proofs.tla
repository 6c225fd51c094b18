-------------------------- MODULE Portfolio_proofs --------------------------
(***************************************************************************)
(* What every operation of PortfolioEngine preserves, for any number of    *)
(* symbols, any prices, rates and costs: the types of the books, the       *)
(* equity identity and the conservation of cash; and the running           *)
(* statistics against what _restored_statistics rebuilds from the history  *)
(* of closed trades and the funding of open positions, for any length of   *)
(* the history.  Two theorems per operation; the modules that decide which *)
(* operations are called cite them.                                        *)
(***************************************************************************)
EXTENDS Portfolio, Sums_proofs

Books == [Symbols -> Position \cup {None}]

(* The invariant of the books.                                             *)
Sound == BooksOK /\ EquityIdentity /\ CashConservation

-----------------------------------------------------------------------------
(* Types of the values of one position or trade                            *)

(* A position costs something.                                             *)
LEMMA SizeType == ASSUME NEW p \in Position PROVE Size(p) \in Nat /\ Size(p) > 0
<1>1. p.quantity \in Nat /\ p.quantity > 0 /\ p.entry \in Nat /\ p.entry > 0
  BY DEF Position, Positive
<1>2. p.quantity * p.entry \in Nat /\ p.quantity * p.entry > 0
  BY <1>1
<1>3. Unit \in Nat /\ Unit > 0
  BY PortfolioAssumption
<1> QED BY <1>2, <1>3 DEF Size

(* A direction counts for 1 or -1.                                         *)
LEMMA SignType == ASSUME NEW d PROVE Sign(d) \in Int
BY DEF Sign

(* Profits and costs are integers.                                         *)
LEMMA GrossType ==
    ASSUME NEW p \in Position, NEW price \in Int PROVE Gross(p, price) \in Int
<1>1. p.quantity \in Int /\ p.entry \in Int /\ Unit \in Int
  BY PortfolioAssumption DEF Position, Positive
<1>2. p.quantity * (price - p.entry) \in Int
  BY <1>1
<1>3. Unit * (p.quantity * (price - p.entry)) \in Int
  BY <1>1, <1>2
<1> QED BY <1>3, SignType DEF Gross

(* Fees and slippage are integers.                                         *)
LEMMA CostTypes ==
    ASSUME NEW p \in Position, NEW price \in Int, NEW reason
    PROVE  /\ EntryFee(p) \in Int /\ ExitFee(p, price, reason) \in Int
           /\ Slippage(p, price, reason) \in Int
<1>1. p.quantity \in Int /\ p.entry \in Int
  BY DEF Position, Positive
<1>2. MakerRate \in Int /\ TakerRate \in Int /\ SlippageRate \in Int
  BY PortfolioAssumption
<1>3. p.quantity * p.entry \in Int /\ p.quantity * price \in Int
  BY <1>1
<1>4. EntryFee(p) \in Int
  BY <1>2, <1>3 DEF EntryFee
<1>5. ExitFee(p, price, reason) \in Int
  BY <1>2, <1>3 DEF ExitFee
<1>6. Slippage(p, price, reason) \in Int
  BY <1>2, <1>3 DEF Slippage
<1> QED BY <1>4, <1>5, <1>6

(* The record that close_position appends is a closed trade.               *)
LEMMA ClosedType ==
    ASSUME NEW s \in Symbols, NEW price \in Positive, NEW reason \in CloseReasons,
           NEW time \in Nat, NEW funding \in Int, positions[s] \in Position
    PROVE  Closed(s, price, reason, time, funding) \in ClosedTrade
<1> DEFINE p == positions[s]
<1>1. price \in Int
  BY DEF Positive
<1>2. Gross(p, price) \in Int
  BY <1>1, GrossType
<1>3. EntryFee(p) + ExitFee(p, price, reason) \in Int /\ Slippage(p, price, reason) \in Int
  BY <1>1, CostTypes
<1>4. /\ p.direction \in Directions /\ p.entry \in Positive /\ p.quantity \in Positive
      /\ p.openedAt \in Nat /\ p.signalTime \in Nat
  BY DEF Position
<1> QED BY <1>2, <1>3, <1>4 DEF Closed, ClosedTrade

(* The net profit of a closed trade is an integer.                         *)
LEMMA NetType == ASSUME NEW h \in ClosedTrade PROVE Net(h) \in Int
BY DEF Net, ClosedTrade

-----------------------------------------------------------------------------
(* Sums over a book                                                        *)

SizeOf(q) == IF q = None THEN 0 ELSE Size(q)
MarkOf(q) == IF q = None THEN 0 ELSE q.unrealized

SizesOf(book) == [s \in Symbols |-> SizeOf(book[s])]
MarksOf(book) == [s \in Symbols |-> MarkOf(book[s])]

(* The unrealised profit of a book.                                        *)
Marks(book) == SumOver(Unrealized, book)

(* Symbols are the indices of the sums over a book.                        *)
LEMMA SymbolsAre == Symbols = 1 .. NumSymbols /\ NumSymbols \in Nat
BY PortfolioAssumption DEF Symbols

(* The exposure of a book as a sum of sizes.                               *)
LEMMA ExposureIsSum == ASSUME NEW book PROVE Exposure(book) = SumTo(SizesOf(book), NumSymbols)
BY DEF Exposure, SumOver, SizesOf, SizeOf

(* The unrealised profit of a book as a sum of marks.                      *)
LEMMA MarksIsSum == ASSUME NEW book PROVE Marks(book) = SumTo(MarksOf(book), NumSymbols)
BY DEF Marks, SumOver, MarksOf, MarkOf, Unrealized

(* What the sums add up are integers.                                      *)
LEMMA SizesAreInt ==
    ASSUME NEW book \in Books, NEW s \in Symbols
    PROVE  SizesOf(book)[s] \in Nat /\ MarksOf(book)[s] \in Int
<1>1. book[s] \in Position \/ book[s] = None
  BY DEF Books
<1>2. CASE book[s] = None
  BY <1>2 DEF SizesOf, SizeOf, MarksOf, MarkOf
<1>3. CASE book[s] \in Position
  <2>1. Size(book[s]) \in Nat /\ book[s].unrealized \in Int
    BY <1>3, SizeType DEF Position
  <2> QED BY <2>1 DEF SizesOf, SizeOf, MarksOf, MarkOf
<1> QED BY <1>1, <1>2, <1>3

(* The sums over a book are integers.                                      *)
LEMMA BookSumsType == ASSUME NEW book \in Books PROVE Exposure(book) \in Int /\ Marks(book) \in Int
<1>1. \A i \in 1 .. NumSymbols : SizesOf(book)[i] \in Int /\ MarksOf(book)[i] \in Int
  BY SizesAreInt, SymbolsAre
<1>2. SumTo(SizesOf(book), NumSymbols) \in Int
  BY <1>1, SumToInt, SymbolsAre
<1>3. SumTo(MarksOf(book), NumSymbols) \in Int
  BY <1>1, SumToInt, SymbolsAre
<1> QED BY <1>2, <1>3, ExposureIsSum, MarksIsSum

(* Replacing what one symbol holds changes the sums by the difference.     *)
LEMMA BookSumsReplace ==
    ASSUME NEW book \in Books, NEW s \in Symbols, NEW q \in Position \cup {None}
    PROVE  LET after == [book EXCEPT ![s] = q]
           IN  /\ after \in Books
               /\ Exposure(after) = Exposure(book) - SizeOf(book[s]) + SizeOf(q)
               /\ Marks(after) = Marks(book) - MarkOf(book[s]) + MarkOf(q)
<1> DEFINE after == [book EXCEPT ![s] = q]
<1>1. after \in Books
  BY DEF Books
<1>2. \A i \in 1 .. NumSymbols :
         /\ SizesOf(book)[i] \in Int /\ SizesOf(after)[i] \in Int
         /\ MarksOf(book)[i] \in Int /\ MarksOf(after)[i] \in Int
  BY <1>1, SizesAreInt, SymbolsAre
<1>3. \A i \in 1 .. NumSymbols : i # s =>
         SizesOf(after)[i] = SizesOf(book)[i] /\ MarksOf(after)[i] = MarksOf(book)[i]
  BY SymbolsAre DEF SizesOf, MarksOf, Books
<1>4. /\ SizesOf(book)[s] = SizeOf(book[s]) /\ SizesOf(after)[s] = SizeOf(q)
      /\ MarksOf(book)[s] = MarkOf(book[s]) /\ MarksOf(after)[s] = MarkOf(q)
  BY DEF SizesOf, MarksOf, Books
<1> HIDE DEF after
<1>5. s \in 1 .. NumSymbols /\ NumSymbols \in Nat
  BY SymbolsAre
<1>6. SumTo(SizesOf(after), NumSymbols) =
         SumTo(SizesOf(book), NumSymbols) - SizesOf(book)[s] + SizesOf(after)[s]
  BY <1>2, <1>3, <1>5, SumToReplace
<1>7. SumTo(MarksOf(after), NumSymbols) =
         SumTo(MarksOf(book), NumSymbols) - MarksOf(book)[s] + MarksOf(after)[s]
  BY <1>2, <1>3, <1>5, SumToReplace
<1>8. /\ Exposure(after) = Exposure(book) - SizeOf(book[s]) + SizeOf(q)
      /\ Marks(after) = Marks(book) - MarkOf(book[s]) + MarkOf(q)
  BY <1>4, <1>6, <1>7, ExposureIsSum, MarksIsSum
<1> QED BY <1>1, <1>8 DEF after

(* Books that cost the same have the same exposure.                        *)
LEMMA SameExposure ==
    ASSUME NEW book, NEW after,
           \A s \in Symbols : SizeOf(after[s]) = SizeOf(book[s])
    PROVE  Exposure(after) = Exposure(book)
<1>1. \A i \in 1 .. NumSymbols : SizesOf(after)[i] = SizesOf(book)[i]
  BY SymbolsAre DEF SizesOf
<1>2. SumTo(SizesOf(after), NumSymbols) = SumTo(SizesOf(book), NumSymbols)
  BY <1>1, SumToAgree, SymbolsAre
<1> QED BY <1>2, ExposureIsSum

(* Books with the same marks have the same unrealised profit.              *)
LEMMA SameMarks ==
    ASSUME NEW book, NEW after,
           \A s \in Symbols : MarkOf(after[s]) = MarkOf(book[s])
    PROVE  Marks(after) = Marks(book)
<1>1. \A i \in 1 .. NumSymbols : MarksOf(after)[i] = MarksOf(book)[i]
  BY SymbolsAre DEF MarksOf
<1>2. SumTo(MarksOf(after), NumSymbols) = SumTo(MarksOf(book), NumSymbols)
  BY <1>1, SumToAgree, SymbolsAre
<1> QED BY <1>2, MarksIsSum

-----------------------------------------------------------------------------
(* The invariant, part by part, in terms of the sums above.                *)

(* Equity is cash, cost and unrealised profit.                             *)
LEMMA EquityIs ==
    ASSUME NEW cash, NEW book PROVE Equity(cash, book) = cash + Exposure(book) + Marks(book)
BY DEF Equity, Marks

(* A new engine is sound.                                                  *)
THEOREM NewBooksSound == NewBooks => Sound
<1> SUFFICES ASSUME NewBooks PROVE Sound
  OBVIOUS
<1> DEFINE empty == [s \in Symbols |-> None]
<1>1. \A i \in 1 .. NumSymbols : SizesOf(empty)[i] = 0 /\ MarksOf(empty)[i] = 0
  BY SymbolsAre DEF SizesOf, SizeOf, MarksOf, MarkOf
<1>2. Exposure(empty) = 0 /\ Marks(empty) = 0
  BY <1>1, SumToNothing, SymbolsAre, ExposureIsSum, MarksIsSum
<1>3. BooksOK
  <2>1. InitialCapital \in Nat
    BY PortfolioAssumption
  <2>2. NoTrades \in Statistics
    BY DEF NoTrades, Statistics
  <2>3. <<>> \in Seq(ClosedTrade)
    OBVIOUS
  <2> QED BY <2>1, <2>2, <2>3 DEF NewBooks, BooksOK
<1>4. EquityIdentity
  <2>1. InitialCapital \in Nat
    BY PortfolioAssumption
  <2> QED BY <1>2, <2>1, EquityIs DEF NewBooks, EquityIdentity
<1>5. CashConservation
  <2>1. InitialCapital \in Nat
    BY PortfolioAssumption
  <2>2. NetProfit(NoTrades) = 0
    BY DEF NetProfit, NoTrades
  <2> QED BY <1>2, <2>1, <2>2 DEF NewBooks, CashConservation
<1> QED BY <1>3, <1>4, <1>5 DEF Sound

(* open_position moves cash into a position that is not marked yet.        *)
THEOREM OpenPositionSound ==
    ASSUME Sound, NEW s \in Symbols, NEW p \in Position,
           positions[s] = None, p.unrealized = 0, OpenPosition(s, p)
    PROVE  Sound' /\ Exposure(positions)' = Exposure(positions) + Size(p)
<1>1. p # None
  BY NoneAssumption
<1>2. positions \in Books
  BY DEF Sound, BooksOK, Books
<1>3. /\ positions' \in Books
      /\ Exposure(positions)' = Exposure(positions) + Size(p)
      /\ Marks(positions)' = Marks(positions)
  <2>1. SizeOf(p) = Size(p) /\ MarkOf(p) = 0 /\ SizeOf(positions[s]) = 0 /\ MarkOf(positions[s]) = 0
    BY <1>1 DEF SizeOf, MarkOf
  <2>2. positions' = [positions EXCEPT ![s] = p]
    BY DEF OpenPosition
  <2>3. /\ positions' \in Books
        /\ Exposure(positions') = Exposure(positions) - SizeOf(positions[s]) + SizeOf(p)
        /\ Marks(positions') = Marks(positions) - MarkOf(positions[s]) + MarkOf(p)
    BY <1>2, <2>2, BookSumsReplace
  <2>4. Exposure(positions) \in Int /\ Marks(positions) \in Int /\ Size(p) \in Nat
    BY <1>2, BookSumsType, SizeType
  <2> QED BY <2>1, <2>3, <2>4
<1>4. Exposure(positions) \in Int /\ Marks(positions) \in Int /\ Size(p) \in Nat
  BY <1>2, BookSumsType, SizeType
<1>5. free \in Nat /\ total \in Nat
  BY DEF Sound, BooksOK
<1>6. /\ free' = free - Size(p) /\ Size(p) <= free
      /\ UNCHANGED <<total, history, statistics, closeRaised>>
  BY DEF OpenPosition
<1>7. BooksOK'
  BY <1>3, <1>4, <1>5, <1>6 DEF Sound, BooksOK, Books
<1>8. EquityIdentity'
  BY <1>3, <1>4, <1>5, <1>6, EquityIs DEF Sound, EquityIdentity
<1>9. CashConservation'
  BY <1>3, <1>4, <1>5, <1>6 DEF Sound, CashConservation
<1> QED BY <1>3, <1>7, <1>8, <1>9 DEF Sound

(* A close adds the net profit of the trade to the statistics, and takes   *)
(* out the funding that was already counted.                               *)
LEMMA WithTradeNet ==
    ASSUME NEW stats \in Statistics, NEW trade \in ClosedTrade, NEW paid \in Int
    PROVE  /\ WithTrade(stats, trade, paid) \in Statistics
           /\ NetProfit(stats) \in Int
           /\ NetProfit(WithTrade(stats, trade, paid)) = NetProfit(stats) + Net(trade) + paid
<1>1. /\ trade.gross \in Int /\ trade.fees \in Int
      /\ trade.slippage \in Int /\ trade.funding \in Int
      /\ stats.trades \in Int /\ stats.wins \in Int /\ stats.losses \in Int
      /\ stats.grossProfit \in Int /\ stats.grossLoss \in Int /\ stats.fees \in Int
      /\ stats.slippage \in Int /\ stats.funding \in Int
  BY DEF ClosedTrade, Statistics
<1>2. /\ PlusPart(trade.gross) \in Int /\ PlusPart(-trade.gross) \in Int
      /\ PlusPart(trade.gross) - PlusPart(-trade.gross) = trade.gross
  BY <1>1 DEF PlusPart
<1>3. WithTrade(stats, trade, paid) \in Statistics
  <2>1. Net(trade) \in Int
    BY NetType
  <2> QED BY <1>1, <1>2, <2>1 DEF WithTrade, Statistics
<1> QED BY <1>1, <1>2, <1>3 DEF WithTrade, NetProfit, Net

(* close_position returns the cost of the position and books its profit.   *)
THEOREM ClosePositionSound ==
    ASSUME Sound, NEW s \in Symbols, NEW price \in Positive, NEW reason \in CloseReasons,
           NEW time \in Nat, NEW funding \in Int,
           ClosePosition(s, price, reason, time, funding)
    PROVE  /\ Sound'
           /\ Exposure(positions)' = Exposure(positions) - Size(positions[s])
           /\ NetProfit(statistics)' = NetProfit(statistics)
                 + (free' - free - Size(positions[s]))
<1> DEFINE p == positions[s]
           paid == positions[s].fundingPaid
           trade == Closed(s, price, reason, time, funding)
           after == [positions EXCEPT ![s] = None]
<1>1. p \in Position /\ p # None /\ positions \in Books
  BY DEF Sound, BooksOK, Books, ClosePosition, CloseInOrder
<1>2. trade \in ClosedTrade
  BY <1>1, ClosedType
<1>3. paid \in Int
  BY <1>1 DEF Position
<1>4. Size(p) \in Nat /\ Net(trade) \in Int
  BY <1>1, <1>2, SizeType, NetType
<1>5. /\ after \in Books
      /\ Exposure(after) = Exposure(positions) - Size(p)
      /\ Exposure(positions) \in Int /\ Marks(after) \in Int
  <2>1. SizeOf(p) = Size(p) /\ SizeOf(None) = 0
    BY <1>1 DEF SizeOf
  <2>2. /\ after \in Books
        /\ Exposure(after) = Exposure(positions) - SizeOf(p) + SizeOf(None)
    BY <1>1, BookSumsReplace
  <2>3. Exposure(positions) \in Int /\ Marks(after) \in Int
    BY <1>1, <2>2, BookSumsType
  <2> QED BY <1>4, <2>1, <2>2, <2>3
<1>6. /\ history' = Append(history, trade)
      /\ free' = FreeAfterClose(s, trade)
      /\ total' = TotalAfterClose(s, trade)
      /\ positions' = after
      /\ statistics' = WithTrade(statistics, trade, paid)
      /\ UNCHANGED closeRaised
      /\ Representable(TotalAfterClose(s, trade), FreeAfterClose(s, trade))
  BY DEF ClosePosition, CloseBookable
<1>7. free \in Nat /\ statistics \in Statistics
  BY DEF Sound, BooksOK
<1> HIDE DEF p, paid, trade, after
<1>8. free' = free + Size(p) + Net(trade) + paid
  BY <1>6 DEF FreeAfterClose, p, paid
<1>9. total' = free' + Exposure(after) + Marks(after)
  BY <1>6, EquityIs DEF TotalAfterClose, after
<1>10. free' \in Nat /\ total' \in Nat
  <2>1. free' \in Int
    BY <1>3, <1>4, <1>7, <1>8
  <2>2. Exposure(after) \in Int
    BY <1>4, <1>5
  <2>3. total' \in Int
    BY <1>5, <1>9, <2>1, <2>2
  <2>4. 0 <= free' /\ free' <= total'
    BY <1>6 DEF Representable
  <2> QED BY <2>1, <2>3, <2>4
<1>11. /\ statistics' \in Statistics /\ NetProfit(statistics) \in Int
       /\ NetProfit(statistics') = NetProfit(statistics) + Net(trade) + paid
  <2>1. /\ WithTrade(statistics, trade, paid) \in Statistics
        /\ NetProfit(statistics) \in Int
        /\ NetProfit(WithTrade(statistics, trade, paid)) =
              NetProfit(statistics) + Net(trade) + paid
    BY <1>2, <1>3, <1>7, WithTradeNet
  <2>2. statistics' = WithTrade(statistics, trade, paid)
    BY <1>6
  <2> QED BY <2>1, <2>2
<1>12. BooksOK'
  <2>1. history' \in Seq(ClosedTrade)
    BY <1>2, <1>6 DEF Sound, BooksOK
  <2> QED BY <1>5, <1>6, <1>10, <1>11, <2>1 DEF Sound, BooksOK, Books
<1>13. EquityIdentity'
  BY <1>6, <1>9, EquityIs DEF EquityIdentity
<1>14. CashConservation'
  <2>1. free + Exposure(positions) = InitialCapital + NetProfit(statistics)
    BY DEF Sound, CashConservation
  <2>2. InitialCapital \in Nat
    BY PortfolioAssumption
  <2>3. Exposure(positions') = Exposure(positions) - Size(p)
    BY <1>5, <1>6
  <2>4. free' + Exposure(positions') = InitialCapital + NetProfit(statistics')
    BY <1>3, <1>4, <1>5, <1>7, <1>8, <1>11, <2>1, <2>2, <2>3
  <2> QED BY <2>4 DEF CashConservation
<1>15. /\ Exposure(positions') = Exposure(positions) - Size(p)
       /\ NetProfit(statistics') = NetProfit(statistics) + (free' - free - Size(p))
  <2>1. Exposure(positions') = Exposure(positions) - Size(p)
    BY <1>5, <1>6
  <2>2. NetProfit(statistics') = NetProfit(statistics) + (free' - free - Size(p))
    BY <1>3, <1>4, <1>7, <1>8, <1>11
  <2> QED BY <2>1, <2>2
<1> QED BY <1>12, <1>13, <1>14, <1>15 DEF Sound, p

(* A close that raises has only appended to the history.                   *)
THEOREM CloseRaisesSound ==
    ASSUME Sound, NEW s \in Symbols, NEW price \in Positive, NEW reason \in CloseReasons,
           NEW time \in Nat, NEW funding \in Int,
           CloseRaises(s, price, reason, time, funding)
    PROVE  Sound' /\ UNCHANGED <<free, positions, statistics>>
<1>1. positions[s] \in Position
  BY DEF Sound, BooksOK, CloseRaises, CloseInOrder
<1>2. Closed(s, price, reason, time, funding) \in ClosedTrade
  BY <1>1, ClosedType
<1>3. UNCHANGED <<free, total, positions, statistics>> /\ closeRaised' \in BOOLEAN
  BY DEF CloseRaises
<1>4. history' \in Seq(ClosedTrade)
  BY <1>2 DEF CloseRaises, Sound, BooksOK
<1>5. BooksOK'
  BY <1>3, <1>4 DEF Sound, BooksOK
<1>6. EquityIdentity' /\ CashConservation'
  BY <1>3 DEF Sound, EquityIdentity, CashConservation
<1> QED BY <1>3, <1>5, <1>6 DEF Sound

(* Marking a book changes no size, and gives a book.                       *)
LEMMA MarkedBook ==
    ASSUME positions \in Books, NEW prices, \A s \in DOMAIN prices : prices[s] \in Int
    PROVE  /\ Marked(prices) \in Books
           /\ \A s \in Symbols : SizeOf(Marked(prices)[s]) = SizeOf(positions[s])
<1>1. \A s \in Symbols :
         /\ Marked(prices)[s] \in Position \cup {None}
         /\ SizeOf(Marked(prices)[s]) = SizeOf(positions[s])
  <2> SUFFICES ASSUME NEW s \in Symbols
               PROVE  /\ Marked(prices)[s] \in Position \cup {None}
                      /\ SizeOf(Marked(prices)[s]) = SizeOf(positions[s])
    OBVIOUS
  <2>1. CASE positions[s] # None /\ s \in DOMAIN prices
    <3> DEFINE q == [positions[s] EXCEPT !.unrealized = Gross(positions[s], prices[s])]
    <3>1. positions[s] \in Position
      BY <2>1 DEF Books
    <3>2. Gross(positions[s], prices[s]) \in Int
      BY <2>1, <3>1, GrossType
    <3>3. q \in Position
      BY <3>1, <3>2 DEF Position
    <3>4. q # None
      BY <3>3, NoneAssumption
    <3>5. Size(q) = Size(positions[s])
      BY <3>1 DEF Size, Position
    <3>6. Marked(prices)[s] = q
      BY <2>1 DEF Marked
    <3> QED BY <2>1, <3>3, <3>4, <3>5, <3>6 DEF SizeOf
  <2>2. CASE ~(positions[s] # None /\ s \in DOMAIN prices)
    BY <2>2 DEF Marked, Books
  <2> QED BY <2>1, <2>2
<1>2. Marked(prices) \in Books
  BY <1>1 DEF Books, Marked
<1> QED BY <1>1, <1>2

(* Marking changes no cost, and equity is recomputed from the marks.       *)
THEOREM UpdateMarketPricesSound ==
    ASSUME Sound, NEW prices, \A s \in DOMAIN prices : prices[s] \in Int,
           UpdateMarketPrices(prices)
    PROVE  /\ Sound'
           /\ Exposure(positions)' = Exposure(positions)
           /\ UNCHANGED <<free, statistics>>
<1>1. positions \in Books
  BY DEF Sound, BooksOK, Books
<1>2. \A s \in Symbols : SizeOf(Marked(prices)[s]) = SizeOf(positions[s])
  BY <1>1, MarkedBook
<1>3. Marked(prices) \in Books
  BY <1>1, MarkedBook
<1>4. Exposure(Marked(prices)) = Exposure(positions)
  BY <1>2, SameExposure
<1>5. /\ positions' = Marked(prices)
      /\ total' = Equity(free, Marked(prices))
      /\ 0 <= total'
      /\ UNCHANGED <<free, history, statistics, closeRaised>>
  <2>1. free \in Nat /\ Exposure(Marked(prices)) \in Int /\ Marks(Marked(prices)) \in Int
    BY <1>3, BookSumsType DEF Sound, BooksOK
  <2>2. Equity(free, Marked(prices)) \in Int
    BY <2>1, EquityIs
  <2> QED BY <2>1, <2>2 DEF UpdateMarketPrices, MarkBookable, Representable
<1>6. free \in Nat /\ Exposure(positions) \in Int /\ Marks(Marked(prices)) \in Int
  BY <1>1, <1>3, BookSumsType DEF Sound, BooksOK
<1>7. total' \in Nat
  BY <1>4, <1>5, <1>6, EquityIs
<1>8. BooksOK'
  BY <1>3, <1>5, <1>7 DEF Sound, BooksOK, Books
<1>9. EquityIdentity'
  BY <1>5 DEF EquityIdentity
<1>10. CashConservation'
  BY <1>4, <1>5 DEF Sound, CashConservation
<1> QED BY <1>4, <1>5, <1>8, <1>9, <1>10 DEF Sound

\* what each symbol is charged by a funding group
Charges(time, rate) ==
    [s \in Symbols |-> IF s \in Payers(time, rate) THEN Charge(s, rate) ELSE 0]

(* What a funding group charges is an integer.                             *)
LEMMA ChargesType ==
    ASSUME positions \in Books, NEW time, NEW rate,
           DOMAIN rate \subseteq Symbols, \A s \in DOMAIN rate : rate[s] \in Int
    PROVE  /\ \A s \in Symbols : Charges(time, rate)[s] \in Int
           /\ FundingCost(time, rate) = SumTo(Charges(time, rate), NumSymbols)
           /\ FundingCost(time, rate) \in Int
<1>1. \A s \in Symbols : Charges(time, rate)[s] \in Int
  <2> SUFFICES ASSUME NEW s \in Symbols PROVE Charges(time, rate)[s] \in Int
    OBVIOUS
  <2>1. CASE s \in Payers(time, rate)
    <3>1. positions[s] \in Position /\ rate[s] \in Int
      BY <2>1 DEF Payers, Books
    <3>2. positions[s].quantity \in Int
      BY <3>1 DEF Position, Positive
    <3>3. positions[s].quantity * rate[s] \in Int
      BY <3>1, <3>2
    <3>4. Charge(s, rate) \in Int
      BY <3>3, SignType DEF Charge
    <3> QED BY <2>1, <3>4 DEF Charges
  <2>2. CASE s \notin Payers(time, rate)
    BY <2>2 DEF Charges
  <2> QED BY <2>1, <2>2
<1>2. FundingCost(time, rate) = SumTo(Charges(time, rate), NumSymbols)
  BY DEF FundingCost, Charges
<1>3. SumTo(Charges(time, rate), NumSymbols) \in Int
  BY <1>1, SumToInt, SymbolsAre
<1> QED BY <1>1, <1>2, <1>3

\* what a funding group leaves of the positions
Funded(time, rate) ==
    [s \in Symbols |->
        IF s \in Payers(time, rate)
        THEN [positions[s] EXCEPT !.fundingPaid = @ + Charge(s, rate), !.fundedUntil = time]
        ELSE positions[s]]

(* Paying funding changes what a position has paid, and nothing else that  *)
(* is summed up.                                                           *)
LEMMA FundedPositions ==
    ASSUME positions \in Books, NEW time \in Nat, NEW rate,
           DOMAIN rate \subseteq Symbols, \A s \in DOMAIN rate : rate[s] \in Int
    PROVE  /\ Funded(time, rate) \in Books
           /\ \A s \in Symbols :
                 /\ SizeOf(Funded(time, rate)[s]) = SizeOf(positions[s])
                 /\ MarkOf(Funded(time, rate)[s]) = MarkOf(positions[s])
                 /\ positions[s] = None <=> Funded(time, rate)[s] = None
                 /\ positions[s] # None =>
                       Funded(time, rate)[s].fundingPaid =
                           positions[s].fundingPaid + Charges(time, rate)[s]
<1>1. \A s \in Symbols :
         /\ Funded(time, rate)[s] \in Position \cup {None}
         /\ SizeOf(Funded(time, rate)[s]) = SizeOf(positions[s])
         /\ MarkOf(Funded(time, rate)[s]) = MarkOf(positions[s])
         /\ positions[s] = None <=> Funded(time, rate)[s] = None
         /\ positions[s] # None =>
               Funded(time, rate)[s].fundingPaid =
                   positions[s].fundingPaid + Charges(time, rate)[s]
  <2> SUFFICES ASSUME NEW s \in Symbols
               PROVE  /\ Funded(time, rate)[s] \in Position \cup {None}
                      /\ SizeOf(Funded(time, rate)[s]) = SizeOf(positions[s])
                      /\ MarkOf(Funded(time, rate)[s]) = MarkOf(positions[s])
                      /\ positions[s] = None <=> Funded(time, rate)[s] = None
                      /\ positions[s] # None =>
                            Funded(time, rate)[s].fundingPaid =
                                positions[s].fundingPaid + Charges(time, rate)[s]
    OBVIOUS
  <2>0. Charges(time, rate)[s] \in Int
    BY ChargesType
  <2>1. CASE s \in Payers(time, rate)
    <3> DEFINE c == Charge(s, rate)
               q == [positions[s] EXCEPT !.fundingPaid = @ + c, !.fundedUntil = time]
    <3>1. positions[s] \in Position /\ positions[s] # None
      BY <2>1 DEF Payers, Books
    <3>2. c \in Int /\ Charges(time, rate)[s] = c
      BY <2>0, <2>1 DEF Charges
    <3> HIDE DEF c
    <3>3. q \in Position /\ q.fundingPaid = positions[s].fundingPaid + c
      <4>1. positions[s].fundingPaid + c \in Int
        BY <3>1, <3>2 DEF Position
      <4>2. q = [[positions[s] EXCEPT !.fundingPaid = positions[s].fundingPaid + c]
                    EXCEPT !.fundedUntil = time]
        OBVIOUS
      <4> QED BY <3>1, <4>1, <4>2 DEF Position
    <3>4. q # None
      BY <3>3, NoneAssumption
    <3>5. Size(q) = Size(positions[s]) /\ q.unrealized = positions[s].unrealized
      BY <3>1 DEF Size, Position
    <3>6. Funded(time, rate)[s] = q
      BY <2>1 DEF Funded, c
    <3> QED BY <3>1, <3>2, <3>3, <3>4, <3>5, <3>6 DEF SizeOf, MarkOf
  <2>2. CASE s \notin Payers(time, rate)
    <3>1. Funded(time, rate)[s] = positions[s] /\ Charges(time, rate)[s] = 0
      BY <2>2 DEF Funded, Charges
    <3>2. positions[s] # None => positions[s].fundingPaid \in Int
      BY DEF Books, Position
    <3> QED BY <3>1, <3>2 DEF Books
  <2> QED BY <2>1, <2>2
<1>2. Funded(time, rate) \in Books
  BY <1>1 DEF Books, Funded
<1> QED BY <1>1, <1>2

(* apply_funding_settlements takes the same amount out of cash and equity  *)
(* and counts it once.                                                     *)
THEOREM ApplyFundingSound ==
    ASSUME Sound, NEW time \in Nat, NEW rate,
           DOMAIN rate \subseteq Symbols, \A s \in DOMAIN rate : rate[s] \in Int,
           ApplyFunding(time, rate)
    PROVE  /\ Sound'
           /\ Exposure(positions)' = Exposure(positions)
           /\ NetProfit(statistics)' = NetProfit(statistics) - (free - free')
<1> DEFINE cost == FundingCost(time, rate)
           after == Funded(time, rate)
<1>1. positions \in Books
  BY DEF Sound, BooksOK, Books
<1>2. cost \in Int
  BY <1>1, ChargesType
<1>3. /\ after \in Books
      /\ Exposure(after) = Exposure(positions)
      /\ Marks(after) = Marks(positions)
      /\ Exposure(positions) \in Int /\ Marks(positions) \in Int
  <2>1. /\ after \in Books
        /\ \A s \in Symbols : /\ SizeOf(after[s]) = SizeOf(positions[s])
                              /\ MarkOf(after[s]) = MarkOf(positions[s])
    BY <1>1, FundedPositions
  <2> QED BY <1>1, <2>1, SameExposure, SameMarks, BookSumsType
<1>4. /\ free' = free - cost /\ total' = total - cost
      /\ positions' = after
      /\ statistics' = [statistics EXCEPT !.funding = @ + cost]
      /\ UNCHANGED <<history, closeRaised>>
      /\ cost <= free /\ cost <= total
  BY DEF ApplyFunding, FundingPayable, Funded
<1>5. free \in Nat /\ total \in Nat /\ statistics \in Statistics
  BY DEF Sound, BooksOK
<1> HIDE DEF cost, after
<1>6. /\ statistics' \in Statistics /\ NetProfit(statistics) \in Int
      /\ NetProfit(statistics') = NetProfit(statistics) - cost
  BY <1>2, <1>4, <1>5 DEF NetProfit, Statistics
<1>7. BooksOK'
  BY <1>2, <1>3, <1>4, <1>5, <1>6 DEF Sound, BooksOK, Books
<1>8. EquityIdentity'
  <2>1. total = free + Exposure(positions) + Marks(positions)
    BY EquityIs DEF Sound, EquityIdentity
  <2>2. total' = free' + Exposure(after) + Marks(after)
    BY <1>2, <1>3, <1>4, <1>5, <2>1
  <2> QED BY <1>4, <2>2, EquityIs DEF EquityIdentity
<1>9. Exposure(positions') = Exposure(positions)
  BY <1>3, <1>4
<1>10. CashConservation'
  <2>1. free + Exposure(positions) = InitialCapital + NetProfit(statistics)
    BY DEF Sound, CashConservation
  <2>2. InitialCapital \in Nat
    BY PortfolioAssumption
  <2>3. free' + Exposure(positions') = InitialCapital + NetProfit(statistics')
    BY <1>2, <1>3, <1>4, <1>5, <1>6, <1>9, <2>1, <2>2
  <2> QED BY <2>3 DEF CashConservation
<1>11. NetProfit(statistics') = NetProfit(statistics) - (free - free')
  BY <1>2, <1>4, <1>5, <1>6
<1> QED BY <1>7, <1>8, <1>9, <1>10, <1>11 DEF Sound

-----------------------------------------------------------------------------
(* Statistics against the history                                          *)

\* The columns of a history that the statistics add up.
Wins(h)      == [i \in 1 .. Len(h) |-> IF Net(h[i]) > 0 THEN 1 ELSE 0]
Losses(h)    == [i \in 1 .. Len(h) |-> IF Net(h[i]) > 0 THEN 0 ELSE 1]
Gains(h)     == [i \in 1 .. Len(h) |-> PlusPart(h[i].gross)]
Shortfalls(h) == [i \in 1 .. Len(h) |-> PlusPart(-h[i].gross)]
Fees(h)      == [i \in 1 .. Len(h) |-> h[i].fees]
Slippages(h) == [i \in 1 .. Len(h) |-> h[i].slippage]
Fundings(h)  == [i \in 1 .. Len(h) |-> h[i].funding]

\* The funding that open positions have paid.
PaidOf(q) == IF q = None THEN 0 ELSE q.fundingPaid
PaidsOf(book) == [s \in Symbols |-> PaidOf(book[s])]
Paid(book) == SumTo(PaidsOf(book), NumSymbols)

\* The statistics of a history and a book.
Rebuilt(h, book) ==
    [trades |-> Len(h),
     wins |-> SumTo(Wins(h), Len(h)),
     losses |-> SumTo(Losses(h), Len(h)),
     grossProfit |-> SumTo(Gains(h), Len(h)),
     grossLoss |-> SumTo(Shortfalls(h), Len(h)),
     fees |-> SumTo(Fees(h), Len(h)),
     slippage |-> SumTo(Slippages(h), Len(h)),
     funding |-> SumTo(Fundings(h), Len(h)) + Paid(book)]

(* The statistics of the code, written with the columns above.             *)
LEMMA RestoredIs ==
    /\ RestoredStatistics = Rebuilt(history, positions)
    /\ RestoredStatistics' = Rebuilt(history', positions')
<1>1. RestoredStatistics = Rebuilt(history, positions)
  BY DEF RestoredStatistics, SumHistory, SumOver, FundingPaid, Rebuilt, Wins, Losses, Gains,
         Shortfalls, Fees, Slippages, Fundings, Paid, PaidsOf, PaidOf
<1>2. RestoredStatistics' = Rebuilt(history', positions')
  BY DEF RestoredStatistics, SumHistory, SumOver, FundingPaid, Rebuilt, Wins, Losses, Gains,
         Shortfalls, Fees, Slippages, Fundings, Paid, PaidsOf, PaidOf
<1> QED BY <1>1, <1>2

-----------------------------------------------------------------------------
(* The sum of a column that grew by one entry.                             *)
LEMMA SumAppended ==
    ASSUME NEW n \in Nat, NEW w, NEW v, \A i \in 1 .. n : v[i] = w[i]
    PROVE  SumTo(v, n + 1) = SumTo(w, n) + v[n + 1]
<1>1. SumTo(v, n) = SumTo(w, n)
  BY SumToAgree
<1>2. SumTo(v, n + 1) = SumTo(v, n) + v[n + 1]
  BY SumToStep
<1> QED BY <1>1, <1>2

(* One more closed trade changes every column by what the trade carries.   *)
LEMMA RebuiltAppend ==
    ASSUME NEW h \in Seq(ClosedTrade), NEW trade \in ClosedTrade,
           NEW book, NEW after, NEW paid \in Int,
           Paid(book) \in Int, Paid(after) = Paid(book) - paid
    PROVE  Rebuilt(Append(h, trade), after) = WithTrade(Rebuilt(h, book), trade, paid)
<1> DEFINE g == Append(h, trade)
           n == Len(h)
<1>1. /\ n \in Nat /\ Len(g) = n + 1
      /\ \A i \in 1 .. n : g[i] = h[i]
      /\ g[n + 1] = trade
      /\ \A i \in 1 .. n : i \in 1 .. n + 1
      /\ n + 1 \in 1 .. n + 1
      /\ 1 .. Len(g) = 1 .. n + 1
  OBVIOUS
<1>0. \A i \in 1 .. n : h[i] \in ClosedTrade
  OBVIOUS
<1> HIDE DEF g, n
<1>2. SumTo(Wins(g), n + 1) = SumTo(Wins(h), n) + (IF Net(trade) > 0 THEN 1 ELSE 0)
  <2>1. \A i \in 1 .. n : Wins(g)[i] = Wins(h)[i]
    BY <1>1 DEF Wins, n
  <2>2. Wins(g)[n + 1] = IF Net(trade) > 0 THEN 1 ELSE 0
    BY <1>1 DEF Wins
  <2>3. SumTo(Wins(g), n + 1) = SumTo(Wins(h), n) + Wins(g)[n + 1]
    BY <1>1, <2>1, SumAppended
  <2> QED BY <2>2, <2>3
<1>3. SumTo(Losses(g), n + 1) = SumTo(Losses(h), n) + (IF Net(trade) > 0 THEN 0 ELSE 1)
  <2>1. \A i \in 1 .. n : Losses(g)[i] = Losses(h)[i]
    BY <1>1 DEF Losses, n
  <2>2. Losses(g)[n + 1] = IF Net(trade) > 0 THEN 0 ELSE 1
    BY <1>1 DEF Losses
  <2>3. SumTo(Losses(g), n + 1) = SumTo(Losses(h), n) + Losses(g)[n + 1]
    BY <1>1, <2>1, SumAppended
  <2> QED BY <2>2, <2>3
<1>4. SumTo(Gains(g), n + 1) = SumTo(Gains(h), n) + PlusPart(trade.gross)
  <2>1. \A i \in 1 .. n : Gains(g)[i] = Gains(h)[i]
    BY <1>1 DEF Gains, n
  <2>2. Gains(g)[n + 1] = PlusPart(trade.gross)
    BY <1>1 DEF Gains
  <2>3. SumTo(Gains(g), n + 1) = SumTo(Gains(h), n) + Gains(g)[n + 1]
    BY <1>1, <2>1, SumAppended
  <2> QED BY <2>2, <2>3
<1>5. SumTo(Shortfalls(g), n + 1) = SumTo(Shortfalls(h), n) + PlusPart(-trade.gross)
  <2>1. \A i \in 1 .. n : Shortfalls(g)[i] = Shortfalls(h)[i]
    BY <1>1 DEF Shortfalls, n
  <2>2. Shortfalls(g)[n + 1] = PlusPart(-trade.gross)
    BY <1>1 DEF Shortfalls
  <2>3. SumTo(Shortfalls(g), n + 1) = SumTo(Shortfalls(h), n) + Shortfalls(g)[n + 1]
    BY <1>1, <2>1, SumAppended
  <2> QED BY <2>2, <2>3
<1>6. SumTo(Fees(g), n + 1) = SumTo(Fees(h), n) + trade.fees
  <2>1. \A i \in 1 .. n : Fees(g)[i] = Fees(h)[i]
    BY <1>1 DEF Fees, n
  <2>2. Fees(g)[n + 1] = trade.fees
    BY <1>1 DEF Fees
  <2> QED BY <1>1, <2>1, <2>2, SumAppended
<1>7. SumTo(Slippages(g), n + 1) = SumTo(Slippages(h), n) + trade.slippage
  <2>1. \A i \in 1 .. n : Slippages(g)[i] = Slippages(h)[i]
    BY <1>1 DEF Slippages, n
  <2>2. Slippages(g)[n + 1] = trade.slippage
    BY <1>1 DEF Slippages
  <2> QED BY <1>1, <2>1, <2>2, SumAppended
<1>8. /\ SumTo(Fundings(g), n + 1) = SumTo(Fundings(h), n) + trade.funding
      /\ SumTo(Fundings(h), n) \in Int
  <2>1. \A i \in 1 .. n : Fundings(g)[i] = Fundings(h)[i]
    BY <1>1 DEF Fundings, n
  <2>2. Fundings(g)[n + 1] = trade.funding
    BY <1>1 DEF Fundings
  <2>3. SumTo(Fundings(h), n) \in Int
    <3>1. \A i \in 1 .. n : Fundings(h)[i] \in Int
      BY <1>0 DEF Fundings, ClosedTrade, n
    <3> QED BY <1>1, <3>1, SumToInt
  <2> QED BY <1>1, <2>1, <2>2, <2>3, SumAppended
<1>9. SumTo(Fundings(g), n + 1) + Paid(after)
         = SumTo(Fundings(h), n) + Paid(book) + trade.funding - paid
  <2>1. trade.funding \in Int
    BY DEF ClosedTrade
  <2> QED BY <1>8, <2>1
<1>10. Rebuilt(g, after) =
         [trades |-> n + 1,
          wins |-> SumTo(Wins(g), n + 1), losses |-> SumTo(Losses(g), n + 1),
          grossProfit |-> SumTo(Gains(g), n + 1), grossLoss |-> SumTo(Shortfalls(g), n + 1),
          fees |-> SumTo(Fees(g), n + 1), slippage |-> SumTo(Slippages(g), n + 1),
          funding |-> SumTo(Fundings(g), n + 1) + Paid(after)]
  BY <1>1 DEF Rebuilt
<1>11. WithTrade(Rebuilt(h, book), trade, paid) =
         [trades |-> n + 1,
          wins |-> SumTo(Wins(h), n) + (IF Net(trade) > 0 THEN 1 ELSE 0),
          losses |-> SumTo(Losses(h), n) + (IF Net(trade) > 0 THEN 0 ELSE 1),
          grossProfit |-> SumTo(Gains(h), n) + PlusPart(trade.gross),
          grossLoss |-> SumTo(Shortfalls(h), n) + PlusPart(-trade.gross),
          fees |-> SumTo(Fees(h), n) + trade.fees,
          slippage |-> SumTo(Slippages(h), n) + trade.slippage,
          funding |-> SumTo(Fundings(h), n) + Paid(book) + trade.funding - paid]
  BY DEF Rebuilt, WithTrade, n
<1>12. Rebuilt(g, after) = WithTrade(Rebuilt(h, book), trade, paid)
  BY <1>2, <1>3, <1>4, <1>5, <1>6, <1>7, <1>9, <1>10, <1>11
<1> QED BY <1>12 DEF g

-----------------------------------------------------------------------------
(* The funding that a book has paid                                        *)

(* What positions have paid is an integer.                                 *)
LEMMA PaidsAreInt ==
    ASSUME NEW book \in Books
    PROVE  (\A i \in 1 .. NumSymbols : PaidsOf(book)[i] \in Int) /\ Paid(book) \in Int
<1>1. \A i \in 1 .. NumSymbols : PaidsOf(book)[i] \in Int
  BY SymbolsAre DEF PaidsOf, PaidOf, Books, Position
<1>2. SumTo(PaidsOf(book), NumSymbols) \in Int
  BY <1>1, SumToInt, SymbolsAre
<1> QED BY <1>1, <1>2 DEF Paid

(* Replacing what one symbol holds changes the sum by the difference.      *)
LEMMA PaidReplace ==
    ASSUME NEW book \in Books, NEW s \in Symbols, NEW q \in Position \cup {None}
    PROVE  Paid([book EXCEPT ![s] = q]) = Paid(book) - PaidOf(book[s]) + PaidOf(q)
<1> DEFINE after == [book EXCEPT ![s] = q]
<1>1. after \in Books
  BY DEF Books
<1>2. \A i \in 1 .. NumSymbols : i # s => PaidsOf(after)[i] = PaidsOf(book)[i]
  BY SymbolsAre DEF PaidsOf, Books
<1>3. PaidsOf(book)[s] = PaidOf(book[s]) /\ PaidsOf(after)[s] = PaidOf(q)
  BY DEF PaidsOf, Books
<1> HIDE DEF after
<1>4. \A i \in 1 .. NumSymbols : PaidsOf(book)[i] \in Int /\ PaidsOf(after)[i] \in Int
  BY <1>1, PaidsAreInt
<1>5. s \in 1 .. NumSymbols /\ NumSymbols \in Nat
  BY SymbolsAre
<1>6. SumTo(PaidsOf(after), NumSymbols) =
         SumTo(PaidsOf(book), NumSymbols) - PaidsOf(book)[s] + PaidsOf(after)[s]
  BY <1>2, <1>4, <1>5, SumToReplace
<1>7. Paid(after) = Paid(book) - PaidOf(book[s]) + PaidOf(q)
  BY <1>3, <1>6 DEF Paid
<1> QED BY <1>7 DEF after

(* Books that paid the same have the same sum.                             *)
LEMMA SamePaid ==
    ASSUME NEW book, NEW after, \A s \in Symbols : PaidOf(after[s]) = PaidOf(book[s])
    PROVE  Paid(after) = Paid(book)
<1>1. \A i \in 1 .. NumSymbols : PaidsOf(after)[i] = PaidsOf(book)[i]
  BY SymbolsAre DEF PaidsOf
<1>2. SumTo(PaidsOf(after), NumSymbols) = SumTo(PaidsOf(book), NumSymbols)
  BY <1>1, SumToAgree, SymbolsAre
<1> QED BY <1>2 DEF Paid

(* The statistics depend on the book only through what it has paid.        *)
LEMMA RebuiltSame ==
    ASSUME NEW h, NEW book, NEW after, Paid(after) = Paid(book)
    PROVE  Rebuilt(h, after) = Rebuilt(h, book)
BY DEF Rebuilt

-----------------------------------------------------------------------------
(* Every operation keeps the statistics in step with the history.          *)

(* A new engine has no trades and no statistics.                           *)
THEOREM NewBooksAccounted == NewBooks => StatisticsMatchHistory
<1> SUFFICES ASSUME NewBooks PROVE statistics = Rebuilt(history, positions)
  BY RestoredIs DEF StatisticsMatchHistory
<1>1. \A i \in 1 .. NumSymbols : PaidsOf(positions)[i] = 0
  BY SymbolsAre DEF NewBooks, PaidsOf, PaidOf
<1>2. Paid(positions) = 0
  BY <1>1, SumToNothing, SymbolsAre DEF Paid
<1>3. Len(<<>>) = 0
  OBVIOUS
<1>4. history = <<>> /\ statistics = NoTrades
  BY DEF NewBooks
<1>5. \A w : SumTo(w, 0) = 0
  BY SumToZero
<1>6. Rebuilt(<<>>, positions) = NoTrades
  BY <1>2, <1>3, <1>5 DEF Rebuilt, NoTrades
<1> QED BY <1>4, <1>6

(* open_position: a new position has paid no funding.                      *)
THEOREM OpenPositionAccounted ==
    ASSUME BooksOK, StatisticsMatchHistory, NEW s \in Symbols, NEW p \in Position,
           positions[s] = None, p.fundingPaid = 0, OpenPosition(s, p)
    PROVE  StatisticsMatchHistory'
<1>1. positions \in Books
  BY DEF BooksOK, Books
<1>2. positions' = [positions EXCEPT ![s] = p] /\ UNCHANGED <<history, statistics, closeRaised>>
  BY DEF OpenPosition
<1>3. PaidOf(p) = 0 /\ PaidOf(positions[s]) = 0
  BY DEF PaidOf
<1>4. Paid(positions') = Paid(positions)
  <2>1. Paid(positions') = Paid(positions) - PaidOf(positions[s]) + PaidOf(p)
    BY <1>1, <1>2, PaidReplace
  <2> QED BY <1>1, <1>3, <2>1, PaidsAreInt
<1>5. Rebuilt(history, positions') = Rebuilt(history, positions)
  BY <1>4, RebuiltSame
<1> QED BY <1>2, <1>5, RestoredIs DEF StatisticsMatchHistory

(* close_position: the trade enters both, and the funding that moves from  *)
(* the open position to the trade is counted once.                         *)
THEOREM ClosePositionAccounted ==
    ASSUME BooksOK, StatisticsMatchHistory,
           NEW s \in Symbols, NEW price \in Positive, NEW reason \in CloseReasons,
           NEW time \in Nat, NEW funding \in Int,
           ClosePosition(s, price, reason, time, funding)
    PROVE  StatisticsMatchHistory'
<1> DEFINE paid == positions[s].fundingPaid
           trade == Closed(s, price, reason, time, funding)
<1>1. positions \in Books /\ positions[s] \in Position /\ positions[s] # None
  BY DEF BooksOK, Books, ClosePosition, CloseInOrder
<1>2. trade \in ClosedTrade
  BY <1>1, ClosedType
<1>3. paid \in Int /\ PaidOf(positions[s]) = paid /\ PaidOf(None) = 0
  BY <1>1 DEF Position, PaidOf
<1>4. /\ history' = Append(history, trade)
      /\ positions' = [positions EXCEPT ![s] = None]
      /\ statistics' = WithTrade(statistics, trade, paid)
      /\ UNCHANGED closeRaised
  BY DEF ClosePosition
<1> HIDE DEF paid, trade
<1>5. Paid(positions) \in Int /\ Paid(positions') = Paid(positions) - paid
  <2>1. Paid(positions') = Paid(positions) - PaidOf(positions[s]) + PaidOf(None)
    BY <1>1, <1>4, PaidReplace
  <2>2. Paid(positions) \in Int
    BY <1>1, PaidsAreInt
  <2> QED BY <1>3, <2>1, <2>2
<1>6. Rebuilt(Append(history, trade), positions')
         = WithTrade(Rebuilt(history, positions), trade, paid)
  <2>1. history \in Seq(ClosedTrade)
    BY DEF BooksOK
  <2> QED BY <1>2, <1>3, <1>5, <2>1, RebuiltAppend
<1> QED BY <1>4, <1>6, RestoredIs DEF StatisticsMatchHistory

(* update_market_prices: marks are not funding.                            *)
THEOREM UpdateMarketPricesAccounted ==
    ASSUME BooksOK, StatisticsMatchHistory, NEW prices,
           \A s \in DOMAIN prices : prices[s] \in Int, UpdateMarketPrices(prices)
    PROVE  StatisticsMatchHistory'
<1>1. positions' = Marked(prices) /\ UNCHANGED <<history, statistics, closeRaised>>
  BY DEF UpdateMarketPrices
<1>2. \A s \in Symbols : PaidOf(Marked(prices)[s]) = PaidOf(positions[s])
  <2> SUFFICES ASSUME NEW s \in Symbols PROVE PaidOf(Marked(prices)[s]) = PaidOf(positions[s])
    OBVIOUS
  <2>1. CASE positions[s] # None /\ s \in DOMAIN prices
    <3> DEFINE m == Gross(positions[s], prices[s])
               q == [positions[s] EXCEPT !.unrealized = m]
    <3>1. positions[s] \in Position
      BY <2>1 DEF BooksOK
    <3>2. Marked(prices)[s] = q
      BY <2>1 DEF Marked
    <3> HIDE DEF m
    <3>3. m \in Int
      BY <2>1, <3>1, GrossType DEF m
    <3>4. q \in Position /\ q.fundingPaid = positions[s].fundingPaid
      BY <3>1, <3>3 DEF Position
    <3>5. q # None
      BY <3>4, NoneAssumption
    <3> QED BY <2>1, <3>2, <3>4, <3>5 DEF PaidOf
  <2>2. CASE ~(positions[s] # None /\ s \in DOMAIN prices)
    BY <2>2 DEF Marked
  <2> QED BY <2>1, <2>2
<1>3. Rebuilt(history, positions') = Rebuilt(history, positions)
  BY <1>1, <1>2, SamePaid, RebuiltSame
<1> QED BY <1>1, <1>3, RestoredIs DEF StatisticsMatchHistory

(* apply_funding_settlements: what is charged is counted when it is paid.  *)
THEOREM ApplyFundingAccounted ==
    ASSUME BooksOK, StatisticsMatchHistory, NEW time \in Nat, NEW rate,
           DOMAIN rate \subseteq Symbols, \A s \in DOMAIN rate : rate[s] \in Int,
           ApplyFunding(time, rate)
    PROVE  StatisticsMatchHistory'
<1> DEFINE cost == FundingCost(time, rate)
           after == Funded(time, rate)
<1>1. positions \in Books
  BY DEF BooksOK, Books
<1>2. /\ positions' = after
      /\ statistics' = [statistics EXCEPT !.funding = @ + cost]
      /\ UNCHANGED <<history, closeRaised>>
  BY DEF ApplyFunding, Funded
<1>3. \A i \in 1 .. NumSymbols :
         PaidsOf(after)[i] = PaidsOf(positions)[i] + Charges(time, rate)[i]
  <2> SUFFICES ASSUME NEW i \in Symbols
               PROVE  PaidsOf(after)[i] = PaidsOf(positions)[i] + Charges(time, rate)[i]
    BY SymbolsAre
  <2>1. /\ PaidsOf(after)[i] = PaidOf(after[i])
        /\ PaidsOf(positions)[i] = PaidOf(positions[i])
    BY DEF PaidsOf
  <2>2. CASE positions[i] = None
    <3>1. Charges(time, rate)[i] = 0
      BY <2>2 DEF Charges, Payers
    <3>2. after[i] = None
      BY <1>1, <2>2, FundedPositions
    <3> QED BY <2>1, <2>2, <3>1, <3>2 DEF PaidOf
  <2>3. CASE positions[i] # None
    <3>1. /\ after[i] # None
          /\ after[i].fundingPaid = positions[i].fundingPaid + Charges(time, rate)[i]
      BY <1>1, <2>3, FundedPositions
    <3> QED BY <2>1, <2>3, <3>1 DEF PaidOf
  <2> QED BY <2>2, <2>3
<1>4. /\ \A i \in 1 .. NumSymbols : Charges(time, rate)[i] \in Int
      /\ cost = SumTo(Charges(time, rate), NumSymbols) /\ cost \in Int
  BY <1>1, ChargesType, SymbolsAre
<1> HIDE DEF cost, after
<1>5. Paid(after) = Paid(positions) + cost /\ Paid(positions) \in Int
  <2>1. \A i \in 1 .. NumSymbols : PaidsOf(positions)[i] \in Int
    BY <1>1, PaidsAreInt
  <2>2. SumTo(PaidsOf(after), NumSymbols) =
           SumTo(PaidsOf(positions), NumSymbols) + SumTo(Charges(time, rate), NumSymbols)
    BY <1>3, <1>4, <2>1, SymbolsAre, SumToPlus
  <2> QED BY <1>1, <1>4, <2>2, PaidsAreInt DEF Paid
<1>6. CASE closeRaised
  BY <1>2, <1>6 DEF StatisticsMatchHistory
<1>7. CASE ~closeRaised
  <2>1. statistics = Rebuilt(history, positions)
    BY <1>7, RestoredIs DEF StatisticsMatchHistory
  <2>2. statistics.funding = SumTo(Fundings(history), Len(history)) + Paid(positions)
    BY <2>1 DEF Rebuilt
  <2>3. SumTo(Fundings(history), Len(history)) \in Int
    <3>1. history \in Seq(ClosedTrade)
      BY DEF BooksOK
    <3>2. \A i \in 1 .. Len(history) : history[i] \in ClosedTrade
      BY <3>1
    <3>3. \A i \in 1 .. Len(history) : Fundings(history)[i] \in Int
      BY <3>2 DEF Fundings, ClosedTrade
    <3>4. Len(history) \in Nat
      BY <3>1
    <3> QED BY <3>3, <3>4, SumToInt
  <2>4. statistics.funding + cost = SumTo(Fundings(history), Len(history)) + Paid(after)
    BY <1>4, <1>5, <2>2, <2>3
  <2>5. [statistics EXCEPT !.funding = @ + cost] = Rebuilt(history, after)
    BY <2>1, <2>4 DEF Rebuilt
  <2> QED BY <1>2, <2>5, RestoredIs DEF StatisticsMatchHistory
<1> QED BY <1>6, <1>7

(* A snapshot without statistics restores the statistics it would have had.*)
THEOREM RestoreIsExact ==
    ASSUME StatisticsMatchHistory, ~closeRaised, RestoreWithoutStatistics
    PROVE  UNCHANGED books
BY DEF StatisticsMatchHistory, RestoreWithoutStatistics, books
=============================================================================
