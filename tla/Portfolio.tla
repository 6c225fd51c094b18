------------------------------ MODULE Portfolio ------------------------------
(***************************************************************************)
(* PortfolioEngine (application/services/portfolio_engine.py): the single  *)
(* account that every symbol of the paper trader shares, its open          *)
(* positions, its history of closed trades and its running statistics,     *)
(* with the value objects of domain/portfolio.py and the cost models of    *)
(* domain/execution_costs.py.                                              *)
(*                                                                         *)
(* Symbols are numbered by their allocation priority (execution.py,        *)
(* PAPER_SYMBOL_PRIORITY).  The tuple of positions, which callers keep to  *)
(* one per symbol, is a function from symbols.  Prices and quantities are  *)
(* natural numbers; cash is counted in parts of which Unit make one unit   *)
(* of price times quantity, so that fee rates are natural numbers too.     *)
(***************************************************************************)
EXTENDS Fills, Sequences, Sums

CONSTANTS
    NumSymbols,      \* symbols are 1..NumSymbols, 1 having the highest priority
    InitialCapital,  \* cash of a new engine
    None             \* "no position", "no order"

ASSUME PortfolioAssumption ==
    /\ NumSymbols \in Nat \ {0}
    /\ InitialCapital \in Nat \ {0}
    /\ Unit \in Nat \ {0}
    /\ MakerRate \in Nat /\ TakerRate \in Nat /\ SlippageRate \in Nat

Symbols == 1 .. NumSymbols

(* An open position.  fundedUntil is the funding cursor; a position that   *)
(* has paid no funding yet has fundedUntil = openedAt, where the code has  *)
(* None.                                                                   *)
Position ==
    [direction : Directions, entry : Positive, quantity : Positive,
     stop : Positive, target : Positive, openedAt : Nat, signalTime : Nat,
     unrealized : Int, fundingPaid : Int, fundedUntil : Nat]

ClosedTrade ==
    [symbol : Symbols, direction : Directions, entry : Positive, exit : Positive,
     quantity : Positive, reason : CloseReasons, entryTime : Nat, exitTime : Nat, signalTime : Nat,
     gross : Int, fees : Int, slippage : Int, funding : Int]

Statistics ==
    [trades : Int, wins : Int, losses : Int, grossProfit : Int, grossLoss : Int,
     fees : Int, slippage : Int, funding : Int]

ASSUME NoneAssumption == None \notin Position

VARIABLES
    free,         \* account.free_capital
    total,        \* account.total_capital, the equity
    positions,    \* the open position of each symbol, or None
    history,      \* closed trades, oldest first
    statistics,   \* PortfolioStatistics
    closeRaised   \* close_position raised after it had appended to the history

books == <<free, total, positions, history, statistics, closeRaised>>

-----------------------------------------------------------------------------
(* Trades                                                                  *)

\* The record of a close; funding is the funding cost of its execution summary.
Closed(s, price, reason, time, funding) ==
    LET p == positions[s] IN
    [symbol |-> s, direction |-> p.direction, entry |-> p.entry, exit |-> price,
     quantity |-> p.quantity, reason |-> reason, entryTime |-> p.openedAt, exitTime |-> time,
     signalTime |-> p.signalTime, gross |-> Gross(p, price),
     fees |-> EntryFee(p) + ExitFee(p, price, reason),
     slippage |-> Slippage(p, price, reason), funding |-> funding]

(* Sums over a book: a function from symbols to positions (or orders).     *)
SumOver(weight(_), book) ==
    SumTo([s \in Symbols |-> IF book[s] = None THEN 0 ELSE weight(book[s])], NumSymbols)

Unrealized(p) == p.unrealized
FundingPaid(p) == p.fundingPaid

Exposure(book) == SumOver(Size, book)

\* equity of an account with this much free cash and these positions
Equity(cash, book) == cash + Exposure(book) + SumOver(Unrealized, book)

\* AccountState accepts the pair; otherwise its constructor raises ValueError
Representable(equity, cash) == 0 <= cash /\ cash <= equity

-----------------------------------------------------------------------------
(* Statistics                                                              *)

PlusPart(n) == IF n > 0 THEN n ELSE 0

NoTrades ==
    [trades |-> 0, wins |-> 0, losses |-> 0, grossProfit |-> 0, grossLoss |-> 0,
     fees |-> 0, slippage |-> 0, funding |-> 0]

\* Mutation of WithTrade: the funding of the whole life of the position is
\* added on close, also what was counted when it was paid.
WithTradeFundingTwice(stats, trade, paid) ==
    LET win == Net(trade) > 0 IN
    [trades |-> stats.trades + 1,
     wins |-> stats.wins + (IF win THEN 1 ELSE 0),
     losses |-> stats.losses + (IF win THEN 0 ELSE 1),
     grossProfit |-> stats.grossProfit + PlusPart(trade.gross),
     grossLoss |-> stats.grossLoss + PlusPart(-trade.gross),
     fees |-> stats.fees + trade.fees,
     slippage |-> stats.slippage + trade.slippage,
     funding |-> stats.funding + trade.funding]

\* Funding paid while the position was open is already in the statistics.
WithTrade(stats, trade, paid) ==
    LET win == Net(trade) > 0 IN
    [trades |-> stats.trades + 1,
     wins |-> stats.wins + (IF win THEN 1 ELSE 0),
     losses |-> stats.losses + (IF win THEN 0 ELSE 1),
     grossProfit |-> stats.grossProfit + PlusPart(trade.gross),
     grossLoss |-> stats.grossLoss + PlusPart(-trade.gross),
     fees |-> stats.fees + trade.fees,
     slippage |-> stats.slippage + trade.slippage,
     funding |-> stats.funding + trade.funding - paid]

NetProfit(stats) ==
    stats.grossProfit - stats.grossLoss - (stats.fees + stats.slippage + stats.funding)

SumHistory(weight(_)) ==
    SumTo([i \in 1 .. Len(history) |-> weight(history[i])], Len(history))

\* _restored_statistics: what a snapshot without statistics is restored to
RestoredStatistics ==
    [trades |-> Len(history),
     wins |-> SumHistory(LAMBDA h : IF Net(h) > 0 THEN 1 ELSE 0),
     losses |-> SumHistory(LAMBDA h : IF Net(h) > 0 THEN 0 ELSE 1),
     grossProfit |-> SumHistory(LAMBDA h : PlusPart(h.gross)),
     grossLoss |-> SumHistory(LAMBDA h : PlusPart(-h.gross)),
     fees |-> SumHistory(LAMBDA h : h.fees),
     slippage |-> SumHistory(LAMBDA h : h.slippage),
     funding |-> SumHistory(LAMBDA h : h.funding) + SumOver(FundingPaid, positions)]

-----------------------------------------------------------------------------
(* The operations of PortfolioEngine                                       *)

NewBooks ==
    /\ free = InitialCapital
    /\ total = InitialCapital
    /\ positions = [s \in Symbols |-> None]
    /\ history = <<>>
    /\ statistics = NoTrades
    /\ closeRaised = FALSE

\* open_position: equity is left as it was, the new position has no mark yet.
OpenPosition(s, p) ==
    /\ Size(p) <= free
    /\ free' = free - Size(p)
    /\ positions' = [positions EXCEPT ![s] = p]
    /\ UNCHANGED <<total, history, statistics, closeRaised>>

\* Mutation of FreeAfterClose: funding already paid is deducted again.
FreeAfterCloseFundingTwice(s, trade) == free + Size(positions[s]) + Net(trade)

FreeAfterClose(s, trade) ==
    free + Size(positions[s]) + Net(trade) + positions[s].fundingPaid

\* Mutation of TotalAfterClose: the other positions count at cost.
TotalAfterCloseAtCost(s, trade) ==
    FreeAfterClose(s, trade) + Exposure([positions EXCEPT ![s] = None])

TotalAfterClose(s, trade) ==
    Equity(FreeAfterClose(s, trade), [positions EXCEPT ![s] = None])

CloseBookable(s, trade) ==
    Representable(TotalAfterClose(s, trade), FreeAfterClose(s, trade))

\* A position that has paid funding cannot be closed at an earlier time.
CloseInOrder(s, time) ==
    /\ positions[s] # None
    /\ positions[s].fundedUntil > positions[s].openedAt => time >= positions[s].fundedUntil

ClosePosition(s, price, reason, time, funding) ==
    LET trade == Closed(s, price, reason, time, funding) IN
    /\ CloseInOrder(s, time)
    /\ CloseBookable(s, trade)
    /\ history' = Append(history, trade)
    /\ free' = FreeAfterClose(s, trade)
    /\ total' = TotalAfterClose(s, trade)
    /\ positions' = [positions EXCEPT ![s] = None]
    /\ statistics' = WithTrade(statistics, trade, positions[s].fundingPaid)
    /\ UNCHANGED closeRaised

\* The trade is in the history before AccountState refuses the new balance.
CloseRaises(s, price, reason, time, funding) ==
    LET trade == Closed(s, price, reason, time, funding) IN
    /\ CloseInOrder(s, time)
    /\ ~CloseBookable(s, trade)
    /\ history' = Append(history, trade)
    /\ closeRaised' = TRUE
    /\ UNCHANGED <<free, total, positions, statistics>>

\* Positions marked at these prices; symbols without a price keep their mark.
Marked(prices) ==
    [s \in Symbols |->
        IF positions[s] # None /\ s \in DOMAIN prices
        THEN [positions[s] EXCEPT !.unrealized = Gross(positions[s], prices[s])]
        ELSE positions[s]]

MarkBookable(prices) == Representable(Equity(free, Marked(prices)), free)

UpdateMarketPrices(prices) ==
    /\ MarkBookable(prices)
    /\ positions' = Marked(prices)
    /\ total' = Equity(free, Marked(prices))
    /\ UNCHANGED <<free, history, statistics, closeRaised>>

\* Mutation of Payers: the funding cursor is not consulted.
PayersAgain(time, rate) == {s \in DOMAIN rate : positions[s] # None}

(* apply_funding_settlements: one timestamp, one event per symbol.  rate   *)
(* gives, for the symbols that have an event at this time, the cash that a *)
(* long position pays per unit of quantity (settlement mark times rate).   *)
Payers(time, rate) ==
    {s \in DOMAIN rate : positions[s] # None /\ positions[s].fundedUntil < time}

Charge(s, rate) ==
    Sign(positions[s].direction) * (positions[s].quantity * rate[s])

FundingCost(time, rate) ==
    SumTo([s \in Symbols |-> IF s \in Payers(time, rate) THEN Charge(s, rate) ELSE 0],
          NumSymbols)

\* Every event is for an open position and later than its entry.
FundingInOrder(time, rate) ==
    \A s \in DOMAIN rate : positions[s] # None /\ positions[s].openedAt < time

FundingPayable(time, rate) ==
    FundingCost(time, rate) <= free /\ FundingCost(time, rate) <= total

\* When one of the two fails, ValueError is raised before anything changes.

ApplyFunding(time, rate) ==
    /\ FundingInOrder(time, rate)
    /\ Payers(time, rate) # {}
    /\ FundingPayable(time, rate)
    /\ free' = free - FundingCost(time, rate)
    /\ total' = total - FundingCost(time, rate)
    /\ positions' =
          [s \in Symbols |->
              IF s \in Payers(time, rate)
              THEN [positions[s] EXCEPT !.fundingPaid = @ + Charge(s, rate),
                                        !.fundedUntil = time]
              ELSE positions[s]]
    /\ statistics' = [statistics EXCEPT !.funding = @ + FundingCost(time, rate)]
    /\ UNCHANGED <<history, closeRaised>>

\* restore_state from a snapshot that has no statistics of its own
RestoreWithoutStatistics ==
    /\ statistics' = RestoredStatistics
    /\ UNCHANGED <<free, total, positions, history, closeRaised>>

-----------------------------------------------------------------------------
(* Types of the books.                                                     *)
BooksOK ==
    /\ free \in Nat
    /\ total \in Nat
    /\ positions \in [Symbols -> Position \cup {None}]
    /\ history \in Seq(ClosedTrade)
    /\ statistics \in Statistics
    /\ closeRaised \in BOOLEAN

(* Equity is always free cash plus what the open positions are worth at    *)
(* their last marks, whichever operation last touched the account          *)
(* (update_market_prices, close_position and apply_funding_settlements     *)
(* each compute it their own way).                                         *)
EquityIdentity == total = Equity(free, positions)

(* No money is created or lost: cash and the cost of open positions equal  *)
(* the initial capital plus the net profit of the statistics; funding that *)
(* was paid while a position was open is not deducted again on close.      *)
CashConservation ==
    free + Exposure(positions) = InitialCapital + NetProfit(statistics)

(* Under every sequence of calls the account adds up, however the money    *)
(* moved through it.                                                       *)
BooksSound == BooksOK /\ EquityIdentity /\ CashConservation

(* The running statistics are what _restored_statistics would rebuild from *)
(* the closed trades and the funding of open positions, so a snapshot with *)
(* or without its statistics restores the same books.                      *)
StatisticsMatchHistory == closeRaised \/ statistics = RestoredStatistics
=============================================================================
