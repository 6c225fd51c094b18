--------------------------- MODULE PortfolioCalls ---------------------------
(***************************************************************************)
(* PortfolioEngine under any sequence of calls, in any order and with any  *)
(* repetition, made by a caller that opens at most one position per        *)
(* symbol.  (close_position drops every position of a symbol and pays back *)
(* only the last, so the engine relies on its callers for that.)           *)
(***************************************************************************)
EXTENDS Portfolio

CONSTANTS
    Offered,     \* positions a caller may open
    Prices,      \* prices a caller may report
    Times,       \* times of closes and funding events
    Rates,       \* funding groups: functions from symbols to cash per unit
    Costs,       \* funding costs a caller may put in an execution summary
    MaxTrades    \* bound: length of the history

ASSUME CallsAssumption ==
    /\ \A p \in Offered : /\ p \in Position
                          /\ p.unrealized = 0 /\ p.fundingPaid = 0
                          /\ p.fundedUntil = p.openedAt
    /\ Prices \subseteq Positive
    /\ Times \subseteq Nat
    /\ \A rate \in Rates : DOMAIN rate \subseteq Symbols
                           /\ \A s \in DOMAIN rate : rate[s] \in Int
    /\ Costs \subseteq Int
    /\ MaxTrades \in Nat

Open(s) == \E p \in Offered : positions[s] = None /\ OpenPosition(s, p)

\* An engine whose close_position raised is not called again: nothing in the
\* program catches that exception.
Close(s) ==
    /\ Len(history) < MaxTrades
    /\ \E price \in Prices, reason \in CloseReasons, t \in Times, funding \in Costs :
          \/ ClosePosition(s, price, reason, t, funding)
          \/ CloseRaises(s, price, reason, t, funding)

Mark == \E prices \in [Symbols -> Prices] : UpdateMarketPrices(prices)

MarkOne == \E s \in Symbols, price \in Prices : UpdateMarketPrices([x \in {s} |-> price])

Fund == \E t \in Times, rate \in Rates : ApplyFunding(t, rate)

Init == NewBooks

Next ==
    /\ ~closeRaised
    /\ \/ \E s \in Symbols : Open(s) \/ Close(s)
       \/ Mark
       \/ MarkOne
       \/ Fund
       \/ RestoreWithoutStatistics

Spec == Init /\ [][Next]_books

-----------------------------------------------------------------------------
(* The account as a cash ledger.                                           *)
L == INSTANCE Ledger WITH
        cash <- free, held <- Exposure(positions), realized <- NetProfit(statistics)

(* Whatever the callers do, the engine moves money only as module Ledger   *)
(* allows: into a position, out of it with its profit, or out as funding.  *)
ImplementsLedger == L!Spec

(* A funding event is paid at most once per position: what a position has  *)
(* paid changes only together with its cursor, which only moves forward    *)
(* ("Same-event retries are no-ops").                                      *)
FundingPaidOnce ==
    [][\A s \in Symbols :
          positions[s] # None /\ positions'[s] # None =>
              \/ positions'[s].fundedUntil > positions[s].fundedUntil
              \/ /\ positions'[s].fundedUntil = positions[s].fundedUntil
                 /\ positions'[s].fundingPaid = positions[s].fundingPaid]_books
=============================================================================
