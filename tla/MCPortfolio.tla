----------------------------- MODULE MCPortfolio -----------------------------
(***************************************************************************)
(* A small instance of PortfolioCalls: two symbols, a long and a short     *)
(* position on offer, prices on both sides of the entries (4 is twice the  *)
(* entry of the short), funding that debits and credits, and cash that     *)
(* just covers two positions.                                              *)
(***************************************************************************)
EXTENDS PortfolioCalls

Offer(direction, entry, stop, target) ==
    [direction |-> direction, entry |-> entry, quantity |-> 1, stop |-> stop,
     target |-> target, openedAt |-> 1, signalTime |-> 0, unrealized |-> 0,
     fundingPaid |-> 0, fundedUntil |-> 1]

MCOffered == {Offer("BULLISH", 3, 1, 5), Offer("BEARISH", 2, 3, 1)}
MCPrices == {1, 5}
MCTimes == {2, 3}
MCRates == {[s \in {1} |-> 4], [s \in {1, 2} |-> IF s = 1 THEN 6 ELSE -2]}
MCCosts == {1}
=============================================================================
