------------------------------- MODULE Ledger -------------------------------
(***************************************************************************)
(* What the portfolio of the paper trader promises about money, with no    *)
(* prices, symbols or orders in it: cash is either free or held by an open *)
(* position, and whatever is gained or lost is realised exactly once.      *)
(* Module Portfolio implements this specification.                         *)
(***************************************************************************)
EXTENDS Integers

CONSTANT InitialCapital

VARIABLES
    cash,       \* free quote currency
    held,       \* quote currency committed to open positions
    realized    \* profit (or loss) booked so far, all costs included

vars == <<cash, held, realized>>

Init ==
    /\ cash = InitialCapital
    /\ held = 0
    /\ realized = 0

\* A position of this size is opened out of free cash.
Hold(amount) ==
    /\ 0 < amount /\ amount <= cash
    /\ cash' = cash - amount
    /\ held' = held + amount
    /\ UNCHANGED realized

\* A position of this size is closed with this profit.
Release(amount, profit) ==
    /\ 0 < amount /\ amount <= held
    /\ cash + amount + profit >= 0
    /\ cash' = cash + amount + profit
    /\ held' = held - amount
    /\ realized' = realized + profit

\* A cost (or, when negative, a credit) is paid while positions stay open.
Charge(cost) ==
    /\ cost <= cash
    /\ cash' = cash - cost
    /\ realized' = realized - cost
    /\ UNCHANGED held

Next ==
    \/ Hold(held' - held)
    \/ Release(held - held', realized' - realized)
    \/ Charge(cash - cash')

Spec == Init /\ [][Next]_vars
=============================================================================
