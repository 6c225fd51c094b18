---------------------------- MODULE MCIntelligence ----------------------------
(***************************************************************************)
(* Two views of market intelligence: reports alone, on many answers of the *)
(* providers, and scans beside the script that fetches the history, on a   *)
(* few answers.  A behaviour is of one of them, and view says of which.    *)
(***************************************************************************)
EXTENDS IntelligenceStore

CONSTANTS coinglass, deribit, alternative

VARIABLE view   \* "REPORTS" or "SCANS"

MCRegistry == <<coinglass, deribit, alternative>>
MCTimeouts == [p \in {coinglass, deribit, alternative} |-> IF p = deribit THEN 2 ELSE 1]

Signal(p, type, direction, event, reliability) ==
    [provider |-> p, type |-> type, direction |-> direction, strength |-> 5, weight |-> 8,
     event |-> event, reliability |-> reliability]

\* Signals that repeat one another, follow one another in steps of the window or
\* turn round, of a type that needs no confirmation and of one that does.
Liquidations == {Signal(coinglass, "liquidations", d, e, "analytics") : d \in {-10, 3}, e \in {0, 1, 3}}
First == {s \in Liquidations : s.event = 0}
Confirmable(p, events) == {Signal(p, "btc_dominance", d, e, "analytics") : d \in {-3, 6}, e \in events}
Volatility == [Signal(deribit, "dvol", 0, 1, "analytics") EXCEPT !.strength = 0]
Rumour == [Signal(alternative, "cpi", 10, 1, "anonymous") EXCEPT !.weight = 1]
Official == Signal(alternative, "cpi", -10, 1, "official")

FromCoinglass ==
    {<<s, t, u>> : s \in First, t, u \in Liquidations}
    \cup {<<s, t, u>> : s, t, u \in Confirmable(coinglass, {0, 1, 3})}
FromDeribit == {<<Volatility>>} \cup {<<s>> : s \in Confirmable(deribit, {0, 3})}
FromOther ==
    {<<Rumour>>, <<Official, Rumour>>} \cup {<<s, Official>> : s \in Confirmable(alternative, {0, 3})}

AllAnswers == (coinglass :> FromCoinglass) @@ (deribit :> FromDeribit) @@ (alternative :> FromOther)
MCAnswers ==
    (coinglass :> {<<Signal(coinglass, "liquidations", 3, 0, "analytics")>>})
    @@ (deribit :> {<<Volatility>>}) @@ (alternative :> {<<Official>>})

\* A report at one time is like a report at another: the reports begin at 0.
R == INSTANCE MarketIntelligence WITH Answers <- AllAnswers, MaxTime <- 2

mcvars == <<ivars, view>>
IntelligenceInit == StoreInit /\ view \in {"REPORTS", "SCANS"}

Reports == view = "REPORTS" /\ UNCHANGED <<storeVars, loaded, features, view>>
Scans == view = "SCANS" /\ UNCHANGED view

IntelligenceNext ==
    \/ Reports /\ R!Next
    \/ Scans /\ StoreNext

\* Time passes, and the event loop runs the timeouts and the waiting gather.
IntelligenceSpec ==
    /\ IntelligenceInit /\ [][IntelligenceNext]_mcvars
    /\ WF_mcvars(Tick /\ UNCHANGED <<storeVars, loaded, features, view>>)
    /\ WF_stage(Gathers)
    /\ \A p \in Providers :
          WF_mcvars(TimeOut(p) /\ UNCHANGED <<storeVars, loaded, features, view>>)
=============================================================================
