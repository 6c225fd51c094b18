----------------------------- MODULE MCDesktop -----------------------------
(* A symbol whose first series the analysis fails on as long as there is   *)
(* no funding rate with it.                                                *)
EXTENDS MainWindow

AnalysableFew(s, k, f) == ~(s = "eth" /\ k = 1 /\ f = 0)
ScoreSmall(s, k, f) == IF s = "eth" THEN k ELSE 1
=============================================================================
