---------------------------- MODULE MainWindow ----------------------------
(***************************************************************************)
(* MainWindow of the desktop program over MarketData: the refresh of all   *)
(* symbols at the start and at each tick of the timer, the analysis of     *)
(* what arrives, the ranking table with its current row, the detail panel  *)
(* and the chart, and closing the window.  The main thread runs one of     *)
(* these at a time; the worker runs beside it.                             *)
(***************************************************************************)
EXTENDS MarketData

CONSTANTS Analysable(_, _, _), \* analyze_series does not raise: symbol, klines, funding
          Score(_, _, _)       \* the score it computes

VARIABLES
  main,    \* "open", "closing", "waiting" (in AsyncWorker.stop), "closed"
  todo,    \* requests of the refresh under way that are still to be made
  latest,  \* when the latest refresh began
  klines,  \* _last_klines
  funding, \* _last_funding
  results, \* _last_results and _last_indicators: the data they were computed from
  arrived, \* the order of _last_results: of first arrival
  row,     \* its current row, 0 without one
  shown    \* the symbol whose result panel and chart show

data == <<klines, funding>>
widgets == <<results, arrived, row, shown>>
wvars == <<main, todo, latest, data, widgets>>
vars == <<mvars, wvars>>

Order == SetToSeq(Symbols)
Refresh == [i \in 1 .. 2 * Len(Order) |->
              <<IF i % 2 = 1 THEN "klines" ELSE "funding", Order[(i + 1) \div 2]>>]

Init ==
  /\ MarketInit
  /\ main = "open" /\ todo = Refresh /\ latest = 0
  /\ klines = [s \in Symbols |-> Nothing] /\ funding = [s \in Symbols |-> Nothing]
  /\ results = [s \in Symbols |-> None]
  /\ arrived = <<>> /\ row = 0 /\ shown = None

---------------------------------------------------------------------------
(* Analysis and widgets. *)
Analysis == [klines : 0 .. MaxTime, funding : -1 .. MaxTime]
ScoreOf(s, r) == Score(s, r.klines, r.funding)

\* update_rows sorts by score; equal scores keep the order of _last_results.
RankedBy(order, res) ==
  LET place(s) == CHOOSE i \in DOMAIN order : order[i] = s
      before(a, b) == \/ ScoreOf(a, res[a]) > ScoreOf(b, res[b])
                      \/ /\ ScoreOf(a, res[a]) = ScoreOf(b, res[b])
                         /\ place(a) < place(b)
  IN SortSeq(order, before)
Ranked == RankedBy(arrived, results)

\* The symbol in the current row, as the table answers selected_symbol.
Selected == IF row = 0 THEN None ELSE Ranked[row]

\* _apply_scoring: a failed analysis leaves everything shown as it was.
\* Otherwise the table is filled again, its current row keeps its number (or
\* becomes the first), and panel and chart follow if the symbol in that row
\* is the one that was analysed.
ApplyScoring(s, k, f) ==
  IF Analysable(s, k, f)
  THEN /\ results' = [results EXCEPT ![s] = [klines |-> k, funding |-> f]]
       /\ arrived' = IF results[s] = None THEN Append(arrived, s) ELSE arrived
       /\ row' = IF row = 0 THEN 1 ELSE row
       /\ shown' = IF RankedBy(arrived', results')[row'] = s THEN s ELSE shown
  ELSE UNCHANGED widgets

OnKlinesReady(s, k) ==
  /\ klines' = [klines EXCEPT ![s] = k] /\ funding' = funding
  /\ ApplyScoring(s, k, funding[s])

\* Mutation of OnFundingReady: new funding waits for the next klines.
OnFundingReadyUnscored(s, f) ==
  /\ funding' = [funding EXCEPT ![s] = f] /\ klines' = klines
  /\ UNCHANGED widgets

OnFundingReady(s, f) ==
  /\ funding' = [funding EXCEPT ![s] = f] /\ klines' = klines
  /\ IF klines[s] # Nothing THEN ApplyScoring(s, klines[s], f) ELSE UNCHANGED widgets

On(kind, s, d) == IF kind = "klines" THEN OnKlinesReady(s, d) ELSE OnFundingReady(s, d)

---------------------------------------------------------------------------
(* The main thread. *)
RefreshAll ==
  /\ main = "open" /\ todo = <<>>
  /\ now > latest /\ latest' = now \* the timer's interval
  /\ todo' = Refresh
  /\ UNCHANGED <<mvars, main, data, widgets>>

\* The next request of _refresh_all.
Request ==
  /\ main = "open" /\ todo # <<>> /\ todo' = Tail(todo) /\ UNCHANGED <<main, latest>>
  /\ LET kind == Head(todo)[1]  s == Head(todo)[2]
     IN \/ kind = "klines" /\ Hit(s) /\ On(kind, s, Get(s))
        \/ Submit(kind, s) /\ UNCHANGED <<data, widgets>>
        \/ AnsweredAtOnce(kind, s) /\ On(kind, s, now)
        \/ Refused /\ UNCHANGED <<data, widgets>>

\* The event loop of the main thread delivers the oldest signal.
Deliver ==
  /\ main \in {"open", "closed"} /\ todo = <<>> /\ signals # <<>>
  /\ signals' = Tail(signals)
  /\ IF Head(signals) = Failed THEN UNCHANGED <<data, widgets>>
     ELSE On(Head(signals).kind, Head(signals).symbol, Head(signals).data)
  /\ UNCHANGED <<now, thread, stopAsked, closeTask, jobs, cache, main, todo, latest>>

\* The user selects a row; opening the chart draws the current row's symbol.
ShowResult(i) ==
  /\ main = "open" /\ todo = <<>> /\ i \in DOMAIN arrived
  /\ row' = i /\ shown' = Ranked[i]
  /\ UNCHANGED <<mvars, main, todo, latest, data, results, arrived>>

\* closeEvent, the stop of the service in its two steps, and the wait.
Close ==
  /\ main = "open" /\ todo = <<>> /\ main' = "closing"
  /\ CloseExchange /\ UNCHANGED <<todo, latest, data, widgets>>
Stop ==
  /\ main = "closing" /\ main' = "waiting"
  /\ StopLoop /\ UNCHANGED <<todo, latest, data, widgets>>
Closed ==
  /\ main = "waiting" /\ main' = "closed"
  /\ \/ thread = "finished" /\ UNCHANGED mvars
     \/ Terminate
  /\ UNCHANGED <<todo, latest, data, widgets>>

---------------------------------------------------------------------------
User == (\E i \in 1 .. Cardinality(Symbols) : ShowResult(i)) \/ Close
MainThread == Request \/ Deliver \/ Stop \/ Closed
Next ==
  \/ MainThread
  \/ RefreshAll
  \/ User
  \/ Worker /\ UNCHANGED wvars
  \/ Tick /\ UNCHANGED wvars

\* Both threads go on, and a request under way ends: the HTTP client times out.
Fairness ==
  /\ WF_vars(MainThread)
  /\ WF_vars(Worker /\ UNCHANGED wvars)
Spec == Init /\ [][Next]_vars /\ Fairness
---------------------------------------------------------------------------
WindowOK ==
  /\ MarketOK
  /\ main \in {"open", "closing", "waiting", "closed"}
  /\ todo \in Seq(Kinds \X Symbols) /\ latest \in 0 .. MaxTime
  /\ klines \in [Symbols -> Nothing .. MaxTime] /\ funding \in [Symbols -> Nothing .. MaxTime]
  /\ results \in [Symbols -> Analysis \cup {None}]
  /\ ToSet(arrived) = {s \in Symbols : results[s] # None} /\ IsInjective(arrived)
  /\ row \in 0 .. Len(arrived)

\* The result of a symbol, and with it the indicators its chart is drawn
\* with, was computed from the latest klines and the latest funding that
\* arrived for it, whichever came last and however the two were served,
\* unless exactly that analysis fails.
ShownIsLatest ==
  \A s \in Symbols :
    klines[s] # Nothing /\ Analysable(s, klines[s], funding[s])
      => results[s] = [klines |-> klines[s], funding |-> funding[s]]

\* Every coroutine handed to the worker ends in a signal, also when the
\* worker is stopped while it is under way, and closing the window ends.
\* Stated for the first two refreshes, which overlap as any later two do.
RequestsAnswered ==
  /\ \A t \in {0, 1} : (\E j \in jobs : j.sent = t) ~> (\A j \in jobs : j.sent # t)
  /\ main = "closing" ~> main = "closed"

\* The window shows each symbol once, by what arrived last for it.
WindowSound == WindowOK /\ ShownIsLatest
===========================================================================
