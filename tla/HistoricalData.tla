--------------------------- MODULE HistoricalData ---------------------------
(***************************************************************************)
(* What a backtest fetches before it starts (TradeBacktester._prefetch in  *)
(* application/services/trade_backtester.py): funding settlements          *)
(* (infrastructure/providers/binance_funding.py), the market context       *)
(* (market_context/history_service.py, providers/binance_context.py) and   *)
(* the candles of every symbol and timeframe; and the point-in-time views  *)
(* on it (domain/market_context.py, domain/market_intelligence).           *)
(*                                                                         *)
(* Candles, settlements and samples are named by their times.  A request   *)
(* of one page may fail; the pages of a context series and the concurrent  *)
(* fetches of its fields share nothing, so one step answers them all.      *)
(***************************************************************************)
EXTENDS Integers, Sequences, FiniteSets, FiniteSetsExt

CONSTANTS
    NumPairs,      \* symbols are 1..NumPairs, in the order asked for
    Bars,          \* candle lengths: of the timeframe, then of the higher one
    CandleTimes,   \* the exchange's candles: symbol -> timeframe -> open times
    Settlements,   \* its funding settlements: symbol -> times
    Unpriced,      \* times of settlements without a mark price
    Samples,       \* its market context: symbol -> field -> times
    CandleLimit, PageLimit, SampleLimit,  \* records per answer; per field
    PageSpan,      \* time that a page of settlements or samples spans
    WarmUp,        \* candles wanted before the window
    DayLength, Windows, MaxRuns,          \* bound: runs of one backtester
    None

ASSUME DataAssumption ==
    /\ NumPairs \in Nat \ {0} /\ MaxRuns \in Nat
    /\ Bars \in Seq(Nat \ {0}) /\ Bars # <<>>
    /\ CandleTimes \in [1 .. NumPairs -> [1 .. Len(Bars) -> SUBSET Nat]]
    /\ Settlements \in [1 .. NumPairs -> SUBSET Nat]
    /\ DayLength \in Nat \ {0} /\ WarmUp \in Nat
    /\ \A w \in Windows : w.first \in Nat /\ w.last \in Nat /\ w.first < w.last
    /\ PageSpan \in Nat \ {0} /\ CandleLimit \in Nat \ {0} /\ PageLimit \in Nat \ {0}

VARIABLES
    window,     \* the dates of the run
    runs,       \* number of runs begun
    stage,      \* "Idle", "Funding", "Context", "Candles" or "Simulate"
    job,        \* symbol, or series, in turn
    cursor, got,  \* where the next page is asked for, what the others held
    fetched,    \* settlements of the symbols done so far
    source,     \* settlements come from the "Client" or a context "Adapter"
    rates, coverage,   \* what the funding provider keeps: records, range
    contexts,   \* _context_cache: symbol -> field -> times
    series,     \* _series_cache: <<symbol, timeframe>> -> open times
    origin      \* window each series was fetched for, and whether in full

fetching == <<job, cursor, got, fetched>>
kept == <<rates, coverage, contexts, series, origin>>
dataVars == <<window, runs, stage, source, fetching, kept>>

Pairs == 1 .. NumPairs
Fields == DOMAIN SampleLimit
Start(w) == w.first * DayLength
End(w) == (w.last + 1) * DayLength

Lesser(a, b) == IF a < b THEN a ELSE b
FirstOf(times, n) == {t \in times : Cardinality({u \in times : u < t}) < n}
LastOf(times, n) == {t \in times : Cardinality({u \in times : u > t}) < n}

-----------------------------------------------------------------------------
(* Point-in-time views                                                     *)

\* slice_by_publish_time, slice_by_availability
Published(times, now) == {t \in times : t <= now}

NotYet == -1

\* get_funding_rate_at: the last published record
LastKnown(times, now) == Max({NotYet} \cup Published(times, now))

Refused == {-1}   \* ValueError

get_funding_events(s, entry, exit) ==
    IF exit = entry THEN {}
    ELSE IF coverage[s] = None THEN Refused
    ELSE IF entry + 1 < coverage[s].from \/ exit >= coverage[s].to THEN Refused
    ELSE LET due == {t \in rates[s] : entry < t /\ t <= exit}
         IN  IF due \cap Unpriced # {} THEN Refused ELSE due

-----------------------------------------------------------------------------
(* Funding settlements: all symbols or none                                *)

GoTo(next, from) ==
    /\ stage' = next /\ job' = 1 /\ cursor' = from /\ got' = {} /\ fetched' = <<>>
    /\ UNCHANGED <<window, runs, source>>

pageEnd == Lesser(cursor + PageSpan, End(window)) - 1
FundingAnswer == FirstOf(Settlements[job] \cap (cursor .. pageEnd), PageLimit)

\* Mutation of AfterPage: the rest of a full page is passed over.
AfterPageSkipping(page) == pageEnd + 1

AfterPage(page) == IF Cardinality(page) >= PageLimit THEN Max(page) + 1 ELSE pageEnd + 1

\* Empty pages are ordinary for the client; the adapter returns None for them,
\* and asks for nothing in a range of one instant.
FundingPage ==
    /\ stage = "Funding" /\ cursor < End(window)
    /\ source = "Adapter" => FundingAnswer # {} /\ cursor < pageEnd
    /\ got' = got \cup FundingAnswer
    /\ cursor' = AfterPage(FundingAnswer)
    /\ UNCHANGED <<window, runs, stage, job, fetched, source, kept>>

NextSymbol ==
    /\ stage = "Funding" /\ cursor >= End(window) /\ job < NumPairs
    /\ fetched' = Append(fetched, got)
    /\ job' = job + 1 /\ cursor' = Start(window) /\ got' = {}
    /\ UNCHANGED <<window, runs, stage, source, kept>>

FundingFetched ==
    /\ stage = "Funding" /\ cursor >= End(window) /\ job = NumPairs
    /\ rates' = Append(fetched, got)
    /\ coverage' = [s \in Pairs |-> [from |-> Start(window), to |-> End(window)]]
    /\ GoTo("Context", 0)
    /\ UNCHANGED <<contexts, series, origin>>

\* _prefetch logs the error and goes on.
FundingFails ==
    /\ stage = "Funding" /\ cursor < End(window)
    /\ GoTo("Context", 0)
    /\ UNCHANGED kept

-----------------------------------------------------------------------------
(* Market context: every field by itself, a failed one is left out         *)

\* Chunks share no instant: the next begins just after the end of the last.
Chunks == {Start(window) + k * (PageSpan + 1) : k \in 0 .. End(window)} \cap (0 .. End(window) - 1)

SamplesOf(s, field) ==
    UNION {FirstOf(Samples[s][field] \cap (c .. Lesser(c + PageSpan, End(window))),
                   SampleLimit[field]) : c \in Chunks}

FetchContext ==
    /\ stage = "Context" /\ job <= NumPairs /\ contexts[job] = None
    /\ \E failed \in SUBSET Fields :
          contexts' = [contexts EXCEPT ![job] =
              [f \in Fields |-> IF f \in failed THEN {} ELSE SamplesOf(job, f)]]
    /\ job' = job + 1
    /\ UNCHANGED <<window, runs, stage, source, cursor, got, fetched, rates, coverage,
                   series, origin>>

KeepContext ==
    /\ stage = "Context" /\ job <= NumPairs /\ contexts[job] # None
    /\ job' = job + 1
    /\ UNCHANGED <<window, runs, stage, source, cursor, got, fetched, kept>>

ContextFetched ==
    /\ stage = "Context" /\ job > NumPairs
    /\ GoTo("Candles", End(window))
    /\ UNCHANGED kept

-----------------------------------------------------------------------------
(* Candles: backwards from the end of the window                           *)

Keys == Pairs \X (1 .. Len(Bars))
NumKeys == NumPairs * Len(Bars)
KeyAt(j) == <<(j - 1) \div Len(Bars) + 1, ((j - 1) % Len(Bars)) + 1>>
key == KeyAt(job)

\* Mutation of Target: the window alone, without the candles to warm up on.
TargetOfWindow(k, w) == Start(w)

Target(k, w) ==
    IF Start(w) > WarmUp * Bars[k[2]] THEN Start(w) - WarmUp * Bars[k[2]] ELSE 0

CandlesUntil(k, time) == LastOf({t \in CandleTimes[k[1]][k[2]] : t <= time}, CandleLimit)

StoreSeries(candles, full) ==
    /\ series' = [series EXCEPT ![key] = candles]
    /\ origin' = [origin EXCEPT ![key] = [window |-> window, full |-> full]]
    /\ job' = job + 1 /\ cursor' = End(window) /\ got' = {}
    /\ UNCHANGED <<window, runs, stage, source, fetched, rates, coverage, contexts>>

CandlePage ==
    /\ stage = "Candles" /\ job <= NumKeys /\ series[key] = None
    /\ LET page == CandlesUntil(key, cursor)
           earliest == Min(page \cup {cursor})
       IN  IF \/ earliest <= Target(key, window)
              \/ Cardinality(page) < CandleLimit
              \/ page \subseteq got
           THEN StoreSeries(got \cup page, TRUE)
           ELSE /\ got' = got \cup page
                /\ cursor' = earliest - 1
                /\ UNCHANGED <<window, runs, stage, job, source, fetched, kept>>

\* The pages before the failed one are kept as if they were all.
CandlePageFails ==
    /\ stage = "Candles" /\ job <= NumKeys /\ series[key] = None
    /\ StoreSeries(got, FALSE)

KeepCandles ==
    /\ stage = "Candles" /\ job <= NumKeys /\ series[key] # None
    /\ job' = job + 1
    /\ UNCHANGED <<window, runs, stage, source, cursor, got, fetched, kept>>

CandlesFetched ==
    /\ stage = "Candles" /\ job > NumKeys
    /\ GoTo("Simulate", 0)
    /\ UNCHANGED kept

-----------------------------------------------------------------------------
NoData ==
    /\ runs = 0 /\ stage = "Idle" /\ window = None
    /\ job = 1 /\ cursor = 0 /\ got = {} /\ fetched = <<>>
    /\ source \in {"Client", "Adapter"}
    /\ rates = [s \in Pairs |-> None] /\ coverage = [s \in Pairs |-> None]
    /\ contexts = [s \in Pairs |-> None]
    /\ series = [k \in Keys |-> None] /\ origin = [k \in Keys |-> None]

\* run, for another window with the same backtester and funding provider
Run(w) ==
    /\ stage = "Idle" /\ runs < MaxRuns
    /\ window' = w /\ runs' = runs + 1
    /\ stage' = "Funding" /\ job' = 1 /\ cursor' = Start(w) /\ got' = {} /\ fetched' = <<>>
    /\ UNCHANGED <<source, kept>>

Fetching ==
    \/ FundingPage \/ NextSymbol \/ FundingFetched \/ FundingFails
    \/ FetchContext \/ KeepContext \/ ContextFetched
    \/ CandlePage \/ CandlePageFails \/ KeepCandles \/ CandlesFetched

-----------------------------------------------------------------------------
(* "Return actual events in (entry, exit]", or raise: whatever failed in   *)
(* whichever run, an answer of the funding provider is all of the          *)
(* exchange's settlements of that interval, and no others.                 *)
SettlementsComplete ==
    \A s \in Pairs, entry \in 0 .. 3 * DayLength :
        \A exit \in entry .. 4 * DayLength :
            LET answer == get_funding_events(s, entry, exit)
            IN  \/ answer = Refused
                \/ answer = {t \in Settlements[s] : entry < t /\ t <= exit}

(* A series that is kept has no holes: from its first candle to the end of *)
(* the window it was fetched for it holds every candle of the exchange,    *)
(* and unless a request failed it reaches back to the warm-up.             *)
SeriesWhole ==
    \A k \in Keys : series[k] # None =>
        LET w == origin[k].window
            missing == {t \in CandleTimes[k[1]][k[2]] : t <= End(w)} \ series[k]
        IN  /\ series[k] \subseteq CandleTimes[k[1]][k[2]]
            /\ \A t \in missing, u \in series[k] : t < u
            /\ origin[k].full =>
               \A t \in missing : t + WarmUp * Bars[k[2]] < Start(w)

(* What a backtest is given of the past, after any failures in any runs:   *)
(* complete settlements or a refusal, and series without holes.            *)
FetchedWhole == SettlementsComplete /\ SeriesWhole
=============================================================================
