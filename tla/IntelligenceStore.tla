--------------------------- MODULE IntelligenceStore ---------------------------
(***************************************************************************)
(* The history of an intelligence signal (the volatility index DVOL): the  *)
(* script that fetches it and merges it into its file, and                 *)
(* IntelligenceFeatureService, which loads the file when a scan begins and *)
(* computes features from it once the live report is there.                *)
(***************************************************************************)
EXTENDS MarketIntelligence

CONSTANTS
    Day,            \* the resolution of the history
    FeatureWindow,  \* observations that a feature looks back on
    Raised          \* the outcome of a call that raised

VARIABLES
    file,       \* the stored observations in the order of the lines, None without a file
    script,     \* the script: "Idle", "Asked", "Merged"
    endTime,    \* until when the script asked
    merge,      \* what it is about to write, and whether it could read the file
    loaded,     \* the series of the feature service
    features    \* what get_features returned or raised

storeVars == <<file, script, endTime, merge>>
scanVars == <<stage, confirming, started, answers, report, loaded, features>>
ivars == <<vars, storeVars, loaded, features>>

NoMerge == [items |-> <<>>, readable |-> TRUE]
Interim == 0    \* the value of a day that is not over

-----------------------------------------------------------------------------
(* The script and HistoricalIntelligenceStore *)

\* The answer of the exchange to a request for the days until a time: one entry
\* for each, the running day with the value it has so far; a finished day may be
\* revised between two requests.  An observation is available when its day ends.
Observations(until, value) ==
    [d \in 1 .. (until \div Day) + 1 |->
        [available |-> d * Day, ingested |-> now,
         value |-> IF d * Day <= now THEN value ELSE Interim]]

\* Mutation of Fetched: the answer is taken as it is.
FetchedAll(until, value) == Observations(until, value)

\* fetch_historical_signals: only what was available when the script asked.
Fetched(until, value) ==
    SelectSeq(Observations(until, value), LAMBDA o : o.available <= until)

Availabilities(items) == {items[i].available : i \in DOMAIN items}
ByAvailability(items) == SortSeq(items, LAMBDA o, p : o.available < p.available)

\* load_series: a file that cannot be read is logged and counts as absent.
Load(readable) == IF file = None \/ ~readable THEN <<>> ELSE ByAvailability(file)

\* Mutation of Merged: the newer observation wins.
MergedNewest(existing, new) ==
    ByAvailability(SelectSeq(existing, LAMBDA o : o.available \notin Availabilities(new)) \o new)

\* append_series: what is already known under an availability stays.
Merged(existing, new) ==
    ByAvailability(existing \o SelectSeq(new, LAMBDA o : o.available \notin Availabilities(existing)))

Ask ==
    /\ script = "Idle" /\ script' = "Asked" /\ endTime' = now
    /\ UNCHANGED <<now, file, merge, scanVars>>

Append_series(new, readable) ==
    LET existing == Load(readable)
        items == Merged(existing, new)
    IN IF Len(items) = Len(existing)
       THEN script' = "Idle" /\ UNCHANGED merge
       ELSE script' = "Merged" /\ merge' = [items |-> items, readable |-> readable]

Receive ==
    /\ script = "Asked"
    /\ \E value \in {1, 2}, readable \in BOOLEAN : Append_series(Fetched(endTime, value), readable)
    /\ UNCHANGED <<now, file, endTime, scanVars>>

\* The temporary file takes the place of the old one.
Replace ==
    /\ script = "Merged" /\ file' = merge.items
    /\ script' = "Idle" /\ merge' = NoMerge
    /\ UNCHANGED <<now, endTime, scanVars>>

\* The request fails, the temporary file cannot be written, or the script dies.
GiveUp ==
    /\ script # "Idle" /\ script' = "Idle" /\ merge' = NoMerge
    /\ UNCHANGED <<now, file, endTime, scanVars>>

-----------------------------------------------------------------------------
(* IntelligenceFeatureService and IntelligenceNormalizer *)

Available(items, time) == SelectSeq(items, LAMBDA o : o.available <= time)
Newest(items) == SubSeq(items, Greater(1, Len(items) - FeatureWindow + 1), Len(items))

\* value, percentile (as a fraction) and the sign of the z-score of the last
\* observation among the newest
FeaturesOf(items) ==
    LET window == Newest(items)
        last == Last(window).value
        less == Cardinality({i \in DOMAIN window : window[i].value < last})
        equal == Cardinality({i \in DOMAIN window : window[i].value = last})
        total == FoldLeft(LAMBDA sum, o : sum + o.value, 0, window)
    IN [value |-> last, percentile |-> <<2 * less + equal, 2 * Len(window)>>,
        zSign |-> IF Len(window) < 2 THEN None ELSE Sign(last * Len(window) - total)]

\* Types with a history; the evidence for one of them is merged into it.
WithHistory == {"dvol", "fear_and_greed"}
LiveTypes == {report.signals[i].type : i \in DOMAIN report.signals}

\* The constructor loads the series; then the report is generated.
Scan(readable) ==
    /\ Generate
    /\ loaded' = Load(readable) /\ features' = None
    /\ UNCHANGED storeVars

\* get_features, at the time of the return: features of which nothing is known
\* count as None.  _merge_live builds a signal without two arguments that have no
\* default, so evidence of a type with a history ends in a TypeError.
GetFeatures ==
    /\ Return
    /\ features' = IF LiveTypes \cap WithHistory # {} THEN Raised
                   ELSE IF Available(loaded, now) = <<>> THEN None
                   ELSE FeaturesOf(Available(loaded, now))
    /\ UNCHANGED <<storeVars, loaded>>

\* The service is disabled in the configuration: its exception is swallowed.
GetFeaturesDisabled(readable) ==
    /\ stage = "Idle"
    /\ loaded' = Load(readable)
    /\ features' = IF Available(loaded', now) = <<>> THEN None ELSE FeaturesOf(Available(loaded', now))
    /\ UNCHANGED <<vars, storeVars>>

-----------------------------------------------------------------------------
StoreInit ==
    /\ Init
    /\ file = None /\ script = "Idle" /\ endTime = 0 /\ merge = NoMerge
    /\ loaded = <<>> /\ features = None

StoreNext ==
    \/ Ask \/ Receive \/ Replace \/ GiveUp
    \/ \E readable \in BOOLEAN : Scan(readable) \/ GetFeaturesDisabled(readable)
    \/ GetFeatures
    \/ (Tick \/ (\E p \in Providers : Provider(p)) \/ Gather) /\ UNCHANGED <<storeVars, loaded, features>>

-----------------------------------------------------------------------------
Stored == IF file = None THEN <<>> ELSE file

(* The history never changes (intelligence_store.py:132): an observation   *)
(* that was stored is still there, value and all, after every later merge, *)
(* whatever the provider says by then and wherever a merge is given up;    *)
(* only a merge that could not read the file forgets what it held.         *)
HistoryKept ==
    [][file' # file /\ merge.readable => ToSet(Stored) \subseteq ToSet(file')]_ivars

(* What is stored was final: every observation was fetched no earlier than *)
(* it became available, there is one for a time and they are in order, so  *)
(* neither a scan nor a backtest sees the value of a day that was still    *)
(* running.                                                                *)
StoreSound ==
    LET items == Stored
    IN /\ \A i \in DOMAIN items : items[i].available <= items[i].ingested
       /\ \A i, j \in DOMAIN items : i < j => items[i].available < items[j].available
       /\ features \notin {None, Raised} =>
             /\ features.value # Interim
             /\ 0 < features.percentile[1] /\ features.percentile[1] < features.percentile[2]
=============================================================================
