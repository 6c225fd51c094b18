-------------------------- MODULE MainWindow_proofs --------------------------
(***************************************************************************)
(* Proofs about the window and the market data service below it, for any   *)
(* set of symbols, any answers of the exchange and any analysis: what the  *)
(* cache serves is fresh, and what is shown comes from what arrived last.  *)
(* Freshness is a matter of the worker and the cache alone, and it needs   *)
(* the age of the requests under way: what they bring is as old as they    *)
(* are.  The window's invariant holds by itself beside it.                 *)
(***************************************************************************)
EXTENDS MainWindow, FiniteSetTheorems, TLAPS

-----------------------------------------------------------------------------
(* The inductive invariants                                                *)

\* A request is under way for as long as timeouts and retries allow.
InTime(j) == j.sent <= now /\ now - j.sent <= MaxFlight

\* A file was written when its series had come: a flight later at most.
Honest(file) ==
    file # None => /\ file.series <= file.at /\ file.at <= now
                   /\ file.at - file.series <= MaxFlight

MarketInv ==
    /\ MarketOK
    /\ IsFiniteSet(jobs)
    /\ \A j \in jobs : InTime(j)
    /\ \A s \in Symbols : Honest(cache[s])

WindowInv ==
    /\ MarketInv
    /\ WindowSound
    /\ arrived \in Seq(Symbols)

-----------------------------------------------------------------------------
(* Records are told apart from None, and requests keep their age           *)

\* No file, no result and no signal is the empty tuple.
LEMMA NoRecordIsNone ==
    /\ \A f \in CacheFile : f # None
    /\ \A r \in Analysis : r # None
    /\ \A a, b : [klines |-> a, funding |-> b] # None
<1>1. DOMAIN None = {}
    BY DEF None
<1>2. ASSUME NEW f \in CacheFile
      PROVE  "at" \in DOMAIN f
    BY <1>2 DEF CacheFile
<1>3. ASSUME NEW r \in Analysis
      PROVE  "klines" \in DOMAIN r
    BY <1>3 DEF Analysis
<1>4. ASSUME NEW a, NEW b
      PROVE  "klines" \in DOMAIN [klines |-> a, funding |-> b]
    OBVIOUS
<1> QED
    BY <1>1, <1>2, <1>3, <1>4

\* A file that is written now, with a series of a request in time, is honest.
LEMMA PutIsHonest ==
    ASSUME MarketInv,
           NEW s \in Symbols,
           NEW t \in 0 .. MaxTime,
           t <= now, now - t <= MaxFlight,
           now' = now,
           Put(s, t)
    PROVE  /\ cache' \in [Symbols -> CacheFile \cup {None}]
           /\ \A x \in Symbols : Honest(cache[x])'
<1> DEFINE new == [at |-> now, series |-> t]
<1>1. now \in 0 .. MaxTime /\ MaxTime \in Nat /\ MaxFlight \in Nat
    BY MarketAssumption DEF MarketInv, MarketOK
<1>2. new \in CacheFile
    BY <1>1 DEF CacheFile
<1>3. cache \in [Symbols -> CacheFile \cup {None}] /\ \A x \in Symbols : Honest(cache[x])
    BY DEF MarketInv, MarketOK
<1>4. CASE cache' = [cache EXCEPT ![s] = new]
    <2>1. cache' \in [Symbols -> CacheFile \cup {None}]
        BY <1>2, <1>3, <1>4
    <2>2. ASSUME NEW x \in Symbols
          PROVE  Honest(cache[x])'
        <3>1. CASE x = s
            <4>1. cache'[x] = new
                BY <1>3, <1>4, <3>1
            <4>2. new.at = now /\ new.series = t
                OBVIOUS
            <4> QED
                BY <1>1, <4>1, <4>2 DEF Honest
        <3>2. CASE x # s
            BY <1>3, <1>4, <3>2 DEF Honest
        <3> QED
            BY <3>1, <3>2
    <2> QED
        BY <2>1, <2>2
<1>5. CASE cache' = cache
    BY <1>3, <1>5 DEF Honest
<1> QED
    BY <1>4, <1>5 DEF Put

-----------------------------------------------------------------------------
(* MarketInv, one lemma for each call of the service and step of the worker *)

\* What the main thread only asks of the worker leaves the data alone.
LEMMA CallsKeep ==
    ASSUME MarketInv,
           UNCHANGED mvars \/ CloseExchange \/ StopLoop \/ Terminate \/ LoopStarts
    PROVE  MarketInv'
<1>1. UNCHANGED <<now, jobs, cache, signals>>
    BY DEF CloseExchange, StopLoop, Terminate, LoopStarts, mvars
<1>2. /\ thread' \in {"starting", "looping", "draining", "finished"}
      /\ stopAsked' \in BOOLEAN
      /\ closeTask' \in {"none", "queued", "created", "done", "cancelled"}
    BY DEF CloseExchange, StopLoop, Terminate, LoopStarts, mvars, Running,
           MarketInv, MarketOK
<1> QED
    BY <1>1, <1>2 DEF MarketInv, MarketOK, InTime, Honest

LEMMA SubmitKeeps ==
    ASSUME MarketInv, NEW kind \in Kinds, NEW s \in Symbols, Submit(kind, s)
    PROVE  MarketInv'
<1> DEFINE new == [kind |-> kind, symbol |-> s, sent |-> now, stage |-> "queued"]
<1>1. new \in Job /\ new.sent = now
    BY DEF Job, MarketInv, MarketOK
<1>2. jobs' = jobs \cup {new} /\ UNCHANGED <<now, thread, stopAsked, closeTask, cache, signals>>
    BY DEF Submit
<1>3. IsFiniteSet(jobs')
    BY <1>2, FS_AddElement DEF MarketInv
<1>4. MarketOK'
    BY <1>1, <1>2 DEF MarketInv, MarketOK
<1>5. \A j \in jobs' : InTime(j)'
    <2>1. InTime(new)
        BY <1>1, MarketAssumption DEF InTime, MarketInv, MarketOK
    <2> QED
        BY <1>2, <2>1 DEF MarketInv, InTime
<1> QED
    BY <1>2, <1>3, <1>4, <1>5 DEF MarketInv, Honest

LEMMA AnsweredAtOnceKeeps ==
    ASSUME MarketInv, NEW kind \in Kinds, NEW s \in Symbols, AnsweredAtOnce(kind, s)
    PROVE  MarketInv'
<1>1. UNCHANGED <<now, thread, stopAsked, closeTask, jobs, signals>>
    BY DEF AnsweredAtOnce
<1>2. now \in 0 .. MaxTime /\ now <= now /\ now - now <= MaxFlight
    BY MarketAssumption DEF MarketInv, MarketOK
<1>3. /\ cache' \in [Symbols -> CacheFile \cup {None}]
      /\ \A x \in Symbols : Honest(cache[x])'
    <2>1. CASE Put(s, now)
        BY <1>1, <1>2, <2>1, PutIsHonest
    <2>2. CASE cache' = cache
        BY <1>1, <2>2 DEF MarketInv, MarketOK, Honest
    <2> QED
        BY <2>1, <2>2 DEF AnsweredAtOnce
<1> QED
    BY <1>1, <1>3 DEF MarketInv, MarketOK, InTime

\* The jobs of the next iteration are those of this one, all in flight.
LEMMA IterateKeeps ==
    ASSUME MarketInv, Iterate
    PROVE  MarketInv'
<1> DEFINE moved == [j \in jobs |-> [j EXCEPT !.stage = "inflight"]]
<1>1. jobs' = {moved[j] : j \in jobs} /\ UNCHANGED <<now, stopAsked, cache, signals>>
    BY DEF Iterate
<1>2. \A j \in jobs : moved[j] \in Job /\ moved[j].sent = j.sent
    BY DEF MarketInv, MarketOK, Job
<1>3. IsFiniteSet(jobs')
    <2>1. moved \in Surjection(jobs, jobs')
        BY <1>1 DEF Surjection
    <2> QED
        BY <2>1, FS_Surjection DEF MarketInv
<1>4. MarketOK'
    <2>1. jobs' \subseteq Job
        BY <1>1, <1>2
    <2>2. /\ thread' \in {"starting", "looping", "draining", "finished"}
          /\ closeTask' \in {"none", "queued", "created", "done", "cancelled"}
        BY DEF Iterate, CloseTaskAfter, MarketInv, MarketOK
    <2> QED
        BY <1>1, <2>1, <2>2 DEF MarketInv, MarketOK
<1>5. \A j \in jobs' : InTime(j)'
    BY <1>1, <1>2 DEF MarketInv, InTime
<1> QED
    BY <1>1, <1>3, <1>4, <1>5 DEF MarketInv, Honest

\* An answer brings the market of some moment since the request was sent.
LEMMA AnswerKeeps ==
    ASSUME MarketInv, NEW j \in jobs, Answer(j)
    PROVE  MarketInv'
<1>1. /\ jobs' = jobs \ {j}
      /\ UNCHANGED <<now, thread, stopAsked, closeTask>>
    BY DEF Answer
<1>2. IsFiniteSet(jobs')
    BY <1>1, FS_RemoveElement DEF MarketInv
<1>3. j \in Job /\ InTime(j) /\ j.symbol \in Symbols /\ j.kind \in Kinds /\ j.sent \in 0 .. MaxTime
    BY DEF MarketInv, MarketOK, Job
<1>4. /\ cache' \in [Symbols -> CacheFile \cup {None}]
      /\ \A x \in Symbols : Honest(cache[x])'
      /\ signals' \in Seq(Signal)
    <2>1. CASE cache' = cache /\ signals' = Append(signals, Failed)
        BY <1>1, <2>1 DEF MarketInv, MarketOK, Honest, Signal
    <2>2. ASSUME NEW t \in j.sent .. now,
                 IF j.kind = "klines" THEN Put(j.symbol, t) ELSE cache' = cache,
                 signals' = Append(signals, [kind |-> j.kind, symbol |-> j.symbol, data |-> t])
          PROVE  /\ cache' \in [Symbols -> CacheFile \cup {None}]
                 /\ \A x \in Symbols : Honest(cache[x])'
                 /\ signals' \in Seq(Signal)
        <3>1. t \in 0 .. MaxTime /\ t <= now /\ now - t <= MaxFlight
            <4>1. now \in 0 .. MaxTime /\ MaxTime \in Nat /\ MaxFlight \in Nat
                BY MarketAssumption DEF MarketInv, MarketOK
            <4> QED
                BY <1>3, <4>1 DEF InTime
        <3>2. [kind |-> j.kind, symbol |-> j.symbol, data |-> t] \in Signal
            BY <1>3, <3>1 DEF Signal
        <3>3. signals' \in Seq(Signal)
            BY <2>2, <3>2 DEF MarketInv, MarketOK
        <3>4. CASE Put(j.symbol, t)
            BY <1>1, <1>3, <3>1, <3>3, <3>4, PutIsHonest
        <3>5. CASE cache' = cache
            BY <1>1, <3>3, <3>5 DEF MarketInv, MarketOK, Honest
        <3> QED
            BY <2>2, <3>4, <3>5
    <2> QED
        BY <2>1, <2>2 DEF Answer
<1> QED
    BY <1>1, <1>2, <1>4 DEF MarketInv, MarketOK, InTime

LEMMA DrainKeeps ==
    ASSUME MarketInv, Drain
    PROVE  MarketInv'
<1>1. Cardinality(jobs) \in Nat
    BY FS_CardinalityType DEF MarketInv
<1>2. Cancelled(jobs) \in Seq(Signal)
    BY <1>1 DEF Cancelled, Signal
<1>3. signals' \in Seq(Signal)
    BY <1>2 DEF Drain, MarketInv, MarketOK
<1>4. IsFiniteSet(jobs')
    BY FS_EmptySet DEF Drain
<1> QED
    BY <1>3, <1>4 DEF Drain, MarketInv, MarketOK, InTime, Honest

\* The clock waits for a request whose time is up.
LEMMA TickKeeps ==
    ASSUME MarketInv, Tick
    PROVE  MarketInv'
<1>1. /\ now \in 0 .. MaxTime /\ now < MaxTime /\ now' = now + 1
      /\ MaxTime \in Nat /\ MaxFlight \in Nat
      /\ UNCHANGED <<thread, stopAsked, closeTask, jobs, cache, signals>>
    BY MarketAssumption DEF Tick, MarketInv, MarketOK
<1>2. MarketOK'
    BY <1>1 DEF MarketInv, MarketOK
<1>3. ASSUME NEW j \in jobs
      PROVE  InTime(j)'
    <2>1. j.sent \in 0 .. MaxTime /\ j.sent <= now /\ now - j.sent < MaxFlight
        BY DEF MarketInv, MarketOK, Job, InTime, Tick
    <2> QED
        BY <1>1, <2>1 DEF InTime
<1>4. ASSUME NEW s \in Symbols
      PROVE  Honest(cache[s])'
    <2>1. Honest(cache[s]) /\ cache[s] \in CacheFile \cup {None}
        BY DEF MarketInv, MarketOK
    <2>2. CASE cache[s] = None
        BY <1>1, <2>2 DEF Honest
    <2>3. CASE cache[s] \in CacheFile
        <3>1. cache[s].at \in 0 .. MaxTime
            BY <2>3 DEF CacheFile
        <3> QED
            BY <1>1, <2>1, <3>1 DEF Honest
    <2> QED
        BY <2>1, <2>2, <2>3
<1> QED
    BY <1>1, <1>2, <1>3, <1>4 DEF MarketInv

\* A delivered signal leaves the queue and changes nothing of the market.
LEMMA DeliveryKeeps ==
    ASSUME MarketInv, signals # <<>>, signals' = Tail(signals),
           UNCHANGED <<now, thread, stopAsked, closeTask, jobs, cache>>
    PROVE  MarketInv'
BY DEF MarketInv, MarketOK, InTime, Honest

-----------------------------------------------------------------------------

(* The data and the widgets of the window                                  *)

\* The part of WindowInv the main thread alone keeps.
DataSound ==
    /\ klines \in [Symbols -> Nothing .. MaxTime]
    /\ funding \in [Symbols -> Nothing .. MaxTime]
    /\ results \in [Symbols -> Analysis \cup {None}]
    /\ arrived \in Seq(Symbols)
    /\ ToSet(arrived) = {s \in Symbols : results[s] # None} /\ IsInjective(arrived)
    /\ row \in 0 .. Len(arrived)
    /\ ShownIsLatest

\* A refresh asks for both series of every symbol.
LEMMA RefreshIsTyped == Refresh \in Seq(Kinds \X Symbols)
<1>1. Order \in Seq(Symbols)
    <2>1. Cardinality(Symbols) \in Nat /\ ExistsBijection(1 .. Cardinality(Symbols), Symbols)
        BY FS_CardinalityType, MarketAssumption
    <2>2. PICK f : f \in Bijection(1 .. Cardinality(Symbols), Symbols)
        BY <2>1 DEF ExistsBijection
    <2>3. f \in [1 .. Cardinality(Symbols) -> Symbols] /\ IsInjective(f)
        BY <2>2 DEF Bijection, Injection
    <2>4. Order \in [1 .. Cardinality(Symbols) -> Symbols]
        BY <2>3 DEF Order, SetToSeq
    <2> QED
        BY <2>1, <2>4
<1>2. Len(Order) \in Nat
    BY <1>1
<1>3. ASSUME NEW i \in 1 .. 2 * Len(Order)
      PROVE  Refresh[i] \in Kinds \X Symbols
    <2>1. (i + 1) \div 2 \in 1 .. Len(Order)
        BY <1>2
    <2>2. Order[(i + 1) \div 2] \in Symbols
        BY <1>1, <2>1
    <2>3. Refresh[i] = <<IF i % 2 = 1 THEN "klines" ELSE "funding", Order[(i + 1) \div 2]>>
        BY DEF Refresh
    <2> QED
        BY <2>2, <2>3 DEF Kinds
<1>4. Refresh \in [1 .. 2 * Len(Order) -> Kinds \X Symbols]
    BY <1>3 DEF Refresh
<1> QED
    BY <1>2, <1>4

\* A symbol that arrives for the first time is put behind the others.
LEMMA ArrivalKeepsOrder ==
    ASSUME NEW seq \in Seq(Symbols), IsInjective(seq),
           NEW s \in Symbols, s \notin ToSet(seq)
    PROVE  /\ Append(seq, s) \in Seq(Symbols)
           /\ Len(Append(seq, s)) = Len(seq) + 1
           /\ ToSet(Append(seq, s)) = ToSet(seq) \cup {s}
           /\ IsInjective(Append(seq, s))
<1> DEFINE longer == Append(seq, s)
<1>1. longer \in Seq(Symbols) /\ Len(longer) = Len(seq) + 1 /\ Len(seq) \in Nat
    OBVIOUS
<1>2. DOMAIN seq = 1 .. Len(seq) /\ DOMAIN longer = 1 .. Len(seq) + 1
    OBVIOUS
<1>3. /\ \A i \in 1 .. Len(seq) : longer[i] = seq[i]
      /\ longer[Len(seq) + 1] = s
    OBVIOUS
<1>4. \A i \in 1 .. Len(seq) + 1 : i \in 1 .. Len(seq) \/ i = Len(seq) + 1
    BY <1>1
<1>5. \A i \in 1 .. Len(seq) : i \in 1 .. Len(seq) + 1
    BY <1>1
<1>6. Len(seq) + 1 \in 1 .. Len(seq) + 1
    BY <1>1
<1> HIDE DEF longer
<1>7. ToSet(longer) = ToSet(seq) \cup {s}
    BY <1>2, <1>3, <1>4, <1>5, <1>6, Zenon DEF ToSet
<1>8. IsInjective(longer)
    <2>1. \A i \in 1 .. Len(seq) : seq[i] # s
        BY <1>2 DEF ToSet
    <2> QED
        BY <1>2, <1>3, <1>4, <2>1 DEF IsInjective
<1> QED
    BY <1>1, <1>7, <1>8 DEF longer

\* An analysis of what has just arrived keeps results and rows in step with
\* the data: a result is replaced, or is the symbol's first and adds a row.
LEMMA ScoringKeeps ==
    ASSUME DataSound,
           NEW s \in Symbols, NEW k \in 0 .. MaxTime, NEW f \in Nothing .. MaxTime,
           klines' \in [Symbols -> Nothing .. MaxTime], klines'[s] = k,
           funding' \in [Symbols -> Nothing .. MaxTime], funding'[s] = f,
           \A x \in Symbols \ {s} : klines'[x] = klines[x] /\ funding'[x] = funding[x],
           ApplyScoring(s, k, f)
    PROVE  DataSound'
<1> DEFINE new == [klines |-> k, funding |-> f]
<1>1. CASE ~Analysable(s, k, f)
    <2>1. UNCHANGED <<results, arrived, row>>
        BY <1>1 DEF ApplyScoring, widgets
    <2>2. ShownIsLatest'
        BY <1>1, <2>1 DEF DataSound, ShownIsLatest
    <2> QED
        BY <2>1, <2>2 DEF DataSound
<1>2. CASE Analysable(s, k, f)
    <2>1. /\ results' = [results EXCEPT ![s] = new]
          /\ arrived' = IF results[s] = None THEN Append(arrived, s) ELSE arrived
          /\ row' = IF row = 0 THEN 1 ELSE row
        BY <1>2 DEF ApplyScoring
    <2>2. new \in Analysis /\ new # None
        BY NoRecordIsNone DEF Analysis, Nothing
    <2>3. results \in [Symbols -> Analysis \cup {None}]
        BY DEF DataSound
    <2>4. results' \in [Symbols -> Analysis \cup {None}]
        BY <2>1, <2>2, <2>3
    <2>5. results'[s] = new /\ \A x \in Symbols \ {s} : results'[x] = results[x]
        BY <2>1, <2>3
    <2> HIDE DEF new
    <2>6. {x \in Symbols : results'[x] # None} = {x \in Symbols : results[x] # None} \cup {s}
        BY <2>2, <2>5
    <2>7. /\ arrived \in Seq(Symbols) /\ IsInjective(arrived) /\ Len(arrived) \in Nat
          /\ ToSet(arrived) = {x \in Symbols : results[x] # None}
          /\ row \in 0 .. Len(arrived)
        BY DEF DataSound
    <2>8. /\ arrived' \in Seq(Symbols) /\ IsInjective(arrived')
          /\ ToSet(arrived') = {x \in Symbols : results'[x] # None}
          /\ row' \in 0 .. Len(arrived')
        <3>1. CASE results[s] = None
            <4>1. s \notin ToSet(arrived) /\ arrived' = Append(arrived, s)
                BY <2>1, <2>7, <3>1
            <4>2. /\ arrived' \in Seq(Symbols) /\ IsInjective(arrived')
                  /\ Len(arrived') = Len(arrived) + 1
                  /\ ToSet(arrived') = ToSet(arrived) \cup {s}
                BY <2>7, <4>1, ArrivalKeepsOrder
            <4>3. row' \in 0 .. Len(arrived')
                BY <2>1, <2>7, <4>2
            <4> QED
                BY <2>6, <2>7, <4>2, <4>3
        <3>2. CASE results[s] # None
            <4>1. arrived' = arrived /\ s \in ToSet(arrived)
                BY <2>1, <2>7, <3>2
            <4>2. Len(arrived) >= 1
                BY <2>7, <4>1 DEF ToSet
            <4>3. row' \in 0 .. Len(arrived')
                BY <2>1, <2>7, <4>1, <4>2
            <4>4. ToSet(arrived') = {x \in Symbols : results'[x] # None}
                BY <2>6, <2>7, <4>1
            <4> QED
                BY <2>7, <4>1, <4>3, <4>4
        <3> QED
            BY <3>1, <3>2
    <2>9. ShownIsLatest'
        <3>1. ASSUME NEW x \in Symbols, klines'[x] # Nothing,
                     Analysable(x, klines'[x], funding'[x])
              PROVE  results'[x] = [klines |-> klines'[x], funding |-> funding'[x]]
            <4>1. CASE x = s
                BY <2>5, <4>1 DEF new
            <4>2. CASE x # s
                <5>1. /\ klines'[x] = klines[x] /\ funding'[x] = funding[x]
                      /\ results'[x] = results[x]
                    BY <2>5, <4>2
                <5> QED
                    BY <3>1, <5>1 DEF DataSound, ShownIsLatest
            <4> QED
                BY <4>1, <4>2
        <3> QED
            BY <3>1 DEF ShownIsLatest
    <2> QED
        BY <2>4, <2>8, <2>9 DEF DataSound
<1> QED
    BY <1>1, <1>2

\* Whichever of the two series comes, and in whichever order.
LEMMA ArrivalKeeps ==
    ASSUME DataSound, NEW kind \in Kinds, NEW s \in Symbols, NEW d \in 0 .. MaxTime,
           On(kind, s, d)
    PROVE  DataSound'
<1>1. /\ klines \in [Symbols -> Nothing .. MaxTime] /\ klines[s] \in Nothing .. MaxTime
      /\ funding \in [Symbols -> Nothing .. MaxTime] /\ funding[s] \in Nothing .. MaxTime
    BY DEF DataSound
<1>2. d \in Nothing .. MaxTime /\ MaxTime \in Nat
    BY MarketAssumption DEF Nothing
<1>3. CASE kind = "klines"
    <2>1. /\ klines' = [klines EXCEPT ![s] = d] /\ funding' = funding
          /\ ApplyScoring(s, d, funding[s])
        BY <1>3 DEF On, OnKlinesReady
    <2>2. /\ klines' \in [Symbols -> Nothing .. MaxTime] /\ klines'[s] = d
          /\ \A x \in Symbols \ {s} : klines'[x] = klines[x]
        BY <1>1, <1>2, <2>1
    <2> QED
        BY <1>1, <2>1, <2>2, ScoringKeeps
<1>4. CASE kind = "funding"
    <2>1. /\ funding' = [funding EXCEPT ![s] = d] /\ klines' = klines
          /\ IF klines[s] # Nothing THEN ApplyScoring(s, klines[s], d) ELSE UNCHANGED widgets
        BY <1>4 DEF On, OnFundingReady
    <2>2. /\ funding' \in [Symbols -> Nothing .. MaxTime] /\ funding'[s] = d
          /\ \A x \in Symbols \ {s} : funding'[x] = funding[x]
        BY <1>1, <1>2, <2>1
    <2>3. CASE klines[s] # Nothing
        <3>1. klines[s] \in 0 .. MaxTime
            BY <1>1, <1>2, <2>3 DEF Nothing
        <3> QED
            BY <1>1, <1>2, <2>1, <2>2, <2>3, <3>1, ScoringKeeps
    <2>4. CASE klines[s] = Nothing
        <3>1. UNCHANGED <<klines, results, arrived, row>>
            BY <2>1, <2>4 DEF widgets
        <3>2. ShownIsLatest'
            BY <2>2, <2>4, <3>1 DEF DataSound, ShownIsLatest
        <3> QED
            BY <2>2, <3>1, <3>2 DEF DataSound
    <2> QED
        BY <2>3, <2>4
<1> QED
    BY <1>3, <1>4 DEF Kinds

LEMMA SameData ==
    ASSUME DataSound, UNCHANGED <<data, widgets>>
    PROVE  DataSound'
BY DEF DataSound, ShownIsLatest, data, widgets

-----------------------------------------------------------------------------
(* WindowInv, one lemma for each action of the main thread                 *)

\* WindowInv is the worker's part, the window's part and three types.
LEMMA WindowParts ==
    WindowInv <=> /\ MarketInv
                  /\ main \in {"open", "closing", "waiting", "closed"}
                  /\ todo \in Seq(Kinds \X Symbols) /\ latest \in 0 .. MaxTime
                  /\ DataSound
BY DEF WindowInv, WindowSound, WindowOK, DataSound, MarketInv

\* The same of the next state.
LEMMA WindowPartsNext ==
    ASSUME MarketInv', DataSound',
           main' \in {"open", "closing", "waiting", "closed"},
           todo' \in Seq(Kinds \X Symbols), latest' \in 0 .. MaxTime
    PROVE  WindowInv'
BY DEF WindowInv, WindowSound, WindowOK, DataSound, MarketInv

LEMMA InitWindow == Init => WindowInv
<1> SUFFICES ASSUME Init PROVE WindowInv
    OBVIOUS
<1>1. MarketInv
    <2>1. cache \in [Symbols -> CacheFile \cup {None}] /\ signals \in Seq(Signal)
        BY DEF Init, MarketInit
    <2>2. IsFiniteSet(jobs)
        BY FS_EmptySet DEF Init, MarketInit
    <2>3. MarketOK
        <3>1. now = 0 /\ thread = "starting" /\ stopAsked = FALSE /\ closeTask = "none" /\ jobs = {}
            BY DEF Init, MarketInit
        <3>2. now \in 0 .. MaxTime /\ jobs \subseteq Job
            BY <3>1, MarketAssumption
        <3>3. thread \in {"starting", "looping", "draining", "finished"} /\ stopAsked \in BOOLEAN
            BY <3>1
        <3> QED
            BY <2>1, <3>1, <3>2, <3>3 DEF MarketOK
    <2>4. jobs = {} /\ \A s \in Symbols : cache[s] = None
        BY DEF Init, MarketInit
    <2> QED
        BY <2>2, <2>3, <2>4 DEF MarketInv, Honest
<1>2. DataSound
    <2>1. /\ klines = [s \in Symbols |-> Nothing] /\ funding = [s \in Symbols |-> Nothing]
          /\ results = [s \in Symbols |-> None]
          /\ arrived = <<>> /\ row = 0
        BY DEF Init
    <2>2. arrived \in Seq(Symbols) /\ DOMAIN arrived = {} /\ Len(arrived) = 0
        BY <2>1
    <2>3. Nothing \in Nothing .. MaxTime
        BY MarketAssumption DEF Nothing
    <2>4. /\ klines \in [Symbols -> Nothing .. MaxTime]
          /\ funding \in [Symbols -> Nothing .. MaxTime]
          /\ results \in [Symbols -> Analysis \cup {None}]
        BY <2>1, <2>3
    <2>5. ToSet(arrived) = {s \in Symbols : results[s] # None} /\ IsInjective(arrived)
        BY <2>1, <2>2 DEF ToSet, IsInjective
    <2>6. ShownIsLatest
        BY <2>1 DEF ShownIsLatest
    <2> QED
        BY <2>1, <2>2, <2>4, <2>5, <2>6 DEF DataSound
<1> QED
    BY <1>1, <1>2, RefreshIsTyped, MarketAssumption, WindowParts DEF Init

LEMMA RequestKeeps ==
    ASSUME WindowInv, Request
    PROVE  WindowInv'
<1> DEFINE kind == Head(todo)[1]
           s == Head(todo)[2]
<1>1. /\ MarketInv /\ DataSound
      /\ main \in {"open", "closing", "waiting", "closed"}
      /\ todo \in Seq(Kinds \X Symbols) /\ latest \in 0 .. MaxTime
    BY WindowParts
<1>2. todo # <<>> /\ todo' = Tail(todo) /\ UNCHANGED <<main, latest>>
    BY DEF Request
<1>3. todo' \in Seq(Kinds \X Symbols)
    BY <1>1, <1>2
<1>4. kind \in Kinds /\ s \in Symbols
    <2>1. Head(todo) \in Kinds \X Symbols
        BY <1>1, <1>2
    <2> QED
        BY <2>1
<1>5. MarketInv' /\ DataSound'
    <2>1. CASE kind = "klines" /\ Hit(s) /\ On(kind, s, Get(s))
        <3>1. UNCHANGED mvars /\ Get(s) # Nothing
            BY <2>1 DEF Hit
        <3>2. Get(s) \in 0 .. MaxTime
            <4>1. cache[s] \in CacheFile \cup {None}
                BY <1>1, <1>4 DEF MarketInv, MarketOK
            <4>2. cache[s] # None /\ Get(s) = cache[s].series
                BY <3>1 DEF Get
            <4> QED
                BY <4>1, <4>2 DEF CacheFile
        <3> QED
            BY <1>1, <1>4, <2>1, <3>1, <3>2, CallsKeep, ArrivalKeeps
    <2>2. CASE Submit(kind, s) /\ UNCHANGED <<data, widgets>>
        BY <1>1, <1>4, <2>2, SubmitKeeps, SameData
    <2>3. CASE AnsweredAtOnce(kind, s) /\ On(kind, s, now)
        <3>1. now \in 0 .. MaxTime
            BY <1>1 DEF MarketInv, MarketOK
        <3> QED
            BY <1>1, <1>4, <2>3, <3>1, AnsweredAtOnceKeeps, ArrivalKeeps
    <2>4. CASE Refused /\ UNCHANGED <<data, widgets>>
        BY <1>1, <2>4, CallsKeep, SameData DEF Refused
    <2> QED
        BY <2>1, <2>2, <2>3, <2>4 DEF Request
<1> QED
    BY <1>1, <1>2, <1>3, <1>5, WindowPartsNext

\* What is delivered was emitted by the worker: a series, a rate or an error.
LEMMA DeliverKeeps ==
    ASSUME WindowInv, Deliver
    PROVE  WindowInv'
<1>1. /\ MarketInv /\ DataSound
      /\ main \in {"open", "closing", "waiting", "closed"}
      /\ todo \in Seq(Kinds \X Symbols) /\ latest \in 0 .. MaxTime
    BY WindowParts
<1>2. /\ signals # <<>> /\ signals' = Tail(signals)
      /\ UNCHANGED <<now, thread, stopAsked, closeTask, jobs, cache, main, todo, latest>>
    BY DEF Deliver
<1>3. MarketInv'
    BY <1>1, <1>2, DeliveryKeeps
<1>4. Head(signals) \in Signal
    BY <1>1, <1>2 DEF MarketInv, MarketOK
<1>5. DataSound'
    <2>1. CASE Head(signals) = Failed
        BY <1>1, <2>1, SameData DEF Deliver
    <2>2. CASE Head(signals) # Failed
        <3>1. /\ Head(signals).kind \in Kinds /\ Head(signals).symbol \in Symbols
              /\ Head(signals).data \in 0 .. MaxTime
            BY <1>4, <2>2 DEF Signal
        <3>2. On(Head(signals).kind, Head(signals).symbol, Head(signals).data)
            BY <2>2 DEF Deliver
        <3> QED
            BY <1>1, <3>1, <3>2, ArrivalKeeps
    <2> QED
        BY <2>1, <2>2
<1> QED
    BY <1>1, <1>2, <1>3, <1>5, WindowPartsNext

\* The user moves the current row; what has been computed stays.
LEMMA ShowResultKeeps ==
    ASSUME WindowInv, NEW i, ShowResult(i)
    PROVE  WindowInv'
<1>1. /\ MarketInv /\ DataSound
      /\ main \in {"open", "closing", "waiting", "closed"}
      /\ todo \in Seq(Kinds \X Symbols) /\ latest \in 0 .. MaxTime
    BY WindowParts
<1>2. /\ i \in DOMAIN arrived /\ row' = i
      /\ UNCHANGED <<mvars, main, todo, latest, data, results, arrived>>
    BY DEF ShowResult
<1>3. row' \in 0 .. Len(arrived)
    BY <1>1, <1>2 DEF DataSound
<1>4. DataSound'
    BY <1>1, <1>2, <1>3 DEF DataSound, ShownIsLatest, data
<1> QED
    BY <1>1, <1>2, <1>4, CallsKeep, WindowPartsNext

\* A refresh, the steps of closing, the worker's and the clock's.
LEMMA OthersKeep ==
    ASSUME WindowInv,
           \/ RefreshAll \/ Close \/ Stop \/ Closed
           \/ Worker /\ UNCHANGED wvars
           \/ Tick /\ UNCHANGED wvars
           \/ UNCHANGED vars
    PROVE  WindowInv'
<1>1. /\ MarketInv /\ DataSound
      /\ main \in {"open", "closing", "waiting", "closed"}
      /\ todo \in Seq(Kinds \X Symbols) /\ latest \in 0 .. MaxTime
    BY WindowParts
<1>2. DataSound'
    <2>1. UNCHANGED <<data, widgets>>
        BY DEF RefreshAll, Close, Stop, Closed, wvars, vars, data, widgets
    <2> QED
        BY <1>1, <2>1, SameData
<1>3. MarketInv'
    <2>1. CASE RefreshAll \/ UNCHANGED vars
        BY <1>1, <2>1, CallsKeep DEF RefreshAll, vars
    <2>2. CASE Close \/ Stop \/ Closed
        BY <1>1, <2>2, CallsKeep DEF Close, Stop, Closed
    <2>3. CASE Worker
        BY <1>1, <2>3, CallsKeep, IterateKeeps, AnswerKeeps, DrainKeeps DEF Worker
    <2>4. CASE Tick
        BY <1>1, <2>4, TickKeeps
    <2> QED
        BY <2>1, <2>2, <2>3, <2>4
<1>4. /\ main' \in {"open", "closing", "waiting", "closed"}
      /\ todo' \in Seq(Kinds \X Symbols) /\ latest' \in 0 .. MaxTime
    <2>1. CASE RefreshAll
        BY <1>1, <2>1, RefreshIsTyped DEF RefreshAll, MarketInv, MarketOK
    <2>2. CASE ~RefreshAll
        BY <1>1, <2>2 DEF Close, Stop, Closed, wvars, vars
    <2> QED
        BY <2>1, <2>2
<1> QED
    BY <1>2, <1>3, <1>4, WindowPartsNext

LEMMA NextWindow == WindowInv /\ [Next]_vars => WindowInv'
<1> SUFFICES ASSUME WindowInv, [Next]_vars PROVE WindowInv'
    OBVIOUS
<1>1. CASE Request
    BY <1>1, RequestKeeps
<1>2. CASE Deliver
    BY <1>2, DeliverKeeps
<1>3. ASSUME NEW i \in 1 .. Cardinality(Symbols), ShowResult(i)
      PROVE  WindowInv'
    BY <1>3, ShowResultKeeps
<1>4. CASE \/ RefreshAll \/ Close \/ Stop \/ Closed
           \/ Worker /\ UNCHANGED wvars
           \/ Tick /\ UNCHANGED wvars
           \/ UNCHANGED vars
    BY <1>4, OthersKeep
<1> QED
    BY <1>1, <1>2, <1>3, <1>4 DEF Next, MainThread, User

-----------------------------------------------------------------------------
(* The theorems                                                            *)

\* MainWindow and MarketDataService keep their state in step: every request
\* under way is as young as its timeouts say, every cached series is at most
\* a flight older than its file, and every result belongs to the latest data.
THEOREM WindowInvariant == Spec => []WindowInv
BY InitWindow, NextWindow, PTL DEF Spec

\* _apply_scoring and the two handlers of arriving data: whichever series of
\* a symbol comes last, by cache, callback or signal, the result shown for it
\* was computed from the latest of both, unless exactly that analysis fails,
\* and the ranking has one row for each symbol with a result.
THEOREM WindowIsSound == Spec => []WindowSound
<1>1. WindowInv => WindowSound
    BY DEF WindowInv
<1> QED
    BY <1>1, WindowInvariant, PTL

\* KlineCache.get serves a series only within the time to live of its file,
\* and MarketDataService writes a file only when the series has come: what is
\* served describes a market at most the time to live and one flight ago,
\* also when answers overtake each other.
THEOREM ServedIsFresh == Spec => []ServedFresh
<1>1. WindowInv => ServedFresh
    <2> SUFFICES ASSUME WindowInv, NEW s \in Symbols, Ttl > 0, Get(s) # Nothing
                 PROVE  now - Get(s) <= Ttl + MaxFlight
        BY DEF ServedFresh
    <2>1. cache[s] # None /\ ~Stale(cache[s]) /\ Get(s) = cache[s].series
        BY DEF Get
    <2>2. cache[s] \in CacheFile /\ Honest(cache[s]) /\ now \in 0 .. MaxTime
        BY <2>1 DEF WindowInv, MarketInv, MarketOK
    <2>3. cache[s].at \in 0 .. MaxTime /\ cache[s].series \in 0 .. MaxTime
        BY <2>2 DEF CacheFile
    <2>4. now - cache[s].at <= Ttl
        BY <2>1, <2>2, <2>3, MarketAssumption DEF Stale
    <2>5. cache[s].at - cache[s].series <= MaxFlight
        BY <2>1, <2>2 DEF Honest
    <2> QED
        BY <2>1, <2>2, <2>3, <2>4, <2>5, MarketAssumption
<1> QED
    BY <1>1, WindowInvariant, PTL
=============================================================================
