---------------------------- MODULE MarketData ----------------------------
(***************************************************************************)
(* The market data service of the desktop program: AsyncWorker, a thread   *)
(* that runs an asyncio loop, KlineCache, the files of fetched series, and *)
(* MarketDataService, which asks the cache first and the worker otherwise. *)
(* The main thread submits requests and stops the worker; the worker's     *)
(* answers reach the main thread as queued signals.  A series and a        *)
(* funding rate are named by the time of the market they describe.         *)
(***************************************************************************)
EXTENDS Integers, FiniteSets, SequencesExt

CONSTANTS Symbols,    \* the enabled symbols
          Ttl,        \* cache.ttl_seconds; 0 keeps entries for ever
          MaxFlight,  \* the longest a request is under way: timeouts and retries
          MaxTime,    \* bound of the clock
          MaxSignals  \* bound of the signals that wait for the main thread

ASSUME MarketAssumption == IsFiniteSet(Symbols) /\ Ttl \in Nat /\ MaxFlight \in Nat
                            /\ MaxTime \in Nat /\ MaxSignals \in Nat \ {0}

Kinds == {"klines", "funding"}
Nothing == -1  \* no data
None == <<>>   \* no record
Failed == None \* the signal error_occurred

VARIABLES
  now,       \* the clock
  thread,    \* the worker: "starting", "looping", "draining", "finished"
  stopAsked, \* loop.stop is in the loop's queue
  closeTask, \* exchange.close(): "none", "queued", "created", "done", "cancelled"
  jobs,      \* coroutines in the loop, with the time they were submitted
  cache,     \* per symbol: None, or the file's time and the series in it
  signals    \* signals of the worker the main thread has not delivered yet

mvars == <<now, thread, stopAsked, closeTask, jobs, cache, signals>>

Job == [kind : Kinds, symbol : Symbols, sent : 0 .. MaxTime,
        stage : {"queued", "inflight"}]
CacheFile == [at : 0 .. MaxTime, series : 0 .. MaxTime]
Signal == [kind : Kinds, symbol : Symbols, data : 0 .. MaxTime] \cup {Failed}

MarketInit ==
  /\ now = 0 /\ thread = "starting" /\ stopAsked = FALSE /\ closeTask = "none"
  /\ jobs = {} /\ cache = [s \in Symbols |-> None] /\ signals = <<>>

---------------------------------------------------------------------------
(* KlineCache. *)
Stale(file) == Ttl > 0 /\ now - file.at > Ttl

\* Mutation of Get: the age of the file is not looked at.
GetAnyAge(s) == IF cache[s] = None THEN Nothing ELSE cache[s].series

Get(s) == IF cache[s] = None \/ Stale(cache[s]) THEN Nothing ELSE cache[s].series

\* A write that fails is logged and leaves the old file.
Put(s, series) ==
  \/ cache' = [cache EXCEPT ![s] = [at |-> now, series |-> series]]
  \/ cache' = cache

---------------------------------------------------------------------------
(* The main thread's calls of the service. *)
Running == thread = "looping"

\* _submit served from the cache: the caller has its series before it returns.
Hit(s) == Get(s) # Nothing /\ UNCHANGED mvars

\* A file that cannot be read is a miss, so a fresh entry may miss as well.
Submit(kind, s) ==
  /\ Running
  /\ jobs' = jobs \cup {[kind |-> kind, symbol |-> s, sent |-> now, stage |-> "queued"]}
  /\ UNCHANGED <<now, thread, stopAsked, closeTask, cache, signals>>

\* The future is done before its callback is attached: the callback runs in
\* the main thread, and its signal is delivered at once.
AnsweredAtOnce(kind, s) ==
  /\ Running
  /\ IF kind = "klines" THEN Put(s, now) ELSE cache' = cache
  /\ UNCHANGED <<now, thread, stopAsked, closeTask, jobs, signals>>

\* "worker_not_running": no loop yet, or no loop any more.
Refused == ~Running /\ UNCHANGED mvars

\* MarketDataService.stop: exchange.close() is submitted unless the loop is
\* not running, then loop.stop is scheduled behind it.
CloseExchange ==
  /\ closeTask' = IF Running THEN "queued" ELSE closeTask
  /\ UNCHANGED <<now, thread, stopAsked, jobs, cache, signals>>
StopLoop ==
  /\ stopAsked' = Running
  /\ UNCHANGED <<now, thread, closeTask, jobs, cache, signals>>

\* The wait of five seconds ends without the thread: terminate.
Terminate ==
  /\ ~stopAsked /\ thread # "finished"
  /\ thread' = "finished"
  /\ UNCHANGED <<now, stopAsked, closeTask, jobs, cache, signals>>

---------------------------------------------------------------------------
(* The worker thread. *)
LoopStarts ==
  /\ thread = "starting" /\ thread' = "looping"
  /\ UNCHANGED <<now, stopAsked, closeTask, jobs, cache, signals>>

Busy == \/ \E j \in jobs : j.stage = "queued"
        \/ closeTask \in {"queued", "created"}
        \/ stopAsked

\* One iteration runs what was ready when it began: a scheduled coroutine
\* becomes a task, and the task takes its first step one iteration later.
\* After loop.stop the iteration is the last one.
CloseTaskAfter == CASE closeTask = "queued" -> "created"
                    [] closeTask = "created" -> "done"
                    [] OTHER -> closeTask
Iterate ==
  /\ Running /\ Busy
  /\ jobs' = {[j EXCEPT !.stage = "inflight"] : j \in jobs}
  /\ closeTask' = CloseTaskAfter
  /\ thread' = IF stopAsked THEN "draining" ELSE thread
  /\ UNCHANGED <<now, stopAsked, cache, signals>>

\* The exchange answers with the market of some moment of the flight, or
\* fails; the done callback caches a series and emits in this thread.
Answer(j) ==
  /\ Running /\ j \in jobs /\ j.stage = "inflight" /\ Len(signals) < MaxSignals
  /\ jobs' = jobs \ {j}
  /\ \/ \E t \in j.sent .. now :
          /\ IF j.kind = "klines" THEN Put(j.symbol, t) ELSE cache' = cache
          /\ signals' = Append(signals, [kind |-> j.kind, symbol |-> j.symbol, data |-> t])
     \/ cache' = cache /\ signals' = Append(signals, Failed)
  /\ UNCHANGED <<now, thread, stopAsked, closeTask>>

\* The end of run(): every task is cancelled, and each cancelled future
\* emits its CancelledError as an error.
Cancelled(pending) == [i \in 1 .. Cardinality(pending) |-> Failed]

\* Mutation of Drain: the tasks are left behind when the loop is closed.
DrainNothing ==
  /\ thread = "draining" /\ thread' = "finished"
  /\ UNCHANGED <<now, stopAsked, closeTask, jobs, cache, signals>>

Drain ==
  /\ thread = "draining" /\ thread' = "finished"
  /\ jobs' = {}
  /\ signals' = signals \o Cancelled(jobs)
  /\ closeTask' = IF closeTask \in {"queued", "created"} THEN "cancelled" ELSE closeTask
  /\ UNCHANGED <<now, stopAsked, cache>>

Tick ==
  /\ now < MaxTime /\ now' = now + 1
  /\ \A j \in jobs : now - j.sent < MaxFlight
  /\ UNCHANGED <<thread, stopAsked, closeTask, jobs, cache, signals>>

Worker == LoopStarts \/ Iterate \/ (\E j \in jobs : Answer(j)) \/ Drain

---------------------------------------------------------------------------
MarketOK ==
  /\ now \in 0 .. MaxTime
  /\ thread \in {"starting", "looping", "draining", "finished"}
  /\ stopAsked \in BOOLEAN
  /\ closeTask \in {"none", "queued", "created", "done", "cancelled"}
  /\ jobs \subseteq Job
  /\ cache \in [Symbols -> CacheFile \cup {None}]
  /\ signals \in Seq(Signal)

\* A series the cache still serves describes a market at most the time to
\* live plus one flight ago, although answers arrive in any order and an
\* older one replaces a newer one with a fresh time of its own.
ServedFresh ==
  \A s \in Symbols :
    (Ttl > 0 /\ Get(s) # Nothing) => now - Get(s) <= Ttl + MaxFlight
===========================================================================
