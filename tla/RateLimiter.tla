----------------------------- MODULE RateLimiter -----------------------------
(***************************************************************************)
(* TokenBucketRateLimiter (infrastructure/exchanges/binance): the weight   *)
(* granted in the last Window of time stays within Cap; a caller that does *)
(* not fit sleeps until the oldest grant has left the window and tries     *)
(* again.                                                                  *)
(*                                                                         *)
(* The asyncio lock is never contended: between its acquisition and its    *)
(* release there is no await, and a sleeper gives it up.  One turn of the  *)
(* loop of acquire is therefore one step, and any caller may come first    *)
(* when a sleeper wakes.                                                   *)
(*                                                                         *)
(* log is every grant ever made; the deque of the code is log[first], ..., *)
(* its last entry.  Time is the wall clock, in units finer than the        *)
(* millisecond (Grain of them) that the length of a sleep is cut to, and   *)
(* does not run backwards; a sleep is never shorter than asked for.        *)
(***************************************************************************)
EXTENDS Sums, Sequences

CONSTANTS
    Callers,       \* tasks that share the limiter
    Weights,       \* weights they ask for
    MaxWeight,     \* max_weight_per_minute
    Margin,        \* safety_margin, in percent
    Window,        \* 60 seconds
    Grain,         \* one millisecond
    Slack,         \* the 5 ms added to every sleep
    None           \* a caller that is not asleep

Cap == (MaxWeight * (100 - Margin)) \div 100

Sleeper == [weight : Nat \ {0}, wake : Nat, oldest : Nat]

ASSUME LimiterAssumption ==
    /\ Weights \subseteq Nat \ {0}      \* acquire refuses the others
    /\ MaxWeight \in Nat \ {0}
    /\ Margin \in 0 .. 100
    /\ Grain \in Nat \ {0}
    /\ Window \in Nat
    /\ Slack \in Nat /\ Slack >= Grain

ASSUME NoneIsNoSleeper == None \notin Sleeper

VARIABLES
    now,       \* the clock
    log,       \* the grants so far: time and weight
    first,     \* index of the first grant still in the deque
    asleep,    \* caller -> what it sleeps for, or None
    raised     \* callers that acquire has failed with an IndexError

limiter == <<log, first, asleep, raised>>
lvars == <<now, limiter>>

-----------------------------------------------------------------------------
(* The window.                                                             *)

\* Weight of the first n grants.
Granted(n) == SumTo([i \in 1 .. Len(log) |-> log[i].weight], n)

\* Weight of the grants a, ..., b.
Between(a, b) == Granted(b) - Granted(a - 1)

Expired(i) == log[i].time < now - Window

\* _prune drops expired grants from the left and stops at the first other one.
Pruned(f) ==
    /\ f \in first .. Len(log) + 1
    /\ \A i \in first .. f - 1 : Expired(i)
    /\ f <= Len(log) => ~Expired(f)

Fits(f, w) == Between(f, Len(log)) + w <= Cap

\* Mutation of Wait: the five milliseconds are forgotten.
WaitWithoutSlack(i) == Grain * ((log[i].time + Window - now) \div Grain)

\* What is left of the stay of grant i in the window, cut to milliseconds,
\* and the slack.
Wait(i) ==
    LET left == log[i].time + Window - now
    IN  Grain * (left \div Grain) + Slack

-----------------------------------------------------------------------------
(* One turn of the loop of acquire by c, for weight w.                     *)

Grant(c, w) ==
    /\ \E f \in first .. Len(log) + 1 : Pruned(f) /\ Fits(f, w) /\ first' = f
    /\ log' = Append(log, [time |-> now, weight |-> w])
    /\ asleep' = [asleep EXCEPT ![c] = None]
    /\ UNCHANGED <<now, raised>>

Sleep(c, w) ==
    /\ \E f \in first .. Len(log) :
          /\ Pruned(f) /\ ~Fits(f, w)
          /\ first' = f
          /\ asleep' = [asleep EXCEPT ![c] =
                           [weight |-> w, wake |-> now + Wait(f), oldest |-> f]]
    /\ UNCHANGED <<now, log, raised>>

\* Nothing is in the window and the weight still does not fit: the loop looks
\* for the oldest entry of an empty deque.
Raise(c, w) ==
    /\ Pruned(Len(log) + 1) /\ ~Fits(Len(log) + 1, w)
    /\ first' = Len(log) + 1
    /\ asleep' = [asleep EXCEPT ![c] = None]
    /\ raised' = raised \cup {c}
    /\ UNCHANGED <<now, log>>

Acquire(c, w) == Grant(c, w) \/ Sleep(c, w) \/ Raise(c, w)

Awake(c) == asleep[c] # None /\ asleep[c].wake <= now

\* The finally clause takes the lock back before the cancellation leaves.
Cancel(c) ==
    /\ asleep[c] # None
    /\ asleep' = [asleep EXCEPT ![c] = None]
    /\ UNCHANGED <<now, log, first, raised>>

\* Its sleep is not over.
Waits(c) == asleep[c] # None /\ now < asleep[c].wake

TimePasses == now' = now + 1 /\ UNCHANGED limiter

-----------------------------------------------------------------------------
(* The limiter under any callers: each may call acquire whenever it is not *)
(* asleep there, with any weight, and be cancelled while it is.            *)
(* (AsyncWorker cancels the tasks that are left when it stops.)            *)

Arrive(c) == asleep[c] = None /\ \E w \in Weights : Acquire(c, w)

Retry(c) == Awake(c) /\ Acquire(c, asleep[c].weight)

NewLimiter ==
    /\ now = 0
    /\ log = <<>>
    /\ first = 1
    /\ asleep = [c \in Callers |-> None]
    /\ raised = {}

LimiterNext ==
    \/ \E c \in Callers : Arrive(c) \/ Retry(c) \/ Cancel(c)
    \/ TimePasses

LimiterSpec == NewLimiter /\ [][LimiterNext]_lvars

-----------------------------------------------------------------------------
(* Types.                                                                  *)
LimiterOK ==
    /\ now \in Nat
    /\ log \in Seq([time : Nat, weight : Nat \ {0}])
    /\ first \in 1 .. Len(log) + 1
    /\ asleep \in [Callers -> {None} \cup Sleeper]
    /\ raised \subseteq Callers

(* "Multiple concurrent callers ... never oversubscribe": grants that lie  *)
(* no further apart than Window, wherever that span begins and whoever     *)
(* asked, weigh at most Cap together.                                      *)
WindowNeverExceeded ==
    \A b \in 1 .. Len(log) : \A a \in 1 .. b :
        log[b].time - log[a].time <= Window => Between(a, b) <= Cap

(* A sleep is never too short: when a sleeper has to sleep again, the      *)
(* grant it waited for has left the window and it waits for a later one,   *)
(* although the sleep was cut to whole milliseconds and a grant exactly    *)
(* Window old still counts.  So a call sleeps at most once per grant.      *)
SleepOutlastsGrant ==
    [][\A c \in Callers :
          asleep[c] # None /\ asleep'[c] # None /\ asleep'[c] # asleep[c] =>
              asleep'[c].oldest > asleep[c].oldest]_lvars
=============================================================================
