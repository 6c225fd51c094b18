-------------------------- MODULE BinanceTransport --------------------------
(***************************************************************************)
(* BinanceTransport.get, through which the market context is fetched: like *)
(* BinanceClient it has a rate limiter and retries, but asks the limiter   *)
(* once per call and sends up to Attempts requests for it.                 *)
(***************************************************************************)
EXTENDS RateLimiter, FiniteSets

CONSTANTS
    Attempts,      \* the three attempts of get
    Second,        \* unit of its pauses, 2^attempt seconds
    MaxTime        \* bound: from here on time passes only for callers who wait

VARIABLES
    call,      \* caller -> its state; a caller is one call
    sent       \* the requests on the wire: time, weight and caller

tvars == <<lvars, call, sent>>

Stages == {"Idle", "Acquiring", "InFlight", "Pausing", "Returned", "Failed", "Cancelled"}

CallState == [stage : Stages, weight : Nat, attempt : 0 .. Attempts - 1, until : Int]

Sends(c, r) ==
    /\ call' = [call EXCEPT ![c] = [r EXCEPT !.stage = "InFlight"]]
    /\ sent' = Append(sent, [time |-> now, weight |-> r.weight, by |-> c])

\* acquire, and the first request once it is granted.
AcquireAndSend(c, r) ==
    \/ Grant(c, r.weight) /\ Sends(c, r)
    \/ /\ Sleep(c, r.weight)
       /\ call' = [call EXCEPT ![c] = [r EXCEPT !.stage = "Acquiring"]]
       /\ UNCHANGED sent
    \/ /\ Raise(c, r.weight)
       /\ call' = [call EXCEPT ![c] = [r EXCEPT !.stage = "Failed"]]
       /\ UNCHANGED sent

Get(c) ==
    /\ call[c].stage = "Idle"
    /\ \E w \in Weights : AcquireAndSend(c, [call[c] EXCEPT !.weight = w])

\* Mutation of Resume: the clock was read once, before the loop, so nothing
\* leaves the window and the sleeper goes on sleeping.
ResumeWithoutPrune(c) ==
    /\ call[c].stage = "Acquiring"
    /\ Awake(c)
    /\ Fits(first, call[c].weight)
    /\ AcquireAndSend(c, call[c])

Resume(c) ==
    /\ call[c].stage = "Acquiring"
    /\ Awake(c)
    /\ AcquireAndSend(c, call[c])

\* The body; or a 429, another refusal, a body that is not JSON, none of
\* which is retried.
End(c) ==
    /\ call[c].stage = "InFlight"
    /\ \E stage \in {"Returned", "Failed"} : call' = [call EXCEPT ![c].stage = stage]
    /\ UNCHANGED <<lvars, sent>>

Retriable(c) == call[c].attempt < Attempts - 1

\* A 5xx or an error of httpx: another attempt after a pause, if one is left.
Pause(c) ==
    /\ call[c].stage = "InFlight"
    /\ Retriable(c)
    /\ call' = [call EXCEPT ![c].stage = "Pausing",
                            ![c].until = now + Second * 2 ^ call[c].attempt]
    /\ UNCHANGED <<lvars, sent>>

\* The loop goes on with the next attempt; the limiter is not asked again.
Again(c) ==
    /\ call[c].stage = "Pausing"
    /\ call[c].until <= now
    /\ Sends(c, [call[c] EXCEPT !.attempt = @ + 1])
    /\ UNCHANGED lvars

\* The task is cancelled where it waits.
Abandon(c) ==
    /\ \/ call[c].stage = "Acquiring" /\ Cancel(c)
       \/ call[c].stage \in {"InFlight", "Pausing"} /\ UNCHANGED lvars
    /\ call' = [call EXCEPT ![c].stage = "Cancelled"]
    /\ UNCHANGED sent

Tick ==
    /\ \/ now < MaxTime
       \/ \E c \in Callers : Waits(c)
       \/ \E c \in Callers : call[c].stage = "Pausing" /\ now < call[c].until
    /\ TimePasses
    /\ UNCHANGED <<call, sent>>

Init ==
    /\ NewLimiter
    /\ call = [c \in Callers |-> [stage |-> "Idle", weight |-> 0, attempt |-> 0, until |-> 0]]
    /\ sent = <<>>

Next ==
    \/ \E c \in Callers : Get(c) \/ Resume(c) \/ End(c) \/ Pause(c) \/ Again(c) \/ Abandon(c)
    \/ Tick

Spec == Init /\ [][Next]_tvars

\* Time passes; the event loop resumes whoever has slept enough; the timeout
\* of httpx ends every request.
FairSpec ==
    /\ Spec
    /\ WF_tvars(Tick)
    /\ \A c \in Callers : WF_tvars(Resume(c) \/ Again(c)) /\ WF_tvars(End(c) \/ Pause(c))

-----------------------------------------------------------------------------
(* What the calls sent.                                                    *)

\* Weight of the first n requests; requests of one call.
Sent(n) == SumTo([i \in 1 .. Len(sent) |-> sent[i].weight], n)

Requests(c) ==
    SumTo([i \in 1 .. Len(sent) |-> IF sent[i].by = c THEN 1 ELSE 0], Len(sent))

(* One grant covers at most Attempts requests, and no request is made      *)
(* without one: of what the limiter granted, every call that did not end   *)
(* in the limiter got its weight once.                                     *)
RequestsCovered ==
    /\ call \in [Callers -> CallState]
    /\ \A c \in Callers :
          /\ asleep[c] # None <=> call[c].stage = "Acquiring"
          /\ Requests(c) <= Attempts
          /\ Requests(c) > 0 => call[c].stage \notin {"Idle", "Acquiring"} /\ c \notin raised
          /\ call[c].stage \in {"InFlight", "Pausing", "Returned"} => Requests(c) = call[c].attempt + 1
    /\ Sent(Len(sent)) <= Attempts * Granted(Len(log))
    /\ Len(log) = Cardinality({c \in Callers : Requests(c) > 0})

(* A call that has begun returns, fails or is cancelled.                   *)
EveryGetEnds ==
    \A c \in Callers :
        call[c].stage # "Idle" ~> call[c].stage \in {"Returned", "Failed", "Cancelled"}
=============================================================================
