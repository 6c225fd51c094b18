---------------------------- MODULE BinanceClient ----------------------------
(***************************************************************************)
(* BinanceClient._get_json: a request, its retries and the pauses between  *)
(* them, by several concurrent calls that share the client's rate limiter. *)
(* A caller is one call.                                                   *)
(*                                                                         *)
(* The exchange may answer, refuse, fail, time out or ask for a pause at   *)
(* every attempt.  A granted request is on the wire at once: between the   *)
(* grant and http.get nothing waits.  sent is every request made.          *)
(***************************************************************************)
EXTENDS RateLimiter

CONSTANTS
    MaxRetries,    \* max_retries
    Backoff,       \* retry_backoff_seconds
    RetryAfters,   \* seconds a Retry-After header may ask for (finite ones)
    MaxTime        \* bound: from here on time passes only for callers who wait

ASSUME ClientAssumption ==
    /\ MaxRetries \in Nat
    /\ Backoff \in Nat \ {0}
    /\ RetryAfters \subseteq Nat
    /\ MaxTime \in Nat

ASSUME NoneIsNoError == None \notin {"Retryable", "Final", "IndexError"}

VARIABLES
    call,      \* caller -> its state
    sent       \* the requests on the wire: time, weight and caller

cvars == <<lvars, call, sent>>

Stages == {"Idle",
           "Acquiring",   \* asleep in the rate limiter
           "InFlight",    \* waiting for the answer
           "Pausing",     \* asleep between attempts
           "Returned", "Failed",
           "Cancelled"}

\* "Retryable" is a NetworkError (timeouts included), RateLimitError or
\* ServerError; "Final" a ParseError (another status, a body that is not JSON)
\* or what httpx raises besides; the limiter's error is an IndexError.
Errors == {"Retryable", "Final", "IndexError"}

\* until is when the pause ends; error is last_error, or what was raised.
CallState == [stage : Stages, weight : Nat, attempt : 0 .. MaxRetries, backoff : Nat,
              until : Nat, error : Errors \cup {None}]

-----------------------------------------------------------------------------
(* One turn of the loop over attempts, up to the request; r is the call    *)
(* as the turn begins.                                                     *)
Attempt(c, r) ==
    \/ /\ Grant(c, r.weight)
       /\ call' = [call EXCEPT ![c] = [r EXCEPT !.stage = "InFlight"]]
       /\ sent' = Append(sent, [time |-> now, weight |-> r.weight, by |-> c])
    \/ /\ Sleep(c, r.weight)
       /\ call' = [call EXCEPT ![c] = [r EXCEPT !.stage = "Acquiring"]]
       /\ UNCHANGED sent
    \/ /\ Raise(c, r.weight)
       /\ call' = [call EXCEPT ![c] = [r EXCEPT !.stage = "Failed", !.error = "IndexError"]]
       /\ UNCHANGED sent

Request(c) ==
    /\ call[c].stage = "Idle"
    /\ \E w \in Weights : Attempt(c, [call[c] EXCEPT !.weight = w])

Resume(c) ==
    /\ call[c].stage = "Acquiring"
    /\ Awake(c)
    /\ Attempt(c, call[c])

Becomes(c, r) == call' = [call EXCEPT ![c] = r] /\ UNCHANGED <<lvars, sent>>

Return(c) ==
    /\ call[c].stage = "InFlight"
    /\ Becomes(c, [call[c] EXCEPT !.stage = "Returned"])

Refuse(c) ==
    /\ call[c].stage = "InFlight"
    /\ Becomes(c, [call[c] EXCEPT !.stage = "Failed", !.error = "Final"])

LastAttempt(c) == call[c].attempt = MaxRetries

\* A failure worth a retry, unless it was the last attempt.
BackOff(c) ==
    /\ call[c].stage = "InFlight"
    /\ ~LastAttempt(c)
    /\ Becomes(c, [call[c] EXCEPT !.stage = "Pausing", !.error = "Retryable",
                                  !.until = now + call[c].backoff,
                                  !.backoff = 2 * call[c].backoff])

GiveUp(c) ==
    /\ call[c].stage = "InFlight"
    /\ LastAttempt(c)
    /\ Becomes(c, [call[c] EXCEPT !.stage = "Failed", !.error = "Retryable"])

\* A 429 with a Retry-After header pauses for as long as it says, whatever
\* the attempt, and leaves the backoff as it is.
RetryAfter(c) ==
    /\ call[c].stage = "InFlight"
    /\ \E d \in RetryAfters :
          Becomes(c, [call[c] EXCEPT !.stage = "Pausing", !.error = "Retryable",
                                     !.until = now + d])

Rests(c) == call[c].stage = "Pausing" /\ now < call[c].until
Rested(c) == call[c].stage = "Pausing" /\ call[c].until <= now

\* Mutation of Again: the weight is paid for the first attempt only.
AgainUnpaid(c) ==
    /\ Rested(c)
    /\ ~LastAttempt(c)
    /\ call' = [call EXCEPT ![c].stage = "InFlight", ![c].attempt = @ + 1]
    /\ sent' = Append(sent, [time |-> now, weight |-> call[c].weight, by |-> c])
    /\ UNCHANGED lvars

\* Mutation of Again: the pause did not use up an attempt.
AgainUncounted(c) ==
    /\ Rested(c)
    /\ ~LastAttempt(c)
    /\ Attempt(c, call[c])

Again(c) ==
    /\ Rested(c)
    /\ ~LastAttempt(c)
    /\ Attempt(c, [call[c] EXCEPT !.attempt = @ + 1])

\* The loop ends after a pause that followed the last attempt.
Exhaust(c) ==
    /\ Rested(c)
    /\ LastAttempt(c)
    /\ Becomes(c, [call[c] EXCEPT !.stage = "Failed"])

\* The task is cancelled where it waits: AsyncWorker does so when it stops, and
\* Ctrl-C with the task of a command.
Abandon(c) ==
    /\ \/ call[c].stage = "Acquiring" /\ Cancel(c)
       \/ call[c].stage \in {"InFlight", "Pausing"} /\ UNCHANGED lvars
    /\ call' = [call EXCEPT ![c].stage = "Cancelled"]
    /\ UNCHANGED sent

Tick ==
    /\ \/ now < MaxTime
       \/ \E c \in Callers : Waits(c) \/ Rests(c)
    /\ TimePasses
    /\ UNCHANGED <<call, sent>>

Init ==
    /\ NewLimiter
    /\ call = [c \in Callers |-> [stage |-> "Idle", weight |-> 0, attempt |-> 0,
                                  backoff |-> Backoff, until |-> 0, error |-> None]]
    /\ sent = <<>>

Answer(c) == Return(c) \/ Refuse(c) \/ BackOff(c) \/ GiveUp(c) \/ RetryAfter(c)

Next ==
    \/ \E c \in Callers : Request(c) \/ Resume(c) \/ Answer(c) \/ Again(c) \/ Exhaust(c)
                              \/ Abandon(c)
    \/ Tick

Spec == Init /\ [][Next]_cvars

\* Time passes; the event loop resumes whoever has slept enough; the timeout
\* of httpx ends every request.
FairSpec ==
    /\ Spec
    /\ WF_cvars(Tick)
    /\ \A c \in Callers : WF_cvars(Resume(c) \/ Again(c) \/ Exhaust(c)) /\ WF_cvars(Answer(c))

-----------------------------------------------------------------------------
(* Types, and who is asleep in the limiter.                                *)
ClientOK ==
    /\ call \in [Callers -> CallState]
    /\ sent \in Seq([time : Nat, weight : Nat \ {0}, by : Callers])
    /\ \A c \in Callers : asleep[c] # None <=> call[c].stage = "Acquiring"

\* Weight of the first n requests; requests of one call.
Sent(n) == SumTo([i \in 1 .. Len(sent) |-> sent[i].weight], n)

Requests(c) ==
    SumTo([i \in 1 .. Len(sent) |-> IF sent[i].by = c THEN 1 ELSE 0], Len(sent))

(* "The total weight per minute is capped": what is on the wire, retries   *)
(* included, weighs at most Cap in any span of length Window.              *)
SentWithinCap ==
    \A b \in 1 .. Len(sent) : \A a \in 1 .. b :
        sent[b].time - sent[a].time <= Window => Sent(b) - Sent(a - 1) <= Cap

(* One request and at most max_retries more per call, whatever mixture of  *)
(* failures, pauses and waits for the limiter it meets.                    *)
RequestsBounded == \A c \in Callers : Requests(c) <= MaxRetries + 1

(* "Exhausted retries but no error was recorded" is never raised: a call   *)
(* that fails has an error to raise.                                       *)
FailsWithError == \A c \in Callers : call[c].stage = "Failed" => call[c].error # None

(* A call that has begun returns, fails or is cancelled.                   *)
EveryCallEnds ==
    \A c \in Callers :
        call[c].stage # "Idle" ~> call[c].stage \in {"Returned", "Failed", "Cancelled"}
=============================================================================
