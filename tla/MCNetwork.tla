------------------------------ MODULE MCNetwork ------------------------------
(***************************************************************************)
(* The two programs that talk to the exchange, each with a rate limiter of *)
(* its own: BinanceClient, which pays for every attempt, and               *)
(* BinanceTransport, which pays once per call.  They share nothing, so a   *)
(* behaviour is of one of them, and service says of which.                 *)
(***************************************************************************)
EXTENDS BinanceClient

CONSTANTS Attempts, Second      \* of the transport

ASSUME TransportAssumption == Attempts \in Nat \ {0} /\ Second \in Nat

VARIABLES
    service,                                                     \* "CLIENT" or "TRANSPORT"
    clock, grants, head, sleepers, refused, gets, requests       \* of the transport

T == INSTANCE BinanceTransport WITH
        now <- clock, log <- grants, first <- head, asleep <- sleepers, raised <- refused,
        call <- gets, sent <- requests

transportVars == <<clock, grants, head, sleepers, refused, gets, requests>>
networkVars == <<cvars, transportVars, service>>

NetworkInit == Init /\ T!Init /\ service \in {"CLIENT", "TRANSPORT"}

ClientTurn == service = "CLIENT" /\ UNCHANGED <<transportVars, service>>
TransportTurn == service = "TRANSPORT" /\ UNCHANGED <<cvars, service>>

NetworkNext ==
    \/ ClientTurn /\ Next
    \/ TransportTurn /\ T!Next

\* The fairness of the two modules: time passes, the event loop resumes whoever
\* has slept enough, and the timeout of httpx ends every request.
NetworkSpec ==
    /\ NetworkInit /\ [][NetworkNext]_networkVars
    /\ WF_networkVars(ClientTurn /\ Tick)
    /\ WF_networkVars(TransportTurn /\ T!Tick)
    /\ \A c \in Callers :
          /\ WF_networkVars(ClientTurn /\ (Resume(c) \/ Again(c) \/ Exhaust(c)))
          /\ WF_networkVars(ClientTurn /\ Answer(c))
          /\ WF_networkVars(TransportTurn /\ (T!Resume(c) \/ T!Again(c)))
          /\ WF_networkVars(TransportTurn /\ (T!End(c) \/ T!Pause(c)))

-----------------------------------------------------------------------------
(* What a call may cost: BinanceClient._get_json makes one request and at  *)
(* most max_retries more, whatever mixture of failures, pauses and waits   *)
(* it meets, and has an error to raise when it gives up;                   *)
(* BinanceTransport.get makes at most its attempts on one grant.           *)
RequestsAccounted ==
    /\ ClientOK
    /\ RequestsBounded
    /\ FailsWithError
    /\ T!RequestsCovered

(* A call of either that has begun returns, fails or is cancelled, however *)
(* the callers overtake each other in the limiter.                         *)
EveryRequestEnds == EveryCallEnds /\ T!EveryGetEnds
=============================================================================
