-------------------------- MODULE MarketIntelligence --------------------------
(***************************************************************************)
(* MarketIntelligenceService: the providers are asked concurrently, each   *)
(* under a timeout of its own; the noise filter keeps what is reliable, no *)
(* repetition and confirmed; the consensus and the narratives are computed *)
(* from what is left.                                                      *)
(*                                                                         *)
(* Direction, strength and weight are in tenths, power (strength times     *)
(* weight) in hundredths, directed power and confidence in thousandths.    *)
(***************************************************************************)
EXTENDS Integers, SequencesExt

CONSTANTS
    Registry,           \* the active providers, in the order of the registry
    Timeouts,           \* the seconds that each may take
    Answers,            \* the sequences of signals that each may answer with
    TimeWindow,         \* of the noise filter
    MinReliability,
    Exempt,             \* types of signal that need no confirmation
    DirectionThreshold, \* of the consensus, bullish and bearish alike
    ConflictThreshold,
    MinStrength,        \* of a narrative, in thousandths
    MinEvidence,
    NumTypes,           \* members of IntelligenceSignalType
    MaxTime,            \* bound on the clock
    None

VARIABLES
    now,
    stage,        \* of generate_report: "Idle", "Fetching", "Reported"
    confirming,   \* require_independent_confirmation, of the configuration
    started,      \* when the report was begun
    answers,      \* of the tasks of _fetch_all, None while one is pending
    report

vars == <<now, stage, confirming, started, answers, report>>

Providers == ToSet(Registry)

-----------------------------------------------------------------------------
(* NoiseFilter *)

Sign(n) == IF n > 0 THEN 1 ELSE IF n < 0 THEN -1 ELSE 0
Abs(n) == IF n < 0 THEN -n ELSE n

Trusted(s) == s.reliability \in {"official", "institutional"}
Reliable(s) == s.weight >= MinReliability \/ Trusted(s)

\* The stable sort by event_timestamp.
Before(signals, i, j) ==
    \/ signals[i].event < signals[j].event
    \/ signals[i].event = signals[j].event /\ i < j
ByEvent(signals) ==
    [k \in DOMAIN signals |->
        signals[CHOOSE i \in DOMAIN signals :
                   Cardinality({j \in DOMAIN signals : Before(signals, j, i)}) = k - 1]]

FeedOf(s) == <<s.type, s.provider>>

\* Mutation of Repeats: the window is measured from the signal that was kept last.
RepeatsLast(entry, s) ==
    s.event - entry.signal.event <= TimeWindow
    /\ Sign(s.direction) = Sign(entry.signal.direction)

\* A signal repeats the entry before it when it points the same way within the
\* window that the first signal of the entry opened.
Repeats(entry, s) ==
    s.event - entry.anchor <= TimeWindow
    /\ Sign(s.direction) = Sign(entry.signal.direction)

\* What one feed has to say: the newer signal replaces the one it repeats.
Distinct(feed) ==
    LET kept[n \in 0 .. Len(feed)] ==
            IF n = 0 THEN <<>>
            ELSE LET before == kept[n - 1]
                 IN IF before # <<>> /\ Repeats(Last(before), feed[n])
                    THEN ReplaceAt(before, Len(before), [Last(before) EXCEPT !.signal = feed[n]])
                    ELSE Append(before, [anchor |-> feed[n].event, signal |-> feed[n]])
        entries == kept[Len(feed)]
    IN [i \in DOMAIN entries |-> entries[i].signal]

\* The feeds follow one another as their first signals do.
Deduped(signals) ==
    LET feed(i) == SelectSeq(signals, LAMBDA s : FeedOf(s) = FeedOf(signals[i]))
        opens(i) == \A j \in 1 .. i - 1 : FeedOf(signals[j]) # FeedOf(signals[i])
    IN ByEvent(FlattenSeq([i \in DOMAIN signals |-> IF opens(i) THEN Distinct(feed(i)) ELSE <<>>]))

Agrees(o, s) ==
    /\ o.type = s.type /\ Sign(o.direction) = Sign(s.direction)
    /\ Abs(o.event - s.event) <= TimeWindow

\* Mutation of Confirmed: two signals are enough, whoever sent them.
ConfirmedBySelf(s, others) ==
    \/ Trusted(s) \/ s.type \in Exempt
    \/ Cardinality({i \in DOMAIN others : Agrees(others[i], s)}) >= 2

Confirmed(s, others) ==
    \/ Trusted(s) \/ s.type \in Exempt
    \/ Cardinality({others[i].provider : i \in {j \in DOMAIN others : Agrees(others[j], s)}}) >= 2

filter_signals(signals) ==
    LET deduped == Deduped(SelectSeq(ByEvent(signals), Reliable))
    IN IF confirming THEN SelectSeq(deduped, LAMBDA s : Confirmed(s, deduped)) ELSE deduped

-----------------------------------------------------------------------------
(* ConsensusEngine and NarrativeEngine *)

Quot(a, b) == IF a >= 0 THEN a \div b ELSE -((-a) \div b)
Lesser(a, b) == IF a < b THEN a ELSE b
Greater(a, b) == IF a < b THEN b ELSE a

Power(s) == s.strength * s.weight
TotalPower(signals) == FoldLeft(LAMBDA sum, s : sum + Power(s), 0, signals)
\* the power of the signals that point one way, times how far they point
PowerTowards(signals, sign) ==
    FoldLeft(LAMBDA sum, s : IF Sign(s.direction) = sign THEN sum + Power(s) * Abs(s.direction) ELSE sum,
             0, signals)

Undecided == [direction |-> "neutral", confidence |-> 0, conflict |-> 0]

\* Mutation of Leaning: a bearish consensus has to pass the threshold.
LeaningBeyond(net, total) ==
    IF net >= DirectionThreshold * total THEN "bullish"
    ELSE IF net < -DirectionThreshold * total THEN "bearish" ELSE "neutral"

Leaning(net, total) ==
    IF net >= DirectionThreshold * total THEN "bullish"
    ELSE IF net <= -DirectionThreshold * total THEN "bearish" ELSE "neutral"

\* Five signals of full power are all the evidence that counts.
compute_consensus(signals) ==
    LET total == TotalPower(signals)
        bullish == PowerTowards(signals, 1)
        bearish == PowerTowards(signals, -1)
        net == bullish - bearish
        minority == Lesser(bullish, bearish)
        majority == Greater(bullish, bearish)
        contested == majority > 0 /\ 10 * minority >= ConflictThreshold * majority
        conflict == IF majority > 0 THEN Quot(1000 * minority, majority) ELSE 0
        base == Lesser(1000, 2 * total)
    IN IF total = 0 THEN Undecided
       ELSE [direction |-> IF contested /\ Abs(net) < DirectionThreshold * total
                           THEN "conflicting" ELSE Leaning(net, total),
             confidence |-> base - Quot(base * conflict, 2000),
             conflict |-> conflict]

\* The evidence for a narrative: types of signal, and the way they must point.
Evidence == [
    etf_accumulation        |-> {<<"etf_flow", 1>>},
    risk_on                 |-> {<<"cpi", 1>>, <<"fomc", 1>>, <<"social_sentiment", 1>>},
    risk_off                |-> {<<"cpi", -1>>, <<"fomc", -1>>, <<"dxy", 1>>},
    short_squeeze           |-> {<<"liquidations", 1>>},
    long_squeeze            |-> {<<"liquidations", -1>>},
    alt_season              |-> {<<"btc_dominance", -1>>},
    btc_dominance_expansion |-> {<<"btc_dominance", 1>>},
    stablecoin_expansion    |-> {<<"stablecoin_flow", 1>>}]

Supporting(signals, theme) ==
    SelectSeq(signals, LAMBDA s : <<s.type, Sign(s.direction)>> \in Evidence[theme])

\* 1 - (1 - p1)(1 - p2)..., in thousandths; the product is kept in millionths.
StrengthOf(signals) ==
    1000 - FoldLeft(LAMBDA none, s : Quot(none * (100 - Power(s)), 100), 1000000, signals) \div 1000

compute_narratives(signals, time) ==
    {[theme |-> theme, strength |-> StrengthOf(Supporting(signals, theme)),
      since |-> Min({Supporting(signals, theme)[i].event : i \in DOMAIN Supporting(signals, theme)}
                    \cup {time}),
      evidence |-> Len(Supporting(signals, theme))] :
        theme \in {t \in DOMAIN Evidence : /\ Len(Supporting(signals, t)) >= MinEvidence
                                           /\ StrengthOf(Supporting(signals, t)) >= MinStrength}}

-----------------------------------------------------------------------------
(* MarketIntelligenceService *)

EmptyReport == [consensus |-> Undecided, value |-> 0, noise |-> <<0, 1>>, coverage |-> <<0, 1>>,
                narratives |-> {}, signals |-> <<>>]

ValueOf(consensus) ==
    CASE consensus.direction = "bullish" -> consensus.confidence
      [] consensus.direction = "bearish" -> -consensus.confidence
      [] OTHER -> 0

\* noise and coverage as fractions
ReportOn(raw, time) ==
    LET kept == filter_signals(raw)
        consensus == compute_consensus(kept)
    IN IF kept = <<>> THEN EmptyReport
       ELSE [consensus |-> consensus, value |-> ValueOf(consensus),
             noise |-> <<Len(raw) - Len(kept), Len(raw)>>,
             coverage |-> <<Cardinality({kept[i].type : i \in DOMAIN kept}), NumTypes>>,
             narratives |-> compute_narratives(kept, time), signals |-> kept]

Pending(p) == stage = "Fetching" /\ answers[p] = None

Init ==
    /\ now = 0 /\ stage = "Idle" /\ confirming \in BOOLEAN
    /\ started = 0 /\ answers = [p \in Providers |-> None] /\ report = EmptyReport

Tick == now < MaxTime /\ now' = now + 1 /\ UNCHANGED <<stage, confirming, started, answers, report>>

\* generate_report: the timestamp of the report is taken, the tasks are started.
\* A report is only begun when the clock leaves room for the timeouts.
Generate ==
    /\ stage = "Idle" /\ \A p \in Providers : now + Timeouts[p] <= MaxTime
    /\ stage' = "Fetching" /\ started' = now
    /\ UNCHANGED <<now, confirming, answers, report>>

\* _fetch_safe: the provider answers before its timeout, or raises.
Arrive(p, signals) ==
    /\ Pending(p) /\ now <= started + Timeouts[p]
    /\ answers' = [answers EXCEPT ![p] = signals]
    /\ UNCHANGED <<now, stage, confirming, started, report>>

Answer(p) == \E signals \in Answers[p] : Arrive(p, signals)
Fail(p) == Arrive(p, <<>>)

\* Mutation of TimeOut: the first answer is waited for without a limit.
TimeOutAfterFirst(p) ==
    /\ Pending(p) /\ now >= started + Timeouts[p]
    /\ \E q \in Providers : answers[q] # None
    /\ answers' = [answers EXCEPT ![p] = <<>>]
    /\ UNCHANGED <<now, stage, confirming, started, report>>

TimeOut(p) ==
    /\ Pending(p) /\ now >= started + Timeouts[p]
    /\ answers' = [answers EXCEPT ![p] = <<>>]
    /\ UNCHANGED <<now, stage, confirming, started, report>>

\* asyncio.gather returns the answers in the order of the providers.
Raw == FlattenSeq([i \in DOMAIN Registry |-> answers[Registry[i]]])

Gather ==
    /\ stage = "Fetching" /\ \A p \in Providers : ~Pending(p)
    /\ stage' = "Reported" /\ report' = ReportOn(Raw, started)
    /\ UNCHANGED <<now, confirming, started, answers>>

\* What fairness asks of Gather: that it happens, whatever the report is.
Gathers == stage = "Fetching" /\ (\A p \in Providers : ~Pending(p)) /\ stage' = "Reported"

\* The caller has the report; the service keeps nothing of it.
Return ==
    /\ stage = "Reported" /\ stage' = "Idle"
    /\ started' = 0 /\ answers' = [p \in Providers |-> None] /\ report' = EmptyReport
    /\ UNCHANGED <<now, confirming>>

Provider(p) == Answer(p) \/ Fail(p) \/ TimeOut(p)
Next == Tick \/ Generate \/ (\E p \in Providers : Provider(p)) \/ Gather \/ Return

-----------------------------------------------------------------------------
Reported == stage = "Reported"
Kept == ToSet(report.signals)

(* What NoiseFilter.filter_signals (noise_filter.py:39) owes the report:   *)
(* an unconfirmed signal comes through only in the company of the signal   *)
(* of another provider that confirms it; what is left out as a repetition  *)
(* has a newer signal of its feed within the window to speak for it; and   *)
(* neither depends on the order in which the providers were asked.         *)
FilterHonest ==
    LET asked == Reverse(Registry)
        other == ReportOn(FlattenSeq([i \in DOMAIN asked |-> answers[asked[i]]]), started)
        spokenFor(s) == \E o \in Kept : /\ FeedOf(o) = FeedOf(s) /\ Agrees(o, s)
                                        /\ o.event >= s.event
    IN Reported =>
        /\ Kept \subseteq {s \in ToSet(Raw) : Reliable(s)}
        /\ confirming => \A s \in Kept :
              \/ Trusted(s) \/ s.type \in Exempt
              \/ \E o \in Kept : Agrees(o, s) /\ o.provider # s.provider
        /\ \A s \in ToSet(Raw) :
              Reliable(s) /\ (~confirming \/ s.type \in Exempt) => spokenFor(s)
        /\ ToSet(other.signals) = Kept /\ other.consensus = report.consensus

(* What the report says of the signals (consensus.py:34, narrative.py:27): *)
(* turning every signal round turns the verdict round and nothing else, a  *)
(* verdict has the more powerful side behind it, and the strength of a     *)
(* narrative is that of independent evidence: no more than all of it, no   *)
(* less than any part of it.                                               *)
VerdictHonest ==
    LET mirrored == [i \in DOMAIN report.signals |->
                        [report.signals[i] EXCEPT !.direction = -@]]
        opposite(d) == CASE d = "bullish" -> "bearish" [] d = "bearish" -> "bullish" [] OTHER -> d
        verdict == report.consensus
        lead == PowerTowards(report.signals, 1) - PowerTowards(report.signals, -1)
    IN Reported =>
        /\ compute_consensus(mirrored) = [verdict EXCEPT !.direction = opposite(@)]
        /\ Sign(report.value) \in {0, Sign(lead)}
        /\ verdict.direction = "conflicting" => verdict.conflict > 0 /\ report.value = 0
        /\ verdict.confidence \in 0 .. 1000 /\ verdict.conflict \in 0 .. 1000
        /\ report.noise[1] \in 0 .. report.noise[2] /\ report.coverage[1] \in 0 .. report.coverage[2]
        /\ \A n \in report.narratives :
              LET support == Supporting(report.signals, n.theme)
              IN /\ n.since <= started /\ n.evidence <= Len(report.signals)
                 /\ n.strength <= 10 * TotalPower(support) + 1 /\ n.strength <= 1000
                 /\ \A i \in DOMAIN support : StrengthOf(RemoveAt(support, i)) <= n.strength

(* The report of MarketIntelligenceService.generate_report                 *)
(* (service.py:91) is both.                                                *)
ReportSound == FilterHonest /\ VerdictHonest

(* A report that is begun is given, also when a provider never answers     *)
(* (service.py:191).                                                       *)
EveryReportEnds == stage = "Fetching" ~> stage # "Fetching"
=============================================================================
