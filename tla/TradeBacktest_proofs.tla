------------------------ MODULE TradeBacktest_proofs ------------------------
(***************************************************************************)
(* Proofs about the backtester, for any exchange data, page sizes, windows *)
(* and failures, any pipeline, and any number of symbols and windows.      *)
(*                                                                         *)
(* DATA.  The exchange answers a page with the first, or the last, so many *)
(* records of a range.  The invariant is about the pages of the series     *)
(* under way: what has come so far is everything on this side of the       *)
(* cursor.  It rests on two facts about such pages: they are prefixes, or  *)
(* suffixes, of what they are taken from, and a page that is not full      *)
(* leaves nothing out.                                                     *)
(*                                                                         *)
(* SIGNALS.  A played account is the replay of its candles in order, and   *)
(* at each candle the signal is a function of the candles closed by then.  *)
(*                                                                         *)
(* ACCOUNTS.  The account of each symbol is accounted for by its trades,   *)
(* position and order at every candle; the report is sorted, and sorting   *)
(* loses and repeats no trade.                                             *)
(*                                                                         *)
(* CHOICES.  The walk-forward analysis, at the end: the best so far is at  *)
(* most a tolerance per confidence behind any that was tried, the windows  *)
(* are each a step from the one before, and the figures of a report are    *)
(* sums of a sorted list.                                                  *)
(***************************************************************************)
EXTENDS MCBacktest, Sums_proofs

-----------------------------------------------------------------------------
(* The inductive invariant                                                 *)

\* Settlements of the symbols done, and of the one in turn up to the cursor.
FundingSoFar ==
    stage = "Funding" =>
        /\ job \in Pairs
        /\ cursor \in Start(window) .. End(window)
        /\ got = {t \in Settlements[job] : Start(window) <= t /\ t < cursor}
        /\ fetched \in Seq(SUBSET Nat) /\ Len(fetched) = job - 1
        /\ \A i \in 1 .. job - 1 :
              fetched[i] = {t \in Settlements[i] : Start(window) <= t /\ t < End(window)}

\* Candles of the series in turn, from the end of the window down to the cursor.
CandlesSoFar ==
    stage = "Candles" =>
        /\ job \in 1 .. NumKeys + 1
        /\ cursor \in 0 .. End(window)
        /\ job <= NumKeys => got = {t \in CandleTimes[key[1]][key[2]] :
                                       cursor < t /\ t <= End(window)}
        /\ got # {} \/ cursor # End(window) => job <= NumKeys /\ series[key] = None

RatesWhole ==
    \A s \in Pairs : coverage[s] # None =>
        /\ coverage[s].from \in Nat /\ coverage[s].to \in Nat
        /\ rates[s] = {t \in Settlements[s] : coverage[s].from <= t /\ t < coverage[s].to}

DataInv ==
    /\ stage \in {"Idle", "Funding", "Context", "Candles", "Simulate"}
    /\ job \in Nat \ {0}
    /\ stage # "Idle" => window \in Windows
    /\ series = [k \in Keys |-> series[k]] /\ origin = [k \in Keys |-> origin[k]]
    /\ \A k \in Keys : series[k] # None => origin[k].window \in Windows
    /\ FundingSoFar
    /\ CandlesSoFar
    /\ RatesWhole
    /\ SeriesWhole

\* All series are there when the first symbol is played, and all that is kept are
\* sets of times.
GivenInv ==
    /\ stage = "Candles" => \A j \in 1 .. job - 1 : series[KeyAt(j)] # None
    /\ stage = "Simulate" => \A k \in Keys : series[k] # None
    /\ \A s \in Pairs : rates[s] # None => rates[s] \subseteq Settlements[s]
    /\ contexts = [s \in Pairs |-> contexts[s]]
    /\ \A s \in Pairs : contexts[s] # None => contexts[s] \in [Fields -> SUBSET Nat]

\* What a symbol can be played with; there may be no higher timeframe.
DataSets ==
    {d \in [candles : SUBSET Nat, higher : SUBSET Nat, rates : SUBSET Nat,
            context : [Fields -> SUBSET Nat], intelligence : SUBSET Nat] :
        Len(Bars) = 1 => d.higher = {}}

\* g is the account after every instant until last, as the candles leave it.
Played(g, s, d, last) ==
    /\ g[NotYet] = Fresh
    /\ \A t \in 0 .. last :
          g[t] = IF t \in InWindow(d) THEN PlayCandle(g[t - 1], s, d, t) ELSE g[t - 1]

\* The account is the one that the candles up to the clock have left.
PlayedSoFar ==
    /\ clock \in {NotYet} \cup Nat
    /\ stage \in {"Funding", "Context", "Candles"} => clock = NotYet /\ account = Fresh
    /\ Simulating =>
          /\ clock < End(window)
          /\ \E g : Played(g, job, Data(job), clock) /\ account = g[clock]

\* What an account is made of.
Orders == [direction : Directions, entry : Int, quantity : Int, stop : Int, target : Int]
Waiting == [direction : Directions, entry : Int, quantity : Int, stop : Int, target : Int,
            placed : Int]
Positions == [direction : Directions, quantity : Int, stop : Int, target : Int,
              placed : Int, entry : Int, openedAt : Int]
TradesOf(s) == [symbol : {s}, direction : Directions, entered : Int, exited : Int,
                placed : Int, quantity : Int, at : Int, price : Int, gross : Int,
                fees : Int, slippage : Int, reason : CloseReasons, funding : Int]
AccountsOf(s) == [free : Int, total : Int, peak : Int, position : Positions \cup {None},
                  order : Waiting \cup {None}, closed : Seq(TradesOf(s)), raised : BOOLEAN]

\* The pipeline returns an order or nothing, whatever it is shown.
PipelineDecides ==
    \A k \in Strategies, s \in Pairs : \A d \in DataSets, t \in Nat, a \in AccountsOf(s) :
        Decide(k, View(d, t), a) \in Orders \cup {None}

\* A trade within window w, done by now.
TradeTimely(trade, w, now) ==
    /\ trade.placed < trade.entered /\ trade.entered <= trade.exited
    /\ Start(w) <= trade.placed /\ trade.exited < End(w) /\ trade.exited <= now

\* Orders, positions and trades of one account follow one another in time.
Timely(a, w, now) ==
    /\ \A i \in DOMAIN a.closed : TradeTimely(a.closed[i], w, now)
    /\ \A i, j \in DOMAIN a.closed : i < j => a.closed[i].exited <= a.closed[j].placed
    /\ a.position # None =>
          /\ a.order = None
          /\ a.position.placed < a.position.openedAt /\ a.position.openedAt <= now
          /\ Start(w) <= a.position.placed
          /\ \A i \in DOMAIN a.closed : a.closed[i].exited <= a.position.placed
    /\ a.order # None =>
          /\ Start(w) <= a.order.placed /\ a.order.placed <= now
          /\ \A i \in DOMAIN a.closed : a.closed[i].exited <= a.order.placed

Balanced(a) == a.free + Invested(a) = InitialCapital + NetGain(a.closed)

AccountOk(a, s, w, now) == a \in AccountsOf(s) /\ Timely(a, w, now) /\ Balanced(a)

-----------------------------------------------------------------------------
(* Bounds, and pages of records                                            *)

\* A window ends after it starts.
LEMMA WindowBounds ==
    ASSUME NEW w \in Windows
    PROVE  Start(w) \in Nat /\ End(w) \in Nat /\ Start(w) < End(w)
<1>1. w.first \in Nat /\ w.last \in Nat /\ w.first < w.last /\ DayLength \in Nat \ {0}
  BY DataAssumption
<1> DEFINE d == w.last + 1 - w.first
<1>2. d \in Nat \ {0} /\ w.last + 1 = w.first + d
  BY <1>1
<1>3. End(w) = w.first * DayLength + d * DayLength
  BY <1>1, <1>2 DEF End
<1> HIDE DEF d
<1>4. d * DayLength \in Nat /\ d * DayLength > 0 /\ w.first * DayLength \in Nat
  BY <1>1, <1>2
<1> QED
  BY <1>3, <1>4 DEF Start

\* Every job of the candle stage is a symbol and one of its timeframes.
LEMMA JobIsKey ==
    ASSUME NEW j \in 1 .. NumKeys
    PROVE  /\ KeyAt(j) \in Keys
           /\ KeyAt(j)[1] \in Pairs /\ KeyAt(j)[2] \in 1 .. Len(Bars)
<1>1. Len(Bars) \in Nat \ {0} /\ NumPairs \in Nat \ {0}
  BY DataAssumption
<1> DEFINE n == Len(Bars)
           q == (j - 1) \div n
           r == (j - 1) % n
<1>2. NumKeys = NumPairs * n /\ j - 1 \in Nat /\ j - 1 < NumPairs * n
  BY <1>1 DEF NumKeys
<1>3. q \in Int /\ r \in 0 .. n - 1 /\ j - 1 = n * q + r
  BY <1>1, <1>2
<1>4. KeyAt(j) = <<q + 1, r + 1>>
  BY DEF KeyAt
<1> HIDE DEF q, r
<1>5. q >= 0
  <2>1. SUFFICES ASSUME q <= -1
                 PROVE  FALSE
    BY <1>3
  <2>2. n * q <= n * (-1)
    BY <1>1, <1>3, <2>1
  <2> QED
    BY <1>1, <1>2, <1>3, <2>2
<1>6. q < NumPairs
  <2>1. SUFFICES ASSUME q >= NumPairs
                 PROVE  FALSE
    BY <1>1, <1>3
  <2>2. n * q >= NumPairs * n
    BY <1>1, <1>3, <2>1
  <2> QED
    BY <1>1, <1>2, <1>3, <2>2
<1> QED
  BY <1>1, <1>3, <1>4, <1>5, <1>6 DEF Keys, Pairs

\* The warm-up of a series ends somewhere in time.
LEMMA TargetIsTime ==
    ASSUME NEW k \in Keys, NEW w \in Windows
    PROVE  /\ WarmUp * Bars[k[2]] \in Nat /\ Target(k, w) \in Nat
           /\ \A t \in Nat : t < Target(k, w) => t + WarmUp * Bars[k[2]] < Start(w)
<1>1. k[2] \in 1 .. Len(Bars) /\ Bars \in Seq(Nat \ {0}) /\ WarmUp \in Nat
  BY DataAssumption DEF Keys
<1>2. Bars[k[2]] \in Nat
  BY <1>1
<1>3. WarmUp * Bars[k[2]] \in Nat
  BY <1>1, <1>2
<1> QED
  BY <1>3, WindowBounds DEF Target

\* A set of times that is not empty has an earliest one,
LEMMA EarliestTime ==
    ASSUME NEW S \in SUBSET Nat, S # {}
    PROVE  Min(S) \in S /\ \A t \in S : Min(S) <= t
<1> DEFINE R == OpToRel(<, Nat)
<1>1. IsWellFoundedOn(R, Nat)
  BY NatLessThanWellFounded
<1>2. \A t, x \in Nat : t < x => <<t, x>> \in R
  BY DEF OpToRel
<1> HIDE DEF R
<1>3. PICK x \in S : \A t \in S : ~(<<t, x>> \in R)
  BY <1>1, WFMin
<1>4. ASSUME NEW t \in S
      PROVE  x <= t
  <2>1. t \in Nat /\ x \in Nat
    OBVIOUS
  <2>2. ~(t < x)
    BY <2>1, <1>2, <1>3
  <2> QED
    BY <2>1, <2>2
<1> QED
  BY <1>4 DEF Min

\* and if all are at most m, a latest one.
LEMMA LatestTime ==
    ASSUME NEW m \in Nat, NEW S \in SUBSET (0 .. m), S # {}
    PROVE  Max(S) \in S /\ \A t \in S : t <= Max(S)
<1> DEFINE R == {m - t : t \in S}
<1>1. \A t \in S : t \in Nat /\ m - t \in Nat /\ m - t \in R
  OBVIOUS
<1>2. R \in SUBSET Nat /\ R # {}
  BY <1>1
<1>3. PICK r \in R : \A s \in R : r <= s
  BY <1>2, EarliestTime
<1>4. PICK x \in S : r = m - x
  BY <1>3
<1>5. ASSUME NEW t \in S
      PROVE  t <= x
  <2>1. t \in Nat /\ x \in Nat /\ m - x <= m - t
    BY <1>1, <1>3, <1>4
  <2> QED
    BY <2>1
<1> QED
  BY <1>5 DEF Max

\* The first n records of a set are a prefix of it, and with fewer than n all of it.
LEMMA FirstPage ==
    ASSUME NEW S \in SUBSET Nat, NEW n \in Nat
    PROVE  /\ FirstOf(S, n) \subseteq S
           /\ \A t \in S \ FirstOf(S, n), u \in FirstOf(S, n) : u < t
           /\ ~(Cardinality(FirstOf(S, n)) >= n) => FirstOf(S, n) = S
<1> DEFINE page == FirstOf(S, n)
           before(t) == {u \in S : u < t}
<1>1. page = {t \in S : Cardinality(before(t)) < n}
  BY DEF FirstOf
<1>2. page \subseteq S /\ \A t \in S : t \in Nat
  BY <1>1
<1> HIDE DEF page
<1>3. \A t \in Nat : IsFiniteSet(before(t)) /\ Cardinality(before(t)) \in Nat
  <2>1. SUFFICES ASSUME NEW t \in Nat
                 PROVE  IsFiniteSet(before(t)) /\ Cardinality(before(t)) \in Nat
    OBVIOUS
  <2>2. \A u \in S : u < t => u \in 0 .. t
    OBVIOUS
  <2>3. before(t) \subseteq 0 .. t
    BY <2>2
  <2>4. IsFiniteSet(0 .. t)
    BY FS_Interval
  <2>5. IsFiniteSet(before(t))
    BY <2>3, <2>4, FS_Subset
  <2> QED
    BY <2>5, FS_CardinalityType
<1>4. ASSUME NEW t \in S \ page, NEW u \in page
      PROVE  u < t
  <2>1. t \in Nat /\ u \in Nat /\ t \in S /\ u \in S /\ t # u
    BY <1>2
  <2>2. SUFFICES ASSUME t < u
                 PROVE  FALSE
    BY <2>1
  <2>3. \A v \in S : v < t => v < u
    BY <2>1, <2>2, <1>2
  <2>4. before(t) \subseteq before(u)
    BY <2>3
  <2>5. /\ Cardinality(before(t)) <= Cardinality(before(u))
        /\ Cardinality(before(t)) \in Nat /\ Cardinality(before(u)) \in Nat
    BY <2>1, <2>4, <1>3, FS_Subset
  <2>6. Cardinality(before(u)) < n /\ ~(Cardinality(before(t)) < n)
    BY <2>1, <1>1
  <2> QED
    BY <2>5, <2>6
<1>5. ASSUME page # S
      PROVE  Cardinality(page) >= n
  <2>1. S \ page \in SUBSET Nat /\ S \ page # {}
    BY <1>2, <1>5
  <2>2. PICK t \in S \ page : \A u \in S \ page : t <= u
    BY <2>1, EarliestTime
  <2>3. t \in Nat /\ t \in S /\ t \notin page /\ \A u \in page : u < t
    BY <1>2, <1>4
  <2>4. \A u \in S : u < t => u \in page
    BY <1>2, <2>2, <2>3
  <2>5. page = before(t)
    BY <1>2, <2>3, <2>4
  <2>6. ~(Cardinality(before(t)) < n) /\ Cardinality(before(t)) \in Nat
    BY <2>3, <1>1, <1>3
  <2> QED
    BY <2>5, <2>6
<1> QED
  BY <1>2, <1>4, <1>5 DEF page

\* The last n records of a set are a suffix of it, and with fewer than n all of it.
LEMMA LastPage ==
    ASSUME NEW m \in Nat, NEW S \in SUBSET (0 .. m), NEW n \in Nat
    PROVE  /\ LastOf(S, n) \subseteq S
           /\ \A t \in S \ LastOf(S, n), u \in LastOf(S, n) : t < u
           /\ Cardinality(LastOf(S, n)) \in Nat
           /\ Cardinality(LastOf(S, n)) < n => LastOf(S, n) = S
           /\ LastOf(S, n) = {} => Cardinality(LastOf(S, n)) = 0
<1> DEFINE page == LastOf(S, n)
           after(t) == {u \in S : u > t}
<1>1. page = {t \in S : Cardinality(after(t)) < n}
  BY DEF LastOf
<1>2. page \subseteq S /\ \A t \in S : t \in Nat
  BY <1>1
<1> HIDE DEF page
<1>3. /\ \A t \in Nat : IsFiniteSet(after(t)) /\ Cardinality(after(t)) \in Nat
      /\ Cardinality(page) \in Nat
  <2>1. IsFiniteSet(0 .. m) /\ S \subseteq 0 .. m
    BY FS_Interval
  <2>2. IsFiniteSet(S)
    BY <2>1, FS_Subset
  <2>3. \A t \in Nat : after(t) \subseteq S
    OBVIOUS
  <2> QED
    BY <2>2, <2>3, <1>2, FS_Subset, FS_CardinalityType
<1>4. ASSUME NEW t \in S \ page, NEW u \in page
      PROVE  t < u
  <2>1. t \in Nat /\ u \in Nat /\ t \in S /\ u \in S /\ t # u
    BY <1>2
  <2>2. SUFFICES ASSUME u < t
                 PROVE  FALSE
    BY <2>1
  <2>3. \A v \in S : v > t => v > u
    BY <2>1, <2>2, <1>2
  <2>4. after(t) \subseteq after(u)
    BY <2>3
  <2>5. /\ Cardinality(after(t)) <= Cardinality(after(u))
        /\ Cardinality(after(t)) \in Nat /\ Cardinality(after(u)) \in Nat
    BY <2>1, <2>4, <1>3, FS_Subset
  <2>6. Cardinality(after(u)) < n /\ ~(Cardinality(after(t)) < n)
    BY <2>1, <1>1
  <2> QED
    BY <2>5, <2>6
<1>5. ASSUME page # S
      PROVE  ~(Cardinality(page) < n)
  <2>1. S \ page \in SUBSET (0 .. m) /\ S \ page # {}
    BY <1>2, <1>5
  <2>2. PICK t \in S \ page : \A u \in S \ page : u <= t
    BY <2>1, LatestTime
  <2>3. t \in Nat /\ t \in S /\ t \notin page /\ \A u \in page : t < u
    BY <1>2, <1>4
  <2>4. \A u \in S : u > t => u \in page
    BY <1>2, <2>2, <2>3
  <2>5. page = after(t)
    BY <1>2, <2>3, <2>4
  <2>6. ~(Cardinality(after(t)) < n)
    BY <2>3, <1>1
  <2> QED
    BY <2>5, <2>6
<1> QED
  BY <1>2, <1>3, <1>4, <1>5, FS_EmptySet DEF page

-----------------------------------------------------------------------------
(* Steps that leave what is kept alone                                     *)

\* Away from the pages, only what is kept matters.
LEMMA AsideKeeps ==
    ASSUME DataInv, UNCHANGED <<window, rates, coverage, series, origin>>,
           stage' \in {"Idle", "Context", "Simulate"}, job' \in Nat \ {0},
           stage' # "Idle" => window \in Windows
    PROVE  DataInv'
BY DEF DataInv, FundingSoFar, CandlesSoFar, RatesWhole, SeriesWhole

\* A run starts with the first symbol, and no page yet.
LEMMA RunKeeps ==
    ASSUME DataInv, NEW w \in Windows, Run(w)
    PROVE  DataInv'
<1>1. /\ window' = w /\ stage' = "Funding" /\ job' = 1 /\ cursor' = Start(w)
      /\ got' = {} /\ fetched' = <<>>
      /\ UNCHANGED <<rates, coverage, series, origin>>
  BY DEF Run, kept
<1>2. Start(w) \in Nat /\ End(w) \in Nat /\ Start(w) < End(w)
  BY WindowBounds
<1>3. 1 \in Pairs /\ Settlements[1] \subseteq Nat
  BY DataAssumption DEF Pairs
<1>4. {t \in Settlements[1] : Start(w) <= t /\ t < Start(w)} = {}
  <2>1. \A t \in Settlements[1] : ~(Start(w) <= t /\ t < Start(w))
    BY <1>2, <1>3
  <2> QED
    BY <2>1
<1>5. FundingSoFar'
  BY <1>1, <1>2, <1>3, <1>4 DEF FundingSoFar
<1>6. RatesWhole' /\ SeriesWhole'
  BY <1>1 DEF DataInv, RatesWhole, SeriesWhole
<1> QED
  BY <1>1, <1>5, <1>6 DEF DataInv, CandlesSoFar

-----------------------------------------------------------------------------
(* Settlements                                                             *)

\* After a page the settlements that have come are those before the cursor.
LEMMA FundingPageKeeps ==
    ASSUME DataInv, FundingPage
    PROVE  DataInv'
<1>1. /\ stage = "Funding" /\ window \in Windows /\ job \in Pairs
      /\ cursor \in Start(window) .. End(window) /\ cursor < End(window)
      /\ got = {t \in Settlements[job] : Start(window) <= t /\ t < cursor}
  BY DEF DataInv, FundingPage, FundingSoFar
<1>2. Start(window) \in Nat /\ End(window) \in Nat /\ cursor \in Nat
  BY <1>1, WindowBounds
<1>3. PageSpan \in Nat \ {0} /\ PageLimit \in Nat \ {0} /\ Settlements[job] \subseteq Nat
  BY <1>1, DataAssumption DEF Pairs
<1>4. pageEnd \in Nat /\ cursor <= pageEnd /\ pageEnd < End(window)
  BY <1>1, <1>2, <1>3 DEF pageEnd, Lesser
<1> DEFINE S == Settlements[job] \cap (cursor .. pageEnd)
<1>5. PICK page : page = FundingAnswer
  OBVIOUS
<1>6. S \in SUBSET Nat /\ \A t : t \in S <=> t \in Settlements[job] /\ cursor <= t /\ t <= pageEnd
  BY <1>2, <1>3, <1>4
<1>7. page = FirstOf(S, PageLimit)
  BY <1>5 DEF FundingAnswer
<1> HIDE DEF S
<1>8. /\ page \subseteq S
      /\ \A t \in S \ page, u \in page : u < t
      /\ ~(Cardinality(page) >= PageLimit) => page = S
  BY <1>3, <1>6, <1>7, FirstPage
<1>9. PICK c : c = AfterPage(page)
  OBVIOUS
<1>10. /\ c \in Nat /\ cursor <= c /\ c <= End(window)
       /\ \A t : t \in page <=> t \in Settlements[job] /\ cursor <= t /\ t < c
  <2>1. CASE Cardinality(page) >= PageLimit
    <3>1. page # {}
      BY <1>3, <2>1, FS_EmptySet
    <3>2. \A t \in page : t \in 0 .. pageEnd
      BY <1>2, <1>4, <1>6, <1>8
    <3>3. Max(page) \in page /\ \A t \in page : t <= Max(page)
      BY <1>4, <3>1, <3>2, LatestTime
    <3>4. PICK m \in page : m = Max(page) /\ \A t \in page : t <= m
      BY <3>3
    <3>5. c = m + 1
      BY <1>9, <2>1, <3>4 DEF AfterPage
    <3>6. m \in Nat /\ cursor <= m /\ m <= pageEnd
      BY <1>2, <1>6, <1>8
    <3>7. \A t \in page : t \in Settlements[job] /\ cursor <= t /\ t < c
      <4> SUFFICES ASSUME NEW t \in page
                   PROVE  t \in Settlements[job] /\ cursor <= t /\ t < c
        OBVIOUS
      <4>1. t \in Settlements[job] /\ cursor <= t /\ t \in Nat /\ t <= m
        BY <1>3, <1>6, <1>8, <3>4
      <4> QED
        BY <4>1, <3>5, <3>6
    <3>8. ASSUME NEW t \in Settlements[job], cursor <= t, t < c
          PROVE  t \in page
      <4>1. t \in Nat /\ t <= m /\ t \in S
        BY <1>3, <1>4, <1>6, <3>5, <3>6, <3>8
      <4>2. ~(m < t)
        BY <4>1, <3>6
      <4> QED
        BY <4>1, <4>2, <1>8
    <3>9. c \in Nat /\ cursor <= c /\ c <= End(window)
      BY <1>2, <1>4, <3>5, <3>6
    <3> QED
      BY <3>7, <3>8, <3>9
  <2>2. CASE ~(Cardinality(page) >= PageLimit)
    <3>1. c = pageEnd + 1 /\ page = S
      BY <1>8, <1>9, <2>2 DEF AfterPage
    <3>2. \A t \in Settlements[job] : t <= pageEnd <=> t < c
      BY <1>3, <1>4, <3>1
    <3> QED
      BY <1>2, <1>4, <1>6, <3>1, <3>2
  <2> QED
    BY <2>1, <2>2
<1>11. /\ got' = got \cup page /\ cursor' = c
       /\ UNCHANGED <<window, stage, job, fetched, rates, coverage, series, origin>>
  BY <1>5, <1>9 DEF FundingPage, kept
<1>12. got' = {t \in Settlements[job] : Start(window) <= t /\ t < c}
  <2>1. ASSUME NEW t \in Settlements[job]
        PROVE  t \in got \cup page <=> Start(window) <= t /\ t < c
    <3>1. t \in Nat
      BY <1>3
    <3>2. t \in got <=> Start(window) <= t /\ t < cursor
      BY <1>1
    <3>3. t \in page <=> cursor <= t /\ t < c
      BY <1>10
    <3> QED
      BY <3>1, <3>2, <3>3, <1>1, <1>2, <1>10
  <2>2. got \cup page \subseteq Settlements[job]
    BY <1>1, <1>10
  <2> QED
    BY <2>1, <2>2, <1>11
<1>13. c \in Start(window) .. End(window)
  BY <1>1, <1>2, <1>10
<1>14. FundingSoFar'
  BY <1>1, <1>11, <1>12, <1>13 DEF DataInv, FundingSoFar
<1>15. RatesWhole' /\ SeriesWhole'
  BY <1>11 DEF DataInv, RatesWhole, SeriesWhole
<1> QED
  BY <1>1, <1>11, <1>14, <1>15 DEF DataInv, CandlesSoFar

\* Then the next symbol starts at the start of the window.
LEMMA NextSymbolKeeps ==
    ASSUME DataInv, NextSymbol
    PROVE  DataInv'
<1>1. /\ stage = "Funding" /\ window \in Windows /\ job \in Pairs /\ job < NumPairs
      /\ cursor \in Start(window) .. End(window) /\ cursor >= End(window)
      /\ got = {t \in Settlements[job] : Start(window) <= t /\ t < cursor}
      /\ fetched \in Seq(SUBSET Nat) /\ Len(fetched) = job - 1
      /\ \A i \in 1 .. job - 1 :
            fetched[i] = {t \in Settlements[i] : Start(window) <= t /\ t < End(window)}
  BY DEF DataInv, NextSymbol, FundingSoFar
<1>2. /\ fetched' = Append(fetched, got) /\ job' = job + 1 /\ cursor' = Start(window)
      /\ got' = {}
      /\ UNCHANGED <<window, stage, rates, coverage, series, origin>>
  BY DEF NextSymbol, kept
<1>3. Start(window) \in Nat /\ End(window) \in Nat /\ Start(window) < End(window)
  BY <1>1, WindowBounds
<1>4. cursor = End(window)
  BY <1>1, <1>3
<1>5. job + 1 \in Pairs /\ job \in Nat
  BY <1>1, DataAssumption DEF Pairs
<1>6. Settlements[job] \subseteq Nat /\ Settlements[job + 1] \subseteq Nat
  BY <1>1, <1>5, DataAssumption DEF Pairs
<1>7. got \in SUBSET Nat
  BY <1>1, <1>6
<1>8. fetched' \in Seq(SUBSET Nat) /\ Len(fetched') = (job + 1) - 1
  BY <1>1, <1>2, <1>5, <1>7
<1>9. \A i \in 1 .. (job + 1) - 1 :
         fetched'[i] = {t \in Settlements[i] : Start(window) <= t /\ t < End(window)}
  BY <1>1, <1>2, <1>4, <1>5
<1>10. {t \in Settlements[job + 1] : Start(window) <= t /\ t < Start(window)} = {}
  <2>1. \A t \in Settlements[job + 1] : ~(Start(window) <= t /\ t < Start(window))
    BY <1>3, <1>6
  <2> QED
    BY <2>1
<1>11. Start(window) \in Start(window) .. End(window)
  BY <1>3
<1>12. FundingSoFar'
  BY <1>1, <1>2, <1>5, <1>8, <1>9, <1>10, <1>11 DEF FundingSoFar
<1>13. RatesWhole' /\ SeriesWhole'
  BY <1>2 DEF DataInv, RatesWhole, SeriesWhole
<1> QED
  BY <1>1, <1>2, <1>5, <1>12, <1>13 DEF DataInv, CandlesSoFar

\* When all symbols are done the provider keeps what it fetched, all of it.
LEMMA FundingFetchedKeeps ==
    ASSUME DataInv, FundingFetched
    PROVE  DataInv' /\ \A s \in Pairs : rates'[s] \subseteq Settlements[s]
<1>1. /\ stage = "Funding" /\ window \in Windows /\ job = NumPairs
      /\ cursor \in Start(window) .. End(window) /\ cursor >= End(window)
      /\ got = {t \in Settlements[job] : Start(window) <= t /\ t < cursor}
      /\ fetched \in Seq(SUBSET Nat) /\ Len(fetched) = job - 1
      /\ \A i \in 1 .. job - 1 :
            fetched[i] = {t \in Settlements[i] : Start(window) <= t /\ t < End(window)}
  BY DEF DataInv, FundingFetched, FundingSoFar
<1>2. /\ rates' = Append(fetched, got)
      /\ coverage' = [s \in Pairs |-> [from |-> Start(window), to |-> End(window)]]
      /\ stage' = "Context" /\ job' = 1
      /\ UNCHANGED <<window, series, origin>>
  BY DEF FundingFetched, GoTo
<1>3. Start(window) \in Nat /\ End(window) \in Nat /\ cursor = End(window)
  BY <1>1, WindowBounds
<1>4. NumPairs \in Nat \ {0} /\ Settlements[job] \subseteq Nat
  BY <1>1, DataAssumption
<1>5. got \in SUBSET Nat
  BY <1>1, <1>4
<1>6. \A s \in Pairs :
         rates'[s] = {t \in Settlements[s] : Start(window) <= t /\ t < End(window)}
  BY <1>1, <1>2, <1>3, <1>4, <1>5 DEF Pairs
<1>7. RatesWhole'
  BY <1>2, <1>3, <1>6 DEF RatesWhole
<1>8. SeriesWhole'
  BY <1>2 DEF DataInv, SeriesWhole
<1>9. \A s \in Pairs : rates'[s] \subseteq Settlements[s]
  BY <1>6
<1>10. DataInv'
  BY <1>1, <1>2, <1>7, <1>8 DEF DataInv, FundingSoFar, CandlesSoFar
<1> QED
  BY <1>9, <1>10

-----------------------------------------------------------------------------
(* Candles                                                                 *)

\* The candles begin with the first series, at the end of the window.
LEMMA ContextFetchedKeeps ==
    ASSUME DataInv, ContextFetched
    PROVE  DataInv'
<1>1. /\ stage' = "Candles" /\ job' = 1 /\ cursor' = End(window) /\ got' = {}
      /\ stage = "Context" /\ window \in Windows
      /\ UNCHANGED <<window, rates, coverage, series, origin>>
  BY DEF DataInv, ContextFetched, GoTo, kept
<1>2. End(window) \in Nat
  BY <1>1, WindowBounds
<1>3. NumKeys \in Nat \ {0}
  <2>1. NumPairs \in Nat \ {0} /\ Len(Bars) \in Nat \ {0}
    BY DataAssumption
  <2>2. NumPairs * Len(Bars) \in Nat /\ NumPairs * Len(Bars) > 0
    BY <2>1
  <2> QED
    BY <2>2 DEF NumKeys
<1>4. 1 \in 1 .. NumKeys /\ 1 \in 1 .. NumKeys + 1
  BY <1>3
<1>5. CandleTimes[KeyAt(1)[1]][KeyAt(1)[2]] \subseteq Nat
  BY <1>4, JobIsKey, DataAssumption DEF Pairs
<1>6. {t \in CandleTimes[KeyAt(1)[1]][KeyAt(1)[2]] :
          End(window) < t /\ t <= End(window)} = {}
  <2>1. \A t \in CandleTimes[KeyAt(1)[1]][KeyAt(1)[2]] :
           ~(End(window) < t /\ t <= End(window))
    BY <1>2, <1>5
  <2> QED
    BY <2>1
<1>7. CandlesSoFar'
  BY <1>1, <1>2, <1>4, <1>6 DEF CandlesSoFar, key
<1>8. RatesWhole' /\ SeriesWhole'
  BY <1>1 DEF DataInv, RatesWhole, SeriesWhole
<1> QED
  BY <1>1, <1>7, <1>8 DEF DataInv, FundingSoFar

\* Between two series no page has come.
LEMMA NextSeries ==
    ASSUME DataInv, stage = "Candles", job <= NumKeys,
           window' = window, stage' = stage, job' = job + 1,
           cursor' = End(window), got' = {}
    PROVE  CandlesSoFar'
<1>1. window \in Windows /\ job \in Nat /\ job \in 1 .. NumKeys + 1
  BY DEF DataInv, CandlesSoFar
<1>2. End(window) \in Nat
  BY <1>1, WindowBounds
<1>3. NumKeys \in Nat
  BY DataAssumption DEF NumKeys
<1>4. job + 1 \in 1 .. NumKeys + 1
  BY <1>1, <1>3
<1>5. ASSUME job + 1 <= NumKeys
      PROVE  {t \in CandleTimes[KeyAt(job + 1)[1]][KeyAt(job + 1)[2]] :
                 End(window) < t /\ t <= End(window)} = {}
  <2>1. job + 1 \in 1 .. NumKeys
    BY <1>3, <1>4, <1>5
  <2>2. CandleTimes[KeyAt(job + 1)[1]][KeyAt(job + 1)[2]] \subseteq Nat
    BY <2>1, JobIsKey, DataAssumption DEF Pairs
  <2>3. \A t \in CandleTimes[KeyAt(job + 1)[1]][KeyAt(job + 1)[2]] :
           ~(End(window) < t /\ t <= End(window))
    BY <1>2, <2>2
  <2> QED
    BY <2>3
<1> QED
  BY <1>2, <1>4, <1>5 DEF CandlesSoFar, key

\* Storing a series without holes.
LEMMA StoreKeeps ==
    ASSUME DataInv, stage = "Candles", job <= NumKeys,
           NEW k \in Keys, k = key, NEW s, NEW full \in BOOLEAN,
           s \subseteq CandleTimes[k[1]][k[2]],
           \A t \in CandleTimes[k[1]][k[2]], u \in s :
               t <= End(window) /\ t \notin s => t < u,
           full => \A t \in CandleTimes[k[1]][k[2]] :
                       t <= End(window) /\ t \notin s =>
                           t + WarmUp * Bars[k[2]] < Start(window),
           StoreSeries(s, full)
    PROVE  DataInv'
<1>1. /\ series' = [series EXCEPT ![k] = s]
      /\ origin' = [origin EXCEPT ![k] = [window |-> window, full |-> full]]
      /\ job' = job + 1 /\ cursor' = End(window) /\ got' = {}
      /\ UNCHANGED <<window, stage, rates, coverage>>
  BY DEF StoreSeries
<1>2. /\ window \in Windows /\ job \in Nat
      /\ series = [j \in Keys |-> series[j]] /\ origin = [j \in Keys |-> origin[j]]
      /\ \A j \in Keys : series[j] # None => origin[j].window \in Windows
      /\ SeriesWhole
  BY DEF DataInv
<1>3. /\ series'[k] = s /\ origin'[k] = [window |-> window, full |-> full]
      /\ \A j \in Keys : j # k => series'[j] = series[j] /\ origin'[j] = origin[j]
  BY <1>1, <1>2
<1>4. /\ series' = [j \in Keys |-> series'[j]] /\ origin' = [j \in Keys |-> origin'[j]]
      /\ \A j \in Keys : series'[j] # None => origin'[j].window \in Windows
  <2>1. series' = [j \in Keys |-> series'[j]]
    BY <1>1, <1>2
  <2>2. origin' = [j \in Keys |-> origin'[j]]
    BY <1>1, <1>2
  <2>3. \A j \in Keys : series'[j] # None => origin'[j].window \in Windows
    BY <1>2, <1>3
  <2> QED
    BY <2>1, <2>2, <2>3
<1>5. SeriesWhole'
  <2> SUFFICES ASSUME NEW j \in Keys, series'[j] # None
               PROVE  LET w == origin'[j].window
                          missing == {t \in CandleTimes[j[1]][j[2]] : t <= End(w)}
                                         \ series'[j]
                      IN  /\ series'[j] \subseteq CandleTimes[j[1]][j[2]]
                          /\ \A t \in missing, u \in series'[j] : t < u
                          /\ origin'[j].full =>
                             \A t \in missing : t + WarmUp * Bars[j[2]] < Start(w)
    BY DEF SeriesWhole
  <2>1. CASE j = k
    BY <1>3, <2>1
  <2>2. CASE j # k
    BY <1>2, <1>3, <2>2 DEF SeriesWhole
  <2> QED
    BY <2>1, <2>2
<1>6. CandlesSoFar'
  BY <1>1, NextSeries
<1>7. RatesWhole'
  BY <1>1 DEF DataInv, RatesWhole
<1> QED
  BY <1>1, <1>2, <1>4, <1>5, <1>6, <1>7 DEF DataInv, FundingSoFar

\* After a page the candles that have come are those after the cursor; the page
\* that ends a series leaves no hole, and nothing that the warm-up asks for.
LEMMA CandlePageKeeps ==
    ASSUME DataInv, CandlePage
    PROVE  DataInv'
<1>1. /\ stage = "Candles" /\ job <= NumKeys /\ series[key] = None
      /\ window \in Windows /\ job \in 1 .. NumKeys + 1 /\ cursor \in 0 .. End(window)
      /\ got = {t \in CandleTimes[key[1]][key[2]] : cursor < t /\ t <= End(window)}
  BY DEF DataInv, CandlePage, CandlesSoFar
<1>2. Start(window) \in Nat /\ End(window) \in Nat /\ cursor \in Nat /\ cursor <= End(window)
  BY <1>1, WindowBounds
<1>3. job \in 1 .. NumKeys
  BY <1>1, DataAssumption DEF NumKeys
<1>4. key \in Keys /\ CandleTimes[key[1]][key[2]] \subseteq Nat
  BY <1>3, JobIsKey, DataAssumption DEF key, Pairs
<1>5. PICK k \in Keys : k = key
  BY <1>4
<1>6. PICK C \in SUBSET Nat : C = CandleTimes[k[1]][k[2]]
  BY <1>4, <1>5
<1> DEFINE S == {t \in C : t <= cursor}
<1>7. PICK page : page = CandlesUntil(k, cursor)
  OBVIOUS
<1>8. \A t \in S : t \in 0 .. cursor
  BY <1>2
<1>9. page = LastOf(S, CandleLimit)
  BY <1>6, <1>7 DEF CandlesUntil
<1>10. S \subseteq C /\ \A t \in C : t \in S <=> t <= cursor
  OBVIOUS
<1> HIDE DEF S
<1>11. /\ page \subseteq S
       /\ \A t \in S \ page, u \in page : t < u
       /\ Cardinality(page) < CandleLimit => page = S
       /\ page = {} => page = S
  <2>1. CandleLimit \in Nat \ {0} /\ S \in SUBSET (0 .. cursor)
    BY <1>8, DataAssumption
  <2>2. page = {} => Cardinality(page) < CandleLimit
    BY <2>1, FS_EmptySet
  <2> QED
    BY <2>1, <2>2, <1>2, <1>9, LastPage
<1>12. \A t \in page : t \in Nat /\ t \in C /\ t <= cursor
  BY <1>10, <1>11
<1>13. PICK earliest : earliest = Min(page \cup {cursor})
  OBVIOUS
<1>14. earliest \in page \cup {cursor} /\ \A t \in page \cup {cursor} : earliest <= t
  <2>1. page \cup {cursor} \in SUBSET Nat /\ page \cup {cursor} # {}
    BY <1>2, <1>12
  <2> QED
    BY <2>1, <1>13, EarliestTime
<1>15. earliest \in Nat /\ earliest <= cursor
  BY <1>2, <1>12, <1>14
<1>16. page # {} => earliest \in page
  <2>1. SUFFICES ASSUME page # {}, earliest = cursor
                 PROVE  earliest \in page
    BY <1>14
  <2>2. PICK t \in page : TRUE
    BY <2>1
  <2>3. t \in Nat /\ t <= cursor /\ cursor <= t
    BY <1>12, <1>14, <2>1
  <2> QED
    BY <1>2, <2>1, <2>3
<1>17. \A t \in C : t \in got <=> cursor < t /\ t <= End(window)
  BY <1>1, <1>5, <1>6
<1>18. got \subseteq C
  BY <1>1, <1>5, <1>6
<1>19. ASSUME NEW t \in C, t <= End(window), t \notin got \cup page
       PROVE  /\ t \in Nat /\ t \in S \ page
              /\ \A u \in got \cup page : t < u
  <2>1. t \in Nat /\ ~(cursor < t)
    BY <1>17, <1>19
  <2>2. t <= cursor
    BY <1>2, <2>1
  <2>3. t \in S \ page
    BY <1>10, <1>19, <2>2
  <2>4. \A u \in page : t < u
    BY <1>11, <2>3
  <2>5. \A u \in got : t < u
    <3> SUFFICES ASSUME NEW u \in got
                 PROVE  t < u
      OBVIOUS
    <3>1. u \in Nat /\ cursor < u
      BY <1>17, <1>18
    <3> QED
      BY <1>2, <2>1, <2>2, <3>1
  <2> QED
    BY <2>1, <2>3, <2>4, <2>5
<1>20. CASE \/ earliest <= Target(key, window)
            \/ Cardinality(page) < CandleLimit
            \/ page \subseteq got
  <2>1. StoreSeries(got \cup page, TRUE)
    BY <1>5, <1>7, <1>13, <1>20 DEF CandlePage
  <2>2. got \cup page \subseteq CandleTimes[k[1]][k[2]]
    BY <1>6, <1>10, <1>11, <1>18
  <2>3. \A t \in CandleTimes[k[1]][k[2]], u \in got \cup page :
           t <= End(window) /\ t \notin got \cup page => t < u
    BY <1>6, <1>19
  <2>4. \A t \in CandleTimes[k[1]][k[2]] :
           t <= End(window) /\ t \notin got \cup page =>
               t + WarmUp * Bars[k[2]] < Start(window)
    <3> SUFFICES ASSUME NEW t \in C, t <= End(window), t \notin got \cup page
                 PROVE  t + WarmUp * Bars[k[2]] < Start(window)
      BY <1>6
    <3>1. t \in Nat /\ t \in S /\ t \notin page
      BY <1>19
    <3>2. page # {} /\ ~(Cardinality(page) < CandleLimit)
      BY <1>11, <3>1
    <3>3. ~(page \subseteq got)
      <4>1. PICK u \in page : TRUE
        BY <3>2
      <4>2. u \in Nat /\ u \in C /\ ~(cursor < u)
        BY <1>2, <1>12
      <4> QED
        BY <1>17, <4>2
    <3>4. earliest <= Target(k, window)
      BY <1>5, <1>20, <3>2, <3>3
    <3>5. t < earliest
      BY <1>11, <1>16, <3>1, <3>2
    <3>6. Target(k, window) \in Nat /\ t < Target(k, window)
      BY <1>1, <1>15, <3>1, <3>4, <3>5, TargetIsTime
    <3> QED
      BY <1>1, <3>1, <3>6, TargetIsTime
  <2> QED
    BY <1>1, <1>5, <2>1, <2>2, <2>3, <2>4, StoreKeeps
<1>21. CASE ~(\/ earliest <= Target(key, window)
              \/ Cardinality(page) < CandleLimit
              \/ page \subseteq got)
  <2>1. /\ got' = got \cup page /\ cursor' = earliest - 1
        /\ UNCHANGED <<window, stage, job, rates, coverage, series, origin>>
    BY <1>5, <1>7, <1>13, <1>21 DEF CandlePage, kept
  <2>2. page # {} /\ earliest \in page
    BY <1>16, <1>21
  <2>3. Target(key, window) \in Nat
    BY <1>1, <1>4, TargetIsTime
  <2>4. earliest - 1 \in 0 .. End(window)
    BY <1>2, <1>15, <1>21, <2>3
  <2>5. got \cup page = {t \in C : earliest - 1 < t /\ t <= End(window)}
    <3>1. ASSUME NEW t \in got \cup page
          PROVE  t \in C /\ earliest - 1 < t /\ t <= End(window)
      <4>1. CASE t \in got
        <5>1. t \in Nat /\ t \in C /\ cursor < t /\ t <= End(window)
          BY <1>17, <1>18, <4>1
        <5> QED
          BY <1>2, <1>15, <5>1
      <4>2. CASE t \in page
        <5>1. t \in Nat /\ t \in C /\ t <= cursor /\ earliest <= t
          BY <1>12, <1>14, <4>2
        <5> QED
          BY <1>2, <1>15, <5>1
      <4> QED
        BY <3>1, <4>1, <4>2
    <3>2. ASSUME NEW t \in C, earliest - 1 < t, t <= End(window)
          PROVE  t \in got \cup page
      <4>1. SUFFICES ASSUME t \notin got \cup page
                     PROVE  FALSE
        OBVIOUS
      <4>2. t \in Nat /\ t < earliest
        BY <1>19, <2>2, <3>2, <4>1
      <4> QED
        BY <1>15, <3>2, <4>2
    <3>3. got \cup page \subseteq C
      BY <3>1
    <3> QED
      BY <3>1, <3>2, <3>3
  <2>6. key' = key
    BY <2>1 DEF key
  <2>7. CandlesSoFar'
    BY <1>1, <1>5, <1>6, <2>1, <2>4, <2>5, <2>6 DEF CandlesSoFar
  <2>8. RatesWhole' /\ SeriesWhole'
    BY <2>1 DEF DataInv, RatesWhole, SeriesWhole
  <2> QED
    BY <1>1, <2>1, <2>7, <2>8 DEF DataInv, FundingSoFar
<1> QED
  BY <1>20, <1>21

\* A failed page leaves those before it, which begin where the cursor stood.
LEMMA CandlePageFailsKeeps ==
    ASSUME DataInv, CandlePageFails
    PROVE  DataInv'
<1>1. /\ stage = "Candles" /\ job <= NumKeys /\ series[key] = None
      /\ window \in Windows /\ job \in 1 .. NumKeys + 1 /\ cursor \in 0 .. End(window)
      /\ got = {t \in CandleTimes[key[1]][key[2]] : cursor < t /\ t <= End(window)}
      /\ StoreSeries(got, FALSE)
  BY DEF DataInv, CandlePageFails, CandlesSoFar
<1>2. End(window) \in Nat /\ cursor \in Nat
  BY <1>1, WindowBounds
<1>3. job \in 1 .. NumKeys
  BY <1>1, DataAssumption DEF NumKeys
<1>4. key \in Keys /\ CandleTimes[key[1]][key[2]] \subseteq Nat
  BY <1>3, JobIsKey, DataAssumption DEF key, Pairs
<1>5. PICK k \in Keys : k = key
  BY <1>4
<1>6. PICK C \in SUBSET Nat : C = CandleTimes[k[1]][k[2]]
  BY <1>4, <1>5
<1>7. got = {t \in C : cursor < t /\ t <= End(window)}
  BY <1>1, <1>5, <1>6
<1>8. \A t \in C, u \in got : t <= End(window) /\ t \notin got => t < u
  <2> SUFFICES ASSUME NEW t \in C, NEW u \in got, t <= End(window), t \notin got
               PROVE  t < u
    OBVIOUS
  <2>1. t \in Nat /\ u \in Nat /\ cursor < u /\ ~(cursor < t)
    BY <1>7
  <2> QED
    BY <1>2, <2>1
<1>9. got \subseteq C
  BY <1>7
<1> QED
  BY <1>1, <1>5, <1>6, <1>8, <1>9, StoreKeeps

\* A series kept from an earlier run is not asked for again.
LEMMA KeepCandlesKeeps ==
    ASSUME DataInv, KeepCandles
    PROVE  DataInv'
<1>1. /\ stage = "Candles" /\ job <= NumKeys /\ series[key] # None
      /\ got = {} /\ cursor = End(window) /\ job \in Nat
  BY DEF DataInv, KeepCandles, CandlesSoFar
<1>2. /\ job' = job + 1
      /\ UNCHANGED <<window, stage, cursor, got, rates, coverage, series, origin>>
  BY DEF KeepCandles, kept
<1>3. CandlesSoFar'
  BY <1>1, <1>2, NextSeries
<1>4. RatesWhole' /\ SeriesWhole'
  BY <1>2 DEF DataInv, RatesWhole, SeriesWhole
<1> QED
  BY <1>1, <1>2, <1>3, <1>4 DEF DataInv, FundingSoFar

-----------------------------------------------------------------------------
(* The theorems                                                            *)

LEMMA DataInit ==
    ASSUME Init
    PROVE  DataInv
<1>1. /\ stage = "Idle" /\ job = 1
      /\ rates = [s \in Pairs |-> None] /\ coverage = [s \in Pairs |-> None]
      /\ series = [k \in Keys |-> None] /\ origin = [k \in Keys |-> None]
  BY DEF Init, NoData
<1>2. \A k \in Keys : series[k] = None
  BY <1>1
<1>3. \A s \in Pairs : coverage[s] = None
  BY <1>1
<1>4. series = [k \in Keys |-> series[k]] /\ origin = [k \in Keys |-> origin[k]]
  BY <1>1
<1> QED
  BY <1>1, <1>2, <1>3, <1>4
     DEF DataInv, FundingSoFar, CandlesSoFar, RatesWhole, SeriesWhole

\* What is being fetched does not move while a symbol is played.
LEMMA DataStep ==
    ASSUME DataInv, [Next]_btVars
    PROVE  DataInv'
<1>1. CASE StartRun
  BY <1>1, RunKeeps DEF StartRun
<1>2. CASE FundingPage
  BY <1>2, FundingPageKeeps
<1>3. CASE NextSymbol
  BY <1>3, NextSymbolKeeps
<1>4. CASE FundingFetched
  BY <1>4, FundingFetchedKeeps
<1>5. CASE FundingFails
  BY <1>5, AsideKeeps DEF FundingFails, GoTo, kept, DataInv
<1>6. CASE FetchContext
  BY <1>6, AsideKeeps DEF FetchContext, DataInv
<1>7. CASE KeepContext
  BY <1>7, AsideKeeps DEF KeepContext, kept, DataInv
<1>8. CASE ContextFetched
  BY <1>8, ContextFetchedKeeps
<1>9. CASE CandlePage
  BY <1>9, CandlePageKeeps
<1>10. CASE CandlePageFails
  BY <1>10, CandlePageFailsKeeps
<1>11. CASE KeepCandles
  BY <1>11, KeepCandlesKeeps
<1>12. CASE CandlesFetched
  BY <1>12, AsideKeeps DEF CandlesFetched, GoTo, kept, DataInv
<1>13. CASE UNCHANGED dataVars
  <2>1. UNCHANGED <<window, stage, job, cursor, got, fetched, rates, coverage, series, origin>>
    BY <1>13 DEF dataVars, fetching, kept
  <2> QED
    BY <2>1 DEF DataInv, FundingSoFar, CandlesSoFar, RatesWhole, SeriesWhole, key
<1>14. CASE NextSimulation
  BY <1>14, AsideKeeps DEF NextSimulation, Simulating, kept, DataInv
<1>15. CASE Report
  BY <1>15, AsideKeeps DEF Report, kept, DataInv
<1>16. CASE Abort
  BY <1>16, AsideKeeps DEF Abort, kept, fetching, DataInv
<1>17. Play \/ UNCHANGED btVars => UNCHANGED dataVars
  BY DEF Play, btVars
<1> QED
  BY <1>1, <1>2, <1>3, <1>4, <1>5, <1>6, <1>7, <1>8, <1>9, <1>10, <1>11, <1>12, <1>13,
     <1>14, <1>15, <1>16, <1>17 DEF Next, Fetching

\* The records that have come, and those that are kept, are what the exchange has
\* of their ranges, in every state of a backtest.
THEOREM DataInvariant == Spec => []DataInv
<1>1. Init => DataInv
  BY DataInit
<1>2. DataInv /\ [Next]_btVars => DataInv'
  BY DataStep
<1> QED
  BY <1>1, <1>2, PTL DEF Spec

\* Complete records within a range answer every interval inside it.
LEMMA WholeRatesAnswer ==
    ASSUME RatesWhole
    PROVE  SettlementsComplete
<1> SUFFICES ASSUME NEW s \in Pairs, NEW entry \in 0 .. 3 * DayLength,
                    NEW exit \in entry .. 4 * DayLength,
                    get_funding_events(s, entry, exit) # Refused
             PROVE  get_funding_events(s, entry, exit)
                        = {t \in Settlements[s] : entry < t /\ t <= exit}
  BY DEF SettlementsComplete
<1>1. entry \in Nat /\ exit \in Nat /\ Settlements[s] \subseteq Nat
  BY DataAssumption DEF Pairs
<1>2. CASE exit = entry
  <2>1. \A t \in Settlements[s] : ~(entry < t /\ t <= exit)
    BY <1>1, <1>2
  <2>2. get_funding_events(s, entry, exit) = {}
    BY <1>2 DEF get_funding_events
  <2> QED
    BY <2>1, <2>2
<1>3. CASE exit # entry
  <2>1. /\ coverage[s] # None /\ ~(entry + 1 < coverage[s].from) /\ ~(exit >= coverage[s].to)
        /\ get_funding_events(s, entry, exit) = {t \in rates[s] : entry < t /\ t <= exit}
    BY <1>3 DEF get_funding_events
  <2>2. /\ coverage[s].from \in Nat /\ coverage[s].to \in Nat
        /\ rates[s] = {t \in Settlements[s] : coverage[s].from <= t /\ t < coverage[s].to}
    BY <2>1 DEF RatesWhole
  <2>3. \A t \in Settlements[s] : entry < t /\ t <= exit =>
            coverage[s].from <= t /\ t < coverage[s].to
    BY <1>1, <2>1, <2>2
  <2> QED
    BY <2>1, <2>2, <2>3
<1> QED
  BY <1>2, <1>3

\* Whatever failed in whichever run, settlements are complete or refused, and no
\* series has a hole: FetchedWhole, for all data, page sizes and windows.
THEOREM DataIsWhole == Spec => []FetchedWhole
<1>1. DataInv => FetchedWhole
  BY WholeRatesAnswer DEF DataInv, FetchedWhole
<1> QED
  BY <1>1, DataInvariant, PTL

-----------------------------------------------------------------------------
(* What a symbol is played with                                            *)

\* Quotient and remainder are the only ones there are.
LEMMA DivisionIsUnique ==
    ASSUME NEW n \in Nat \ {0}, NEW q \in Nat, NEW r \in 0 .. n - 1
    PROVE  (n * q + r) \div n = q /\ (n * q + r) % n = r
<1>1. n * q \in Nat
  OBVIOUS
<1>2. PICK m \in Nat : m = n * q + r
  BY <1>1
<1>3. PICK x \in Int : x = m \div n
  BY <1>2
<1>4. PICK y \in 0 .. n - 1 : y = m % n
  BY <1>2
<1>5. m = n * x + y
  BY <1>2, <1>3, <1>4
<1>6. ~(x < q)
  <2>1. SUFFICES ASSUME x <= q - 1
                 PROVE  FALSE
    OBVIOUS
  <2>2. n * x <= n * (q - 1)
    BY <2>1
  <2>3. n * (q - 1) = n * q - n
    OBVIOUS
  <2> QED
    BY <1>1, <1>2, <1>5, <2>2, <2>3
<1>7. ~(q < x)
  <2>1. SUFFICES ASSUME q <= x - 1
                 PROVE  FALSE
    OBVIOUS
  <2>2. n * q <= n * (x - 1)
    BY <2>1
  <2>3. n * (x - 1) = n * x - n
    OBVIOUS
  <2> QED
    BY <1>1, <1>2, <1>5, <2>2, <2>3
<1>8. x = q
  BY <1>6, <1>7
<1> QED
  BY <1>1, <1>2, <1>3, <1>4, <1>5, <1>8

\* Every series has its job.
LEMMA KeyHasJob ==
    ASSUME NEW k \in Keys
    PROVE  \E j \in 1 .. NumKeys : KeyAt(j) = k
<1>1. Len(Bars) \in Nat \ {0} /\ NumPairs \in Nat \ {0}
  BY DataAssumption
<1>2. PICK s \in 1 .. NumPairs, b \in 1 .. Len(Bars) : k = <<s, b>>
  BY DEF Keys, Pairs
<1>3. PICK j : j = Len(Bars) * (s - 1) + (b - 1) + 1
  OBVIOUS
<1>4. Len(Bars) * (s - 1) \in Nat /\ j \in Nat \ {0} /\ j - 1 = Len(Bars) * (s - 1) + (b - 1)
  BY <1>1, <1>3
<1>5. (j - 1) \div Len(Bars) = s - 1 /\ (j - 1) % Len(Bars) = b - 1
  <2>1. s - 1 \in Nat /\ b - 1 \in 0 .. Len(Bars) - 1
    BY <1>1
  <2>2. PICK q \in Nat, r \in 0 .. Len(Bars) - 1 : q = s - 1 /\ r = b - 1
    BY <2>1
  <2>3. (Len(Bars) * q + r) \div Len(Bars) = q /\ (Len(Bars) * q + r) % Len(Bars) = r
    BY <1>1, DivisionIsUnique
  <2> QED
    BY <1>4, <2>2, <2>3
<1>6. j <= NumKeys
  <2>1. Len(Bars) * (s - 1) <= Len(Bars) * (NumPairs - 1)
    BY <1>1
  <2>2. Len(Bars) * (NumPairs - 1) = NumPairs * Len(Bars) - Len(Bars)
    BY <1>1
  <2>3. NumPairs * Len(Bars) \in Nat
    BY <1>1
  <2> QED
    BY <1>1, <1>3, <1>4, <2>1, <2>2, <2>3 DEF NumKeys
<1>7. KeyAt(j) = k
  BY <1>2, <1>5 DEF KeyAt
<1>8. NumKeys \in Nat
  BY <1>1 DEF NumKeys
<1> QED
  BY <1>4, <1>6, <1>7, <1>8

LEMMA GivenInit ==
    ASSUME Init
    PROVE  GivenInv
<1>1. /\ stage = "Idle" /\ rates = [s \in Pairs |-> None]
      /\ contexts = [s \in Pairs |-> None]
  BY DEF Init, NoData
<1>2. contexts = [s \in Pairs |-> contexts[s]] /\ \A s \in Pairs : contexts[s] = None
  BY <1>1
<1>3. \A s \in Pairs : rates[s] = None
  BY <1>1
<1> QED
  BY <1>1, <1>2, <1>3 DEF GivenInv

\* A series that is stored is not None.
LEMMA StoreGiven ==
    ASSUME DataInv, GivenInv, stage = "Candles", job <= NumKeys,
           NEW s, s \subseteq CandleTimes[key[1]][key[2]], NEW full, StoreSeries(s, full)
    PROVE  GivenInv'
<1>1. job \in 1 .. NumKeys
  BY DataAssumption DEF DataInv, CandlesSoFar, NumKeys
<1>2. key \in Keys /\ key[1] \in Pairs /\ key[2] \in 1 .. Len(Bars)
  BY <1>1, JobIsKey DEF key
<1>3. s # None
  BY <1>2, BacktestAssumption
<1>4. /\ series' = [series EXCEPT ![key] = s] /\ job' = job + 1
      /\ UNCHANGED <<stage, rates, contexts>>
  BY DEF StoreSeries
<1>5. series'[key] = s /\ \A k \in Keys : k # key => series'[k] = series[k]
  BY <1>2, <1>4 DEF DataInv
<1>6. ASSUME NEW j \in 1 .. job
      PROVE  series'[KeyAt(j)] # None
  <2>1. j \in 1 .. NumKeys
    BY <1>1, DataAssumption DEF NumKeys
  <2>2. KeyAt(j) \in Keys
    BY <2>1, JobIsKey
  <2>3. CASE KeyAt(j) = key
    BY <1>3, <1>5, <2>3
  <2>4. CASE KeyAt(j) # key
    <3>1. j # job
      BY <2>4 DEF key
    <3>2. j \in 1 .. job - 1
      BY <1>1, <3>1
    <3> QED
      BY <1>5, <2>2, <2>4, <3>2 DEF GivenInv
  <2> QED
    BY <2>3, <2>4
<1>7. job' - 1 = job
  BY <1>1, <1>4
<1> QED
  BY <1>4, <1>6, <1>7 DEF GivenInv

LEMMA GivenStep ==
    ASSUME DataInv, GivenInv, [Next]_btVars
    PROVE  GivenInv'
<1>1. CASE StartRun
  BY <1>1 DEF StartRun, Run, kept, GivenInv
<1>2. CASE FundingPage
  BY <1>2 DEF FundingPage, kept, GivenInv
<1>3. CASE NextSymbol
  BY <1>3 DEF NextSymbol, kept, GivenInv
<1>4. CASE FundingFetched
  <2>1. \A s \in Pairs : rates'[s] \subseteq Settlements[s]
    BY <1>4, FundingFetchedKeeps
  <2> QED
    BY <1>4, <2>1 DEF FundingFetched, GoTo, GivenInv
<1>5. CASE FundingFails
  BY <1>5 DEF FundingFails, GoTo, kept, GivenInv
<1>6. CASE FetchContext
  <2>1. PICK failed \in SUBSET Fields :
            contexts' = [contexts EXCEPT ![job] =
                [f \in Fields |-> IF f \in failed THEN {} ELSE SamplesOf(job, f)]]
    BY <1>6 DEF FetchContext
  <2>2. job \in Pairs /\ UNCHANGED <<stage, rates, series>>
    BY <1>6 DEF FetchContext, DataInv, Pairs
  <2>3. ASSUME NEW f \in Fields
        PROVE  SamplesOf(job, f) \subseteq Nat
    <3>1. Samples[job][f] \subseteq Nat
      BY <2>2, BacktestAssumption
    <3> QED
      BY <3>1 DEF SamplesOf, FirstOf
  <2>4. [f \in Fields |-> IF f \in failed THEN {} ELSE SamplesOf(job, f)]
            \in [Fields -> SUBSET Nat]
    BY <2>3
  <2>5. contexts' = [s \in Pairs |-> contexts'[s]]
    BY <2>1 DEF GivenInv
  <2>6. \A s \in Pairs : contexts'[s] # None => contexts'[s] \in [Fields -> SUBSET Nat]
    BY <2>1, <2>2, <2>4 DEF GivenInv
  <2> QED
    BY <1>6, <2>2, <2>5, <2>6 DEF FetchContext, GivenInv
<1>7. CASE KeepContext
  BY <1>7 DEF KeepContext, kept, GivenInv
<1>8. CASE ContextFetched
  BY <1>8 DEF ContextFetched, GoTo, kept, GivenInv
<1>9. CASE CandlePage
  <2>1. stage = "Candles" /\ job <= NumKeys
    BY <1>9 DEF CandlePage
  <2>2. CASE UNCHANGED <<stage, job, kept>>
    BY <2>2 DEF kept, GivenInv
  <2>3. CASE StoreSeries(got \cup CandlesUntil(key, cursor), TRUE)
    <3>1. got \subseteq CandleTimes[key[1]][key[2]]
      BY <2>1 DEF DataInv, CandlesSoFar
    <3>2. CandlesUntil(key, cursor) \subseteq CandleTimes[key[1]][key[2]]
      BY DEF CandlesUntil, LastOf
    <3> QED
      BY <2>1, <2>3, <3>1, <3>2, StoreGiven
  <2> QED
    BY <1>9, <2>2, <2>3 DEF CandlePage
<1>10. CASE CandlePageFails
  <2>1. stage = "Candles" /\ job <= NumKeys /\ StoreSeries(got, FALSE)
    BY <1>10 DEF CandlePageFails
  <2>2. got \subseteq CandleTimes[key[1]][key[2]]
    BY <2>1 DEF DataInv, CandlesSoFar
  <2> QED
    BY <2>1, <2>2, StoreGiven
<1>11. CASE KeepCandles
  <2>1. \A j \in 1 .. job' - 1 : series[KeyAt(j)] # None
    <3>1. job \in Nat /\ job' = job + 1 /\ stage = "Candles" /\ series[KeyAt(job)] # None
      BY <1>11 DEF KeepCandles, DataInv, key
    <3>2. \A j \in 1 .. job' - 1 : j = job \/ j \in 1 .. job - 1
      BY <3>1
    <3> QED
      BY <3>1, <3>2 DEF GivenInv
  <2> QED
    BY <1>11, <2>1 DEF KeepCandles, kept, GivenInv
<1>12. CASE CandlesFetched
  <2>1. ASSUME NEW k \in Keys
        PROVE  series[k] # None
    <3>1. PICK j \in 1 .. NumKeys : KeyAt(j) = k
      BY KeyHasJob
    <3>2. stage = "Candles" /\ job \in Nat /\ job > NumKeys /\ NumKeys \in Nat
      BY <1>12, DataAssumption DEF CandlesFetched, DataInv, NumKeys
    <3>3. j \in 1 .. job - 1
      BY <3>2
    <3> QED
      BY <3>1, <3>2, <3>3 DEF GivenInv
  <2> QED
    BY <1>12, <2>1 DEF CandlesFetched, GoTo, kept, GivenInv
<1>13. CASE Play \/ UNCHANGED btVars
  BY <1>13 DEF Play, btVars, dataVars, fetching, kept, GivenInv
<1>14. CASE NextSimulation
  BY <1>14 DEF NextSimulation, Simulating, kept, GivenInv
<1>15. CASE Report \/ Abort
  BY <1>15 DEF Report, Abort, kept, fetching, GivenInv
<1> QED
  BY <1>1, <1>2, <1>3, <1>4, <1>5, <1>6, <1>7, <1>8, <1>9, <1>10, <1>11, <1>12, <1>13,
     <1>14, <1>15 DEF Next, Fetching

\* With more than one timeframe there is a second.
LEMMA HigherBar ==
    ASSUME Len(Bars) # 1
    PROVE  2 \in 1 .. Len(Bars) /\ Bars[2] \in Nat
<1>1. PICK n \in Nat : n = Len(Bars)
  BY DataAssumption
<1>2. n # 0 /\ n # 1
  BY <1>1, DataAssumption
<1>3. 2 \in 1 .. n
  BY <1>2
<1>4. \A i \in 1 .. Len(Bars) : Bars[i] \in Nat
  BY DataAssumption
<1> QED
  BY <1>1, <1>3, <1>4

\* A symbol is played with sets of times, and with candles of its own.
LEMMA DataIsTyped ==
    ASSUME DataInv, GivenInv, stage = "Simulate", NEW s \in Pairs
    PROVE  /\ Data(s) \in DataSets
           /\ Data(s).candles \subseteq CandleTimes[s][1]
           /\ Data(s).rates \subseteq Settlements[s]
<1>1. Len(Bars) \in Nat \ {0} /\ Settlements[s] \subseteq Nat
  BY DataAssumption DEF Pairs
<1>2. ASSUME NEW b \in 1 .. Len(Bars)
      PROVE  series[<<s, b>>] \subseteq CandleTimes[s][b] /\ CandleTimes[s][b] \subseteq Nat
  <2>1. <<s, b>> \in Keys /\ <<s, b>>[1] = s /\ <<s, b>>[2] = b
    BY DEF Keys
  <2>2. series[<<s, b>>] # None
    BY <2>1 DEF GivenInv
  <2> QED
    BY <2>1, <2>2, DataAssumption DEF DataInv, SeriesWhole, Pairs
<1>3. series[<<s, 1>>] \subseteq CandleTimes[s][1] /\ CandleTimes[s][1] \subseteq Nat
  BY <1>1, <1>2
<1>4. (IF Len(Bars) = 1 THEN {} ELSE series[<<s, 2>>]) \subseteq Nat
  <2>1. CASE Len(Bars) = 1
    BY <2>1
  <2>2. CASE Len(Bars) # 1
    <3>1. 2 \in 1 .. Len(Bars)
      BY <2>2, HigherBar
    <3>2. series[<<s, 2>>] \subseteq Nat
      BY <1>2, <3>1
    <3> QED
      BY <2>2, <3>2
  <2> QED
    BY <2>1, <2>2
<1>5. (IF rates[s] = None THEN {} ELSE rates[s]) \subseteq Settlements[s]
  BY DEF GivenInv
<1>6. (IF contexts[s] = None THEN [f \in Fields |-> {}] ELSE contexts[s])
          \in [Fields -> SUBSET Nat]
  BY DEF GivenInv
<1> QED
  BY <1>1, <1>3, <1>4, <1>5, <1>6, BacktestAssumption DEF Data, DataSets

-----------------------------------------------------------------------------
(* Nothing is seen before it is known                                      *)

LEMMA BarIsPositive == Bars[1] \in Nat \ {0}
BY DataAssumption

\* What is known later shows at an earlier time what is known then.
LEMMA PublishedTwice ==
    ASSUME NEW times \in SUBSET Nat, NEW now \in Int, NEW t \in Int, t <= now
    PROVE  Published(Published(times, now), t) = Published(times, t)
<1>1. \A u \in times : u <= t => u <= now
  OBVIOUS
<1> QED
  BY <1>1 DEF Published

LEMMA KnownInTime ==
    ASSUME NEW d \in DataSets, NEW now \in Int, NEW t \in Nat, t + Bars[1] <= now
    PROVE  View(Known(d, now), t) = View(d, t)
<1>1. t <= now
  BY BarIsPositive
<1>2. /\ d.candles \in SUBSET Nat /\ d.higher \in SUBSET Nat /\ d.rates \in SUBSET Nat
      /\ d.context \in [Fields -> SUBSET Nat] /\ d.intelligence \in SUBSET Nat
  BY DEF DataSets
<1>3. PICK k : k = Known(d, now)
  OBVIOUS
<1>4. /\ k.candles = {u \in d.candles : u + Bars[1] <= now}
      /\ k.higher = {u \in d.higher : u + Bars[2] <= now}
      /\ k.rates = Published(d.rates, now)
      /\ k.context = [f \in Fields |-> Published(d.context[f], now)]
      /\ k.intelligence = Published(d.intelligence, now)
  BY <1>3 DEF Known
<1>5. Published(k.candles, t) = Published(d.candles, t)
  <2>1. \A u \in d.candles : u <= t => u + Bars[1] <= now
    BY <1>2, BarIsPositive
  <2> QED
    BY <1>4, <2>1 DEF Published
<1>6. {u \in k.higher : u + Bars[2] <= t + Bars[1]}
          = {u \in d.higher : u + Bars[2] <= t + Bars[1]}
  <2>1. CASE d.higher = {}
    BY <1>4, <2>1
  <2>2. CASE d.higher # {}
    <3>1. Bars[2] \in Nat
      <4>1. Len(Bars) # 1
        BY <2>2 DEF DataSets
      <4> QED
        BY <4>1, HigherBar
    <3>2. \A u \in d.higher : u + Bars[2] <= t + Bars[1] => u + Bars[2] <= now
      BY <1>2, <3>1, BarIsPositive
    <3> QED
      BY <1>4, <3>2
  <2> QED
    BY <2>1, <2>2
<1>7. LastKnown(k.rates, t) = LastKnown(d.rates, t)
  <2>1. Published(k.rates, t) = Published(d.rates, t)
    BY <1>1, <1>2, <1>4, PublishedTwice
  <2> QED
    BY <2>1 DEF LastKnown
<1>8. \A f \in Fields : Published(k.context[f], t) = Published(d.context[f], t)
  BY <1>1, <1>2, <1>4, PublishedTwice
<1>9. Published(k.intelligence, t) = Published(d.intelligence, t)
  BY <1>1, <1>2, <1>4, PublishedTwice
<1> QED
  BY <1>3, <1>5, <1>6, <1>7, <1>8, <1>9 DEF View

LEMMA KnownFunding ==
    ASSUME NEW s, NEW r \in SUBSET Nat, NEW now \in Int, NEW exit \in Nat, exit <= now, NEW entry
    PROVE  FundingPct(s, Published(r, now), entry, exit) = FundingPct(s, r, entry, exit)
<1>1. FundingInterval \in Nat \ {0}
  BY BacktestAssumption
<1>2. PICK n \in Nat : n = exit \div FundingInterval
  BY <1>1
<1>3. FundingInterval * n <= exit
  BY <1>1, <1>2
<1>4. ASSUME NEW i \in 1 .. n
      PROVE  LastKnown(Published(r, now), i * FundingInterval) = LastKnown(r, i * FundingInterval)
  <2>1. FundingInterval * i <= FundingInterval * n
    BY <1>1
  <2>2. i * FundingInterval \in Int /\ i * FundingInterval = FundingInterval * i
    BY <1>1
  <2>3. FundingInterval * n \in Int
    BY <1>1
  <2>4. i * FundingInterval <= now
    BY <1>3, <2>1, <2>2, <2>3
  <2> QED
    BY <2>2, <2>4, PublishedTwice DEF LastKnown
<1> DEFINE charged(known, t) ==
               IF t <= entry \/ LastKnown(known, t) = NotYet THEN 0 ELSE Rates[s][LastKnown(known, t)]
           charges(known) == [i \in 1 .. n |-> charged(known, i * FundingInterval)]
<1>5. charges(Published(r, now)) = charges(r)
  BY <1>4
<1> QED
  BY <1>2, <1>5 DEF FundingPct

\* Only the funding of a trade depends on the rates that are known.
LEMMA SameFundingSameTick ==
    ASSUME NEW a, NEW s, NEW c, NEW t, NEW k, NEW r,
           \A entry : FundingPct(s, k, entry, t) = FundingPct(s, r, entry, t)
    PROVE  Tick(a, s, k, c, t) = Tick(a, s, r, c, t)
<1>1. \A p, x : ClosedTrade(s, k, p, x, t) = ClosedTrade(s, r, p, x, t)
  BY DEF ClosedTrade
<1>2. \A b, exits : Leave(b, s, k, exits, t) = Leave(b, s, r, exits, t)
  <2> SUFFICES ASSUME NEW b, NEW exits
               PROVE  Leave(b, s, k, exits, t) = Leave(b, s, r, exits, t)
    OBVIOUS
  <2>1. PICK x : x = CHOOSE y \in exits : TRUE
    OBVIOUS
  <2>2. ClosedTrade(s, k, b.position, x, t) = ClosedTrade(s, r, b.position, x, t)
    BY <1>1
  <2> QED
    BY <2>1, <2>2 DEF Leave
<1> QED
  BY <1>2 DEF Tick

LEMMA KnownPlay ==
    ASSUME NEW d \in DataSets, NEW now \in Int, NEW t \in Nat, t + Bars[1] <= now, NEW a, NEW s
    PROVE  PlayCandle(a, s, Known(d, now), t) = PlayCandle(a, s, d, t)
<1>1. View(Known(d, now), t) = View(d, t)
  BY KnownInTime
<1>2. t <= now /\ d.rates \in SUBSET Nat
  BY BarIsPositive DEF DataSets
<1>3. Known(d, now).rates = Published(d.rates, now)
  BY DEF Known
<1>4. Tick(a, s, Known(d, now).rates, Quotes[s][t], t) = Tick(a, s, d.rates, Quotes[s][t], t)
  BY <1>2, <1>3, KnownFunding, SameFundingSameTick
<1> QED
  BY <1>1, <1>4 DEF PlayCandle

-----------------------------------------------------------------------------
(* The account is what the candles have made of it                         *)

LEMMA PlayedStays ==
    ASSUME NEW g, NEW s, NEW d, NEW last, UNCHANGED <<window, strategy>>
    PROVE  Played(g, s, d, last)' <=> Played(g, s, d, last)
BY DEF Played, InWindow, PlayCandle

\* A symbol that has seen no candle has a fresh account.
LEMMA FreshIsPlayed ==
    ASSUME window' \in Windows, account' = Fresh, clock' = NotYet
    PROVE  PlayedSoFar'
<1>1. PICK w \in Windows : w = window'
  OBVIOUS
<1>2. NotYet < End(window')
  BY <1>1, WindowBounds DEF NotYet
<1>3. PICK g : g = [t \in {NotYet} |-> Fresh]
  OBVIOUS
<1>4. g[NotYet] = Fresh /\ 0 .. NotYet = {}
  BY <1>3 DEF NotYet
<1>5. PICK d : d = Data(job)'
  OBVIOUS
<1>6. PICK j : j = job'
  OBVIOUS
<1>7. Played(g, j, d, NotYet)'
  BY <1>4 DEF Played
<1>8. account' = g[NotYet] /\ clock' = NotYet /\ clock' \in {NotYet} \cup Nat
  BY <1>4
<1>9. \E f : Played(f, j, d, NotYet)' /\ account' = f[NotYet]
  BY <1>7, <1>8
<1> QED
  BY <1>2, <1>5, <1>6, <1>8, <1>9 DEF PlayedSoFar

LEMMA PlayedIdle ==
    ASSUME PlayedSoFar, stage' = "Idle", clock' = clock
    PROVE  PlayedSoFar'
BY DEF PlayedSoFar, Simulating

LEMMA PlayExtends ==
    ASSUME DataInv, GivenInv, PlayedSoFar, Play
    PROVE  PlayedSoFar'
<1>1. /\ stage = "Simulate" /\ job \in Pairs /\ LeftToPlay # {}
      /\ UNCHANGED <<window, strategy, stage, job, series, rates, contexts>>
  BY DEF Play, Simulating, DataInv, Pairs, dataVars, fetching, kept
<1>2. PICK d \in DataSets : d = Data(job)
  BY <1>1, DataIsTyped
<1>3. Data(job)' = d
  BY <1>1, <1>2 DEF Data
<1>4. InWindow(d) \subseteq Nat /\ \A t \in InWindow(d) : t < End(window)
  BY DEF InWindow, DataSets
<1>5. LeftToPlay = {t \in InWindow(d) : t > clock}
  BY <1>2 DEF LeftToPlay
<1>6. LeftToPlay \in SUBSET Nat
  BY <1>4, <1>5
<1>7. PICK c : c = Min(LeftToPlay)
  OBVIOUS
<1>8. c \in LeftToPlay /\ \A t \in LeftToPlay : c <= t
  BY <1>1, <1>6, <1>7, EarliestTime
<1>9. c \in Nat /\ c \in InWindow(d) /\ c > clock /\ c < End(window)
  BY <1>4, <1>5, <1>8
<1>10. clock \in {NotYet} \cup Nat /\ clock \in Int /\ NotYet = -1
  BY DEF PlayedSoFar, NotYet
<1>11. \A t \in 0 .. c - 1 : t > clock => t \notin InWindow(d)
  <2> SUFFICES ASSUME NEW t \in 0 .. c - 1, t > clock, t \in InWindow(d)
               PROVE  FALSE
    OBVIOUS
  <2>1. t \in LeftToPlay
    BY <1>5
  <2>2. c <= t /\ t <= c - 1
    BY <1>8, <2>1
  <2> QED
    BY <1>9, <2>2
<1>12. PICK g : Played(g, job, d, clock) /\ account = g[clock]
  BY <1>1, <1>2 DEF PlayedSoFar, Simulating, Pairs
<1>13. PICK b : b = PlayCandle(account, job, d, c)
  OBVIOUS
<1>14. PICK h : h = [t \in NotYet .. c |-> IF t <= clock THEN g[t]
                                          ELSE IF t < c THEN account ELSE b]
  OBVIOUS
<1>15. h[NotYet] = Fresh
  BY <1>9, <1>10, <1>12, <1>14 DEF Played
<1>16. ASSUME NEW t \in 0 .. c
       PROVE  h[t] = IF t \in InWindow(d) THEN PlayCandle(h[t - 1], job, d, t) ELSE h[t - 1]
  <2>1. t \in NotYet .. c /\ t - 1 \in NotYet .. c /\ t \in Int /\ t - 1 < c
    BY <1>9, <1>10
  <2>2. h[t - 1] = IF t - 1 <= clock THEN g[t - 1] ELSE account
    BY <1>14, <2>1
  <2>3. CASE t <= clock
    <3>1. t - 1 <= clock /\ t \in 0 .. clock
      BY <1>10, <2>1, <2>3
    <3>2. h[t] = g[t] /\ h[t - 1] = g[t - 1]
      BY <1>14, <2>1, <2>2, <2>3, <3>1
    <3> QED
      BY <1>12, <3>1, <3>2 DEF Played
  <2>4. CASE t > clock
    <3>1. h[t - 1] = account
      <4>1. t - 1 = clock \/ ~(t - 1 <= clock)
        BY <1>10, <2>1, <2>4
      <4> QED
        BY <1>12, <2>2, <4>1
    <3>2. CASE t = c
      <4>1. h[t] = b
        BY <1>9, <1>10, <1>14, <2>1, <2>4, <3>2
      <4> QED
        BY <1>9, <1>13, <3>1, <3>2, <4>1
    <3>3. CASE t # c
      <4>1. t \in 0 .. c - 1 /\ t < c /\ ~(t <= clock)
        BY <1>9, <1>10, <2>1, <2>4, <3>3
      <4>2. h[t] = account /\ t \notin InWindow(d)
        BY <1>11, <1>14, <2>1, <2>4, <4>1
      <4> QED
        BY <3>1, <4>2
    <3> QED
      BY <3>2, <3>3
  <2> QED
    BY <1>10, <2>1, <2>3, <2>4
<1>17. Played(h, job, d, c)
  BY <1>15, <1>16 DEF Played
<1>18. account' = h[c] /\ clock' = c
  <2>1. c \in NotYet .. c /\ ~(c <= clock) /\ ~(c < c)
    BY <1>9, <1>10
  <2>2. h[c] = b
    BY <1>14, <2>1
  <2> QED
    BY <1>2, <1>7, <1>13, <2>2 DEF Play
<1>19. PICK j : j = job
  OBVIOUS
<1>20. Played(h, j, d, c)'
  BY <1>1, <1>17, <1>19, PlayedStays
<1>21. /\ job' = j /\ window' = window /\ stage' = "Simulate"
  BY <1>1, <1>19
<1> QED
  BY <1>3, <1>9, <1>18, <1>20, <1>21 DEF PlayedSoFar

LEMMA PlayedInit ==
    ASSUME Init
    PROVE  PlayedSoFar
BY DEF Init, NoData, PlayedSoFar, Simulating

LEMMA PlayedStep ==
    ASSUME DataInv, GivenInv, PlayedSoFar, [Next]_btVars
    PROVE  PlayedSoFar'
<1>1. CASE StartRun
  BY <1>1, FreshIsPlayed DEF StartRun, Run
<1>2. CASE Fetching /\ UNCHANGED simVars
  <2>1. stage \in {"Funding", "Context", "Candles"} /\ window' = window
    BY <1>2 DEF Fetching, FundingPage, NextSymbol, FundingFetched, FundingFails, FetchContext,
                KeepContext, ContextFetched, CandlePage, CandlePageFails, KeepCandles,
                CandlesFetched, GoTo, StoreSeries
  <2>2. window \in Windows /\ account = Fresh /\ clock = NotYet
    BY <2>1 DEF DataInv, PlayedSoFar
  <2>3. account' = Fresh /\ clock' = NotYet /\ window' \in Windows
    BY <1>2, <2>1, <2>2 DEF simVars
  <2> QED
    BY <2>3, FreshIsPlayed
<1>3. CASE Play
  BY <1>3, PlayExtends
<1>4. CASE NextSimulation
  BY <1>4, FreshIsPlayed DEF NextSimulation, Simulating, DataInv
<1>5. CASE Report \/ Abort
  BY <1>5, PlayedIdle DEF Report, Abort
<1>6. CASE UNCHANGED btVars
  <2>1. UNCHANGED <<window, strategy, stage, job, series, rates, contexts, clock, account>>
    BY <1>6 DEF btVars, dataVars, simVars, fetching, kept
  <2>2. PICK d : d = Data(job)
    OBVIOUS
  <2>3. Data(job)' = d
    BY <2>1, <2>2 DEF Data
  <2>4. PICK j, c, a : j = job /\ c = clock /\ a = account
    OBVIOUS
  <2>5. \A g : Played(g, j, d, c)' <=> Played(g, j, d, c)
    BY <2>1, PlayedStays
  <2>6. job' = j /\ clock' = c /\ account' = a /\ stage' = stage /\ window' = window
    BY <2>1, <2>4
  <2>7. Simulating => \E g : Played(g, j, d, c)' /\ a = g[c]
    BY <2>2, <2>4, <2>5 DEF PlayedSoFar
  <2> QED
    BY <2>2, <2>3, <2>4, <2>6, <2>7 DEF PlayedSoFar, Simulating
<1> QED
  BY <1>1, <1>2, <1>3, <1>4, <1>5, <1>6 DEF Next

\* The account that a symbol has if it is played with what d holds: equation of Replay.
Replays(f, s, d, last) ==
    f = [t \in NotYet .. last |->
            IF t = NotYet THEN Fresh
            ELSE IF t \in InWindow(d) THEN PlayCandle(f[t - 1], s, d, t) ELSE f[t - 1]]

LEMMA ReplaysAgree ==
    ASSUME NEW s, NEW d, NEW last \in Nat, NEW f, Replays(f, s, d, last),
           NEW h, Replays(h, s, d, last)
    PROVE  f[last] = h[last]
<1> DEFINE S == {n \in Nat : n - 1 <= last => f[n - 1] = h[n - 1]}
<1>0. NotYet = -1
  BY DEF NotYet
<1>1. \A t \in NotYet .. last :
         /\ f[t] = IF t = NotYet THEN Fresh
                   ELSE IF t \in InWindow(d) THEN PlayCandle(f[t - 1], s, d, t) ELSE f[t - 1]
         /\ h[t] = IF t = NotYet THEN Fresh
                   ELSE IF t \in InWindow(d) THEN PlayCandle(h[t - 1], s, d, t) ELSE h[t - 1]
  BY DEF Replays
<1>2. 0 \in S
  <2>1. NotYet \in NotYet .. last /\ 0 - 1 = NotYet
    BY <1>0
  <2> QED
    BY <1>1, <2>1
<1>3. ASSUME NEW n \in Nat, n \in S
      PROVE  n + 1 \in S
  <2>1. SUFFICES ASSUME (n + 1) - 1 <= last
                 PROVE  f[(n + 1) - 1] = h[(n + 1) - 1]
    OBVIOUS
  <2>2. n \in NotYet .. last /\ n # NotYet /\ (n + 1) - 1 = n /\ n - 1 <= last
    BY <1>0, <2>1
  <2>3. f[n - 1] = h[n - 1]
    BY <1>3, <2>2
  <2> QED
    BY <1>1, <2>2, <2>3
<1> HIDE DEF S
<1>4. \A n \in Nat : n \in S
  BY <1>2, <1>3, SetInduction
<1>5. last + 1 \in S /\ (last + 1) - 1 = last
  BY <1>4
<1> QED
  BY <1>5 DEF S

LEMMA ReplayIsLast ==
    ASSUME NEW s, NEW d, End(window) \in Nat, NEW h, Replays(h, s, d, End(window))
    PROVE  Replay(s, d) = h[End(window)]
<1> DEFINE c == CHOOSE f : Replays(f, s, d, End(window))
<1>1. Replays(c, s, d, End(window))
  OBVIOUS
<1>2. Replay(s, d) = c[End(window)]
  BY DEF Replay, Replays
<1> HIDE DEF c
<1>3. PICK e \in Nat : e = End(window)
  OBVIOUS
<1>4. c[e] = h[e]
  BY <1>1, <1>3, ReplaysAgree
<1> QED
  BY <1>2, <1>3, <1>4

\* Played with only what was known after the last candle, the account is the same.
LEMMA KnownReplay ==
    ASSUME DataInv, GivenInv, PlayedSoFar
    PROVE  NoLookAhead
<1> SUFFICES ASSUME Simulating, clock # NotYet
             PROVE  account = Replay(job, Known(Data(job), clock + Bars[1]))
  BY DEF NoLookAhead
<1>1. /\ stage = "Simulate" /\ job \in Pairs /\ window \in Windows
      /\ clock \in Nat /\ clock < End(window) /\ NotYet = -1
  BY DEF PlayedSoFar, Simulating, DataInv, Pairs, NotYet
<1>2. PICK e \in Nat : e = End(window)
  BY <1>1, WindowBounds
<1>3. PICK d \in DataSets : d = Data(job)
  BY <1>1, DataIsTyped
<1>4. PICK n \in Nat : n = clock + Bars[1]
  BY <1>1, BarIsPositive
<1>5. PICK k : k = Known(d, n)
  OBVIOUS
<1>6. k.candles = {u \in d.candles : u + Bars[1] <= n} /\ d.candles \in SUBSET Nat
  BY <1>5 DEF Known, DataSets
<1>7. \A t \in Nat : t \in InWindow(k) <=> t \in InWindow(d) /\ t <= clock
  BY <1>1, <1>4, <1>6, BarIsPositive DEF InWindow
<1>8. PICK g : Played(g, job, d, clock) /\ account = g[clock]
  BY <1>1, <1>3 DEF PlayedSoFar
<1>9. PICK h : h = [t \in NotYet .. e |-> IF t <= clock THEN g[t] ELSE account]
  OBVIOUS
<1>10. ASSUME NEW t \in NotYet .. e
       PROVE  h[t] = IF t = NotYet THEN Fresh
                     ELSE IF t \in InWindow(k) THEN PlayCandle(h[t - 1], job, k, t)
                     ELSE h[t - 1]
  <2>1. CASE t = NotYet
    BY <1>1, <1>8, <1>9, <2>1 DEF Played
  <2>2. CASE t # NotYet /\ t <= clock
    <3>1. t \in 0 .. clock /\ t - 1 \in NotYet .. e /\ t - 1 <= clock /\ t \in Nat
      BY <1>1, <2>2
    <3>2. h[t] = g[t] /\ h[t - 1] = g[t - 1]
      BY <1>9, <2>2, <3>1
    <3>3. t + Bars[1] <= n
      BY <1>1, <1>4, <3>1, BarIsPositive
    <3>4. PlayCandle(h[t - 1], job, k, t) = PlayCandle(h[t - 1], job, d, t)
      BY <1>5, <3>1, <3>3, KnownPlay
    <3>5. t \in InWindow(k) <=> t \in InWindow(d)
      BY <1>7, <2>2, <3>1
    <3>6. g[t] = IF t \in InWindow(d) THEN PlayCandle(g[t - 1], job, d, t) ELSE g[t - 1]
      BY <1>8, <3>1 DEF Played
    <3> QED
      BY <2>2, <3>2, <3>4, <3>5, <3>6
  <2>3. CASE ~(t <= clock)
    <3>1. t \in Nat /\ t - 1 \in NotYet .. e /\ t # NotYet
      BY <1>1, <2>3
    <3>2. h[t] = account
      BY <1>9, <2>3
    <3>3. h[t - 1] = account
      <4>1. t - 1 = clock \/ ~(t - 1 <= clock)
        BY <1>1, <2>3, <3>1
      <4> QED
        BY <1>8, <1>9, <3>1, <4>1
    <3>4. t \notin InWindow(k)
      BY <1>7, <2>3, <3>1
    <3> QED
      BY <3>1, <3>2, <3>3, <3>4
  <2> QED
    BY <2>1, <2>2, <2>3
<1>11. Replays(h, job, k, e)
  <2>1. h = [t \in NotYet .. e |-> h[t]]
    BY <1>9
  <2> QED
    BY <1>10, <2>1 DEF Replays
<1>12. Replay(job, k) = h[e]
  BY <1>2, <1>11, ReplayIsLast
<1>13. h[e] = account
  <2>1. e \in NotYet .. e /\ ~(e <= clock)
    BY <1>1, <1>2
  <2> QED
    BY <1>9, <2>1
<1> QED
  BY <1>3, <1>4, <1>5, <1>12, <1>13

\* "Zero look-ahead bias": NoLookAhead, for any data, strategies and windows.
THEOREM NothingIsSeenEarly == Spec => []NoLookAhead
<1>1. Init => DataInv /\ GivenInv /\ PlayedSoFar
  BY DataInit, GivenInit, PlayedInit
<1>2. DataInv /\ GivenInv /\ PlayedSoFar /\ [Next]_btVars
          => (DataInv /\ GivenInv /\ PlayedSoFar)'
  BY DataStep, GivenStep, PlayedStep
<1>3. DataInv /\ GivenInv /\ PlayedSoFar => NoLookAhead
  BY KnownReplay
<1> QED
  BY <1>1, <1>2, <1>3, PTL DEF Spec

-----------------------------------------------------------------------------
(* One account: its money and its times                                    *)

LEMMA MoneyIsInt == {Unit, MakerRate, TakerRate, SlippageRate, InitialCapital} \subseteq Int
BY BacktestAssumption

LEMMA CostsAreInt ==
    ASSUME NEW p, p.quantity \in Int, p.entry \in Int, NEW price \in Int, NEW reason
    PROVE  /\ Size(p) \in Int /\ Gross(p, price) \in Int /\ EntryFee(p) \in Int
           /\ ExitFee(p, price, reason) \in Int /\ Slippage(p, price, reason) \in Int
<1>1. PICK q \in Int, e \in Int : q = p.quantity /\ e = p.entry
  OBVIOUS
<1>2. Unit \in Int /\ MakerRate \in Int /\ TakerRate \in Int /\ SlippageRate \in Int
  BY MoneyIsInt
<1>3. q * e \in Int /\ q * price \in Int /\ price - e \in Int /\ q * (price - e) \in Int
  OBVIOUS
<1>4. /\ Unit * (q * e) \in Int /\ Unit * (q * (price - e)) \in Int
      /\ MakerRate * (q * e) \in Int /\ MakerRate * (q * price) \in Int
      /\ TakerRate * (q * price) \in Int /\ SlippageRate * (q * price) \in Int
  BY <1>2, <1>3
<1>5. Size(p) \in Int /\ EntryFee(p) \in Int
  BY <1>1, <1>4 DEF Size, EntryFee
<1>6. Gross(p, price) \in Int
  <2>1. PICK n \in Int : n = Unit * (q * (price - e))
    BY <1>4
  <2>2. Gross(p, price) = 1 * n \/ Gross(p, price) = (-1) * n
    BY <1>1, <2>1 DEF Gross, Sign
  <2> QED
    BY <2>2
<1>7. ExitFee(p, price, reason) \in Int /\ Slippage(p, price, reason) \in Int
  BY <1>1, <1>4 DEF ExitFee, Slippage
<1> QED
  BY <1>5, <1>6, <1>7

\* The last known record is a record, or there is none.
LEMMA LastKnownIsKnown ==
    ASSUME NEW r \in SUBSET Nat, NEW t \in Nat
    PROVE  LastKnown(r, t) \in r \cup {NotYet}
<1> DEFINE P == Published(r, t)
<1>1. \A u \in P : u \in r /\ u \in 0 .. t
  BY DEF Published
<1>2. \E x \in {NotYet} \cup P : \A y \in {NotYet} \cup P : x >= y
  <2>1. CASE P = {}
    BY <2>1 DEF NotYet
  <2>2. CASE P # {}
    <3>1. P \in SUBSET (0 .. t)
      BY <1>1
    <3> HIDE DEF P
    <3>2. PICK x \in P : \A y \in P : y <= x
      BY <2>2, <3>1, LatestTime
    <3>3. x \in Nat /\ \A y \in P : y \in Nat
      BY <3>1
    <3> QED
      BY <3>2, <3>3 DEF NotYet
  <2> QED
    BY <2>1, <2>2
<1>3. Max({NotYet} \cup P) \in {NotYet} \cup P
  BY <1>2 DEF Max
<1> QED
  BY <1>1, <1>3 DEF LastKnown

LEMMA FundingIsInt ==
    ASSUME NEW s \in Pairs, NEW r, r \subseteq Settlements[s], NEW entry \in Int, NEW exit \in Nat
    PROVE  FundingPct(s, r, entry, exit) \in Int
<1>1. FundingInterval \in Nat \ {0} /\ r \in SUBSET Nat
  BY BacktestAssumption, DataAssumption DEF Pairs
<1>2. PICK n \in Nat : n = exit \div FundingInterval
  BY <1>1
<1> DEFINE charged(t) == IF t <= entry \/ LastKnown(r, t) = NotYet THEN 0 ELSE Rates[s][LastKnown(r, t)]
           w == [i \in 1 .. n |-> charged(i * FundingInterval)]
<1>3. ASSUME NEW i \in 1 .. n
      PROVE  w[i] \in Int
  <2>1. i * FundingInterval \in Nat
    BY <1>1
  <2>2. PICK t \in Nat : t = i * FundingInterval
    BY <2>1
  <2>3. LastKnown(r, t) \in r \cup {NotYet}
    BY <1>1, LastKnownIsKnown
  <2>4. LastKnown(r, t) # NotYet => Rates[s][LastKnown(r, t)] \in Int
    BY <2>3, BacktestAssumption
  <2> QED
    BY <2>2, <2>4
<1> HIDE DEF w
<1>4. SumTo(w, n) \in Int
  BY <1>3, SumToInt
<1> QED
  BY <1>2, <1>4 DEF FundingPct, w

\* One more trade adds its net gain.
LEMMA GainAdds ==
    ASSUME NEW s, NEW closed \in Seq(TradesOf(s)), NEW trade \in TradesOf(s)
    PROVE  /\ NetGain(closed) \in Int /\ Net(trade) \in Int
           /\ NetGain(Append(closed, trade)) = NetGain(closed) + Net(trade)
<1>1. PICK n \in Nat : n = Len(closed)
  OBVIOUS
<1> DEFINE w == [i \in DOMAIN closed |-> Net(closed[i])]
           v == [i \in DOMAIN Append(closed, trade) |-> Net(Append(closed, trade)[i])]
<1>2. ASSUME NEW x \in TradesOf(s)
      PROVE  Net(x) \in Int
  <2>1. x.gross \in Int /\ x.fees \in Int /\ x.slippage \in Int /\ x.funding \in Int
    BY DEF TradesOf
  <2> QED
    BY <2>1 DEF Net
<1>3. \A i \in 1 .. n : w[i] \in Int /\ v[i] = w[i]
  BY <1>1, <1>2
<1>4. v[n + 1] = Net(trade) /\ Len(Append(closed, trade)) = n + 1
  BY <1>1
<1>5. NetGain(closed) = SumTo(w, n) /\ NetGain(Append(closed, trade)) = SumTo(v, n + 1)
  BY <1>1, <1>4 DEF NetGain
<1> HIDE DEF w, v
<1>6. SumTo(w, n) \in Int /\ SumTo(v, n) = SumTo(w, n)
  BY <1>3, SumToInt, SumToAgree
<1>7. SumTo(v, n + 1) = SumTo(v, n) + v[n + 1]
  BY SumToStep
<1> QED
  BY <1>2, <1>4, <1>5, <1>6, <1>7

\* What an account is worth is no part of what it holds.
LEMMA SameHoldings ==
    ASSUME NEW s, NEW w, NEW now, NEW a, AccountOk(a, s, w, now), NEW b \in AccountsOf(s),
           b.free = a.free, b.closed = a.closed, b.position = a.position, b.order = a.order
    PROVE  AccountOk(b, s, w, now)
BY DEF AccountOk, Timely, Balanced, Invested

LEMMA MarkKeeps ==
    ASSUME NEW s, NEW w, NEW now, NEW a, AccountOk(a, s, w, now), NEW price \in Int
    PROVE  /\ AccountOk(Mark(a, price), s, w, now)
           /\ Mark(a, price).order = a.order /\ Mark(a, price).position = a.position
<1>1. PICK b : b = Mark(a, price)
  OBVIOUS
<1>2. a \in AccountsOf(s)
  BY DEF AccountOk
<1>3. a.position # None => a.free + Value(a.position, price) \in Int
  <2>1. SUFFICES ASSUME a.position # None
                 PROVE  a.free + Value(a.position, price) \in Int
    OBVIOUS
  <2>2. a.position.quantity \in Int /\ a.position.entry \in Int /\ a.free \in Int
    BY <1>2, <2>1 DEF AccountsOf, Positions
  <2>3. Size(a.position) \in Int /\ Gross(a.position, price) \in Int
    BY <2>2, CostsAreInt
  <2> QED
    BY <2>2, <2>3 DEF Value
<1>4. /\ b \in AccountsOf(s)
      /\ b.free = a.free /\ b.closed = a.closed /\ b.position = a.position
      /\ b.order = a.order
  BY <1>1, <1>2, <1>3 DEF Mark, AccountsOf
<1> QED
  BY <1>1, <1>4, SameHoldings

\* An exit closes the position, adds its net gain, and is the latest of the trades.
LEMMA LeaveKeeps ==
    ASSUME NEW s \in Pairs, NEW w \in Windows, NEW t \in Nat, t < End(w),
           NEW a, AccountOk(a, s, w, t),
           NEW r, r \subseteq Settlements[s], NEW exits,
           \A x \in exits : x.price \in Int /\ x.reason \in CloseReasons,
           exits # {} => a.position # None
    PROVE  /\ AccountOk(Leave(a, s, r, exits, t), s, w, t)
           /\ Leave(a, s, r, exits, t).order = a.order
           /\ Leave(a, s, r, exits, t).position \in {a.position, None}
<1>1. PICK b : b = Leave(a, s, r, exits, t)
  OBVIOUS
<1>2. a \in AccountsOf(s)
  BY DEF AccountOk
<1>3. CASE a.raised \/ exits = {}
  <2>1. b = a
    BY <1>1, <1>3 DEF Leave
  <2> QED
    BY <1>1, <2>1
<1>4. CASE ~(a.raised \/ exits = {})
  <2>1. PICK x \in exits : x = CHOOSE y \in exits : TRUE
    BY <1>4
  <2>2. PICK p \in Positions : p = a.position
    BY <1>2, <1>4 DEF AccountsOf
  <2>3. PICK trade : trade = ClosedTrade(s, r, p, x, t)
    OBVIOUS
  <2>4. /\ p.quantity \in Int /\ p.entry \in Int /\ p.openedAt \in Int /\ p.placed \in Int
        /\ p.direction \in Directions /\ x.price \in Int /\ x.reason \in CloseReasons
    BY <2>1, <2>2 DEF Positions
  <2>5. PICK f \in Int : f = FundingPct(s, r, p.openedAt, t)
    BY <2>4, FundingIsInt
  <2>6. Sign(p.direction) * (p.quantity * x.price * f) \in Int
    <3>1. PICK m \in Int : m = p.quantity * x.price
      BY <2>4
    <3>2. PICK n \in Int : n = m * f
      OBVIOUS
    <3>3. 1 * n \in Int /\ (-1) * n \in Int
      OBVIOUS
    <3> QED
      BY <3>1, <3>2, <3>3 DEF Sign
  <2>7. /\ Size(p) \in Int /\ Gross(p, x.price) \in Int
        /\ EntryFee(p) + ExitFee(p, x.price, x.reason) \in Int
        /\ Slippage(p, x.price, x.reason) \in Int
    BY <2>4, CostsAreInt
  <2>8. /\ trade \in TradesOf(s) /\ trade.placed = p.placed /\ trade.entered = p.openedAt
        /\ trade.exited = t
    BY <2>3, <2>4, <2>5, <2>6, <2>7 DEF ClosedTrade, TradesOf
  <2>9. a.closed \in Seq(TradesOf(s)) /\ a.free \in Int
    BY <1>2 DEF AccountsOf
  <2>10. /\ NetGain(a.closed) \in Int /\ Net(trade) \in Int
         /\ NetGain(Append(a.closed, trade)) = NetGain(a.closed) + Net(trade)
    BY <2>8, <2>9, GainAdds
  <2>11. PICK cash \in Int : cash = a.free + Size(p) + Net(trade)
    BY <2>7, <2>9, <2>10
  <2>12. CASE cash < 0
    <3>1. b = [a EXCEPT !.raised = TRUE]
      BY <1>1, <1>4, <2>1, <2>2, <2>3, <2>11, <2>12 DEF Leave
    <3>2. /\ b \in AccountsOf(s) /\ b.free = a.free /\ b.closed = a.closed
          /\ b.position = a.position /\ b.order = a.order
      BY <1>2, <3>1 DEF AccountsOf
    <3> QED
      BY <1>1, <3>2, SameHoldings
  <2>13. CASE ~(cash < 0)
    <3>1. b = [a EXCEPT !.free = cash, !.total = cash, !.position = None,
                        !.closed = Append(a.closed, trade)]
      BY <1>1, <1>4, <2>1, <2>2, <2>3, <2>11, <2>13 DEF Leave
    <3>2. /\ b.free = cash /\ b.position = None /\ b.order = a.order
          /\ b.closed = Append(a.closed, trade)
      BY <1>2, <3>1 DEF AccountsOf
    <3>3. b \in AccountsOf(s)
      <4>1. Append(a.closed, trade) \in Seq(TradesOf(s))
        BY <2>8, <2>9
      <4> QED
        BY <1>2, <3>1, <4>1 DEF AccountsOf
    <3>4. Balanced(b)
      <4>1. a.free + Size(p) = InitialCapital + NetGain(a.closed)
        BY <1>4, <2>2 DEF AccountOk, Balanced, Invested
      <4>2. InitialCapital \in Int
        BY MoneyIsInt
      <4> QED
        BY <2>7, <2>9, <2>10, <2>11, <3>2, <4>1, <4>2 DEF Balanced, Invested
    <3>5. PICK n \in Nat : n = Len(a.closed)
      BY <2>9
    <3>6. /\ DOMAIN a.closed = 1 .. n /\ DOMAIN b.closed = 1 .. n + 1
          /\ \A i \in 1 .. n : b.closed[i] = a.closed[i]
          /\ b.closed[n + 1] = trade
      BY <2>9, <3>2, <3>5
    <3>7. /\ p.placed < p.openedAt /\ p.openedAt <= t /\ Start(w) <= p.placed
          /\ a.order = None
          /\ \A i \in 1 .. n : a.closed[i].exited <= p.placed
      BY <1>4, <2>2, <3>6 DEF AccountOk, Timely
    <3>8. TradeTimely(trade, w, t)
      BY <2>4, <2>8, <3>7 DEF TradeTimely
    <3>9. \A i \in 1 .. n + 1 : TradeTimely(b.closed[i], w, t)
      <4>1. \A i \in 1 .. n : TradeTimely(a.closed[i], w, t)
        BY <3>6 DEF AccountOk, Timely
      <4>2. \A i \in 1 .. n + 1 : i = n + 1 \/ i \in 1 .. n
        OBVIOUS
      <4> QED
        BY <3>6, <3>8, <4>1, <4>2
    <3>10. \A i, j \in 1 .. n + 1 : i < j => b.closed[i].exited <= b.closed[j].placed
      <4>1. SUFFICES ASSUME NEW i \in 1 .. n + 1, NEW j \in 1 .. n + 1, i < j
                     PROVE  b.closed[i].exited <= b.closed[j].placed
        OBVIOUS
      <4>2. i \in 1 .. n /\ (j = n + 1 \/ j \in 1 .. n)
        BY <4>1
      <4>3. CASE j = n + 1
        BY <2>8, <3>6, <3>7, <4>2, <4>3
      <4>4. CASE j \in 1 .. n
        BY <3>6, <4>1, <4>2, <4>4 DEF AccountOk, Timely
      <4> QED
        BY <4>2, <4>3, <4>4
    <3>11. Timely(b, w, t)
      BY <3>2, <3>6, <3>7, <3>9, <3>10 DEF Timely
    <3> QED
      BY <1>1, <3>2, <3>3, <3>4, <3>11 DEF AccountOk
  <2> QED
    BY <2>12, <2>13
<1> QED
  BY <1>3, <1>4

Candles == [open : Int, high : Int, low : Int, close : Int]

LEMMA LaterKeeps ==
    ASSUME NEW s, NEW w, NEW now \in Int, NEW t \in Int, now <= t,
           NEW a, AccountOk(a, s, w, now)
    PROVE  AccountOk(a, s, w, t)
<1>1. a \in AccountsOf(s) /\ a.closed \in Seq(TradesOf(s))
  BY DEF AccountOk, AccountsOf
<1>2. \A i \in DOMAIN a.closed : a.closed[i].exited \in Int
  <2>1. \A i \in DOMAIN a.closed : a.closed[i] \in TradesOf(s)
    BY <1>1
  <2> QED
    BY <2>1 DEF TradesOf
<1>3. a.position # None => a.position.openedAt \in Int
  BY <1>1 DEF AccountsOf, Positions
<1>4. a.order # None => a.order.placed \in Int
  BY <1>1 DEF AccountsOf, Waiting
<1>5. Timely(a, w, now)
  BY DEF AccountOk
<1>6. \A i \in DOMAIN a.closed : TradeTimely(a.closed[i], w, t)
  BY <1>2, <1>5 DEF Timely, TradeTimely
<1>7. a.position # None => a.position.openedAt <= t
  BY <1>3, <1>5 DEF Timely
<1>8. a.order # None => a.order.placed <= t
  BY <1>4, <1>5 DEF Timely
<1>9. Timely(a, w, t)
  BY <1>5, <1>6, <1>7, <1>8 DEF Timely
<1> QED
  BY <1>9 DEF AccountOk

\* An order that is filled becomes the position, paid from free cash, or is cancelled.
LEMMA EnterKeeps ==
    ASSUME NEW s \in Pairs, NEW w \in Windows, NEW t \in Nat,
           NEW a, AccountOk(a, s, w, t), a.order # None => a.order.placed < t,
           NEW c \in Candles
    PROVE  AccountOk(Enter(a, c, t), s, w, t)
<1>1. PICK b : b = Enter(a, c, t)
  OBVIOUS
<1>2. a \in AccountsOf(s) /\ Timely(a, w, t) /\ Balanced(a)
  BY DEF AccountOk
<1>3. CASE b = a
  BY <1>1, <1>3
<1>4. CASE b # a
  <2>1. a.order # None /\ a.position = None
    BY <1>1, <1>2, <1>4 DEF Enter, Timely
  <2>2. PICK o \in Waiting : o = a.order
    BY <1>2, <2>1 DEF AccountsOf
  <2>3. PICK x \in Int : x = FillPrice(o, c)
    BY DEF FillPrice, Candles, Waiting
  <2>4. PICK p : p = [direction |-> o.direction, quantity |-> o.quantity, stop |-> o.stop,
                      target |-> o.target, placed |-> o.placed, entry |-> x, openedAt |-> t]
    OBVIOUS
  <2>5. p \in Positions /\ p # None /\ p.openedAt = t /\ p.placed = o.placed
    <3>1. p \in Positions
      BY <2>2, <2>3, <2>4 DEF Positions, Waiting
    <3> QED
      BY <2>4, <3>1, BacktestAssumption DEF Positions
  <2>6. Size(p) \in Int /\ a.free \in Int
    BY <1>2, <2>5, CostsAreInt DEF Positions, AccountsOf
  <2>7. \/ b = [a EXCEPT !.order = None]
        \/ b = [a EXCEPT !.order = None, !.position = p, !.free = a.free - Size(p)]
    BY <1>1, <1>4, <2>2, <2>3, <2>4 DEF Enter
  <2>8. CASE b = [a EXCEPT !.order = None]
    <3>1. /\ b \in AccountsOf(s) /\ b.order = None /\ b.position = None
          /\ b.free = a.free /\ b.closed = a.closed
      BY <1>2, <2>1, <2>8 DEF AccountsOf
    <3>2. Timely(b, w, t)
      BY <1>2, <3>1 DEF Timely
    <3>3. Balanced(b)
      BY <1>2, <2>1, <3>1 DEF Balanced, Invested
    <3> QED
      BY <1>1, <3>1, <3>2, <3>3 DEF AccountOk
  <2>9. CASE b = [a EXCEPT !.order = None, !.position = p, !.free = a.free - Size(p)]
    <3>1. /\ b \in AccountsOf(s) /\ b.order = None /\ b.position = p
          /\ b.free = a.free - Size(p) /\ b.closed = a.closed
      <4>1. a.free - Size(p) \in Int
        BY <2>6
      <4>2. PICK cash \in Int : cash = a.free - Size(p)
        BY <4>1
      <4>3. b = [a EXCEPT !.order = None, !.position = p, !.free = cash]
        BY <2>9, <4>2
      <4> QED
        BY <1>2, <2>5, <4>2, <4>3 DEF AccountsOf
    <3>2. /\ o.placed < t /\ Start(w) <= o.placed
          /\ \A i \in DOMAIN a.closed : a.closed[i].exited <= o.placed
      BY <1>2, <2>1, <2>2 DEF Timely
    <3>3. Timely(b, w, t)
      BY <1>2, <2>5, <3>1, <3>2 DEF Timely
    <3>4. a.free = InitialCapital + NetGain(a.closed)
      BY <1>2, <2>1, <2>6 DEF Balanced, Invested
    <3>5. Balanced(b)
      BY <2>5, <2>6, <3>1, <3>4 DEF Balanced, Invested
    <3> QED
      BY <1>1, <3>1, <3>3, <3>5 DEF AccountOk
  <2> QED
    BY <2>7, <2>8, <2>9
<1> QED
  BY <1>3, <1>4

LEMMA ExitsArePriced ==
    ASSUME NEW p \in Positions, NEW c \in Candles, NEW inside
    PROVE  /\ \A x \in OpeningExit(p, c) : x.price \in Int /\ x.reason \in CloseReasons
           /\ \A x \in IntrabarExit(p, c, inside) : x.price \in Int /\ x.reason \in CloseReasons
<1>1. /\ c.open \in Int /\ p.stop \in Int /\ p.target \in Int
      /\ {"STOP_LOSS", "TAKE_PROFIT"} = CloseReasons
  BY DEF Candles, Positions, CloseReasons
<1>2. \A x \in OpeningExit(p, c) : x.price \in Int /\ x.reason \in CloseReasons
  BY <1>1 DEF OpeningExit, Exit
<1>3. \A x \in RangeExit(p, c, inside) : x.price \in Int /\ x.reason \in CloseReasons
  BY <1>1 DEF RangeExit, Exit
<1> QED
  BY <1>2, <1>3 DEF IntrabarExit

\* A candle may fill the order, and close the position at its open or inside it.
LEMMA TickKeeps ==
    ASSUME NEW s \in Pairs, NEW w \in Windows, NEW last \in Int, NEW t \in Nat,
           last < t, t < End(w), NEW a, AccountOk(a, s, w, last),
           NEW r, r \subseteq Settlements[s], NEW c \in Candles
    PROVE  AccountOk(Tick(a, s, r, c, t), s, w, t)
<1>1. AccountOk(a, s, w, t) /\ (a.order # None => a.order.placed < t)
  <2>1. a.order # None => a.order.placed \in Int /\ a.order.placed <= last
    BY DEF AccountOk, Timely, AccountsOf, Waiting
  <2> QED
    BY <2>1, LaterKeeps
<1>2. c.open \in Int /\ c.close \in Int
  BY DEF Candles
<1>3. PICK m : m = Mark(a, c.open)
  OBVIOUS
<1>4. AccountOk(m, s, w, t) /\ m.order = a.order
  <2>1. PICK price \in Int : price = c.open
    BY <1>2
  <2>2. m = Mark(a, price) /\ AccountOk(a, s, w, t)
    BY <1>1, <1>3, <2>1
  <2> QED
    BY <2>2, MarkKeeps
<1>5. PICK left : left = Leave(m, s, r, OpenExits(m, c), t)
  OBVIOUS
<1>6. AccountOk(left, s, w, t) /\ left.order = a.order
  <2>1. m.position # None => m.position \in Positions
    BY <1>4 DEF AccountOk, AccountsOf
  <2>2. \A x \in OpenExits(m, c) : x.price \in Int /\ x.reason \in CloseReasons
    BY <2>1, ExitsArePriced DEF OpenExits
  <2>3. OpenExits(m, c) # {} => m.position # None
    BY DEF OpenExits
  <2> QED
    BY <1>4, <1>5, <2>2, <2>3, LeaveKeeps
<1>7. PICK inside : inside = (left.order # None /\ ~AtOpen(left.order, c))
  OBVIOUS
<1>8. PICK n : n = Enter(left, c, t)
  OBVIOUS
<1>9. AccountOk(n, s, w, t)
  <2>1. left.order # None => left.order.placed < t
    BY <1>1, <1>6
  <2> QED
    BY <1>6, <1>8, <2>1, EnterKeeps
<1>10. PICK exits : exits = InnerExits(n, c, inside /\ n.position # None)
  OBVIOUS
<1>11. PICK parted : parted = Leave(n, s, r, exits, t)
  OBVIOUS
<1>12. AccountOk(parted, s, w, t)
  <2>1. n.position # None => n.position \in Positions
    BY <1>9 DEF AccountOk, AccountsOf
  <2>2. \A x \in exits : x.price \in Int /\ x.reason \in CloseReasons
    BY <1>10, <2>1, ExitsArePriced DEF InnerExits
  <2>3. exits # {} => n.position # None
    BY <1>10 DEF InnerExits
  <2> QED
    BY <1>9, <1>11, <2>2, <2>3, LeaveKeeps
<1>13. Tick(a, s, r, c, t) = Mark(parted, c.close)
  BY <1>3, <1>5, <1>7, <1>8, <1>10, <1>11 DEF Tick
<1> QED
  BY <1>2, <1>12, <1>13, MarkKeeps

LEMMA ObserveKeeps ==
    ASSUME NEW s, NEW w, NEW now, NEW a, AccountOk(a, s, w, now)
    PROVE  /\ AccountOk(Observe(a), s, w, now)
           /\ Observe(a).order = a.order /\ Observe(a).position = a.position
<1>1. PICK b : b = Observe(a)
  OBVIOUS
<1>2. a \in AccountsOf(s)
  BY DEF AccountOk
<1>3. /\ b \in AccountsOf(s)
      /\ b.free = a.free /\ b.closed = a.closed /\ b.position = a.position
      /\ b.order = a.order
  BY <1>1, <1>2 DEF Observe, AccountsOf
<1> QED
  BY <1>1, <1>3, SameHoldings

\* An order is placed only without a position, after every trade so far.
LEMMA PlaceOrderKeeps ==
    ASSUME NEW s, NEW w, NEW t \in Int, Start(w) <= t, NEW a, AccountOk(a, s, w, t),
           NEW o, o \in Orders \cup {None}
    PROVE  AccountOk(PlaceOrder(a, o, t), s, w, t)
<1>1. PICK b : b = PlaceOrder(a, o, t)
  OBVIOUS
<1>2. a \in AccountsOf(s) /\ Timely(a, w, t) /\ Balanced(a)
  BY DEF AccountOk
<1>3. CASE ~Commits(a, o)
  BY <1>1, <1>3 DEF PlaceOrder
<1>4. CASE Commits(a, o)
  <2>1. a.position = None /\ o \in Orders
    BY <1>4 DEF Commits
  <2>2. PICK n : n = [direction |-> o.direction, entry |-> o.entry, quantity |-> o.quantity,
                      stop |-> o.stop, target |-> o.target, placed |-> t]
    OBVIOUS
  <2>3. n \in Waiting /\ n.placed = t
    BY <2>1, <2>2 DEF Orders, Waiting
  <2>4. b = [a EXCEPT !.order = n]
    BY <1>1, <1>4, <2>2 DEF PlaceOrder
  <2>5. /\ b \in AccountsOf(s) /\ b.order = n /\ b.position = None
        /\ b.free = a.free /\ b.closed = a.closed
    BY <1>2, <2>1, <2>3, <2>4 DEF AccountsOf
  <2>6. \A i \in DOMAIN a.closed : a.closed[i].exited <= t
    BY <1>2 DEF Timely, TradeTimely
  <2>7. Timely(b, w, t)
    BY <1>2, <2>3, <2>5, <2>6 DEF Timely
  <2>8. Balanced(b)
    BY <1>2, <2>1, <2>5 DEF Balanced, Invested
  <2> QED
    BY <1>1, <2>5, <2>7, <2>8 DEF AccountOk
<1> QED
  BY <1>3, <1>4

LEMMA PlayCandleKeeps ==
    ASSUME PipelineDecides, strategy \in Strategies,
           NEW s \in Pairs, NEW w \in Windows, NEW last \in Int, NEW t \in Nat,
           last < t, Start(w) <= t, t < End(w), NEW a, AccountOk(a, s, w, last),
           NEW d \in DataSets, d.rates \subseteq Settlements[s], Quotes[s][t] \in Candles
    PROVE  AccountOk(PlayCandle(a, s, d, t), s, w, t)
<1>1. PICK b : b = Tick(a, s, d.rates, Quotes[s][t], t)
  OBVIOUS
<1>2. AccountOk(b, s, w, t)
  BY <1>1, TickKeeps
<1>3. PICK o : o = Observe(b)
  OBVIOUS
<1>4. AccountOk(o, s, w, t)
  BY <1>2, <1>3, ObserveKeeps
<1>5. o \in AccountsOf(s)
  BY <1>4 DEF AccountOk
<1>6. PICK e : e = Decide(strategy, View(d, t), o)
  OBVIOUS
<1>7. e \in Orders \cup {None}
  BY <1>5, <1>6 DEF PipelineDecides
<1>8. AccountOk(PlaceOrder(o, e, t), s, w, t)
  BY <1>4, <1>7, PlaceOrderKeeps
<1>9. PlayCandle(a, s, d, t) = IF b.raised THEN b ELSE PlaceOrder(o, e, t)
  BY <1>1, <1>3, <1>6 DEF PlayCandle
<1> QED
  BY <1>2, <1>8, <1>9

LEMMA FreshIsOk ==
    ASSUME NEW s, NEW w, NEW now
    PROVE  AccountOk(Fresh, s, w, now)
<1>1. /\ Fresh.free = InitialCapital /\ Fresh.total = InitialCapital
      /\ Fresh.peak = InitialCapital /\ Fresh.position = None /\ Fresh.order = None
      /\ Fresh.closed = <<>> /\ Fresh.raised = FALSE
  BY DEF Fresh
<1>2. <<>> \in Seq(TradesOf(s)) /\ InitialCapital \in Int /\ DOMAIN <<>> = {} /\ Len(<<>>) = 0
  BY MoneyIsInt
<1>3. Fresh \in AccountsOf(s)
  BY <1>2 DEF Fresh, AccountsOf
<1>4. Timely(Fresh, w, now)
  BY <1>1, <1>2 DEF Timely
<1>5. NetGain(<<>>) = 0
  BY <1>2, SumToZero DEF NetGain
<1>6. Balanced(Fresh)
  BY <1>1, <1>2, <1>5 DEF Balanced, Invested
<1> QED
  BY <1>3, <1>4, <1>6 DEF AccountOk

-----------------------------------------------------------------------------
(* The report is sorted                                                    *)

Dated(list, n) ==
    /\ n \in Nat /\ DOMAIN list = 1 .. n
    /\ \A i \in 1 .. n : list[i].exited \in Int /\ list[i].entered \in Int

\* The sorted list is the same trades, each once, in the order of the report;
\* trades that exit and enter together keep their order.
LEMMA SortedIsInOrder ==
    ASSUME NEW list, NEW n, Dated(list, n)
    PROVE  \E p \in [1 .. n -> 1 .. n] :
               /\ Sorted(list) = [k \in 1 .. n |-> list[p[k]]]
               /\ \A k, m \in 1 .. n : k < m =>
                     p[k] # p[m] /\ ~ByExit(list[p[m]], list[p[k]])
<1>1. PICK less : less = {q \in (1 .. n) \X (1 .. n) : ByExit(list[q[1]], list[q[2]])}
  OBVIOUS
<1>2. \A i, j \in 1 .. n : <<i, j>> \in less <=> ByExit(list[i], list[j])
  BY <1>1
<1>3. IsLess(less, n)
  <2>1. \A i, j \in 1 .. n : ByExit(list[i], list[j]) => ~ByExit(list[j], list[i])
    BY DEF ByExit, Dated
  <2>2. \A i, j, k \in 1 .. n :
           ~ByExit(list[i], list[j]) /\ ~ByExit(list[j], list[k]) => ~ByExit(list[i], list[k])
    BY DEF ByExit, Dated
  <2> QED
    BY <1>2, <2>1, <2>2 DEF IsLess, Dated
<1>4. Sorted(list) = StableSort(list, less)
  BY <1>1 DEF Sorted, Dated
<1>5. PICK p \in [1 .. n -> 1 .. n] :
          /\ StableSort(list, less) = Reordered(list, p)
          /\ \A k, m \in 1 .. n : k < m => SortsBefore(less, p[k], p[m])
  BY <1>3, StableSortIsInOrder DEF Dated
<1>6. ASSUME NEW k \in 1 .. n, NEW m \in 1 .. n, k < m
      PROVE  p[k] # p[m] /\ ~ByExit(list[p[m]], list[p[k]])
  <2>1. SortsBefore(less, p[k], p[m])
    BY <1>5, <1>6
  <2>2. <<p[m], p[k]>> \notin less /\ p[k] # p[m]
    BY <1>3, <2>1, SortsBeforeIsAnOrder
  <2> QED
    BY <1>2, <2>2
<1>7. Sorted(list) = [k \in 1 .. n |-> list[p[k]]]
  BY <1>4, <1>5 DEF Reordered
<1> QED
  BY <1>6, <1>7

-----------------------------------------------------------------------------
(* The report adds up                                                      *)

\* The trades of the symbols before the n-th, in the order of their exits each.
TradesSoFar(list, n, w) ==
    /\ list \in Seq(UNION {TradesOf(s) : s \in Pairs})
    /\ \A i \in DOMAIN list :
          list[i].symbol < n /\ TradeTimely(list[i], w, list[i].exited)
    /\ \A i, j \in DOMAIN list : i < j /\ list[i].symbol = list[j].symbol =>
          list[i].exited <= list[j].placed

SimulationInv ==
    /\ strategy \in Strategies
    /\ Balanced(account)
    /\ stage \in {"Funding", "Context", "Candles"} => trades = <<>>
    /\ stage = "Simulate" => TradesSoFar(trades, job, window)
    /\ Simulating => AccountOk(account, job, window, clock)
    /\ TradesSound

LEMMA NoTrades ==
    ASSUME NEW n, NEW w
    PROVE  TradesSoFar(<<>>, n, w)
<1>1. <<>> \in Seq(UNION {TradesOf(s) : s \in Pairs}) /\ DOMAIN <<>> = {}
  OBVIOUS
<1> QED
  BY <1>1 DEF TradesSoFar

\* A symbol that is done adds its trades behind those of the symbols before it.
LEMMA TradesOfNext ==
    ASSUME NEW n \in Pairs, NEW w, NEW now, NEW list, TradesSoFar(list, n, w),
           NEW a, AccountOk(a, n, w, now)
    PROVE  TradesSoFar(list \o a.closed, n + 1, w)
<1>1. PICK S : S = UNION {TradesOf(s) : s \in Pairs}
  OBVIOUS
<1>2. list \in Seq(S) /\ a.closed \in Seq(TradesOf(n)) /\ n \in Int
  BY <1>1 DEF TradesSoFar, AccountOk, AccountsOf, Pairs
<1>3. PICK b \in Seq(TradesOf(n)) : b = a.closed
  BY <1>2
<1>4. TradesOf(n) \subseteq S
  BY <1>1
<1>5. b \in Seq(S)
  BY <1>4
<1>6. PICK l \in Nat, m \in Nat : l = Len(list) /\ m = Len(b)
  BY <1>2
<1>7. PICK c : c = list \o b
  OBVIOUS
<1>8. /\ c \in Seq(S) /\ DOMAIN c = 1 .. l + m /\ DOMAIN list = 1 .. l /\ DOMAIN b = 1 .. m
      /\ \A i \in 1 .. l + m : c[i] = IF i <= l THEN list[i] ELSE b[i - l]
  BY <1>2, <1>5, <1>6, <1>7
<1>9. \A i \in 1 .. l : list[i] \in S /\ list[i].symbol < n /\ list[i].symbol \in Int
  <2>1. \A x \in S : x.symbol \in Int
    BY <1>1 DEF TradesOf, Pairs
  <2>2. \A i \in 1 .. l : list[i] \in S
    BY <1>2, <1>8
  <2>3. \A i \in 1 .. l : list[i].symbol < n
    BY <1>8 DEF TradesSoFar
  <2> QED
    BY <2>1, <2>2, <2>3
<1>10. \A i \in 1 .. m : b[i].symbol = n /\ b[i].exited \in Int
  <2>1. \A i \in 1 .. m : b[i] \in TradesOf(n)
    BY <1>8
  <2> QED
    BY <2>1 DEF TradesOf
<1>11. \A i \in 1 .. l + m : i \in 1 .. l \/ (i - l \in 1 .. m /\ ~(i <= l))
  OBVIOUS
<1>12. ASSUME NEW i \in 1 .. l + m
       PROVE  c[i].symbol < n + 1 /\ TradeTimely(c[i], w, c[i].exited)
  <2>1. CASE i \in 1 .. l
    <3>1. c[i] = list[i] /\ list[i].symbol < n /\ list[i].symbol \in Int
      BY <1>8, <1>9, <2>1
    <3>2. TradeTimely(list[i], w, list[i].exited)
      BY <1>8, <2>1 DEF TradesSoFar
    <3> QED
      BY <1>2, <3>1, <3>2
  <2>2. CASE i - l \in 1 .. m /\ ~(i <= l)
    <3>1. PICK k \in 1 .. m : k = i - l
      BY <2>2
    <3>2. c[i] = b[k] /\ b[k].symbol = n /\ b[k].exited \in Int
      BY <1>8, <1>10, <2>2, <3>1
    <3>3. TradeTimely(b[k], w, now)
      BY <1>3, <1>8 DEF AccountOk, Timely
    <3>4. TradeTimely(b[k], w, b[k].exited)
      BY <3>2, <3>3 DEF TradeTimely
    <3> QED
      BY <1>2, <3>2, <3>4
  <2> QED
    BY <1>11, <2>1, <2>2
<1>13. ASSUME NEW i \in 1 .. l + m, NEW j \in 1 .. l + m, i < j, c[i].symbol = c[j].symbol
       PROVE  c[i].exited <= c[j].placed
  <2>1. CASE j \in 1 .. l
    <3>1. i \in 1 .. l
      BY <1>13, <2>1
    <3>2. c[i] = list[i] /\ c[j] = list[j]
      BY <1>8, <2>1, <3>1
    <3> QED
      BY <1>8, <1>13, <2>1, <3>1, <3>2 DEF TradesSoFar
  <2>2. CASE j - l \in 1 .. m /\ ~(j <= l)
    <3>1. PICK k \in 1 .. m : k = j - l
      BY <2>2
    <3>2. c[j] = b[k] /\ c[j].symbol = n
      BY <1>8, <1>10, <2>2, <3>1
    <3>3. i \notin 1 .. l
      <4>1. i \in 1 .. l => c[i].symbol < n /\ c[i].symbol \in Int
        BY <1>8, <1>9
      <4> QED
        BY <1>2, <1>13, <3>2, <4>1
    <3>4. PICK h \in 1 .. m : h = i - l /\ ~(i <= l)
      BY <1>11, <3>3
    <3>5. c[i] = b[h] /\ h < k
      BY <1>8, <1>13, <3>1, <3>4
    <3> QED
      BY <1>3, <1>8, <3>2, <3>5 DEF AccountOk, Timely
  <2> QED
    BY <1>11, <2>1, <2>2
<1> QED
  BY <1>1, <1>3, <1>7, <1>8, <1>12, <1>13 DEF TradesSoFar

\* The report is sound when the trades of all symbols are.
LEMMA ReportKeeps ==
    ASSUME NEW n, NEW w, NEW list, TradesSoFar(list, n, w)
    PROVE  \A i, j \in DOMAIN Sorted(list) :
               LET r == Sorted(list)
               IN  /\ r[i].placed < r[i].entered /\ r[i].entered <= r[i].exited
                   /\ Start(w) <= r[i].placed /\ r[i].exited < End(w)
                   /\ i < j => /\ ~ByExit(r[j], r[i])
                               /\ r[i].symbol = r[j].symbol => r[i].exited <= r[j].placed
<1>1. PICK S : S = UNION {TradesOf(s) : s \in Pairs}
  OBVIOUS
<1>2. PICK l \in Nat : l = Len(list) /\ DOMAIN list = 1 .. l
  BY DEF TradesSoFar
<1>3. \A i \in 1 .. l : list[i] \in S
  BY <1>1, <1>2 DEF TradesSoFar
<1>4. \A x \in S : x.exited \in Int /\ x.entered \in Int /\ x.placed \in Int
  BY <1>1 DEF TradesOf
<1>5. Dated(list, l)
  BY <1>2, <1>3, <1>4 DEF Dated
<1>6. PICK p \in [1 .. l -> 1 .. l] :
          /\ Sorted(list) = [k \in 1 .. l |-> list[p[k]]]
          /\ \A k, m \in 1 .. l : k < m => p[k] # p[m] /\ ~ByExit(list[p[m]], list[p[k]])
  BY <1>5, SortedIsInOrder
<1>7. PICK r : r = Sorted(list)
  OBVIOUS
<1>8. DOMAIN r = 1 .. l /\ \A k \in 1 .. l : r[k] = list[p[k]] /\ p[k] \in 1 .. l
  BY <1>6, <1>7
<1>9. ASSUME NEW i \in 1 .. l
      PROVE  /\ r[i].placed < r[i].entered /\ r[i].entered <= r[i].exited
             /\ Start(w) <= r[i].placed /\ r[i].exited < End(w)
  BY <1>2, <1>8 DEF TradesSoFar, TradeTimely
<1>10. ASSUME NEW i \in 1 .. l, NEW j \in 1 .. l, i < j
       PROVE  /\ ~ByExit(r[j], r[i])
              /\ r[i].symbol = r[j].symbol => r[i].exited <= r[j].placed
  <2>1. PICK g \in 1 .. l, h \in 1 .. l :
            g = p[i] /\ h = p[j] /\ r[i] = list[g] /\ r[j] = list[h]
    BY <1>8, <1>10
  <2>2. ~ByExit(list[h], list[g]) /\ g # h
    BY <1>6, <1>10, <2>1
  <2>3. ASSUME list[g].symbol = list[h].symbol
        PROVE  list[g].exited <= list[h].placed
    <3>1. CASE g < h
      BY <1>2, <2>3, <3>1 DEF TradesSoFar
    <3>2. CASE h < g
      <4>1. list[h].exited <= list[g].placed
        BY <1>2, <2>3, <3>2 DEF TradesSoFar
      <4>2. list[g].placed < list[g].entered /\ list[g].entered <= list[g].exited
        BY <1>2 DEF TradesSoFar, TradeTimely
      <4>3. list[h].exited < list[g].exited
        BY <1>3, <1>4, <4>1, <4>2
      <4>4. ByExit(list[h], list[g])
        BY <4>3 DEF ByExit
      <4> QED
        BY <2>2, <4>4
    <3> QED
      BY <2>2, <3>1, <3>2
  <2> QED
    BY <2>1, <2>2, <2>3
<1> QED
  BY <1>7, <1>8, <1>9, <1>10

LEMMA SimulationInit ==
    ASSUME Init
    PROVE  SimulationInv
<1>1. /\ stage = "Idle" /\ trades = <<>> /\ account = Fresh /\ strategy \in Strategies
      /\ DOMAIN <<>> = {}
  BY DEF Init, NoData
<1>2. Balanced(Fresh)
  BY FreshIsOk DEF AccountOk
<1> QED
  BY <1>1, <1>2 DEF SimulationInv, Simulating, TradesSound

LEMMA FetchingKeeps ==
    ASSUME DataInv, PlayedSoFar, SimulationInv, Fetching, UNCHANGED simVars
    PROVE  SimulationInv'
<1>1. stage \in {"Funding", "Context", "Candles"} /\ window' = window
  BY DEF Fetching, FundingPage, NextSymbol, FundingFetched, FundingFails, FetchContext,
         KeepContext, ContextFetched, CandlePage, CandlePageFails, KeepCandles,
         CandlesFetched, GoTo, StoreSeries
<1>2. stage' \in {"Funding", "Context", "Candles", "Simulate"}
  BY <1>1 DEF Fetching, FundingPage, NextSymbol, FundingFetched, FundingFails, FetchContext,
         KeepContext, ContextFetched, CandlePage, CandlePageFails, KeepCandles,
         CandlesFetched, GoTo, StoreSeries
<1>3. trades = <<>> /\ account = Fresh
  BY <1>1 DEF SimulationInv, PlayedSoFar
<1>4. trades' = <<>> /\ account' = Fresh /\ strategy' \in Strategies
  BY <1>3 DEF simVars, SimulationInv
<1>5. PICK n, w, now : n = job' /\ w = window' /\ now = clock'
  OBVIOUS
<1>6. TradesSoFar(<<>>, n, w)
  BY NoTrades
<1>7. AccountOk(Fresh, n, w, now) /\ Balanced(Fresh)
  BY FreshIsOk DEF AccountOk
<1> QED
  BY <1>2, <1>4, <1>5, <1>6, <1>7 DEF SimulationInv, Simulating, TradesSound

LEMMA PlayKeeps ==
    ASSUME PipelineDecides, DataInv, GivenInv, PlayedSoFar, SimulationInv, Play
    PROVE  SimulationInv'
<1>1. /\ stage = "Simulate" /\ job \in Pairs /\ LeftToPlay # {} /\ window \in Windows
      /\ UNCHANGED <<window, strategy, stage, job, trades>>
  BY DEF Play, Simulating, DataInv, Pairs, dataVars, fetching, kept
<1>2. /\ Data(job) \in DataSets
      /\ Data(job).candles \subseteq CandleTimes[job][1]
      /\ Data(job).rates \subseteq Settlements[job]
  BY <1>1, DataIsTyped
<1>3. PICK d : d = Data(job)
  OBVIOUS
<1>4. PICK t : t = Min(LeftToPlay)
  OBVIOUS
<1>5. t \in LeftToPlay
  <2>1. \A u \in LeftToPlay : u \in Nat
    BY <1>2 DEF LeftToPlay, InWindow, DataSets
  <2>2. LeftToPlay \in SUBSET Nat
    BY <2>1
  <2> QED
    BY <1>1, <1>4, <2>2, EarliestTime
<1>6. /\ t \in d.candles /\ Start(window) <= t /\ t < End(window) /\ clock < t /\ t \in Nat
      /\ t \in CandleTimes[job][1]
  <2>1. t \in d.candles /\ Start(window) <= t /\ t < End(window) /\ t > clock
    BY <1>3, <1>5 DEF LeftToPlay, InWindow
  <2>2. t \in Nat /\ clock \in Int
    BY <1>2, <1>3, <2>1 DEF DataSets, PlayedSoFar, NotYet
  <2> QED
    BY <1>2, <1>3, <2>1, <2>2
<1>7. Quotes[job][t] \in Candles /\ clock \in Int
  BY <1>1, <1>6, BacktestAssumption DEF Candles, PlayedSoFar, NotYet
<1>8. AccountOk(account, job, window, clock) /\ strategy \in Strategies
  BY <1>1 DEF SimulationInv, Simulating, Pairs
<1>9. PICK b : b = PlayCandle(account, job, d, t)
  OBVIOUS
<1>10. AccountOk(b, job, window, t)
  BY <1>1, <1>2, <1>3, <1>6, <1>7, <1>8, <1>9, PlayCandleKeeps
<1>11. account' = b /\ clock' = t
  BY <1>3, <1>4, <1>9 DEF Play
<1>12. PICK n, w : n = job /\ w = window
  OBVIOUS
<1>13. /\ AccountOk(account', n, w, t) /\ Balanced(account') /\ TradesSoFar(trades', n, w)
       /\ n = job' /\ w = window'
  BY <1>1, <1>10, <1>11, <1>12 DEF AccountOk, SimulationInv
<1> QED
  BY <1>1, <1>8, <1>11, <1>13 DEF SimulationInv, Simulating, TradesSound

LEMMA NextSimulationKeeps ==
    ASSUME DataInv, SimulationInv, NextSimulation
    PROVE  SimulationInv'
<1>1. /\ stage = "Simulate" /\ job \in Pairs /\ UNCHANGED <<window, strategy, stage>>
      /\ trades' = trades \o account.closed /\ account' = Fresh /\ clock' = NotYet
      /\ job' = job + 1
  BY DEF NextSimulation, Simulating, DataInv, Pairs
<1>2. AccountOk(account, job, window, clock) /\ TradesSoFar(trades, job, window)
  BY <1>1 DEF SimulationInv, Simulating, Pairs
<1>3. PICK n, w : n = job + 1 /\ w = window
  OBVIOUS
<1>4. TradesSoFar(trades \o account.closed, n, w)
  BY <1>1, <1>2, <1>3, TradesOfNext
<1>5. AccountOk(Fresh, n, w, NotYet) /\ Balanced(Fresh)
  BY FreshIsOk DEF AccountOk
<1>6. PICK l : l = trades \o account.closed
  OBVIOUS
<1>7. /\ trades' = l /\ job' = n /\ window' = w /\ TradesSoFar(l, n, w)
      /\ strategy' \in Strategies
  BY <1>1, <1>3, <1>4, <1>6 DEF SimulationInv
<1> QED
  BY <1>1, <1>5, <1>7 DEF SimulationInv, Simulating, TradesSound

LEMMA SimulationStep ==
    ASSUME PipelineDecides, DataInv, GivenInv, PlayedSoFar, SimulationInv, [Next]_btVars
    PROVE  SimulationInv'
<1>1. CASE StartRun
  <2>1. /\ stage' = "Funding" /\ trades' = <<>> /\ account' = Fresh /\ strategy' \in Strategies
    BY <1>1 DEF StartRun, Run, SimulationInv
  <2>2. Balanced(Fresh)
    BY FreshIsOk DEF AccountOk
  <2> QED
    BY <2>1, <2>2 DEF SimulationInv, Simulating, TradesSound
<1>2. CASE Fetching /\ UNCHANGED simVars
  BY <1>2, FetchingKeeps
<1>3. CASE Play
  BY <1>3, PlayKeeps
<1>4. CASE NextSimulation
  BY <1>4, NextSimulationKeeps
<1>5. CASE Report
  <2>1. /\ TradesSoFar(trades, job, window) /\ UNCHANGED <<window, strategy, account>>
        /\ stage' = "Idle" /\ trades' = Sorted(trades)
    BY <1>5 DEF Report, SimulationInv
  <2>2. PICK l, n, w : l = trades /\ n = job /\ w = window
    OBVIOUS
  <2>3. trades' = Sorted(l) /\ TradesSoFar(l, n, w) /\ window' = w
    BY <2>1, <2>2
  <2>4. TradesSound'
    <3>1. \A i, j \in DOMAIN Sorted(l) :
              LET r == Sorted(l)
              IN  /\ r[i].placed < r[i].entered /\ r[i].entered <= r[i].exited
                  /\ Start(w) <= r[i].placed /\ r[i].exited < End(w)
                  /\ i < j => /\ ~ByExit(r[j], r[i])
                              /\ r[i].symbol = r[j].symbol => r[i].exited <= r[j].placed
      BY <2>3, ReportKeeps
    <3>2. PICK r : r = Sorted(l)
      OBVIOUS
    <3>3. trades' = r /\ window' = w
      BY <2>3, <3>2
    <3> QED
      BY <3>1, <3>2, <3>3 DEF TradesSound
  <2> QED
    BY <2>1, <2>4 DEF SimulationInv, Simulating
<1>6. CASE Abort
  <2>1. stage' = "Idle" /\ trades' = <<>> /\ UNCHANGED <<strategy, account>> /\ DOMAIN <<>> = {}
    BY <1>6 DEF Abort
  <2> QED
    BY <2>1 DEF SimulationInv, Simulating, TradesSound
<1>7. CASE UNCHANGED btVars
  BY <1>7 DEF btVars, dataVars, simVars, fetching, kept, SimulationInv, Simulating, TradesSound
<1> QED
  BY <1>1, <1>2, <1>3, <1>4, <1>5, <1>6, <1>7 DEF Next

\* Whatever the pipeline decides, a backtest reports trades that can have been
\* made, and every account adds up: AccountsSound.
THEOREM AccountsAreSound == ASSUME PipelineDecides PROVE Spec => []AccountsSound
<1>1. Init => DataInv /\ GivenInv /\ PlayedSoFar /\ SimulationInv
  BY DataInit, GivenInit, PlayedInit, SimulationInit
<1>2. DataInv /\ GivenInv /\ PlayedSoFar /\ SimulationInv /\ [Next]_btVars
          => (DataInv /\ GivenInv /\ PlayedSoFar /\ SimulationInv)'
  BY DataStep, GivenStep, PlayedStep, SimulationStep
<1>3. SimulationInv => AccountsSound
  BY DEF SimulationInv, Balanced, AccountsSound, CapitalAccounted
<1> QED
  BY <1>1, <1>2, <1>3, PTL DEF Spec

-----------------------------------------------------------------------------
(* The walk-forward analysis.  SearchInv speaks of the grid search, RollInv *)
(* of the windows.                                                         *)

\* The instance's sums and sorts are this module's.
LEMMA SameOperators ==
    /\ \A w, n : W!SumTo(w, n) = SumTo(w, n)
    /\ \A list, less : W!StableSort(list, less) = StableSort(list, less)
<1>1. \A w, n : W!SumTo(w, n) = SumTo(w, n)
  BY DEF W!SumTo, SumTo
<1>2. ASSUME NEW list, NEW less
      PROVE  W!StableSort(list, less) = StableSort(list, less)
  BY DEF W!StableSort, StableSort, W!SortsBefore, SortsBefore, W!Cardinality, Cardinality
<1> QED
  BY <1>1, <1>2

-----------------------------------------------------------------------------
(* Reports have numbers                                                    *)

LEMMA SumOfIntegers ==
    ASSUME NEW n \in Nat, NEW f \in [1 .. n -> Int]
    PROVE  Len(f) = n /\ W!Sum(f) \in Int
<1>1. Len(f) = n
  OBVIOUS
<1>2. SumTo(f, n) \in Int
  BY SumToInt
<1> QED
  BY <1>1, <1>2, SameOperators DEF W!Sum

LEMMA QuotientIsInteger ==
    ASSUME NEW a \in Int, NEW b \in Nat, b > 0
    PROVE  W!Quot(a, b) \in Int
BY DEF W!Quot

LEMMA MeanIsInteger ==
    ASSUME NEW n \in Nat, n > 0, NEW f \in [1 .. n -> Int]
    PROVE  W!Mean(f) \in Int
BY SumOfIntegers, QuotientIsInteger DEF W!Mean

\* The pairs of places of a list whose first trade ended before the second.
Ended(list) ==
    {q \in (DOMAIN list) \X (DOMAIN list) : W!EndsBefore(list[q[1]], list[q[2]])}

\* Ended is an order of the places of a list, and sorts it.
LEMMA TradesAreOrdered ==
    ASSUME NEW list \in Seq(W!ClosedTrade), NEW n, n = Len(list)
    PROVE  /\ n \in Nat /\ DOMAIN list = 1 .. n /\ IsLess(Ended(list), n)
           /\ W!Chronological(list) = StableSort(list, Ended(list))
           /\ \A i, j \in 1 .. n : <<i, j>> \in Ended(list) <=> W!EndsBefore(list[i], list[j])
<1>1. n \in Nat /\ DOMAIN list = 1 .. n
  OBVIOUS
<1>2. PICK less : less = {q \in (1 .. n) \X (1 .. n) : W!EndsBefore(list[q[1]], list[q[2]])}
  OBVIOUS
<1>3. \A i, j \in 1 .. n : <<i, j>> \in less <=> W!EndsBefore(list[i], list[j])
  BY <1>2
<1>4. \A i \in 1 .. n : W!EndOf(list[i]) \in Int /\ list[i].entered \in Int
  <2>1. \A i \in 1 .. n : list[i] \in W!ClosedTrade
    BY <1>1
  <2> QED
    BY <2>1 DEF W!ClosedTrade, W!EndOf
<1>5. IsLess(less, n)
  <2>1. \A i, j \in 1 .. n : W!EndsBefore(list[i], list[j]) => ~W!EndsBefore(list[j], list[i])
    BY <1>4 DEF W!EndsBefore
  <2>2. \A i, j, k \in 1 .. n :
           ~W!EndsBefore(list[i], list[j]) /\ ~W!EndsBefore(list[j], list[k])
               => ~W!EndsBefore(list[i], list[k])
    BY <1>4 DEF W!EndsBefore
  <2> QED
    BY <1>1, <1>3, <2>1, <2>2 DEF IsLess
<1>6. less = Ended(list)
  BY <1>1, <1>2 DEF Ended
<1>7. W!Chronological(list) = StableSort(list, less)
  BY <1>6, SameOperators DEF W!Chronological, Ended
<1> QED
  BY <1>1, <1>3, <1>5, <1>6, <1>7

\* The chronological list is the trades of the list.
LEMMA ChronologicalKeeps ==
    ASSUME NEW list \in Seq(W!ClosedTrade)
    PROVE  W!Chronological(list) \in [1 .. Len(list) -> W!ClosedTrade]
<1>1. PICK n \in Nat : n = Len(list) /\ list \in [1 .. n -> W!ClosedTrade]
  OBVIOUS
<1>2. /\ DOMAIN list = 1 .. n /\ IsLess(Ended(list), n)
      /\ W!Chronological(list) = StableSort(list, Ended(list))
  BY <1>1, TradesAreOrdered
<1> QED
  BY <1>1, <1>2, StableSortType

LEMMA ExpectancyIsInteger ==
    ASSUME NEW n \in Nat, n > 0, NEW closed \in [1 .. n -> W!ClosedTrade]
    PROVE  W!Expectancy(closed) \in Int
<1> DEFINE real == W!RealEconomics(closed)
<1>1. [i \in 1 .. n |-> closed[i].r] \in [1 .. n -> Int]
  BY DEF W!ClosedTrade
<1>2. [i \in 1 .. n |-> W!Share(closed[i], real)] \in [1 .. n -> Int]
  <2>1. SUFFICES ASSUME NEW t \in W!ClosedTrade
                 PROVE  W!Share(t, real) \in Int
    OBVIOUS
  <2>2. t.pct \in Int
    BY DEF W!ClosedTrade
  <2> QED
    BY <2>2 DEF W!Share
<1>3. DOMAIN closed = 1 .. n
  OBVIOUS
<1> QED
  BY <1>1, <1>2, <1>3, MeanIsInteger DEF W!Expectancy

LEMMA FactorIsInteger ==
    ASSUME NEW n \in Nat, NEW f \in [1 .. n -> Int]
    PROVE  W!ProfitFactor(f) \in Int
<1>1. \A sign : [i \in 1 .. n |-> IF i \in W!Of(f, sign) THEN f[i] ELSE 0] \in [1 .. n -> Int]
  OBVIOUS
<1>2. \A sign : W!Gain(f, sign) \in Int
  BY <1>1, SumOfIntegers DEF W!Gain
<1>3. W!Gain(f, 1) * 10000 \in Int /\ -W!Gain(f, -1) \in Int
  BY <1>2
<1>4. -W!Gain(f, -1) > 0 => W!Quot(W!Gain(f, 1) * 10000, -W!Gain(f, -1)) \in Int
  BY <1>3, QuotientIsInteger
<1> QED
  BY <1>3, <1>4 DEF W!ProfitFactor, W!Full, W!Infinite

LEMMA ReportHasNumbers ==
    ASSUME NEW list \in Seq(W!ClosedTrade)
    PROVE  W!analyze(list).expectancy \in Int /\ W!analyze(list).profitFactor \in Int
<1>1. CASE list = <<>>
  BY <1>1 DEF W!analyze, W!NoReport
<1>2. CASE list # <<>>
  <2>1. PICK n \in Nat : n = Len(list) /\ n > 0
    BY <1>2
  <2>2. PICK closed \in [1 .. n -> W!ClosedTrade] : closed = W!Chronological(list)
    BY <2>1, ChronologicalKeeps
  <2>3. W!Nets(closed) \in [1 .. n -> Int]
    BY DEF W!Nets, W!NetOf, W!ClosedTrade
  <2>4. W!Expectancy(closed) \in Int /\ W!ProfitFactor(W!Nets(closed)) \in Int
    BY <2>1, <2>3, ExpectancyIsInteger, FactorIsInteger
  <2>5. /\ W!analyze(list).expectancy = W!Expectancy(closed)
        /\ W!analyze(list).profitFactor = W!ProfitFactor(W!Nets(closed))
    BY <1>2, <2>2 DEF W!analyze
  <2> QED
    BY <2>4, <2>5
<1> QED
  BY <1>1, <1>2

\* Trades that are not tied make the same report in any order.
LEMMA ReportForgetsOrder ==
    ASSUME NEW list \in Seq(W!ClosedTrade), list # <<>>
    PROVE  W!OrderIsNothing(list)
<1>1. PICK n \in Nat : n = Len(list) /\ n > 0 /\ DOMAIN list = 1 .. n
  OBVIOUS
<1>2. SUFFICES ASSUME W!Untied(list), NEW p \in W!Bijection(1 .. n, 1 .. n),
                      NEW other, other = [i \in 1 .. n |-> list[p[i]]]
               PROVE  W!analyze(other) = W!analyze(list)
  BY <1>1 DEF W!OrderIsNothing
<1>3. p \in [1 .. n -> 1 .. n] /\ p \in Bijection(1 .. n, 1 .. n)
  BY DEF W!Bijection, W!Injection, W!Surjection, W!IsInjective, Bijection, Injection, Surjection,
         IsInjective
<1>4. \A i \in 1 .. n : list[i] \in W!ClosedTrade
  BY <1>1
<1>5. other \in [1 .. n -> W!ClosedTrade]
  BY <1>2, <1>3, <1>4
<1>6. other \in Seq(W!ClosedTrade) /\ Len(other) = n /\ other # <<>>
  BY <1>1, <1>5
<1>7. /\ IsLess(Ended(list), n) /\ W!Chronological(list) = StableSort(list, Ended(list))
      /\ \A i, j \in 1 .. n : <<i, j>> \in Ended(list) <=> W!EndsBefore(list[i], list[j])
  BY <1>1, TradesAreOrdered
<1>8. /\ IsLess(Ended(other), n) /\ W!Chronological(other) = StableSort(other, Ended(other))
      /\ \A i, j \in 1 .. n : <<i, j>> \in Ended(other) <=> W!EndsBefore(other[i], other[j])
      /\ DOMAIN other = 1 .. n
  BY <1>6, TradesAreOrdered
<1>9. NoneEqual(Ended(list), n)
  BY <1>1, <1>2, <1>7 DEF W!Untied, NoneEqual
<1>10. Shuffled(p, n, list, Ended(list), other, Ended(other))
  <2>1. \A i \in 1 .. n : other[i] = list[p[i]] /\ p[i] \in 1 .. n
    BY <1>2, <1>3
  <2>2. \A i, j \in 1 .. n : <<i, j>> \in Ended(other) <=> <<p[i], p[j]>> \in Ended(list)
    BY <1>7, <1>8, <2>1
  <2> QED
    BY <1>1, <1>3, <1>8, <2>1, <2>2 DEF Shuffled
<1>11. W!Chronological(other) = W!Chronological(list)
  BY <1>7, <1>8, <1>9, <1>10, SortForgetsOrder
<1> QED
  BY <1>6, <1>11 DEF W!analyze

LEMMA NothingIsZero == W!Cardinality({}) = 0
<1>1. Cardinality({}) = 0
  BY FS_EmptySet
<1> QED
  BY <1>1 DEF W!Cardinality, Cardinality

\* What the trades of one sign add up to is of that sign.
LEMMA GainsHaveSigns ==
    ASSUME NEW n \in Nat, NEW f \in [1 .. n -> Int], NEW sign \in {1, -1}
    PROVE  /\ W!Gain(f, sign) \in Int /\ sign * W!Gain(f, sign) >= 0
           /\ W!Of(f, sign) # {} => sign * W!Gain(f, sign) > 0
<1>1. \A i \in 1 .. n : i \in W!Of(f, sign) => sign * f[i] \in Nat
  BY DEF W!Of, W!SignOf
<1>2. PICK v : v = [i \in 1 .. n |-> IF i \in W!Of(f, sign) THEN f[i] ELSE 0]
  OBVIOUS
<1>3. v \in [1 .. n -> Int]
  BY <1>2
<1>4. PICK w \in [1 .. n -> Nat] :
         w = [i \in 1 .. n |-> IF i \in W!Of(f, sign) THEN sign * f[i] ELSE 0]
  BY <1>1
<1>5. W!Gain(f, sign) = SumTo(v, n) /\ SumTo(v, n) \in Int
  <2>1. Len(v) = n /\ W!Sum(v) \in Int
    BY <1>3, SumOfIntegers
  <2>2. W!Gain(f, sign) = W!Sum(v)
    BY <1>2 DEF W!Gain
  <2> QED
    BY <2>1, <2>2, SameOperators DEF W!Sum
<1>6. SumTo(w, n) = sign * SumTo(v, n)
  <2>1. \A i \in 1 .. n : v[i] \in Int /\ w[i] = sign * v[i]
    BY <1>2, <1>4, <1>3
  <2>2. sign \in Int
    OBVIOUS
  <2> QED
    BY <2>1, <2>2, SumToScale
<1>7. SumTo(w, n) \in Nat
  BY SumToNat
<1>8. ASSUME NEW i \in W!Of(f, sign)
      PROVE  SumTo(w, n) > 0
  <2>1. i \in 1 .. n /\ w[i] > 0
    BY <1>4 DEF W!Of, W!SignOf
  <2> QED
    BY <2>1, SumToPositive
<1> QED
  BY <1>5, <1>6, <1>7, <1>8

\* Won and lost make what the trades add up to.
LEMMA GainsAddUp ==
    ASSUME NEW n \in Nat, NEW f \in [1 .. n -> Int]
    PROVE  W!Sum(f) = W!Gain(f, 1) + W!Gain(f, -1)
<1>1. PICK v : v = [i \in 1 .. n |-> IF i \in W!Of(f, 1) THEN f[i] ELSE 0]
  OBVIOUS
<1>2. PICK w : w = [i \in 1 .. n |-> IF i \in W!Of(f, -1) THEN f[i] ELSE 0]
  OBVIOUS
<1>3. v \in [1 .. n -> Int] /\ w \in [1 .. n -> Int]
  BY <1>1, <1>2
<1>4. \A i \in 1 .. n : f[i] = v[i] + w[i]
  BY <1>1, <1>2 DEF W!Of, W!SignOf
<1>5. SumTo(f, n) = SumTo(v, n) + SumTo(w, n)
  BY <1>4, <1>3, SumToPlus
<1>6. W!Sum(f) = SumTo(f, n) /\ W!Sum(v) = SumTo(v, n) /\ W!Sum(w) = SumTo(w, n)
  BY <1>3, SumOfIntegers, SameOperators DEF W!Sum
<1> QED
  BY <1>1, <1>5, <1>6, <1>2 DEF W!Gain

\* Rounding a ratio toward zero does not take it across one.
LEMMA RatioAboveOne ==
    ASSUME NEW a \in Nat, NEW b \in Nat, b > 0
    PROVE  W!Quot(a * 10000, b) >= 10000 <=> a >= b
<1> DEFINE q == (a * 10000) \div b
           r == (a * 10000) % b
<1>1. q \in Int /\ r \in 0 .. b - 1 /\ a * 10000 = b * q + r
  OBVIOUS
<1>2. W!Quot(a * 10000, b) = q
  BY DEF W!Quot
<1> HIDE DEF q, r
<1>3. q >= 10000 => b * q >= b * 10000
  BY <1>1
<1>4. q <= 9999 => b * q <= b * 9999
  BY <1>1
<1> QED
  BY <1>1, <1>2, <1>3, <1>4

\* The factor is at least one just when no money was lost.
LEMMA FactorIsRight ==
    ASSUME NEW list \in Seq(W!ClosedTrade), list # <<>>
    PROVE  W!FactorAgrees(list)
<1>1. PICK n \in Nat : n = Len(list) /\ n > 0
  OBVIOUS
<1>2. PICK closed \in [1 .. n -> W!ClosedTrade] : closed = W!Chronological(list)
  BY <1>1, ChronologicalKeeps
<1>3. PICK nets \in [1 .. n -> Int] : nets = W!Nets(closed)
  BY DEF W!Nets, W!NetOf, W!ClosedTrade
<1>4. /\ W!analyze(list).profitFactor = W!ProfitFactor(nets)
      /\ W!analyze(list).wins = W!Cardinality(W!Of(nets, 1))
      /\ W!analyze(list).losses = W!Cardinality(W!Of(nets, -1))
  BY <1>2, <1>3 DEF W!analyze
<1>5. PICK won \in Int, lost \in Int : won = W!Gain(nets, 1) /\ lost = -W!Gain(nets, -1)
  BY GainsHaveSigns
<1>6. /\ won >= 0 /\ lost >= 0
      /\ W!Of(nets, 1) # {} => won > 0
      /\ W!Of(nets, -1) # {} => lost > 0
  <2>1. /\ 1 * W!Gain(nets, 1) >= 0 /\ (W!Of(nets, 1) # {} => 1 * W!Gain(nets, 1) > 0)
        /\ W!Gain(nets, 1) \in Int
    BY GainsHaveSigns
  <2>2. /\ (-1) * W!Gain(nets, -1) >= 0 /\ (W!Of(nets, -1) # {} => (-1) * W!Gain(nets, -1) > 0)
        /\ W!Gain(nets, -1) \in Int
    BY GainsHaveSigns
  <2> QED
    BY <1>5, <2>1, <2>2
<1>7. W!Sum(nets) = won - lost
  <2>1. W!Gain(nets, 1) \in Int /\ W!Gain(nets, -1) \in Int
    BY GainsHaveSigns
  <2> QED
    BY <1>5, <2>1, GainsAddUp
<1>8. W!analyze(list).wins + W!analyze(list).losses > 0 => won > 0 \/ lost > 0
  <2>1. W!Of(nets, 1) = {} => W!analyze(list).wins = 0
    BY <1>4, NothingIsZero
  <2>2. W!Of(nets, -1) = {} => W!analyze(list).losses = 0
    BY <1>4, NothingIsZero
  <2> QED
    BY <1>6, <2>1, <2>2
<1>9. W!ProfitFactor(nets) = IF lost > 0 THEN W!Quot(won * 10000, lost)
                             ELSE IF won > 0 THEN 1000000000 ELSE 0
  BY <1>5 DEF W!ProfitFactor, W!Full, W!Infinite
<1>10. lost > 0 => (W!Quot(won * 10000, lost) >= 10000 <=> won >= lost)
  BY <1>6, RatioAboveOne
<1>11. won > 0 \/ lost > 0 => (W!ProfitFactor(nets) >= 10000 <=> W!Sum(nets) >= 0)
  BY <1>6, <1>7, <1>9, <1>10
<1> QED
  BY <1>2, <1>3, <1>4, <1>8, <1>11 DEF W!FactorAgrees, W!Full

\* Max and Min of two numbers choose the greater and the smaller.
LEMMA GreaterOfTwo ==
    ASSUME NEW a \in Int, NEW b \in Int
    PROVE  /\ W!Max({a, b}) = IF a <= b THEN b ELSE a
           /\ W!Min({a, b}) = IF a <= b THEN a ELSE b
<1> DEFINE m == IF a <= b THEN b ELSE a
           l == IF a <= b THEN a ELSE b
<1>1. m \in {a, b} /\ \A y \in {a, b} : m >= y
  OBVIOUS
<1>2. l \in {a, b} /\ \A y \in {a, b} : l <= y
  OBVIOUS
<1>3. \A x \in {a, b} : (\A y \in {a, b} : x >= y) => x = m
  OBVIOUS
<1>4. \A x \in {a, b} : (\A y \in {a, b} : x <= y) => x = l
  OBVIOUS
<1> HIDE DEF m, l
<1>5. W!Max({a, b}) = m
  BY <1>1, <1>3 DEF W!Max
<1>6. W!Min({a, b}) = l
  BY <1>2, <1>4 DEF W!Min
<1> QED
  BY <1>5, <1>6 DEF m, l

\* The Max of a set that has a greatest element is that element.
LEMMA MaxIsThere ==
    ASSUME NEW S, S \subseteq Int, NEW m \in S, \A y \in S : m >= y
    PROVE  W!Max(S) = m
<1>1. \A x \in S : (\A y \in S : x >= y) => x = m
  OBVIOUS
<1> QED
  BY <1>1 DEF W!Max

\* One of finitely many numbers is the greatest.
LEMMA GreatestExists ==
    ASSUME NEW n \in Nat, n > 0, NEW f, \A i \in 1 .. n : f[i] \in Int
    PROVE  \E k \in 1 .. n : \A i \in 1 .. n : f[k] >= f[i]
<1> DEFINE Greatest(m) == \E k \in 1 .. m : \A i \in 1 .. m : f[k] >= f[i]
           S == {m \in Nat : m + 1 <= n => Greatest(m + 1)}
<1>1. 0 \in S
  <2>1. Greatest(1)
    BY f[1] \in Int
  <2> QED
    BY <2>1
<1>2. ASSUME NEW m \in Nat, m \in S
      PROVE  m + 1 \in S
  <2>1. SUFFICES ASSUME (m + 1) + 1 <= n
                 PROVE  Greatest((m + 1) + 1)
    OBVIOUS
  <2>2. PICK k \in 1 .. m + 1 : \A i \in 1 .. m + 1 : f[k] >= f[i]
    BY <1>2, <2>1
  <2>3. f[k] \in Int /\ f[m + 2] \in Int
    BY <2>1
  <2>4. CASE f[k] >= f[m + 2]
    <3>1. \A i \in 1 .. (m + 1) + 1 : f[k] >= f[i]
      BY <2>2, <2>4
    <3> QED
      BY <3>1
  <2>5. CASE f[m + 2] > f[k]
    <3>1. \A i \in 1 .. (m + 1) + 1 : f[m + 2] >= f[i]
      BY <2>1, <2>2, <2>3, <2>5
    <3> QED
      BY <3>1
  <2> QED
    BY <2>3, <2>4, <2>5
<1> HIDE DEF S
<1>3. n - 1 \in S
  BY <1>1, <1>2, SetInduction
<1> QED
  BY <1>3 DEF S

\* The fall from a to c.
Drop(a, c) == W!Quot((a - c) * 10000, a)

\* From a higher balance the fall is larger.
LEMMA HigherFallsFurther ==
    ASSUME NEW a \in Int, NEW b \in Int, NEW c \in Int, a > 0, c > 0, a <= b, c <= b
    PROVE  /\ Drop(a, c) \in Int /\ Drop(b, c) \in Int
           /\ Drop(b, c) >= 0
           /\ Drop(a, c) <= Drop(b, c)
<1> DEFINE q == ((b - c) * 10000) \div b
           r == ((b - c) * 10000) % b
<1>1. q \in Int /\ r \in 0 .. b - 1 /\ (b - c) * 10000 = b * q + r
  OBVIOUS
<1>2. Drop(b, c) = q
  BY DEF W!Quot, Drop
<1> HIDE DEF q, r
<1>3. q >= 0
  <2>1. SUFFICES ASSUME q <= -1
                 PROVE  FALSE
    BY <1>1
  <2>2. b * q <= b * (-1)
    BY <1>1, <2>1
  <2> QED
    BY <1>1, <2>2
<1>4. Drop(a, c) \in Int
  BY QuotientIsInteger DEF Drop
<1>5. CASE a < c
  <2> DEFINE p == ((c - a) * 10000) \div a
             s == ((c - a) * 10000) % a
  <2>1. p \in Int /\ s \in 0 .. a - 1 /\ (c - a) * 10000 = a * p + s
    BY <1>5
  <2>2. Drop(a, c) = -p
    <3>1. ~((a - c) * 10000 >= 0) /\ -((a - c) * 10000) = (c - a) * 10000
      BY <1>5
    <3> QED
      BY <3>1 DEF W!Quot, Drop
  <2> HIDE DEF p, s
  <2>3. p >= 0
    <3>1. SUFFICES ASSUME p <= -1
                   PROVE  FALSE
      BY <2>1
    <3>2. a * p <= a * (-1)
      BY <2>1, <3>1
    <3> QED
      BY <1>5, <2>1, <3>2
  <2> QED
    BY <1>1, <1>2, <1>3, <1>4, <2>1, <2>2, <2>3
<1>6. CASE a >= c
  <2> DEFINE p == ((a - c) * 10000) \div a
             s == ((a - c) * 10000) % a
  <2>1. p \in Int /\ s \in 0 .. a - 1 /\ (a - c) * 10000 = a * p + s
    OBVIOUS
  <2>2. Drop(a, c) = p
    BY <1>6 DEF W!Quot, Drop
  <2> HIDE DEF p, s
  <2>3. SUFFICES ASSUME q + 1 <= p
                 PROVE  FALSE
    BY <1>1, <1>2, <1>3, <1>4, <2>1, <2>2
  <2>4. p <= 10000
    <3>1. SUFFICES ASSUME 10001 <= p
                   PROVE  FALSE
      BY <2>1
    <3>2. a * 10001 <= a * p
      BY <2>1, <3>1
    <3> QED
      BY <2>1, <3>2
  <2>5. b * (q + 1) <= b * p
    BY <1>1, <2>1, <2>3
  <2>6. b * (q + 1) = b * q + b
    BY <1>1
  <2>7. (b - a) * p <= (b - a) * 10000
    BY <2>1, <2>4
  <2>8. b * p = a * p + (b - a) * p
    BY <2>1
  <2> QED
    BY <1>1, <2>1, <2>5, <2>6, <2>7, <2>8
<1> QED
  BY <1>1, <1>2, <1>3, <1>4, <1>5, <1>6

\* What an account has after its first trades.
LEMMA BalanceIsInteger ==
    ASSUME NEW n \in Nat, n > 0, NEW closed \in [1 .. n -> W!ClosedTrade],
           InitialBalance \in Int, NEW i \in 0 .. n
    PROVE  W!Balance(closed, i) \in Int
<1>1. PICK nets : nets = [j \in DOMAIN closed |-> closed[j].net]
  OBVIOUS
<1>2. \A j \in 1 .. i : nets[j] \in Int
  BY <1>1 DEF W!ClosedTrade
<1>3. SumTo(nets, i) \in Int
  BY <1>2, SumToInt
<1>4. W!StartingCapital(closed) \in Int
  <2>1. closed[1] \in W!ClosedTrade
    OBVIOUS
  <2> QED
    BY <2>1 DEF W!StartingCapital, W!ClosedTrade
<1> QED
  BY <1>1, <1>3, <1>4, SameOperators DEF W!Balance

\* The falls of an account that is not used up: each is from the highest balance so far.
LEMMA FallsAreFromPeaks ==
    ASSUME NEW n \in Nat, n > 0, NEW closed \in [1 .. n -> W!ClosedTrade],
           InitialBalance \in Int, W!RealEconomics(closed),
           \A i \in 0 .. n : W!Balance(closed, i) > 0
    PROVE  /\ DOMAIN W!Falls(closed) = 1 .. n + 1
           /\ \A i \in 0 .. n :
                 /\ W!Falls(closed)[i + 1] \in Nat
                 /\ \E k \in 0 .. i : W!Falls(closed)[i + 1] = W!Fall(closed, k, i)
                 /\ \A k \in 0 .. i : W!Fall(closed, k, i) \in Int
                                     /\ W!Fall(closed, k, i) <= W!Falls(closed)[i + 1]
<1> DEFINE B(i) == W!Balance(closed, i)
<1>1. Len(closed) = n
  OBVIOUS
<1>2. PICK curve : curve = W!EquityCurve(closed)
  OBVIOUS
<1>3. DOMAIN curve = 1 .. n + 1 /\ \A i \in 1 .. n + 1 : curve[i] = B(i - 1)
  BY <1>1, <1>2 DEF W!EquityCurve, W!Balance
<1>4. \A i \in 0 .. n : B(i) \in Int /\ B(i) > 0
  BY BalanceIsInteger
<1> DEFINE Fallen(peak, now) == W!Quot((peak - now) * 10000, W!Max({peak, 1}))
<1>5. W!Falls(closed) = [i \in 1 .. n + 1 |-> Fallen(W!PeakTo(curve, i), curve[i])]
  BY <1>2, <1>3 DEF W!Falls, W!Full
<1> HIDE DEF Fallen
<1> HIDE DEF B
<1>6. ASSUME NEW i \in 0 .. n
      PROVE  /\ W!Falls(closed)[i + 1] \in Nat
             /\ \E k \in 0 .. i : W!Falls(closed)[i + 1] = W!Fall(closed, k, i)
             /\ \A k \in 0 .. i : W!Fall(closed, k, i) \in Int
                                 /\ W!Fall(closed, k, i) <= W!Falls(closed)[i + 1]
  <2>1. \A j \in 1 .. i + 1 : curve[j] \in Int /\ curve[j] > 0
    BY <1>3, <1>4
  <2>2. PICK m \in 1 .. i + 1 : \A j \in 1 .. i + 1 : curve[m] >= curve[j]
    <3>1. i + 1 \in Nat /\ i + 1 > 0
      OBVIOUS
    <3> QED
      BY <2>1, <3>1, GreatestExists
  <2>3. W!PeakTo(curve, i + 1) = curve[m]
    <3> DEFINE S == {curve[j] : j \in 1 .. i + 1}
    <3>1. S \subseteq Int /\ curve[m] \in S /\ \A y \in S : curve[m] >= y
      BY <2>1, <2>2
    <3>2. W!PeakTo(curve, i + 1) = W!Max(S)
      BY DEF W!PeakTo
    <3> HIDE DEF S
    <3> QED
      BY <3>1, <3>2, MaxIsThere
  <2>4. PICK k \in 0 .. i : k = m - 1
    OBVIOUS
  <2>5. PICK b \in Int, c \in Int : b = B(k) /\ c = B(i) /\ b > 0 /\ c > 0
    <3>1. k \in 0 .. n
      OBVIOUS
    <3> QED
      BY <1>4, <3>1
  <2>6. curve[m] = b /\ curve[i + 1] = c
    BY <1>3, <2>4, <2>5
  <2>7. b >= c
    BY <2>2, <2>6
  <2>8. W!Max({b, 1}) = b
    BY <2>5, GreaterOfTwo
  <2>9. W!Falls(closed)[i + 1] = Drop(b, c)
    <3>1. i + 1 \in 1 .. n + 1
      OBVIOUS
    <3>2. W!Falls(closed)[i + 1] = Fallen(W!PeakTo(curve, i + 1), curve[i + 1])
      BY <1>5, <3>1
    <3>3. W!PeakTo(curve, i + 1) = b /\ curve[i + 1] = c
      BY <2>3, <2>6
    <3>4. Fallen(b, c) = Drop(b, c)
      BY <2>8 DEF Fallen, Drop
    <3> QED
      BY <3>2, <3>3, <3>4
  <2>10. W!Falls(closed)[i + 1] = W!Fall(closed, k, i)
    BY <2>5, <2>9 DEF W!Fall, W!Full, B, Drop
  <2>11. ASSUME NEW j \in 0 .. i
         PROVE  /\ W!Fall(closed, j, i) \in Int
                /\ W!Fall(closed, j, i) <= Drop(b, c)
                /\ Drop(b, c) \in Nat
    <3>1. PICK a \in Int : a = B(j) /\ a > 0
      <4>1. j \in 0 .. n
        OBVIOUS
      <4> QED
        BY <1>4, <4>1
    <3>2. a <= b
      <4>1. j + 1 \in 1 .. i + 1 /\ (j + 1) - 1 = j /\ j + 1 \in 1 .. n + 1
        OBVIOUS
      <4>2. curve[j + 1] = a
        BY <1>3, <3>1, <4>1
      <4> QED
        BY <2>2, <2>6, <4>1, <4>2
    <3>3. W!Fall(closed, j, i) = Drop(a, c)
      BY <2>5, <3>1 DEF W!Fall, W!Full, B, Drop
    <3>4. c <= b
      BY <2>7
    <3>5. /\ Drop(a, c) \in Int /\ Drop(b, c) \in Int
          /\ Drop(b, c) >= 0
          /\ Drop(a, c) <= Drop(b, c)
      BY <2>5, <3>1, <3>2, <3>4, HigherFallsFurther
    <3> QED
      BY <3>3, <3>5
  <2> QED
    BY <2>9, <2>10, <2>11
<1>7. DOMAIN W!Falls(closed) = 1 .. n + 1
  BY <1>5
<1> QED
  BY <1>6, <1>7

\* The drawdown is the largest fall from a balance to a later one.
LEMMA DrawdownIsRight ==
    ASSUME NEW list \in Seq(W!ClosedTrade), list # <<>>, InitialBalance \in Int
    PROVE  W!DrawdownIsLargestFall(list)
<1>1. PICK n \in Nat : n = Len(list) /\ n > 0
  OBVIOUS
<1>2. PICK closed \in [1 .. n -> W!ClosedTrade] : closed = W!Chronological(list)
  BY <1>1, ChronologicalKeeps
<1> DEFINE Q == {q \in (0 .. n) \X (0 .. n) : q[1] <= q[2]}
           T == {W!Fall(closed, q[1], q[2]) : q \in Q}
<1>3. SUFFICES ASSUME W!RealEconomics(closed), \A i \in 0 .. n : W!Balance(closed, i) > 0
               PROVE  W!analyze(list).drawdown = W!Max(T)
  BY <1>1, <1>2 DEF W!DrawdownIsLargestFall
<1>4. PICK falls : falls = W!Falls(closed)
  OBVIOUS
<1>5. /\ DOMAIN falls = 1 .. n + 1
      /\ \A i \in 0 .. n :
            /\ falls[i + 1] \in Nat
            /\ \E k \in 0 .. i : falls[i + 1] = W!Fall(closed, k, i)
            /\ \A k \in 0 .. i : W!Fall(closed, k, i) \in Int
                                /\ W!Fall(closed, k, i) <= falls[i + 1]
  BY <1>1, <1>3, <1>4, FallsAreFromPeaks
<1>6. \A j \in 1 .. n + 1 : falls[j] \in Nat
  <2>1. \A j \in 1 .. n + 1 : j - 1 \in 0 .. n /\ (j - 1) + 1 = j
    OBVIOUS
  <2> QED
    BY <1>5, <2>1
<1>7. PICK m \in 1 .. n + 1 : \A j \in 1 .. n + 1 : falls[m] >= falls[j]
  <2>1. n + 1 \in Nat /\ n + 1 > 0 /\ \A j \in 1 .. n + 1 : falls[j] \in Int
    BY <1>6
  <2> QED
    BY <2>1, GreatestExists
<1>8. W!analyze(list).drawdown = falls[m]
  <2> DEFINE S == W!Range(falls) \cup {0}
  <2>1. S \subseteq Int /\ falls[m] \in S /\ \A y \in S : falls[m] >= y
    <3>1. \A y \in W!Range(falls) : \E j \in 1 .. n + 1 : y = falls[j]
      BY <1>5 DEF W!Range
    <3>2. falls[m] \in W!Range(falls)
      BY <1>5 DEF W!Range
    <3>3. falls[m] \in Nat
      BY <1>6
    <3> QED
      BY <1>6, <1>7, <3>1, <3>2, <3>3
  <2>2. W!analyze(list).drawdown = W!MaxDrawdown(closed)
    BY <1>2 DEF W!analyze
  <2>3. W!MaxDrawdown(closed) = W!Max(S)
    BY <1>4 DEF W!MaxDrawdown, W!Greatest
  <2> HIDE DEF S
  <2> QED
    BY <2>1, <2>2, <2>3, MaxIsThere
<1>9. W!Max(T) = falls[m]
  <2>1. PICK i \in 0 .. n : m = i + 1
    BY m - 1 \in 0 .. n
  <2>2. PICK k \in 0 .. i : falls[m] = W!Fall(closed, k, i)
    BY <1>5, <2>1
  <2>3. <<k, i>> \in Q
    OBVIOUS
  <2>4. falls[m] \in T
    BY <2>2, <2>3
  <2>5. ASSUME NEW q \in Q
        PROVE  W!Fall(closed, q[1], q[2]) \in Int /\ W!Fall(closed, q[1], q[2]) <= falls[m]
    <3>1. q[2] \in 0 .. n /\ q[1] \in 0 .. q[2] /\ q[2] + 1 \in 1 .. n + 1
      OBVIOUS
    <3>2. /\ W!Fall(closed, q[1], q[2]) \in Int
          /\ W!Fall(closed, q[1], q[2]) <= falls[q[2] + 1]
      BY <1>5, <3>1
    <3>3. falls[q[2] + 1] \in Nat /\ falls[m] \in Nat /\ falls[m] >= falls[q[2] + 1]
      BY <1>6, <1>7, <3>1
    <3> QED
      BY <3>2, <3>3
  <2>6. T \subseteq Int /\ \A y \in T : falls[m] >= y
    <3>1. falls[m] \in Nat
      BY <1>6
    <3> QED
      BY <2>5, <3>1
  <2> HIDE DEF T
  <2> QED
    BY <2>4, <2>6, MaxIsThere
<1> QED
  BY <1>8, <1>9
-----------------------------------------------------------------------------
(* The chosen confidence                                                   *)

\* A candidate has numbers to compare.
Rated(c) ==
    c.confidence \in Int /\ c.report.expectancy \in Int /\ c.report.profitFactor \in Int

\* Candidate c does not come before b, nearer than the tolerance taken as equal.
Behind(c, b) ==
    /\ c.report.expectancy <= b.report.expectancy
    /\ c.report.expectancy = b.report.expectancy =>
          /\ c.report.profitFactor <= b.report.profitFactor
          /\ c.report.profitFactor = b.report.profitFactor
                => W!Infinite = c.report.profitFactor \/ c.confidence <= b.confidence

\* What a better one replaces leaves no one in front of it.
LEMMA BehindTheBest ==
    ASSUME NEW b, NEW c, NEW e, Rated(b), Rated(c), Rated(e), Tolerance = 1,
           W!Better(c.report, c.confidence, b), Behind(e, b)
    PROVE  Behind(e, c)
BY DEF Rated, Behind, W!Better, W!Near, W!NearFactors, W!Infinite

LEMMA NotBetterIsBehind ==
    ASSUME NEW b, NEW c, Rated(b), Rated(c), Tolerance = 1,
           ~W!Better(c.report, c.confidence, b)
    PROVE  Behind(c, b)
BY DEF Rated, Behind, W!Better, W!Near, W!NearFactors, W!Infinite

\* What replaces the best is not better by less than the tolerance.
LEMMA BestLosesLittle ==
    ASSUME NEW b, NEW c, Rated(b), Rated(c), Tolerance \in Nat \ {0}
    PROVE  /\ W!Better(c.report, c.confidence, b) =>
                 b.report.expectancy <= c.report.expectancy + (Tolerance - 1)
           /\ ~W!Better(c.report, c.confidence, b) =>
                 c.report.expectancy <= b.report.expectancy
BY DEF Rated, W!Better, W!Near, W!NearFactors, W!Infinite

LEMMA NoConfidence == W!NoBest.confidence \notin Nat
BY SMT DEF W!NoBest

Tried(k) == W!Candidate(Grid[k], W!analyze(tests[k]))

SearchInv ==
    /\ tests \in Seq(Seq(W!ClosedTrade)) /\ Len(tests) <= Len(Grid)
    /\ tests = <<>> => best = W!NoBest
    /\ tests # <<>> => Rated(best) /\ best # W!NoBest
    /\ \A k \in 1 .. Len(tests) :
          /\ W!analyze(tests[k]).expectancy
                <= best.report.expectancy + (Len(tests) - 1) * (Tolerance - 1)
          /\ Tolerance = 1 => Behind(Tried(k), best)

LEMMA AppendOne ==
    ASSUME NEW S, NEW list \in Seq(S), NEW x \in S
    PROVE  /\ Append(list, x) \in Seq(S) /\ Append(list, x) # <<>>
           /\ Len(Append(list, x)) = Len(list) + 1
           /\ Append(list, x)[Len(list) + 1] = x
           /\ \A k \in 1 .. Len(list) : Append(list, x)[k] = list[k]
OBVIOUS

\* One more confidence: the best of those tried is still the best.
LEMMA TryKeepsSearch ==
    ASSUME W!WalkAssumption, SearchInv, W!Try
    PROVE  SearchInv'
<1>1. PICK closed \in TradeLists :
          /\ tests' = Append(tests, closed)
          /\ best' = W!Pick(Grid[Len(tests) + 1], W!analyze(closed), best)
  BY DEF W!Try
<1>2. PICK n \in Nat : n = Len(tests) /\ tests \in Seq(Seq(W!ClosedTrade)) /\ n < Len(Grid)
  BY DEF W!Try, SearchInv
<1>3. closed \in Seq(W!ClosedTrade) /\ Grid \in Seq(Nat) /\ Tolerance \in Nat \ {0}
  BY DEF W!WalkAssumption
<1>4. /\ tests' \in Seq(Seq(W!ClosedTrade)) /\ Len(tests') = n + 1 /\ tests' # <<>>
      /\ tests'[n + 1] = closed /\ \A k \in 1 .. n : tests'[k] = tests[k]
  <2>1. closed \in Seq(W!ClosedTrade)
    BY <1>3
  <2> QED
    BY <1>1, <1>2, <2>1, AppendOne
<1>5. PICK c : c = W!Candidate(Grid[n + 1], W!analyze(closed))
  OBVIOUS
<1>6. Grid[n + 1] \in Nat
  BY <1>2, <1>3
<1>7. /\ Rated(c) /\ c # W!NoBest
      /\ c.report = W!analyze(closed) /\ c.confidence = Grid[n + 1]
  <2>1. c.report = W!analyze(closed) /\ c.confidence = Grid[n + 1]
    BY <1>5 DEF W!Candidate
  <2>2. c.report.expectancy \in Int /\ c.report.profitFactor \in Int
    BY <1>3, <2>1, ReportHasNumbers
  <2>3. Rated(c)
    BY <1>6, <2>1, <2>2 DEF Rated
  <2>4. c # W!NoBest
    BY <1>6, <2>1, NoConfidence
  <2> QED
    BY <2>1, <2>3, <2>4
<1>8. /\ \A k \in 1 .. n : Tried(k)' = Tried(k)
      /\ Tried(n + 1)' = c
  BY <1>4, <1>5 DEF Tried
<1>9. best' = IF n = 0 \/ W!Better(c.report, c.confidence, best) THEN c ELSE best
  <2>1. n = 0 <=> best = W!NoBest
    BY <1>2 DEF SearchInv
  <2> QED
    BY <1>1, <1>2, <1>5, <1>7, <2>1 DEF W!Pick
<1>10. n # 0 => Rated(best) /\ best # W!NoBest
  BY <1>2 DEF SearchInv
<1>11. Rated(best') /\ best' # W!NoBest
  BY <1>7, <1>9, <1>10
<1> DEFINE d == Tolerance - 1
<1>12. d \in Nat /\ n * d \in Nat /\ n * d = (n - 1) * d + d
  <2>1. d \in Nat
    BY <1>3
  <2> HIDE DEF d
  <2> QED
    BY <1>2, <2>1
<1>13. ASSUME NEW k \in 1 .. n + 1
       PROVE  /\ W!analyze(tests'[k]).expectancy <= best'.report.expectancy + n * d
              /\ Tolerance = 1 => Behind(Tried(k)', best')
  <2>1. CASE k = n + 1
    <3>1. W!analyze(tests'[k]) = c.report /\ Tried(k)' = c
      BY <1>4, <1>7, <1>8, <2>1
    <3>2. c.report.expectancy <= best'.report.expectancy
      <4>1. c.report.expectancy <= c.report.expectancy
        BY <1>7 DEF Rated
      <4>2. n # 0 /\ ~W!Better(c.report, c.confidence, best) =>
               c.report.expectancy <= best.report.expectancy
        BY <1>3, <1>7, <1>10, BestLosesLittle
      <4> QED
        BY <1>9, <4>1, <4>2
    <3>3. Behind(c, c)
      BY <1>7 DEF Behind, Rated
    <3>4. Tolerance = 1 => Behind(c, best')
      BY <1>7, <1>9, <1>10, <3>3, NotBetterIsBehind
    <3> HIDE DEF d
    <3> QED
      BY <1>7, <1>11, <1>12, <3>1, <3>2, <3>4 DEF Rated
  <2>2. CASE k \in 1 .. n
    <3>1. n # 0 /\ tests'[k] = tests[k] /\ Tried(k)' = Tried(k)
      BY <1>4, <1>8, <2>2
    <3>2. PICK r : r = W!analyze(tests[k])
      OBVIOUS
    <3>3. tests[k] \in Seq(W!ClosedTrade) /\ Grid[k] \in Nat
      BY <1>2, <1>3, <2>2
    <3>4. r.expectancy \in Int /\ r.profitFactor \in Int
      BY <3>2, <3>3, ReportHasNumbers
    <3>5. /\ r.expectancy <= best.report.expectancy + (n - 1) * d
          /\ Tolerance = 1 => Behind(Tried(k), best)
      BY <1>2, <2>2, <3>2 DEF SearchInv
    <3>6. Rated(Tried(k))
      BY <3>2, <3>3, <3>4 DEF Tried, W!Candidate, Rated
    <3>7. Tolerance = 1 => Behind(Tried(k), best')
      BY <1>7, <1>9, <1>10, <3>1, <3>5, <3>6, BehindTheBest
    <3>8. best.report.expectancy <= best'.report.expectancy + d
      <4>1. W!Better(c.report, c.confidence, best) =>
               best.report.expectancy <= c.report.expectancy + d
        BY <1>3, <1>7, <1>10, <3>1, BestLosesLittle
      <4>2. best.report.expectancy <= best.report.expectancy + d
        BY <1>10, <1>12, <3>1 DEF Rated
      <4> HIDE DEF d
      <4> QED
        BY <1>9, <3>1, <4>1, <4>2
    <3>9. best.report.expectancy \in Int /\ best'.report.expectancy \in Int /\ (n - 1) * d \in Int
      BY <1>10, <1>11, <1>12, <3>1 DEF Rated
    <3> HIDE DEF d
    <3>10. r.expectancy <= best'.report.expectancy + n * d
      BY <1>12, <3>4, <3>5, <3>8, <3>9
    <3> QED
      BY <3>1, <3>2, <3>7, <3>10
  <2> QED
    BY <1>2, <2>1, <2>2
<1> QED
  BY <1>2, <1>4, <1>11, <1>13 DEF SearchInv

\* When the whole grid is tried, the best of the grid is chosen.
LEMMA SearchChoosesBest ==
    ASSUME W!WalkAssumption, SearchInv
    PROVE  W!BestChosen
<1>1. SUFFICES ASSUME Len(tests) = Len(Grid), NEW k \in DOMAIN Grid
               PROVE  LET r == W!analyze(tests[k])
                      IN  /\ r.expectancy <=
                                best.report.expectancy + (Len(Grid) - 1) * (Tolerance - 1)
                          /\ Tolerance = 1 /\ r.expectancy = best.report.expectancy =>
                                /\ r.profitFactor <= best.report.profitFactor
                                /\ r.profitFactor = best.report.profitFactor =>
                                      W!Infinite = r.profitFactor \/ Grid[k] <= best.confidence
  BY DEF W!BestChosen
<1>2. k \in 1 .. Len(tests)
  BY <1>1 DEF W!WalkAssumption
<1>3. Tried(k).report = W!analyze(tests[k]) /\ Tried(k).confidence = Grid[k]
  BY DEF Tried, W!Candidate
<1> QED
  BY <1>1, <1>2, <1>3 DEF SearchInv, Behind

-----------------------------------------------------------------------------
(* Resampling                                                              *)

\* A quotient and a remainder are the only ones.
LEMMA QuotientIsUnique ==
    ASSUME NEW a \in Nat, NEW b \in Nat, b > 0, NEW q \in Int, NEW r \in 0 .. b - 1,
           a = b * q + r
    PROVE  a \div b = q /\ a % b = r
<1> DEFINE p == a \div b
           s == a % b
<1>1. p \in Int /\ s \in 0 .. b - 1 /\ a = b * p + s
  OBVIOUS
<1> HIDE DEF p, s
<1>2. ASSUME p < q
      PROVE  FALSE
  <2>1. p + 1 <= q
    BY <1>1, <1>2
  <2>2. b * (p + 1) <= b * q
    BY <1>1, <2>1
  <2>3. b * (p + 1) = b * p + b
    BY <1>1
  <2> QED
    BY <1>1, <2>2, <2>3
<1>3. ASSUME q < p
      PROVE  FALSE
  <2>1. q + 1 <= p
    BY <1>1, <1>3
  <2>2. b * (q + 1) <= b * p
    BY <1>1, <2>1
  <2>3. b * (q + 1) = b * q + b
    OBVIOUS
  <2> QED
    BY <1>1, <2>2, <2>3
<1>4. p = q
  BY <1>1, <1>2, <1>3
<1>5. s = r
  BY <1>1, <1>4
<1> QED
  BY <1>4, <1>5 DEF p, s

\* Two trades of one block: the block they are in, and their places in it.
LEMMA WithinABlock ==
    ASSUME NEW n \in Nat, NEW size \in 1 .. n + 1, NEW i \in 1 .. n - 1, i % size # 0
    PROVE  /\ (i - 1) \div size = i \div size
           /\ i % size = ((i - 1) % size) + 1
           /\ i % size \in 1 .. size - 1 /\ i % size <= i
           /\ (i \div size) + 1 \in 1 .. W!Blocks(n, size)
<1> DEFINE q == i \div size
           r == i % size
<1>1. q \in Int /\ r \in 1 .. size - 1 /\ i = size * q + r
  OBVIOUS
<1>2. q >= 0
  <2>1. SUFFICES ASSUME q <= -1
                 PROVE  FALSE
    BY <1>1
  <2>2. size * q <= size * (-1)
    BY <1>1, <2>1
  <2> QED
    BY <1>1, <2>2
<1> HIDE DEF q, r
<1>3. i - 1 = size * q + (r - 1) /\ r - 1 \in 0 .. size - 1 /\ i - 1 \in Nat
  BY <1>1
<1>4. (i - 1) \div size = q /\ (i - 1) % size = r - 1
  BY <1>1, <1>3, QuotientIsUnique
<1>5. size * q >= 0
  BY <1>1, <1>2
<1>6. q + 1 <= W!Blocks(n, size)
  <2> DEFINE p == (n + size - 1) \div size
             s == (n + size - 1) % size
  <2>1. p \in Int /\ s \in 0 .. size - 1 /\ n + size - 1 = size * p + s
    OBVIOUS
  <2> HIDE DEF p, s
  <2>2. SUFFICES ASSUME p <= q
                 PROVE  FALSE
    BY <1>1, <2>1 DEF W!Blocks, p
  <2>3. size * p <= size * q
    BY <1>1, <2>1, <2>2
  <2> QED
    BY <1>1, <2>1, <2>3
<1> QED
  BY <1>1, <1>2, <1>4, <1>5, <1>6 DEF q, r

\* A resampled list keeps what followed what within its blocks.
LEMMA BlocksAreKept ==
    ASSUME NEW list \in Seq(W!ClosedTrade), NEW n \in Nat, n = Len(list), n > 0,
           NEW size \in 1 .. n + 1,
           NEW starts \in [1 .. W!Blocks(n, size) -> W!BlockStarts(n, size)],
           NEW i \in 1 .. n - 1, i % size # 0
    PROVE  \E j \in 1 .. n - 1 :
              /\ W!Resampled(list, size, starts)[i] = W!Chronological(list)[j]
              /\ W!Resampled(list, size, starts)[i + 1] = W!Chronological(list)[j + 1]
<1> DEFINE block == (i \div size) + 1
           place == i % size
<1>1. /\ ((i - 1) \div size) + 1 = block /\ ((i - 1) % size) + 1 = place
      /\ place \in 1 .. size - 1 /\ place <= i /\ block \in 1 .. W!Blocks(n, size)
  BY WithinABlock
<1> HIDE DEF block, place
<1>2. starts[block] \in W!BlockStarts(n, size)
  BY <1>1
<1>3. n - size \in Int
  OBVIOUS
<1>4. starts[block] \in Nat /\ starts[block] <= IF 0 <= n - size THEN n - size ELSE 0
  BY <1>2, <1>3, GreaterOfTwo DEF W!BlockStarts
<1>5. PICK j : j = starts[block] + place
  OBVIOUS
<1>6. j \in 1 .. n - 1
  BY <1>1, <1>4, <1>5
<1>7. DOMAIN list = 1 .. n /\ i \in 1 .. n /\ i + 1 \in 1 .. n /\ (i + 1) - 1 = i
  OBVIOUS
<1>8. \A k \in 1 .. n : W!Resampled(list, size, starts)[k] =
         W!Chronological(list)[starts[((k - 1) \div size) + 1] + ((k - 1) % size) + 1]
  BY <1>7 DEF W!Resampled
<1>9. /\ W!Resampled(list, size, starts)[i] =
            W!Chronological(list)[starts[((i - 1) \div size) + 1] + ((i - 1) % size) + 1]
      /\ W!Resampled(list, size, starts)[i + 1] =
            W!Chronological(list)[starts[(i \div size) + 1] + (i % size) + 1]
  BY <1>7, <1>8
<1>10. starts[block] + ((i - 1) % size) + 1 = j /\ starts[block] + (i % size) + 1 = j + 1
  BY <1>1, <1>4, <1>5 DEF place
<1>11. /\ W!Resampled(list, size, starts)[i] = W!Chronological(list)[j]
       /\ W!Resampled(list, size, starts)[i + 1] = W!Chronological(list)[j + 1]
  BY <1>1, <1>9, <1>10 DEF block
<1> QED
  BY <1>6, <1>11

LEMMA ResamplingIsSound ==
    ASSUME SearchInv
    PROVE  W!ResamplingKeepsBlocks
<1>1. SUFFICES ASSUME tests # <<>>, W!Last(tests) # <<>>
               PROVE  W!ResamplingKeepsBlocks
  BY DEF W!ResamplingKeepsBlocks
<1>2. PICK list : list = W!Last(tests)
  OBVIOUS
<1>3. list \in Seq(W!ClosedTrade)
  BY <1>1, <1>2 DEF SearchInv, W!Last
<1>4. PICK n \in Nat : n = Len(list) /\ n > 0
  BY <1>1, <1>2, <1>3
<1>5. \A size \in 1 .. n + 1 :
         \A starts \in [1 .. W!Blocks(n, size) -> W!BlockStarts(n, size)] :
            W!KeepsBlocks(list, size, starts)
  <2>1. SUFFICES ASSUME NEW size \in 1 .. n + 1,
                        NEW starts \in [1 .. W!Blocks(n, size) -> W!BlockStarts(n, size)],
                        NEW i \in 1 .. n - 1, i % size # 0
                 PROVE  \E j \in 1 .. n - 1 :
                           /\ W!Resampled(list, size, starts)[i] = W!Chronological(list)[j]
                           /\ W!Resampled(list, size, starts)[i + 1]
                                = W!Chronological(list)[j + 1]
    BY <1>4 DEF W!KeepsBlocks
  <2> QED
    BY <1>3, <1>4, <2>1, BlocksAreKept
<1> QED
  BY <1>2, <1>4, <1>5 DEF W!ResamplingKeepsBlocks
-----------------------------------------------------------------------------
(* Dates                                                                   *)

Day(d) == W!DayNumber(d)

Fits(s) == s \in W!Dates /\ s[1] + InSample + OutSample <= Len(MonthLengths)

\* A day of the month, or its last day.
Clamped(day, month) == IF day <= MonthLengths[month] THEN day ELSE MonthLengths[month]

\* add_months names a day of the month it comes to, clamped to its end.
LEMMA AddMonthsIsDate ==
    ASSUME W!WalkAssumption, NEW d \in W!Dates, NEW k \in Nat, d[1] + k <= Len(MonthLengths)
    PROVE  /\ W!add_months(d, k) \in W!Dates
           /\ W!add_months(d, k)[1] = d[1] + k
           /\ W!add_months(d, k)[2] = Clamped(d[2], d[1] + k)
<1>1. MonthLengths \in Seq(Nat \ {0})
  BY DEF W!WalkAssumption
<1>2. PICK m \in Nat, y \in Nat : d = <<m, y>> /\ m \in 1 .. Len(MonthLengths) /\ y >= 1
  BY <1>1 DEF W!Dates
<1>3. m + k \in 1 .. Len(MonthLengths)
  BY <1>1, <1>2
<1>4. MonthLengths[m + k] \in Nat \ {0}
  BY <1>1, <1>3
<1>5. PICK x : x = Clamped(y, m + k)
  OBVIOUS
<1>6. x \in 1 .. MonthLengths[m + k]
  BY <1>2, <1>4, <1>5 DEF Clamped
<1>7. W!Min({y, MonthLengths[m + k]}) = x
  <2>1. PICK l \in Nat : l = MonthLengths[m + k]
    BY <1>4
  <2>2. y \in Int /\ l \in Int
    OBVIOUS
  <2>3. W!Min({y, l}) = IF y <= l THEN y ELSE l
    BY <2>2, GreaterOfTwo, Zenon
  <2> QED
    BY <1>5, <2>1, <2>3 DEF Clamped
<1>8. W!add_months(d, k) = <<m + k, x>>
  BY <1>2, <1>7 DEF W!add_months
<1>9. <<m + k, x>> \in W!Dates
  BY <1>1, <1>3, <1>6 DEF W!Dates
<1>10. d[1] = m /\ d[2] = y
  BY <1>2
<1> QED
  BY <1>5, <1>8, <1>9, <1>10

LEMMA DayIsInteger ==
    ASSUME W!WalkAssumption, NEW d \in W!Dates
    PROVE  /\ Day(d) \in Int /\ Day(d) = SumTo(MonthLengths, d[1] - 1) + d[2]
           /\ SumTo(MonthLengths, d[1] - 1) \in Int
           /\ d[1] \in 1 .. Len(MonthLengths) /\ d[2] \in 1 .. MonthLengths[d[1]]
           /\ MonthLengths[d[1]] \in Nat
<1>1. MonthLengths \in Seq(Nat \ {0})
  BY DEF W!WalkAssumption
<1>2. d[1] \in 1 .. Len(MonthLengths) /\ d[2] \in 1 .. MonthLengths[d[1]] /\ d[2] \in Nat
  BY <1>1 DEF W!Dates
<1>3. PICK n \in Nat : n = d[1] - 1 /\ n <= Len(MonthLengths)
  BY <1>2
<1>4. \A i \in 1 .. n : MonthLengths[i] \in Int
  BY <1>1, <1>3
<1>5. SumTo(MonthLengths, n) \in Int
  BY <1>4, SumToInt
<1> QED
  BY <1>1, <1>2, <1>3, <1>5, SameOperators DEF Day, W!DayNumber

\* A date in a later month is a later day.
LEMMA LaterMonth ==
    ASSUME W!WalkAssumption, NEW d \in W!Dates, NEW e \in W!Dates, d[1] < e[1]
    PROVE  Day(d) < Day(e)
<1>1. MonthLengths \in Seq(Nat \ {0})
  BY DEF W!WalkAssumption
<1>2. /\ d[1] \in 1 .. Len(MonthLengths) /\ d[2] \in 1 .. MonthLengths[d[1]]
      /\ e[1] \in 1 .. Len(MonthLengths) /\ e[2] >= 1 /\ e[2] \in Int
      /\ Day(d) = SumTo(MonthLengths, d[1] - 1) + d[2]
      /\ Day(e) = SumTo(MonthLengths, e[1] - 1) + e[2]
      /\ SumTo(MonthLengths, d[1] - 1) \in Int /\ SumTo(MonthLengths, e[1] - 1) \in Int
      /\ MonthLengths[d[1]] \in Nat
  BY DayIsInteger
<1>3. PICK k \in Nat, n \in Nat : k = d[1] - 1 /\ n = e[1] - 1 /\ k + 1 \in 0 .. n
  BY <1>2
<1>4. SumTo(MonthLengths, k + 1) = SumTo(MonthLengths, k) + MonthLengths[k + 1]
  BY SumToStep
<1>5. \A i \in 1 .. n : MonthLengths[i] \in Nat
  <2>1. n <= Len(MonthLengths)
    BY <1>2, <1>3
  <2> QED
    BY <1>1, <2>1
<1>6. SumTo(MonthLengths, k + 1) <= SumTo(MonthLengths, n)
  BY <1>3, <1>5, SumToGrows
<1>7. k + 1 = d[1]
  BY <1>2, <1>3
<1>8. PICK a \in Int, b \in Int, c \in Int, l \in Nat :
         /\ a = SumTo(MonthLengths, k) /\ b = SumTo(MonthLengths, k + 1)
         /\ c = SumTo(MonthLengths, n) /\ l = MonthLengths[k + 1]
  BY <1>2, <1>3, <1>4, <1>7
<1>9. b = a + l /\ b <= c
  BY <1>4, <1>6, <1>8
<1>10. PICK x \in Int, y \in Int : x = d[2] /\ y = e[2]
  BY <1>2
<1>11. Day(d) = a + x /\ Day(e) = c + y
  BY <1>2, <1>3, <1>8, <1>10
<1>12. x <= l /\ y >= 1
  BY <1>2, <1>7, <1>8, <1>10
<1> QED
  BY <1>9, <1>11, <1>12

\* Days of one month differ by their numbers in it.
LEMMA SameMonth ==
    ASSUME W!WalkAssumption, NEW d \in W!Dates, NEW e \in W!Dates, d[1] = e[1]
    PROVE  Day(d) - Day(e) = d[2] - e[2]
<1>1. PICK a \in Int : a = SumTo(MonthLengths, d[1] - 1)
  BY DayIsInteger
<1>2. Day(d) = a + d[2] /\ d[2] \in Int
  BY <1>1, DayIsInteger
<1>3. Day(e) = a + e[2] /\ e[2] \in Int
  BY <1>1, DayIsInteger
<1> QED
  BY <1>2, <1>3

-----------------------------------------------------------------------------
(* Windows                                                                 *)

\* The window that begins at s, if any of it is to be tested.
LEMMA WindowDays ==
    ASSUME W!WalkAssumption, NEW s, Fits(s), end \in W!Dates,
           NEW w, w = W!Window(s), Day(w.oosStart) < Day(end)
    PROVE  /\ w.isStart = s /\ w.isEnd = w.oosStart /\ w.oosStart \in W!Dates
           /\ w.oosStart = W!add_months(s, InSample)
           /\ w.oosEnd \in W!Dates
           /\ Day(s) <= Day(w.oosStart) /\ Day(w.oosStart) < Day(w.oosEnd)
           /\ Day(w.oosEnd) <= Day(end)
           /\ Day(w.oosEnd) <= Day(W!add_months(w.oosStart, OutSample))
           /\ \/ Day(w.oosEnd) = Day(end)
              \/ w.oosEnd = W!add_months(w.oosStart, OutSample)
<1>1. InSample \in Nat \ {0} /\ OutSample \in Nat \ {0} /\ MonthLengths \in Seq(Nat \ {0})
  BY DEF W!WalkAssumption
<1>2. PICK o : o = W!add_months(s, InSample)
  OBVIOUS
<1>3. PICK e : e = W!add_months(o, OutSample)
  OBVIOUS
<1>4. s \in W!Dates /\ s[1] \in Nat /\ s[1] + InSample + OutSample <= Len(MonthLengths)
  BY DayIsInteger DEF Fits
<1>5. o \in W!Dates /\ o[1] = s[1] + InSample
  BY <1>1, <1>2, <1>4, AddMonthsIsDate
<1>6. e \in W!Dates /\ e[1] = o[1] + OutSample
  BY <1>1, <1>3, <1>4, <1>5, AddMonthsIsDate
<1>7. Day(s) < Day(o) /\ Day(o) < Day(e)
  BY <1>1, <1>4, <1>5, <1>6, LaterMonth
<1>8. Day(s) \in Int /\ Day(o) \in Int /\ Day(e) \in Int /\ Day(end) \in Int
  BY <1>4, <1>5, <1>6, DayIsInteger
<1>9. /\ w.isStart = s /\ w.isEnd = o /\ w.oosStart = o
      /\ w.oosEnd = IF Day(e) >= Day(end) THEN end ELSE e
  BY <1>2, <1>3 DEF W!Window, W!Earlier, W!NotBefore, Day
<1> QED
  BY <1>2, <1>3, <1>5, <1>6, <1>7, <1>8, <1>9

\* Where months are alike up to a leap day, a window that is not cut ends at
\* most a day from where the next one begins.
LEMMA WindowsMeet ==
    ASSUME W!WalkAssumption, W!Contiguous, NEW s, Fits(s), NEW t, Fits(t),
           t = W!add_months(s, Step)
    PROVE  Day(W!add_months(t, InSample))
             - Day(W!add_months(W!add_months(s, InSample), OutSample)) \in {-1, 0, 1}
<1>1. /\ InSample \in Nat \ {0} /\ OutSample \in Nat \ {0} /\ Step = OutSample
      /\ MonthLengths \in Seq(Nat \ {0})
  BY DEF W!WalkAssumption, W!Contiguous
<1>2. PICK m \in Nat, y \in Nat : m = s[1] /\ y = s[2]
  BY DayIsInteger DEF Fits
<1>3. /\ s \in W!Dates /\ t \in W!Dates /\ m >= 1
      /\ m + InSample + OutSample <= Len(MonthLengths) /\ y <= MonthLengths[m]
  BY <1>2, DayIsInteger DEF Fits
<1>4. /\ m + OutSample + InSample = m + InSample + OutSample
      /\ m \in 1 .. Len(MonthLengths) - InSample
      /\ m + OutSample \in 1 .. Len(MonthLengths) - InSample
      /\ m + InSample <= Len(MonthLengths) /\ m + OutSample <= Len(MonthLengths)
  BY <1>1, <1>3
<1>5. PICK o : o = W!add_months(s, InSample)
  OBVIOUS
<1>6. o \in W!Dates /\ o[1] = m + InSample /\ o[2] = Clamped(y, m + InSample)
  BY <1>1, <1>2, <1>3, <1>4, <1>5, AddMonthsIsDate
<1>7. PICK e : e = W!add_months(o, OutSample)
  OBVIOUS
<1>8. e \in W!Dates /\ e[1] = m + InSample + OutSample /\ e[2] = Clamped(o[2], m + InSample + OutSample)
  BY <1>1, <1>3, <1>6, <1>7, AddMonthsIsDate
<1>9. t[1] = m + OutSample /\ t[2] = Clamped(y, m + OutSample)
  BY <1>1, <1>2, <1>3, <1>4, AddMonthsIsDate
<1>10. PICK b : b = W!add_months(t, InSample)
  OBVIOUS
<1>11. b \in W!Dates /\ b[1] = m + InSample + OutSample /\ b[2] = Clamped(t[2], m + InSample + OutSample)
  <2>1. t[1] + InSample <= Len(MonthLengths) /\ t[1] + InSample = m + InSample + OutSample
    BY <1>1, <1>3, <1>4, <1>9
  <2> QED
    BY <1>1, <1>3, <1>9, <1>10, <2>1, AddMonthsIsDate
<1>12. \A i \in 1 .. Len(MonthLengths) : MonthLengths[i] \in Nat
  BY <1>1
<1>13. /\ MonthLengths[m + InSample] - MonthLengths[m] \in {-1, 0, 1}
       /\ MonthLengths[m + InSample + OutSample] - MonthLengths[m + OutSample] \in {-1, 0, 1}
  <2>1. \A i \in 1 .. Len(MonthLengths) - InSample :
           MonthLengths[i + InSample] - MonthLengths[i] \in {-1, 0, 1}
    BY DEF W!Contiguous
  <2>2. MonthLengths[(m + OutSample) + InSample] - MonthLengths[m + OutSample] \in {-1, 0, 1}
    BY <1>4, <2>1
  <2> QED
    BY <1>4, <2>1, <2>2
<1>14. PICK p \in Nat : p = MonthLengths[m]
  BY <1>1, <1>3, <1>4, <1>12
<1>15. PICK q \in Nat : q = MonthLengths[m + InSample]
  BY <1>1, <1>3, <1>4, <1>12
<1>16. PICK u \in Nat : u = MonthLengths[m + OutSample]
  BY <1>1, <1>3, <1>4, <1>12
<1>17. PICK v \in Nat : v = MonthLengths[m + InSample + OutSample]
  BY <1>1, <1>3, <1>4, <1>12
<1>18. b[2] - e[2] \in {-1, 0, 1}
  <2>1. q - p \in {-1, 0, 1} /\ v - u \in {-1, 0, 1} /\ y <= p
    BY <1>3, <1>13, <1>14, <1>15, <1>16, <1>17
  <2>2. o[2] = IF y <= q THEN y ELSE q
    BY <1>6, <1>15 DEF Clamped
  <2>3. e[2] = IF o[2] <= v THEN o[2] ELSE v
    BY <1>8, <1>17 DEF Clamped
  <2>4. t[2] = IF y <= u THEN y ELSE u
    BY <1>9, <1>16 DEF Clamped
  <2>5. b[2] = IF t[2] <= v THEN t[2] ELSE v
    BY <1>11, <1>17 DEF Clamped
  <2> QED
    BY <2>1, <2>2, <2>3, <2>4, <2>5
<1>19. Day(b) - Day(e) = b[2] - e[2]
  BY <1>8, <1>11, SameMonth
<1> QED
  BY <1>5, <1>7, <1>10, <1>18, <1>19

-----------------------------------------------------------------------------
(* The windows roll                                                        *)

\* Where the i-th window begins; the one after the last is the one in turn.
At(i) == IF i <= Len(cycles) THEN cycles[i].window.isStart ELSE start

OosDay(s) == Day(W!add_months(s, InSample))

\* The window that begins at s, of a history that ends at last.
WindowTo(s, last) ==
    LET oos == W!add_months(s, InSample)
    IN  [isStart |-> s, isEnd |-> oos, oosStart |-> oos,
         oosEnd |-> W!Earlier(W!add_months(oos, OutSample), last)]

Period == \E p \in Periods : first = p[1] /\ end = p[2]

RollInv ==
    /\ Period
    /\ \E S : cycles \in Seq(S)
    /\ \A i \in 1 .. Len(cycles) + 1 : Fits(At(i)) /\ At(i)[1] = first[1] + (i - 1) * Step
    /\ \A i \in 1 .. Len(cycles) :
          /\ cycles[i].window = WindowTo(At(i), end) /\ OosDay(At(i)) < Day(end)
          /\ At(i + 1) = W!add_months(At(i), Step)
    /\ tests # <<>> => W!WindowLeft
    /\ done => ~W!WindowLeft

LEMMA AppendAny ==
    ASSUME NEW list, \E S : list \in Seq(S), NEW x
    PROVE  /\ \E S : Append(list, x) \in Seq(S)
           /\ Len(list) \in Nat /\ Len(Append(list, x)) = Len(list) + 1
           /\ Append(list, x)[Len(list) + 1] = x
           /\ \A k \in 1 .. Len(list) : Append(list, x)[k] = list[k]
<1>1. PICK S : list \in Seq(S)
  OBVIOUS
<1>2. PICK T : T = S \cup {x}
  OBVIOUS
<1>3. list \in Seq(T) /\ x \in T
  <2>1. \A k \in 1 .. Len(list) : list[k] \in T
    BY <1>1, <1>2
  <2>2. Len(list) \in Nat /\ list = [k \in 1 .. Len(list) |-> list[k]]
    BY <1>1
  <2>3. list \in Seq(T)
    BY <2>1, <2>2
  <2> QED
    BY <1>2, <2>3
<1> QED
  BY <1>3, AppendOne

\* A window is left while its test would begin before the last day.
LEMMA WindowLeftMeans ==
    ASSUME W!WalkAssumption, Fits(start), end \in W!Dates
    PROVE  W!WindowLeft <=> OosDay(start) < Day(end)
<1>1. InSample \in Nat /\ OutSample \in Nat
  BY DEF W!WalkAssumption
<1>2. start \in W!Dates /\ start[1] + InSample <= Len(MonthLengths)
  BY <1>1, DayIsInteger DEF Fits
<1>3. W!add_months(start, InSample) \in W!Dates
  BY <1>1, <1>2, AddMonthsIsDate
<1>4. OosDay(start) \in Int /\ Day(end) \in Int
  BY <1>3, DayIsInteger DEF OosDay
<1> QED
  BY <1>4 DEF W!WindowLeft, W!Window, W!NotBefore, OosDay, Day

\* The calendar reaches as far as the next window.
LEMMA StepFits ==
    ASSUME W!WalkAssumption, Period, Fits(start), W!WindowLeft
    PROVE  Fits(W!add_months(start, Step)) /\ W!add_months(start, Step)[1] = start[1] + Step
<1>1. /\ InSample \in Nat /\ OutSample \in Nat /\ Step \in Nat
      /\ MonthLengths \in Seq(Nat \ {0})
      /\ end \in W!Dates /\ end[1] + OutSample + Step <= Len(MonthLengths)
  BY DEF W!WalkAssumption, Period
<1>2. PICK m \in Nat : m = start[1] /\ m + InSample + OutSample <= Len(MonthLengths)
  BY DayIsInteger DEF Fits
<1>3. PICK o : o = W!add_months(start, InSample)
  OBVIOUS
<1>4. start \in W!Dates /\ o \in W!Dates /\ o[1] = m + InSample
  <2>1. start \in W!Dates /\ start[1] + InSample <= Len(MonthLengths)
    BY <1>1, <1>2 DEF Fits
  <2> QED
    BY <1>1, <1>2, <1>3, <2>1, AddMonthsIsDate
<1>5. Day(o) < Day(end)
  BY <1>1, <1>3, WindowLeftMeans DEF OosDay
<1>6. PICK e \in Nat : e = end[1] /\ e + OutSample + Step <= Len(MonthLengths)
  BY <1>1, DayIsInteger
<1>7. m + InSample <= e
  <2>1. e < m + InSample => Day(end) < Day(o)
    BY <1>1, <1>4, <1>6, LaterMonth
  <2>2. Day(end) \in Int /\ Day(o) \in Int
    BY <1>1, <1>4, DayIsInteger
  <2> QED
    BY <1>1, <1>5, <2>1, <2>2
<1>8. (m + Step) + InSample + OutSample <= Len(MonthLengths)
  BY <1>1, <1>6, <1>7
<1>9. m + Step <= Len(MonthLengths)
  BY <1>1, <1>8
<1>10. W!add_months(start, Step) \in W!Dates /\ W!add_months(start, Step)[1] = m + Step
  BY <1>1, <1>2, <1>4, <1>9, AddMonthsIsDate
<1> QED
  BY <1>2, <1>8, <1>10 DEF Fits

LEMMA EndIsDate ==
    ASSUME W!WalkAssumption, Period
    PROVE  /\ first \in W!Dates /\ end \in W!Dates /\ first[1] \in Nat
           /\ Fits(first)
<1>1. first \in W!Dates /\ end \in W!Dates /\ first[1] + InSample + OutSample <= Len(MonthLengths)
  BY DEF W!WalkAssumption, Period
<1>2. first[1] \in Nat
  BY <1>1, DayIsInteger
<1> QED
  BY <1>1, <1>2 DEF Fits

\* The tested window is appended, and the next one begins a step later.
LEMMA TestKeepsRoll ==
    ASSUME W!WalkAssumption, RollInv, W!TestOutOfSample
    PROVE  RollInv'
<1>1. PICK x : /\ cycles' = Append(cycles, x)
               /\ x.window = WindowTo(start, end)
  <2>1. PICK closed : cycles' = Append(cycles, W!Cycle(W!Window(start), best.confidence,
                                                       W!analyze(closed)))
    BY DEF W!TestOutOfSample
  <2> QED
    BY <2>1 DEF W!Cycle, W!Window, WindowTo
<1>2. /\ ~done /\ start' = W!add_months(start, Step) /\ tests' = <<>>
      /\ UNCHANGED <<first, end, done>> /\ Len(tests) = Len(Grid)
  BY DEF W!TestOutOfSample
<1>3. tests # <<>>
  <2>1. Len(Grid) # 0
    BY DEF W!WalkAssumption
  <2>2. Len(<<>>) = 0
    OBVIOUS
  <2> QED
    BY <1>2, <2>1, <2>2
<1>4. W!WindowLeft /\ Period
  BY <1>3 DEF RollInv
<1>5. first[1] \in Nat /\ end \in W!Dates /\ Step \in Nat
  BY <1>4, EndIsDate DEF W!WalkAssumption
<1>6. Len(cycles) \in Nat
  BY AppendAny DEF RollInv
<1>7. PICK n \in Nat : /\ n = Len(cycles) /\ Len(cycles') = n + 1 /\ cycles'[n + 1] = x
                       /\ \A k \in 1 .. n : cycles'[k] = cycles[k]
  BY <1>6, <1>1, AppendAny DEF RollInv
<1>8. \E S : cycles' \in Seq(S)
  BY <1>1, AppendAny DEF RollInv
<1>9. At(n + 1) = start /\ \A i \in 1 .. n : At(i) = cycles[i].window.isStart
  BY <1>7 DEF At
<1>10. Fits(start) /\ start[1] = first[1] + n * Step
  BY <1>7, <1>9 DEF RollInv
<1>11. Fits(start') /\ start'[1] = start[1] + Step
  BY <1>2, <1>4, <1>10, StepFits
<1>12. OosDay(start) < Day(end)
  BY <1>4, <1>5, <1>10, WindowLeftMeans
<1>13. x.window.isStart = start
  BY <1>1 DEF WindowTo
<1>14. /\ \A i \in 1 .. n + 1 : At(i)' = At(i)
       /\ At(n + 2)' = start'
  BY <1>7, <1>9, <1>13 DEF At
<1>15. \A i \in 1 .. n + 2 : Fits(At(i)') /\ At(i)'[1] = first[1] + (i - 1) * Step
  <2>1. Fits(At(n + 2)') /\ At(n + 2)'[1] = first[1] + (n + 1) * Step
    BY <1>5, <1>10, <1>11, <1>14
  <2>2. \A i \in 1 .. n + 1 : Fits(At(i)') /\ At(i)'[1] = first[1] + (i - 1) * Step
    BY <1>7, <1>14 DEF RollInv
  <2>3. \A i \in 1 .. n + 2 : i \in 1 .. n + 1 \/ i = n + 2
    OBVIOUS
  <2>4. (n + 2) - 1 = n + 1
    OBVIOUS
  <2> QED
    BY <2>1, <2>2, <2>3, <2>4
<1>16. \A i \in 1 .. n + 1 :
          /\ cycles'[i].window = WindowTo(At(i), end) /\ OosDay(At(i)) < Day(end)
          /\ At(i + 1)' = W!add_months(At(i), Step)
  <2>1. ASSUME NEW i \in 1 .. n
        PROVE  /\ cycles'[i].window = WindowTo(At(i), end) /\ OosDay(At(i)) < Day(end)
               /\ At(i + 1)' = W!add_months(At(i), Step)
    <3>1. cycles'[i] = cycles[i] /\ At(i + 1)' = At(i + 1)
      BY <1>7, <1>14
    <3> QED
      BY <1>7, <3>1 DEF RollInv
  <2>2. /\ cycles'[n + 1].window = WindowTo(At(n + 1), end) /\ OosDay(At(n + 1)) < Day(end)
        /\ At((n + 1) + 1)' = W!add_months(At(n + 1), Step)
    <3>1. (n + 1) + 1 = n + 2
      OBVIOUS
    <3> QED
      BY <1>1, <1>2, <1>7, <1>9, <1>12, <1>14, <3>1
  <2>3. \A i \in 1 .. n + 1 : i \in 1 .. n \/ i = n + 1
    OBVIOUS
  <2> QED
    BY <2>1, <2>2, <2>3
<1>17. \A i \in 1 .. Len(cycles') + 1 : Fits(At(i)') /\ At(i)'[1] = first'[1] + (i - 1) * Step
  <2>1. Len(cycles') + 1 = n + 2 /\ first' = first
    BY <1>2, <1>7
  <2> QED
    BY <1>15, <2>1
<1>18. \A i \in 1 .. Len(cycles') :
          /\ cycles'[i].window = WindowTo(At(i)', end') /\ OosDay(At(i)') < Day(end')
          /\ At(i + 1)' = W!add_months(At(i)', Step)
  BY <1>2, <1>7, <1>14, <1>16
<1> QED
  BY <1>2, <1>4, <1>8, <1>17, <1>18 DEF RollInv, Period

LEMMA TryKeepsRoll ==
    ASSUME W!WalkAssumption, RollInv, W!Try
    PROVE  RollInv'
<1>1. W!WindowLeft /\ ~done /\ UNCHANGED <<first, end, start, cycles, done>>
  BY DEF W!Try
<1>2. \A i : At(i)' = At(i)
  BY <1>1 DEF At
<1>3. W!WindowLeft'
  BY <1>1 DEF W!WindowLeft, W!Window, W!NotBefore
<1> QED
  BY <1>1, <1>2, <1>3 DEF RollInv, Period

LEMMA FinishKeepsRoll ==
    ASSUME RollInv, W!Finish
    PROVE  RollInv'
<1>1. ~W!WindowLeft /\ UNCHANGED <<first, end, start, tests, cycles>>
  BY DEF W!Finish
<1>2. \A i : At(i)' = At(i)
  BY <1>1 DEF At
<1>3. W!WindowLeft' = W!WindowLeft
  BY <1>1 DEF W!WindowLeft, W!Window, W!NotBefore
<1> QED
  BY <1>1, <1>2, <1>3 DEF RollInv, Period

LEMMA InitRolls ==
    ASSUME W!WalkAssumption, W!Init
    PROVE  RollInv
<1>1. PICK period \in Periods : first = period[1] /\ end = period[2]
  BY DEF W!Init
<1>2. start = first /\ tests = <<>> /\ cycles = <<>> /\ done = FALSE
  BY DEF W!Init
<1>3. Len(cycles) = 0 /\ cycles \in Seq({})
  BY <1>2
<1>4. At(1) = first
  BY <1>2, <1>3 DEF At
<1>5. Fits(first) /\ first[1] \in Nat
  <2>1. first \in W!Dates /\ first[1] + InSample + OutSample <= Len(MonthLengths)
    BY <1>1 DEF W!WalkAssumption
  <2> QED
    BY <2>1, DayIsInteger DEF Fits
<1>6. Step \in Nat
  BY DEF W!WalkAssumption
<1>7. \A i \in 1 .. Len(cycles) + 1 : Fits(At(i)) /\ At(i)[1] = first[1] + (i - 1) * Step
  BY <1>3, <1>4, <1>5, <1>6
<1> QED
  BY <1>1, <1>2, <1>3, <1>7 DEF RollInv, Period

-----------------------------------------------------------------------------
(* The days that are tested                                                *)

\* The i-th window: its days, and the month in which its test begins.
LEMMA CycleDays ==
    ASSUME W!WalkAssumption, RollInv, NEW i \in 1 .. Len(cycles),
           NEW w, w = cycles[i].window
    PROVE  /\ w.isEnd = w.oosStart /\ w.oosStart \in W!Dates /\ w.oosEnd \in W!Dates
           /\ end \in W!Dates /\ Fits(At(i)) /\ w.oosStart = W!add_months(At(i), InSample)
           /\ w.oosStart[1] = first[1] + (i - 1) * Step + InSample
           /\ first[1] \in Nat /\ Len(cycles) \in Nat
           /\ Day(w.isStart) <= Day(w.oosStart) /\ Day(w.oosStart) < Day(w.oosEnd)
           /\ Day(w.oosEnd) <= Day(end)
           /\ Day(w.oosEnd) <= Day(W!add_months(w.oosStart, OutSample))
           /\ \/ Day(w.oosEnd) = Day(end)
              \/ w.oosEnd = W!add_months(w.oosStart, OutSample)
           /\ w.isStart = At(i)
<1>1. end \in W!Dates /\ first[1] \in Nat
  BY EndIsDate DEF RollInv
<1>2. Len(cycles) \in Nat
  BY DEF RollInv
<1>3. /\ Fits(At(i)) /\ At(i)[1] = first[1] + (i - 1) * Step
      /\ w = WindowTo(At(i), end) /\ OosDay(At(i)) < Day(end)
  <2>1. i \in 1 .. Len(cycles) + 1
    BY <1>2
  <2> QED
    BY <2>1 DEF RollInv
<1>4. w = W!Window(At(i))
  BY <1>3 DEF WindowTo, W!Window
<1>5. Day(w.oosStart) < Day(end)
  BY <1>3 DEF WindowTo, OosDay
<1>6. w.oosStart = W!add_months(At(i), InSample)
  BY <1>3 DEF WindowTo
<1>7. InSample \in Nat /\ OutSample \in Nat /\ Step \in Nat
  BY DEF W!WalkAssumption
<1>8. W!add_months(At(i), InSample)[1] = At(i)[1] + InSample
  <2>1. At(i) \in W!Dates /\ At(i)[1] + InSample <= Len(MonthLengths)
    BY <1>3, <1>7, DayIsInteger DEF Fits
  <2> QED
    BY <1>7, <2>1, AddMonthsIsDate
<1>9. /\ w.isStart = At(i) /\ w.isEnd = w.oosStart /\ w.oosStart \in W!Dates /\ w.oosEnd \in W!Dates
      /\ Day(At(i)) <= Day(w.oosStart) /\ Day(w.oosStart) < Day(w.oosEnd)
      /\ Day(w.oosEnd) <= Day(end)
      /\ Day(w.oosEnd) <= Day(W!add_months(w.oosStart, OutSample))
      /\ \/ Day(w.oosEnd) = Day(end)
         \/ w.oosEnd = W!add_months(w.oosStart, OutSample)
  BY <1>1, <1>3, <1>4, <1>5, WindowDays
<1> QED
  BY <1>1, <1>2, <1>3, <1>6, <1>8, <1>9

\* The test of a window shares its first day with the search, no other.
LEMMA WindowsAreSound ==
    ASSUME W!WalkAssumption, RollInv, NEW i \in 1 .. Len(cycles)
    PROVE  W!WindowSound(i)
<1>1. PICK w, v : w = cycles[i].window /\ v = cycles[1].window
  OBVIOUS
<1>2. Len(cycles) \in Nat /\ 1 \in 1 .. Len(cycles)
  BY DEF RollInv
<1>3. /\ w.isEnd = w.oosStart /\ w.oosStart \in W!Dates /\ w.oosEnd \in W!Dates /\ end \in W!Dates
      /\ w.oosStart[1] = first[1] + (i - 1) * Step + InSample /\ first[1] \in Nat
      /\ Day(w.isStart) <= Day(w.oosStart) /\ Day(w.oosStart) < Day(w.oosEnd)
      /\ Day(w.oosEnd) <= Day(end) /\ w.isStart = At(i) /\ Fits(At(i))
  BY <1>1, CycleDays
<1>4. v.oosStart \in W!Dates /\ v.oosStart[1] = first[1] + (1 - 1) * Step + InSample
  BY <1>1, <1>2, CycleDays
<1>5. /\ Day(w.isStart) \in Int /\ Day(w.oosStart) \in Int /\ Day(w.oosEnd) \in Int
      /\ Day(end) \in Int /\ Day(v.oosStart) \in Int
  BY <1>3, <1>4, DayIsInteger DEF Fits
<1>6. Day(v.oosStart) <= Day(w.oosStart)
  <2>1. CASE i = 1
    BY <1>1, <1>5, <2>1
  <2>2. CASE i # 1
    <3>1. Step \in Nat \ {0} /\ InSample \in Nat
      BY DEF W!WalkAssumption
    <3>2. PICK a \in Nat : a = i - 1 /\ a > 0
      BY <1>2, <2>2
    <3>3. a * Step > 0 /\ a * Step \in Nat
      BY <3>1, <3>2
    <3>4. v.oosStart[1] < w.oosStart[1]
      BY <1>3, <1>4, <3>1, <3>2, <3>3
    <3>5. Day(v.oosStart) < Day(w.oosStart)
      BY <1>3, <1>4, <3>4, LaterMonth
    <3> QED
      BY <1>5, <3>5
  <2> QED
    BY <2>1, <2>2
<1>7. (Day(w.isStart) .. Day(w.isEnd)) \cap (Day(w.oosStart) .. Day(w.oosEnd)) = {Day(w.oosStart)}
  BY <1>3, <1>5
<1>8. Day(w.oosStart) .. Day(w.oosEnd) \subseteq Day(v.oosStart) .. Day(end)
  BY <1>3, <1>5, <1>6
<1> QED
  BY <1>1, <1>7, <1>8 DEF W!WindowSound, W!TestedDays, W!PlayedDays, Day

LEMMA FewDays ==
    ASSUME NEW S, NEW b \in Int, S \subseteq b .. b + 1
    PROVE  W!Cardinality(S) <= 2
<1>1. Cardinality(b .. b + 1) = 2 /\ IsFiniteSet(b .. b + 1)
  BY FS_Interval
<1>2. Cardinality(S) <= 2
  BY <1>1, FS_Subset
<1> QED
  BY <1>2 DEF W!Cardinality, Cardinality

\* Where the i-th window is followed by another, they meet.
LEMMA NextWindowMeets ==
    ASSUME W!WalkAssumption, RollInv, W!Contiguous, NEW i \in 1 .. Len(cycles),
           NEW w, w = cycles[i].window
    PROVE  OosDay(At(i + 1)) - Day(W!add_months(w.oosStart, OutSample)) \in {-1, 0, 1}
<1>1. Len(cycles) \in Nat /\ i + 1 \in 1 .. Len(cycles) + 1
  BY DEF RollInv
<1>2. Fits(At(i + 1)) /\ At(i + 1) = W!add_months(At(i), Step)
  BY <1>1 DEF RollInv
<1>3. Fits(At(i)) /\ w.oosStart = W!add_months(At(i), InSample)
  BY CycleDays
<1> QED
  BY <1>2, <1>3, WindowsMeet DEF OosDay

\* Two tests share two days at most, and none unless one follows the other.
LEMMA TestsMeet ==
    ASSUME W!WalkAssumption, RollInv, W!Contiguous,
           NEW i \in 1 .. Len(cycles), NEW j \in 1 .. Len(cycles), i < j
    PROVE  W!Cardinality(W!TestedDays(i) \cap W!TestedDays(j)) <= IF j = i + 1 THEN 2 ELSE 0
<1>1. PICK w, v : w = cycles[i].window /\ v = cycles[j].window
  OBVIOUS
<1>2. PICK e : e = W!add_months(w.oosStart, OutSample)
  OBVIOUS
<1>3. /\ w.oosStart \in W!Dates /\ w.oosEnd \in W!Dates /\ Day(w.oosEnd) <= Day(e)
      /\ w.oosStart[1] = first[1] + (i - 1) * Step + InSample /\ first[1] \in Nat
      /\ Len(cycles) \in Nat
  BY <1>1, <1>2, CycleDays
<1>4. /\ v.oosStart \in W!Dates /\ v.oosEnd \in W!Dates
      /\ v.oosStart[1] = first[1] + (j - 1) * Step + InSample
      /\ v.oosStart = W!add_months(At(j), InSample)
  BY <1>1, CycleDays
<1>5. Step = OutSample /\ Step \in Nat \ {0} /\ InSample \in Nat
  BY DEF W!Contiguous, W!WalkAssumption
<1>6. e \in W!Dates /\ e[1] = w.oosStart[1] + OutSample
  <2>1. Fits(At(i)) /\ w.oosStart = W!add_months(At(i), InSample)
    BY <1>1, CycleDays
  <2>2. w.oosStart[1] = At(i)[1] + InSample /\ At(i)[1] \in Nat
    <3>1. At(i) \in W!Dates /\ At(i)[1] \in Nat
      BY <2>1, DayIsInteger DEF Fits
    <3>2. At(i)[1] + InSample <= Len(MonthLengths)
      BY <1>5, <2>1, <3>1, DayIsInteger DEF Fits
    <3> QED
      BY <1>5, <2>1, <3>1, <3>2, AddMonthsIsDate
  <2>3. w.oosStart[1] + OutSample <= Len(MonthLengths)
    BY <2>1, <2>2 DEF Fits
  <2> QED
    BY <1>2, <1>3, <1>5, <2>3, AddMonthsIsDate
<1>7. /\ Day(w.oosStart) \in Int /\ Day(w.oosEnd) \in Int /\ Day(e) \in Int
      /\ Day(v.oosStart) \in Int /\ Day(v.oosEnd) \in Int
  BY <1>3, <1>4, <1>6, DayIsInteger
<1>8. /\ W!TestedDays(i) = Day(w.oosStart) .. Day(w.oosEnd)
      /\ W!TestedDays(j) = Day(v.oosStart) .. Day(v.oosEnd)
  BY <1>1 DEF W!TestedDays, W!PlayedDays, Day
<1>9. CASE j = i + 1
  <2>1. Day(v.oosStart) - Day(e) \in {-1, 0, 1}
    BY <1>1, <1>2, <1>4, <1>9, NextWindowMeets DEF OosDay
  <2>2. W!TestedDays(i) \cap W!TestedDays(j) \subseteq Day(v.oosStart) .. Day(v.oosStart) + 1
    BY <1>3, <1>7, <1>8, <2>1
  <2> QED
    BY <1>7, <1>9, <2>2, FewDays
<1>10. CASE j # i + 1
  <2>1. PICK a \in Nat, b \in Nat : a = i - 1 /\ b = j - 1 /\ a + 1 < b
    BY <1>3, <1>10
  <2>2. (a + 1) * Step < b * Step /\ (a + 1) * Step = a * Step + Step
    <3>1. PICK c \in Nat : b = (a + 1) + c /\ c > 0
      BY <2>1
    <3>2. b * Step = (a + 1) * Step + c * Step /\ c * Step > 0
      BY <1>5, <3>1
    <3> QED
      BY <1>5, <3>2
  <2>3. a * Step \in Nat /\ b * Step \in Nat
    BY <1>5
  <2>4. e[1] < v.oosStart[1]
    <3>1. PICK x \in Nat, y \in Nat : x = a * Step /\ y = b * Step
      BY <2>3
    <3>2. x + Step < y
      BY <2>2, <3>1
    <3>3. w.oosStart[1] = first[1] + x + InSample /\ v.oosStart[1] = first[1] + y + InSample
      BY <1>3, <1>4, <2>1, <3>1
    <3> QED
      BY <1>3, <1>5, <1>6, <3>2, <3>3
  <2>5. Day(e) < Day(v.oosStart)
    BY <1>4, <1>6, <2>4, LaterMonth
  <2>6. W!TestedDays(i) \cap W!TestedDays(j) = {}
    BY <1>3, <1>7, <1>8, <2>5
  <2>7. W!Cardinality(W!TestedDays(i) \cap W!TestedDays(j)) = 0
    BY <2>6, NothingIsZero, Zenon
  <2> QED
    BY <1>10, <2>7
<1> QED
  BY <1>9, <1>10

\* Each day between the first test and the end of the history, when the
\* windows are used up: the last window that begins no later holds it.
LEMMA DaysAreTested ==
    ASSUME W!WalkAssumption, RollInv, W!Contiguous, done, cycles # <<>>,
           NEW day \in Day(cycles[1].window.oosStart) .. Day(end) - 1
    PROVE  \E i \in 1 .. Len(cycles) : day \in W!TestedDays(i)
<1>1. PICK n \in Nat : n = Len(cycles) /\ n > 0
  BY DEF RollInv
<1>2. PICK b : b = [k \in Nat |-> OosDay(At(k + 1))]
  OBVIOUS
<1>3. end \in W!Dates /\ Day(end) \in Int
  BY EndIsDate, DayIsInteger DEF RollInv
<1>4. At(n + 1) = start /\ Fits(start)
  <2>1. At(n + 1) = start
    BY <1>1 DEF At
  <2> QED
    BY <1>1, <2>1 DEF RollInv
<1>5. ~(OosDay(start) < Day(end))
  BY <1>3, <1>4, WindowLeftMeans DEF RollInv
<1>6. \A k \in 0 .. n : b[k] \in Int
  <2>1. ASSUME NEW k \in 0 .. n
        PROVE  b[k] \in Int
    <3>1. k + 1 \in 1 .. Len(cycles) + 1 /\ b[k] = OosDay(At(k + 1))
      BY <1>1, <1>2
    <3>2. Fits(At(k + 1))
      BY <3>1 DEF RollInv
    <3>3. InSample \in Nat /\ OutSample \in Nat
      BY DEF W!WalkAssumption
    <3>4. At(k + 1) \in W!Dates /\ At(k + 1)[1] + InSample <= Len(MonthLengths)
      BY <3>2, <3>3, DayIsInteger DEF Fits
    <3>5. W!add_months(At(k + 1), InSample) \in W!Dates
      BY <3>3, <3>4, AddMonthsIsDate
    <3> QED
      BY <3>1, <3>5, DayIsInteger DEF OosDay
  <2> QED
    BY <2>1
<1>7. b[0] = Day(cycles[1].window.oosStart)
  <2>1. PICK w : w = cycles[1].window
    OBVIOUS
  <2>2. w.oosStart = W!add_months(At(1), InSample)
    BY <1>1, <2>1, CycleDays
  <2> QED
    BY <1>2, <2>1, <2>2 DEF OosDay
<1>8. b[n] = OosDay(start)
  BY <1>1, <1>2, <1>4
<1>9. day \in Int /\ b[0] <= day /\ day < Day(end)
  <2>1. b[0] \in Int
    BY <1>1, <1>6
  <2> QED
    BY <1>3, <1>7, <2>1
<1>10. day < b[n]
  <2>1. b[n] \in Int
    BY <1>1, <1>6
  <2> QED
    BY <1>3, <1>5, <1>8, <1>9, <2>1
<1>11. PICK k \in 0 .. n - 1 : b[k] <= day /\ day < b[k + 1]
  <2>1. SUFFICES ASSUME \A k \in 0 .. n - 1 : b[k] <= day => b[k + 1] <= day
                 PROVE  FALSE
    <3>1. \A k \in 0 .. n - 1 : b[k] \in Int /\ b[k + 1] \in Int
      BY <1>1, <1>6
    <3> QED
      BY <1>9, <2>1, <3>1
  <2>2. PICK S : S = {k \in Nat : k <= n => b[k] <= day}
    OBVIOUS
  <2>3. 0 \in S
    BY <1>9, <2>2
  <2>4. \A k \in Nat : k \in S => k + 1 \in S
    <3>1. ASSUME NEW k \in Nat, k \in S, k + 1 <= n
          PROVE  b[k + 1] <= day
      BY <1>1, <2>1, <2>2, <3>1
    <3> QED
      BY <2>2, <3>1
  <2>5. n \in S
    BY <2>3, <2>4, SetInduction
  <2> QED
    BY <1>1, <1>6, <1>9, <1>10, <2>2, <2>5
<1>12. PICK i \in 1 .. n : i = k + 1
  BY <1>1, <1>11
<1>13. OosDay(At(i)) <= day /\ day < OosDay(At(i + 1))
  <2>1. k \in Nat /\ k + 1 \in Nat
    BY <1>1
  <2> QED
    BY <1>2, <1>11, <1>12, <2>1
<1>14. PICK w : w = cycles[i].window
  OBVIOUS
<1>15. PICK e : e = W!add_months(w.oosStart, OutSample)
  OBVIOUS
<1>16. /\ w.oosStart \in W!Dates /\ w.oosEnd \in W!Dates
       /\ w.oosStart = W!add_months(At(i), InSample)
       /\ Day(w.oosEnd) = Day(end) \/ w.oosEnd = e
  BY <1>1, <1>14, <1>15, CycleDays
<1>17. Day(w.oosStart) \in Int /\ Day(w.oosEnd) \in Int
  BY <1>16, DayIsInteger
<1>18. Day(w.oosStart) <= day
  BY <1>13, <1>16 DEF OosDay
<1>19. day <= Day(w.oosEnd)
  <2>1. CASE Day(w.oosEnd) = Day(end)
    BY <1>3, <1>9, <2>1
  <2>2. CASE w.oosEnd = e
    <3>1. OosDay(At(i + 1)) - Day(e) \in {-1, 0, 1}
      BY <1>1, <1>14, <1>15, NextWindowMeets
    <3>2. OosDay(At(i + 1)) \in Int
      <4>1. i \in 0 .. n /\ i \in Nat
        BY <1>1
      <4> QED
        BY <1>2, <1>6, <4>1
    <3> QED
      BY <1>9, <1>13, <1>17, <2>2, <3>1, <3>2
  <2> QED
    BY <1>16, <2>1, <2>2
<1>20. W!TestedDays(i) = Day(w.oosStart) .. Day(w.oosEnd)
  BY <1>14 DEF W!TestedDays, W!PlayedDays, Day
<1> QED
  BY <1>1, <1>9, <1>17, <1>18, <1>19, <1>20

\* The invariant of the rolling windows says which days are tested.
LEMMA DaysOfTests ==
    ASSUME W!WalkAssumption, RollInv
    PROVE  W!EveryDayTested
<1>1. DOMAIN cycles = 1 .. Len(cycles)
  BY DEF RollInv
<1>2. \A i \in 1 .. Len(cycles) : W!WindowSound(i)
  BY WindowsAreSound
<1>3. W!Contiguous =>
        \A i, j \in 1 .. Len(cycles) :
           i < j => W!Cardinality(W!TestedDays(i) \cap W!TestedDays(j))
                       <= IF j = i + 1 THEN 2 ELSE 0
  BY TestsMeet
<1>4. W!Contiguous /\ done /\ cycles # <<>> =>
        \A day \in Day(cycles[1].window.oosStart) .. Day(end) - 1 :
           \E i \in 1 .. Len(cycles) : day \in W!TestedDays(i)
  BY DaysAreTested
<1> QED
  BY <1>1, <1>2, <1>3, <1>4 DEF W!EveryDayTested, Day

-----------------------------------------------------------------------------
(* The analysis                                                            *)

LEMMA WalkStarts ==
    ASSUME W!WalkAssumption, W!Init
    PROVE  SearchInv /\ RollInv
<1>1. tests = <<>> /\ best = W!NoBest
  BY DEF W!Init
<1>2. /\ tests \in Seq(Seq(W!ClosedTrade)) /\ Len(tests) = 0
      /\ ~(tests # <<>>) /\ Len(Grid) \in Nat
  BY <1>1 DEF W!WalkAssumption
<1>3. SearchInv
  BY <1>1, <1>2 DEF SearchInv
<1> QED
  BY <1>3, InitRolls

LEMMA WalkGoesOn ==
    ASSUME W!WalkAssumption, SearchInv, RollInv, [W!Next]_W!vars
    PROVE  SearchInv' /\ RollInv'
<1>1. CASE W!Try
  BY <1>1, TryKeepsSearch, TryKeepsRoll
<1>2. CASE W!TestOutOfSample
  <2>1. tests' = <<>> /\ best' = W!NoBest
    BY <1>2 DEF W!TestOutOfSample
  <2>2. SearchInv'
    <3>1. /\ tests' \in Seq(Seq(W!ClosedTrade)) /\ Len(tests') = 0
          /\ ~(tests' # <<>>) /\ Len(Grid) \in Nat
      BY <2>1 DEF W!WalkAssumption
    <3> QED
      BY <2>1, <3>1 DEF SearchInv
  <2> QED
    BY <1>2, <2>2, TestKeepsRoll
<1>3. CASE W!Finish
  <2>1. tests' = tests /\ best' = best
    BY <1>3 DEF W!Finish
  <2>2. SearchInv'
    BY <2>1 DEF SearchInv, Tried
  <2> QED
    BY <1>3, <2>2, FinishKeepsRoll
<1>4. CASE UNCHANGED W!vars
  <2>1. UNCHANGED <<first, end, start, tests, best, cycles, done>>
    BY <1>4 DEF W!vars
  <2>2. SearchInv'
    BY <2>1 DEF SearchInv, Tried
  <2>3. W!WindowLeft' = W!WindowLeft
    BY <2>1 DEF W!WindowLeft, W!Window, W!NotBefore
  <2>4. \A i : At(i)' = At(i)
    BY <2>1 DEF At
  <2>5. RollInv'
    BY <2>1, <2>3, <2>4 DEF RollInv, Period
  <2> QED
    BY <2>2, <2>5
<1> QED
  BY <1>1, <1>2, <1>3, <1>4 DEF W!Next

\* However the windows roll over any calendar, a test sees days of the history
\* that its search has not seen, but for the first; and where the windows are as
\* long as the step, the tests leave out no day before the last and overlap by
\* two days at most: EveryDayTested of the loop of WalkForwardAnalyzer.analyze,
\* whose dates add_months clamps to the ends of short months.
THEOREM DaysTestedAlways == W!Spec => []EveryDayTested
<1>1. W!Init => SearchInv /\ RollInv
  BY WalkForwardAssumption, WalkStarts
<1>2. (SearchInv /\ RollInv) /\ [W!Next]_W!vars => (SearchInv /\ RollInv)'
  BY WalkForwardAssumption, WalkGoesOn
<1>3. RollInv => EveryDayTested
  BY WalkForwardAssumption, DaysOfTests DEF EveryDayTested
<1> QED
  BY <1>1, <1>2, <1>3, PTL DEF W!Spec

\* What any list of trades of the search is reported as is sound.
LEMMA ReportsAreSound ==
    ASSUME W!WalkAssumption, SearchInv
    PROVE  W!ReportSound
<1>1. SUFFICES ASSUME tests # <<>>, W!Last(tests) # <<>>
               PROVE  W!ReportSound
  BY DEF W!ReportSound
<1>2. W!Last(tests) \in Seq(W!ClosedTrade)
  BY <1>1 DEF SearchInv, W!Last
<1>3. InitialBalance \in Int
  BY DEF W!WalkAssumption
<1>4. /\ W!OrderIsNothing(W!Last(tests)) /\ W!DrawdownIsLargestFall(W!Last(tests))
      /\ W!FactorAgrees(W!Last(tests))
  BY <1>1, <1>2, <1>3, ReportForgetsOrder, DrawdownIsRight, FactorIsRight
<1> QED
  BY <1>4 DEF W!ReportSound

\* Whatever the backtests return and in whatever order the grid lists its
\* confidences, the search of ParameterOptimizer takes the best of them, and the
\* figures it goes by agree with each other, with the order of the trades and
\* with their resampling: ChoiceSound.
THEOREM ChoiceSoundAlways == W!Spec => []ChoiceSound
<1>1. W!Init => SearchInv /\ RollInv
  BY WalkForwardAssumption, WalkStarts
<1>2. (SearchInv /\ RollInv) /\ [W!Next]_W!vars => (SearchInv /\ RollInv)'
  BY WalkForwardAssumption, WalkGoesOn
<1>3. SearchInv => ChoiceSound
  BY WalkForwardAssumption, SearchChoosesBest, ReportsAreSound, ResamplingIsSound
     DEF W!ChoiceSound, ChoiceSound
<1> QED
  BY <1>1, <1>2, <1>3, PTL DEF W!Spec

\* Every behaviour that the run explores is one of the backtester and one of the
\* walk-forward analysis, so all of the above holds of it.
THEOREM ResearchIsBoth == ResearchSpec => Spec /\ W!Spec
<1>1. ResearchInit => Init /\ W!Init
  BY DEF ResearchInit
<1>2. [ResearchNext]_researchVars => [Next]_btVars /\ [W!Next]_W!vars
  BY DEF ResearchNext, researchVars, walkVars, W!vars
<1> QED
  BY <1>1, <1>2, PTL DEF ResearchSpec, Spec, W!Spec
=============================================================================
