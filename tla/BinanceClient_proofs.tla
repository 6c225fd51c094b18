------------------------- MODULE BinanceClient_proofs -------------------------
(***************************************************************************)
(* The rate limiter and the client that asks it.  The limiter keeps its    *)
(* promise for any number of callers, any weights, any limit and any       *)
(* lengths of window, millisecond and slack; every request of the client,  *)
(* the retries included, is covered by a grant of its own, so what the     *)
(* limiter promises holds on the wire; and the number of requests of a     *)
(* call is bounded.                                                        *)
(*                                                                         *)
(* The invariant behind it: the log is in the order of time, whatever has  *)
(* left the deque is older than the window, and every sleep ends after the *)
(* grant it waits for has left.                                            *)
(***************************************************************************)
EXTENDS MCNetwork, FiniteSetTheorems, Sums_proofs

-----------------------------------------------------------------------------
(* The limiter                                                             *)

InOrder ==
    /\ \A a, b \in 1 .. Len(log) : a <= b => log[a].time <= log[b].time
    /\ \A b \in 1 .. Len(log) : log[b].time <= now

GoneAreExpired == \A i \in 1 .. first - 1 : Expired(i)

SleepsSuffice ==
    \A c \in Callers : asleep[c] # None =>
        /\ asleep[c].oldest \in 1 .. Len(log)
        /\ log[asleep[c].oldest].time + Window < asleep[c].wake

LimiterInv ==
    /\ LimiterOK
    /\ InOrder
    /\ GoneAreExpired
    /\ SleepsSuffice
    /\ WindowNeverExceeded

-----------------------------------------------------------------------------
LEMMA SeqElements ==
    ASSUME NEW Items, NEW s \in Seq(Items)
    PROVE  Len(s) \in Nat /\ \A i \in 1 .. Len(s) : s[i] \in Items
  OBVIOUS

LEMMA AppendElements ==
    ASSUME NEW Items, NEW s \in Seq(Items), NEW x \in Items
    PROVE  /\ Append(s, x) \in Seq(Items)
           /\ Len(Append(s, x)) = Len(s) + 1
           /\ \A i \in 1 .. Len(s) : Append(s, x)[i] = s[i]
           /\ Append(s, x)[Len(s) + 1] = x
  OBVIOUS

(* A sum of weights is an integer and grows with its length.               *)
LEMMA GrantedGrows ==
    ASSUME LimiterOK, NEW n \in 0 .. Len(log), NEW m \in 0 .. n
    PROVE  Granted(n) \in Int /\ Granted(m) \in Int /\ Granted(m) <= Granted(n)
<1> DEFINE w == [i \in 1 .. Len(log) |-> log[i].weight]
<1>1. Len(log) \in Nat /\ \A i \in 1 .. Len(log) : w[i] \in Nat
  <2>1. log \in Seq([time : Nat, weight : Nat \ {0}])
    BY DEF LimiterOK
  <2>2. Len(log) \in Nat /\ \A i \in 1 .. Len(log) : log[i] \in [time : Nat, weight : Nat \ {0}]
    BY <2>1, SeqElements
  <2> QED BY <2>2
<1>2. /\ \A i \in 1 .. n : w[i] \in Nat /\ w[i] \in Int
      /\ \A i \in 1 .. m : w[i] \in Int
  BY <1>1
<1> HIDE DEF w
<1>3. SumTo(w, n) \in Int
  BY <1>1, <1>2, SumToInt
<1>4. SumTo(w, m) \in Int
  BY <1>1, <1>2, SumToInt
<1>5. SumTo(w, m) <= SumTo(w, n)
  BY <1>1, <1>2, SumToGrows
<1> QED BY <1>3, <1>4, <1>5 DEF Granted, w

(* What a new grant adds to the sums.                                      *)
LEMMA GrantedOneMore ==
    ASSUME LimiterOK, NEW w \in Nat, NEW t \in Nat,
           log' = Append(log, [time |-> t, weight |-> w])
    PROVE  /\ \A n \in 0 .. Len(log) : Granted(n)' = Granted(n)
           /\ Granted(Len(log))' = Granted(Len(log)) + w
<1> DEFINE old == [i \in 1 .. Len(log) |-> log[i].weight]
           new == [i \in 1 .. Len(log') |-> log'[i].weight]
<1>1. /\ Len(log) \in Nat /\ Len(log') = Len(log) + 1
      /\ \A i \in 1 .. Len(log) : log'[i] = log[i]
      /\ log'[Len(log) + 1].weight = w
  BY DEF LimiterOK
<1>2. /\ \A i \in 1 .. Len(log) : new[i] = old[i]
      /\ new[Len(log) + 1] = w
  BY <1>1
<1> HIDE DEF old, new
<1>3. ASSUME NEW n \in 0 .. Len(log) PROVE SumTo(new, n) = SumTo(old, n)
  <2>1. n \in Nat /\ \A i \in 1 .. n : new[i] = old[i]
    BY <1>1, <1>2
  <2> QED BY <2>1, SumToAgree
<1>4. SumTo(new, Len(log) + 1) = SumTo(new, Len(log)) + w
  BY <1>1, <1>2, SumToStep
<1>5. ASSUME NEW n \in 0 .. Len(log) PROVE Granted(n)' = Granted(n)
  <2>1. Granted(n)' = SumTo(new, n) /\ Granted(n) = SumTo(old, n)
    BY DEF Granted, old, new
  <2> QED BY <1>3, <2>1
<1>6. Granted(Len(log))' = Granted(Len(log)) + w
  <2>1. Granted(Len(log))' = SumTo(new, Len(log')) /\ Granted(Len(log)) = SumTo(old, Len(log))
    BY DEF Granted, old, new
  <2>2. Len(log) \in 0 .. Len(log)
    BY <1>1
  <2> QED BY <1>1, <1>3, <1>4, <2>1, <2>2
<1> QED BY <1>5, <1>6

(* The slack makes up for the milliseconds that the wait is cut to.        *)
LEMMA WaitSuffices ==
    ASSUME NEW left \in Int
    PROVE  Grain * (left \div Grain) + Slack > left
<1>1. Grain \in Nat /\ Grain > 0 /\ Slack \in Nat /\ Slack >= Grain
  BY LimiterAssumption
<1>2. left \div Grain \in Int /\ left % Grain \in 0 .. Grain - 1
      /\ left = Grain * (left \div Grain) + (left % Grain)
  BY <1>1
<1>3. Grain * (left \div Grain) = left - (left % Grain) /\ (left % Grain) < Grain
  BY <1>1, <1>2
<1> QED BY <1>1, <1>2, <1>3

LEMMA CapIsInteger == Cap \in Int
<1>1. MaxWeight * (100 - Margin) \in Int
  BY LimiterAssumption
<1> QED BY <1>1 DEF Cap

LEMMA WindowIsNatural == Window \in Nat
BY LimiterAssumption

-----------------------------------------------------------------------------
(* What the invariant gives in terms of plain numbers.                     *)
LEMMA Numbers ==
    ASSUME LimiterInv
    PROVE  /\ now \in Nat /\ Len(log) \in Nat /\ first \in 1 .. Len(log) + 1
           /\ \A i \in 1 .. Len(log) : log[i].time \in Nat /\ log[i].time <= now
           /\ \A i \in 1 .. Len(log) : log[i].weight \in Nat \ {0}
           /\ \A i \in 1 .. first - 1 : log[i].time < now - Window
<1>1. log \in Seq([time : Nat, weight : Nat \ {0}])
  BY DEF LimiterInv, LimiterOK
<1>2. Len(log) \in Nat /\ \A i \in 1 .. Len(log) : log[i] \in [time : Nat, weight : Nat \ {0}]
  BY <1>1, SeqElements
<1> QED BY <1>2 DEF LimiterInv, LimiterOK, InOrder, GoneAreExpired, Expired

(* A turn of the loop leaves nothing but expired grants behind.            *)
LEMMA PrunedAreExpired ==
    ASSUME LimiterInv, NEW f, Pruned(f)
    PROVE  /\ f \in 1 .. Len(log) + 1
           /\ \A i \in 1 .. f - 1 : log[i].time < now - Window
           /\ f <= Len(log) => log[f].time >= now - Window
<1>1. /\ f \in first .. Len(log) + 1
      /\ \A i \in first .. f - 1 : log[i].time < now - Window
      /\ f <= Len(log) => ~(log[f].time < now - Window)
  BY DEF Pruned, Expired
<1>2. f \in 1 .. Len(log) + 1
  BY <1>1, Numbers
<1>3. ASSUME NEW i \in 1 .. f - 1 PROVE log[i].time < now - Window
  <2>1. i \in 1 .. first - 1 \/ i \in first .. f - 1
    BY <1>1, Numbers
  <2> QED BY <2>1, <1>1, Numbers
<1>4. ASSUME f <= Len(log) PROVE log[f].time >= now - Window
  <2>1. f \in 1 .. Len(log)
    BY <1>2, <1>4, Numbers
  <2> QED BY <1>1, <1>4, <2>1, Numbers, WindowIsNatural
<1> QED BY <1>2, <1>3, <1>4

LEMMA GrantKeepsInv ==
    ASSUME LimiterInv, NEW c \in Callers, NEW w \in Nat \ {0}, Grant(c, w)
    PROVE  LimiterInv'
<1> DEFINE g == [time |-> now, weight |-> w]
<1>1. PICK f \in first .. Len(log) + 1 : Pruned(f) /\ Fits(f, w) /\ first' = f
  BY DEF Grant
<1>2. /\ log' = Append(log, g)
      /\ asleep' = [asleep EXCEPT ![c] = None]
      /\ now' = now /\ raised' = raised
  BY DEF Grant
<1>3. /\ f \in 1 .. Len(log) + 1
      /\ \A i \in 1 .. f - 1 : log[i].time < now - Window
  BY <1>1, PrunedAreExpired
<1>4. /\ log' \in Seq([time : Nat, weight : Nat \ {0}])
      /\ Len(log') = Len(log) + 1
      /\ \A i \in 1 .. Len(log) : log'[i] = log[i]
      /\ log'[Len(log) + 1].time = now
  <2>1. log \in Seq([time : Nat, weight : Nat \ {0}]) /\ g \in [time : Nat, weight : Nat \ {0}]
    BY DEF LimiterInv, LimiterOK
  <2> HIDE DEF g
  <2>2. log' \in Seq([time : Nat, weight : Nat \ {0}]) /\ Len(log') = Len(log) + 1
        /\ (\A i \in 1 .. Len(log) : log'[i] = log[i]) /\ log'[Len(log) + 1] = g
    BY <1>2, <2>1, AppendElements
  <2> QED BY <2>2 DEF g
<1> HIDE DEF g
<1>5. LimiterOK'
  BY <1>1, <1>2, <1>3, <1>4, Numbers DEF LimiterInv, LimiterOK
<1>6. InOrder'
  <2>1. ASSUME NEW a \in 1 .. Len(log'), NEW b \in 1 .. Len(log'), a <= b
        PROVE  log'[a].time <= log'[b].time /\ log'[b].time <= now
    <3>1. CASE b = Len(log) + 1
      <4>1. log'[b].time = now
        BY <1>4, <3>1
      <4>2. CASE a = Len(log) + 1
        BY <1>4, <4>1, <4>2, Numbers
      <4>3. CASE a \in 1 .. Len(log)
        <5>1. log'[a] = log[a] /\ log[a].time <= now
          BY <1>4, <4>3, Numbers
        <5> QED BY <4>1, <5>1, Numbers
      <4> QED BY <1>4, <4>2, <4>3, Numbers
    <3>2. CASE b \in 1 .. Len(log)
      <4>1. a \in 1 .. Len(log)
        BY <2>1, <3>2, Numbers
      <4> QED BY <1>4, <2>1, <3>2, <4>1, Numbers DEF LimiterInv, InOrder
    <3> QED BY <1>4, <3>1, <3>2, Numbers
  <2>2. ASSUME NEW b \in 1 .. Len(log')
        PROVE  log'[b].time <= now'
    <3>1. CASE b = Len(log) + 1
      BY <1>2, <1>4, <3>1, Numbers
    <3>2. CASE b \in 1 .. Len(log)
      BY <1>2, <1>4, <3>2, Numbers
    <3> QED BY <1>4, <3>1, <3>2, Numbers
  <2> QED BY <2>1, <2>2 DEF InOrder
<1>7. GoneAreExpired'
  <2> SUFFICES ASSUME NEW i \in 1 .. first' - 1
               PROVE  log'[i].time < now' - Window
    BY DEF GoneAreExpired, Expired
  <2>1. i \in 1 .. f - 1 /\ i \in 1 .. Len(log)
    BY <1>1, <1>3, Numbers
  <2>2. log[i].time < now - Window /\ log'[i] = log[i]
    BY <1>3, <1>4, <2>1
  <2> QED BY <1>2, <2>2
<1>8. SleepsSuffice'
  BY <1>2, <1>4, Numbers DEF LimiterInv, LimiterOK, SleepsSuffice
<1>9. WindowNeverExceeded'
  <2> SUFFICES ASSUME NEW b \in 1 .. Len(log'), NEW a \in 1 .. b,
                      log'[b].time - log'[a].time <= Window
               PROVE  Between(a, b)' <= Cap
    BY DEF WindowNeverExceeded
  <2>0. LimiterOK /\ w \in Nat /\ now \in Nat /\ log' = Append(log, [time |-> now, weight |-> w])
    BY <1>2, Numbers DEF LimiterInv, g
  <2>1. /\ \A n \in 0 .. Len(log) : Granted(n)' = Granted(n)
        /\ Granted(Len(log))' = Granted(Len(log)) + w
    BY <2>0, GrantedOneMore
  <2>2. Between(a, b)' = Granted(b)' - Granted(a - 1)'
    BY DEF Between
  <2>3. a - 1 \in 0 .. Len(log)
    <3>1. Len(log) \in Nat /\ Len(log') = Len(log) + 1
      BY <1>4, Numbers
    <3> QED BY <3>1
  <2>4. CASE b \in 1 .. Len(log)
    <3>1. a \in 1 .. Len(log) /\ log[b].time - log[a].time <= Window
      <4>1. a \in 1 .. Len(log)
        BY <2>4, Numbers
      <4>2. log'[b] = log[b] /\ log'[a] = log[a]
        BY <1>4, <2>4, <4>1
      <4> QED BY <4>1, <4>2
    <3>2. Between(a, b) <= Cap
      BY <2>4, <3>1 DEF LimiterInv, WindowNeverExceeded
    <3>3. b \in 0 .. Len(log)
      BY <2>4, Numbers
    <3> QED BY <2>1, <2>2, <2>3, <3>2, <3>3 DEF Between
  <2>5. CASE b = Len(log) + 1
    <3>1. f <= a
      <4>1. SUFFICES ASSUME a <= f - 1 PROVE FALSE
        BY <1>3, <1>4, Numbers
      <4>2. a \in 1 .. f - 1 /\ a \in 1 .. Len(log)
        BY <1>3, <4>1, Numbers
      <4>3. log[a].time < now - Window /\ log'[a] = log[a] /\ log'[b].time = now
        BY <1>3, <1>4, <2>5, <4>2
      <4>4. log[a].time \in Nat /\ now \in Nat /\ now - log[a].time <= Window
        BY <4>2, <4>3, Numbers
      <4> QED BY <4>3, <4>4, WindowIsNatural
    <3>2. /\ Granted(f - 1) \in Int /\ Granted(a - 1) \in Int /\ Granted(Len(log)) \in Int
          /\ Granted(f - 1) <= Granted(a - 1)
      <4>1. f - 1 \in 0 .. a - 1 /\ Len(log) \in 0 .. Len(log) /\ a - 1 \in 0 .. Len(log)
        BY <1>3, <2>3, <3>1, Numbers
      <4> QED BY <2>0, <4>1, GrantedGrows
    <3>3. Granted(Len(log)) - Granted(f - 1) + w <= Cap
      BY <1>1 DEF Fits, Between
    <3>4. Granted(b)' = Granted(Len(log)) + w
      <4>1. b = Len(log)'
        BY <1>4, <2>5
      <4> QED BY <2>1, <4>1 DEF Granted
    <3>5. Granted(a - 1)' = Granted(a - 1)
      BY <2>1, <2>3
    <3> QED BY <2>2, <3>2, <3>3, <3>4, <3>5, CapIsInteger
  <2> QED BY <1>4, <2>4, <2>5, Numbers
<1> QED BY <1>5, <1>6, <1>7, <1>8, <1>9 DEF LimiterInv

(* A sleeper waits until the grant it looks at has left the window.        *)
LEMMA WaitIsEnough ==
    ASSUME LimiterInv, NEW f \in first .. Len(log), Pruned(f)
    PROVE  Wait(f) \in Nat /\ Wait(f) > log[f].time + Window - now
<1>1. log[f].time \in Nat /\ log[f].time >= now - Window
  BY PrunedAreExpired, Numbers
<1> DEFINE left == log[f].time + Window - now
<1>2. left \in Nat
  BY <1>1, Numbers, WindowIsNatural
<1> HIDE DEF left
<1>3. Grain * (left \div Grain) + Slack > left
  BY <1>2, WaitSuffices
<1>4. Grain * (left \div Grain) + Slack \in Int
  <2>1. left \div Grain \in Int /\ Grain \in Int /\ Slack \in Int
    BY <1>2, LimiterAssumption
  <2>2. Grain * (left \div Grain) \in Int
    BY <2>1
  <2> QED BY <2>1, <2>2
<1>5. Wait(f) = Grain * (left \div Grain) + Slack
  BY DEF Wait, left
<1>6. Wait(f) \in Nat /\ Wait(f) > left
  BY <1>2, <1>3, <1>4, <1>5
<1> QED BY <1>6 DEF left

(* Sleep makes a sleeper of c, for the weight it asked for, and of no other. *)
LEMMA SleeperMade ==
    ASSUME LimiterInv, NEW c \in Callers, NEW w \in Nat \ {0}, Sleep(c, w)
    PROVE  /\ asleep'[c] # None /\ asleep'[c].weight = w
           /\ \A d \in Callers : d # c => asleep'[d] = asleep[d]
<1>1. PICK f \in first .. Len(log) :
          /\ Pruned(f)
          /\ asleep' = [asleep EXCEPT ![c] =
                           [weight |-> w, wake |-> now + Wait(f), oldest |-> f]]
  BY DEF Sleep
<1>2. f \in Nat /\ Wait(f) \in Nat /\ now \in Nat
  BY <1>1, WaitIsEnough, Numbers
<1>3. [weight |-> w, wake |-> now + Wait(f), oldest |-> f] \in Sleeper
  BY <1>2 DEF Sleeper
<1>4. asleep \in [Callers -> {None} \cup Sleeper]
  BY DEF LimiterInv, LimiterOK
<1> QED BY <1>1, <1>3, <1>4, NoneIsNoSleeper

LEMMA SleepKeepsInv ==
    ASSUME LimiterInv, NEW c \in Callers, NEW w \in Nat \ {0}, Sleep(c, w)
    PROVE  LimiterInv'
<1>1. PICK f \in first .. Len(log) :
          /\ Pruned(f)
          /\ first' = f
          /\ asleep' = [asleep EXCEPT ![c] =
                           [weight |-> w, wake |-> now + Wait(f), oldest |-> f]]
  BY DEF Sleep
<1>2. now' = now /\ log' = log /\ raised' = raised
  BY DEF Sleep
<1>3. /\ f \in 1 .. Len(log)
      /\ \A i \in 1 .. f - 1 : log[i].time < now - Window
      /\ log[f].time \in Nat /\ log[f].time >= now - Window /\ log[f].time <= now
  BY <1>1, PrunedAreExpired, Numbers
<1>4. Wait(f) \in Nat /\ Wait(f) > log[f].time + Window - now
  BY <1>1, WaitIsEnough
<1>5. [weight |-> w, wake |-> now + Wait(f), oldest |-> f] \in Sleeper
  BY <1>3, <1>4, Numbers DEF Sleeper
<1>6. LimiterOK'
  BY <1>1, <1>2, <1>3, <1>5, Numbers DEF LimiterInv, LimiterOK
<1>7. InOrder'
  BY <1>2 DEF LimiterInv, InOrder
<1>8. GoneAreExpired'
  BY <1>1, <1>2, <1>3 DEF GoneAreExpired, Expired
<1>9. SleepsSuffice'
  <2> SUFFICES ASSUME NEW d \in Callers, asleep'[d] # None
               PROVE  /\ asleep'[d].oldest \in 1 .. Len(log)
                      /\ log[asleep'[d].oldest].time + Window < asleep'[d].wake
    BY <1>2 DEF SleepsSuffice
  <2>1. CASE d = c
    <3>1. asleep'[d].oldest = f /\ asleep'[d].wake = now + Wait(f)
      BY <1>1, <2>1 DEF LimiterInv, LimiterOK
    <3> QED BY <1>3, <1>4, <3>1, Numbers, WindowIsNatural
  <2>2. CASE d # c
    <3>1. asleep'[d] = asleep[d]
      BY <1>1, <2>2 DEF LimiterInv, LimiterOK
    <3> QED BY <3>1 DEF LimiterInv, SleepsSuffice
  <2> QED BY <2>1, <2>2
<1>10. WindowNeverExceeded'
  BY <1>2 DEF LimiterInv, WindowNeverExceeded, Between, Granted
<1> QED BY <1>6, <1>7, <1>8, <1>9, <1>10 DEF LimiterInv

LEMMA RaiseKeepsInv ==
    ASSUME LimiterInv, NEW c \in Callers, NEW w, Raise(c, w)
    PROVE  LimiterInv'
<1>1. /\ Pruned(Len(log) + 1) /\ first' = Len(log) + 1
      /\ asleep' = [asleep EXCEPT ![c] = None]
      /\ raised' = raised \cup {c}
      /\ now' = now /\ log' = log
  BY DEF Raise
<1>2. \A i \in 1 .. Len(log) : log[i].time < now - Window
  <2>1. \A i \in 1 .. Len(log) + 1 - 1 : log[i].time < now - Window
    BY <1>1, PrunedAreExpired
  <2> QED BY <2>1, Numbers
<1>3. LimiterOK'
  BY <1>1, Numbers DEF LimiterInv, LimiterOK
<1>4. GoneAreExpired'
  BY <1>1, <1>2, Numbers DEF GoneAreExpired, Expired
<1>5. SleepsSuffice'
  BY <1>1 DEF LimiterInv, LimiterOK, SleepsSuffice
<1> QED BY <1>1, <1>3, <1>4, <1>5
        DEF LimiterInv, InOrder, WindowNeverExceeded, Between, Granted

LEMMA CancelKeepsInv ==
    ASSUME LimiterInv, NEW c \in Callers, Cancel(c)
    PROVE  LimiterInv'
<1>1. asleep' = [asleep EXCEPT ![c] = None] /\ UNCHANGED <<now, log, first, raised>>
  BY DEF Cancel
<1>2. LimiterOK' /\ SleepsSuffice'
  BY <1>1 DEF LimiterInv, LimiterOK, SleepsSuffice
<1> QED BY <1>1, <1>2
        DEF LimiterInv, InOrder, GoneAreExpired, Expired, WindowNeverExceeded, Between, Granted

LEMMA TimeKeepsInv ==
    ASSUME LimiterInv, TimePasses
    PROVE  LimiterInv'
<1>1. now' = now + 1 /\ UNCHANGED <<log, first, asleep, raised>>
  BY DEF TimePasses, limiter
<1>2. LimiterOK' /\ SleepsSuffice' /\ WindowNeverExceeded'
  BY <1>1 DEF LimiterInv, LimiterOK, SleepsSuffice, WindowNeverExceeded, Between, Granted
<1>3. InOrder'
  BY <1>1, Numbers DEF LimiterInv, InOrder
<1>4. GoneAreExpired'
  <2>1. ASSUME NEW i \in 1 .. first - 1 PROVE log[i].time < now + 1 - Window
    <3>1. i \in 1 .. Len(log) /\ log[i].time < now - Window
      BY Numbers
    <3> QED BY <3>1, Numbers, WindowIsNatural
  <2>2. first' = first /\ log' = log /\ now' = now + 1
    BY <1>1
  <2>3. ASSUME NEW i \in 1 .. first' - 1 PROVE log'[i].time < now' - Window
    <3>1. i \in 1 .. first - 1
      BY <2>2
    <3>2. log[i].time < now + 1 - Window
      BY <2>1, <3>1
    <3>3. log'[i] = log[i] /\ now' = now + 1 /\ now \in Nat
      BY <2>2, Numbers
    <3> QED BY <3>2, <3>3, WindowIsNatural
  <2> QED BY <2>3 DEF GoneAreExpired, Expired
<1> QED BY <1>2, <1>3, <1>4 DEF LimiterInv

-----------------------------------------------------------------------------
LEMMA InvInit == NewLimiter => LimiterInv
<1> SUFFICES ASSUME NewLimiter PROVE LimiterInv
  OBVIOUS
<1>1. now = 0 /\ log = <<>> /\ first = 1 /\ asleep = [c \in Callers |-> None] /\ raised = {}
  BY DEF NewLimiter
<1>2. LimiterOK
  BY <1>1 DEF LimiterOK
<1> QED BY <1>1, <1>2
        DEF LimiterInv, InOrder, GoneAreExpired, SleepsSuffice, WindowNeverExceeded

\* The weight asked for is positive: a caller's by assumption, a sleeper's by
\* its type.
LEMMA WeightsPositive ==
    ASSUME LimiterInv
    PROVE  /\ \A w \in Weights : w \in Nat \ {0}
           /\ \A c \in Callers : asleep[c] # None =>
                  asleep[c] \in Sleeper /\ asleep[c].weight \in Nat \ {0}
<1>1. \A w \in Weights : w \in Nat \ {0}
  BY LimiterAssumption
<1>2. ASSUME NEW c \in Callers, asleep[c] # None PROVE asleep[c] \in Sleeper
  BY <1>2 DEF LimiterInv, LimiterOK
<1> QED BY <1>1, <1>2 DEF Sleeper

LEMMA AcquireKeepsInv ==
    ASSUME LimiterInv, NEW c \in Callers, NEW w \in Nat \ {0}, Acquire(c, w)
    PROVE  LimiterInv'
BY GrantKeepsInv, SleepKeepsInv, RaiseKeepsInv DEF Acquire

LEMMA InvStep == LimiterInv /\ [LimiterNext]_lvars => LimiterInv'
<1> SUFFICES ASSUME LimiterInv, [LimiterNext]_lvars PROVE LimiterInv'
  OBVIOUS
<1>1. ASSUME NEW c \in Callers, Arrive(c) PROVE LimiterInv'
  BY <1>1, WeightsPositive, AcquireKeepsInv DEF Arrive
<1>2. ASSUME NEW c \in Callers, Retry(c) PROVE LimiterInv'
  BY <1>2, WeightsPositive, AcquireKeepsInv DEF Retry, Awake
<1>3. ASSUME NEW c \in Callers, Cancel(c) PROVE LimiterInv'
  BY <1>3, CancelKeepsInv
<1>4. CASE TimePasses
  BY <1>4, TimeKeepsInv
<1>5. CASE UNCHANGED lvars
  BY <1>5 DEF lvars, limiter, LimiterInv, LimiterOK, InOrder, GoneAreExpired, Expired,
              SleepsSuffice, WindowNeverExceeded, Between, Granted
<1> QED BY <1>1, <1>2, <1>3, <1>4, <1>5 DEF LimiterNext

\* The limiter always grants within its window and capacity, and whoever sleeps
\* will wake to find room: the inductive invariant of TokenBucketRateLimiter.acquire.
THEOREM LimiterInvariant == LimiterSpec => []LimiterInv
<1> QED BY InvInit, InvStep, PTL DEF LimiterSpec

(* Types, for every number of callers and every limit.                     *)
THEOREM LimiterTypeCorrect == LimiterSpec => []LimiterOK
<1>1. LimiterInv => LimiterOK
  BY DEF LimiterInv
<1> QED BY <1>1, LimiterInvariant, PTL

(* "We never oversubscribe": in no span of length Window are grants made   *)
(* that weigh more than Cap together, whoever asks, sleeps, is cancelled   *)
(* or overtaken.                                                           *)
THEOREM NeverOversubscribed == LimiterSpec => []WindowNeverExceeded
<1>1. LimiterInv => WindowNeverExceeded
  BY DEF LimiterInv
<1> QED BY <1>1, LimiterInvariant, PTL

-----------------------------------------------------------------------------
(* A retry that has to sleep again sleeps for a later grant.               *)
LEMMA RetryAdvances ==
    ASSUME LimiterInv, NEW c \in Callers, Awake(c), NEW w, Sleep(c, w)
    PROVE  asleep'[c].oldest > asleep[c].oldest
<1> DEFINE was == asleep[c].oldest
<1>1. PICK f \in first .. Len(log) :
          /\ Pruned(f)
          /\ asleep' = [asleep EXCEPT ![c] =
                           [weight |-> w, wake |-> now + Wait(f), oldest |-> f]]
  BY DEF Sleep
<1>2. asleep'[c].oldest = f
  BY <1>1 DEF LimiterInv, LimiterOK
<1>3. /\ was \in 1 .. Len(log)
      /\ log[was].time + Window < asleep[c].wake
      /\ asleep[c].wake <= now /\ asleep[c].wake \in Nat
  BY WeightsPositive DEF Awake, LimiterInv, SleepsSuffice, Sleeper
<1> HIDE DEF was
<1>4. f \in 1 .. Len(log) /\ log[f].time >= now - Window
  BY <1>1, PrunedAreExpired, Numbers
<1>5. f > was
  <2>1. SUFFICES ASSUME f <= was PROVE FALSE
    BY <1>3, <1>4
  <2>2. log[f].time <= log[was].time
    BY <1>3, <1>4, <2>1 DEF LimiterInv, InOrder
  <2>3. log[f].time \in Nat /\ log[was].time \in Nat
    BY <1>3, <1>4, Numbers
  <2>4. now \in Nat
    BY Numbers
  <2>5. log[was].time < now - Window
    BY <1>3, <2>3, <2>4, WindowIsNatural
  <2>6. log[f].time >= now - Window
    BY <1>4
  <2> QED BY <2>2, <2>3, <2>4, <2>5, <2>6, WindowIsNatural
<1> QED BY <1>2, <1>5 DEF was

(* No call sleeps twice for the same grant: cut to whole milliseconds, a   *)
(* sleep still ends after the grant it waits for has left the window.      *)
THEOREM SleepsOncePerGrant == LimiterSpec => SleepOutlastsGrant
<1> DEFINE Later == \A c \in Callers :
               asleep[c] # None /\ asleep'[c] # None /\ asleep'[c] # asleep[c] =>
                   asleep'[c].oldest > asleep[c].oldest
<1>1. LimiterInv /\ [LimiterNext]_lvars => [Later]_lvars
  <2> SUFFICES ASSUME LimiterInv, LimiterNext,
                      NEW c \in Callers,
                      asleep[c] # None, asleep'[c] # None, asleep'[c] # asleep[c]
               PROVE  asleep'[c].oldest > asleep[c].oldest
    OBVIOUS
  <2>0. asleep \in [Callers -> {None} \cup Sleeper]
    BY DEF LimiterInv, LimiterOK
  <2>1. ASSUME NEW d \in Callers, NEW w, Acquire(d, w)
        PROVE  d = c /\ Sleep(c, w)
    BY <2>0, <2>1 DEF Acquire, Grant, Sleep, Raise
  <2>2. ASSUME NEW d \in Callers, Arrive(d) PROVE FALSE
    BY <2>1, <2>2 DEF Arrive
  <2>3. ASSUME NEW d \in Callers, Retry(d) PROVE asleep'[c].oldest > asleep[c].oldest
    <3>1. d = c /\ Sleep(c, asleep[c].weight) /\ Awake(c)
      BY <2>1, <2>3 DEF Retry
    <3> QED BY <3>1, RetryAdvances
  <2>4. ASSUME NEW d \in Callers, Cancel(d) PROVE FALSE
    BY <2>0, <2>4 DEF Cancel
  <2>5. CASE TimePasses
    BY <2>5 DEF TimePasses, limiter
  <2> QED BY <2>2, <2>3, <2>4, <2>5 DEF LimiterNext
<1> QED BY <1>1, LimiterInvariant, PTL DEF LimiterSpec, SleepOutlastsGrant

-----------------------------------------------------------------------------
(* The client                                                              *)

\* Request i is the one that grant i was for.
Paid ==
    /\ Len(sent) = Len(log)
    /\ \A i \in 1 .. Len(log) : sent[i].time = log[i].time /\ sent[i].weight = log[i].weight

\* The limiter and its caller agree on the weight.
Weighed ==
    \A c \in Callers :
        /\ call[c].stage # "Idle" => call[c].weight \in Weights
        /\ asleep[c] # None => asleep[c].weight = call[c].weight

\* A call that has not sent the request of its attempt yet is one behind.
Counted ==
    \A c \in Callers :
        /\ Requests(c) <= call[c].attempt + 1
        /\ call[c].stage \in {"Idle", "Acquiring"} => Requests(c) <= call[c].attempt

Recorded == \A c \in Callers : call[c].stage \in {"Pausing", "Failed"} => call[c].error # None

ClientInv ==
    /\ LimiterInv
    /\ ClientOK
    /\ Paid
    /\ Weighed
    /\ Counted
    /\ Recorded

-----------------------------------------------------------------------------
(* A request counts for its own call and for no other.                     *)
LEMMA RequestsOneMore ==
    ASSUME ClientOK, NEW c \in Callers, NEW t \in Nat, NEW w \in Nat \ {0},
           sent' = Append(sent, [time |-> t, weight |-> w, by |-> c]),
           NEW d \in Callers
    PROVE  /\ Requests(d) \in Int
           /\ Requests(d)' = Requests(d) + IF d = c THEN 1 ELSE 0
<1> DEFINE x == [time |-> t, weight |-> w, by |-> c]
           Items == [time : Nat, weight : Nat \ {0}, by : Callers]
           old == [i \in 1 .. Len(sent) |-> IF sent[i].by = d THEN 1 ELSE 0]
           new == [i \in 1 .. Len(sent') |-> IF sent'[i].by = d THEN 1 ELSE 0]
<1>1. sent \in Seq(Items) /\ x \in Items /\ sent' = Append(sent, x) /\ x.by = c
  BY DEF ClientOK
<1> HIDE DEF x, Items
<1>2. /\ Len(sent) \in Nat /\ Len(sent') = Len(sent) + 1
      /\ \A i \in 1 .. Len(sent) : sent'[i] = sent[i]
      /\ sent'[Len(sent) + 1] = x
  BY <1>1, SeqElements, AppendElements
<1>3. /\ \A i \in 1 .. Len(sent) : new[i] = old[i] /\ old[i] \in Int
      /\ new[Len(sent) + 1] = IF d = c THEN 1 ELSE 0
  BY <1>1, <1>2
<1>4. Requests(d) = SumTo(old, Len(sent)) /\ Requests(d)' = SumTo(new, Len(sent'))
  BY DEF Requests
<1> HIDE DEF old, new
<1>5. SumTo(new, Len(sent)) = SumTo(old, Len(sent)) /\ SumTo(old, Len(sent)) \in Int
  BY <1>2, <1>3, SumToAgree, SumToInt
<1>6. SumTo(new, Len(sent) + 1) = SumTo(new, Len(sent)) + new[Len(sent) + 1]
  BY <1>2, SumToStep
<1> QED BY <1>2, <1>3, <1>4, <1>5, <1>6

LEMMA RequestsAreCounted ==
    ASSUME ClientOK, NEW d \in Callers
    PROVE  Requests(d) \in Int
<1> DEFINE w == [i \in 1 .. Len(sent) |-> IF sent[i].by = d THEN 1 ELSE 0]
<1>1. Len(sent) \in Nat
  BY DEF ClientOK
<1>2. \A i \in 1 .. Len(sent) : w[i] \in Int
  OBVIOUS
<1>3. Requests(d) = SumTo(w, Len(sent))
  BY DEF Requests
<1> HIDE DEF w
<1> QED BY <1>1, <1>2, <1>3, SumToInt

\* What the invariant says of one call.
LEMMA CallFacts ==
    ASSUME ClientInv, NEW c \in Callers
    PROVE  /\ call[c] \in CallState /\ call[c].attempt \in 0 .. MaxRetries
           /\ call[c].stage \in Stages /\ call[c].weight \in Nat
           /\ call[c].backoff \in Nat /\ call[c].until \in Nat
           /\ call[c].stage # "Idle" => call[c].weight \in Weights
           /\ asleep[c] # None <=> call[c].stage = "Acquiring"
           /\ Requests(c) \in Int /\ Requests(c) <= call[c].attempt + 1
           /\ call[c].stage \in {"Idle", "Acquiring"} => Requests(c) <= call[c].attempt
           /\ MaxRetries \in Nat
<1>1. ClientOK /\ call[c] \in CallState
  BY DEF ClientInv, ClientOK
<1>2. Requests(c) \in Int
  BY <1>1, RequestsAreCounted
<1>3. MaxRetries \in Nat
  BY ClientAssumption
<1> QED BY <1>1, <1>2, <1>3 DEF ClientInv, ClientOK, Weighed, Counted, CallState

\* The state of c becomes q, the other calls stay as they are.
LEMMA OthersUnchanged ==
    ASSUME ClientInv, NEW c \in Callers, NEW q \in CallState, call' = [call EXCEPT ![c] = q]
    PROVE  /\ call' \in [Callers -> CallState]
           /\ call'[c] = q
           /\ \A d \in Callers : d # c => call'[d] = call[d]
BY DEF ClientInv, ClientOK

\* The stage and the error of a call change.
LEMMA Restaged ==
    ASSUME NEW r \in CallState, NEW s \in Stages
    PROVE  LET q == [r EXCEPT !.stage = s]
           IN  /\ q \in CallState /\ q.stage = s /\ q.weight = r.weight
               /\ q.attempt = r.attempt /\ q.error = r.error
BY DEF CallState

LEMMA StagedWithError ==
    ASSUME NEW r \in CallState, NEW s \in Stages, NEW e \in Errors
    PROVE  LET q == [r EXCEPT !.stage = s, !.error = e]
           IN  /\ q \in CallState /\ q.stage = s /\ q.weight = r.weight
               /\ q.attempt = r.attempt /\ q.error = e
BY DEF CallState

-----------------------------------------------------------------------------
(* A turn of the loop over attempts: granted, put to sleep, or refused.    *)
LEMMA AttemptKeepsInv ==
    ASSUME ClientInv, NEW c \in Callers, NEW r \in CallState,
           r.weight \in Weights, Requests(c) <= r.attempt,
           Attempt(c, r)
    PROVE  ClientInv'
<1>0. /\ r.weight \in Nat \ {0} /\ r.attempt \in 0 .. MaxRetries
      /\ LimiterInv /\ ClientOK /\ Paid /\ Weighed /\ Counted /\ Recorded
      /\ MaxRetries \in Nat
      /\ asleep \in [Callers -> {None} \cup Sleeper]
      /\ Requests(c) \in Int
  BY LimiterAssumption, CallFacts DEF ClientInv, CallState, LimiterInv, LimiterOK
<1>1. CASE /\ Grant(c, r.weight)
           /\ call' = [call EXCEPT ![c] = [r EXCEPT !.stage = "InFlight"]]
           /\ sent' = Append(sent, [time |-> now, weight |-> r.weight, by |-> c])
  <2> DEFINE q == [r EXCEPT !.stage = "InFlight"]
             Items == [time : Nat, weight : Nat \ {0}, by : Callers]
             L == [time : Nat, weight : Nat \ {0}]
             x == [time |-> now, weight |-> r.weight, by |-> c]
             g == [time |-> now, weight |-> r.weight]
  <2>1. /\ q \in CallState /\ q.stage = "InFlight" /\ q.weight = r.weight
        /\ q.attempt = r.attempt
    BY Restaged DEF Stages
  <2>2. call' = [call EXCEPT ![c] = q]
    BY <1>1
  <2>3. log' = Append(log, g) /\ asleep' = [asleep EXCEPT ![c] = None]
    BY <1>1 DEF Grant
  <2>4. /\ sent \in Seq(Items) /\ x \in Items /\ sent' = Append(sent, x)
        /\ log \in Seq(L) /\ g \in L
        /\ x.time = g.time /\ x.weight = g.weight
    BY <1>0, <1>1, Numbers DEF ClientOK, LimiterInv, LimiterOK
  <2> HIDE DEF q, Items, L, x, g
  <2>5. /\ call' \in [Callers -> CallState] /\ call'[c] = q
        /\ \A d \in Callers : d # c => call'[d] = call[d]
    BY <2>1, <2>2, OthersUnchanged
  <2>6. /\ asleep'[c] = None
        /\ \A d \in Callers : d # c => asleep'[d] = asleep[d]
    BY <1>0, <2>3
  <2>7. LimiterInv'
    BY <1>0, <1>1, GrantKeepsInv
  <2>8. ClientOK'
    <3>1. sent' \in Seq(Items)
      BY <2>4, AppendElements
    <3>2. \A d \in Callers : asleep'[d] # None <=> call'[d].stage = "Acquiring"
      BY <1>0, <2>1, <2>5, <2>6 DEF ClientOK
    <3> QED BY <2>5, <3>1, <3>2 DEF ClientOK, Items
  <2>9. Paid'
    <3>1. /\ Len(sent) \in Nat /\ Len(log) = Len(sent)
          /\ Len(sent') = Len(sent) + 1 /\ Len(log') = Len(log) + 1
          /\ \A i \in 1 .. Len(log) : sent'[i] = sent[i] /\ log'[i] = log[i]
          /\ sent'[Len(log) + 1] = x /\ log'[Len(log) + 1] = g
      BY <1>0, <2>3, <2>4, SeqElements, AppendElements DEF Paid
    <3>2. ASSUME NEW i \in 1 .. Len(log')
          PROVE  sent'[i].time = log'[i].time /\ sent'[i].weight = log'[i].weight
      <4>1. CASE i \in 1 .. Len(log)
        BY <1>0, <3>1, <4>1 DEF Paid
      <4>2. CASE i = Len(log) + 1
        BY <2>4, <3>1, <4>2
      <4> QED BY <3>1, <4>1, <4>2
    <3> QED BY <3>1, <3>2 DEF Paid
  <2>10. Weighed'
    BY <1>0, <2>1, <2>5, <2>6 DEF Weighed
  <2>11. Counted'
    <3> SUFFICES ASSUME NEW d \in Callers
                 PROVE  /\ Requests(d)' <= call'[d].attempt + 1
                        /\ call'[d].stage \in {"Idle", "Acquiring"} => Requests(d)' <= call'[d].attempt
      BY DEF Counted
    <3>1. Requests(d) \in Int /\ Requests(d)' = Requests(d) + IF d = c THEN 1 ELSE 0
      BY <1>0, <1>1, Numbers, RequestsOneMore
    <3>2. CASE d = c
      BY <1>0, <2>1, <2>5, <3>1, <3>2
    <3>3. CASE d # c
      BY <1>0, <2>5, <3>1, <3>3 DEF Counted
    <3> QED BY <3>2, <3>3
  <2>12. Recorded'
    BY <1>0, <2>1, <2>5 DEF Recorded
  <2> QED BY <2>7, <2>8, <2>9, <2>10, <2>11, <2>12 DEF ClientInv
<1>2. CASE /\ Sleep(c, r.weight)
           /\ call' = [call EXCEPT ![c] = [r EXCEPT !.stage = "Acquiring"]]
           /\ UNCHANGED sent
  <2> DEFINE q == [r EXCEPT !.stage = "Acquiring"]
  <2>1. /\ q \in CallState /\ q.stage = "Acquiring" /\ q.weight = r.weight
        /\ q.attempt = r.attempt
    BY Restaged DEF Stages
  <2>2. call' = [call EXCEPT ![c] = q] /\ sent' = sent
    BY <1>2
  <2> HIDE DEF q
  <2>3. LimiterInv'
    BY <1>0, <1>2, SleepKeepsInv
  <2>5. log' = log
    BY <1>2 DEF Sleep
  <2>6. /\ asleep'[c] # None /\ asleep'[c].weight = r.weight
        /\ \A d \in Callers : d # c => asleep'[d] = asleep[d]
    BY <1>0, <1>2, SleeperMade
  <2>7. /\ call' \in [Callers -> CallState] /\ call'[c] = q
        /\ \A d \in Callers : d # c => call'[d] = call[d]
    BY <2>1, <2>2, OthersUnchanged
  <2>8. ClientOK'
    BY <1>0, <2>1, <2>2, <2>6, <2>7 DEF ClientOK
  <2>9. Paid'
    BY <1>0, <2>2, <2>5 DEF Paid
  <2>10. Weighed'
    BY <1>0, <2>1, <2>6, <2>7 DEF Weighed
  <2>11. Counted'
    <3>1. \A d \in Callers : Requests(d)' = Requests(d)
      BY <2>2 DEF Requests
    <3>2. Requests(c) <= r.attempt + 1
      BY <1>0
    <3> QED BY <1>0, <2>1, <2>7, <3>1, <3>2 DEF Counted
  <2>12. Recorded'
    BY <1>0, <2>1, <2>7 DEF Recorded
  <2> QED BY <2>3, <2>8, <2>9, <2>10, <2>11, <2>12 DEF ClientInv
<1>3. CASE /\ Raise(c, r.weight)
           /\ call' = [call EXCEPT ![c] = [r EXCEPT !.stage = "Failed", !.error = "IndexError"]]
           /\ UNCHANGED sent
  <2> DEFINE q == [r EXCEPT !.stage = "Failed", !.error = "IndexError"]
  <2>1. /\ q \in CallState /\ q.stage = "Failed" /\ q.weight = r.weight
        /\ q.attempt = r.attempt /\ q.error = "IndexError"
    BY StagedWithError DEF Stages, Errors
  <2>2. call' = [call EXCEPT ![c] = q] /\ sent' = sent
    BY <1>3
  <2> HIDE DEF q
  <2>3. LimiterInv'
    BY <1>0, <1>3, RaiseKeepsInv
  <2>4. log' = log /\ asleep' = [asleep EXCEPT ![c] = None]
    BY <1>3 DEF Raise
  <2>5. /\ call' \in [Callers -> CallState] /\ call'[c] = q
        /\ \A d \in Callers : d # c => call'[d] = call[d]
    BY <2>1, <2>2, OthersUnchanged
  <2>6. asleep'[c] = None /\ \A d \in Callers : d # c => asleep'[d] = asleep[d]
    BY <1>0, <2>4
  <2>7. ClientOK' /\ Weighed' /\ Paid'
    BY <1>0, <2>1, <2>2, <2>4, <2>5, <2>6 DEF ClientOK, Weighed, Paid
  <2>8. Counted'
    <3>1. \A d \in Callers : Requests(d)' = Requests(d)
      BY <2>2 DEF Requests
    <3>2. Requests(c) <= r.attempt + 1
      BY <1>0
    <3> QED BY <1>0, <2>1, <2>5, <3>1, <3>2 DEF Counted
  <2>9. Recorded'
    BY <1>0, <2>1, <2>5, NoneIsNoError DEF Recorded
  <2> QED BY <2>3, <2>7, <2>8, <2>9 DEF ClientInv
<1> QED BY <1>1, <1>2, <1>3 DEF Attempt

(* An answer, or the end of a pause: the limiter and the wire are left     *)
(* alone.                                                                  *)
LEMMA AnswerKeepsInv ==
    ASSUME ClientInv, NEW c \in Callers, NEW q \in CallState,
           call[c].stage \in {"InFlight", "Pausing"},
           q.stage \in {"Returned", "Failed", "Pausing"},
           q.weight = call[c].weight, q.attempt = call[c].attempt,
           q.stage # "Returned" => q.error # None,
           Becomes(c, q)
    PROVE  ClientInv'
<1>1. /\ call' = [call EXCEPT ![c] = q]
      /\ now' = now /\ log' = log /\ first' = first /\ asleep' = asleep /\ raised' = raised
      /\ sent' = sent
  BY DEF Becomes, lvars, limiter
<1>2. /\ call' \in [Callers -> CallState] /\ call'[c] = q
      /\ \A d \in Callers : d # c => call'[d] = call[d]
  BY <1>1, OthersUnchanged
<1>3. LimiterInv'
  BY <1>1 DEF ClientInv, LimiterInv, LimiterOK, InOrder, GoneAreExpired, Expired,
              SleepsSuffice, WindowNeverExceeded, Between, Granted
<1>4. ClientOK'
  BY <1>1, <1>2 DEF ClientInv, ClientOK
<1>5. Paid'
  BY <1>1 DEF ClientInv, Paid
<1>6. Weighed'
  BY <1>1, <1>2 DEF ClientInv, Weighed
<1>7. Counted'
  <2>1. \A d \in Callers : Requests(d)' = Requests(d)
    BY <1>1 DEF Requests
  <2> QED BY <1>2, <2>1 DEF ClientInv, Counted
<1>8. Recorded'
  BY <1>2 DEF ClientInv, Recorded
<1> QED BY <1>3, <1>4, <1>5, <1>6, <1>7, <1>8 DEF ClientInv

LEMMA InitInv == Init => ClientInv
<1> SUFFICES ASSUME Init PROVE ClientInv
  OBVIOUS
<1>1. /\ NewLimiter /\ sent = <<>> /\ log = <<>> /\ asleep = [c \in Callers |-> None]
      /\ call = [c \in Callers |-> [stage |-> "Idle", weight |-> 0, attempt |-> 0,
                                    backoff |-> Backoff, until |-> 0, error |-> None]]
  BY DEF Init, NewLimiter
<1>2. LimiterInv
  BY <1>1, InvInit
<1>3. call \in [Callers -> CallState]
  BY <1>1, ClientAssumption DEF CallState, Stages
<1>4. ClientOK
  BY <1>1, <1>3 DEF ClientOK
<1>5. Paid /\ Weighed /\ Recorded
  BY <1>1 DEF Paid, Weighed, Recorded
<1>6. Counted
  <2> SUFFICES ASSUME NEW c \in Callers PROVE Requests(c) = 0 /\ call[c].attempt = 0
    BY DEF Counted
  <2>1. Requests(c) = SumTo([i \in 1 .. Len(sent) |-> IF sent[i].by = c THEN 1 ELSE 0], 0)
    BY <1>1 DEF Requests
  <2> QED BY <1>1, <2>1, SumToZero
<1> QED BY <1>2, <1>4, <1>5, <1>6 DEF ClientInv

LEMMA NextKeepsInv == ClientInv /\ [Next]_cvars => ClientInv'
<1> SUFFICES ASSUME ClientInv, [Next]_cvars PROVE ClientInv'
  OBVIOUS
<1>1. ASSUME NEW c \in Callers, Request(c) PROVE ClientInv'
  <2>1. PICK w \in Weights : Attempt(c, [call[c] EXCEPT !.weight = w])
    BY <1>1 DEF Request
  <2> DEFINE r == [call[c] EXCEPT !.weight = w]
  <2>2. w \in Nat
    BY LimiterAssumption
  <2>3. r \in CallState /\ r.weight = w /\ r.attempt = call[c].attempt
    BY <2>2, CallFacts DEF CallState
  <2>4. Requests(c) <= call[c].attempt
    BY <1>1, CallFacts DEF Request
  <2> HIDE DEF r
  <2>5. Requests(c) <= r.attempt
    BY <2>3, <2>4
  <2> QED BY <2>1, <2>3, <2>5, AttemptKeepsInv DEF r
<1>2. ASSUME NEW c \in Callers, Resume(c) PROVE ClientInv'
  <2>1. Attempt(c, call[c]) /\ call[c].stage = "Acquiring"
    BY <1>2 DEF Resume
  <2> QED BY <2>1, CallFacts, AttemptKeepsInv
<1>3. ASSUME NEW c \in Callers, Again(c) PROVE ClientInv'
  <2> DEFINE r == [call[c] EXCEPT !.attempt = @ + 1]
  <2>1. /\ Attempt(c, r) /\ call[c].stage = "Pausing" /\ call[c].attempt # MaxRetries
    BY <1>3 DEF Again, Rested, LastAttempt
  <2>2. call[c].attempt + 1 \in 0 .. MaxRetries
    BY <2>1, CallFacts
  <2>3. r \in CallState /\ r.weight = call[c].weight /\ r.attempt = call[c].attempt + 1
    BY <2>2, CallFacts DEF CallState
  <2> HIDE DEF r
  <2>4. r.weight \in Weights /\ Requests(c) <= r.attempt
    BY <2>1, <2>3, CallFacts
  <2> QED BY <2>1, <2>3, <2>4, AttemptKeepsInv
<1>4. ASSUME NEW c \in Callers, Return(c) PROVE ClientInv'
  <2> DEFINE q == [call[c] EXCEPT !.stage = "Returned"]
  <2>1. /\ q \in CallState /\ q.stage = "Returned" /\ q.weight = call[c].weight
        /\ q.attempt = call[c].attempt
    BY CallFacts, Restaged DEF Stages
  <2>2. Becomes(c, q) /\ call[c].stage = "InFlight"
    BY <1>4 DEF Return
  <2> HIDE DEF q
  <2> QED BY <2>1, <2>2, AnswerKeepsInv
<1>5. ASSUME NEW c \in Callers, NEW e \in Errors, call[c].stage = "InFlight",
             Becomes(c, [call[c] EXCEPT !.stage = "Failed", !.error = e])
      PROVE  ClientInv'
  <2> DEFINE q == [call[c] EXCEPT !.stage = "Failed", !.error = e]
  <2>0. call[c] \in CallState /\ "Failed" \in Stages /\ e \in Errors
    BY CallFacts DEF Stages
  <2>1. /\ q \in CallState /\ q.stage = "Failed" /\ q.weight = call[c].weight
        /\ q.attempt = call[c].attempt /\ q.error = e
    BY <2>0 DEF CallState
  <2>2. Becomes(c, q) /\ call[c].stage = "InFlight"
    BY <1>5
  <2>3. e # None
    BY NoneIsNoError DEF Errors
  <2> HIDE DEF q
  <2> QED BY <2>1, <2>2, <2>3, AnswerKeepsInv
<1>6. ASSUME NEW c \in Callers, Refuse(c) PROVE ClientInv'
  BY <1>5, <1>6 DEF Refuse, Errors
<1>7. ASSUME NEW c \in Callers, GiveUp(c) PROVE ClientInv'
  BY <1>5, <1>7 DEF GiveUp, Errors
<1>8. ASSUME NEW c \in Callers, NEW q \in CallState, call[c].stage = "InFlight",
             q.stage = "Pausing", q.error = "Retryable", q.weight = call[c].weight,
             q.attempt = call[c].attempt, Becomes(c, q)
      PROVE  ClientInv'
  BY <1>8, AnswerKeepsInv, NoneIsNoError
<1>9. ASSUME NEW c \in Callers, BackOff(c) PROVE ClientInv'
  <2> DEFINE q == [call[c] EXCEPT !.stage = "Pausing", !.error = "Retryable",
                                  !.until = now + call[c].backoff,
                                  !.backoff = 2 * call[c].backoff]
  <2>1. now + call[c].backoff \in Nat /\ 2 * call[c].backoff \in Nat
    BY CallFacts, Numbers DEF ClientInv
  <2>2. /\ q \in CallState /\ q.stage = "Pausing" /\ q.error = "Retryable"
        /\ q.weight = call[c].weight /\ q.attempt = call[c].attempt
    BY <2>1, CallFacts DEF CallState, Stages, Errors
  <2>3. Becomes(c, q) /\ call[c].stage = "InFlight"
    BY <1>9 DEF BackOff
  <2> HIDE DEF q
  <2> QED BY <1>8, <2>2, <2>3
<1>10. ASSUME NEW c \in Callers, RetryAfter(c) PROVE ClientInv'
  <2>1. PICK d \in RetryAfters :
           Becomes(c, [call[c] EXCEPT !.stage = "Pausing", !.error = "Retryable",
                                      !.until = now + d])
    BY <1>10 DEF RetryAfter
  <2> DEFINE q == [call[c] EXCEPT !.stage = "Pausing", !.error = "Retryable",
                                  !.until = now + d]
  <2>2. now + d \in Nat
    BY ClientAssumption, Numbers DEF ClientInv
  <2>3. /\ q \in CallState /\ q.stage = "Pausing" /\ q.error = "Retryable"
        /\ q.weight = call[c].weight /\ q.attempt = call[c].attempt
    BY <2>2, CallFacts DEF CallState, Stages, Errors
  <2>4. Becomes(c, q) /\ call[c].stage = "InFlight"
    BY <1>10, <2>1 DEF RetryAfter
  <2> HIDE DEF q
  <2> QED BY <1>8, <2>3, <2>4
<1>11. ASSUME NEW c \in Callers, Exhaust(c) PROVE ClientInv'
  <2> DEFINE q == [call[c] EXCEPT !.stage = "Failed"]
  <2>1. /\ q \in CallState /\ q.stage = "Failed" /\ q.weight = call[c].weight
        /\ q.attempt = call[c].attempt /\ q.error = call[c].error
    BY CallFacts, Restaged DEF Stages
  <2>2. Becomes(c, q) /\ call[c].stage = "Pausing"
    BY <1>11 DEF Exhaust, Rested
  <2>3. call[c].error # None
    BY <2>2 DEF ClientInv, Recorded
  <2> HIDE DEF q
  <2> QED BY <2>1, <2>2, <2>3, AnswerKeepsInv
<1>12. CASE Tick
  <2>1. TimePasses /\ call' = call /\ sent' = sent
    BY <1>12 DEF Tick
  <2>2. LimiterInv'
    BY <2>1, TimeKeepsInv DEF ClientInv
  <2>3. log' = log /\ asleep' = asleep
    BY <2>1 DEF TimePasses, limiter
  <2> QED BY <2>1, <2>2, <2>3
          DEF ClientInv, ClientOK, Paid, Weighed, Counted, Recorded, Requests
<1>13. CASE UNCHANGED cvars
  BY <1>13 DEF cvars, lvars, limiter, ClientInv, LimiterInv, LimiterOK, InOrder, GoneAreExpired,
               Expired, SleepsSuffice, WindowNeverExceeded, Between, Granted,
               ClientOK, Paid, Weighed, Counted, Recorded, Requests
<1>14. ASSUME NEW c \in Callers, Abandon(c) PROVE ClientInv'
  <2> DEFINE q == [call[c] EXCEPT !.stage = "Cancelled"]
  <2>1. /\ q \in CallState /\ q.stage = "Cancelled" /\ q.weight = call[c].weight
        /\ q.attempt = call[c].attempt
    BY CallFacts, Restaged DEF Stages
  <2>2. /\ call' = [call EXCEPT ![c] = q] /\ sent' = sent
        /\ call[c].stage \in {"Acquiring", "InFlight", "Pausing"}
    BY <1>14 DEF Abandon
  <2> HIDE DEF q
  <2>3. /\ call' \in [Callers -> CallState] /\ call'[c] = q
        /\ \A d \in Callers : d # c => call'[d] = call[d]
    BY <2>1, <2>2, OthersUnchanged
  <2>4. asleep \in [Callers -> {None} \cup Sleeper]
    BY DEF ClientInv, LimiterInv, LimiterOK
  <2>5. /\ log' = log /\ asleep'[c] = None
        /\ \A d \in Callers : d # c => asleep'[d] = asleep[d]
    <3>1. CASE call[c].stage = "Acquiring" /\ Cancel(c)
      BY <2>4, <3>1 DEF Cancel
    <3>2. CASE call[c].stage \in {"InFlight", "Pausing"} /\ UNCHANGED lvars
      BY <3>2, CallFacts DEF lvars, limiter
    <3> QED BY <1>14, <3>1, <3>2 DEF Abandon
  <2>6. LimiterInv'
    <3>1. CASE Cancel(c)
      BY <3>1, CancelKeepsInv DEF ClientInv
    <3>2. CASE UNCHANGED lvars
      BY <3>2 DEF lvars, limiter, ClientInv, LimiterInv, LimiterOK, InOrder, GoneAreExpired,
                  Expired, SleepsSuffice, WindowNeverExceeded, Between, Granted
    <3> QED BY <1>14, <3>1, <3>2 DEF Abandon
  <2>7. ClientOK' /\ Paid' /\ Weighed' /\ Recorded'
    BY <2>1, <2>2, <2>3, <2>5 DEF ClientInv, ClientOK, Paid, Weighed, Recorded
  <2>8. Counted'
    <3>1. \A d \in Callers : Requests(d)' = Requests(d)
      BY <2>2 DEF Requests
    <3>2. Requests(c) <= call[c].attempt + 1
      BY CallFacts
    <3> QED BY <2>1, <2>3, <3>1, <3>2 DEF ClientInv, Counted
  <2> QED BY <2>6, <2>7, <2>8 DEF ClientInv
<1> QED BY <1>1, <1>2, <1>3, <1>4, <1>6, <1>7, <1>9, <1>10, <1>11, <1>12, <1>13, <1>14
        DEF Next, Answer

\* Every request of the client is paid for and counted by its own call, and a
\* call that pauses or fails has an error: the inductive invariant of _get_json.
THEOREM ClientInvariant == Spec => []ClientInv
<1> QED BY InitInv, NextKeepsInv, PTL DEF Spec

(* Types, and that exactly the sleepers of the limiter are acquiring.      *)
THEOREM ClientTypeCorrect == Spec => []ClientOK
<1>1. ClientInv => ClientOK
  BY DEF ClientInv
<1> QED BY <1>1, ClientInvariant, PTL

(* What is on the wire, retries included, weighs at most Cap in any span   *)
(* of length Window.                                                       *)
THEOREM WireWithinCap == Spec => []SentWithinCap
<1>1. ClientInv => SentWithinCap
  <2> SUFFICES ASSUME ClientInv, NEW b \in 1 .. Len(sent), NEW a \in 1 .. b,
                      sent[b].time - sent[a].time <= Window
               PROVE  Sent(b) - Sent(a - 1) <= Cap
    BY DEF SentWithinCap
  <2>1. Len(sent) = Len(log) /\ Len(log) \in Nat
        /\ \A i \in 1 .. Len(log) : sent[i].time = log[i].time /\ sent[i].weight = log[i].weight
    BY Numbers DEF ClientInv, Paid
  <2>2. [i \in 1 .. Len(sent) |-> sent[i].weight] = [i \in 1 .. Len(log) |-> log[i].weight]
    BY <2>1
  <2>3. Sent(b) = Granted(b) /\ Sent(a - 1) = Granted(a - 1)
    BY <2>2 DEF Sent, Granted
  <2>4. b \in 1 .. Len(log) /\ a \in 1 .. Len(log)
    BY <2>1
  <2>5. log[b].time - log[a].time <= Window
    BY <2>1, <2>4
  <2> QED BY <2>3, <2>4, <2>5 DEF ClientInv, LimiterInv, WindowNeverExceeded, Between
<1> QED BY <1>1, ClientInvariant, PTL

(* No call makes more than one request and max_retries retries.            *)
THEOREM AttemptsAreBounded == Spec => []RequestsBounded
<1>1. ClientInv => RequestsBounded
  BY CallFacts DEF RequestsBounded
<1> QED BY <1>1, ClientInvariant, PTL

(* A call that fails has recorded what it fails with.                      *)
THEOREM FailuresAreExplained == Spec => []FailsWithError
<1>1. ClientInv => FailsWithError
  BY DEF ClientInv, Recorded, FailsWithError
<1> QED BY <1>1, ClientInvariant, PTL


-----------------------------------------------------------------------------
(* BinanceTransport.  A grant pays for all the requests of one call, so    *)
(* the weight on the wire is added up grant by grant: the requests of the  *)
(* call that owns the grant, each with the weight of the grant.            *)

(* The transport's sums and sizes are the same sums and sizes.             *)
LEMMA SameSum == \A w, n : T!SumTo(w, n) = SumTo(w, n)
BY DEF T!SumTo, SumTo

LEMMA SameSize == \A S : T!Cardinality(S) = Cardinality(S)
BY DEF T!Cardinality, Cardinality

\* The weight that the calls which own the grants have put on the wire.
Spent(owner) ==
    [i \in 1 .. Len(grants) |-> gets[owner[i]].weight * T!Requests(owner[i])]

\* Which call was given which grant: every call with requests has one of its own.
Owns(owner) ==
    /\ owner \in [1 .. Len(grants) -> Callers]
    /\ \A i, j \in 1 .. Len(grants) : owner[i] = owner[j] => i = j
    /\ \A c \in Callers : T!Requests(c) > 0 <=> \E i \in 1 .. Len(grants) : owner[i] = c
    /\ \A i \in 1 .. Len(grants) : grants[i].weight = gets[owner[i]].weight
    /\ T!Sent(Len(requests)) = SumTo(Spent(owner), Len(grants))

TransportTypes ==
    /\ T!LimiterOK
    /\ gets \in [Callers -> T!CallState]
    /\ requests \in Seq([time : Nat, weight : Nat \ {0}, by : Callers])

\* What holds of one call, r, with so many requests.
Tallied(c, r, asked) ==
    /\ sleepers[c] # None <=> r.stage = "Acquiring"
    /\ r.stage # "Idle" => r.weight \in Nat \ {0}
    /\ r.stage \in {"Idle", "Acquiring"} => r.attempt = 0 /\ asked = 0 /\ c \notin refused
    /\ r.stage \in {"InFlight", "Pausing", "Returned"} => asked = r.attempt + 1
    /\ r.stage = "Pausing" => r.attempt + 1 < Attempts
    /\ asked > 0 => c \notin refused
    /\ asked <= Attempts

Asking == {c \in Callers : T!Requests(c) > 0}

TransportInv ==
    /\ TransportTypes
    /\ \A c \in Callers : Tallied(c, gets[c], T!Requests(c))
    /\ \E owner : Owns(owner)
    /\ IsFiniteSet(Asking) /\ Len(grants) = Cardinality(Asking)

-----------------------------------------------------------------------------
LEMMA AskedIsNatural ==
    ASSUME TransportTypes, NEW d \in Callers
    PROVE  T!Requests(d) \in Nat
<1> DEFINE w == [i \in 1 .. Len(requests) |-> IF requests[i].by = d THEN 1 ELSE 0]
<1>1. Len(requests) \in Nat /\ \A i \in 1 .. Len(requests) : w[i] \in Nat
  BY DEF TransportTypes
<1>2. T!Requests(d) = SumTo(w, Len(requests))
  BY SameSum DEF T!Requests
<1> HIDE DEF w
<1> QED BY <1>1, <1>2, SumToNat

LEMMA SpentIsNatural ==
    ASSUME TransportInv, NEW owner, Owns(owner)
    PROVE  /\ Len(grants) \in Nat
           /\ \A i \in 1 .. Len(grants) : Spent(owner)[i] \in Nat
<1>1. Len(grants) \in Nat /\ \A i \in 1 .. Len(grants) : grants[i] \in [time : Nat, weight : Nat \ {0}]
  <2>1. grants \in Seq([time : Nat, weight : Nat \ {0}])
    BY DEF TransportInv, TransportTypes, T!LimiterOK
  <2> QED BY <2>1, SeqElements
<1>2. ASSUME NEW i \in 1 .. Len(grants)
      PROVE  Spent(owner)[i] \in Nat
  <2>1. owner[i] \in Callers /\ gets[owner[i]].weight = grants[i].weight /\ grants[i].weight \in Nat
    BY <1>1 DEF Owns
  <2>2. T!Requests(owner[i]) \in Nat
    BY <2>1, AskedIsNatural DEF TransportInv
  <2>3. Spent(owner)[i] = gets[owner[i]].weight * T!Requests(owner[i])
    BY DEF Spent
  <2> QED BY <2>1, <2>2, <2>3
<1> QED BY <1>1, <1>2

(* One more request: it counts for its call, and its weight for the wire.  *)
LEMMA AskedOneMore ==
    ASSUME TransportTypes, NEW c \in Callers, NEW t \in Nat, NEW w \in Nat \ {0},
           requests' = Append(requests, [time |-> t, weight |-> w, by |-> c])
    PROVE  /\ requests' \in Seq([time : Nat, weight : Nat \ {0}, by : Callers])
           /\ \A d \in Callers :
                 T!Requests(d)' = T!Requests(d) + IF d = c THEN 1 ELSE 0
           /\ T!Sent(Len(requests))' = T!Sent(Len(requests)) + w
<1> DEFINE x == [time |-> t, weight |-> w, by |-> c]
           R == [time : Nat, weight : Nat \ {0}, by : Callers]
<1>1. requests \in Seq(R) /\ x \in R /\ requests' = Append(requests, x)
      /\ x.by = c /\ x.weight = w
  BY DEF TransportTypes
<1> HIDE DEF x
<1>2. /\ Len(requests) \in Nat /\ Len(requests') = Len(requests) + 1
      /\ requests' \in Seq(R)
      /\ \A i \in 1 .. Len(requests) : requests'[i] = requests[i]
      /\ requests'[Len(requests) + 1] = x
  BY <1>1, SeqElements, AppendElements
<1>3. ASSUME NEW d \in Callers
      PROVE  T!Requests(d)' = T!Requests(d) + IF d = c THEN 1 ELSE 0
  <2> DEFINE old == [i \in 1 .. Len(requests) |-> IF requests[i].by = d THEN 1 ELSE 0]
             new == [i \in 1 .. Len(requests') |-> IF requests'[i].by = d THEN 1 ELSE 0]
  <2>1. /\ \A i \in 1 .. Len(requests) : new[i] = old[i] /\ old[i] \in Int
        /\ new[Len(requests) + 1] = IF d = c THEN 1 ELSE 0
    BY <1>1, <1>2
  <2>2. /\ T!Requests(d) = SumTo(old, Len(requests))
        /\ T!Requests(d)' = SumTo(new, Len(requests'))
    BY SameSum DEF T!Requests
  <2> HIDE DEF old, new
  <2>3. SumTo(new, Len(requests)) = SumTo(old, Len(requests))
    BY <1>2, <2>1, SumToAgree
  <2>4. SumTo(new, Len(requests) + 1) = SumTo(new, Len(requests)) + new[Len(requests) + 1]
    BY <1>2, SumToStep
  <2> QED BY <1>2, <2>1, <2>2, <2>3, <2>4
<1>4. T!Sent(Len(requests))' = T!Sent(Len(requests)) + w
  <2> DEFINE old == [i \in 1 .. Len(requests) |-> requests[i].weight]
             new == [i \in 1 .. Len(requests') |-> requests'[i].weight]
  <2>1. /\ \A i \in 1 .. Len(requests) : new[i] = old[i]
        /\ new[Len(requests) + 1] = w
    BY <1>1, <1>2
  <2>2. /\ T!Sent(Len(requests)) = SumTo(old, Len(requests))
        /\ T!Sent(Len(requests))' = SumTo(new, Len(requests'))
    BY SameSum DEF T!Sent
  <2> HIDE DEF old, new
  <2>3. SumTo(new, Len(requests)) = SumTo(old, Len(requests))
    BY <1>2, <2>1, SumToAgree
  <2>4. SumTo(new, Len(requests) + 1) = SumTo(new, Len(requests)) + new[Len(requests) + 1]
    BY <1>2, SumToStep
  <2> QED BY <1>2, <2>1, <2>2, <2>3, <2>4
<1> QED BY <1>2, <1>3, <1>4

(* Without a request every count is what it was.                           *)
LEMMA AskedTheSame ==
    ASSUME UNCHANGED requests
    PROVE  /\ \A d \in Callers : T!Requests(d)' = T!Requests(d)
           /\ T!Sent(Len(requests))' = T!Sent(Len(requests))
BY DEF T!Requests, T!Sent

-----------------------------------------------------------------------------
(* The transport's limiter keeps its types.                                *)
LEMMA TransportWaits ==
    ASSUME T!LimiterOK, NEW f \in head .. Len(grants), T!Pruned(f)
    PROVE  T!Wait(f) \in Nat
<1>1. /\ clock \in Nat /\ head \in 1 .. Len(grants) + 1 /\ Len(grants) \in Nat
      /\ grants \in Seq([time : Nat, weight : Nat \ {0}])
  BY DEF T!LimiterOK
<1>2. f \in 1 .. Len(grants)
  BY <1>1
<1>3. grants[f].time \in Nat
  <2>1. grants[f] \in [time : Nat, weight : Nat \ {0}]
    BY <1>1, <1>2, SeqElements
  <2> QED BY <2>1
<1>4. ~(grants[f].time < clock - Window)
  BY <1>1, <1>2 DEF T!Pruned, T!Expired
<1> DEFINE left == grants[f].time + Window - clock
<1>5. left \in Nat /\ T!Wait(f) = Grain * (left \div Grain) + Slack
  BY <1>1, <1>3, <1>4, WindowIsNatural DEF T!Wait
<1> HIDE DEF left
<1>6. left \div Grain \in Nat /\ Grain \in Nat /\ Slack \in Nat
  BY <1>5, LimiterAssumption
<1>7. Grain * (left \div Grain) \in Nat
  BY <1>6
<1> QED BY <1>5, <1>6, <1>7

\* acquire: a grant, a sleep or a refusal.
LEMMA TransportAcquires ==
    ASSUME T!LimiterOK, NEW c \in Callers, NEW w \in Nat \ {0}
    PROVE  /\ T!Grant(c, w) =>
                 /\ T!LimiterOK' /\ sleepers'[c] = None /\ UNCHANGED <<clock, refused>>
                 /\ grants' = Append(grants, [time |-> clock, weight |-> w])
           /\ T!Sleep(c, w) =>
                 /\ T!LimiterOK' /\ sleepers'[c] # None /\ UNCHANGED <<clock, grants, refused>>
           /\ T!Raise(c, w) =>
                 /\ T!LimiterOK' /\ sleepers'[c] = None /\ UNCHANGED <<clock, grants>>
                 /\ refused' = refused \cup {c}
           /\ T!Acquire(c, w) => \A d \in Callers : d # c => sleepers'[d] = sleepers[d]
<1>1. /\ clock \in Nat /\ grants \in Seq([time : Nat, weight : Nat \ {0}]) /\ Len(grants) \in Nat
      /\ head \in 1 .. Len(grants) + 1 /\ refused \subseteq Callers
      /\ sleepers \in [Callers -> {None} \cup T!Sleeper]
  BY DEF T!LimiterOK
<1>2. ASSUME T!Grant(c, w)
      PROVE  /\ T!LimiterOK' /\ sleepers'[c] = None /\ UNCHANGED <<clock, refused>>
             /\ grants' = Append(grants, [time |-> clock, weight |-> w])
             /\ \A d \in Callers : d # c => sleepers'[d] = sleepers[d]
  <2>1. /\ grants' = Append(grants, [time |-> clock, weight |-> w])
        /\ sleepers' = [sleepers EXCEPT ![c] = None]
        /\ UNCHANGED <<clock, refused>>
        /\ head' \in head .. Len(grants) + 1
    BY <1>2 DEF T!Grant
  <2>2. /\ grants' \in Seq([time : Nat, weight : Nat \ {0}])
        /\ Len(grants') = Len(grants) + 1
    BY <1>1, <2>1
  <2>3. sleepers' \in [Callers -> {None} \cup T!Sleeper]
    BY <1>1, <2>1
  <2>4. T!LimiterOK'
    BY <1>1, <2>1, <2>2, <2>3 DEF T!LimiterOK
  <2> QED BY <1>1, <2>1, <2>4
<1>3. ASSUME T!Sleep(c, w)
      PROVE  /\ T!LimiterOK' /\ sleepers'[c] # None /\ UNCHANGED <<clock, grants, refused>>
             /\ \A d \in Callers : d # c => sleepers'[d] = sleepers[d]
  <2>1. PICK f \in head .. Len(grants) :
            /\ T!Pruned(f) /\ head' = f
            /\ sleepers' = [sleepers EXCEPT ![c] =
                               [weight |-> w, wake |-> clock + T!Wait(f), oldest |-> f]]
    BY <1>3 DEF T!Sleep
  <2>2. f \in Nat /\ T!Wait(f) \in Nat
    BY <1>1, <2>1, TransportWaits
  <2> DEFINE z == [weight |-> w, wake |-> clock + T!Wait(f), oldest |-> f]
  <2>3. z \in T!Sleeper /\ z \in Sleeper
    BY <1>1, <2>2 DEF T!Sleeper, Sleeper
  <2>4. sleepers' = [sleepers EXCEPT ![c] = z] /\ UNCHANGED <<clock, grants, refused>>
    BY <1>3, <2>1 DEF T!Sleep
  <2> HIDE DEF z
  <2>5. /\ sleepers' \in [Callers -> {None} \cup T!Sleeper]
        /\ sleepers'[c] = z
        /\ \A d \in Callers : d # c => sleepers'[d] = sleepers[d]
    BY <1>1, <2>3, <2>4
  <2>6. head' \in 1 .. Len(grants) + 1
    BY <1>1, <2>1
  <2> QED BY <1>1, <2>3, <2>4, <2>5, <2>6, NoneIsNoSleeper DEF T!LimiterOK
<1>4. ASSUME T!Raise(c, w)
      PROVE  /\ T!LimiterOK' /\ sleepers'[c] = None /\ UNCHANGED <<clock, grants>>
             /\ refused' = refused \cup {c}
             /\ \A d \in Callers : d # c => sleepers'[d] = sleepers[d]
  <2>1. /\ head' = Len(grants) + 1 /\ sleepers' = [sleepers EXCEPT ![c] = None]
        /\ refused' = refused \cup {c} /\ UNCHANGED <<clock, grants>>
    BY <1>4 DEF T!Raise
  <2>2. sleepers' \in [Callers -> {None} \cup T!Sleeper]
    BY <1>1, <2>1
  <2> QED BY <1>1, <2>1, <2>2 DEF T!LimiterOK
<1> QED BY <1>2, <1>3, <1>4 DEF T!Acquire


-----------------------------------------------------------------------------
(* Three kinds of step: nothing is sent; a grant is sent at once; and a    *)
(* request is repeated on the grant its call has.                          *)

\* The call of c becomes q, without a request.
LEMMA QuietKeeps ==
    ASSUME TransportInv, NEW c \in Callers, NEW q \in T!CallState,
           T!LimiterOK', UNCHANGED <<grants, requests>>,
           gets' = [gets EXCEPT ![c] = q],
           \A d \in Callers : d # c => sleepers'[d] = sleepers[d],
           refused' \subseteq refused \cup {c},
           T!Requests(c) > 0 => q.weight = gets[c].weight,
           Tallied(c, q, T!Requests(c))'
    PROVE  TransportInv'
<1>1. /\ gets \in [Callers -> T!CallState]
      /\ gets' \in [Callers -> T!CallState] /\ gets'[c] = q
      /\ \A d \in Callers : d # c => gets'[d] = gets[d]
  BY DEF TransportInv, TransportTypes
<1>2. /\ \A d \in Callers : T!Requests(d)' = T!Requests(d)
      /\ T!Sent(Len(requests))' = T!Sent(Len(requests))
  BY AskedTheSame
<1>3. TransportTypes'
  BY <1>1 DEF TransportInv, TransportTypes
<1>4. ASSUME NEW d \in Callers
      PROVE  Tallied(d, gets[d], T!Requests(d))'
  <2>1. CASE d = c
    BY <1>1, <2>1 DEF Tallied
  <2>2. CASE d # c
    <3>1. Tallied(d, gets[d], T!Requests(d))
      BY DEF TransportInv
    <3>2. d \in refused' => d \in refused
      BY <2>2
    <3> QED BY <1>1, <1>2, <2>2, <3>1, <3>2 DEF Tallied
  <2> QED BY <2>1, <2>2
<1>5. PICK owner : Owns(owner)
  BY DEF TransportInv
<1>6. Owns(owner)'
  <2>1. \A i \in 1 .. Len(grants) :
            owner[i] \in Callers /\ T!Requests(owner[i]) > 0
    BY <1>5 DEF Owns
  <2>2. \A i \in 1 .. Len(grants) : gets'[owner[i]].weight = gets[owner[i]].weight
    BY <1>1, <2>1
  <2>3. Spent(owner)' = Spent(owner)
    BY <1>2, <2>1, <2>2 DEF Spent
  <2> QED BY <1>2, <1>5, <2>2, <2>3 DEF Owns
<1>7. Asking' = Asking
  BY <1>2 DEF Asking
<1> QED BY <1>3, <1>4, <1>6, <1>7 DEF TransportInv

\* A call that has none is granted its weight, and sends its first request.
LEMMA GrantedKeeps ==
    ASSUME TransportInv, NEW c \in Callers, NEW r \in T!CallState,
           gets[c].stage \in {"Idle", "Acquiring"},
           r.weight \in Nat \ {0}, r.attempt = 0,
           T!Grant(c, r.weight), T!Sends(c, r)
    PROVE  TransportInv'
<1> DEFINE q == [r EXCEPT !.stage = "InFlight"]
           w == r.weight
<1>1. /\ q \in T!CallState /\ q.stage = "InFlight" /\ q.weight = w /\ q.attempt = 0
      /\ w \in Nat \ {0}
  BY DEF T!CallState, T!Stages
<1>2. /\ gets' = [gets EXCEPT ![c] = q]
      /\ requests' = Append(requests, [time |-> clock, weight |-> w, by |-> c])
  BY DEF T!Sends
<1> HIDE DEF q, w
<1>3. /\ gets \in [Callers -> T!CallState]
      /\ gets' \in [Callers -> T!CallState] /\ gets'[c] = q
      /\ \A d \in Callers : d # c => gets'[d] = gets[d]
  BY <1>1, <1>2 DEF TransportInv, TransportTypes
<1>4. /\ T!LimiterOK /\ clock \in Nat /\ TransportTypes
      /\ grants \in Seq([time : Nat, weight : Nat \ {0}])
  BY DEF TransportInv, TransportTypes, T!LimiterOK
<1>5. /\ T!LimiterOK' /\ sleepers'[c] = None /\ refused' = refused
      /\ grants' = Append(grants, [time |-> clock, weight |-> w])
      /\ \A d \in Callers : d # c => sleepers'[d] = sleepers[d]
  BY <1>1, <1>4, TransportAcquires DEF T!Acquire, w
<1>6. /\ requests' \in Seq([time : Nat, weight : Nat \ {0}, by : Callers])
      /\ \A d \in Callers : T!Requests(d)' = T!Requests(d) + IF d = c THEN 1 ELSE 0
      /\ T!Sent(Len(requests))' = T!Sent(Len(requests)) + w
  BY <1>1, <1>2, <1>4, AskedOneMore
<1>7. \A d \in Callers : T!Requests(d) \in Nat
  BY <1>4, AskedIsNatural
<1>8. T!Requests(c) = 0 /\ c \notin refused
  BY DEF TransportInv, Tallied
<1>9. TransportTypes'
  BY <1>3, <1>5, <1>6 DEF TransportTypes
<1>10. ASSUME NEW d \in Callers
       PROVE  Tallied(d, gets[d], T!Requests(d))'
  <2>1. CASE d = c
    <3>1. T!Requests(c)' = 1
      BY <1>6, <1>8
    <3> QED BY <1>1, <1>3, <1>5, <1>8, <2>1, <3>1, TransportAssumption DEF Tallied
  <2>2. CASE d # c
    <3>1. Tallied(d, gets[d], T!Requests(d)) /\ T!Requests(d)' = T!Requests(d)
      BY <1>6, <1>7, <2>2 DEF TransportInv
    <3> QED BY <1>3, <1>5, <2>2, <3>1 DEF Tallied
  <2> QED BY <2>1, <2>2
<1>11. Asking' = Asking \cup {c} /\ c \notin Asking
  BY <1>6, <1>7, <1>8 DEF Asking
<1>12. /\ Len(grants) \in Nat /\ Len(grants') = Len(grants) + 1
       /\ \A i \in 1 .. Len(grants) : grants'[i] = grants[i]
       /\ grants'[Len(grants) + 1].weight = w
  <2> DEFINE g == [time |-> clock, weight |-> w]
  <2>1. g \in [time : Nat, weight : Nat \ {0}] /\ grants' = Append(grants, g) /\ g.weight = w
    BY <1>1, <1>4, <1>5
  <2> HIDE DEF g
  <2> QED BY <1>4, <2>1, SeqElements, AppendElements
<1>13. IsFiniteSet(Asking') /\ Len(grants') = Cardinality(Asking')
  BY <1>11, <1>12, FS_AddElement DEF TransportInv
<1>14. PICK owner : Owns(owner)
  BY DEF TransportInv
<1> DEFINE n == Len(grants)
<1>14a. PICK longer : longer = [i \in 1 .. n + 1 |-> IF i = n + 1 THEN c ELSE owner[i]]
  OBVIOUS
<1>15. /\ longer \in [1 .. n + 1 -> Callers] /\ longer[n + 1] = c
       /\ \A i \in 1 .. n : longer[i] = owner[i] /\ owner[i] \in Callers /\ owner[i] # c
  <2>1. \A i \in 1 .. n : owner[i] \in Callers /\ T!Requests(owner[i]) > 0
    BY <1>14 DEF Owns
  <2>2. \A i \in 1 .. n : i # n + 1
    BY <1>12
  <2> QED BY <1>8, <1>12, <1>14a, <2>1, <2>2
<1>16. \A i \in 1 .. n + 1 : i \in 1 .. n \/ i = n + 1
  BY <1>12
<1>17. \A i \in 1 .. n : i \in 1 .. n + 1
  BY <1>12
<1>18. n + 1 \in 1 .. n + 1
  BY <1>12
<1>19. Owns(longer)'
  <2>1. \A i, j \in 1 .. n + 1 : longer[i] = longer[j] => i = j
    BY <1>14, <1>15, <1>16 DEF Owns
  <2>2. \A d \in Callers : T!Requests(d)' > 0 <=> \E i \in 1 .. n + 1 : longer[i] = d
    <3> SUFFICES ASSUME NEW d \in Callers
                 PROVE  T!Requests(d)' > 0 <=> \E i \in 1 .. n + 1 : longer[i] = d
      OBVIOUS
    <3>1. CASE d = c
      BY <1>6, <1>7, <1>15, <1>18, <3>1
    <3>2. CASE d # c
      <4>1. T!Requests(d)' = T!Requests(d)
        BY <1>6, <1>7, <3>2
      <4>2. T!Requests(d) > 0 <=> \E i \in 1 .. n : owner[i] = d
        BY <1>14 DEF Owns
      <4>3. (\E i \in 1 .. n : owner[i] = d) <=> \E i \in 1 .. n + 1 : longer[i] = d
        BY <1>15, <1>16, <1>17, <3>2
      <4> QED BY <4>1, <4>2, <4>3
    <3> QED BY <3>1, <3>2
  <2>3. \A i \in 1 .. n + 1 : grants'[i].weight = gets'[longer[i]].weight
    <3>1. \A i \in 1 .. n : grants[i].weight = gets[owner[i]].weight
      BY <1>14 DEF Owns
    <3> QED BY <1>1, <1>3, <1>12, <1>15, <1>16, <3>1
  <2>4. T!Sent(Len(requests))' = SumTo(Spent(longer)', n + 1)
    <3> DEFINE old == Spent(owner)
               new == Spent(longer)'
    <3>1. \A i \in 1 .. n : new[i] = old[i]
      <4> SUFFICES ASSUME NEW i \in 1 .. n PROVE new[i] = old[i]
        OBVIOUS
      <4>1. /\ new[i] = gets'[longer[i]].weight * T!Requests(longer[i])'
            /\ old[i] = gets[owner[i]].weight * T!Requests(owner[i])
        BY <1>12, <1>17 DEF Spent
      <4>2. longer[i] = owner[i] /\ gets'[owner[i]] = gets[owner[i]]
        BY <1>3, <1>15
      <4>3. T!Requests(owner[i])' = T!Requests(owner[i])
        BY <1>6, <1>7, <1>15
      <4> QED BY <4>1, <4>2, <4>3
    <3>2. new[n + 1] = w
      <4>1. new[n + 1] = gets'[c].weight * T!Requests(c)'
        BY <1>12, <1>15, <1>18 DEF Spent
      <4>2. gets'[c].weight = w /\ T!Requests(c)' = 1
        BY <1>1, <1>3, <1>6, <1>8
      <4> QED BY <1>1, <4>1, <4>2
    <3>3. T!Sent(Len(requests)) = SumTo(old, n)
      BY <1>14 DEF Owns
    <3> HIDE DEF old, new
    <3>4. SumTo(new, n) = SumTo(old, n) /\ SumTo(new, n + 1) = SumTo(new, n) + new[n + 1]
      BY <1>12, <3>1, SumToAgree, SumToStep
    <3>5. SumTo(new, n + 1) = T!Sent(Len(requests)) + w
      BY <3>2, <3>3, <3>4
    <3> QED BY <1>6, <3>5 DEF new
  <2> QED BY <1>12, <1>15, <2>1, <2>2, <2>3, <2>4 DEF Owns
<1> QED BY <1>9, <1>10, <1>13, <1>19 DEF TransportInv

\* The next attempt of a call goes out on the grant it already has.
LEMMA RepeatedKeeps ==
    ASSUME TransportInv, NEW c \in Callers, T!Again(c)
    PROVE  TransportInv'
<1> DEFINE r == [gets[c] EXCEPT !.attempt = @ + 1]
           q == [r EXCEPT !.stage = "InFlight"]
           w == gets[c].weight
<1>1. /\ gets[c].stage = "Pausing" /\ T!Sends(c, r)
      /\ UNCHANGED <<clock, grants, head, sleepers, refused>>
  BY DEF T!Again, T!lvars, T!limiter
<1>2. /\ gets \in [Callers -> T!CallState] /\ gets[c] \in T!CallState /\ clock \in Nat
      /\ TransportTypes /\ Tallied(c, gets[c], T!Requests(c))
  BY DEF TransportInv, TransportTypes, T!LimiterOK
<1>3. /\ gets[c].attempt \in Nat /\ gets[c].attempt + 1 \in 0 .. Attempts - 1
      /\ w \in Nat \ {0}
      /\ T!Requests(c) = gets[c].attempt + 1 /\ c \notin refused /\ sleepers[c] = None
  BY <1>1, <1>2, TransportAssumption DEF Tallied, T!CallState
<1>4. /\ q \in T!CallState /\ q.stage = "InFlight" /\ q.weight = w
      /\ q.attempt = gets[c].attempt + 1
  BY <1>2, <1>3 DEF T!CallState, T!Stages
<1>5. /\ gets' = [gets EXCEPT ![c] = q]
      /\ requests' = Append(requests, [time |-> clock, weight |-> w, by |-> c])
  <2>1. r.weight = w
    BY <1>2 DEF T!CallState
  <2> QED BY <1>1, <2>1 DEF T!Sends
<1> HIDE DEF r, q, w
<1>6. /\ gets' \in [Callers -> T!CallState] /\ gets'[c] = q
      /\ \A d \in Callers : d # c => gets'[d] = gets[d]
  BY <1>2, <1>4, <1>5
<1>7. /\ requests' \in Seq([time : Nat, weight : Nat \ {0}, by : Callers])
      /\ \A d \in Callers : T!Requests(d)' = T!Requests(d) + IF d = c THEN 1 ELSE 0
      /\ T!Sent(Len(requests))' = T!Sent(Len(requests)) + w
  BY <1>2, <1>3, <1>5, AskedOneMore
<1>8. \A d \in Callers : T!Requests(d) \in Nat
  BY <1>2, AskedIsNatural
<1>9. TransportTypes'
  BY <1>1, <1>6, <1>7 DEF TransportInv, TransportTypes, T!LimiterOK
<1>10. ASSUME NEW d \in Callers
       PROVE  Tallied(d, gets[d], T!Requests(d))'
  <2>1. CASE d = c
    <3>1. T!Requests(c)' = q.attempt + 1
      BY <1>3, <1>4, <1>7, <1>8
    <3>2. q.attempt + 1 <= Attempts
      BY <1>3, <1>4, TransportAssumption
    <3> QED BY <1>1, <1>3, <1>4, <1>6, <2>1, <3>1, <3>2 DEF Tallied
  <2>2. CASE d # c
    <3>1. Tallied(d, gets[d], T!Requests(d)) /\ T!Requests(d)' = T!Requests(d)
      BY <1>7, <1>8, <2>2 DEF TransportInv
    <3> QED BY <1>1, <1>6, <2>2, <3>1 DEF Tallied
  <2> QED BY <2>1, <2>2
<1>11. \A d \in Callers : T!Requests(d)' > 0 <=> T!Requests(d) > 0
  BY <1>3, <1>7, <1>8
<1>12. Asking' = Asking
  BY <1>11 DEF Asking
<1>13. PICK owner : Owns(owner)
  BY DEF TransportInv
<1>14. PICK k \in 1 .. Len(grants) : owner[k] = c
  BY <1>3, <1>13 DEF Owns
<1>15. \A i \in 1 .. Len(grants) : owner[i] \in Callers /\ (i # k => owner[i] # c)
  BY <1>13, <1>14 DEF Owns
<1>16. \A d \in Callers : gets'[d].weight = gets[d].weight
  BY <1>4, <1>6 DEF w
<1>17. Owns(owner)'
  <2> DEFINE old == Spent(owner)
             new == Spent(owner)'
  <2>1. Len(grants) \in Nat /\ \A i \in 1 .. Len(grants) : old[i] \in Nat
    BY <1>13, SpentIsNatural
  <2>2. ASSUME NEW i \in 1 .. Len(grants)
        PROVE  /\ old[i] = gets[owner[i]].weight * T!Requests(owner[i])
               /\ new[i] = gets[owner[i]].weight * T!Requests(owner[i])'
    BY <1>1, <1>15, <1>16 DEF Spent
  <2>3. \A i \in 1 .. Len(grants) : i # k => new[i] = old[i]
    BY <1>7, <1>8, <1>15, <2>2
  <2>4. new[k] = old[k] + w
    <3>1. new[k] = w * (T!Requests(c) + 1) /\ old[k] = w * T!Requests(c)
      BY <1>7, <1>14, <2>2 DEF w
    <3>2. w * (T!Requests(c) + 1) = w * T!Requests(c) + w
      BY <1>3, <1>8
    <3> QED BY <3>1, <3>2
  <2>5. \A i \in 1 .. Len(grants) : old[i] \in Int /\ new[i] \in Int
    BY <1>3, <2>1, <2>3, <2>4
  <2>6. T!Sent(Len(requests)) = SumTo(old, Len(grants))
    BY <1>13 DEF Owns
  <2> HIDE DEF old, new
  <2>7. SumTo(new, Len(grants)) = SumTo(old, Len(grants)) - old[k] + new[k]
    <3>1. Len(grants) \in Nat /\ k \in 1 .. Len(grants)
      BY <2>1
    <3> QED BY <2>3, <2>5, <3>1, SumToReplace
  <2>8. SumTo(old, Len(grants)) \in Int
    BY <2>1, SumToNat
  <2>9. T!Sent(Len(requests))' = SumTo(new, Len(grants))
    BY <1>3, <1>7, <2>1, <2>4, <2>6, <2>7, <2>8
  <2> QED BY <1>1, <1>11, <1>13, <1>16, <2>9 DEF Owns, new
<1> QED BY <1>1, <1>9, <1>10, <1>12, <1>17 DEF TransportInv


-----------------------------------------------------------------------------
(* Every action of the transport is of one of the three kinds.             *)

\* acquire for a call that has no grant yet.
LEMMA AcquisitionKeeps ==
    ASSUME TransportInv, NEW c \in Callers, NEW r \in T!CallState,
           gets[c].stage \in {"Idle", "Acquiring"},
           r.weight \in Nat \ {0}, r.attempt = 0,
           T!AcquireAndSend(c, r)
    PROVE  TransportInv'
<1>1. /\ T!LimiterOK
      /\ T!Requests(c) = 0 /\ c \notin refused
  BY DEF TransportInv, TransportTypes, Tallied
<1>2. CASE T!Grant(c, r.weight) /\ T!Sends(c, r)
  BY <1>2, GrantedKeeps
<1>3. CASE /\ T!Sleep(c, r.weight)
           /\ gets' = [gets EXCEPT ![c] = [r EXCEPT !.stage = "Acquiring"]]
           /\ UNCHANGED requests
  <2> DEFINE q == [r EXCEPT !.stage = "Acquiring"]
  <2>1. q \in T!CallState /\ q.stage = "Acquiring" /\ q.weight = r.weight
    BY DEF T!CallState, T!Stages
  <2>2. /\ T!LimiterOK' /\ sleepers'[c] # None /\ UNCHANGED <<grants, refused>>
        /\ \A d \in Callers : d # c => sleepers'[d] = sleepers[d]
    BY <1>1, <1>3, TransportAcquires DEF T!Acquire
  <2>3. Tallied(c, q, T!Requests(c))'
    BY <1>1, <1>3, <2>1, <2>2, AskedTheSame, TransportAssumption DEF Tallied
  <2> HIDE DEF q
  <2>4. gets' = [gets EXCEPT ![c] = q] /\ UNCHANGED requests
    BY <1>3 DEF q
  <2>5. refused' \subseteq refused \cup {c} /\ (T!Requests(c) > 0 => q.weight = gets[c].weight)
    BY <1>1, <2>2
  <2> QED BY <2>1, <2>2, <2>3, <2>4, <2>5, QuietKeeps
<1>4. CASE /\ T!Raise(c, r.weight)
           /\ gets' = [gets EXCEPT ![c] = [r EXCEPT !.stage = "Failed"]]
           /\ UNCHANGED requests
  <2> DEFINE q == [r EXCEPT !.stage = "Failed"]
  <2>1. q \in T!CallState /\ q.stage = "Failed" /\ q.weight = r.weight
    BY DEF T!CallState, T!Stages
  <2>2. /\ T!LimiterOK' /\ sleepers'[c] = None /\ UNCHANGED grants
        /\ refused' = refused \cup {c}
        /\ \A d \in Callers : d # c => sleepers'[d] = sleepers[d]
    BY <1>1, <1>4, TransportAcquires DEF T!Acquire
  <2>3. Tallied(c, q, T!Requests(c))'
    BY <1>1, <1>4, <2>1, <2>2, AskedTheSame, TransportAssumption DEF Tallied
  <2> HIDE DEF q
  <2>4. gets' = [gets EXCEPT ![c] = q] /\ UNCHANGED requests
    BY <1>4 DEF q
  <2>5. refused' \subseteq refused \cup {c} /\ (T!Requests(c) > 0 => q.weight = gets[c].weight)
    BY <1>1, <2>2
  <2> QED BY <2>1, <2>2, <2>3, <2>4, <2>5, QuietKeeps
<1> QED BY <1>2, <1>3, <1>4 DEF T!AcquireAndSend

\* Nothing is asked of the limiter; the stage, and the pause, change.
LEMMA StageKeeps ==
    ASSUME TransportInv, NEW c \in Callers, NEW q \in T!CallState,
           gets[c].stage \in {"InFlight", "Pausing"},
           q.stage \in {"Returned", "Failed", "Pausing", "Cancelled"},
           q.weight = gets[c].weight, q.attempt = gets[c].attempt,
           q.stage = "Pausing" => q.attempt + 1 < Attempts,
           gets' = [gets EXCEPT ![c] = q],
           UNCHANGED <<T!lvars, requests>>
    PROVE  TransportInv'
<1>1. UNCHANGED <<clock, grants, head, sleepers, refused>>
  BY DEF T!lvars, T!limiter
<1>2. Tallied(c, gets[c], T!Requests(c)) /\ T!LimiterOK
  BY DEF TransportInv, TransportTypes
<1>3. T!LimiterOK'
  BY <1>1, <1>2 DEF T!LimiterOK
<1>4. Tallied(c, q, T!Requests(c))'
  BY <1>1, <1>2, AskedTheSame DEF Tallied
<1> QED BY <1>1, <1>3, <1>4, QuietKeeps

LEMMA TransportInit == T!Init => TransportInv
<1> SUFFICES ASSUME T!Init PROVE TransportInv
  OBVIOUS
<1>1. /\ clock = 0 /\ grants = <<>> /\ head = 1 /\ refused = {} /\ requests = <<>>
      /\ sleepers = [c \in Callers |-> None]
      /\ gets = [c \in Callers |-> [stage |-> "Idle", weight |-> 0, attempt |-> 0, until |-> 0]]
  BY DEF T!Init, T!NewLimiter
<1>2. T!LimiterOK
  BY <1>1 DEF T!LimiterOK
<1>3. TransportTypes
  <2>1. [stage |-> "Idle", weight |-> 0, attempt |-> 0, until |-> 0] \in T!CallState
    BY TransportAssumption DEF T!CallState, T!Stages
  <2> QED BY <1>1, <1>2, <2>1 DEF TransportTypes
<1>4. \A c \in Callers : T!Requests(c) = 0
  BY <1>1, SameSum, SumToZero DEF T!Requests
<1>5. \A c \in Callers : Tallied(c, gets[c], T!Requests(c))
  BY <1>1, <1>4, TransportAssumption DEF Tallied
<1>6. Owns(<<>>)
  <2>1. <<>> \in [1 .. Len(grants) -> Callers] /\ Len(grants) = 0
    BY <1>1
  <2>2. T!Sent(Len(requests)) = 0
    BY <1>1, SameSum, SumToZero DEF T!Sent
  <2>3. SumTo(Spent(<<>>), Len(grants)) = 0
    BY <2>1, SumToZero
  <2> QED BY <1>4, <2>1, <2>2, <2>3 DEF Owns
<1>7. Asking = {}
  BY <1>4 DEF Asking
<1> QED BY <1>1, <1>3, <1>5, <1>6, <1>7, FS_EmptySet DEF TransportInv

LEMMA TransportStep == TransportInv /\ [T!Next]_transportVars => TransportInv'
<1> SUFFICES ASSUME TransportInv, [T!Next]_transportVars PROVE TransportInv'
  OBVIOUS
<1>1. \A c \in Callers : gets[c] \in T!CallState /\ Tallied(c, gets[c], T!Requests(c))
  BY DEF TransportInv, TransportTypes
<1>2. ASSUME NEW c \in Callers, T!Get(c) PROVE TransportInv'
  <2>1. PICK w \in Weights : T!AcquireAndSend(c, [gets[c] EXCEPT !.weight = w])
    BY <1>2 DEF T!Get
  <2> DEFINE r == [gets[c] EXCEPT !.weight = w]
  <2>2. w \in Nat \ {0}
    BY LimiterAssumption
  <2>3. r \in T!CallState /\ r.weight = w /\ r.attempt = gets[c].attempt
    BY <1>1, <2>2 DEF T!CallState
  <2>4. gets[c].stage = "Idle"
    BY <1>2 DEF T!Get
  <2>5. gets[c].attempt = 0
    BY <1>1, <2>4 DEF Tallied
  <2> HIDE DEF r
  <2>6. T!AcquireAndSend(c, r)
    BY <2>1 DEF r
  <2> QED BY <2>2, <2>3, <2>4, <2>5, <2>6, AcquisitionKeeps
<1>3. ASSUME NEW c \in Callers, T!Resume(c) PROVE TransportInv'
  <2>1. gets[c].stage = "Acquiring" /\ T!AcquireAndSend(c, gets[c])
    BY <1>3 DEF T!Resume
  <2>2. gets[c].weight \in Nat \ {0} /\ gets[c].attempt = 0
    BY <1>1, <2>1 DEF Tallied
  <2> QED BY <1>1, <2>1, <2>2, AcquisitionKeeps
<1>4. ASSUME NEW c \in Callers, T!End(c) PROVE TransportInv'
  <2>1. PICK stage \in {"Returned", "Failed"} :
            gets' = [gets EXCEPT ![c] = [gets[c] EXCEPT !.stage = stage]]
    BY <1>4 DEF T!End
  <2> DEFINE q == [gets[c] EXCEPT !.stage = stage]
  <2>2. /\ q \in T!CallState /\ q.stage = stage
        /\ q.weight = gets[c].weight /\ q.attempt = gets[c].attempt
    BY <1>1 DEF T!CallState, T!Stages
  <2>3. gets[c].stage = "InFlight" /\ UNCHANGED <<T!lvars, requests>>
    BY <1>4 DEF T!End
  <2> HIDE DEF q
  <2>4. gets' = [gets EXCEPT ![c] = q]
    BY <2>1 DEF q
  <2> QED BY <2>2, <2>3, <2>4, StageKeeps
<1>5. ASSUME NEW c \in Callers, T!Pause(c) PROVE TransportInv'
  <2> DEFINE u == clock + Second * 2 ^ gets[c].attempt
             q == [gets[c] EXCEPT !.stage = "Pausing", !.until = u]
  <2>1. u \in Int
    <3>1. clock \in Int /\ gets[c].attempt \in Int
      BY <1>1, TransportAssumption DEF T!CallState, TransportInv, TransportTypes, T!LimiterOK
    <3>2. 2 ^ gets[c].attempt \in Int
      BY <3>1
    <3> QED BY <3>1, <3>2, TransportAssumption
  <2> HIDE DEF u
  <2>2. /\ q \in T!CallState /\ q.stage = "Pausing"
        /\ q.weight = gets[c].weight /\ q.attempt = gets[c].attempt
    BY <1>1, <2>1 DEF T!CallState, T!Stages
  <2>3. /\ gets[c].stage = "InFlight" /\ UNCHANGED <<T!lvars, requests>>
        /\ gets[c].attempt < Attempts - 1 /\ gets' = [gets EXCEPT ![c] = q]
    BY <1>5 DEF T!Pause, T!Retriable, u
  <2>4. gets[c].attempt + 1 < Attempts
    BY <1>1, <2>3, TransportAssumption DEF T!CallState
  <2> HIDE DEF q
  <2> QED BY <2>2, <2>3, <2>4, StageKeeps
<1>6. ASSUME NEW c \in Callers, T!Again(c) PROVE TransportInv'
  BY <1>6, RepeatedKeeps
<1>7. ASSUME NEW c \in Callers, T!Abandon(c) PROVE TransportInv'
  <2>0. PICK q : q = [gets[c] EXCEPT !.stage = "Cancelled"]
    OBVIOUS
  <2>1. /\ q \in T!CallState /\ q.stage = "Cancelled"
        /\ q.weight = gets[c].weight /\ q.attempt = gets[c].attempt
    BY <1>1, <2>0 DEF T!CallState, T!Stages
  <2>2. gets' = [gets EXCEPT ![c] = q] /\ UNCHANGED requests
    BY <1>7, <2>0 DEF T!Abandon
  <2>3. CASE gets[c].stage \in {"InFlight", "Pausing"} /\ UNCHANGED T!lvars
    BY <2>1, <2>2, <2>3, StageKeeps
  <2>4. CASE gets[c].stage = "Acquiring" /\ T!Cancel(c)
    <3>1. T!LimiterOK
      BY DEF TransportInv, TransportTypes
    <3>2. /\ sleepers' = [sleepers EXCEPT ![c] = None]
          /\ UNCHANGED <<clock, grants, head, refused>>
      BY <2>4 DEF T!Cancel
    <3>3. /\ sleepers' \in [Callers -> {None} \cup T!Sleeper] /\ sleepers'[c] = None
          /\ \A d \in Callers : d # c => sleepers'[d] = sleepers[d]
      BY <3>1, <3>2 DEF T!LimiterOK
    <3>4. T!LimiterOK'
      BY <3>1, <3>2, <3>3 DEF T!LimiterOK
    <3>5. Tallied(c, gets[c], T!Requests(c)) /\ T!Requests(c)' = T!Requests(c)
      BY <1>1, <2>2, AskedTheSame
    <3>6. Tallied(c, q, T!Requests(c))'
      BY <2>1, <2>4, <3>2, <3>3, <3>5 DEF Tallied
    <3>7. refused' \subseteq refused \cup {c} /\ UNCHANGED <<grants, requests>>
      BY <2>2, <3>2
    <3> QED BY <2>1, <2>2, <3>3, <3>4, <3>6, <3>7, QuietKeeps
  <2> QED BY <1>7, <2>3, <2>4 DEF T!Abandon
<1>8. CASE T!Tick \/ UNCHANGED transportVars
  <2>1. UNCHANGED <<grants, head, sleepers, refused, gets, requests>>
        /\ (clock' = clock + 1 \/ clock' = clock)
    BY <1>8 DEF T!Tick, T!TimePasses, T!limiter, transportVars
  <2>2. TransportTypes'
    BY <2>1 DEF TransportInv, TransportTypes, T!LimiterOK
  <2>3. /\ \A d \in Callers : T!Requests(d)' = T!Requests(d)
        /\ T!Sent(Len(requests))' = T!Sent(Len(requests))
    BY <2>1, AskedTheSame
  <2>4. \A c \in Callers : Tallied(c, gets[c], T!Requests(c))'
    BY <1>1, <2>1, <2>3 DEF Tallied
  <2>5. \E owner : Owns(owner)'
    <3>1. PICK owner : Owns(owner)
      BY DEF TransportInv
    <3>2. Spent(owner)' = Spent(owner)
      BY <2>1, <2>3, <3>1 DEF Spent, Owns
    <3>3. Owns(owner)'
      BY <2>1, <2>3, <3>1, <3>2 DEF Owns
    <3> QED BY <3>3
  <2>6. Asking' = Asking
    BY <2>3 DEF Asking
  <2> QED BY <2>1, <2>2, <2>4, <2>5, <2>6 DEF TransportInv
<1> QED BY <1>2, <1>3, <1>4, <1>5, <1>6, <1>7, <1>8 DEF T!Next

-----------------------------------------------------------------------------
(* Both programs                                                           *)

\* A grant is used up by at most Attempts requests of its own weight.
LEMMA GrantsCover == TransportInv => T!RequestsCovered
<1> SUFFICES ASSUME TransportInv PROVE T!RequestsCovered
  OBVIOUS
<1>1. PICK owner : Owns(owner)
  BY DEF TransportInv
<1>2. \A c \in Callers : T!Requests(c) \in Nat /\ Tallied(c, gets[c], T!Requests(c))
  BY AskedIsNatural DEF TransportInv
<1>3. /\ Len(grants) \in Nat
      /\ \A i \in 1 .. Len(grants) : Spent(owner)[i] \in Int
  BY <1>1, SpentIsNatural
<1> DEFINE granted == [i \in 1 .. Len(grants) |-> grants[i].weight]
           most == [i \in 1 .. Len(grants) |-> Attempts * grants[i].weight]
<1>4. ASSUME NEW i \in 1 .. Len(grants)
      PROVE  /\ granted[i] \in Int /\ most[i] \in Int /\ most[i] = Attempts * granted[i]
             /\ Spent(owner)[i] <= most[i]
  <2>1. grants[i].weight \in Nat
    <3>1. grants \in Seq([time : Nat, weight : Nat \ {0}])
      BY DEF TransportInv, TransportTypes, T!LimiterOK
    <3>2. grants[i] \in [time : Nat, weight : Nat \ {0}]
      BY <3>1, SeqElements
    <3> QED BY <3>2
  <2>2. owner[i] \in Callers /\ gets[owner[i]].weight = grants[i].weight
    BY <1>1 DEF Owns
  <2>3. T!Requests(owner[i]) \in Nat /\ T!Requests(owner[i]) <= Attempts
    BY <1>2, <2>2 DEF Tallied
  <2>4. Spent(owner)[i] = grants[i].weight * T!Requests(owner[i])
    BY <2>2 DEF Spent
  <2> DEFINE w == grants[i].weight
             asked == T!Requests(owner[i])
  <2>5. w \in Nat /\ asked \in Nat /\ asked <= Attempts /\ Attempts \in Nat
    BY <2>1, <2>3, TransportAssumption
  <2>6. granted[i] = w /\ most[i] = Attempts * w /\ Spent(owner)[i] = w * asked
    BY <2>4
  <2> HIDE DEF w, asked, granted, most
  <2>7. w * asked <= Attempts * w /\ Attempts * w \in Int
    BY <2>5
  <2> QED BY <2>5, <2>6, <2>7
<1>5. T!Granted(Len(grants)) = SumTo(granted, Len(grants))
  BY SameSum DEF T!Granted
<1>6. T!Sent(Len(requests)) = SumTo(Spent(owner), Len(grants))
  BY <1>1 DEF Owns
<1> HIDE DEF granted, most
<1>7. SumTo(Spent(owner), Len(grants)) <= SumTo(most, Len(grants))
  BY <1>3, <1>4, SumToMonotone
<1>8. SumTo(most, Len(grants)) = Attempts * SumTo(granted, Len(grants))
  BY <1>3, <1>4, TransportAssumption, SumToScale
<1>9. T!Sent(Len(requests)) <= Attempts * T!Granted(Len(grants))
  BY <1>5, <1>6, <1>7, <1>8
<1>10. ASSUME NEW c \in Callers
       PROVE  /\ sleepers[c] # None <=> gets[c].stage = "Acquiring"
              /\ T!Requests(c) <= Attempts
              /\ T!Requests(c) > 0 => gets[c].stage \notin {"Idle", "Acquiring"} /\ c \notin refused
              /\ gets[c].stage \in {"InFlight", "Pausing", "Returned"} =>
                     T!Requests(c) = gets[c].attempt + 1
  BY <1>2 DEF Tallied
<1>11. gets \in [Callers -> T!CallState]
  BY DEF TransportInv, TransportTypes
<1>12. Len(grants) = Cardinality({c \in Callers : T!Requests(c) > 0})
  BY DEF TransportInv, Asking
<1> QED BY <1>9, <1>10, <1>11, <1>12, SameSize DEF T!RequestsCovered

\* Each program takes its own steps; the other's state stays as it began.
LEMMA NetworkStep ==
    ClientInv /\ TransportInv /\ [NetworkNext]_networkVars => ClientInv' /\ TransportInv'
<1> SUFFICES ASSUME ClientInv, TransportInv, [NetworkNext]_networkVars
             PROVE  ClientInv' /\ TransportInv'
  OBVIOUS
<1>1. [Next]_cvars /\ [T!Next]_transportVars
  BY DEF NetworkNext, ClientTurn, TransportTurn, networkVars
<1> QED BY <1>1, NextKeepsInv, TransportStep

(* BinanceClient makes one request and at most max_retries more per call,  *)
(* and has an error to raise when it gives up.  BinanceTransport asks the  *)
(* limiter once per call: no request is without a grant, a grant covers at *)
(* most Attempts requests, and no grant is wasted on a call that was       *)
(* refused by the limiter.                                                 *)
THEOREM RequestsAreAccounted == NetworkSpec => []RequestsAccounted
<1>1. NetworkInit => ClientInv /\ TransportInv
  BY InitInv, TransportInit DEF NetworkInit
<1>2. ClientInv /\ TransportInv => RequestsAccounted
  <2>1. ClientInv => ClientOK /\ FailsWithError
    BY DEF ClientInv, Recorded, FailsWithError
  <2>2. ClientInv => RequestsBounded
    BY CallFacts DEF RequestsBounded
  <2> QED BY <2>1, <2>2, GrantsCover DEF RequestsAccounted
<1> QED BY <1>1, <1>2, NetworkStep, PTL DEF NetworkSpec
=============================================================================
