---------------------------- MODULE Sums_proofs ----------------------------
(***************************************************************************)
(* Facts about SumTo for every length n.  The induction over 0..n is done  *)
(* with the least counterexample (theorem WFMin of the library), since no  *)
(* installed prover instantiates the induction rules that take an operator.*)
(***************************************************************************)
EXTENDS Sums, FiniteSetTheorems, WellFoundedInduction, TLAPS

(* A set of naturals that holds 0 and is closed under successor is Nat.    *)
(* Every induction below is an instance of it.                             *)
LEMMA SetInduction ==
    ASSUME NEW S,
           0 \in S,
           \A n \in Nat : n \in S => n + 1 \in S
    PROVE  \A n \in Nat : n \in S
<1> DEFINE R == OpToRel(<, Nat)
           T == {n \in Nat : n \notin S}
<1>1. SUFFICES ASSUME T # {} PROVE FALSE
  OBVIOUS
<1>2. IsWellFoundedOn(R, Nat)
  BY NatLessThanWellFounded
<1>3. T \subseteq Nat
  OBVIOUS
<1> HIDE DEF R
<1>4. \E x \in T : \A y \in T : ~(<<y, x>> \in R)
  BY <1>1, <1>2, <1>3, WFMin
<1>5. PICK x \in T : \A y \in T : ~(<<y, x>> \in R)
  BY <1>4
<1>6. x \in Nat /\ x # 0
  OBVIOUS
<1>7. x - 1 \in Nat /\ x - 1 < x /\ (x - 1) + 1 = x
  BY <1>6
<1>8. x - 1 \in T
  BY <1>7
<1>9. <<x - 1, x>> \in R
  BY <1>6, <1>7 DEF R, OpToRel
<1> QED
  BY <1>5, <1>8, <1>9

-----------------------------------------------------------------------------
(* g is the table of partial sums of w up to n.                            *)
PartialSums(g, w, n) == g = [i \in 0 .. n |-> IF i = 0 THEN 0 ELSE g[i - 1] + w[i]]

(* The recursion that defines SumTo has a solution: partial sums exist.    *)
LEMMA PartialSumsExist ==
    ASSUME NEW w, NEW m \in Nat
    PROVE  \E g : PartialSums(g, w, m)
<1> DEFINE S == {n \in Nat : \E g : PartialSums(g, w, n)}
<1>1. 0 \in S
  <2>1. PartialSums([i \in 0 .. 0 |-> 0], w, 0)
    BY DEF PartialSums
  <2> QED BY <2>1
<1>2. \A n \in Nat : n \in S => n + 1 \in S
  <2> SUFFICES ASSUME NEW n \in Nat, n \in S PROVE n + 1 \in S
    OBVIOUS
  <2>1. PICK g : PartialSums(g, w, n)
    OBVIOUS
  <2> DEFINE h == [i \in 0 .. n + 1 |-> IF i = n + 1 THEN g[n] + w[n + 1] ELSE g[i]]
  <2>2. \A i \in 0 .. n + 1 : h[i] = IF i = 0 THEN 0 ELSE h[i - 1] + w[i]
    <3> SUFFICES ASSUME NEW i \in 0 .. n + 1
                 PROVE  h[i] = IF i = 0 THEN 0 ELSE h[i - 1] + w[i]
      OBVIOUS
    <3>1. CASE i = n + 1
      BY <3>1
    <3>2. CASE i \in 0 .. n
      <4>1. g[i] = IF i = 0 THEN 0 ELSE g[i - 1] + w[i]
        BY <2>1, <3>2 DEF PartialSums
      <4>2. h[i] = g[i] /\ (i # 0 => h[i - 1] = g[i - 1])
        BY <3>2
      <4> QED BY <4>1, <4>2
    <3> QED BY <3>1, <3>2
  <2>3. PartialSums(h, w, n + 1)
    BY <2>2 DEF PartialSums
  <2> QED BY <2>3
<1> HIDE DEF S
<1>3. m \in S
  BY <1>1, <1>2, SetInduction
<1> QED BY <1>3 DEF S

(* Any two tables of partial sums agree where both are defined.            *)
LEMMA PartialSumsAgree ==
    ASSUME NEW w, NEW n \in Nat, NEW m \in Nat, n <= m,
           NEW g, PartialSums(g, w, n),
           NEW h, PartialSums(h, w, m)
    PROVE  g[n] = h[n]
<1> DEFINE S == {k \in Nat : k <= n => g[k] = h[k]}
<1>1. 0 \in S
  BY DEF PartialSums
<1>2. \A k \in Nat : k \in S => k + 1 \in S
  <2> SUFFICES ASSUME NEW k \in Nat, k \in S, k + 1 <= n PROVE g[k + 1] = h[k + 1]
    OBVIOUS
  <2>1. g[k + 1] = g[(k + 1) - 1] + w[k + 1]
    BY DEF PartialSums
  <2>2. h[k + 1] = h[(k + 1) - 1] + w[k + 1]
    BY DEF PartialSums
  <2>3. g[k] = h[k] /\ (k + 1) - 1 = k
    OBVIOUS
  <2> QED BY <2>1, <2>2, <2>3
<1> HIDE DEF S
<1>3. n \in S
  BY <1>1, <1>2, SetInduction
<1> QED BY <1>3 DEF S

(* SumTo is the last entry of any table of partial sums.                   *)
LEMMA SumToIsLast ==
    ASSUME NEW w, NEW n \in Nat, NEW g, PartialSums(g, w, n)
    PROVE  SumTo(w, n) = g[n]
<1> DEFINE c == CHOOSE x : PartialSums(x, w, n)
<1>1. PartialSums(c, w, n)
  OBVIOUS
<1>2. SumTo(w, n) = c[n]
  BY DEF SumTo, PartialSums
<1> HIDE DEF c
<1>3. c[n] = g[n]
  BY <1>1, PartialSumsAgree
<1> QED BY <1>2, <1>3

-----------------------------------------------------------------------------
(* The two equations of the sum.                                           *)
THEOREM SumToZero == ASSUME NEW w PROVE SumTo(w, 0) = 0
<1>1. PICK g : PartialSums(g, w, 0)
  BY PartialSumsExist
<1>2. SumTo(w, 0) = g[0]
  BY <1>1, SumToIsLast
<1> QED BY <1>1, <1>2 DEF PartialSums

(* One more summand.                                                       *)
THEOREM SumToStep ==
    ASSUME NEW w, NEW n \in Nat
    PROVE  SumTo(w, n + 1) = SumTo(w, n) + w[n + 1]
<1>1. PICK h : PartialSums(h, w, n + 1)
  BY PartialSumsExist
<1>2. PICK g : PartialSums(g, w, n)
  BY PartialSumsExist
<1>3. g[n] = h[n]
  <2>1. n <= n + 1 /\ n + 1 \in Nat
    OBVIOUS
  <2> QED BY <1>1, <1>2, <2>1, PartialSumsAgree
<1>4. h[n + 1] = h[n] + w[n + 1]
  <2>1. n + 1 \in 0 .. n + 1 /\ n + 1 # 0 /\ (n + 1) - 1 = n
    OBVIOUS
  <2> QED BY <1>1, <2>1 DEF PartialSums
<1>5. SumTo(w, n + 1) = h[n + 1] /\ SumTo(w, n) = g[n]
  <2>1. n + 1 \in Nat
    OBVIOUS
  <2> QED BY <1>1, <1>2, <2>1, SumToIsLast
<1> QED BY <1>3, <1>4, <1>5

(* A sum of integers is an integer.                                        *)
THEOREM SumToInt ==
    ASSUME NEW w, NEW n \in Nat, \A i \in 1 .. n : w[i] \in Int
    PROVE  SumTo(w, n) \in Int
<1> DEFINE S == {k \in Nat : k <= n => SumTo(w, k) \in Int}
<1>1. 0 \in S
  BY SumToZero
<1>2. \A k \in Nat : k \in S => k + 1 \in S
  <2> SUFFICES ASSUME NEW k \in Nat, k \in S, k + 1 <= n PROVE SumTo(w, k + 1) \in Int
    OBVIOUS
  <2>1. w[k + 1] \in Int /\ SumTo(w, k) \in Int
    OBVIOUS
  <2> QED BY <2>1, SumToStep
<1> HIDE DEF S
<1>3. \A k \in Nat : k \in S
  BY <1>1, <1>2, SetInduction
<1> QED BY <1>3 DEF S

(* Sums of pointwise equal summands are equal.                             *)
THEOREM SumToAgree ==
    ASSUME NEW w, NEW v, NEW n \in Nat, \A i \in 1 .. n : w[i] = v[i]
    PROVE  SumTo(w, n) = SumTo(v, n)
<1> DEFINE S == {k \in Nat : k <= n => SumTo(w, k) = SumTo(v, k)}
<1>1. 0 \in S
  BY SumToZero
<1>2. \A k \in Nat : k \in S => k + 1 \in S
  <2> SUFFICES ASSUME NEW k \in Nat, k \in S, k + 1 <= n
               PROVE  SumTo(w, k + 1) = SumTo(v, k + 1)
    OBVIOUS
  <2>1. w[k + 1] = v[k + 1] /\ SumTo(w, k) = SumTo(v, k)
    OBVIOUS
  <2> QED BY <2>1, SumToStep
<1> HIDE DEF S
<1>3. \A k \in Nat : k \in S
  BY <1>1, <1>2, SetInduction
<1> QED BY <1>3 DEF S

(* Changing the k-th summand changes the sum by the same amount.           *)
THEOREM SumToReplace ==
    ASSUME NEW n \in Nat, NEW w, NEW v, NEW k \in 1 .. n,
           \A i \in 1 .. n : w[i] \in Int /\ v[i] \in Int,
           \A i \in 1 .. n : i # k => v[i] = w[i]
    PROVE  SumTo(v, n) = SumTo(w, n) - w[k] + v[k]
<1> DEFINE Shift(i) == IF i < k THEN 0 ELSE v[k] - w[k]
           S == {j \in Nat : j <= n => SumTo(v, j) = SumTo(w, j) + Shift(j)}
<1>1. 0 \in S
  BY SumToZero
<1>2. \A j \in Nat : j \in S => j + 1 \in S
  <2> SUFFICES ASSUME NEW j \in Nat, j \in S, j + 1 <= n
               PROVE  SumTo(v, j + 1) = SumTo(w, j + 1) + Shift(j + 1)
    OBVIOUS
  <2>1. j + 1 \in 1 .. n /\ j <= n /\ SumTo(v, j) = SumTo(w, j) + Shift(j)
    OBVIOUS
  <2>2. SumTo(w, j) \in Int
    <3>1. \A i \in 1 .. j : w[i] \in Int
      BY <2>1
    <3> QED BY <3>1, SumToInt
  <2>3. SumTo(v, j + 1) = SumTo(v, j) + v[j + 1] /\ SumTo(w, j + 1) = SumTo(w, j) + w[j + 1]
    BY SumToStep
  <2>4. w[j + 1] \in Int /\ v[j + 1] \in Int /\ w[k] \in Int /\ v[k] \in Int
    BY <2>1
  <2>5. CASE j + 1 = k
    BY <2>1, <2>2, <2>3, <2>4, <2>5
  <2>6. CASE j + 1 # k
    <3>1. v[j + 1] = w[j + 1]
      BY <2>1, <2>6
    <3> QED BY <2>1, <2>2, <2>3, <2>4, <2>6, <3>1
  <2> QED BY <2>5, <2>6
<1> HIDE DEF S
<1>3. n \in S
  BY <1>1, <1>2, SetInduction
<1>4. SumTo(v, n) = SumTo(w, n) + (v[k] - w[k])
  BY <1>3 DEF S
<1>5. SumTo(w, n) \in Int /\ w[k] \in Int /\ v[k] \in Int
  BY SumToInt
<1> QED BY <1>4, <1>5

(* Sums add pointwise.                                                     *)
THEOREM SumToPlus ==
    ASSUME NEW n \in Nat, NEW w, NEW v, NEW u,
           \A i \in 1 .. n : w[i] \in Int /\ v[i] \in Int /\ u[i] = w[i] + v[i]
    PROVE  SumTo(u, n) = SumTo(w, n) + SumTo(v, n)
<1> DEFINE S == {k \in Nat : k <= n => SumTo(u, k) = SumTo(w, k) + SumTo(v, k)}
<1>1. 0 \in S
  BY SumToZero
<1>2. \A k \in Nat : k \in S => k + 1 \in S
  <2> SUFFICES ASSUME NEW k \in Nat, k \in S, k + 1 <= n
               PROVE  SumTo(u, k + 1) = SumTo(w, k + 1) + SumTo(v, k + 1)
    OBVIOUS
  <2>1. k + 1 \in 1 .. n /\ SumTo(u, k) = SumTo(w, k) + SumTo(v, k)
    OBVIOUS
  <2>2. SumTo(w, k) \in Int /\ SumTo(v, k) \in Int
    <3>1. \A i \in 1 .. k : w[i] \in Int /\ v[i] \in Int
      BY <2>1
    <3> QED BY <3>1, SumToInt
  <2>3. /\ SumTo(u, k + 1) = SumTo(u, k) + u[k + 1]
        /\ SumTo(w, k + 1) = SumTo(w, k) + w[k + 1]
        /\ SumTo(v, k + 1) = SumTo(v, k) + v[k + 1]
    BY SumToStep
  <2> QED BY <2>1, <2>2, <2>3
<1> HIDE DEF S
<1>3. n \in S
  BY <1>1, <1>2, SetInduction
<1> QED BY <1>3 DEF S

(* A sum of zeros is zero.                                                 *)
THEOREM SumToNothing ==
    ASSUME NEW w, NEW n \in Nat, \A i \in 1 .. n : w[i] = 0
    PROVE  SumTo(w, n) = 0
<1>1. \A i \in 1 .. n : w[i] \in Int /\ w[i] = w[i] + w[i]
  OBVIOUS
<1>2. SumTo(w, n) = SumTo(w, n) + SumTo(w, n)
  BY <1>1, SumToPlus
<1>3. SumTo(w, n) \in Int
  BY <1>1, SumToInt
<1>4. ASSUME NEW x \in Int, x = x + x PROVE x = 0
  BY <1>4
<1> QED BY <1>2, <1>3, <1>4, Zenon

(* Sums are monotone.                                                      *)
THEOREM SumToMonotone ==
    ASSUME NEW n \in Nat, NEW w, NEW v,
           \A i \in 1 .. n : w[i] \in Int /\ v[i] \in Int /\ w[i] <= v[i]
    PROVE  SumTo(w, n) <= SumTo(v, n)
<1> DEFINE S == {k \in Nat : k <= n => SumTo(w, k) <= SumTo(v, k)}
<1>1. 0 \in S
  BY SumToZero
<1>2. \A k \in Nat : k \in S => k + 1 \in S
  <2> SUFFICES ASSUME NEW k \in Nat, k \in S, k + 1 <= n
               PROVE  SumTo(w, k + 1) <= SumTo(v, k + 1)
    OBVIOUS
  <2>1. k + 1 \in 1 .. n /\ SumTo(w, k) <= SumTo(v, k)
    OBVIOUS
  <2>2. SumTo(w, k) \in Int /\ SumTo(v, k) \in Int
    <3>1. \A i \in 1 .. k : w[i] \in Int /\ v[i] \in Int
      BY <2>1
    <3> QED BY <3>1, SumToInt
  <2>3. /\ SumTo(w, k + 1) = SumTo(w, k) + w[k + 1]
        /\ SumTo(v, k + 1) = SumTo(v, k) + v[k + 1]
    BY SumToStep
  <2> QED BY <2>1, <2>2, <2>3
<1> HIDE DEF S
<1>3. n \in S
  BY <1>1, <1>2, SetInduction
<1> QED BY <1>3 DEF S

(* Sums of naturals grow with their length.                                *)
THEOREM SumToGrows ==
    ASSUME NEW n \in Nat, NEW w, \A i \in 1 .. n : w[i] \in Nat, NEW a \in 0 .. n
    PROVE  SumTo(w, a) <= SumTo(w, n)
<1> DEFINE S == {k \in Nat : k <= n /\ a <= k => SumTo(w, a) <= SumTo(w, k)}
<1>0. \A k \in Nat : k <= n => SumTo(w, k) \in Int
  <2> TAKE k \in Nat
  <2> HAVE k <= n
  <2>1. \A i \in 1 .. k : w[i] \in Int
    OBVIOUS
  <2> QED BY <2>1, SumToInt
<1>1. 0 \in S
  <2> SUFFICES ASSUME a <= 0 PROVE SumTo(w, a) <= SumTo(w, 0)
    OBVIOUS
  <2>1. a = 0 /\ SumTo(w, 0) \in Int
    BY <1>0
  <2> QED BY <2>1
<1>2. \A k \in Nat : k \in S => k + 1 \in S
  <2> SUFFICES ASSUME NEW k \in Nat, k \in S, k + 1 <= n, a <= k + 1
               PROVE  SumTo(w, a) <= SumTo(w, k + 1)
    OBVIOUS
  <2>1. k + 1 \in 1 .. n /\ SumTo(w, k) \in Int /\ SumTo(w, k + 1) \in Int
    BY <1>0
  <2>2. CASE a = k + 1
    BY <2>1, <2>2
  <2>3. CASE a <= k
    <3>1. SumTo(w, a) <= SumTo(w, k) /\ SumTo(w, a) \in Int
      BY <1>0, <2>3
    <3>2. SumTo(w, k + 1) = SumTo(w, k) + w[k + 1] /\ w[k + 1] \in Nat
      BY <2>1, SumToStep
    <3> QED BY <2>1, <3>1, <3>2
  <2> QED BY <2>2, <2>3
<1> HIDE DEF S
<1>3. n \in S
  BY <1>1, <1>2, SetInduction
<1> QED BY <1>3 DEF S

(* Zeros at the end add nothing.                                           *)
THEOREM SumToTail ==
    ASSUME NEW m \in Nat, NEW n \in Nat, m <= n, NEW w,
           \A i \in 1 .. n : w[i] \in Int,
           \A i \in m + 1 .. n : w[i] = 0
    PROVE  SumTo(w, n) = SumTo(w, m)
<1> DEFINE S == {k \in Nat : m <= k /\ k <= n => SumTo(w, k) = SumTo(w, m)}
<1>0. SumTo(w, m) \in Int
  <2>1. \A i \in 1 .. m : w[i] \in Int
    OBVIOUS
  <2> QED BY <2>1, SumToInt
<1>1. 0 \in S
  <2>1. m <= 0 => m = 0
    OBVIOUS
  <2> QED BY <2>1
<1>2. \A k \in Nat : k \in S => k + 1 \in S
  <2> SUFFICES ASSUME NEW k \in Nat, k \in S, m <= k + 1, k + 1 <= n
               PROVE  SumTo(w, k + 1) = SumTo(w, m)
    OBVIOUS
  <2>1. CASE m = k + 1
    BY <2>1
  <2>2. CASE m <= k
    <3>1. SumTo(w, k) = SumTo(w, m) /\ w[k + 1] = 0
      BY <2>2
    <3>2. SumTo(w, k + 1) = SumTo(w, k) + w[k + 1]
      BY SumToStep
    <3> QED BY <1>0, <3>1, <3>2
  <2> QED BY <2>1, <2>2
<1> HIDE DEF S
<1>3. n \in S
  BY <1>1, <1>2, SetInduction
<1> QED BY <1>3 DEF S

(* A sum of naturals is a natural.                                         *)
THEOREM SumToNat ==
    ASSUME NEW w, NEW n \in Nat, \A i \in 1 .. n : w[i] \in Nat
    PROVE  SumTo(w, n) \in Nat
<1>1. \A i \in 1 .. n : w[i] \in Int
  OBVIOUS
<1>2. SumTo(w, n) \in Int
  BY <1>1, SumToInt
<1>3. SumTo(w, 0) <= SumTo(w, n)
  <2>1. 0 \in 0 .. n
    OBVIOUS
  <2> QED BY <2>1, SumToGrows
<1>4. SumTo(w, 0) = 0
  BY SumToZero
<1> QED BY <1>2, <1>3, <1>4

(* A sum of naturals is positive if one of them is.                        *)
THEOREM SumToPositive ==
    ASSUME NEW w, NEW n \in Nat, \A i \in 1 .. n : w[i] \in Nat, NEW k \in 1 .. n, w[k] > 0
    PROVE  SumTo(w, n) > 0
<1>1. PICK v : v = [i \in 1 .. n |-> IF i = k THEN 0 ELSE w[i]]
  OBVIOUS
<1>2. /\ \A i \in 1 .. n : w[i] \in Int /\ v[i] \in Int
      /\ \A i \in 1 .. n : i # k => v[i] = w[i]
  BY <1>1
<1>3. SumTo(v, n) = SumTo(w, n) - w[k] + v[k]
  BY <1>2, SumToReplace
<1>4. SumTo(w, n) \in Nat
  BY SumToNat
<1>5. \A i \in 1 .. n : v[i] \in Nat
  BY <1>1
<1>6. SumTo(v, n) \in Nat
  BY <1>5, SumToNat
<1>7. v[k] = 0
  BY <1>1
<1> QED
  BY <1>3, <1>4, <1>6, <1>7

(* A multiple of a sum is the sum of the multiples.                        *)
THEOREM SumToScale ==
    ASSUME NEW n \in Nat, NEW m \in Int, NEW w, NEW v,
           \A i \in 1 .. n : w[i] \in Int /\ v[i] = m * w[i]
    PROVE  SumTo(v, n) = m * SumTo(w, n)
<1> DEFINE S == {k \in Nat : k <= n => SumTo(v, k) = m * SumTo(w, k)}
<1>1. 0 \in S
  BY SumToZero
<1>2. \A k \in Nat : k \in S => k + 1 \in S
  <2> SUFFICES ASSUME NEW k \in Nat, k \in S, k + 1 <= n
               PROVE  SumTo(v, k + 1) = m * SumTo(w, k + 1)
    OBVIOUS
  <2>1. k + 1 \in 1 .. n /\ SumTo(v, k) = m * SumTo(w, k)
    OBVIOUS
  <2>2. SumTo(w, k) \in Int
    <3>1. \A i \in 1 .. k : w[i] \in Int
      BY <2>1
    <3> QED BY <3>1, SumToInt
  <2>3. /\ SumTo(v, k + 1) = SumTo(v, k) + v[k + 1]
        /\ SumTo(w, k + 1) = SumTo(w, k) + w[k + 1]
    BY SumToStep
  <2>4. v[k + 1] = m * w[k + 1] /\ w[k + 1] \in Int
    BY <2>1
  <2>5. m * (SumTo(w, k) + w[k + 1]) = m * SumTo(w, k) + m * w[k + 1]
    BY <2>2, <2>4
  <2> QED BY <2>1, <2>3, <2>4, <2>5
<1> HIDE DEF S
<1>3. n \in S
  BY <1>1, <1>2, SetInduction
<1> QED BY <1>3 DEF S
-----------------------------------------------------------------------------
(* Sorting                                                                 *)

\* less orders the places 1..n of a list, up to equal elements.
IsLess(less, n) ==
    /\ n \in Nat
    /\ \A i, j \in 1 .. n : <<i, j>> \in less => <<j, i>> \notin less
    /\ \A i, j, k \in 1 .. n : <<i, j>> \notin less /\ <<j, k>> \notin less => <<i, k>> \notin less

\* The list whose k-th element is the p[k]-th of list.
Reordered(list, p) == [k \in DOMAIN p |-> list[p[k]]]

SortedAhead(less, n, i) == {j \in 1 .. n : SortsBefore(less, j, i)}

(* A stable sort puts all elements in one order.                           *)
LEMMA SortsBeforeIsAnOrder ==
    ASSUME NEW less, NEW n, IsLess(less, n)
    PROVE  /\ \A i \in 1 .. n : ~SortsBefore(less, i, i)
           /\ \A i, j \in 1 .. n : i = j \/ SortsBefore(less, i, j) \/ SortsBefore(less, j, i)
           /\ \A i, j \in 1 .. n : SortsBefore(less, i, j) => <<j, i>> \notin less
           /\ \A i, j, k \in 1 .. n :
                 SortsBefore(less, i, j) /\ SortsBefore(less, j, k) => SortsBefore(less, i, k)
<1>1. n \in Nat
  BY DEF IsLess
<1>2. ASSUME NEW i \in 1 .. n, NEW j \in 1 .. n, SortsBefore(less, i, j)
      PROVE  <<j, i>> \notin less
  BY <1>2 DEF SortsBefore, IsLess
<1>3. ASSUME NEW i \in 1 .. n, NEW j \in 1 .. n, NEW k \in 1 .. n,
             SortsBefore(less, i, j), SortsBefore(less, j, k)
      PROVE  SortsBefore(less, i, k)
  <2>1. <<j, i>> \notin less /\ <<k, j>> \notin less
    BY <1>2, <1>3
  <2>2. <<k, i>> \notin less
    BY <2>1 DEF IsLess
  <2>3. <<i, k>> \in less \/ i < k
    <3>1. CASE <<i, j>> \in less
      <4>1. <<i, k>> \in less
        BY <2>1, <3>1 DEF IsLess
      <4> QED
        BY <4>1
    <3>2. CASE <<j, k>> \in less
      <4>1. <<i, k>> \in less
        BY <2>1, <3>2 DEF IsLess
      <4> QED
        BY <4>1
    <3>3. CASE i < j /\ j < k
      <4>1. i < k
        BY <3>3
      <4> QED
        BY <4>1
    <3> QED
      BY <1>3, <3>1, <3>2, <3>3 DEF SortsBefore
  <2> QED
    BY <2>2, <2>3 DEF SortsBefore
<1>4. \A i \in 1 .. n : ~SortsBefore(less, i, i)
  BY DEF SortsBefore, IsLess
<1>5. \A i, j \in 1 .. n : i = j \/ SortsBefore(less, i, j) \/ SortsBefore(less, j, i)
  BY DEF SortsBefore
<1> QED
  BY <1>2, <1>3, <1>4, <1>5

(* Each element has more elements ahead of it than the one before.         *)
LEMMA PlacesGrow ==
    ASSUME NEW less, NEW n, IsLess(less, n)
    PROVE  /\ \A i \in 1 .. n : Cardinality(SortedAhead(less, n, i)) \in 0 .. n - 1
           /\ \A i, j \in 1 .. n : SortsBefore(less, i, j) =>
                 Cardinality(SortedAhead(less, n, i)) < Cardinality(SortedAhead(less, n, j))
<1> DEFINE A(i) == SortedAhead(less, n, i)
<1>1. n \in Nat
  BY DEF IsLess
<1>2. IsFiniteSet(1 .. n) /\ Cardinality(1 .. n) = n
  BY <1>1, FS_Interval
<1>3. \A i \in 1 .. n : A(i) \in SUBSET (1 .. n)
  BY DEF SortedAhead
<1>4. \A i \in 1 .. n : IsFiniteSet(A(i))
  BY <1>2, <1>3, FS_Subset
<1>5. ASSUME NEW i \in 1 .. n
      PROVE  Cardinality(A(i)) \in 0 .. n - 1
  <2>1. Cardinality(A(i)) \in Nat
    BY <1>4, FS_CardinalityType
  <2>2. Cardinality(A(i)) <= n /\ (n = Cardinality(A(i)) => 1 .. n = A(i))
    BY <1>2, <1>3, FS_Subset
  <2>3. i \notin A(i)
    BY SortsBeforeIsAnOrder DEF SortedAhead
  <2>4. Cardinality(A(i)) # n
    BY <2>2, <2>3
  <2> QED
    BY <1>1, <2>1, <2>2, <2>4
<1>6. ASSUME NEW i \in 1 .. n, NEW j \in 1 .. n, SortsBefore(less, i, j)
      PROVE  Cardinality(A(i)) < Cardinality(A(j))
  <2>1. i \in A(j) /\ i \notin A(i)
    BY <1>1, <1>6, SortsBeforeIsAnOrder DEF SortedAhead
  <2>2. A(i) \in SUBSET A(j)
    BY <1>1, <1>6, SortsBeforeIsAnOrder DEF SortedAhead
  <2>3. /\ Cardinality(A(i)) <= Cardinality(A(j))
        /\ Cardinality(A(j)) = Cardinality(A(i)) => A(j) = A(i)
    BY <1>4, <2>2, FS_Subset
  <2>4. Cardinality(A(j)) # Cardinality(A(i))
    BY <2>1, <2>3
  <2>5. Cardinality(A(i)) \in Nat /\ Cardinality(A(j)) \in Nat
    BY <1>5
  <2> QED
    BY <2>3, <2>4, <2>5
<1> QED
  BY <1>5, <1>6

\* The places of the elements: each has its own, and all are filled.
PlaceOfEach(f, less, n) ==
    /\ f \in [1 .. n -> 1 .. n]
    /\ \A i \in 1 .. n : f[i] = Cardinality(SortedAhead(less, n, i)) + 1
    /\ \A i, j \in 1 .. n : SortsBefore(less, i, j) => f[i] < f[j]
    /\ \A i, j \in 1 .. n : f[i] = f[j] => i = j
    /\ \A k \in 1 .. n : \E i \in 1 .. n : f[i] = k

(* The elements fill the places from the first to the last.                *)
LEMMA PlacesFill ==
    ASSUME NEW less, NEW n, IsLess(less, n)
    PROVE  \E f : PlaceOfEach(f, less, n)
<1>1. n \in Nat
  BY DEF IsLess
<1>2. PICK f : f = [i \in 1 .. n |-> Cardinality(SortedAhead(less, n, i)) + 1]
  OBVIOUS
<1>3. \A i \in 1 .. n : f[i] = Cardinality(SortedAhead(less, n, i)) + 1
  BY <1>2
<1>4. \A i \in 1 .. n : f[i] \in 1 .. n
  <2>1. SUFFICES ASSUME NEW i \in 1 .. n
                 PROVE  f[i] \in 1 .. n
    OBVIOUS
  <2>2. Cardinality(SortedAhead(less, n, i)) \in 0 .. n - 1
    BY PlacesGrow
  <2> QED
    BY <1>1, <1>3, <2>2
<1>5. \A i, j \in 1 .. n : SortsBefore(less, i, j) => f[i] < f[j]
  <2>1. SUFFICES ASSUME NEW i \in 1 .. n, NEW j \in 1 .. n, SortsBefore(less, i, j)
                 PROVE  f[i] < f[j]
    OBVIOUS
  <2>2. /\ Cardinality(SortedAhead(less, n, i)) < Cardinality(SortedAhead(less, n, j))
        /\ Cardinality(SortedAhead(less, n, i)) \in 0 .. n - 1
        /\ Cardinality(SortedAhead(less, n, j)) \in 0 .. n - 1
    BY <2>1, PlacesGrow
  <2> QED
    BY <1>1, <1>3, <2>2
<1>6. \A i, j \in 1 .. n : f[i] = f[j] => i = j
  <2>1. SUFFICES ASSUME NEW i \in 1 .. n, NEW j \in 1 .. n, f[i] = f[j], i # j
                 PROVE  FALSE
    OBVIOUS
  <2>2. SortsBefore(less, i, j) \/ SortsBefore(less, j, i)
    BY <2>1, SortsBeforeIsAnOrder
  <2>3. f[i] < f[j] \/ f[j] < f[i]
    BY <1>5, <2>2
  <2>4. f[i] \in Int /\ f[j] \in Int
    BY <1>4
  <2> QED
    BY <2>1, <2>3, <2>4
<1>7. f \in [1 .. n -> 1 .. n]
  BY <1>2, <1>4
<1>8. f \in Injection(1 .. n, 1 .. n)
  BY <1>6, <1>7 DEF Injection, IsInjective
<1>9. IsFiniteSet(1 .. n)
  BY <1>1, FS_Interval
<1>10. f \in Surjection(1 .. n, 1 .. n)
  BY <1>8, <1>9, FS_Injection
<1>11. \A k \in 1 .. n : \E i \in 1 .. n : f[i] = k
  BY <1>10 DEF Surjection
<1> QED
  BY <1>3, <1>5, <1>6, <1>7, <1>11 DEF PlaceOfEach

(* A sorted list holds the same elements, each once, and in order.         *)
THEOREM StableSortIsInOrder ==
    ASSUME NEW list, NEW less, NEW n, IsLess(less, n), DOMAIN list = 1 .. n
    PROVE  \E p \in [1 .. n -> 1 .. n] :
               /\ StableSort(list, less) = Reordered(list, p)
               /\ \A k, m \in 1 .. n : k < m => SortsBefore(less, p[k], p[m])
               /\ \A i \in 1 .. n : \E k \in 1 .. n : p[k] = i
<1>1. n \in Nat
  BY DEF IsLess
<1>2. PICK f : PlaceOfEach(f, less, n)
  BY PlacesFill
<1>3. \A i \in 1 .. n : f[i] = Cardinality(SortedAhead(less, n, i)) + 1
  BY <1>2 DEF PlaceOfEach
<1>4. \A i \in 1 .. n : f[i] \in 1 .. n
  BY <1>2 DEF PlaceOfEach
<1>5. \A i, j \in 1 .. n : SortsBefore(less, i, j) => f[i] < f[j]
  BY <1>2 DEF PlaceOfEach
<1>6. \A i, j \in 1 .. n : f[i] = f[j] => i = j
  BY <1>2 DEF PlaceOfEach
<1>7. \A k \in 1 .. n : \E i \in 1 .. n : f[i] = k
  BY <1>2 DEF PlaceOfEach
<1>8. PICK p : p = [k \in 1 .. n |-> CHOOSE i \in 1 .. n : f[i] = k]
  OBVIOUS
<1>9. \A k \in 1 .. n : p[k] \in 1 .. n /\ f[p[k]] = k
  BY <1>7, <1>8
<1>10. p \in [1 .. n -> 1 .. n]
  BY <1>8, <1>9
<1>11. StableSort(list, less) = Reordered(list, p)
  <2>1. StableSort(list, less) =
           [k \in 1 .. n |-> list[CHOOSE i \in 1 .. n :
                                     Cardinality(SortedAhead(less, n, i)) + 1 = k]]
    BY DEF StableSort, SortedAhead
  <2>2. \A k \in 1 .. n :
           (CHOOSE i \in 1 .. n : Cardinality(SortedAhead(less, n, i)) + 1 = k) = p[k]
    BY <1>3, <1>8
  <2>3. StableSort(list, less) = [k \in 1 .. n |-> list[p[k]]]
    BY <2>1, <2>2
  <2> QED
    BY <1>10, <2>3 DEF Reordered
<1>12. ASSUME NEW k \in 1 .. n, NEW m \in 1 .. n, k < m
       PROVE  SortsBefore(less, p[k], p[m])
  <2>1. p[k] \in 1 .. n /\ p[m] \in 1 .. n /\ f[p[k]] = k /\ f[p[m]] = m
    BY <1>9
  <2>2. p[k] # p[m]
    BY <1>12, <2>1
  <2>3. ~SortsBefore(less, p[m], p[k])
    <3>1. SortsBefore(less, p[m], p[k]) => m < k
      BY <1>5, <2>1
    <3> QED
      BY <1>12, <3>1
  <2> QED
    BY <2>1, <2>2, <2>3, SortsBeforeIsAnOrder
<1>13. ASSUME NEW i \in 1 .. n
       PROVE  \E k \in 1 .. n : p[k] = i
  <2>1. f[i] \in 1 .. n
    BY <1>4
  <2>2. p[f[i]] \in 1 .. n /\ f[p[f[i]]] = f[i]
    BY <1>9, <2>1
  <2> QED
    BY <1>6, <2>1, <2>2
<1> QED
  BY <1>10, <1>11, <1>12, <1>13

(* What is sorted keeps its type.                                          *)
THEOREM StableSortType ==
    ASSUME NEW list, NEW less, NEW n, IsLess(less, n), DOMAIN list = 1 .. n,
           NEW S, \A i \in 1 .. n : list[i] \in S
    PROVE  StableSort(list, less) \in [1 .. n -> S]
<1>1. PICK p \in [1 .. n -> 1 .. n] : StableSort(list, less) = Reordered(list, p)
  BY StableSortIsInOrder
<1>2. Reordered(list, p) \in [1 .. n -> S]
  BY DEF Reordered
<1> QED
  BY <1>1, <1>2

(* The other list holds the elements of the list in the order p, and more  *)
(* says of their places there what less says of them.                      *)
Shuffled(p, n, list, less, other, more) ==
    /\ DOMAIN list = 1 .. n /\ DOMAIN other = 1 .. n
    /\ p \in Bijection(1 .. n, 1 .. n)
    /\ \A i \in 1 .. n : other[i] = list[p[i]]
    /\ \A i, j \in 1 .. n : <<i, j>> \in more <=> <<p[i], p[j]>> \in less

\* Of two elements one is less.
NoneEqual(less, n) == \A i, j \in 1 .. n : i # j => <<i, j>> \in less \/ <<j, i>> \in less

(* Elements of which one of two is always less are sorted the same way,    *)
(* in whatever order p they come.                                          *)
THEOREM SortForgetsOrder ==
    ASSUME NEW less, NEW more, NEW n, IsLess(less, n), IsLess(more, n), NEW list, NEW other,
           NEW p, Shuffled(p, n, list, less, other, more), NoneEqual(less, n)
    PROVE  StableSort(other, more) = StableSort(list, less)
<1>1. n \in Nat
  BY DEF IsLess
<1>2. PICK f : PlaceOfEach(f, less, n)
  BY PlacesFill
<1>3. PICK g : PlaceOfEach(g, more, n)
  BY PlacesFill
<1>4. \A i \in 1 .. n : f[i] = Cardinality(SortedAhead(less, n, i)) + 1
  BY <1>2 DEF PlaceOfEach
<1>5. \A i \in 1 .. n : g[i] = Cardinality(SortedAhead(more, n, i)) + 1
  BY <1>3 DEF PlaceOfEach
<1>6. ASSUME NEW i \in 1 .. n, NEW j \in 1 .. n
      PROVE  SortsBefore(less, i, j) <=> <<i, j>> \in less
  <2>1. <<i, j>> \in less => <<j, i>> \notin less
    BY DEF IsLess
  <2>2. i # j => <<i, j>> \in less \/ <<j, i>> \in less
    BY DEF NoneEqual
  <2> QED
    <3>1. i \in Int /\ j \in Int
      BY <1>1
    <3> QED
      BY <2>1, <2>2, <3>1 DEF SortsBefore
<1>7. /\ p \in [1 .. n -> 1 .. n] /\ \A i, j \in 1 .. n : p[i] = p[j] => i = j
      /\ \A i \in 1 .. n : \E k \in 1 .. n : p[k] = i
  BY DEF Shuffled, Bijection, Injection, Surjection, IsInjective
<1>21. \A i, j \in 1 .. n : <<i, j>> \in more <=> <<p[i], p[j]>> \in less
  BY DEF Shuffled
<1>22. DOMAIN list = 1 .. n /\ DOMAIN other = 1 .. n
  BY DEF Shuffled
<1>23. \A i \in 1 .. n : other[i] = list[p[i]]
  BY DEF Shuffled
<1>8. \A i, j \in 1 .. n : SortsBefore(more, i, j) <=> SortsBefore(less, p[i], p[j])
  <2>1. ASSUME NEW i \in 1 .. n, NEW j \in 1 .. n
        PROVE  SortsBefore(more, i, j) <=> <<p[i], p[j]>> \in less
    <3>1. CASE i = j
      BY <1>1, <1>21, <3>1 DEF SortsBefore, IsLess
    <3>2. CASE i # j
      <4>1. p[i] \in 1 .. n /\ p[j] \in 1 .. n
        BY <1>7
      <4>2. p[i] # p[j]
        BY <1>7, <3>2
      <4>3. <<p[i], p[j]>> \in less \/ <<p[j], p[i]>> \in less
        BY <4>1, <4>2 DEF NoneEqual
      <4>4. <<p[i], p[j]>> \in less => <<p[j], p[i]>> \notin less
        BY <4>1 DEF IsLess
      <4>5. /\ <<i, j>> \in more <=> <<p[i], p[j]>> \in less
            /\ <<j, i>> \in more <=> <<p[j], p[i]>> \in less
        BY <1>21
      <4> QED
        BY <4>3, <4>4, <4>5 DEF SortsBefore
    <3> QED
      BY <3>1, <3>2
  <2> QED
    BY <1>6, <1>7, <2>1
<1>9. ASSUME NEW i \in 1 .. n
      PROVE  g[i] = f[p[i]]
  <2> DEFINE S == SortedAhead(more, n, i)
             T == SortedAhead(less, n, p[i])
             h == [j \in S |-> p[j]]
  <2>1. S \subseteq 1 .. n /\ T \subseteq 1 .. n
    BY DEF SortedAhead
  <2>2. \A j \in 1 .. n : j \in S <=> p[j] \in T
    BY <1>8, <1>7 DEF SortedAhead
  <2>3. \A t \in T : \E j \in S : p[j] = t
    BY <1>7, <2>1, <2>2
  <2> HIDE DEF S, T
  <2>4. h \in [S -> T] /\ \A j \in S : h[j] = p[j]
    BY <1>7, <2>1, <2>2
  <2>5. \A j, k \in S : h[j] = h[k] => j = k
    BY <1>7, <2>1, <2>4
  <2>6. h \in Injection(S, T)
    BY <2>4, <2>5 DEF Injection, IsInjective
  <2>7. h \in Surjection(S, T)
    BY <2>3, <2>4 DEF Surjection
  <2>8. ExistsBijection(S, T)
    BY <2>6, <2>7 DEF ExistsBijection, Bijection
  <2>9. IsFiniteSet(1 .. n)
    BY <1>1, FS_Interval
  <2>10. IsFiniteSet(S)
    BY <2>1, <2>9, FS_Subset
  <2>11. Cardinality(S) = Cardinality(T)
    BY <2>8, <2>10, FS_Bijection
  <2> QED
    BY <1>4, <1>5, <1>7, <2>11 DEF S, T
<1>10. /\ \A k \in 1 .. n : \E i \in 1 .. n : f[i] = k
       /\ \A i, j \in 1 .. n : f[i] = f[j] => i = j
  BY <1>2 DEF PlaceOfEach
<1>11. \A k \in 1 .. n : \E i \in 1 .. n : g[i] = k
  BY <1>3 DEF PlaceOfEach
<1>12. PICK q : q = [k \in 1 .. n |-> CHOOSE i \in 1 .. n : f[i] = k]
  OBVIOUS
<1>13. \A k \in 1 .. n : q[k] \in 1 .. n /\ f[q[k]] = k
  BY <1>10, <1>12
<1>14. PICK r : r = [k \in 1 .. n |-> CHOOSE i \in 1 .. n : g[i] = k]
  OBVIOUS
<1>15. \A k \in 1 .. n : r[k] \in 1 .. n /\ g[r[k]] = k
  BY <1>11, <1>14
<1>16. ASSUME NEW k \in 1 .. n
       PROVE  p[r[k]] = q[k]
  <2>1. r[k] \in 1 .. n /\ q[k] \in 1 .. n /\ g[r[k]] = k /\ f[q[k]] = k
    BY <1>13, <1>15
  <2>2. p[r[k]] \in 1 .. n /\ f[p[r[k]]] = k
    BY <1>9, <1>7, <2>1
  <2> QED
    BY <1>10, <2>1, <2>2
<1>17. StableSort(list, less) = [k \in 1 .. n |-> list[q[k]]]
  <2>1. StableSort(list, less) =
           [k \in 1 .. n |-> list[CHOOSE i \in 1 .. n :
                                     Cardinality(SortedAhead(less, n, i)) + 1 = k]]
    BY <1>22 DEF StableSort, SortedAhead
  <2>2. \A k \in 1 .. n :
           (CHOOSE i \in 1 .. n : Cardinality(SortedAhead(less, n, i)) + 1 = k) = q[k]
    BY <1>4, <1>12
  <2>3. DOMAIN q = 1 .. n
    BY <1>12
  <2> QED
    BY <2>1, <2>2
<1>18. StableSort(other, more) = [k \in 1 .. n |-> other[r[k]]]
  <2>1. StableSort(other, more) =
           [k \in 1 .. n |-> other[CHOOSE i \in 1 .. n :
                                     Cardinality(SortedAhead(more, n, i)) + 1 = k]]
    BY <1>22 DEF StableSort, SortedAhead
  <2>2. \A k \in 1 .. n :
           (CHOOSE i \in 1 .. n : Cardinality(SortedAhead(more, n, i)) + 1 = k) = r[k]
    BY <1>5, <1>14
  <2> QED
    BY <2>1, <2>2
<1>19. \A k \in 1 .. n : other[r[k]] = list[q[k]]
  BY <1>15, <1>16, <1>23
<1> QED
  BY <1>17, <1>18, <1>19

=============================================================================
