------------------------- MODULE VolumeCurve_proofs -------------------------
EXTENDS CAVolumeCurve, FiniteSetTheorems, TLAPS

\* Every nonempty set of natural numbers has a least element.
LEMMA Smallest ==
    ASSUME NEW T, T \subseteq Nat, T # {}
    PROVE  \E x \in T : \A y \in T : x <= y
<1> DEFINE F == {0 .. k : k \in T}
<1>1. F # {}
  OBVIOUS
<1>2. F \subseteq FiniteSubsetsOf(Nat)
  <2>1. ASSUME NEW k \in T PROVE 0 .. k \in FiniteSubsetsOf(Nat)
    <3>1. k \in Nat
      OBVIOUS
    <3>2. IsFiniteSet(0 .. k)
      BY <3>1, FS_Interval
    <3>3. 0 .. k \subseteq Nat
      BY <3>1
    <3> QED  BY <3>2, <3>3 DEF FiniteSubsetsOf
  <2> QED  BY <2>1
<1>3. PICK s \in F : \A t \in F : <<t, s>> \notin StrictSubsetOrdering(Nat)
  <2> HIDE DEF F
  <2> QED  BY <1>1, <1>2, FS_StrictSubsetOrderingWellFounded, WFMin
<1>4. PICK x \in T : s = 0 .. x
  OBVIOUS
<1>5. ASSUME NEW y \in T, y < x PROVE FALSE
  <2>1. x \in Nat /\ y \in Nat
    OBVIOUS
  <2>2. 0 .. y \subseteq 0 .. x /\ x \in 0 .. x /\ x \notin 0 .. y /\ 0 .. x \subseteq Nat
    BY <1>5, <2>1
  <2>3. 0 .. y \in F
    OBVIOUS
  <2>4. <<0 .. y, 0 .. x>> \in StrictSubsetOrdering(Nat)
    BY <2>2 DEF StrictSubsetOrdering
  <2> QED  BY <1>3, <1>4, <2>3, <2>4
<1>6. \A y \in T : x <= y
  BY <1>5
<1> QED  BY <1>6

\* A set with 0, and with the successor of each of its naturals, has them all.
LEMMA Induction ==
    ASSUME NEW T, 0 \in T, \A n \in T \cap Nat : n + 1 \in T
    PROVE  Nat \subseteq T
<1> SUFFICES ASSUME Nat \ T # {} PROVE FALSE
  OBVIOUS
<1> DEFINE U == Nat \ T
<1>1. PICK x \in U : \A y \in U : x <= y
  <2>1. U \subseteq Nat /\ U # {}
    OBVIOUS
  <2> HIDE DEF U
  <2> QED  BY <2>1, Smallest
<1>2. x # 0 /\ x - 1 \in Nat
  OBVIOUS
<1>3. x - 1 \in T \cap Nat
  BY <1>1, <1>2
<1>4. (x - 1) + 1 \in T
  BY <1>3
<1>5. (x - 1) + 1 = x
  OBVIOUS
<1> QED  BY <1>4, <1>5

\* The functions that begin with b and go on, up to n, as step says.
Courses(S, b, n, step) ==
    {f \in [0 .. n -> S] : f[0] = b /\ \A i \in 1 .. n : f[i] = step[<<i, f[i - 1]>>]}

\* There is one for every step that is total: what a recursion needs.
LEMMA Recursion ==
    ASSUME NEW S, NEW b \in S, NEW n \in Nat, NEW step \in [(1 .. n) \X S -> S]
    PROVE  Courses(S, b, n, step) # {}
<1> DEFINE Upto(m, f) == f[0] = b /\ \A i \in 1 .. m : f[i] = step[<<i, f[i - 1]>>]
           T == {m \in Nat : m <= n => \E f \in [0 .. m -> S] : Upto(m, f)}
<1>1. 0 \in T
  <2>1. [i \in 0 .. 0 |-> b] \in [0 .. 0 -> S] /\ Upto(0, [i \in 0 .. 0 |-> b])
    OBVIOUS
  <2> QED  BY <2>1
<1>2. ASSUME NEW m \in T \cap Nat PROVE m + 1 \in T
  <2> SUFFICES ASSUME m + 1 <= n PROVE \E g \in [0 .. m + 1 -> S] : Upto(m + 1, g)
    OBVIOUS
  <2>1. PICK f \in [0 .. m -> S] : Upto(m, f)
    OBVIOUS
  <2> DEFINE g == [i \in 0 .. m + 1 |-> IF i = m + 1 THEN step[<<m + 1, f[m]>>] ELSE f[i]]
  <2>2. f[m] \in S /\ m + 1 \in 1 .. n
    OBVIOUS
  <2>3. step[<<m + 1, f[m]>>] \in S
    BY <2>2
  <2>4. g \in [0 .. m + 1 -> S]
    BY <2>3
  <2>5. g[0] = b
    BY <2>1
  <2>6. ASSUME NEW i \in 1 .. m + 1 PROVE g[i] = step[<<i, g[i - 1]>>]
    <3>1. CASE i = m + 1
      <4>1. g[m + 1] = step[<<m + 1, f[m]>>] /\ g[m] = f[m]
        OBVIOUS
      <4>2. i - 1 = m
        BY <3>1
      <4> QED  BY <3>1, <4>1, <4>2
    <3>2. CASE i # m + 1
      BY <3>2, <2>1
    <3> QED  BY <3>1, <3>2
  <2> QED  BY <2>4, <2>5, <2>6
<1>3. n \in T
  <2> HIDE DEF T
  <2> QED  BY <1>1, <1>2, Induction
<1> QED  BY <1>3 DEF Courses

\* The recursion of StepsUpTo has a solution: the running sums of the steps.
LEMMA StepsUpToIs ==
    ASSUME NEW c, Len(c) \in Nat, \A i \in 1 .. Len(c) : Steps(c[i]) \in Int
    PROVE  /\ StepsUpTo(c) \in [0 .. Len(c) -> Int]
           /\ StepsUpTo(c)[0] = 0
           /\ \A i \in 1 .. Len(c) : StepsUpTo(c)[i] = StepsUpTo(c)[i - 1] + Steps(c[i])
<1> DEFINE n == Len(c)
           step == [x \in (1 .. n) \X Int |-> x[2] + Steps(c[x[1]])]
           Sums(f) == f = [i \in 0 .. n |-> IF i = 0 THEN 0 ELSE f[i - 1] + Steps(c[i])]
<1>1. step \in [(1 .. n) \X Int -> Int]
  OBVIOUS
<1>2. PICK g \in [0 .. n -> Int] : g[0] = 0 /\ \A i \in 1 .. n : g[i] = step[<<i, g[i - 1]>>]
  <2>1. n \in Nat /\ 0 \in Int
    OBVIOUS
  <2> HIDE DEF step, n
  <2>2. Courses(Int, 0, n, step) # {}
    BY <1>1, <2>1, Recursion
  <2> QED  BY <2>2 DEF Courses
<1>3. Sums(g)
  <2>1. ASSUME NEW i \in 0 .. n, i # 0 PROVE g[i] = g[i - 1] + Steps(c[i])
    <3>1. i \in 1 .. n /\ g[i - 1] \in Int
      BY <2>1
    <3> QED  BY <1>2, <3>1
  <2> QED  BY <1>2, <2>1
<1>4. Sums(StepsUpTo(c))
  BY <1>3 DEF StepsUpTo
<1> DEFINE f == StepsUpTo(c)
           T == {i \in Nat : i <= n => f[i] \in Int}
<1>5. 0 \in T
  BY <1>4
<1>6. ASSUME NEW i \in T \cap Nat PROVE i + 1 \in T
  BY <1>4
<1>7. Nat \subseteq T
  <2> HIDE DEF T
  <2> QED  BY <1>5, <1>6, Induction
<1>8. \A i \in 0 .. n : f[i] \in Int
  BY <1>7
<1>9. f = [i \in 0 .. n |-> IF i = 0 THEN 0 ELSE f[i - 1] + Steps(c[i])]
  BY <1>4
<1>10. f \in [0 .. n -> Int] /\ f[0] = 0
  <2> HIDE DEF f
  <2> QED  BY <1>8, <1>9
<1>11. ASSUME NEW i \in 1 .. n PROVE f[i] = f[i - 1] + Steps(c[i])
  <2> HIDE DEF f
  <2> QED  BY <1>9
<1> QED  BY <1>10, <1>11

-----------------------------------------------------------------------------
\* A number that divides evenly is the quotient times over.
LEMMA EvenQuotient ==
    ASSUME NEW x \in Int, NEW y \in Nat \ {0}, x % y = 0
    PROVE  x \div y \in Int /\ x = y * (x \div y)
OBVIOUS

\* The factor of a positive product by a positive number is positive.
LEMMA PositiveFactor ==
    ASSUME NEW s \in Nat \ {0}, NEW d \in Int, s * d > 0
    PROVE  d > 0
<1>1. CASE d <= 0
  <2>1. s * d <= 0
    BY <1>1
  <2> QED  BY <2>1
<1> QED  BY <1>1

\* A range has a whole number of steps and of decibels per step, both positive.
LEMMA RangeIs ==
    ASSUME NEW r, IsCurveRange(r)
    PROVE  /\ r.min \in Int /\ r.max \in Int /\ r.dBMin \in Int /\ r.dBMax \in Int
           /\ Steps(r) \in Nat \ {0} /\ r.max = r.min + Steps(r)
           /\ DBPerRaw(r) \in Nat \ {0} /\ r.dBMax = r.dBMin + Steps(r) * DBPerRaw(r)
<1> DEFINE s == Steps(r)  d == DBPerRaw(r)
<1>1. r.min \in Int /\ r.max \in Int /\ r.dBMin \in Int /\ r.dBMax \in Int
  BY DEF IsCurveRange
<1>2. s \in Nat \ {0} /\ r.max = r.min + s
  BY <1>1 DEF IsCurveRange, Steps
<1>3. r.dBMax - r.dBMin \in Int /\ r.dBMax - r.dBMin > 0 /\ (r.dBMax - r.dBMin) % s = 0
  BY <1>1 DEF IsCurveRange
<1>4. d \in Int /\ r.dBMax - r.dBMin = s * d
  <2> HIDE DEF s
  <2> QED  BY <1>2, <1>3, EvenQuotient DEF DBPerRaw, s
<1>5. d > 0
  <2> HIDE DEF s, d
  <2>1. s * d > 0
    BY <1>3, <1>4
  <2> QED  BY <1>2, <1>4, <2>1, PositiveFactor
<1>6. r.dBMax = r.dBMin + s * d
  <2> HIDE DEF s, d
  <2>1. s * d \in Int
    BY <1>2, <1>4
  <2> QED  BY <1>1, <1>4, <2>1
<1> QED  BY <1>1, <1>2, <1>4, <1>5, <1>6

\* The curves the conversions are right for.
Continuous(c) ==
    /\ Len(c) \in Nat \ {0}
    /\ \A i \in 1 .. Len(c) : IsCurveRange(c[i])
    /\ CheckForContinuity(c)

\* A range of a continuous curve begins where the one before it ends.
LEMMA Neighbours ==
    ASSUME NEW c, Continuous(c), NEW i \in 1 .. Len(c), i + 1 \in 1 .. Len(c)
    PROVE  c[i + 1].min = c[i].max /\ c[i + 1].dBMin = c[i].dBMax
<1>1. i + 1 \in 2 .. Len(c) /\ (i + 1) - 1 = i
  BY DEF Continuous
<1> QED  BY <1>1 DEF Continuous, CheckForContinuity

\* The ranges follow each other.
LEMMA InOrder ==
    ASSUME NEW c, Continuous(c)
    PROVE  \A i, k \in 1 .. Len(c) :
              i < k => c[i].max <= c[k].min /\ c[i].dBMax <= c[k].dBMin
<1> SUFFICES ASSUME NEW i \in 1 .. Len(c)
             PROVE  \A k \in 1 .. Len(c) : i < k => c[i].max <= c[k].min /\ c[i].dBMax <= c[k].dBMin
  OBVIOUS
<1> DEFINE Before(k) == c[i].max <= c[k].min /\ c[i].dBMax <= c[k].dBMin
           T == {k \in Nat : (k <= Len(c) /\ i < k) => Before(k)}
<1>0. Len(c) \in Nat \ {0} /\ i \in Nat \ {0}
  BY DEF Continuous
<1>1. 0 \in T
  BY <1>0
<1>2. ASSUME NEW k \in T \cap Nat PROVE k + 1 \in T
  <2> SUFFICES ASSUME k + 1 <= Len(c), i < k + 1 PROVE Before(k + 1)
    OBVIOUS
  <2>1. k \in 1 .. Len(c) /\ k + 1 \in 1 .. Len(c)
    BY <1>0
  <2>2. c[k + 1].min = c[k].max /\ c[k + 1].dBMin = c[k].dBMax
    BY <2>1, Neighbours
  <2>3. /\ c[i].max \in Int /\ c[i].dBMax \in Int
        /\ c[k].min \in Int /\ c[k].dBMin \in Int /\ c[k].max \in Int /\ c[k].dBMax \in Int
        /\ c[k].min < c[k].max /\ c[k].dBMin < c[k].dBMax
    <3>1. IsCurveRange(c[i]) /\ IsCurveRange(c[k])
      BY <2>1 DEF Continuous
    <3> QED  BY <3>1 DEF IsCurveRange
  <2>4. CASE i = k
    BY <2>2, <2>3, <2>4
  <2>5. CASE i # k
    <3>1. c[i].max <= c[k].min /\ c[i].dBMax <= c[k].dBMin
      BY <2>1, <2>5, <1>0
    <3>2. c[i].max <= c[k].max /\ c[i].dBMax <= c[k].dBMax
      BY <2>3, <3>1
    <3> QED  BY <2>2, <3>2
  <2> QED  BY <2>4, <2>5
<1>3. Nat \subseteq T
  <2> HIDE DEF T
  <2> QED  BY <1>1, <1>2, Induction
<1> QED  BY <1>0, <1>3

\* The steps before a range.
LEMMA StepsBefore ==
    ASSUME NEW c, Continuous(c)
    PROVE  \A i \in 1 .. Len(c) : StepsUpTo(c)[i - 1] = c[i].min - c[1].min
<1> DEFINE f == StepsUpTo(c)
           T == {i \in Nat : i + 1 <= Len(c) => f[i] = c[i + 1].min - c[1].min}
<1>0. Len(c) \in Nat \ {0} /\ \A i \in 1 .. Len(c) : IsCurveRange(c[i])
  BY DEF Continuous
<1>1. \A i \in 1 .. Len(c) : Steps(c[i]) \in Int /\ c[i].min \in Int /\ c[i].max \in Int
  BY <1>0, RangeIs
<1>2. /\ f \in [0 .. Len(c) -> Int] /\ f[0] = 0
      /\ \A i \in 1 .. Len(c) : f[i] = f[i - 1] + Steps(c[i])
  BY <1>0, <1>1, StepsUpToIs
<1> HIDE DEF f
<1>3. 0 \in T
  BY <1>0, <1>1, <1>2
<1>4. ASSUME NEW i \in T \cap Nat PROVE i + 1 \in T
  <2> SUFFICES ASSUME i + 2 <= Len(c) PROVE f[i + 1] = c[i + 2].min - c[1].min
    OBVIOUS
  <2>1. i + 1 \in 1 .. Len(c) /\ (i + 1) + 1 \in 1 .. Len(c) /\ (i + 1) + 1 = i + 2 /\ (i + 1) - 1 = i
    BY <1>0
  <2>2. c[i + 2].min = c[i + 1].max
    BY <2>1, Neighbours
  <2>3. f[i + 1] = f[i] + Steps(c[i + 1]) /\ f[i] = c[i + 1].min - c[1].min
    BY <1>0, <1>2, <2>1
  <2>4. c[i + 1].min \in Int /\ c[i + 1].max \in Int
    BY <1>1, <2>1
  <2>5. Steps(c[i + 1]) = c[i + 1].max - c[i + 1].min
    BY DEF Steps
  <2>6. 1 \in 1 .. Len(c)
    BY <1>0
  <2>7. c[1].min \in Int
    BY <1>1, <2>6
  <2> QED  BY <2>2, <2>3, <2>4, <2>5, <2>7
<1>5. Nat \subseteq T
  <2> HIDE DEF T
  <2> QED  BY <1>3, <1>4, Induction
<1>6. ASSUME NEW i \in 1 .. Len(c) PROVE f[i - 1] = c[i].min - c[1].min
  <2>1. i - 1 \in T /\ (i - 1) + 1 = i /\ i <= Len(c)
    BY <1>0, <1>5
  <2> QED  BY <2>1
<1> QED  BY <1>6 DEF f

-----------------------------------------------------------------------------
\* What a range leaves is typed.
LEMMA TakeIs ==
    ASSUME NEW r, IsCurveRange(r), NEW t \in [left : Int, dB : Int]
    PROVE  Take(r, t) \in [left : Int, dB : Int]
<1>1. Steps(r) \in Int /\ DBPerRaw(r) \in Int
  BY RangeIs
<1> DEFINE n == IF Steps(r) < t.left THEN Steps(r) ELSE t.left
<1>2. n \in Int
  BY <1>1
<1>3. n * DBPerRaw(r) \in Int
  <2> HIDE DEF n
  <2> QED  BY <1>1, <1>2
<1>4. Take(r, t) = [left |-> t.left - n, dB |-> t.dB + n * DBPerRaw(r)]
  BY DEF Take
<1> HIDE DEF n
<1> QED  BY <1>2, <1>3, <1>4

\* The recursion of TakenUpTo has a solution: one Take for each range.
LEMMA TakenUpToIs ==
    ASSUME NEW c, Continuous(c), NEW raw \in c[1].min .. c[Len(c)].max
    PROVE  LET f == TakenUpTo(c, raw)
           IN  /\ f[0] = [left |-> raw - c[1].min, dB |-> c[1].dBMin]
               /\ \A i \in 1 .. Len(c) : f[i] = Take(c[i], f[i - 1])
<1> DEFINE n == Len(c)
           S == [left : Int, dB : Int]
           b == [left |-> raw - c[1].min, dB |-> c[1].dBMin]
           step == [x \in (1 .. n) \X S |-> Take(c[x[1]], x[2])]
           Begin == [left |-> Between(GetMinimumRaw(c), raw, GetMaximumRaw(c)) - GetMinimumRaw(c),
                     dB |-> GetMinimumDB(c)]
           Takes(f) == f = [i \in 0 .. n |-> IF i = 0 THEN Begin ELSE Take(c[i], f[i - 1])]
<1>1. n \in Nat \ {0} /\ \A i \in 1 .. n : IsCurveRange(c[i])
  BY DEF Continuous
<1>2. c[1].min \in Int /\ c[1].dBMin \in Int /\ c[n].max \in Int /\ raw \in Int
  BY SMTT(20), <1>1, RangeIs
<1>3. b \in S
  BY <1>2
<1>4. Begin = b
  BY <1>2 DEF Between, GetMinimumRaw, GetMaximumRaw, GetMinimumDB
<1>5. step \in [(1 .. n) \X S -> S]
  <2>1. ASSUME NEW i \in 1 .. n, NEW t \in S PROVE Take(c[i], t) \in S
    BY <1>1, TakeIs
  <2> HIDE DEF S, n
  <2> QED  BY <2>1
<1>6. PICK g \in Courses(S, b, n, step) : TRUE
  <2>1. n \in Nat
    BY <1>1
  <2> HIDE DEF S, b, n, step
  <2> QED  BY <1>3, <1>5, <2>1, Recursion
<1>7. Takes(g)
  <2>1. g \in [0 .. n -> S] /\ g[0] = b /\ \A i \in 1 .. n : g[i] = step[<<i, g[i - 1]>>]
    BY <1>6 DEF Courses
  <2>2. ASSUME NEW i \in 0 .. n, i # 0 PROVE g[i] = Take(c[i], g[i - 1])
    <3>1. i \in 1 .. n /\ i - 1 \in 0 .. n
      BY <1>1, <2>2
    <3>2. <<i, g[i - 1]>> \in (1 .. n) \X S
      BY <2>1, <3>1
    <3>3. step[<<i, g[i - 1]>>] = Take(c[i], g[i - 1])
      <4> HIDE DEF S, n
      <4> QED  BY <3>2
    <3> QED  BY <2>1, <3>1, <3>3
  <2> HIDE DEF S, b, n, step, Begin
  <2> QED  BY <1>4, <2>1, <2>2
<1>8. Takes(TakenUpTo(c, raw))
  <2> HIDE DEF S, b, step
  <2> QED  BY <1>7 DEF TakenUpTo
<1> DEFINE f == TakenUpTo(c, raw)
<1>9. f = [i \in 0 .. n |-> IF i = 0 THEN Begin ELSE Take(c[i], f[i - 1])]
  BY <1>8
<1>10. f[0] = b /\ \A i \in 1 .. n : f[i] = Take(c[i], f[i - 1])
  <2> HIDE DEF f, b, S, Begin
  <2> QED  BY <1>1, <1>4, <1>9
<1> QED  BY <1>10

\* What a raw value is worth on range k.
At(c, k, raw) == c[k].dBMin + (raw - c[k].min) * DBPerRaw(c[k])

\* Along a range the decibels grow by the same amount from its least to its greatest.
LEMMA AtIs ==
    ASSUME NEW c, Continuous(c), NEW k \in 1 .. Len(c), NEW raw \in Int
    PROVE  /\ At(c, k, raw) \in Int
           /\ At(c, k, raw + 1) = At(c, k, raw) + DBPerRaw(c[k])
           /\ At(c, k, c[k].max) = c[k].dBMax /\ At(c, k, c[k].min) = c[k].dBMin
<1> DEFINE d == DBPerRaw(c[k])  s == Steps(c[k])  low == c[k].min  dB == c[k].dBMin
<1>1. /\ low \in Int /\ c[k].max \in Int /\ dB \in Int /\ d \in Int /\ s \in Int
      /\ c[k].max = low + s /\ c[k].dBMax = dB + s * d
  BY RangeIs DEF Continuous
<1>2. (raw - low) * d \in Int /\ (raw + 1 - low) * d = (raw - low) * d + d
  <2> HIDE DEF d, low
  <2> QED  BY <1>1
<1>3. (low + s - low) * d = s * d /\ (low - low) * d = 0
  <2> HIDE DEF d, low, s
  <2>1. low + s - low = s /\ low - low = 0
    BY <1>1
  <2> QED  BY <1>1, <2>1
<1>4. \A x \in Int : At(c, k, x) = dB + (x - low) * d
  BY DEF At
<1>5. /\ At(c, k, raw) = dB + (raw - low) * d /\ At(c, k, raw + 1) = dB + (raw + 1 - low) * d
      /\ At(c, k, c[k].max) = dB + (low + s - low) * d /\ At(c, k, low) = dB + (low - low) * d
  <2>1. raw + 1 \in Int /\ low + s \in Int
    <3> HIDE DEF low, s
    <3> QED  BY <1>1
  <2> HIDE DEF d, low, s, dB
  <2>2. At(c, k, raw) = dB + (raw - low) * d
    BY <1>4
  <2>3. At(c, k, raw + 1) = dB + (raw + 1 - low) * d
    BY <1>1, <1>4, <2>1
  <2>4. At(c, k, low + s) = dB + (low + s - low) * d
    BY <1>1, <1>4, <2>1
  <2>5. At(c, k, low) = dB + (low - low) * d
    BY <1>1, <1>4
  <2> QED  BY <1>1, <2>2, <2>3, <2>4, <2>5
<1>6. /\ At(c, k, raw) \in Int /\ At(c, k, raw + 1) = At(c, k, raw) + d
      /\ At(c, k, c[k].max) = dB + s * d /\ At(c, k, low) = dB
  <2>1. s * d \in Int
    <3> HIDE DEF d, s
    <3> QED  BY <1>1
  <2> HIDE DEF d, low, s, dB
  <2> QED  BY <1>1, <1>2, <1>3, <1>5, <2>1
<1> QED  BY <1>1, <1>6

\* A range that has no more steps than are left takes all it has.
LEMMA TakeAll ==
    ASSUME NEW r, IsCurveRange(r), NEW t \in [left : Int, dB : Int], t.left >= Steps(r)
    PROVE  Take(r, t) = [left |-> t.left - Steps(r), dB |-> t.dB + Steps(r) * DBPerRaw(r)]
<1>1. Steps(r) \in Int
  BY RangeIs
<1>2. (IF Steps(r) < t.left THEN Steps(r) ELSE t.left) = Steps(r)
  BY <1>1
<1> QED  BY <1>2 DEF Take

\* A range that has at least the steps that are left takes them all.
LEMMA TakeRest ==
    ASSUME NEW r, IsCurveRange(r), NEW t \in [left : Int, dB : Int], t.left <= Steps(r)
    PROVE  Take(r, t) = [left |-> 0, dB |-> t.dB + t.left * DBPerRaw(r)]
<1>1. Steps(r) \in Int
  BY RangeIs
<1>2. (IF Steps(r) < t.left THEN Steps(r) ELSE t.left) = t.left /\ t.left - t.left = 0
  BY <1>1
<1> QED  BY <1>2 DEF Take

\* ConvertRawToDB, on the range a raw value lies in.
LEMMA RawToDB ==
    ASSUME NEW c, Continuous(c), NEW raw \in c[1].min .. c[Len(c)].max,
           NEW k \in 1 .. Len(c), c[k].min <= raw, raw <= c[k].max
    PROVE  ConvertRawToDB(c, raw) = At(c, k, raw)
<1> DEFINE f == TakenUpTo(c, raw)
           Ahead(i) == [left |-> raw - c[i].min, dB |-> c[i].dBMin]
           Done == [left |-> 0, dB |-> At(c, k, raw)]
           T == {i \in Nat : i <= Len(c) => f[i] = IF i < k THEN Ahead(i + 1) ELSE Done}
<1>1. /\ Len(c) \in Nat \ {0} /\ k \in Nat \ {0} /\ k <= Len(c)
      /\ \A i \in 1 .. Len(c) : IsCurveRange(c[i])
  BY DEF Continuous
<1>2. /\ f[0] = Ahead(1)
      /\ \A i \in 1 .. Len(c) : f[i] = Take(c[i], f[i - 1])
  BY TakenUpToIs
<1>3. raw \in Int
  BY <1>1, RangeIs
<1>4. 0 \in T
  BY <1>1, <1>2
<1>5. ASSUME NEW i \in T \cap Nat PROVE i + 1 \in T
  <2> SUFFICES ASSUME i + 1 <= Len(c)
               PROVE  f[i + 1] = IF i + 1 < k THEN Ahead(i + 2) ELSE Done
    OBVIOUS
  <2> DEFINE j == i + 1
  <2>1. j \in 1 .. Len(c) /\ j - 1 = i /\ IsCurveRange(c[j])
    BY <1>1
  <2>2. f[j] = Take(c[j], f[i]) /\ f[i] = IF i < k THEN Ahead(j) ELSE Done
    BY <1>1, <1>2, <2>1
  <2>3. Ahead(j) \in [left : Int, dB : Int] /\ Done \in [left : Int, dB : Int]
    <3>1. c[j].min \in Int /\ c[j].dBMin \in Int
      BY <2>1, RangeIs
    <3>2. At(c, k, raw) \in Int
      BY <1>3, AtIs
    <3> QED  BY <1>3, <3>1, <3>2
  <2>4. CASE j < k
    <3>1. c[j].max <= c[k].min /\ j + 1 \in 1 .. Len(c)
      BY <1>1, <2>1, <2>4, InOrder
    <3>2. c[j + 1].min = c[j].max /\ c[j + 1].dBMin = c[j].dBMax
      BY <2>1, <3>1, Neighbours
    <3>3. /\ c[j].max = c[j].min + Steps(c[j]) /\ Steps(c[j]) \in Int /\ c[j].min \in Int
          /\ c[j].dBMax = c[j].dBMin + Steps(c[j]) * DBPerRaw(c[j])
      BY SMTT(20), <2>1, RangeIs
    <3>4. c[k].min \in Int /\ c[j].max \in Int
      <4>1. IsCurveRange(c[k]) /\ IsCurveRange(c[j])
        BY <1>1, <2>1
      <4> QED  BY <4>1 DEF IsCurveRange
    <3>5. Ahead(j).left >= Steps(c[j])
      BY <1>3, <3>1, <3>3, <3>4
    <3>6. f[j] = [left |-> Ahead(j).left - Steps(c[j]), dB |-> Ahead(j).dB + Steps(c[j]) * DBPerRaw(c[j])]
      <4> HIDE DEF f, j, Ahead
      <4>1. f[i] = Ahead(j)
        BY <2>2, <2>4 DEF j
      <4> QED  BY <2>1, <2>2, <2>3, <3>5, <4>1, TakeAll
    <3>7. Ahead(j).left - Steps(c[j]) = Ahead(j + 1).left
      BY <1>3, <3>2, <3>3
    <3>8. Ahead(j).dB + Steps(c[j]) * DBPerRaw(c[j]) = Ahead(j + 1).dB
      BY <3>2, <3>3
    <3>9. f[j] = Ahead(j + 1)
      BY <3>6, <3>7, <3>8
    <3>10. j + 1 = i + 2
      OBVIOUS
    <3> QED  BY <2>4, <3>9, <3>10
  <2>5. CASE j = k
    <3>1. Ahead(j).left <= Steps(c[j])
      <4>1. c[j].max = c[j].min + Steps(c[j]) /\ Steps(c[j]) \in Int /\ c[j].min \in Int
        BY <2>1, RangeIs
      <4> QED  BY <1>3, <2>5, <4>1
    <3>2. f[j] = [left |-> 0, dB |-> Ahead(j).dB + Ahead(j).left * DBPerRaw(c[j])]
      <4> HIDE DEF f, j, Ahead
      <4>1. f[i] = Ahead(j)
        BY <2>2, <2>5 DEF j
      <4> QED  BY <2>1, <2>2, <2>3, <3>1, <4>1, TakeRest
    <3>3. Ahead(j).dB + Ahead(j).left * DBPerRaw(c[j]) = At(c, k, raw)
      BY <2>5 DEF At
    <3> QED  BY <2>5, <3>2, <3>3
  <2>6. CASE j > k
    <3>1. f[i] = Done
      BY <1>1, <2>2, <2>6
    <3>2. Done.left <= Steps(c[j]) /\ DBPerRaw(c[j]) \in Int
      <4>1. Steps(c[j]) \in Nat \ {0} /\ DBPerRaw(c[j]) \in Int
        BY <2>1, RangeIs
      <4> QED  BY <4>1
    <3>3. f[j] = [left |-> 0, dB |-> Done.dB + Done.left * DBPerRaw(c[j])]
      <4> HIDE DEF f, j, Done
      <4> QED  BY <2>1, <2>2, <2>3, <3>1, <3>2, TakeRest
    <3>4. Done.dB + Done.left * DBPerRaw(c[j]) = Done.dB
      <4>1. At(c, k, raw) \in Int
        BY <1>3, AtIs
      <4> QED  BY <3>2, <4>1
    <3> QED  BY <1>1, <2>6, <3>3, <3>4
  <2> QED  BY <1>1, <2>4, <2>5, <2>6
<1>6. Len(c) \in T
  <2> HIDE DEF T
  <2> QED  BY <1>1, <1>4, <1>5, Induction
<1>7. f[Len(c)] = Done
  BY <1>1, <1>6
<1> QED  BY <1>7 DEF ConvertRawToDB

-----------------------------------------------------------------------------
\* The quotient x / y is less than a half away from what it is rounded to, or a half.
LEMMA RoundQuotientIs ==
    ASSUME NEW x \in Nat, NEW y \in Nat \ {0}
    PROVE  LET q == RoundQuotient(x, y)
           IN  q \in Nat /\ 2 * (y * q) <= 2 * x + y /\ 2 * x < 2 * (y * q) + y
<1> DEFINE q == (2 * x + y) \div (2 * y)
<1>1. RoundQuotient(x, y) = q
  BY DEF RoundQuotient
<1>2. q \in Nat /\ 2 * y * q <= 2 * x + y /\ 2 * x + y < 2 * y * q + 2 * y
  OBVIOUS
<1>3. 2 * y * q = 2 * (y * q) /\ y * q \in Nat
  <2> HIDE DEF q
  <2> QED  BY <1>2
<1> HIDE DEF q
<1> QED  BY <1>1, <1>2, <1>3

\* A quotient that is whole is not rounded.
LEMMA RoundWhole ==
    ASSUME NEW n \in Nat, NEW y \in Nat \ {0}
    PROVE  RoundQuotient(n * y, y) = n
<1> DEFINE q == RoundQuotient(n * y, y)
<1>1. n * y \in Nat
  OBVIOUS
<1>2. q \in Nat /\ 2 * (y * q) <= 2 * (n * y) + y /\ 2 * (n * y) < 2 * (y * q) + y
  BY <1>1, RoundQuotientIs
<1> HIDE DEF q
<1>3. CASE q >= n + 1
  <2>1. y * q >= y * (n + 1)
    BY <1>2, <1>3
  <2>2. y * (n + 1) = n * y + y
    OBVIOUS
  <2>3. y * q \in Nat
    BY <1>2
  <2> QED  BY <1>1, <1>2, <2>1, <2>2, <2>3
<1>4. CASE q <= n - 1
  <2>1. y * q <= y * (n - 1)
    BY <1>2, <1>4
  <2>2. y * (n - 1) = n * y - y
    OBVIOUS
  <2>3. y * q \in Nat
    BY <1>2
  <2> QED  BY <1>1, <1>2, <2>1, <2>2, <2>3
<1>5. q = n
  BY <1>2, <1>3, <1>4
<1> QED  BY <1>5 DEF q

\* The first range whose greatest raw value is not below raw.
RawIn(c, k, raw) == raw <= c[k].max /\ \A i \in 1 .. k - 1 : raw > c[i].max
DBIn(c, k, dB) == dB <= c[k].dBMax /\ \A i \in 1 .. k - 1 : dB > c[i].dBMax

\* Every raw value of the curve lies in one of its ranges ...
LEMMA RawInOne ==
    ASSUME NEW c, Continuous(c), NEW raw \in c[1].min .. c[Len(c)].max
    PROVE  \E k \in 1 .. Len(c) : RawIn(c, k, raw)
<1> DEFINE T == {k \in 1 .. Len(c) : raw <= c[k].max}
<1>1. Len(c) \in Nat \ {0} /\ \A i \in 1 .. Len(c) : IsCurveRange(c[i])
  BY DEF Continuous
<1>2. \A i \in 1 .. Len(c) : c[i].min \in Int /\ c[i].max \in Int
  BY <1>1, RangeIs
<1>3. raw \in Int /\ raw <= c[Len(c)].max
  BY <1>1, <1>2
<1>4. T \subseteq Nat /\ T # {}
  BY <1>1, <1>3
<1>5. PICK k \in T : \A i \in T : k <= i
  <2> HIDE DEF T
  <2> QED  BY <1>4, Smallest
<1>6. ASSUME NEW i \in 1 .. k - 1 PROVE raw > c[i].max
  <2>1. i \in 1 .. Len(c) /\ ~(k <= i)
    BY <1>1
  <2>2. i \notin T
    BY <1>5, <2>1
  <2>3. ~(raw <= c[i].max)
    BY <2>1, <2>2
  <2> QED  BY <1>2, <1>3, <2>1, <2>3
<1>7. RawIn(c, k, raw)
  BY <1>6 DEF RawIn
<1> QED  BY <1>7

\* ... and so does every number of decibels.
LEMMA DBInOne ==
    ASSUME NEW c, Continuous(c), NEW dB \in c[1].dBMin .. c[Len(c)].dBMax
    PROVE  \E k \in 1 .. Len(c) : DBIn(c, k, dB)
<1> DEFINE T == {k \in 1 .. Len(c) : dB <= c[k].dBMax}
<1>1. Len(c) \in Nat \ {0} /\ \A i \in 1 .. Len(c) : IsCurveRange(c[i])
  BY DEF Continuous
<1>2. \A i \in 1 .. Len(c) : c[i].dBMin \in Int /\ c[i].dBMax \in Int
  BY <1>1, RangeIs
<1>3. dB \in Int /\ dB <= c[Len(c)].dBMax
  BY <1>1, <1>2
<1>4. T \subseteq Nat /\ T # {}
  BY <1>1, <1>3
<1>5. PICK k \in T : \A i \in T : k <= i
  <2> HIDE DEF T
  <2> QED  BY <1>4, Smallest
<1>6. ASSUME NEW i \in 1 .. k - 1 PROVE dB > c[i].dBMax
  <2>1. i \in 1 .. Len(c) /\ ~(k <= i)
    BY <1>1
  <2>2. i \notin T
    BY <1>5, <2>1
  <2>3. ~(dB <= c[i].dBMax)
    BY <2>1, <2>2
  <2> QED  BY <1>2, <1>3, <2>1, <2>3
<1>7. DBIn(c, k, dB)
  BY <1>6 DEF DBIn
<1> QED  BY <1>7

\* That range begins at raw, or below it.
LEMMA RawInIs ==
    ASSUME NEW c, Continuous(c), NEW raw \in c[1].min .. c[Len(c)].max,
           NEW k \in 1 .. Len(c), RawIn(c, k, raw)
    PROVE  c[k].min <= raw /\ raw <= c[k].max /\ (k > 1 => c[k].min < raw)
<1>1. Len(c) \in Nat \ {0} /\ k \in Nat \ {0} /\ raw <= c[k].max
  BY DEF Continuous, RawIn
<1>2. c[1].min \in Int /\ c[k].min \in Int /\ c[Len(c)].max \in Int
  <2>1. 1 \in 1 .. Len(c) /\ Len(c) \in 1 .. Len(c)
    BY <1>1
  <2>2. IsCurveRange(c[1]) /\ IsCurveRange(c[k]) /\ IsCurveRange(c[Len(c)])
    BY <2>1 DEF Continuous
  <2> QED  BY <2>2, RangeIs
<1>3. CASE k = 1
  BY <1>1, <1>2, <1>3
<1>4. CASE k > 1
  <2>1. k - 1 \in 1 .. Len(c) /\ k - 1 \in 1 .. k - 1 /\ (k - 1) + 1 = k
    BY <1>1, <1>4
  <2>2. raw > c[k - 1].max /\ c[k].min = c[k - 1].max
    <3>1. c[(k - 1) + 1].min = c[k - 1].max
      BY <1>1, <2>1, Neighbours
    <3> QED  BY <2>1, <3>1 DEF RawIn
  <2> QED  BY <1>1, <1>2, <2>2
<1> QED  BY <1>1, <1>3, <1>4

\* The decibels lie between the ends of their range.
LEMMA DBInIs ==
    ASSUME NEW c, Continuous(c), NEW dB \in c[1].dBMin .. c[Len(c)].dBMax,
           NEW k \in 1 .. Len(c), DBIn(c, k, dB)
    PROVE  c[k].dBMin <= dB /\ dB <= c[k].dBMax
<1>1. Len(c) \in Nat \ {0} /\ k \in Nat \ {0} /\ dB <= c[k].dBMax
  BY DEF Continuous, DBIn
<1>2. c[1].dBMin \in Int /\ c[k].dBMin \in Int /\ c[Len(c)].dBMax \in Int
  <2>1. 1 \in 1 .. Len(c) /\ Len(c) \in 1 .. Len(c)
    BY <1>1
  <2>2. IsCurveRange(c[1]) /\ IsCurveRange(c[k]) /\ IsCurveRange(c[Len(c)])
    BY <2>1 DEF Continuous
  <2> QED  BY <2>2, RangeIs
<1>3. CASE k = 1
  BY <1>1, <1>2, <1>3
<1>4. CASE k > 1
  <2>1. k - 1 \in 1 .. Len(c) /\ k - 1 \in 1 .. k - 1 /\ (k - 1) + 1 = k
    BY <1>1, <1>4
  <2>2. dB > c[k - 1].dBMax /\ c[k].dBMin = c[k - 1].dBMax
    <3>1. c[(k - 1) + 1].dBMin = c[k - 1].dBMax
      BY <1>1, <2>1, Neighbours
    <3> QED  BY <2>1, <3>1 DEF DBIn
  <2> QED  BY <1>1, <1>2, <2>2
<1> QED  BY <1>1, <1>3, <1>4

\* ConvertDBToRaw, on the range the decibels lie in.
LEMMA DBToRaw ==
    ASSUME NEW c, Continuous(c), NEW dB \in c[1].dBMin .. c[Len(c)].dBMax,
           NEW k \in 1 .. Len(c), DBIn(c, k, dB)
    PROVE  ConvertDBToRaw(c, dB) = c[k].min + RoundQuotient(dB - c[k].dBMin, DBPerRaw(c[k]))
<1> DEFINE d == Between(GetMinimumDB(c), dB, GetMaximumDB(c))
           In(n) == d <= c[n].dBMax /\ \A j \in 1 .. n - 1 : d > c[j].dBMax
           i == CHOOSE n \in 1 .. Len(c) : In(n)
<1>1. /\ Len(c) \in Nat \ {0} /\ k \in Nat \ {0} /\ k <= Len(c)
      /\ \A n \in 1 .. Len(c) : IsCurveRange(c[n])
  BY DEF Continuous
<1>2. \A n \in 1 .. Len(c) : c[n].dBMin \in Int /\ c[n].dBMax \in Int /\ c[n].min \in Int
  BY <1>1, RangeIs
<1>3. 1 \in 1 .. Len(c) /\ Len(c) \in 1 .. Len(c)
  BY <1>1
<1>4. d = dB /\ dB \in Int
  BY <1>2, <1>3 DEF Between, GetMinimumDB, GetMaximumDB
<1>5. In(k)
  BY <1>4 DEF DBIn
<1>6. i \in 1 .. Len(c) /\ In(i)
  BY <1>5
<1>7. i = k
  <2> HIDE DEF i
  <2>1. CASE i < k
    <3>1. i \in 1 .. k - 1 /\ c[i].dBMax \in Int
      BY <1>1, <1>2, <1>6, <2>1
    <3> QED  BY <1>4, <1>5, <1>6, <3>1
  <2>2. CASE k < i
    <3>1. k \in 1 .. i - 1 /\ c[k].dBMax \in Int
      BY <1>1, <1>2, <1>6, <2>2
    <3> QED  BY <1>4, <1>5, <1>6, <3>1
  <2> QED  BY <1>1, <1>6, <2>1, <2>2
<1>8. ConvertDBToRaw(c, dB) =
          c[1].min + StepsUpTo(c)[i - 1] + RoundQuotient(d - c[i].dBMin, DBPerRaw(c[i]))
  BY DEF ConvertDBToRaw, GetMinimumRaw
<1>9. c[1].min + StepsUpTo(c)[k - 1] = c[k].min
  BY <1>1, <1>2, <1>3, StepsBefore
<1> HIDE DEF i, d
<1> QED  BY <1>4, <1>7, <1>8, <1>9

\* The values on one range.
LEMMA AtWithin ==
    ASSUME NEW c, Continuous(c), NEW k \in 1 .. Len(c), NEW raw \in c[k].min .. c[k].max
    PROVE  /\ At(c, k, raw) \in c[k].dBMin .. c[k].dBMax
           /\ raw > c[k].min => At(c, k, raw) > c[k].dBMin
<1> DEFINE D == DBPerRaw(c[k])  s == Steps(c[k])  low == c[k].min  dB == c[k].dBMin  n == raw - low
<1>1. /\ low \in Int /\ dB \in Int /\ D \in Nat \ {0} /\ s \in Nat \ {0}
      /\ c[k].max = low + s /\ c[k].dBMax = dB + s * D
  BY RangeIs DEF Continuous
<1>2. n \in Nat /\ n <= s /\ (raw > low => n >= 1)
  <2> HIDE DEF low, s
  <2> QED  BY <1>1 DEF low
<1>3. At(c, k, raw) = dB + n * D
  BY DEF At
<1>4. n * D \in Nat /\ s * D \in Nat /\ n * D <= s * D /\ (n >= 1 => n * D > 0)
  <2> HIDE DEF n, s, D
  <2>1. n * D \in Nat /\ s * D \in Nat /\ n * D <= s * D
    BY <1>1, <1>2
  <2>2. n >= 1 => n * D >= 1 * D
    BY <1>1, <1>2
  <2> QED  BY <1>1, <1>2, <2>1, <2>2
<1>5. /\ dB + n * D \in Int /\ dB + n * D >= dB /\ dB + n * D <= dB + s * D
      /\ n >= 1 => dB + n * D > dB
  <2> HIDE DEF n, s, D, dB
  <2> QED  BY <1>1, <1>4
<1>6. At(c, k, raw) \in dB .. c[k].dBMax
  <2> HIDE DEF n, s, D, dB
  <2> QED  BY <1>1, <1>3, <1>5
<1>7. raw > low => At(c, k, raw) > dB
  <2> HIDE DEF n, s, D, dB, low
  <2> QED  BY <1>2, <1>3, <1>5
<1> QED  BY <1>6, <1>7

\* The range a raw value is on is the range its decibels are in.
LEMMA SameRange ==
    ASSUME NEW c, Continuous(c), NEW raw \in c[1].min .. c[Len(c)].max,
           NEW k \in 1 .. Len(c), RawIn(c, k, raw)
    PROVE  /\ ConvertRawToDB(c, raw) = At(c, k, raw)
           /\ At(c, k, raw) \in c[1].dBMin .. c[Len(c)].dBMax
           /\ At(c, k, raw) \in c[k].dBMin .. c[k].dBMax
           /\ DBIn(c, k, At(c, k, raw))
<1> DEFINE dB == At(c, k, raw)  n == Len(c)
<1>1. /\ n \in Nat \ {0} /\ k \in Nat \ {0} /\ k <= n
      /\ \A i \in 1 .. n : IsCurveRange(c[i])
  BY DEF Continuous
<1>2. \A i \in 1 .. n : c[i].min \in Int /\ c[i].max \in Int /\ c[i].dBMin \in Int
                         /\ c[i].dBMax \in Int /\ c[i].dBMin < c[i].dBMax
  <2>1. \A i \in 1 .. n : c[i].dBMin < c[i].dBMax
    BY <1>1 DEF IsCurveRange
  <2> QED  BY <1>1, <2>1, RangeIs
<1>3. 1 \in 1 .. n /\ n \in 1 .. n
  BY <1>1
<1>4. c[k].min <= raw /\ raw <= c[k].max /\ (k > 1 => c[k].min < raw) /\ raw \in c[k].min .. c[k].max
  <2>1. raw \in Int
    BY <1>2, <1>3
  <2> QED  BY <1>2, <2>1, RawInIs
<1>5. ConvertRawToDB(c, raw) = dB
  BY <1>4, RawToDB
<1>6. dB \in c[k].dBMin .. c[k].dBMax /\ (raw > c[k].min => dB > c[k].dBMin)
  BY <1>4, AtWithin
<1> HIDE DEF dB
<1>7. c[1].dBMin <= c[k].dBMin /\ c[k].dBMax <= c[n].dBMax
  <2>1. k = 1 \/ c[1].dBMax <= c[k].dBMin
    BY <1>1, <1>3, InOrder
  <2>2. k = n \/ c[k].dBMax <= c[n].dBMin
    BY <1>1, <1>3, InOrder
  <2>3. c[1].dBMin <= c[k].dBMin
    BY <1>2, <1>3, <2>1
  <2>4. c[k].dBMax <= c[n].dBMax
    BY <1>2, <1>3, <2>2
  <2> QED  BY <2>3, <2>4
<1>8. dB \in c[1].dBMin .. c[n].dBMax
  BY SMTT(20), <1>2, <1>3, <1>6, <1>7
<1>9. ASSUME NEW i \in 1 .. k - 1 PROVE dB > c[i].dBMax
  <2>1. i \in 1 .. n /\ i < k /\ k > 1
    BY <1>1
  <2>2. c[i].dBMax <= c[k].dBMin
    BY <2>1, InOrder
  <2>3. dB > c[k].dBMin
    BY <1>2, <1>4, <1>6, <2>1
  <2> QED  BY <1>2, <1>6, <2>1, <2>2, <2>3
<1>10. DBIn(c, k, dB)
  BY <1>6, <1>9 DEF DBIn
<1> QED  BY <1>5, <1>6, <1>8, <1>10 DEF dB

\* A control set to the decibels it reads stays where it is.
LEMMA DBInverts ==
    ASSUME NEW c, Continuous(c), NEW raw \in c[1].min .. c[Len(c)].max
    PROVE  ConvertDBToRaw(c, ConvertRawToDB(c, raw)) = raw
<1>1. PICK k \in 1 .. Len(c) : RawIn(c, k, raw)
  BY RawInOne
<1> DEFINE dB == At(c, k, raw)  n == raw - c[k].min  D == DBPerRaw(c[k])
<1>2. /\ ConvertRawToDB(c, raw) = dB
      /\ dB \in c[1].dBMin .. c[Len(c)].dBMax /\ DBIn(c, k, dB)
  BY <1>1, SameRange
<1>3. ConvertDBToRaw(c, dB) = c[k].min + RoundQuotient(dB - c[k].dBMin, D)
  BY <1>2, DBToRaw
<1>4. /\ c[k].min \in Int /\ c[k].max \in Int /\ c[k].dBMin \in Int /\ D \in Nat \ {0}
  BY RangeIs DEF Continuous
<1>5. c[k].min <= raw /\ raw \in Int
  <2>1. c[1].min \in Int /\ c[Len(c)].max \in Int
    <3>1. Len(c) \in Nat \ {0}
      BY DEF Continuous
    <3>2. 1 \in 1 .. Len(c) /\ Len(c) \in 1 .. Len(c)
      BY <3>1
    <3> QED  BY <3>2, RangeIs DEF Continuous
  <2> QED  BY <1>1, <2>1, RawInIs
<1>6. dB = c[k].dBMin + n * D /\ n \in Nat /\ n * D \in Int
  <2>1. n \in Nat
    BY <1>4, <1>5
  <2>2. n * D \in Int
    <3> HIDE DEF n, D
    <3> QED  BY <1>4, <2>1
  <2> QED  BY <2>1, <2>2 DEF At
<1>7. dB - c[k].dBMin = n * D
  <2> HIDE DEF dB, n, D
  <2> QED  BY <1>4, <1>6
<1>8. RoundQuotient(n * D, D) = n
  <2> HIDE DEF n, D
  <2> QED  BY <1>4, <1>6, RoundWhole
<1> QED  BY <1>2, <1>3, <1>4, <1>5, <1>7, <1>8

\* What is known of a continuous curve and each of its ranges.
LEMMA Ends ==
    ASSUME NEW c, Continuous(c)
    PROVE  /\ Len(c) \in Nat \ {0} /\ 1 \in 1 .. Len(c) /\ Len(c) \in 1 .. Len(c)
           /\ \A i \in 1 .. Len(c) : /\ c[i].min \in Int /\ c[i].max \in Int /\ c[i].min < c[i].max
                                     /\ c[i].dBMin \in Int /\ c[i].dBMax \in Int /\ c[i].dBMin < c[i].dBMax
                                     /\ Steps(c[i]) \in Nat \ {0} /\ DBPerRaw(c[i]) \in Nat \ {0}
                                     /\ c[i].max = c[i].min + Steps(c[i])
                                     /\ c[i].dBMax = c[i].dBMin + Steps(c[i]) * DBPerRaw(c[i])
           /\ c[1].min <= c[Len(c)].min /\ c[1].max <= c[Len(c)].max
<1>1. Len(c) \in Nat \ {0} /\ \A i \in 1 .. Len(c) : IsCurveRange(c[i])
  BY DEF Continuous
<1>2. 1 \in 1 .. Len(c) /\ Len(c) \in 1 .. Len(c)
  BY <1>1
<1>3. ASSUME NEW i \in 1 .. Len(c)
      PROVE  /\ c[i].min \in Int /\ c[i].max \in Int /\ c[i].min < c[i].max
             /\ c[i].dBMin \in Int /\ c[i].dBMax \in Int /\ c[i].dBMin < c[i].dBMax
             /\ Steps(c[i]) \in Nat \ {0} /\ DBPerRaw(c[i]) \in Nat \ {0}
             /\ c[i].max = c[i].min + Steps(c[i])
             /\ c[i].dBMax = c[i].dBMin + Steps(c[i]) * DBPerRaw(c[i])
  <2>1. c[i].min < c[i].max /\ c[i].dBMin < c[i].dBMax
    BY <1>1 DEF IsCurveRange
  <2> QED  BY <1>1, <2>1, RangeIs
<1>4. Len(c) = 1 \/ c[1].max <= c[Len(c)].min
  <2>1. Len(c) = 1 \/ 1 < Len(c)
    BY <1>1
  <2> QED  BY <1>2, <2>1, InOrder
<1>5. c[1].min <= c[Len(c)].min /\ c[1].max <= c[Len(c)].max
  <2>1. /\ c[1].min \in Int /\ c[1].max \in Int /\ c[1].min < c[1].max
        /\ c[Len(c)].min \in Int /\ c[Len(c)].max \in Int /\ c[Len(c)].min < c[Len(c)].max
    BY <1>2, <1>3
  <2> QED  BY <1>4, <2>1
<1> QED  BY <1>1, <1>2, <1>3, <1>5

\* More steps are more decibels.
LEMMA DBGrows ==
    ASSUME NEW c, Continuous(c), NEW raw \in c[1].min .. c[Len(c)].max, raw < c[Len(c)].max
    PROVE  ConvertRawToDB(c, raw) < ConvertRawToDB(c, raw + 1)
<1>1. raw \in Int /\ raw + 1 \in c[1].min .. c[Len(c)].max
  <2>1. 1 \in 1 .. Len(c) /\ Len(c) \in 1 .. Len(c)
    BY Ends
  <2>2. c[1].min \in Int /\ c[Len(c)].max \in Int
    BY <2>1, Ends
  <2> QED  BY <2>2
<1>2. PICK k \in 1 .. Len(c) : RawIn(c, k, raw + 1)
  BY <1>1, RawInOne
<1>3. k \in Nat \ {0} /\ c[k].min \in Int /\ c[k].max \in Int /\ DBPerRaw(c[k]) \in Nat \ {0}
  BY Ends
<1>4. raw + 1 <= c[k].max /\ (k > 1 => c[k].min < raw + 1)
  BY <1>1, <1>2, RawInIs
<1>5. c[k].min <= raw /\ raw <= c[k].max
  <2>1. c[1].min <= raw
    BY <1>1, Ends
  <2>2. k = 1 => c[k].min <= raw
    BY <2>1
  <2> QED  BY <1>1, <1>3, <1>4, <2>2
<1>6. ConvertRawToDB(c, raw) = At(c, k, raw)
  BY <1>5, RawToDB
<1>7. ConvertRawToDB(c, raw + 1) = At(c, k, raw + 1)
  BY <1>1, <1>2, SameRange
<1>8. At(c, k, raw) \in Int /\ At(c, k, raw + 1) = At(c, k, raw) + DBPerRaw(c[k])
  BY <1>1, AtIs
<1> QED  BY <1>3, <1>6, <1>7, <1>8

\* Raw values before a range, and behind it.
LEMMA Outside ==
    ASSUME NEW c, Continuous(c), NEW raw \in c[1].min .. c[Len(c)].max, NEW k \in 1 .. Len(c)
    PROVE  /\ ConvertRawToDB(c, raw) \in Int
           /\ raw < c[k].min => ConvertRawToDB(c, raw) <= c[k].dBMin
           /\ raw > c[k].max => ConvertRawToDB(c, raw) >= c[k].dBMax
<1>1. PICK j \in 1 .. Len(c) : RawIn(c, j, raw)
  BY RawInOne
<1> DEFINE dB == ConvertRawToDB(c, raw)
<1>2. /\ Len(c) \in Nat /\ raw \in Int
      /\ c[j].min \in Int /\ c[j].max \in Int /\ c[j].dBMin \in Int /\ c[j].dBMax \in Int
      /\ c[k].min \in Int /\ c[k].max \in Int /\ c[k].dBMin \in Int /\ c[k].dBMax \in Int
      /\ c[k].min < c[k].max
  <2>1. /\ c[j].min \in Int /\ c[j].max \in Int /\ c[j].dBMin \in Int /\ c[j].dBMax \in Int
    BY Ends
  <2>2. /\ c[k].min \in Int /\ c[k].max \in Int /\ c[k].dBMin \in Int /\ c[k].dBMax \in Int
        /\ c[k].min < c[k].max
    BY Ends
  <2>3. Len(c) \in Nat /\ raw \in Int
    BY Ends
  <2> QED  BY <2>1, <2>2, <2>3
<1>3. c[j].min <= raw /\ raw <= c[j].max
  BY <1>1, RawInIs
<1>4. dB \in c[j].dBMin .. c[j].dBMax
  BY <1>1, SameRange
<1> HIDE DEF dB
<1>5. ASSUME raw < c[k].min PROVE dB <= c[k].dBMin
  <2>1. j # k
    BY <1>2, <1>3, <1>5
  <2>2. ~(k < j)
    <3>1. k < j => c[k].max <= c[j].min
      BY InOrder
    <3> QED  BY <1>2, <1>3, <1>5, <3>1
  <2>3. j < k
    BY <1>2, <2>1, <2>2
  <2>4. c[j].dBMax <= c[k].dBMin
    BY <2>3, InOrder
  <2> QED  BY <1>2, <1>4, <2>4
<1>6. ASSUME raw > c[k].max PROVE dB >= c[k].dBMax
  <2>1. j # k
    BY <1>2, <1>3, <1>6
  <2>2. ~(j < k)
    <3>1. j < k => c[j].max <= c[k].min
      BY InOrder
    <3> QED  BY <1>2, <1>3, <1>6, <3>1
  <2>3. k < j
    BY <1>2, <2>1, <2>2
  <2>4. c[k].dBMax <= c[j].dBMin
    BY <2>3, InOrder
  <2> QED  BY <1>2, <1>4, <2>4
<1>7. dB \in Int
  BY <1>2, <1>4
<1> QED  BY <1>5, <1>6, <1>7 DEF dB

\* A number of a smaller magnitude has a smaller square.
LEMMA Squares ==
    ASSUME NEW a \in Int, NEW b \in Nat, -b <= a, a <= b
    PROVE  a * a <= b * b
<1>1. CASE a >= 0
  <2>1. a * a <= a * b /\ a * b <= b * b
    BY <1>1
  <2>2. a * a \in Int /\ a * b \in Int /\ b * b \in Int
    OBVIOUS
  <2> QED  BY <2>1, <2>2
<1>2. CASE a < 0
  <2> DEFINE n == -a
  <2>1. n \in Nat /\ n <= b /\ a * a = n * n
    BY <1>2
  <2> HIDE DEF n
  <2>2. n * n <= n * b /\ n * b <= b * b
    BY <2>1
  <2>3. n * n \in Int /\ n * b \in Int /\ b * b \in Int
    BY <2>1
  <2> QED  BY <2>1, <2>2, <2>3
<1> QED  BY <1>1, <1>2

\* The same, whatever the sign of the greater one.
LEMMA FartherSquares ==
    ASSUME NEW a \in Int, NEW b \in Int, (-b <= a /\ a <= b) \/ (b <= a /\ a <= -b)
    PROVE  a * a <= b * b
<1>1. CASE b >= 0
  <2>1. b \in Nat /\ -b <= a /\ a <= b
    BY <1>1
  <2> QED  BY <2>1, Squares
<1>2. CASE b < 0
  <2> DEFINE n == -b
  <2>1. n \in Nat /\ -n <= a /\ a <= n /\ n * n = b * b
    BY <1>2
  <2> HIDE DEF n
  <2> QED  BY <2>1, Squares
<1> QED  BY <1>1, <1>2

\* A quotient that exceeds s by at most a half is at most s.
LEMMA QuotientBound ==
    ASSUME NEW q \in Nat, NEW s \in Nat, NEW D \in Nat \ {0}, 2 * (D * q) <= 2 * (s * D) + D
    PROVE  q <= s
<1> SUFFICES ASSUME q >= s + 1 PROVE FALSE
  OBVIOUS
<1>1. D * q >= D * (s + 1) /\ D * (s + 1) = s * D + D
  OBVIOUS
<1>2. D * q \in Nat /\ s * D \in Nat
  OBVIOUS
<1> QED  BY <1>1, <1>2

\* Decibels between two steps go to the nearest of them.
LEMMA GoesToNearest ==
    ASSUME NEW c, Continuous(c), NEW dB \in c[1].dBMin .. c[Len(c)].dBMax
    PROVE  LET f(raw) == ConvertRawToDB(c, raw)
               raw == ConvertDBToRaw(c, dB)
           IN  /\ raw \in c[1].min .. c[Len(c)].max
               /\ \A other \in c[1].min .. c[Len(c)].max :
                      (dB - f(raw)) * (dB - f(raw)) <= (dB - f(other)) * (dB - f(other))
<1>1. PICK k \in 1 .. Len(c) : DBIn(c, k, dB)
  BY DBInOne
<1> DEFINE D == DBPerRaw(c[k])  s == Steps(c[k])  low == c[k].min  high == c[k].max
           lowDB == c[k].dBMin  x == dB - lowDB  q == RoundQuotient(x, D)  raw == low + q
           f(n) == ConvertRawToDB(c, n)
<1>2. /\ low \in Int /\ high \in Int /\ high = low + s /\ D \in Nat \ {0} /\ s \in Nat \ {0}
      /\ lowDB \in Int /\ c[k].dBMax \in Int /\ c[k].dBMax = lowDB + s * D /\ s * D \in Nat
  <2>1. s * D \in Nat
    <3>1. s \in Nat /\ D \in Nat
      BY Ends
    <3> HIDE DEF s, D
    <3> QED  BY <3>1
  <2> QED  BY <2>1, Ends
<1>3. /\ dB \in Int
      /\ c[1].min \in Int /\ c[Len(c)].max \in Int /\ c[1].min <= low /\ high <= c[Len(c)].max
  <2>1. 1 \in 1 .. Len(c) /\ Len(c) \in 1 .. Len(c) /\ Len(c) \in Nat
    BY Ends
  <2>2. /\ c[1].min \in Int /\ c[Len(c)].max \in Int /\ c[1].dBMin \in Int /\ c[Len(c)].dBMax \in Int
        /\ c[1].max \in Int /\ c[1].min < c[1].max
        /\ c[Len(c)].min \in Int /\ c[Len(c)].min < c[Len(c)].max
    BY <2>1, Ends
  <2>3. (k = 1 \/ 1 < k) /\ (k = Len(c) \/ k < Len(c))
    BY <2>1
  <2>4. (k = 1 \/ c[1].max <= c[k].min) /\ (k = Len(c) \/ c[k].max <= c[Len(c)].min)
    BY <2>1, <2>3, InOrder
  <2>5. c[1].min <= low
    BY <1>2, <2>2, <2>4
  <2>6. high <= c[Len(c)].max
    BY SMTT(20), <1>2, <2>2, <2>4
  <2> QED  BY <2>2, <2>5, <2>6
<1>4. lowDB <= dB /\ dB <= c[k].dBMax
  BY <1>1, DBInIs
<1>5. x \in Nat /\ x <= s * D
  <2> DEFINE P == s * D  highDB == c[k].dBMax
  <2>1. dB \in Int /\ lowDB \in Int /\ P \in Nat /\ lowDB <= dB /\ dB <= highDB /\ highDB = lowDB + P
    BY <1>2, <1>3, <1>4
  <2> HIDE DEF P, lowDB, highDB
  <2>2. dB - lowDB \in Nat /\ dB - lowDB <= P
    BY <2>1
  <2> QED  BY <2>2 DEF P
<1>6. q \in Nat /\ D * q \in Nat /\ 2 * (D * q) <= 2 * x + D /\ 2 * x < 2 * (D * q) + D
  <2>1. q \in Nat /\ 2 * (D * q) <= 2 * x + D /\ 2 * x < 2 * (D * q) + D
    <3>1. x \in Nat /\ D \in Nat \ {0}
      BY <1>2, <1>5
    <3> HIDE DEF x, D
    <3> QED  BY <3>1, RoundQuotientIs DEF q
  <2>2. D \in Nat
    BY <1>2
  <2> HIDE DEF q, D, x
  <2>3. D * q \in Nat
    BY <2>1, <2>2
  <2> QED  BY <2>1, <2>3
<1>7. q <= s
  <2> HIDE DEF q, x, s, D
  <2>1. 2 * (D * q) <= 2 * (s * D) + D
    <3> DEFINE P == s * D  Q == D * q
    <3>1. P \in Nat /\ Q \in Nat /\ D \in Nat /\ x \in Nat /\ x <= P /\ 2 * Q <= 2 * x + D
      BY <1>2, <1>5, <1>6
    <3> HIDE DEF P, Q
    <3>2. 2 * Q <= 2 * P + D
      BY <3>1
    <3> QED  BY <3>2 DEF P, Q
  <2> QED  BY <1>2, <1>6, <2>1, QuotientBound
<1>8. raw \in low .. high /\ raw \in c[1].min .. c[Len(c)].max
  <2> HIDE DEF q, s, low, high
  <2>1. q \in Nat /\ s \in Nat /\ low \in Int /\ high = low + s
    BY <1>2, <1>6
  <2>2. low + q \in low .. high
    BY <1>7, <2>1
  <2>3. c[1].min \in Int /\ c[Len(c)].max \in Int /\ c[1].min <= low /\ high <= c[Len(c)].max
    BY <1>3
  <2> QED  BY <2>1, <2>2, <2>3
<1>9. ConvertDBToRaw(c, dB) = raw
  BY <1>1, DBToRaw
<1>10. ASSUME NEW n \in low .. high
       PROVE  /\ n \in c[1].min .. c[Len(c)].max /\ n - low \in Nat /\ (n - low) * D \in Nat
              /\ f(n) = lowDB + (n - low) * D
  <2>1. n \in Int /\ low <= n /\ n <= high /\ n \in c[1].min .. c[Len(c)].max
    <3> DEFINE first == c[1].min  last == c[Len(c)].max
    <3>1. first \in Int /\ last \in Int /\ low \in Int /\ high \in Int /\ first <= low /\ high <= last
      BY <1>2, <1>3
    <3> HIDE DEF low, high, first, last
    <3>2. n \in Int /\ low <= n /\ n <= high
      BY <3>1
    <3>3. n \in first .. last
      BY <3>1, <3>2
    <3> QED  BY <3>2, <3>3 DEF first, last
  <2>2. f(n) = At(c, k, n)
    BY <2>1, RawToDB
  <2>3. n - low \in Nat
    <3> HIDE DEF low, high
    <3> QED  BY <1>2, <2>1
  <2>4. (n - low) * D \in Nat
    <3> DEFINE m == n - low
    <3>1. m \in Nat
      BY <2>3
    <3> HIDE DEF m, D
    <3>2. m * D \in Nat
      BY <1>2, <3>1
    <3> QED  BY <3>2 DEF m
  <2>5. f(n) = lowDB + (n - low) * D
    BY <2>2 DEF At
  <2> QED  BY <2>1, <2>3, <2>4, <2>5
<1> DEFINE e == x - D * q
<1>11. dB - f(raw) = e /\ e \in Int /\ -D <= 2 * e /\ 2 * e < D
  <2>1. raw - low = q
    <3> HIDE DEF low, q
    <3> QED  BY <1>2, <1>6
  <2>2. f(raw) = lowDB + q * D
    BY <1>8, <1>10, <2>1
  <2> HIDE DEF f, q, D, lowDB, raw
  <2>3. q * D = D * q
    BY <1>2, <1>6
  <2>4. dB - (lowDB + D * q) = (dB - lowDB) - D * q
    BY <1>2, <1>3, <1>6
  <2>5. e \in Int /\ -D <= 2 * e /\ 2 * e < D
    <3> DEFINE p == D * q
    <3>1. p \in Nat /\ 2 * p <= 2 * x + D /\ 2 * x < 2 * p + D
      BY <1>6
    <3>2. D \in Nat /\ x \in Nat
      BY <1>2, <1>5
    <3> HIDE DEF x, p
    <3>3. x - p \in Int /\ -D <= 2 * (x - p) /\ 2 * (x - p) < D
      BY <3>1, <3>2
    <3> QED  BY <3>3 DEF p
  <2> QED  BY <2>2, <2>3, <2>4, <2>5
\* A step of the same range is as far away, or farther.
<1>12. ASSUME NEW n \in low .. high
       PROVE  LET g == dB - f(n) IN
              g \in Int /\ ((-g <= e /\ e <= g) \/ (g <= e /\ e <= -g))
  <2> DEFINE m == n - low  g == dB - f(n)
  <2>1. m \in Nat /\ m * D \in Nat /\ f(n) = lowDB + m * D
    BY <1>10
  <2> HIDE DEF m, f
  <2>2. g = x - m * D /\ g \in Int
    <3> DEFINE t == m * D
    <3>1. t \in Nat /\ f(n) = lowDB + t /\ lowDB \in Int /\ dB \in Int
      BY <1>2, <1>3, <2>1
    <3> HIDE DEF t, lowDB
    <3>2. dB - f(n) = (dB - lowDB) - t /\ dB - f(n) \in Int
      BY <3>1
    <3> QED  BY <3>2 DEF t
  <2> SUFFICES (-g <= e /\ e <= g) \/ (g <= e /\ e <= -g)
    BY <2>2
  <2>10. e \in Int /\ -D <= 2 * e /\ 2 * e < D /\ D \in Nat
    BY <1>2, <1>11
  <2> HIDE DEF g
  <2>3. CASE m = q
    <3>1. g = e
      <4> HIDE DEF x, q, D
      <4>1. m * D = D * q
        BY <1>2, <1>6, <2>3
      <4> QED  BY <2>2, <4>1
    <3> HIDE DEF e
    <3> QED  BY <2>10, <3>1
  <2>4. CASE m >= q + 1
    <3>1. m * D >= D * q + D
      <4> HIDE DEF q, D
      <4>1. q \in Nat /\ D \in Nat /\ m \in Nat
        BY <1>2, <1>6, <2>1
      <4>2. m * D >= (q + 1) * D
        BY <2>4, <4>1
      <4>3. (q + 1) * D = D * q + D
        BY <4>1
      <4> QED  BY <4>2, <4>3
    <3>2. g <= e - D
      <4> HIDE DEF x, q, D
      <4> QED  BY <1>2, <1>5, <1>6, <2>1, <2>2, <3>1
    <3> HIDE DEF e, D
    <3> QED  BY <2>2, <2>10, <3>2
  <2>5. CASE m <= q - 1
    <3>1. m * D <= D * q - D
      <4> HIDE DEF q, D
      <4>1. q \in Nat /\ D \in Nat /\ m \in Nat
        BY <1>2, <1>6, <2>1
      <4>2. m * D <= (q - 1) * D
        BY <2>5, <4>1
      <4>3. (q - 1) * D = D * q - D
        BY <4>1
      <4> QED  BY <4>2, <4>3
    <3>2. g >= e + D
      <4> HIDE DEF x, q, D
      <4> QED  BY <1>2, <1>5, <1>6, <2>1, <2>2, <3>1
    <3> HIDE DEF e, D
    <3> QED  BY <2>2, <2>10, <3>2
  <2>6. m = q \/ m >= q + 1 \/ m <= q - 1
    <3> HIDE DEF q
    <3> QED  BY <1>6, <2>1
  <2> QED  BY <2>3, <2>4, <2>5, <2>6
<1>13. f(low) = lowDB /\ f(high) = c[k].dBMax /\ low \in low .. high /\ high \in low .. high
  <2>1. low \in low .. high /\ high \in low .. high
    <3> HIDE DEF low, high, s
    <3> QED  BY <1>2
  <2>2. f(low) = lowDB + (low - low) * D /\ f(high) = lowDB + (high - low) * D
    BY <1>10, <2>1
  <2>3. low - low = 0 /\ high - low = s
    <3> HIDE DEF low, high, s
    <3> QED  BY <1>2
  <2>4. 0 * D = 0 /\ lowDB + 0 = lowDB
    <3> HIDE DEF D, lowDB
    <3> QED  BY <1>2
  <2> HIDE DEF f
  <2> QED  BY <1>2, <2>1, <2>2, <2>3, <2>4
<1>14. ASSUME NEW other \in c[1].min .. c[Len(c)].max
       PROVE  LET g == dB - f(other) IN
              g \in Int /\ ((-g <= e /\ e <= g) \/ (g <= e /\ e <= -g))
  <2>1. /\ f(other) \in Int /\ (other < low => f(other) <= lowDB)
        /\ (other > high => f(other) >= c[k].dBMax)
    BY Outside
  <2>2. CASE other \in low .. high
    BY <1>12, <2>2
  <2>3. CASE other < low
    <3> DEFINE h == dB - lowDB  g == dB - f(other)
    <3>1. h \in Int /\ ((-h <= e /\ e <= h) \/ (h <= e /\ e <= -h))
      BY <1>12, <1>13
    <3>2. h >= 0 /\ g \in Int /\ g >= h
      <4>1. f(other) \in Int /\ f(other) <= lowDB /\ lowDB \in Int /\ dB \in Int /\ lowDB <= dB
        BY <1>2, <1>3, <1>4, <2>1, <2>3
      <4> HIDE DEF f, lowDB
      <4> QED  BY <4>1
    <3>3. -g <= e /\ e <= g
      <4> HIDE DEF g, h, e
      <4> QED  BY <1>11, <3>1, <3>2
    <3> QED  BY <3>2, <3>3
  <2>4. CASE other > high
    <3> DEFINE h == dB - c[k].dBMax  g == dB - f(other)
    <3>1. h \in Int /\ ((-h <= e /\ e <= h) \/ (h <= e /\ e <= -h))
      BY <1>12, <1>13
    <3>2. h <= 0 /\ g \in Int /\ g <= h
      <4> DEFINE highDB == c[k].dBMax
      <4>1. f(other) \in Int /\ f(other) >= highDB /\ highDB \in Int /\ dB \in Int /\ dB <= highDB
        BY <1>2, <1>3, <1>4, <2>1, <2>4
      <4>2. h = dB - highDB
        OBVIOUS
      <4> HIDE DEF f, highDB, h
      <4>3. h <= 0 /\ dB - f(other) \in Int /\ dB - f(other) <= h
        BY <4>1, <4>2
      <4> QED  BY <4>3
    <3>3. g <= e /\ e <= -g
      <4> HIDE DEF g, h, e
      <4> QED  BY <1>11, <3>1, <3>2
    <3> QED  BY <3>2, <3>3
  <2>5. other \in low .. high \/ other < low \/ other > high
    <3> HIDE DEF low, high
    <3> QED  BY <1>2, <1>3
  <2> QED  BY <2>2, <2>3, <2>4, <2>5
<1>15. ASSUME NEW other \in c[1].min .. c[Len(c)].max
       PROVE  (dB - f(raw)) * (dB - f(raw)) <= (dB - f(other)) * (dB - f(other))
  <2> DEFINE g == dB - f(other)
  <2>1. g \in Int /\ ((-g <= e /\ e <= g) \/ (g <= e /\ e <= -g))
    BY <1>14
  <2>2. e * e <= g * g
    <3> HIDE DEF e, g
    <3> QED  BY <1>11, <2>1, FartherSquares
  <2> HIDE DEF e, f
  <2> QED  BY <1>11, <2>2
<1> QED  BY <1>8, <1>9, <1>15

\* All decibels are converted to a step of the curve.
LEMMA DBWithin ==
    ASSUME NEW c, Continuous(c), NEW dB \in Int
    PROVE  ConvertDBToRaw(c, dB) \in c[1].min .. c[Len(c)].max
<1> DEFINE d == Between(GetMinimumDB(c), dB, GetMaximumDB(c))
<1>1. 1 \in 1 .. Len(c) /\ Len(c) \in 1 .. Len(c) /\ Len(c) \in Nat \ {0}
  BY Ends
<1>2. /\ c[1].dBMin \in Int /\ c[1].dBMax \in Int /\ c[1].dBMin < c[1].dBMax
      /\ c[Len(c)].dBMin \in Int /\ c[Len(c)].dBMax \in Int /\ c[Len(c)].dBMin < c[Len(c)].dBMax
  BY <1>1, Ends
<1>3. c[1].dBMin < c[Len(c)].dBMax
  <2>1. Len(c) = 1 \/ c[1].dBMax <= c[Len(c)].dBMin
    <3>1. \A n \in Nat \ {0} : n = 1 \/ 1 < n
      OBVIOUS
    <3>2. Len(c) = 1 \/ 1 < Len(c)
      BY <1>1, <3>1
    <3> QED  BY <1>1, <3>2, InOrder
  <2> QED  BY <1>2, <2>1
<1>4. d \in c[1].dBMin .. c[Len(c)].dBMax
  BY <1>2, <1>3 DEF Between, GetMinimumDB, GetMaximumDB
<1>5. Between(GetMinimumDB(c), d, GetMaximumDB(c)) = d
  <2> HIDE DEF d
  <2> QED  BY <1>2, <1>4 DEF Between, GetMinimumDB, GetMaximumDB
<1>6. ConvertDBToRaw(c, dB) = ConvertDBToRaw(c, d)
  BY <1>5 DEF ConvertDBToRaw
<1> HIDE DEF d
<1>7. ConvertDBToRaw(c, d) \in c[1].min .. c[Len(c)].max
  BY <1>4, GoesToNearest
<1> QED  BY <1>6, <1>7

-----------------------------------------------------------------------------
\* The recursion of PowersOf has a solution: a product for each exponent.
LEMMA PowersOfIs ==
    ASSUME NEW x \in Int, NEW n \in Nat
    PROVE  /\ PowersOf(x, n) \in [0 .. n -> Int] /\ PowersOf(x, n)[0] = 1
           /\ \A i \in 1 .. n : PowersOf(x, n)[i] = x * PowersOf(x, n)[i - 1]
<1> DEFINE step == [y \in (1 .. n) \X Int |-> x * y[2]]
           Multiplies(f) == f = [i \in 0 .. n |-> IF i = 0 THEN 1 ELSE x * f[i - 1]]
<1>1. step \in [(1 .. n) \X Int -> Int]
  <2>1. \A v \in Int : x * v \in Int
    OBVIOUS
  <2> QED  BY <2>1
<1>2. PICK g \in Courses(Int, 1, n, step) : TRUE
  <2>1. 1 \in Int
    OBVIOUS
  <2> HIDE DEF step
  <2> QED  BY <1>1, <2>1, Recursion
<1>3. g \in [0 .. n -> Int] /\ g[0] = 1 /\ \A i \in 1 .. n : g[i] = step[<<i, g[i - 1]>>]
  BY <1>2 DEF Courses
<1>4. Multiplies(g)
  <2>1. ASSUME NEW i \in 0 .. n, i # 0 PROVE g[i] = x * g[i - 1]
    <3>1. i \in 1 .. n /\ g[i - 1] \in Int
      BY <1>3, <2>1
    <3>2. step[<<i, g[i - 1]>>] = x * g[i - 1]
      BY <3>1
    <3> QED  BY <1>3, <3>1, <3>2
  <2> HIDE DEF step
  <2> QED  BY <1>3, <2>1
<1> DEFINE f == PowersOf(x, n)
<1>5. Multiplies(f)
  <2> HIDE DEF step
  <2> QED  BY <1>4 DEF PowersOf
<1> DEFINE T == {i \in Nat : i <= n => f[i] \in Int}
<1>6. 0 \in T
  <2> HIDE DEF f
  <2> QED  BY <1>5
<1>7. ASSUME NEW i \in T \cap Nat PROVE i + 1 \in T
  <2> HIDE DEF f
  <2> SUFFICES ASSUME i + 1 <= n PROVE f[i + 1] \in Int
    OBVIOUS
  <2>1. i + 1 \in 0 .. n /\ i + 1 # 0 /\ (i + 1) - 1 = i /\ f[i] \in Int
    OBVIOUS
  <2>2. f[i + 1] = x * f[i]
    BY <1>5, <2>1
  <2> QED  BY <2>1, <2>2
<1>8. Nat \subseteq T
  <2> HIDE DEF T
  <2> QED  BY <1>6, <1>7, Induction
<1>9. \A i \in 0 .. n : f[i] \in Int
  BY <1>8
<1>10. f \in [0 .. n -> Int] /\ f[0] = 1
  <2> HIDE DEF f
  <2> QED  BY <1>5, <1>9
<1>11. ASSUME NEW i \in 1 .. n PROVE f[i] = x * f[i - 1]
  <2> HIDE DEF f
  <2> QED  BY <1>5
<1> QED  BY <1>10, <1>11

\* A power is the base times the one before it.
LEMMA PowerIs ==
    ASSUME NEW x \in Int, NEW n \in Nat
    PROVE  Power(x, 0) = 1 /\ Power(x, n) \in Int /\ Power(x, n + 1) = x * Power(x, n)
<1> DEFINE f == PowersOf(x, n)  g == PowersOf(x, n + 1)  T == {i \in Nat : i <= n => f[i] = g[i]}
<1>1. n + 1 \in Nat /\ n \in 0 .. n /\ n + 1 \in 1 .. n + 1 /\ (n + 1) - 1 = n
  OBVIOUS
<1>2. f \in [0 .. n -> Int] /\ f[0] = 1 /\ \A i \in 1 .. n : f[i] = x * f[i - 1]
  BY PowersOfIs
<1>3. g[0] = 1 /\ \A i \in 1 .. n + 1 : g[i] = x * g[i - 1]
  BY <1>1, PowersOfIs
<1> HIDE DEF f, g
<1>4. 0 \in T
  BY <1>2, <1>3
<1>5. ASSUME NEW i \in T \cap Nat PROVE i + 1 \in T
  <2> SUFFICES ASSUME i + 1 <= n PROVE f[i + 1] = g[i + 1]
    OBVIOUS
  <2>1. i + 1 \in 1 .. n /\ i + 1 \in 1 .. n + 1 /\ (i + 1) - 1 = i /\ f[i] = g[i]
    OBVIOUS
  <2>2. f[i + 1] = x * f[i] /\ g[i + 1] = x * g[i]
    BY <1>2, <1>3, <2>1
  <2> QED  BY <2>1, <2>2
<1>6. n \in T
  <2> HIDE DEF T
  <2> QED  BY <1>4, <1>5, Induction
<1>7. f[n] = g[n] /\ f[n] \in Int
  BY <1>1, <1>2, <1>6
<1>8. g[n + 1] = x * g[n]
  BY <1>1, <1>3
<1>9. Power(x, 0) = 1
  <2>1. 0 \in Nat
    OBVIOUS
  <2> QED  BY <2>1, PowersOfIs DEF Power
<1>10. Power(x, n) = f[n] /\ Power(x, n + 1) = g[n + 1]
  BY DEF Power, f, g
<1> QED  BY <1>7, <1>8, <1>9, <1>10

\* Powers of natural numbers are natural, and positive unless the base is 0.
LEMMA PowerNat ==
    ASSUME NEW x \in Nat, NEW n \in Nat
    PROVE  Power(x, n) \in Nat /\ (x > 0 => Power(x, n) > 0)
<1> DEFINE T == {i \in Nat : Power(x, i) \in Nat /\ (x > 0 => Power(x, i) > 0)}
<1>1. 0 \in T
  BY PowerIs
<1>2. ASSUME NEW i \in T \cap Nat PROVE i + 1 \in T
  <2> DEFINE p == Power(x, i)
  <2>1. Power(x, i + 1) = x * p /\ p \in Nat /\ (x > 0 => p > 0)
    BY PowerIs
  <2>2. x * p \in Nat /\ (x > 0 => x * p > 0)
    <3> HIDE DEF p
    <3>1. x * p \in Nat
      BY <2>1
    <3>2. ASSUME x > 0 PROVE x * p > 0
      <4>1. x * p >= 1 * p
        BY <2>1, <3>2
      <4> QED  BY <2>1, <3>1, <3>2, <4>1
    <3> QED  BY <3>1, <3>2
  <2> QED  BY <2>1, <2>2
<1>3. n \in T
  <2> HIDE DEF T
  <2> QED  BY <1>1, <1>2, Induction
<1> QED  BY <1>3

\* The power of a product is the product of the powers.
LEMMA PowerTimes ==
    ASSUME NEW x \in Int, NEW y \in Int, NEW n \in Nat
    PROVE  Power(x * y, n) = Power(x, n) * Power(y, n)
<1> DEFINE T == {i \in Nat : Power(x * y, i) = Power(x, i) * Power(y, i)}
<1>1. x * y \in Int
  OBVIOUS
<1>2. 0 \in T
  BY <1>1, PowerIs
<1>3. ASSUME NEW i \in T \cap Nat PROVE i + 1 \in T
  <2> DEFINE p == Power(x, i)  q == Power(y, i)
  <2>1. p \in Int /\ q \in Int /\ Power(x, i + 1) = x * p /\ Power(y, i + 1) = y * q
    BY PowerIs
  <2>2. Power(x * y, i + 1) = (x * y) * Power(x * y, i)
    BY <1>1, PowerIs
  <2>3. Power(x * y, i) = p * q
    OBVIOUS
  <2>4. (x * y) * (p * q) = (x * p) * (y * q)
    <3> HIDE DEF p, q
    <3> QED  BY <2>1
  <2> QED  BY <2>1, <2>2, <2>3, <2>4
<1>4. n \in T
  <2> HIDE DEF T
  <2> QED  BY <1>2, <1>3, Induction
<1> QED  BY <1>4

\* A greater base has a greater power.
LEMMA PowerGrows ==
    ASSUME NEW x \in Nat, NEW y \in Nat, x < y, NEW n \in Nat \ {0}
    PROVE  Power(x, n) < Power(y, n)
<1> DEFINE T == {i \in Nat : Power(x, i + 1) < Power(y, i + 1)}
<1>1. 0 \in T
  <2>1. 0 \in Nat /\ 0 + 1 \in Nat
    OBVIOUS
  <2>2. Power(x, 0 + 1) = x * Power(x, 0) /\ Power(y, 0 + 1) = y * Power(y, 0)
    BY <2>1, PowerIs
  <2>3. Power(x, 0) = 1 /\ Power(y, 0) = 1
    BY <2>1, PowerIs
  <2>4. x * 1 < y * 1
    OBVIOUS
  <2> QED  BY <2>2, <2>3, <2>4
<1>2. ASSUME NEW i \in T \cap Nat PROVE i + 1 \in T
  <2> DEFINE p == Power(x, i + 1)  q == Power(y, i + 1)
  <2>1. i + 1 \in Nat /\ p < q
    OBVIOUS
  <2>2. p \in Nat /\ q \in Nat
    BY <2>1, PowerNat
  <2>3. Power(x, (i + 1) + 1) = x * p /\ Power(y, (i + 1) + 1) = y * q
    BY <2>1, PowerIs
  <2>4. x * p < y * q
    <3> HIDE DEF p, q
    <3>1. x * p <= x * q
      BY <2>1, <2>2
    <3>2. x * q < y * q
      BY <2>1, <2>2
    <3>3. x * p \in Nat /\ x * q \in Nat /\ y * q \in Nat
      BY <2>2
    <3> QED  BY <3>1, <3>2, <3>3
  <2> QED  BY <2>1, <2>3, <2>4
<1>3. n - 1 \in Nat /\ (n - 1) + 1 = n
  OBVIOUS
<1>4. n - 1 \in T
  <2> HIDE DEF T
  <2> QED  BY <1>1, <1>2, <1>3, Induction
<1>5. Power(x, (n - 1) + 1) < Power(y, (n - 1) + 1)
  BY <1>4
<1> QED  BY <1>3, <1>5

\* The curve's raw values as the code reads them off its ends.
LEMMA RawRangeIs ==
    ASSUME NEW c, Continuous(c)
    PROVE  /\ GetMinimumRaw(c) = c[1].min /\ GetMaximumRaw(c) = c[Len(c)].max
           /\ GetMinimumRaw(c) \in Int /\ RawRange(c) \in Nat \ {0}
           /\ GetMaximumRaw(c) = GetMinimumRaw(c) + RawRange(c)
<1>1. 1 \in 1 .. Len(c) /\ Len(c) \in 1 .. Len(c) /\ c[1].max <= c[Len(c)].max
  BY Ends
<1>2. c[1].min \in Int /\ c[1].max \in Int /\ c[1].min < c[1].max /\ c[Len(c)].max \in Int
  BY <1>1, Ends
<1> QED  BY <1>1, <1>2 DEF GetMinimumRaw, GetMaximumRaw, RawRange

\* u / 2R of the distance, powered, is compared with s / R of it as u with 2s.
LEMMA Compared ==
    ASSUME NEW R \in Nat \ {0}, NEW s \in Nat, NEW n \in Nat \ {0}, NEW u \in Nat
    PROVE  /\ u < 2 * s => Power(u, n) * Power(R, n) < Power(2 * R, n) * Power(s, n)
           /\ u > 2 * s => Power(u, n) * Power(R, n) > Power(2 * R, n) * Power(s, n)
<1> DEFINE r == Power(R, n)  a == Power(u, n)  b == Power(2 * s, n)
<1>1. 2 * s \in Nat /\ 2 * R \in Nat /\ n \in Nat
  OBVIOUS
<1>2. r \in Nat /\ r > 0 /\ a \in Nat /\ b \in Nat
  <2>1. R \in Nat /\ R > 0
    OBVIOUS
  <2>2. r \in Nat /\ r > 0
    BY <1>1, <2>1, PowerNat
  <2>3. a \in Nat
    BY <1>1, PowerNat
  <2>4. b \in Nat
    BY <1>1, PowerNat
  <2> QED  BY <2>2, <2>3, <2>4
<1>3. Power(2 * R, n) * Power(s, n) = b * r
  <2>1. (2 * R) * s = (2 * s) * R
    OBVIOUS
  <2>2. Power((2 * R) * s, n) = Power(2 * R, n) * Power(s, n)
    BY <1>1, PowerTimes
  <2>3. Power((2 * s) * R, n) = Power(2 * s, n) * Power(R, n)
    BY <1>1, PowerTimes
  <2> QED  BY <2>1, <2>2, <2>3
<1>4. (u < 2 * s => a < b) /\ (u > 2 * s => b < a)
  BY <1>1, PowerGrows
<1> HIDE DEF r, a, b
<1>5. (a < b => a * r < b * r) /\ (b < a => b * r < a * r)
  BY <1>2
<1>6. a * r \in Nat /\ b * r \in Nat
  BY <1>2
<1>7. a * r = Power(u, n) * Power(R, n)
  BY DEF a, r
<1> QED  BY <1>3, <1>4, <1>5, <1>6, <1>7

\* The step that ConvertScalarToRaw is to find.
NearestStep(c, e, scalar, k) ==
    LET reached == Power(2 * RawRange(c), e.num) * Between(0, scalar.p, scalar.q)
    IN  /\ k = 0 \/ Power(2 * k - 1, e.num) * scalar.q <= reached
        /\ reached < Power(2 * k + 1, e.num) * scalar.q

\* ConvertScalarToRaw chooses the nearest step.
LEMMA ScalarToRaw ==
    ASSUME NEW c, NEW e, NEW scalar
    PROVE  ConvertScalarToRaw(c, e, scalar) =
              GetMinimumRaw(c) + (CHOOSE k \in 0 .. RawRange(c) : NearestStep(c, e, scalar, k))
BY DEF ConvertScalarToRaw, NearestStep

\* A control set to the scalar it reads stays where it is.
LEMMA ScalarInverts ==
    ASSUME NEW c, Continuous(c), NEW e, e.num \in Nat \ {0},
           NEW raw \in GetMinimumRaw(c) .. GetMaximumRaw(c)
    PROVE  ConvertScalarToRaw(c, e, ConvertRawToScalar(c, e, raw)) = raw
<1> DEFINE low == GetMinimumRaw(c)  R == RawRange(c)  s == raw - low  n == e.num
           scalar == ConvertRawToScalar(c, e, raw)  Near(k) == NearestStep(c, e, scalar, k)
<1>1. low \in Int /\ R \in Nat \ {0} /\ GetMaximumRaw(c) = low + R
  BY RawRangeIs
<1>2. s \in 0 .. R /\ raw \in Int /\ low + s = raw
  <2> HIDE DEF low, R
  <2>1. raw \in low .. low + R
    BY <1>1 DEF low
  <2> QED  BY <1>1, <2>1
<1>3. scalar = [p |-> Power(s, n), q |-> Power(R, n)]
  <2>1. Between(low, raw, GetMaximumRaw(c)) = raw
    <3> HIDE DEF low, R
    <3> QED  BY <1>1, <1>2 DEF Between
  <2> QED  BY <2>1 DEF ConvertRawToScalar
<1>4. Between(0, Power(s, n), Power(R, n)) = Power(s, n)
  <2> HIDE DEF s, n, R
  <2>1. s \in Nat /\ R \in Nat /\ n \in Nat \ {0} /\ (s = R \/ s < R)
    BY <1>1, <1>2 DEF n
  <2>2. Power(s, n) \in Nat /\ Power(R, n) \in Nat
    BY <2>1, PowerNat
  <2>3. Power(s, n) <= Power(R, n)
    BY <2>1, <2>2, PowerGrows
  <2> QED  BY <2>2, <2>3 DEF Between
<1>5. ASSUME NEW k \in 0 .. R
      PROVE  Near(k) <=> /\ k = 0 \/ Power(2 * k - 1, n) * Power(R, n) <= Power(2 * R, n) * Power(s, n)
                         /\ Power(2 * R, n) * Power(s, n) < Power(2 * k + 1, n) * Power(R, n)
  <2>1. scalar.p = Power(s, n) /\ scalar.q = Power(R, n)
    BY <1>3
  <2> HIDE DEF scalar, s
  <2> QED  BY <1>4, <2>1 DEF NearestStep
<1> HIDE DEF s, n, R, scalar, Near
<1>6. n \in Nat \ {0} /\ n \in Nat /\ s \in Nat /\ R \in Nat \ {0} /\ s \in 0 .. R
  BY <1>1, <1>2 DEF n
<1> DEFINE reached == Power(2 * R, n) * Power(s, n)  weight(u) == Power(u, n) * Power(R, n)
<1>7. reached \in Nat /\ \A u \in Nat : weight(u) \in Nat
  <2>1. 2 * R \in Nat
    BY <1>6
  <2>2. Power(2 * R, n) \in Nat /\ Power(s, n) \in Nat /\ Power(R, n) \in Nat
    BY <1>6, <2>1, PowerNat
  <2>3. ASSUME NEW u \in Nat PROVE weight(u) \in Nat
    <3>1. Power(u, n) \in Nat
      BY <1>6, PowerNat
    <3> QED  BY <2>2, <3>1
  <2>4. reached \in Nat
    BY <2>2
  <2> QED  BY <2>3, <2>4
<1>8. \A u \in Nat : (u < 2 * s => weight(u) < reached) /\ (u > 2 * s => weight(u) > reached)
  BY <1>6, Compared
<1>9. \A k \in 0 .. R : Near(k) <=> (k = 0 \/ weight(2 * k - 1) <= reached) /\ reached < weight(2 * k + 1)
  BY <1>5
<1> HIDE DEF reached, weight
<1>10. Near(s)
  <2>1. s = 0 \/ (2 * s - 1 \in Nat /\ 2 * s - 1 < 2 * s)
    BY <1>6
  <2>2. s = 0 \/ weight(2 * s - 1) <= reached
    BY <1>7, <1>8, <2>1
  <2>3. 2 * s + 1 \in Nat /\ 2 * s + 1 > 2 * s
    BY <1>6
  <2>4. reached < weight(2 * s + 1)
    BY <1>7, <1>8, <2>3
  <2> QED  BY <1>6, <1>9, <2>2, <2>4
<1>11. ASSUME NEW k \in 0 .. R, Near(k) PROVE k = s
  <2>1. k \in Nat
    BY <1>6
  <2>2. ~(k < s)
    <3>1. SUFFICES ASSUME k < s PROVE FALSE
      OBVIOUS
    <3>2. 2 * k + 1 \in Nat /\ 2 * k + 1 < 2 * s
      BY <1>6, <2>1, <3>1
    <3>3. weight(2 * k + 1) < reached /\ weight(2 * k + 1) \in Nat
      BY <1>7, <1>8, <3>2
    <3> QED  BY <1>7, <1>9, <1>11, <3>3
  <2>3. ~(k > s)
    <3>1. SUFFICES ASSUME k > s PROVE FALSE
      OBVIOUS
    <3>2. k # 0 /\ 2 * k - 1 \in Nat /\ 2 * k - 1 > 2 * s
      BY <1>6, <2>1, <3>1
    <3>3. weight(2 * k - 1) > reached /\ weight(2 * k - 1) \in Nat
      BY <1>7, <1>8, <3>2
    <3> QED  BY <1>7, <1>9, <1>11, <3>2, <3>3
  <2> QED  BY <1>6, <2>1, <2>2, <2>3
<1>12. (CHOOSE k \in 0 .. R : Near(k)) = s
  BY <1>6, <1>10, <1>11
<1>13. ConvertScalarToRaw(c, e, scalar) = low + (CHOOSE k \in 0 .. R : Near(k))
  BY ScalarToRaw DEF R, Near
<1> QED  BY <1>2, <1>12, <1>13 DEF scalar

\* Every scalar is converted to a step of the curve.
LEMMA ScalarWithin ==
    ASSUME NEW c, Continuous(c), NEW e, e.num \in Nat \ {0},
           NEW scalar, scalar.p \in Int, scalar.q \in Nat \ {0}
    PROVE  ConvertScalarToRaw(c, e, scalar) \in GetMinimumRaw(c) .. GetMaximumRaw(c)
<1> DEFINE low == GetMinimumRaw(c)  R == RawRange(c)  n == e.num  q == scalar.q
           p == Between(0, scalar.p, q)  reached == Power(2 * R, n) * p
           weight(u) == Power(u, n) * q  T == {k \in Nat : reached < weight(2 * k + 1)}
<1>1. low \in Int /\ R \in Nat \ {0} /\ GetMaximumRaw(c) = low + R
  BY RawRangeIs
<1>2. p \in Nat /\ p <= q /\ q \in Nat \ {0}
  BY DEF Between
<1>3. n \in Nat \ {0}
  OBVIOUS
<1>4. \A k \in Nat : NearestStep(c, e, scalar, k) <=>
                        (k = 0 \/ weight(2 * k - 1) <= reached) /\ reached < weight(2 * k + 1)
  BY DEF NearestStep
<1> HIDE DEF low, R, n, q, p
<1>5. reached \in Nat /\ \A u \in Nat : weight(u) \in Nat
  <2>1. 2 * R \in Nat /\ n \in Nat
    BY <1>1, <1>3
  <2>2. Power(2 * R, n) \in Nat
    BY <2>1, PowerNat
  <2>3. ASSUME NEW u \in Nat PROVE weight(u) \in Nat
    <3>1. Power(u, n) \in Nat
      BY <2>1, PowerNat
    <3> QED  BY <1>2, <3>1
  <2>4. reached \in Nat
    BY <1>2, <2>2
  <2> QED  BY <2>3, <2>4
<1>6. R \in T
  <2> DEFINE a == Power(2 * R, n)  b == Power(2 * R + 1, n)
  <2>1. 2 * R \in Nat /\ 2 * R + 1 \in Nat /\ 2 * R < 2 * R + 1 /\ n \in Nat
    BY <1>1, <1>3
  <2>2. a \in Nat /\ b \in Nat /\ a < b
    BY <1>3, <2>1, PowerNat, PowerGrows
  <2> HIDE DEF a, b
  <2>3. a * p <= a * q /\ a * q < b * q
    BY <1>2, <2>2
  <2>4. a * p \in Nat /\ a * q \in Nat /\ b * q \in Nat
    BY <1>2, <2>2
  <2>5. a * p < b * q
    BY <2>3, <2>4
  <2> QED  BY <1>1, <2>5 DEF a, b
<1>7. PICK k \in T : \A i \in T : k <= i
  <2>1. T \subseteq Nat /\ T # {}
    BY <1>6
  <2> HIDE DEF T
  <2> QED  BY <2>1, Smallest
<1>8. k \in 0 .. R
  <2>1. k <= R /\ k \in Nat /\ R \in Nat
    BY <1>1, <1>6, <1>7
  <2> HIDE DEF T
  <2> QED  BY <2>1
<1>9. k = 0 \/ weight(2 * k - 1) <= reached
  <2>1. SUFFICES ASSUME k # 0 PROVE weight(2 * k - 1) <= reached
    OBVIOUS
  <2>2. k \in Nat /\ k - 1 \in Nat /\ ~(k <= k - 1) /\ 2 * (k - 1) + 1 = 2 * k - 1 /\ 2 * k - 1 \in Nat
    BY <2>1
  <2>3. k - 1 \notin T
    BY <1>7, <2>2
  <2>4. ~(reached < weight(2 * (k - 1) + 1))
    <3> HIDE DEF reached, weight
    <3> QED  BY <2>2, <2>3
  <2> HIDE DEF reached, weight
  <2>5. weight(2 * k - 1) \in Nat
    BY <1>5, <2>2
  <2> QED  BY <1>5, <2>2, <2>4, <2>5
<1>10. NearestStep(c, e, scalar, k)
  <2>1. reached < weight(2 * k + 1) /\ k \in Nat
    OBVIOUS
  <2> HIDE DEF reached, weight, T
  <2> QED  BY <1>4, <1>9, <2>1
<1> DEFINE m == CHOOSE i \in 0 .. R : NearestStep(c, e, scalar, i)
<1>11. m \in 0 .. R
  BY <1>8, <1>10
<1>12. ConvertScalarToRaw(c, e, scalar) = low + m
  BY ScalarToRaw DEF low, R
<1>13. low + m \in low .. low + R
  <2> HIDE DEF m
  <2> QED  BY <1>1, <1>11
<1> HIDE DEF m
<1> QED  BY <1>1, <1>12, <1>13 DEF low

-----------------------------------------------------------------------------
(* The curve that is built one range at a time.                            *)

\* A curve is made of the ranges that were added.
CurveInv ==
    /\ mCurveMap \in Seq(CurveRange)
    /\ mTransferFunction \in Transfer

\* Type correctness of CAVolumeCurve: AddRange, ResetRange and SetTransferFunction
\* leave a sequence of ranges that were added and one of the transfer functions.
THEOREM CurveTypeCorrect == CurveSpec => []CurveInv
<1>1. CurveInit => CurveInv
  BY DEF CurveInit, CurveInv, Transfer
<1>2. CurveInv /\ [CurveNext]_curveVars => CurveInv'
  <2> SUFFICES ASSUME CurveInv, [CurveNext]_curveVars PROVE CurveInv'
    OBVIOUS
  <2>1. ASSUME NEW r \in CurveRange, AddRange(r) PROVE CurveInv'
    <3>1. PICK n \in 1 .. Len(mCurveMap) + 1 : mCurveMap' = InsertAt(mCurveMap, n, r)
      BY <2>1 DEF AddRange
    <3>2. mCurveMap \in Seq(CurveRange) /\ Len(mCurveMap) \in Nat
      BY DEF CurveInv
    <3>3. /\ SubSeq(mCurveMap, 1, n - 1) \in Seq(CurveRange)
          /\ SubSeq(mCurveMap, n, Len(mCurveMap)) \in Seq(CurveRange)
      BY <3>2
    <3>4. mCurveMap' \in Seq(CurveRange)
      BY <3>1, <3>3 DEF InsertAt
    <3> QED  BY <2>1, <3>4 DEF AddRange, CurveInv
  <2>2. CASE ResetRange
    BY <2>2 DEF ResetRange, CurveInv
  <2>3. ASSUME NEW f \in Transfer, SetTransferFunction(f) PROVE CurveInv'
    BY <2>3 DEF SetTransferFunction, CurveInv
  <2>4. CASE UNCHANGED curveVars
    BY <2>4 DEF curveVars, CurveInv
  <2> QED  BY <2>1, <2>2, <2>3, <2>4 DEF CurveNext
<1> QED  BY <1>1, <1>2, PTL DEF CurveSpec

\* CurveInverts: the conversions of a continuous curve are each other's inverses.
THEOREM CurveAlwaysInverts == CurveSpec => []CurveInverts
<1>1. CurveInv => CurveInverts
  <2> SUFFICES ASSUME CurveInv, mCurveMap # <<>>, CheckForContinuity(mCurveMap) PROVE CurveInverts
    BY DEF CurveInverts
  <2> DEFINE c == mCurveMap  e == Exponent(mCurveMap, mTransferFunction, Thirty)
  <2>1. Continuous(c)
    <3>1. c \in Seq(CurveRange) /\ Len(c) \in Nat \ {0}
      BY DEF CurveInv
    <3>2. \A i \in 1 .. Len(c) : IsCurveRange(c[i])
      BY <3>1, CurveAssumption
    <3> QED  BY <3>1, <3>2 DEF Continuous
  <2>2. e.num \in Nat \ {0}
    BY DEF CurveInv, Transfer, Exponent, Linear
  <2>3. GetMinimumRaw(c) = c[1].min /\ GetMaximumRaw(c) = c[Len(c)].max
    BY DEF GetMinimumRaw, GetMaximumRaw
  <2>4. GetMinimumDB(c) = c[1].dBMin /\ GetMaximumDB(c) = c[Len(c)].dBMax
    BY DEF GetMinimumDB, GetMaximumDB
  <2> HIDE DEF c, e
  <2>5. ASSUME NEW raw \in GetMinimumRaw(c) .. GetMaximumRaw(c)
        PROVE  /\ ConvertDBToRaw(c, ConvertRawToDB(c, raw)) = raw
               /\ ConvertScalarToRaw(c, e, ConvertRawToScalar(c, e, raw)) = raw
               /\ raw < GetMaximumRaw(c) => ConvertRawToDB(c, raw) < ConvertRawToDB(c, raw + 1)
    BY <2>1, <2>2, <2>3, DBInverts, ScalarInverts, DBGrows
  <2>6. ASSUME NEW d \in GetMinimumDB(c) .. GetMaximumDB(c),
               NEW other \in GetMinimumRaw(c) .. GetMaximumRaw(c)
        PROVE  (d - ConvertRawToDB(c, ConvertDBToRaw(c, d))) * (d - ConvertRawToDB(c, ConvertDBToRaw(c, d)))
                  <= (d - ConvertRawToDB(c, other)) * (d - ConvertRawToDB(c, other))
    BY <2>1, <2>3, <2>4, GoesToNearest
  <2> QED  BY <2>5, <2>6 DEF CurveInverts, c, e
<1> QED  BY <1>1, CurveTypeCorrect, PTL
=============================================================================
