---------------------------- MODULE VolumeCurve ----------------------------
(***************************************************************************)
(* The conversions of a volume curve between a control's raw steps, its    *)
(* decibels and its scalar.  A curve is the sequence of its ranges, least  *)
(* raw value first; each is [min, max, dBMin, dBMax].  Decibels are        *)
(* counted in a unit that makes every range's decibels per step whole.     *)
(*                                                                         *)
(* The scalar is a power num/den of the distance along the curve.  It is   *)
(* represented exactly, by the fraction p/q that is its den-th power.      *)
(***************************************************************************)
EXTENDS Integers, SequencesExt

Steps(r) == r.max - r.min
DBPerRaw(r) == (r.dBMax - r.dBMin) \div Steps(r)
Between(low, x, high) == IF x < low THEN low ELSE IF x > high THEN high ELSE x

IsCurveRange(r) ==
    /\ r \in [min : Int, max : Int, dBMin : Int, dBMax : Int]
    /\ r.min < r.max /\ r.dBMin < r.dBMax
    /\ (r.dBMax - r.dBMin) % Steps(r) = 0

GetMinimumRaw(curve) == curve[1].min
GetMaximumRaw(curve) == curve[Len(curve)].max
GetMinimumDB(curve) == curve[1].dBMin
GetMaximumDB(curve) == curve[Len(curve)].dBMax

\* Every range begins where the one before it has ended.
CheckForContinuity(curve) ==
    \A i \in 2 .. Len(curve) :
        curve[i].min = curve[i - 1].max /\ curve[i].dBMin = curve[i - 1].dBMax

\* Faulty variant: does not round.
Truncated(x, y) == x \div y
\* roundf(x / y): halves go away from zero.
RoundQuotient(x, y) ==
    IF x >= 0 THEN (2 * x + y) \div (2 * y) ELSE -((y - 2 * x) \div (2 * y))

\* The steps of the first i ranges, for every i.
StepsUpTo(curve) ==
    LET total[i \in 0 .. Len(curve)] == IF i = 0 THEN 0 ELSE total[i - 1] + Steps(curve[i])
    IN  total

\* Whole ranges are added until the one the decibels lie in.
ConvertDBToRaw(curve, dB) ==
    LET d == Between(GetMinimumDB(curve), dB, GetMaximumDB(curve))
        i == CHOOSE n \in 1 .. Len(curve) :
                d <= curve[n].dBMax /\ \A k \in 1 .. n - 1 : d > curve[k].dBMax
    IN  GetMinimumRaw(curve) + StepsUpTo(curve)[i - 1]
          + RoundQuotient(d - curve[i].dBMin, DBPerRaw(curve[i]))

\* Each range takes as many of the steps as it has and leaves the rest.
Take(r, t) ==
    LET n == IF Steps(r) < t.left THEN Steps(r) ELSE t.left
    IN  [left |-> t.left - n, dB |-> t.dB + n * DBPerRaw(r)]
TakenUpTo(curve, raw) ==
    LET taken[i \in 0 .. Len(curve)] ==
            IF i = 0
            THEN [left |-> Between(GetMinimumRaw(curve), raw, GetMaximumRaw(curve)) - GetMinimumRaw(curve),
                  dB |-> GetMinimumDB(curve)]
            ELSE Take(curve[i], taken[i - 1])
    IN  taken
ConvertRawToDB(curve, raw) == TakenUpTo(curve, raw)[Len(curve)].dB

PowersOf(x, n) ==
    LET power[i \in 0 .. n] == IF i = 0 THEN 1 ELSE x * power[i - 1]
    IN  power
Power(x, n) == PowersOf(x, n)[n]

\* The transfer function is applied to curves of more than 30 dB only.
Linear == [num |-> 1, den |-> 1]
Exponent(curve, transfer, thirty) ==
    IF GetMaximumDB(curve) - GetMinimumDB(curve) > thirty THEN transfer ELSE Linear

RawRange(curve) == GetMaximumRaw(curve) - GetMinimumRaw(curve)
ConvertRawToScalar(curve, e, raw) ==
    LET steps == Between(GetMinimumRaw(curve), raw, GetMaximumRaw(curve)) - GetMinimumRaw(curve)
    IN  [p |-> Power(steps, e.num), q |-> Power(RawRange(curve), e.num)]

\* The power is undone, and the distance rounded to the nearest step n: that is
\* (2n - 1) / 2 <= RawRange * (p / q) ^ (1 / num) < (2n + 1) / 2.
ConvertScalarToRaw(curve, e, scalar) ==
    LET p == Between(0, scalar.p, scalar.q)
        reached == Power(2 * RawRange(curve), e.num) * p
        n == CHOOSE k \in 0 .. RawRange(curve) :
                /\ k = 0 \/ Power(2 * k - 1, e.num) * scalar.q <= reached
                /\ reached < Power(2 * k + 1, e.num) * scalar.q
    IN  GetMinimumRaw(curve) + n
=============================================================================
