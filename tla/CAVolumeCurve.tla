--------------------------- MODULE CAVolumeCurve ---------------------------
(***************************************************************************)
(* A volume curve that is built one range at a time.  The ranges are kept  *)
(* in a map sorted by their least raw value.                               *)
(***************************************************************************)
EXTENDS VolumeCurve

CONSTANTS
    CurveRange,     \* the ranges that are added
    Thirty          \* 30 dB in the unit of these ranges

ASSUME CurveAssumption == \A r \in CurveRange : IsCurveRange(r)

VARIABLES mCurveMap, mTransferFunction
curveVars == <<mCurveMap, mTransferFunction>>

\* The exponents of SetTransferFunction; kPow4Over1Curve to kPow12Over1Curve
\* differ from kPow3Over1Curve in the numerator only.
Transfer == {Linear, [num |-> 1, den |-> 3], [num |-> 1, den |-> 2], [num |-> 3, den |-> 4],
             [num |-> 3, den |-> 2], [num |-> 2, den |-> 1], [num |-> 3, den |-> 1],
             [num |-> 4, den |-> 1]}

CurveInit ==
    /\ mCurveMap = <<>>
    /\ mTransferFunction = [num |-> 2, den |-> 1]

Overlap(r, s) == r.min < s.max /\ r.max > s.min

\* The walk ends at the first range that overlaps or does not begin after the
\* new one: a range behind that one is not looked at.
Stops(r) == {i \in DOMAIN mCurveMap : Overlap(r, mCurveMap[i]) \/ r.min >= mCurveMap[i].min}
Refused(r) == \E i \in Stops(r) : (\A k \in Stops(r) : i <= k) /\ Overlap(r, mCurveMap[i])
AddRange(r) ==
    /\ ~Refused(r)
    /\ \E n \in 1 .. Len(mCurveMap) + 1 :
        /\ \A i \in DOMAIN mCurveMap :
              IF i < n THEN mCurveMap[i].min < r.min ELSE r.min < mCurveMap[i].min
        /\ mCurveMap' = InsertAt(mCurveMap, n, r)
    /\ UNCHANGED mTransferFunction

ResetRange == mCurveMap' = <<>> /\ UNCHANGED mTransferFunction

SetTransferFunction(f) == mTransferFunction' = f /\ UNCHANGED mCurveMap

CurveNext ==
    \/ \E r \in CurveRange : AddRange(r)
    \/ ResetRange
    \/ \E f \in Transfer : SetTransferFunction(f)
CurveSpec == CurveInit /\ [][CurveNext]_curveVars
-----------------------------------------------------------------------------
\* However a curve was built, if it says that it is continuous its conversions
\* are each other's inverses: a control set to what it reads, as decibels or as
\* a scalar, stays where it is, more steps are more decibels, and decibels
\* between two steps go to the nearest of them.
CurveInverts ==
    (mCurveMap # <<>> /\ CheckForContinuity(mCurveMap)) =>
        LET e == Exponent(mCurveMap, mTransferFunction, Thirty)
            dB(raw) == ConvertRawToDB(mCurveMap, raw)
            Near(d, raw) ==
                \A other \in GetMinimumRaw(mCurveMap) .. GetMaximumRaw(mCurveMap) :
                    (d - dB(raw)) * (d - dB(raw)) <= (d - dB(other)) * (d - dB(other))
        IN  /\ \A raw \in GetMinimumRaw(mCurveMap) .. GetMaximumRaw(mCurveMap) :
                /\ ConvertDBToRaw(mCurveMap, dB(raw)) = raw
                /\ ConvertScalarToRaw(mCurveMap, e, ConvertRawToScalar(mCurveMap, e, raw)) = raw
                /\ raw < GetMaximumRaw(mCurveMap) => dB(raw) < dB(raw + 1)
            /\ \A d \in GetMinimumDB(mCurveMap) .. GetMaximumDB(mCurveMap) :
                Near(d, ConvertDBToRaw(mCurveMap, d))

\* No two ranges of a curve overlap.
RangesApart == \A i, k \in DOMAIN mCurveMap : i # k => ~Overlap(mCurveMap[i], mCurveMap[k])
=============================================================================
