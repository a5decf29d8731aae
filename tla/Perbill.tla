------------------------------ MODULE Perbill ------------------------------
(***************************************************************************)
(* Fixed-width arithmetic of the pallet: the saturating operations on      *)
(* balances and block numbers, Perbill fractions, and the comparison that  *)
(* decides one role of Eq. 1.  The widths are parameters, so that a small  *)
(* instance reaches the saturating cases.                                  *)
(***************************************************************************)
EXTENDS Integers

CONSTANTS
    ACCURACY,      \* Perbill::ACCURACY, 10^9 in the code
    MaxU128        \* u128::MAX, the largest Balance

ASSUME PerbillAssumption ==
    /\ ACCURACY \in Nat \ {0}
    /\ MaxU128 \in Nat
    /\ ACCURACY <= MaxU128

Balance == 0..MaxU128
PerbillParts == 0..ACCURACY

AtMost(x, limit) == IF x <= limit THEN x ELSE limit

SatAdd(x, y, limit) == AtMost(x + y, limit)
SatSub(x, y) == IF y <= x THEN x - y ELSE 0
SatMul(x, y) == AtMost(x * y, MaxU128)

\* Mutant: rounds up.
MulCeil(parts, x) == (parts * x + ACCURACY - 1) \div ACCURACY

\* Perbill::mul_floor
MulFloor(parts, x) == (parts * x) \div ACCURACY

-----------------------------------------------------------------------------
\* Mutant: a quorum met exactly does not count.
StrictQuorumMet(ayes, total, quorum) ==
    /\ total # 0
    /\ SatMul(ayes, ACCURACY) > SatMul(quorum, total)

\* One required role of Eq. 1 as meets_quorums evaluates it: the ratio is
\* cross-multiplied in u128 and a role without stake never meets its quorum.
RoleQuorumMet(ayes, total, quorum) ==
    /\ total # 0
    /\ SatMul(ayes, ACCURACY) >= SatMul(quorum, total)
=============================================================================
