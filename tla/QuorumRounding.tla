--------------------------- MODULE QuorumRounding ---------------------------
(***************************************************************************)
(* A policy says `num` of `den`; the tools hand the pallet the Perbill     *)
(* fraction rounded down, and meets_quorums compares by saturating cross-  *)
(* multiplication.  What does the rounded quorum accept compared with the  *)
(* fraction that was meant, with the stakes the pallet has on record?      *)
(***************************************************************************)
EXTENDS VeriGov

CONSTANT MaxDen             \* bound: denominators of policies

ASSUME QuorumRoundingAssumption == MaxDen \in Nat

\* Mutant: rounds up.
PerbillCeil(n, d) == (ACCURACY * n + d - 1) \div d

\* Mutant: divides first.
PerbillDividedFirst(n, d) == (ACCURACY \div d) * n

\* perbill of the tools.  They divide doubles and round down, which is this as long as
\* ACCURACY * n < 2^53: the quotient can not round up to the next integer.
PerbillOf(n, d) == (ACCURACY * n) \div d

\* The quorum as the pallet decides it when the policy means num of den.
RoundedQuorumMet(ayes, total, num, den) == RoleQuorumMet(ayes, total, PerbillOf(num, den))

\* Rounding and saturation never refuse a role whose aye stake reaches the fraction
\* that was meant, not even when it reaches it exactly: for every role of a project
\* with what slashes have left of its stake, and every part of it that votes aye.
NoRatioRefused ==
    \A id \in DOMAIN projects, r \in Role : \A ayes \in 0..roleStake[id][r] :
        \A den \in 1..MaxDen : \A num \in 0..den :
            roleStake[id][r] > 0 /\ ayes * den >= num * roleStake[id][r]
            => RoundedQuorumMet(ayes, roleStake[id][r], num, den)

\* What is accepted falls short of the fraction that was meant by less than one
\* part in ACCURACY of the role's stake, as long as that stake leaves room for the
\* product in a u128.
ShortfallBelowOnePart ==
    \A id \in DOMAIN projects, r \in Role : \A ayes \in 0..roleStake[id][r] :
        \A den \in 1..MaxDen : \A num \in 0..den :
            /\ roleStake[id][r] * ACCURACY <= MaxU128
            /\ RoundedQuorumMet(ayes, roleStake[id][r], num, den)
            => (num * roleStake[id][r] - ayes * den) * ACCURACY < den * roleStake[id][r]
=============================================================================
