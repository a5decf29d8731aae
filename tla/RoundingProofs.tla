--------------------------- MODULE RoundingProofs ---------------------------
(***************************************************************************)
(* A policy's fraction against what the chain accepts: the rounding of     *)
(* perbill and the saturating comparison of meets_quorums.                 *)
(***************************************************************************)
EXTENDS QuorumRounding, VeriGovProofs

\* Multiplication keeps the order, strictly for a positive factor.
LEMMA TimesMonotone ==
    ASSUME NEW a \in Int, NEW b \in Int, NEW c \in Nat
    PROVE  /\ a <= b => a * c <= b * c
           /\ a < b /\ c > 0 => a * c < b * c
           /\ a * c <= b * c /\ c > 0 => a <= b
<1>1. PICK d \in Int : d = b - a
  OBVIOUS
<1>2. b * c = a * c + d * c /\ d * c \in Int /\ a * c \in Int
  BY <1>1
<1>3. (d >= 0 => d * c >= 0) /\ (d > 0 /\ c > 0 => d * c > 0) /\ (d < 0 /\ c > 0 => d * c < 0)
  BY <1>1
<1> QED
  BY <1>1, <1>2, <1>3

\* Products of three factors, in the orders the proofs need.
LEMMA Factors ==
    ASSUME NEW a \in Int, NEW b \in Int, NEW c \in Int
    PROVE  /\ a * b \in Int /\ a * b = b * a
           /\ (a * b) * c = (a * c) * b /\ (a * b) * c = (c * a) * b
  OBVIOUS

\* What perbill loses: less than one part.
LEMMA RoundedDown ==
    ASSUME NEW n \in Nat, NEW d \in Nat, d > 0
    PROVE  /\ PerbillOf(n, d) \in Nat
           /\ PerbillOf(n, d) * d <= ACCURACY * n
           /\ ACCURACY * n < PerbillOf(n, d) * d + d
<1>1. PICK x \in Nat : x = ACCURACY * n
  BY PerbillAssumption
<1>2. x \div d \in Int /\ (x \div d) * d <= x /\ x < (x \div d) * d + d
  OBVIOUS
<1>3. PICK q \in Int : q = x \div d /\ q * d <= x /\ x < q * d + d
  BY <1>2
<1>4. q >= 0
  <2>1. q < 0 => q * d <= -d
    OBVIOUS
  <2> QED
    BY <1>3, <2>1
<1> QED
  BY <1>1, <1>3, <1>4 DEF PerbillOf

\* A ratio that reaches the fraction meant is not refused.
LEMMA RatioAccepted ==
    ASSUME NEW d \in Nat, NEW n \in Nat, NEW t \in Nat, NEW a \in Nat,
           d > 0, t > 0, n * t <= a * d
    PROVE  RoundedQuorumMet(a, t, n, d)
<1>1. PICK q \in Nat : q = PerbillOf(n, d) /\ q * d <= ACCURACY * n
  BY RoundedDown
<1>2. PICK A \in Nat : A = ACCURACY
  BY PerbillAssumption
<1>3. (q * d) * t <= (A * n) * t
  BY <1>1, <1>2, TimesMonotone, Factors
<1>4. (n * t) * A <= (a * d) * A
  BY TimesMonotone, Factors
<1>5. (A * n) * t = (n * t) * A /\ (q * d) * t = (q * t) * d /\ (a * d) * A = (a * A) * d
  BY Factors
<1>6. PICK x \in Int, y \in Int : x = q * t /\ y = a * A
  BY Factors
<1>7. x * d <= y * d
  BY <1>3, <1>4, <1>5, <1>6, Factors
<1>8. x <= y
  BY <1>7, TimesMonotone
<1>9. AtMost(y, MaxU128) >= AtMost(x, MaxU128)
  BY <1>8, PerbillAssumption DEF AtMost
<1> QED
  BY <1>1, <1>2, <1>6, <1>9 DEF RoundedQuorumMet, RoleQuorumMet, SatMul

\* What is accepted falls short by less than one part.
LEMMA Shortfall ==
    ASSUME NEW d \in Nat, NEW n \in Nat, NEW t \in Nat, NEW a \in Nat,
           d > 0, n <= d, a <= t, t > 0, t * ACCURACY <= MaxU128, RoundedQuorumMet(a, t, n, d)
    PROVE  (n * t - a * d) * ACCURACY < d * t
<1>1. PICK q \in Nat : q = PerbillOf(n, d) /\ q * d <= ACCURACY * n
                       /\ ACCURACY * n < q * d + d
  BY RoundedDown
<1>2. PICK A \in Nat : A = ACCURACY
  BY PerbillAssumption
<1>3. q <= A
  <2>1. n * A <= d * A
    BY TimesMonotone
  <2>2. n * A = A * n /\ d * A = A * d /\ A * n \in Int /\ A * d \in Int /\ q * d \in Int
    BY Factors
  <2>3. q * d <= A * d
    BY <1>1, <1>2, <2>1, <2>2
  <2> QED
    BY <2>3, TimesMonotone
<1>4. PICK x \in Int, y \in Int : x = q * t /\ y = a * A
  BY Factors
<1>5. x <= MaxU128 /\ y <= MaxU128
  <2>1. t * A <= MaxU128 /\ t * A \in Int
    BY <1>2, Factors
  <2>2. q * t <= A * t /\ A * t = t * A
    BY <1>3, TimesMonotone, Factors
  <2>3. a * A <= t * A
    BY TimesMonotone
  <2> QED
    BY <1>4, <2>1, <2>2, <2>3, PerbillAssumption
<1>6. x <= y
  <2>1. AtMost(y, MaxU128) >= AtMost(x, MaxU128)
    BY <1>1, <1>2, <1>4 DEF RoundedQuorumMet, RoleQuorumMet, SatMul
  <2> QED
    BY <1>5, <2>1 DEF AtMost
<1>7. x * d <= y * d
  BY <1>6, TimesMonotone
<1>8. (A * n) * t < (q * d + d) * t
  <2>1. A * n \in Int /\ q * d + d \in Int /\ A * n < q * d + d /\ t > 0
    BY <1>1, <1>2, Factors
  <2> QED
    BY <2>1, TimesMonotone
<1>9. (A * n) * t = (n * t) * A /\ (q * d) * t = x * d /\ y * d = (a * d) * A
  BY <1>4, Factors
<1>10. (q * d + d) * t = (q * d) * t + d * t
  OBVIOUS
<1>11. (n * t - a * d) * A = (n * t) * A - (a * d) * A
  OBVIOUS
<1>12. (n * t - a * d) * A < d * t
  <2>1. PICK u \in Int, v \in Int, w \in Int, z \in Int :
          u = (n * t) * A /\ v = (a * d) * A /\ w = x * d /\ z = d * t
    OBVIOUS
  <2>2. w <= v /\ u < w + z
    BY <1>7, <1>8, <1>9, <1>10, <2>1
  <2> QED
    BY <1>11, <2>1, <2>2
<1> QED
  BY <1>2, <1>12

\* What TypeOK says of the numbers involved.
LEMMA RoundingTypes ==
    ASSUME TypeOK, NEW id \in DOMAIN projects, NEW r \in Role,
           NEW a \in 0..roleStake[id][r], NEW d \in 1..MaxDen, NEW n \in 0..d
    PROVE  /\ roleStake[id][r] \in Nat /\ a \in Nat /\ a <= roleStake[id][r]
           /\ d \in Nat /\ d > 0 /\ n \in Nat /\ n <= d
<1>1. id \in ProjectId
  BY VeriGovAssumption DEF TypeOK, ProjectId
<1>2. roleStake[id][r] \in Balance
  BY <1>1 DEF TypeOK
<1> QED
  BY <1>2, PerbillAssumption, QuorumRoundingAssumption DEF Balance

\* Whatever fraction a policy means and whatever slashes leave of a role's stake, for
\* every accuracy and every width of a balance: rounding down and saturation only
\* ever help the ayes.
THEOREM NeverRefused == Spec => []NoRatioRefused
<1>1. TypeOK => NoRatioRefused
  BY RoundingTypes, RatioAccepted DEF NoRatioRefused
<1> QED
  BY <1>1, TypeCorrect, PTL

\* They help by less than one part in ACCURACY of the role's stake.
THEOREM AlwaysShortByLess == Spec => []ShortfallBelowOnePart
<1>1. TypeOK => ShortfallBelowOnePart
  <2> SUFFICES ASSUME TypeOK, NEW id \in DOMAIN projects, NEW r \in Role,
                      NEW a \in 0..roleStake[id][r], NEW d \in 1..MaxDen, NEW n \in 0..d,
                      roleStake[id][r] * ACCURACY <= MaxU128,
                      RoundedQuorumMet(a, roleStake[id][r], n, d)
               PROVE  (n * roleStake[id][r] - a * d) * ACCURACY < d * roleStake[id][r]
    BY DEF ShortfallBelowOnePart
  <2>1. PICK t : t = roleStake[id][r]
    OBVIOUS
  <2>2. t \in Nat /\ a \in Nat /\ a <= t /\ d \in Nat /\ d > 0 /\ n \in Nat /\ n <= d
    BY <2>1, RoundingTypes
  <2>3. t > 0
    BY <2>1, <2>2 DEF RoundedQuorumMet, RoleQuorumMet
  <2> QED
    BY <2>1, <2>2, <2>3, Shortfall
<1> QED
  BY <1>1, TypeCorrect, PTL
=============================================================================
