--------------------------- MODULE DivisionLemmas ---------------------------
(***************************************************************************)
(* Quotients, remainders and products of naturals: what the ranges of the  *)
(* threads (Partition), the layout of the slots (Packing), the numbers of  *)
(* the dummies (Padding) and the places of a session (Session) rest on.    *)
(***************************************************************************)
EXTENDS Integers, TLAPS

\* Division with remainder.
LEMMA DivMod ==
    ASSUME NEW n \in Nat, NEW d \in Nat \ {0}
    PROVE  /\ n \div d \in Nat /\ n % d \in Nat
           /\ n % d < d
           /\ n = d * (n \div d) + (n % d)
OBVIOUS

\* Quotient and remainder are unique.
LEMMA DivModUnique ==
    ASSUME NEW n \in Nat, NEW d \in Nat \ {0}, NEW q \in Nat, NEW w \in Nat,
           w < d, n = d * q + w
    PROVE  n \div d = q /\ n % d = w
OBVIOUS

\* Products are monotonic.
LEMMA MulMono ==
    ASSUME NEW a \in Nat, NEW b \in Nat, NEW k \in Nat, a <= b
    PROVE  a * k <= b * k
OBVIOUS

\* How quotient and remainder move to the next number.
LEMMA NextDivMod ==
    ASSUME NEW n \in Nat, NEW d \in Nat \ {0}
    PROVE  IF (n % d) + 1 = d
             THEN (n + 1) % d = 0 /\ (n + 1) \div d = n \div d + 1
             ELSE (n + 1) % d = (n % d) + 1 /\ (n + 1) \div d = n \div d
<1>1. n \div d \in Nat /\ n % d \in Nat /\ n % d < d /\ n = d * (n \div d) + (n % d)
  BY DivMod
<1>2. d * (n \div d + 1) = d * (n \div d) + d
  BY <1>1
<1>3. CASE (n % d) + 1 = d
  <2>1. n + 1 = d * (n \div d + 1) + 0
    BY <1>1, <1>2, <1>3
  <2>2. n + 1 \in Nat /\ n \div d + 1 \in Nat /\ 0 \in Nat /\ 0 < d
    BY <1>1
  <2>3. (n + 1) \div d = n \div d + 1 /\ (n + 1) % d = 0
    BY <2>1, <2>2, DivModUnique
  <2> QED
    BY <1>3, <2>3
<1>4. CASE (n % d) + 1 # d
  <2>1. n + 1 = d * (n \div d) + ((n % d) + 1) /\ (n % d) + 1 < d
    BY <1>1, <1>4
  <2>2. n + 1 \in Nat /\ n \div d \in Nat /\ (n % d) + 1 \in Nat
    BY <1>1
  <2>3. (n + 1) \div d = n \div d /\ (n + 1) % d = (n % d) + 1
    BY <2>1, <2>2, DivModUnique
  <2> QED
    BY <1>4, <2>3
<1> QED
  BY <1>3, <1>4

\* Different numbers less than d apart have different remainders.
LEMMA ModInjective ==
    ASSUME NEW d \in Nat \ {0}, NEW a \in Nat, NEW b \in Nat, a < b, b - a < d
    PROVE  a % d # b % d
<1> DEFINE q == a \div d
           u == b \div d
<1> SUFFICES ASSUME a % d = b % d PROVE FALSE
  OBVIOUS
<1>1. /\ q \in Nat /\ u \in Nat
      /\ a % d \in Nat
      /\ a = d * q + (a % d) /\ b = d * u + (a % d)
  BY DivMod
<1> HIDE DEF q, u
<1>2. d * q \in Nat /\ d * u \in Nat /\ d * q < d * u /\ d * u < d * q + d
  BY <1>1
<1>3. CASE u <= q
  <2>1. u * d <= q * d /\ u * d = d * u /\ q * d = d * q
    BY <1>1, <1>3, MulMono
  <2> QED
    BY <1>2, <2>1
<1>4. CASE q + 1 <= u
  <2>1. (q + 1) * d <= u * d /\ u * d = d * u /\ (q + 1) * d = d * q + d
    BY <1>1, <1>4, MulMono
  <2> QED
    BY <1>2, <2>1
<1> QED
  BY <1>1, <1>3, <1>4
=============================================================================
