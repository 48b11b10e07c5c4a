---------------------------- MODULE Kernel_proofs ----------------------------
(***************************************************************************)
(* Reconstruction and matching, for every modulus, every number of shares  *)
(* and every value that a polynomial takes off the points; and that the    *)
(* extended Euclidean algorithm finds the inverses they need.              *)
(***************************************************************************)
EXTENDS Kernel, DivisionLemmas, WellFoundedInduction

\* Congruence modulo M.
Cong(a, b, M) == \E k \in Int : a = b + M * k

\* Division with remainder, of an integer.
LEMMA IntDivMod ==
    ASSUME NEW n \in Int, NEW d \in Nat \ {0}
    PROVE  /\ n \div d \in Int /\ n % d \in Nat /\ n % d < d
           /\ n = d * (n \div d) + (n % d)
OBVIOUS

LEMMA IntDivModUnique ==
    ASSUME NEW n \in Int, NEW d \in Nat \ {0}, NEW q \in Int, NEW w \in Nat,
           w < d, n = d * q + w
    PROVE  n % d = w
OBVIOUS

\* A remainder is congruent to its number.
LEMMA CongRemainder ==
    ASSUME NEW a \in Int, NEW M \in Nat \ {0}
    PROVE  Cong(a % M, a, M) /\ Cong(a, a % M, M)
<1>1. a \div M \in Int /\ a % M \in Int /\ a = M * (a \div M) + (a % M)
  BY IntDivMod
<1>2. a = (a % M) + M * (a \div M)
  BY <1>1
<1>3. M * (-(a \div M)) = -(M * (a \div M)) /\ -(a \div M) \in Int
  BY <1>1
<1>4. a % M = a + M * (-(a \div M))
  BY <1>1, <1>2, <1>3
<1> QED
  BY <1>1, <1>2, <1>3, <1>4 DEF Cong

\* Congruent numbers have the same remainder.
LEMMA CongSameRemainder ==
    ASSUME NEW a \in Int, NEW b \in Int, NEW M \in Nat \ {0}, Cong(a, b, M)
    PROVE  a % M = b % M
<1>1. PICK k \in Int : a = b + M * k
  BY DEF Cong
<1>2. b \div M \in Int /\ b % M \in Nat /\ b % M < M /\ b = M * (b \div M) + (b % M)
  BY IntDivMod
<1>3. b \div M + k \in Int /\ M * (b \div M + k) = M * (b \div M) + M * k
  BY <1>2
<1>4. a = M * (b \div M + k) + (b % M)
  BY <1>1, <1>2, <1>3
<1> QED
  BY <1>2, <1>3, <1>4, IntDivModUnique

LEMMA CongReflexive ==
    ASSUME NEW a \in Int, NEW M \in Nat \ {0}
    PROVE  Cong(a, a, M)
<1>1. a = a + M * 0
  OBVIOUS
<1> QED
  BY <1>1 DEF Cong

LEMMA CongSymTrans ==
    ASSUME NEW a \in Int, NEW b \in Int, NEW c \in Int, NEW M \in Nat \ {0}, Cong(a, b, M)
    PROVE  Cong(b, a, M) /\ (Cong(b, c, M) => Cong(a, c, M))
<1>1. PICK k \in Int : a = b + M * k
  BY DEF Cong
<1>2. Cong(b, a, M)
  <2>1. -k \in Int /\ M * (-k) = -(M * k) /\ M * k \in Int
    BY <1>1
  <2>2. b = a + M * (-k)
    BY <1>1, <2>1
  <2> QED
    BY <2>1, <2>2 DEF Cong
<1>3. ASSUME Cong(b, c, M) PROVE Cong(a, c, M)
  <2>1. PICK l \in Int : b = c + M * l
    BY <1>3 DEF Cong
  <2>2. k + l \in Int /\ M * (k + l) = M * k + M * l
    BY <1>1, <2>1
  <2>3. a = c + M * (k + l)
    BY <1>1, <2>1, <2>2
  <2> QED
    BY <2>2, <2>3 DEF Cong
<1> QED
  BY <1>2, <1>3

LEMMA CongSumDiff ==
    ASSUME NEW a \in Int, NEW b \in Int, NEW c \in Int, NEW d \in Int, NEW M \in Nat \ {0},
           Cong(a, b, M), Cong(c, d, M)
    PROVE  Cong(a + c, b + d, M) /\ Cong(a + M - c, b - d, M)
<1>1. PICK k \in Int : a = b + M * k
  BY DEF Cong
<1>2. PICK l \in Int : c = d + M * l
  BY DEF Cong
<1>3. /\ k + l \in Int /\ M * (k + l) = M * k + M * l
      /\ k + 1 - l \in Int /\ M * (k + 1 - l) = M * k + M - M * l
      /\ M * k \in Int /\ M * l \in Int
  BY <1>1, <1>2
<1>4. a + c = (b + d) + M * (k + l)
  BY <1>1, <1>2, <1>3
<1>5. a + M - c = (b - d) + M * (k + 1 - l)
  BY <1>1, <1>2, <1>3
<1> QED
  BY <1>3, <1>4, <1>5 DEF Cong

LEMMA CongDiff ==
    ASSUME NEW a \in Int, NEW b \in Int, NEW c \in Int, NEW d \in Int, NEW M \in Nat \ {0},
           Cong(a, b, M), Cong(c, d, M)
    PROVE  Cong(a - c, b - d, M)
<1>1. PICK k \in Int : a = b + M * k
  BY DEF Cong
<1>2. PICK l \in Int : c = d + M * l
  BY DEF Cong
<1>3. k - l \in Int /\ M * (k - l) = M * k - M * l /\ M * k \in Int /\ M * l \in Int
  BY <1>1, <1>2
<1>4. a - c = (b - d) + M * (k - l)
  BY <1>1, <1>2, <1>3
<1> QED
  BY <1>3, <1>4 DEF Cong

LEMMA CongProduct ==
    ASSUME NEW a \in Int, NEW b \in Int, NEW c \in Int, NEW d \in Int, NEW M \in Nat \ {0},
           Cong(a, b, M), Cong(c, d, M)
    PROVE  Cong(a * c, b * d, M)
<1>1. PICK k \in Int : a = b + M * k
  BY DEF Cong
<1>2. PICK l \in Int : c = d + M * l
  BY DEF Cong
<1> DEFINE e == k * d + b * l + k * (M * l)
<1>3. e \in Int
  BY <1>1, <1>2
<1>4. a * c = (b + M * k) * (d + M * l)
  BY <1>1, <1>2
<1>5. (b + M * k) * (d + M * l) = b * d + M * e
  BY <1>1, <1>2
<1> QED
  BY <1>3, <1>4, <1>5 DEF Cong

LEMMA CongZero ==
    ASSUME NEW a \in Int, NEW e \in Int, NEW M \in Nat \ {0}, Cong(a, 0, M)
    PROVE  Cong(a * e, 0, M)
<1>1. PICK k \in Int : a = 0 + M * k
  BY DEF Cong
<1>2. k * e \in Int /\ (M * k) * e = M * (k * e)
  BY <1>1
<1>3. a * e = 0 + M * (k * e)
  BY <1>1, <1>2
<1> QED
  BY <1>2, <1>3 DEF Cong

LEMMA ProductAssociative ==
    ASSUME NEW a \in Int, NEW b \in Int, NEW c \in Int
    PROVE  (a * b) * c = a * (b * c)
OBVIOUS

----------------------------------------------------------------------------

\* A number that inverts the difference of two positions.
Inverts(w, i, j, M) == w \in Int /\ (w * (j - i)) % M = 1

\* What repK2 computes, in one congruence.
LEMMA Interpolates ==
    ASSUME NEW M \in Nat \ {0}, NEW inverses, NEW i \in Positions, NEW j \in Positions,
           NEW a \in Int, NEW b \in Int,
           smallDiffInverse(inverses, j - i, M) \in Int
    PROVE  LET z == repK2(inverses, i, j, a, b, M) IN
           /\ z \in 0 .. M - 1
           /\ Cong(z, (a * j - b * i) * smallDiffInverse(inverses, j - i, M), M)
<1> DEFINE w == smallDiffInverse(inverses, j - i, M)
           p == ((a % M) * (j % M)) % M
           q == ((b % M) * (i % M)) % M
           d == (p + M - q) % M
<1>1. i \in Int /\ j \in Int /\ w \in Int
  BY inNOK DEF Positions
<1>2. /\ a % M \in Int /\ b % M \in Int /\ i % M \in Int /\ j % M \in Int
      /\ (a % M) * (j % M) \in Int /\ (b % M) * (i % M) \in Int
      /\ p \in Int /\ q \in Int /\ a * j \in Int /\ b * i \in Int
  BY <1>1, IntDivMod
<1>3. Cong(p, a * j, M) /\ Cong(q, b * i, M)
  <2>1. Cong(a % M, a, M) /\ Cong(b % M, b, M) /\ Cong(i % M, i, M) /\ Cong(j % M, j, M)
    BY <1>1, CongRemainder
  <2>2. Cong((a % M) * (j % M), a * j, M) /\ Cong((b % M) * (i % M), b * i, M)
    BY <1>1, <1>2, <2>1, CongProduct
  <2>3. Cong(p, (a % M) * (j % M), M) /\ Cong(q, (b % M) * (i % M), M)
    BY <1>2, CongRemainder
  <2> QED
    BY <1>2, <2>2, <2>3, CongSymTrans
<1> HIDE DEF p, q, w
<1>4. d \in Int /\ p + M - q \in Int /\ a * j - b * i \in Int
  BY <1>2, IntDivMod
<1>5. Cong(d, a * j - b * i, M)
  <2>1. Cong(p + M - q, a * j - b * i, M)
    BY <1>2, <1>3, CongSumDiff
  <2>2. Cong(d, p + M - q, M)
    BY <1>4, CongRemainder
  <2> QED
    BY <1>4, <2>1, <2>2, CongSymTrans
<1> HIDE DEF d
<1>6. d * w \in Int /\ (a * j - b * i) * w \in Int
  BY <1>1, <1>4
<1>7. Cong(d * w, (a * j - b * i) * w, M)
  <2>1. Cong(w, w, M)
    BY <1>1, CongReflexive
  <2> QED
    BY <1>1, <1>4, <1>5, <2>1, CongProduct
<1>8. (d * w) % M \in 0 .. M - 1 /\ Cong((d * w) % M, d * w, M)
  <2>1. (d * w) % M \in Nat /\ (d * w) % M < M
    BY <1>6, IntDivMod
  <2>2. Cong((d * w) % M, d * w, M)
    BY <1>6, CongRemainder
  <2> QED
    BY <2>1, <2>2
<1>9. Cong((d * w) % M, (a * j - b * i) * w, M)
  BY <1>6, <1>7, <1>8, CongSymTrans
<1>10. repK2(inverses, i, j, a, b, M) = (d * w) % M
  BY DEF repK2, d, p, q, w
<1> QED
  BY <1>8, <1>9, <1>10 DEF w

\* Two points on lines of secrets s and t with slopes c and d.
LEMMA InterpolatesShares ==
    ASSUME NEW M \in Nat \ {0}, NEW inverses, NEW i \in Positions, NEW j \in Positions,
           NEW s \in Int, NEW c \in Int, NEW t \in Int, NEW d \in Int,
           smallDiffInverse(inverses, j - i, M) \in Int
    PROVE  LET w == smallDiffInverse(inverses, j - i, M)
               z == repK2(inverses, i, j, (s + c * i) % M, (t + d * j) % M, M)
           IN z \in 0 .. M - 1 /\ Cong(z, ((s + c * i) * j - (t + d * j) * i) * w, M)
<1> DEFINE w == smallDiffInverse(inverses, j - i, M)
           u == s + c * i
           v == t + d * j
           a == u % M
           b == v % M
           z == repK2(inverses, i, j, a, b, M)
<1>1. /\ i \in Int /\ j \in Int /\ w \in Int
      /\ u \in Int /\ v \in Int
  BY inNOK DEF Positions
<1> HIDE DEF u, v
<1>2. a \in Int /\ b \in Int /\ Cong(a, u, M) /\ Cong(b, v, M)
  <2>1. a \in Nat /\ b \in Nat
    BY <1>1, IntDivMod
  <2>2. Cong(a, u, M) /\ Cong(b, v, M)
    BY <1>1, CongRemainder
  <2> QED
    BY <2>1, <2>2
<1>3. z \in 0 .. M - 1 /\ Cong(z, (a * j - b * i) * w, M)
  BY <1>1, <1>2, Interpolates
<1> HIDE DEF w, a, b, z
<1>4. /\ a * j \in Int /\ b * i \in Int /\ u * j \in Int /\ v * i \in Int
      /\ a * j - b * i \in Int /\ u * j - v * i \in Int
  BY <1>1, <1>2
<1>5. Cong(i, i, M) /\ Cong(j, j, M) /\ Cong(w, w, M)
  BY <1>1, CongReflexive
<1>6. Cong(a * j, u * j, M) /\ Cong(b * i, v * i, M)
  BY <1>1, <1>2, <1>5, CongProduct
<1>7. Cong(a * j - b * i, u * j - v * i, M)
  BY <1>4, <1>6, CongDiff
<1>8. Cong((a * j - b * i) * w, (u * j - v * i) * w, M)
  BY <1>1, <1>4, <1>5, <1>7, CongProduct
<1>9. (a * j - b * i) * w \in Int /\ (u * j - v * i) * w \in Int /\ z \in Int
  BY <1>1, <1>3, <1>4
<1>10. Cong(z, (u * j - v * i) * w, M)
  BY <1>3, <1>8, <1>9, CongSymTrans
<1> QED
  BY <1>3, <1>10 DEF w, a, b, u, v, z

\* Two shares of one sharing give its secret, whatever the slope: repK2 and the
\* table of inverses against createSecretShares.
THEOREM SharesReconstruct ==
    ASSUME NEW M \in Nat \ {0}, NEW inverses, NEW i \in Positions, NEW j \in Positions,
           NEW sharing, sharing.secret \in Int, sharing.coef \in Int,
           Inverts(smallDiffInverse(inverses, j - i, M), i, j, M)
    PROVE  LET y == createSecretShares(sharing, M)
           IN repK2(inverses, i, j, y[i], y[j], M) = sharing.secret % M
<1> DEFINE w == smallDiffInverse(inverses, j - i, M)
           s == sharing.secret
           c == sharing.coef
           z == repK2(inverses, i, j, (s + c * i) % M, (s + c * j) % M, M)
<1>1. i \in Int /\ j \in Int /\ w \in Int /\ s \in Int /\ c \in Int
  BY inNOK DEF Positions, Inverts
<1>2. z \in 0 .. M - 1 /\ Cong(z, ((s + c * i) * j - (s + c * j) * i) * w, M)
  BY <1>1, InterpolatesShares
<1>3. (w * (j - i)) % M = 1
  BY DEF Inverts
<1> HIDE DEF w, s, c, z
<1>4. ((s + c * i) * j - (s + c * j) * i) * w = s * (w * (j - i))
  <2>1. (s + c * i) * j = s * j + c * i * j /\ (s + c * j) * i = s * i + c * i * j
    BY <1>1
  <2>2. (s + c * i) * j - (s + c * j) * i = s * j - s * i
    BY <1>1, <2>1
  <2>3. (s * j - s * i) * w = s * (w * (j - i))
    BY <1>1
  <2> QED
    BY <2>2, <2>3
<1>5. w * (j - i) \in Int /\ s * (w * (j - i)) \in Int /\ s * 1 = s
  BY <1>1
<1>6. Cong(w * (j - i), 1, M)
  BY <1>3, <1>5, CongRemainder
<1>7. Cong(s * (w * (j - i)), s * 1, M)
  BY <1>1, <1>5, <1>6, CongReflexive, CongProduct
<1>8. Cong(z, s, M)
  BY <1>1, <1>2, <1>4, <1>5, <1>7, CongSymTrans
<1>9. z = s % M
  <2>1. z % M = s % M
    BY <1>1, <1>2, <1>8, CongSameRemainder
  <2>2. z % M = z
    BY <1>2
  <2> QED
    BY <2>1, <2>2
<1>10. z = repK2(inverses, i, j, createSecretShares(sharing, M)[i],
                 createSecretShares(sharing, M)[j], M)
  BY DEF z, s, c, createSecretShares
<1> QED
  BY <1>9, <1>10 DEF s

\* Two points of different rows have the token exactly if the two random slopes
\* agree: the coincidence that a token round can miss, one of M slopes.
THEOREM ForeignPairsNeedEqualSlopes ==
    ASSUME NEW M \in Nat \ {0}, NEW inverses, NEW i \in Positions, NEW j \in Positions,
           NEW c \in Int, NEW d \in Int, NEW v \in Int,
           Inverts(smallDiffInverse(inverses, j - i, M), i, j, M),
           (v * (i * j)) % M = 1
    PROVE  repK2(inverses, i, j,
                 createSecretShares([secret |-> token, coef |-> c], M)[i],
                 createSecretShares([secret |-> token, coef |-> d], M)[j], M) = token
             <=> c % M = d % M
<1> DEFINE w == smallDiffInverse(inverses, j - i, M)
           z == repK2(inverses, i, j, (token + c * i) % M, (token + d * j) % M, M)
           e == w * (i * j)
           f == (w * (j - i)) * (v * (i * j))
<1>1. i \in Int /\ j \in Int /\ w \in Int
  BY inNOK DEF Positions, Inverts
<1>2. z \in 0 .. M - 1 /\ Cong(z, ((token + c * i) * j - (token + d * j) * i) * w, M)
  <2>1. token \in Int
    BY DEF token
  <2> QED
    BY <1>1, <2>1, InterpolatesShares
<1>3. (w * (j - i)) % M = 1
  BY DEF Inverts
<1>4. z = repK2(inverses, i, j,
                createSecretShares([secret |-> token, coef |-> c], M)[i],
                createSecretShares([secret |-> token, coef |-> d], M)[j], M)
  BY DEF createSecretShares
<1> HIDE DEF w, z
<1>5. e \in Int /\ f \in Int /\ w * (j - i) \in Int /\ v * (i * j) \in Int
  BY <1>1
<1>6. ((token + c * i) * j - (token + d * j) * i) * w = (c - d) * e
  <2>1. (token + c * i) * j - (token + d * j) * i = (c - d) * (i * j)
    BY <1>1 DEF token
  <2>2. ((c - d) * (i * j)) * w = (c - d) * e
    BY <1>1
  <2> QED
    BY <2>1, <2>2
<1>7. Cong(f, 1, M)
  <2>1. Cong(w * (j - i), 1, M) /\ Cong(v * (i * j), 1, M)
    BY <1>3, <1>5, CongRemainder
  <2>2. Cong((w * (j - i)) * (v * (i * j)), 1 * 1, M)
    BY <1>5, <2>1, CongProduct
  <2> QED
    BY <2>2
<1>8. e * ((j - i) * v) = f /\ (j - i) * v \in Int
  BY <1>1
<1> HIDE DEF e, f
<1>9. Cong(z, (c - d) * e, M) /\ z \in Int /\ c - d \in Int /\ (c - d) * e \in Int
  BY <1>2, <1>5, <1>6
<1>10. ASSUME z = 0 PROVE c % M = d % M
  <2>1. Cong((c - d) * e, 0, M)
    BY <1>9, <1>10, CongSymTrans
  <2>2. Cong(((c - d) * e) * ((j - i) * v), 0, M)
    BY <1>8, <1>9, <2>1, CongZero
  <2>3. ((c - d) * e) * ((j - i) * v) = (c - d) * f
    BY <1>5, <1>8, <1>9, ProductAssociative
  <2>4. Cong((c - d) * f, (c - d) * 1, M) /\ (c - d) * f \in Int
    BY <1>5, <1>7, <1>9, CongReflexive, CongProduct
  <2>5. (c - d) * 1 = c - d
    BY <1>9
  <2>6. Cong(c - d, 0, M)
    BY <1>9, <2>2, <2>3, <2>4, <2>5, CongSymTrans
  <2>7. Cong((c - d) + d, 0 + d, M)
    BY <1>9, <2>6, CongReflexive, CongSumDiff
  <2>8. (c - d) + d = c /\ 0 + d = d
    OBVIOUS
  <2> QED
    BY <2>7, <2>8, CongSameRemainder
<1>11. ASSUME c % M = d % M PROVE z = 0
  <2>1. Cong(c, c % M, M) /\ Cong(d % M, d, M)
    BY CongRemainder
  <2> c % M \in Int
    BY IntDivMod
  <2>2. Cong(c, d, M)
    BY <1>11, <2>1, CongSymTrans
  <2>3. Cong(c - d, d - d, M)
    BY <2>2, CongReflexive, CongDiff
  <2>4. Cong(c - d, 0, M)
    BY <2>3
  <2>5. Cong((c - d) * e, 0, M)
    BY <1>5, <1>9, <2>4, CongZero
  <2>7. Cong(z, 0, M)
    BY <1>9, <2>5, CongSymTrans
  <2>8. z % M = 0 % M
    BY <1>9, <2>7, CongSameRemainder
  <2>9. z % M = z /\ 0 % M = 0
    BY <1>2
  <2> QED
    BY <2>8, <2>9
<1> QED
  BY <1>4, <1>10, <1>11 DEF token

----------------------------------------------------------------------------

\* The query meets row k of the partition at position i and no earlier row.
Meets(part, x, query, k, i) ==
    /\ k \in Hits(part, x, query, i)
    /\ \A l \in Hits(part, x, query, i) : k <= l

\* There the interpolated polynomials give the shares of the row's id.
LEMMA OwnShare ==
    ASSUME NEW M, NEW part, NEW x, NEW map, NEW query, NEW elsewhere,
           DOMAIN part \subseteq Nat, NEW k \in DOMAIN part, NEW i \in Positions,
           Meets(part, x, query, k, i)
    PROVE  evalPartition(part, x, map, query, elsewhere, M)[i]
             = createSecretShares(map[part[k]], M)[i]
<1>1. Hits(part, x, query, i) \subseteq Nat
  BY DEF Hits
<1>2. First(Hits(part, x, query, i)) = k
  BY <1>1 DEF First, Meets
<1>3. Hits(part, x, query, i) # {}
  BY DEF Meets
<1> QED
  BY <1>2, <1>3 DEF evalPartition

LEMMA OwnPairReconstructs ==
    ASSUME NEW M \in Nat \ {0}, NEW inverses, NEW part, NEW x, NEW map, NEW query,
           NEW elsewhere, DOMAIN part \subseteq Nat, NEW k \in DOMAIN part,
           NEW i \in Positions, NEW j \in Positions,
           Meets(part, x, query, k, i), Meets(part, x, query, k, j),
           NEW sharing, map[part[k]] = sharing,
           sharing.secret \in Int, sharing.coef \in Int,
           Inverts(smallDiffInverse(inverses, j - i, M), i, j, M)
    PROVE  LET row == evalPartition(part, x, map, query, elsewhere, M)
           IN repK2(inverses, i, j, row[i], row[j], M) = sharing.secret % M
<1> DEFINE row == evalPartition(part, x, map, query, elsewhere, M)
<1>1. /\ row[i] = createSecretShares(sharing, M)[i]
      /\ row[j] = createSecretShares(sharing, M)[j]
  BY OwnShare
<1> HIDE DEF row
<1>2. repK2(inverses, i, j, createSecretShares(sharing, M)[i],
            createSecretShares(sharing, M)[j], M) = sharing.secret % M
  BY SharesReconstruct
<1> QED
  BY <1>1, <1>2 DEF row

\* An id that a query meets at two positions is found there in every round,
\* whatever the slope of the round and the values at the other positions.
THEOREM MatchIsFound ==
    ASSUME NEW M \in Nat \ {0}, NEW inverses, NEW part, NEW x, NEW map, NEW query,
           NEW elsewhere, DOMAIN part \subseteq Nat, NEW k \in DOMAIN part,
           NEW i \in Positions, NEW j \in Positions, i < j,
           Meets(part, x, query, k, i), Meets(part, x, query, k, j),
           NEW sharing, map[part[k]] = sharing,
           sharing.secret = token, sharing.coef \in Int,
           Inverts(smallDiffInverse(inverses, j - i, M), i, j, M)
    PROVE  <<i, j>> \in checkPartitionPairs(inverses,
                          evalPartition(part, x, map, query, elsewhere, M), M)
<1> DEFINE row == evalPartition(part, x, map, query, elsewhere, M)
<1>1. sharing.secret \in Int
  BY DEF token
<1>2. repK2(inverses, i, j, row[i], row[j], M) = sharing.secret % M
  BY <1>1, OwnPairReconstructs
<1>3. token % M = token
  BY DEF token
<1> QED
  BY <1>2, <1>3 DEF checkPartitionPairs, Pairs

\* ... and wherever that pair is used, the id's label is recovered.
THEOREM MatchIsLabelled ==
    ASSUME NEW M \in Nat \ {0}, NEW inverses, NEW part, NEW x, NEW map, NEW query,
           NEW elsewhere, DOMAIN part \subseteq Nat, NEW k \in DOMAIN part,
           NEW i \in Positions, NEW j \in Positions, i < j,
           Meets(part, x, query, k, i), Meets(part, x, query, k, j),
           NEW sharing, map[part[k]] = sharing,
           sharing.secret \in Int, sharing.coef \in Int,
           Inverts(smallDiffInverse(inverses, j - i, M), i, j, M)
    PROVE  \A valid_pairs : <<i, j>> \in valid_pairs =>
              sharing.secret % M \in reconstructFromPairs(inverses, valid_pairs,
                            evalPartition(part, x, map, query, elsewhere, M), M)
<1> DEFINE row == evalPartition(part, x, map, query, elsewhere, M)
<1>1. repK2(inverses, i, j, row[i], row[j], M) = sharing.secret % M
  BY OwnPairReconstructs
<1> QED
  BY <1>1 DEF reconstructFromPairs

\* A pair that every round finds is verified; one more round accepts no more.
LEMMA VerifiedIsEveryRound ==
    ASSUME NEW n \in Nat \ {0}, NEW rounds, DOMAIN rounds = 1 .. n
    PROVE  /\ findVerifiedPairs(rounds) = {p \in UNION {rounds[t] : t \in 1 .. n} :
                                             \A t \in 1 .. n : p \in rounds[t]}
           /\ \A more : DOMAIN more = 1 .. n + 1 /\ (\A t \in 1 .. n : more[t] = rounds[t])
                          => findVerifiedPairs(more) \subseteq findVerifiedPairs(rounds)
<1>1. 1 \in 1 .. n /\ 1 .. n \subseteq 1 .. n + 1
  OBVIOUS
<1> QED
  BY <1>1 DEF findVerifiedPairs

----------------------------------------------------------------------------
\* The smallest of a set of numbers.
Less == {ss \in Nat \X Nat : ss[1] < ss[2]}
LEMMA LeastOf ==
    ASSUME NEW S, S \subseteq Nat, S # {}
    PROVE  First(S) \in S /\ \A k \in S : First(S) <= k
<1>1. IsWellFoundedOn(Less, Nat)
  BY NatLessThanWellFounded DEF OpToRel, Less
<1>2. PICK m \in S : \A k \in S : <<k, m>> \notin Less
  BY <1>1, WFMin
<1>3. ASSUME NEW k \in S PROVE m <= k
  <2>1. ~(k < m)
    BY <1>2, <1>3 DEF Less
  <2>2. k \in Nat /\ m \in Nat
    OBVIOUS
  <2> QED
    BY <2>1, <2>2
<1> QED
  BY <1>3 DEF First

----------------------------------------------------------------------------
(* The extended Euclidean algorithm.                                        *)

EuclidStates == Nat \X Nat \X Int \X Int
Turned(F, s) == IF s[2] = 0 THEN s[3] ELSE F[EuclidTurn(s)]

\* A turn leaves a smaller remainder.
LEMMA TurnIsSmaller ==
    ASSUME NEW s \in EuclidStates, s[2] # 0
    PROVE  /\ EuclidTurn(s) \in EuclidStates
           /\ EuclidTurn(s)[2] \in Nat /\ EuclidTurn(s)[2] < s[2]
<1>1. s[1] \in Nat /\ s[2] \in Nat \ {0} /\ s[3] \in Int /\ s[4] \in Int
  BY DEF EuclidStates
<1>2. /\ s[1] \div s[2] \in Nat /\ s[1] % s[2] \in Nat /\ s[1] % s[2] < s[2]
  BY <1>1, DivMod
<1>3. s[3] - (s[1] \div s[2]) * s[4] \in Int
  BY <1>1, <1>2
<1> QED
  BY <1>1, <1>2, <1>3 DEF EuclidTurn, EuclidStates

\* F is what the algorithm computes from remainders below n.
Approximates(F, n) ==
    \A s \in EuclidStates : s[2] < n => F[s] = Turned(F, s)

\* There is such an F for every n, and any two of them agree.
LEMMA ApproximationsExist ==
    ASSUME NEW n \in Nat PROVE \E F : Approximates(F, n)
<1> DEFINE Bad == {k \in Nat : ~ \E F : Approximates(F, k)}
<1>1. SUFFICES ASSUME Bad # {} PROVE FALSE
  OBVIOUS
<1>2. PICK k \in Bad : \A l \in Bad : k <= l
  BY <1>1, LeastOf
<1>3. CASE k = 0
  <2>1. \A s \in EuclidStates : ~(s[2] < 0)
    BY DEF EuclidStates
  <2>2. Approximates([s \in EuclidStates |-> 0], 0)
    BY <2>1 DEF Approximates
  <2> QED
    BY <1>2, <1>3, <2>2
<1>4. CASE k # 0
  <2>1. k - 1 \in Nat /\ k - 1 \notin Bad
    <3>1. k \in Nat
      OBVIOUS
    <3> QED
      BY <1>2, <1>4, <3>1
  <2>2. PICK F : Approximates(F, k - 1)
    BY <2>1
  <2> DEFINE G == [s \in EuclidStates |-> Turned(F, s)]
  <2>3. ASSUME NEW s \in EuclidStates, s[2] < k
        PROVE  G[s] = Turned(G, s)
    <3>1. CASE s[2] = 0
      BY <3>1 DEF Turned
    <3>2. CASE s[2] # 0
      <4>1. /\ EuclidTurn(s) \in EuclidStates
            /\ EuclidTurn(s)[2] \in Nat /\ EuclidTurn(s)[2] < s[2]
        BY <3>2, TurnIsSmaller
      <4>2. s[2] \in Nat /\ k \in Nat
        BY DEF EuclidStates
      <4>3. EuclidTurn(s)[2] < k - 1
        BY <2>3, <4>1, <4>2
      <4>4. F[EuclidTurn(s)] = Turned(F, EuclidTurn(s))
        BY <2>2, <4>1, <4>3 DEF Approximates
      <4>5. G[EuclidTurn(s)] = F[EuclidTurn(s)]
        BY <4>1, <4>4
      <4>6. G[s] = F[EuclidTurn(s)]
        BY <3>2 DEF Turned
      <4> QED
        BY <3>2, <4>5, <4>6 DEF Turned
    <3> QED
      BY <3>1, <3>2
  <2>4. Approximates(G, k)
    <3> HIDE DEF G
    <3> QED
      BY <2>3 DEF Approximates
  <2> QED
    BY <1>2, <2>4
<1> QED
  BY <1>3, <1>4

LEMMA ApproximationsAgree ==
    ASSUME NEW n \in Nat, NEW F, NEW G, Approximates(F, n), Approximates(G, n),
           NEW s \in EuclidStates, s[2] < n
    PROVE  F[s] = G[s]
<1> DEFINE Bad == {k \in Nat : k < n /\ \E u \in EuclidStates : u[2] = k /\ F[u] # G[u]}
<1>1. SUFFICES ASSUME Bad # {} PROVE FALSE
  <2>1. s[2] \in Nat
    BY DEF EuclidStates
  <2> QED
    BY <1>1, <2>1
<1>2. PICK k \in Bad : \A l \in Bad : k <= l
  BY <1>1, LeastOf
<1>3. PICK u \in EuclidStates : u[2] = k /\ F[u] # G[u]
  OBVIOUS
<1>4. F[u] = Turned(F, u) /\ G[u] = Turned(G, u)
  BY <1>3 DEF Approximates
<1>5. u[2] # 0
  BY <1>3, <1>4 DEF Turned
<1>6. /\ EuclidTurn(u) \in EuclidStates
      /\ EuclidTurn(u)[2] \in Nat /\ EuclidTurn(u)[2] < k
  BY <1>3, <1>5, TurnIsSmaller
<1>7. F[EuclidTurn(u)] # G[EuclidTurn(u)]
  BY <1>3, <1>4, <1>5 DEF Turned
<1>8. EuclidTurn(u)[2] \in Bad
  <2>1. k \in Nat /\ k < n
    OBVIOUS
  <2>2. EuclidTurn(u)[2] < n
    BY <1>6, <2>1
  <2> QED
    BY <1>6, <1>7, <2>2
<1> QED
  <2>1. k <= EuclidTurn(u)[2] /\ k \in Nat
    BY <1>2, <1>8
  <2> QED
    BY <1>6, <2>1

\* The recursion defines Euclid: the loop of field_mod_inverse turn by turn.
LEMMA EuclidUnfolds == \A s \in EuclidStates : Euclid[s] = Turned(Euclid, s)
<1> DEFINE Below(n) == CHOOSE F : Approximates(F, n)
           H == [s \in EuclidStates |-> Below(s[2] + 1)[s]]
<1>1. \A n \in Nat : Approximates(Below(n), n)
  BY ApproximationsExist
<1>2. ASSUME NEW s \in EuclidStates PROVE H[s] = Turned(H, s)
  <2>1. s[2] \in Nat /\ s[2] + 1 \in Nat /\ s[2] < s[2] + 1
    BY DEF EuclidStates
  <2>2. Approximates(Below(s[2] + 1), s[2] + 1)
    BY <1>1, <2>1
  <2>3. H[s] = Turned(Below(s[2] + 1), s)
    <3> HIDE DEF Below
    <3> QED
      BY <2>1, <2>2 DEF Approximates
  <2>4. CASE s[2] = 0
    BY <2>3, <2>4 DEF Turned
  <2>5. CASE s[2] # 0
    <3> DEFINE u == EuclidTurn(s)
    <3>1. u \in EuclidStates /\ u[2] \in Nat /\ u[2] < s[2]
      BY <2>5, TurnIsSmaller
    <3>2. u[2] + 1 \in Nat /\ u[2] < u[2] + 1
      BY <3>1
    <3>3. Approximates(Below(u[2] + 1), u[2] + 1)
      BY <1>1, <3>2
    <3>4. Approximates(Below(s[2] + 1), u[2] + 1)
      <4> HIDE DEF Below, u, H
      <4>1. ASSUME NEW v \in EuclidStates, v[2] < u[2] + 1 PROVE v[2] < s[2] + 1
        <5>1. v[2] \in Nat
          BY DEF EuclidStates
        <5> QED
          BY <2>1, <3>1, <4>1, <5>1
      <4> QED
        BY <2>2, <4>1 DEF Approximates
    <3>5. Below(u[2] + 1)[u] = Below(s[2] + 1)[u]
      <4> HIDE DEF Below, u, H
      <4> QED
        BY <3>1, <3>2, <3>3, <3>4, ApproximationsAgree
    <3>6. H[u] = Below(u[2] + 1)[u]
      <4> HIDE DEF Below, u
      <4> QED
        BY <3>1
    <3> QED
      BY <2>3, <2>5, <3>5, <3>6 DEF Turned
  <2> QED
    BY <2>4, <2>5
<1>3. H = [s \in EuclidStates |-> IF s[2] = 0 THEN s[3] ELSE H[EuclidTurn(s)]]
  <2>1. H = [s \in EuclidStates |-> H[s]]
    OBVIOUS
  <2> HIDE DEF H
  <2> QED
    BY <1>2, <2>1 DEF Turned
<1>4. Euclid = [s \in EuclidStates |-> IF s[2] = 0 THEN s[3] ELSE Euclid[EuclidTurn(s)]]
  <2> HIDE DEF H
  <2> QED
    BY <1>3 DEF Euclid, EuclidStates
<1> QED
  BY <1>4 DEF Turned

\* Nothing but 1 divides both.
Coprime(a, b) == \A k \in Nat \ {0, 1} : ~(a % k = 0 /\ b % k = 0)

\* A multiple has no remainder, and nothing else.
LEMMA MultipleMod ==
    ASSUME NEW k \in Nat \ {0}, NEW q \in Nat, NEW n \in Nat, n = k * q
    PROVE  n % k = 0
<1>1. n = k * q + 0 /\ 0 \in Nat /\ 0 < k
  OBVIOUS
<1> QED
  BY <1>1, DivModUnique

LEMMA NoRemainder ==
    ASSUME NEW k \in Nat \ {0}, NEW n \in Nat, n % k = 0
    PROVE  \E q \in Nat : n = k * q
<1>1. n \div k \in Nat /\ n = k * (n \div k) + (n % k)
  BY DivMod
<1>2. n = k * (n \div k)
  BY <1>1
<1> QED
  BY <1>1, <1>2

\* What has no common divisor but 1 stays so in a turn; at the end it is 1.
LEMMA CoprimeEnds ==
    ASSUME NEW r \in Nat, Coprime(r, 0) PROVE r = 1
<1>1. CASE r = 0
  <2>1. 0 % 2 = 0 /\ 2 \in Nat \ {0, 1}
    OBVIOUS
  <2> QED
    BY <1>1, <2>1 DEF Coprime
<1>2. CASE r # 0 /\ r # 1
  <2>1. r \in Nat \ {0, 1} /\ r = r * 1 /\ 0 = r * 0
    BY <1>2
  <2>2. r % r = 0 /\ 0 % r = 0
    BY <2>1, MultipleMod
  <2> QED
    BY <2>1, <2>2 DEF Coprime
<1> QED
  BY <1>1, <1>2

LEMMA CoprimeTurn ==
    ASSUME NEW r \in Nat, NEW n \in Nat \ {0}, Coprime(r, n)
    PROVE  Coprime(n, r % n)
<1> SUFFICES ASSUME NEW k \in Nat \ {0, 1}, n % k = 0, (r % n) % k = 0
             PROVE  FALSE
  BY DEF Coprime
<1> DEFINE q == r \div n
           w == r % n
<1>1. q \in Nat /\ w \in Nat /\ r = n * q + w
  BY DivMod
<1> HIDE DEF q, w
<1>2. PICK x \in Nat : n = k * x
  BY NoRemainder
<1>3. PICK y \in Nat : w = k * y
  <2>1. w % k = 0
    BY DEF w
  <2> QED
    BY <1>1, <2>1, NoRemainder
<1>4. x * q + y \in Nat /\ k * (x * q + y) = (k * x) * q + k * y
  BY <1>1, <1>2, <1>3
<1>5. r = k * (x * q + y)
  BY <1>1, <1>2, <1>3, <1>4
<1>6. r % k = 0
  BY <1>4, <1>5, MultipleMod
<1> QED
  BY <1>6 DEF Coprime

\* The invariant of the loop: t and newt are what a has to be multiplied by to be
\* r and newr modulo M.
Follows(s, a, M) ==
    /\ Coprime(s[1], s[2])
    /\ Cong(s[3] * a, s[1], M) /\ Cong(s[4] * a, s[2], M)

LEMMA FollowsTurn ==
    ASSUME NEW s \in EuclidStates, NEW a \in Nat, NEW M \in Nat \ {0}, s[2] # 0, Follows(s, a, M)
    PROVE  Follows(EuclidTurn(s), a, M)
<1>1. s[1] \in Nat /\ s[2] \in Nat \ {0} /\ s[3] \in Int /\ s[4] \in Int
  BY DEF EuclidStates
<1>2. PICK r \in Nat, n \in Nat \ {0}, t \in Int, u \in Int :
         r = s[1] /\ n = s[2] /\ t = s[3] /\ u = s[4]
  BY <1>1
<1> DEFINE q == r \div n
<1>3. q \in Nat /\ r % n \in Nat /\ r = n * q + (r % n)
  BY DivMod
<1>4. EuclidTurn(s) = <<n, r % n, u, t - q * u>>
  BY <1>2 DEF EuclidTurn
<1> HIDE DEF q
<1>5. Coprime(n, r % n)
  BY <1>2, CoprimeTurn DEF Follows
<1>6. Cong(u * a, n, M) /\ Cong(t * a, r, M)
  BY <1>2 DEF Follows
<1>7. Cong((t - q * u) * a, r % n, M)
  <2>1. u * a \in Int /\ t * a \in Int /\ q \in Int
    BY <1>3
  <2>2. Cong(q * (u * a), q * n, M)
    <3>1. Cong(q, q, M) /\ n \in Int
      BY <2>1, CongReflexive
    <3> QED
      BY <1>6, <2>1, <3>1, CongProduct
  <2>3. q * (u * a) \in Int /\ q * n \in Int
    BY <1>3, <2>1
  <2>4. Cong(t * a - q * (u * a), r - q * n, M)
    BY <1>6, <2>1, <2>2, <2>3, CongDiff
  <2>5. (t - q * u) * a = t * a - q * (u * a)
    BY <2>1
  <2>6. r - q * n = r % n
    BY <1>3
  <2> QED
    BY <2>4, <2>5, <2>6
<1> QED
  BY <1>4, <1>5, <1>6, <1>7 DEF Follows

\* What the loop returns is an inverse.
LEMMA EuclidReturns ==
    ASSUME NEW a \in Nat, NEW M \in Nat \ {0}, NEW s \in EuclidStates, Follows(s, a, M)
    PROVE  Euclid[s] \in Int /\ Cong(Euclid[s] * a, 1, M)
<1> DEFINE Good(v) == Euclid[v] \in Int /\ Cong(Euclid[v] * a, 1, M)
           Bad == {k \in Nat : \E v \in EuclidStates : v[2] = k /\ Follows(v, a, M) /\ ~Good(v)}
<1>1. SUFFICES ASSUME Bad # {} PROVE FALSE
  <2>1. s[2] \in Nat
    BY DEF EuclidStates
  <2> QED
    BY <1>1, <2>1
<1>2. PICK k \in Bad : \A l \in Bad : k <= l
  BY <1>1, LeastOf
<1>3. PICK v \in EuclidStates : v[2] = k /\ Follows(v, a, M) /\ ~Good(v)
  OBVIOUS
<1>4. Euclid[v] = Turned(Euclid, v)
  BY EuclidUnfolds
<1>5. CASE k = 0
  <2>1. Euclid[v] = v[3] /\ v[3] \in Int /\ v[1] \in Nat
    BY <1>3, <1>4, <1>5 DEF Turned, EuclidStates
  <2>2. v[1] = 1
    BY <1>3, <1>5, <2>1, CoprimeEnds DEF Follows
  <2>3. Cong(v[3] * a, 1, M)
    BY <1>3, <2>2 DEF Follows
  <2> QED
    BY <1>3, <2>1, <2>3
<1>6. CASE k # 0
  <2>1. /\ EuclidTurn(v) \in EuclidStates
        /\ EuclidTurn(v)[2] \in Nat /\ EuclidTurn(v)[2] < k
    BY <1>3, <1>6, TurnIsSmaller
  <2>2. Follows(EuclidTurn(v), a, M)
    BY <1>3, <1>6, FollowsTurn
  <2>3. Euclid[v] = Euclid[EuclidTurn(v)]
    BY <1>3, <1>4, <1>6 DEF Turned
  <2>4. ~Good(EuclidTurn(v))
    BY <1>3, <2>3
  <2>5. EuclidTurn(v)[2] \in Bad
    BY <2>1, <2>2, <2>4
  <2>6. k <= EuclidTurn(v)[2] /\ k \in Nat
    BY <1>2, <2>5
  <2> QED
    BY <2>1, <2>6
<1> QED
  BY <1>5, <1>6

\* field_mod_inverse (helper.cc:17-29) returns the inverse of every number that
\* has no divisor in common with the modulus.
THEOREM InverseFound ==
    ASSUME NEW M \in Nat \ {0, 1}, NEW a \in Nat, Coprime(M, a)
    PROVE  /\ field_mod_inverse(a, M) \in Nat
           /\ (field_mod_inverse(a, M) * a) % M = 1
<1> DEFINE s == <<M, a % M, 0, 1>>
           e == Euclid[s]
<1>1. a % M \in Nat /\ a % M < M
  BY DivMod
<1>2. s \in EuclidStates
  BY <1>1 DEF EuclidStates
<1>3. Coprime(M, a % M)
  <2>1. Coprime(a, M)
    BY DEF Coprime
  <2> QED
    BY <2>1, CoprimeTurn
<1>4. Cong(0 * a, M, M) /\ Cong(1 * a, a % M, M)
  <2>1. 0 * a = M + M * (-1) /\ 1 * a = a /\ -1 \in Int
    OBVIOUS
  <2>2. Cong(0 * a, M, M)
    BY <2>1 DEF Cong
  <2>3. Cong(a, a % M, M)
    BY CongRemainder
  <2> QED
    BY <2>1, <2>2, <2>3
<1>5. Follows(s, a, M)
  BY <1>3, <1>4 DEF Follows
<1>6. e \in Int /\ Cong(e * a, 1, M)
  <2> HIDE DEF s
  <2> QED
    BY <1>2, <1>5, EuclidReturns
<1> HIDE DEF e
<1>7. e % M \in Nat
  BY <1>6, IntDivMod
<1>8. Cong((e % M) * a, 1, M)
  <2>1. Cong(e % M, e, M) /\ Cong(a, a, M)
    BY <1>6, CongRemainder, CongReflexive
  <2>2. Cong((e % M) * a, e * a, M)
    BY <1>6, <1>7, <2>1, CongProduct
  <2>3. (e % M) * a \in Int /\ e * a \in Int
    BY <1>6, <1>7
  <2> QED
    BY <1>6, <2>2, <2>3, CongSymTrans
<1>9. ((e % M) * a) % M = 1
  <2>1. 1 % M = 1
    OBVIOUS
  <2>2. (e % M) * a \in Int
    BY <1>7
  <2> QED
    BY <1>8, <2>1, <2>2, CongSameRemainder
<1> QED
  BY <1>7, <1>9 DEF field_mod_inverse, e
==============================================================================
