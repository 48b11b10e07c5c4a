------------------------------- MODULE Kernel -------------------------------
(***************************************************************************)
(* What the two parties compute on one row of a result: the shares that    *)
(* the sender interpolates (modpoly.c), the values of the interpolated     *)
(* polynomials at a query (plain.cc), and the reconstruction and matching  *)
(* of protocol/receiver.cc, with the threshold inK = 2.  M is              *)
(* FIELD_MODULUS at the time of the call.                                  *)
(***************************************************************************)
EXTENDS Integers, Sequences, FiniteSets

CONSTANT inN   \* subsamples of a vector, and shares of a secret

ASSUME inNOK == inN \in Nat \ {0}

Positions == 1 .. inN
Pairs == {p \in Positions \X Positions : p[1] < p[2]}

\* The secret of every token sharing.
token == 0

\* The shares of a secret: a line with random slope, at 1 .. inN.
createSecretShares(sharing, M) ==
    [i \in Positions |-> (sharing.secret + sharing.coef * i) % M]

\* The extended Euclidean algorithm on s = <<r, newr, t, newt>>.
EuclidTurn(s) == <<s[2], s[1] % s[2], s[4], s[3] - (s[1] \div s[2]) * s[4]>>
Euclid[s \in Nat \X Nat \X Int \X Int] ==
    IF s[2] = 0 THEN s[3] ELSE Euclid[EuclidTurn(s)]
field_mod_inverse(a, M) == Euclid[<<M, a % M, 0, 1>>] % M

\* The static table of smallDiffInverse, and a call that finds it built.
InverseTable(M) == [d \in 1 .. inN - 1 |-> field_mod_inverse(d, M)]
smallDiffInverse(inverses, d, M) ==
    IF d \in DOMAIN inverses THEN inverses[d] ELSE field_mod_inverse(d, M)

\* The line through two points, at 0.
repK2(inverses, i, j, yi, yj, M) ==
    LET a == ((yi % M) * (j % M)) % M
        b == ((yj % M) * (i % M)) % M
    IN (((a + M - b) % M) * smallDiffInverse(inverses, j - i, M)) % M

checkPartitionPairs(inverses, token_part, M) ==
    {p \in Pairs :
        repK2(inverses, p[1], p[2], token_part[p[1]], token_part[p[2]], M) = token}

reconstructFromPairs(inverses, valid_pairs, id_part, M) ==
    {repK2(inverses, p[1], p[2], id_part[p[1]], id_part[p[2]], M) : p \in valid_pairs}

checkPartition(inverses, token_part, id_part, M) ==
    reconstructFromPairs(inverses, checkPartitionPairs(inverses, token_part, M), id_part, M)

\* The pairs of a row that every token round found.
\* Mutant: the pairs of any round.
findVerifiedPairsOfAnyRound(round_pairs) ==
    UNION {round_pairs[t] : t \in DOMAIN round_pairs}
findVerifiedPairs(round_pairs) ==
    {p \in round_pairs[1] : \A t \in DOMAIN round_pairs : p \in round_pairs[t]}

----------------------------------------------------------------------------

\* The rows of a partition (its ids in their order) whose x-coordinate is the
\* query's at position i.  The points of a polynomial differ, so there is at
\* most one.
Hits(part, x, query, i) == {k \in DOMAIN part : x[part][k][i] = query[i]}
First(rows) == CHOOSE k \in rows : \A l \in rows : k <= l

\* The polynomials of one partition at the powers of a query: a share where
\* the query meets a point of the interpolation, any value elsewhere.
evalPartition(part, x, share_map, query, elsewhere, M) ==
    [i \in Positions |->
        LET hits == Hits(part, x, query, i) IN
        IF hits = {} THEN elsewhere[i]
        ELSE createSecretShares(share_map[part[First(hits)]], M)[i]]
=============================================================================
