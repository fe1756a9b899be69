------------------------------ MODULE Numbers ------------------------------
(***************************************************************************)
(* Facts about numbers that the proofs about the components rest on:       *)
(* quotients and remainders (the layouts of the KV cache, the partition of *)
(* the nonces), induction, and sums over a sequence (the nonces queued).   *)
(***************************************************************************)
EXTENDS Integers, WellFoundedInduction, TLAPS

\* Quotient and remainder.
LEMMA DivMod ==
    ASSUME NEW a \in Nat, NEW m \in Nat \ {0}
    PROVE  /\ a \div m \in Nat
           /\ a % m \in 0..m-1
           /\ a = (a \div m) * m + (a % m)
BY Z3

\* A product grows with its first factor.
LEMMA Monotone ==
    ASSUME NEW a \in Nat, NEW b \in Nat, NEW m \in Nat, a <= b
    PROVE  a * m <= b * m
<1> DEFINE d == b - a
<1>1. d \in Nat /\ b = a + d  OBVIOUS
<1>2. b * m = a * m + d * m  BY <1>1
<1>3. d * m \in Nat  BY <1>1
<1> QED BY <1>2, <1>3

\* A number has one quotient and one remainder.
LEMMA MixedRadix ==
    ASSUME NEW m \in Nat \ {0}, NEW a \in Nat, NEW b \in Nat,
           NEW x \in 0..m-1, NEW y \in 0..m-1, a * m + x = b * m + y
    PROVE  a = b /\ x = y
<1>1. ~ (a < b)
    <2> SUFFICES ASSUME a < b PROVE FALSE  OBVIOUS
    <2>1. (a + 1) * m <= b * m  BY Monotone
    <2>2. (a + 1) * m = a * m + m  OBVIOUS
    <2>3. a * m \in Nat /\ b * m \in Nat  OBVIOUS
    <2> QED BY <2>1, <2>2, <2>3
<1>2. ~ (b < a)
    <2> SUFFICES ASSUME b < a PROVE FALSE  OBVIOUS
    <2>1. (b + 1) * m <= a * m  BY Monotone
    <2>2. (b + 1) * m = b * m + m  OBVIOUS
    <2>3. a * m \in Nat /\ b * m \in Nat  OBVIOUS
    <2> QED BY <2>1, <2>2, <2>3
<1>3. a = b  BY <1>1, <1>2
<1>4. a * m \in Nat  OBVIOUS
<1> QED BY <1>3, <1>4

\* Division undoes a multiplication with a small remainder.
LEMMA DivOf ==
    ASSUME NEW m \in Nat \ {0}, NEW q \in Nat, NEW x \in 0..m-1
    PROVE  (q * m + x) \div m = q /\ (q * m + x) % m = x
<1> DEFINE n == q * m + x
<1>1. n \in Nat  OBVIOUS
<1>2. n \div m \in Nat /\ n % m \in 0..m-1 /\ n = (n \div m) * m + (n % m)
    BY <1>1, DivMod
<1> HIDE DEF n
<1>3. n \div m = q /\ n % m = x
    <2>1. q * m + x = (n \div m) * m + (n % m)  BY <1>2 DEF n
    <2> QED BY <1>2, <2>1, MixedRadix
<1> QED BY <1>3 DEF n

----------------------------------------------------------------------------
(* Induction, with a set in the place of a predicate.                      *)

\* A nonempty set of naturals has a least element.
LEMMA LeastElement ==
    ASSUME NEW T \in SUBSET Nat, T # {}
    PROVE  \E m \in T : \A k \in T : m <= k
<1> DEFINE R == OpToRel(<, Nat)
<1>1. IsWellFoundedOn(R, Nat)  BY NatLessThanWellFounded
<1>2. \A x, y \in Nat : y < x => <<y, x>> \in R  BY DEF OpToRel
<1> HIDE DEF R
<1>3. PICK m \in T : \A k \in T : <<k, m>> \notin R  BY <1>1, WFMin
<1>4. ASSUME NEW k \in T PROVE m <= k
    <2>1. k \in Nat /\ m \in Nat  OBVIOUS
    <2>2. ~(k < m)  BY <1>2, <1>3, <2>1
    <2> QED BY <2>1, <2>2
<1> QED BY <1>4

\* A set that has 0 and every successor has every number.
LEMMA Induct ==
    ASSUME NEW T \in SUBSET Nat, 0 \in T, \A n \in T : n + 1 \in T
    PROVE  T = Nat
<1> SUFFICES ASSUME Nat \ T # {} PROVE FALSE  OBVIOUS
<1>1. PICK m \in Nat \ T : \A k \in Nat \ T : m <= k  BY LeastElement
<1>2. m # 0  OBVIOUS
<1>3. m - 1 \in T  BY <1>1, <1>2
<1> QED BY <1>3, (m - 1) + 1 = m

\* F has the sums of the first 0, ..., Len(seq) members.
SumsOf(F, n, f, seq) == F = [i \in 0..n |-> IF i = 0 THEN 0 ELSE F[i - 1] + f[seq[i]]]

\* There are such sums for every length.
LEMMA SumsExist ==
    ASSUME NEW f, NEW seq
    PROVE  \A n \in Nat : \E F : SumsOf(F, n, f, seq)
<1> DEFINE T == {n \in Nat : \E F : SumsOf(F, n, f, seq)}
<1>1. 0 \in T
    <2> DEFINE F == [i \in 0..0 |-> 0]
    <2>1. SumsOf(F, 0, f, seq)  BY DEF SumsOf
    <2> QED BY <2>1
<1>2. ASSUME NEW n \in T PROVE n + 1 \in T
    <2>1. PICK F : SumsOf(F, n, f, seq)  OBVIOUS
    <2> DEFINE G == [i \in 0..n+1 |-> IF i = n + 1 THEN F[n] + f[seq[n + 1]] ELSE F[i]]
    <2>2. ASSUME NEW i \in 0..n+1 PROVE G[i] = IF i = 0 THEN 0 ELSE G[i - 1] + f[seq[i]]
        <3>1. CASE i = 0  BY <2>1, <3>1 DEF SumsOf
        <3>2. CASE i \in 1..n  BY <2>1, <3>2 DEF SumsOf
        <3>3. CASE i = n + 1  BY <2>1, <3>3 DEF SumsOf
        <3> QED BY <3>1, <3>2, <3>3
    <2>3. SumsOf(G, n + 1, f, seq)  BY <2>2 DEF SumsOf
    <2> QED BY <2>3
<1>3. T = Nat
    <2> HIDE DEF T
    <2>1. T \in SUBSET Nat  BY DEF T
    <2> QED BY <1>1, <1>2, <2>1, Induct
<1> QED BY <1>3

\* Numbers that occur in the same order, k places later.
Shifted(n, k, f, s, g, t) == \A i \in 1..n : f[s[i]] \in Nat /\ f[s[i]] = g[t[i + k]]

\* Numbers that occur in the same order at another place add up to the same.
LEMMA SumsShift ==
    ASSUME NEW n \in Nat, NEW m \in Nat, NEW k \in Nat, n + k <= m,
           NEW f, NEW g, NEW s, NEW t, NEW F, NEW G,
           SumsOf(F, n, f, s), SumsOf(G, m, g, t),
           G[k] \in Nat,
           Shifted(n, k, f, s, g, t)
    PROVE  \A i \in 0..n : F[i] \in Nat /\ G[i + k] = G[k] + F[i]
<1> DEFINE T == {i \in Nat : i <= n => F[i] \in Nat /\ G[i + k] = G[k] + F[i]}
<1>1. 0 \in T  BY DEF SumsOf
<1>2. ASSUME NEW i \in T PROVE i + 1 \in T
    <2> SUFFICES ASSUME i + 1 <= n PROVE F[i + 1] \in Nat /\ G[i + 1 + k] = G[k] + F[i + 1]
        OBVIOUS
    <2>1. F[i] \in Nat /\ G[i + k] = G[k] + F[i]  OBVIOUS
    <2>2. F[i + 1] = F[i] + f[s[i + 1]]
        <3>1. i + 1 \in 0..n /\ i + 1 # 0 /\ (i + 1) - 1 = i  OBVIOUS
        <3> QED BY <3>1 DEF SumsOf
    <2>3. G[i + 1 + k] = G[i + k] + g[t[i + 1 + k]]
        <3>1. i + 1 + k \in 0..m /\ i + 1 + k # 0 /\ (i + 1 + k) - 1 = i + k  OBVIOUS
        <3> QED BY <3>1 DEF SumsOf
    <2>4. f[s[i + 1]] \in Nat /\ f[s[i + 1]] = g[t[i + 1 + k]]  BY DEF Shifted
    <2> QED BY <2>1, <2>2, <2>3, <2>4
<1>3. T = Nat
    <2> HIDE DEF T
    <2>1. T \in SUBSET Nat  BY DEF T
    <2> QED BY <1>1, <1>2, <2>1, Induct
<1> QED BY <1>3

\* The same from the beginning.
LEMMA SumsAgree ==
    ASSUME NEW n \in Nat, NEW m \in Nat, n <= m,
           NEW f, NEW g, NEW s, NEW t, NEW F, NEW G,
           SumsOf(F, n, f, s), SumsOf(G, m, g, t),
           Shifted(n, 0, f, s, g, t)
    PROVE  \A i \in 0..n : F[i] \in Nat /\ G[i] = F[i]
<1>1. PICK k \in Nat : k = 0  OBVIOUS
<1>2. G[0] = 0  BY DEF SumsOf
<1>3. Shifted(n, k, f, s, g, t)  BY <1>1
<1>4. n + k <= m /\ G[k] \in Nat  BY <1>1, <1>2
<1>5. \A i \in 0..n : F[i] \in Nat /\ G[i + k] = G[k] + F[i]  BY <1>3, <1>4, SumsShift
<1> QED BY <1>1, <1>2, <1>5

\* The same behind one more number.
LEMMA SumsBehind ==
    ASSUME NEW n \in Nat, NEW m \in Nat, n < m, NEW f, NEW g, NEW s, NEW t, NEW F, NEW G,
           SumsOf(F, n, f, s), SumsOf(G, m, g, t), g[t[1]] \in Nat,
           Shifted(n, 1, f, s, g, t)
    PROVE  G[n + 1] = g[t[1]] + F[n]
<1>1. G[1] = g[t[1]] /\ 1 \in Nat /\ n + 1 <= m
    <2>1. 1 \in 0..m /\ 0 \in 0..m /\ 1 - 1 = 0  OBVIOUS
    <2> QED BY <2>1 DEF SumsOf
<1>2. \A i \in 0..n : F[i] \in Nat /\ G[i + 1] = G[1] + F[i]  BY <1>1, SumsShift
<1>3. n \in 0..n  OBVIOUS
<1> QED BY <1>1, <1>2, <1>3
=============================================================================
