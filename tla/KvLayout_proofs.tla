-------------------------- MODULE KvLayout_proofs --------------------------
(***************************************************************************)
(* The layouts of module KvLayout are right for every size: every batch,   *)
(* sequence length, block size, kernel split, and every lease of distinct  *)
(* blocks that passes the guards.                                          *)
(***************************************************************************)
EXTENDS KvLayout, Numbers

----------------------------------------------------------------------------
(* The layout over a lease.                                                *)

\* Every token falls into one of the blocks counted by Ceil.
LEMMA CeilCovers ==
    ASSUME NEW m \in Nat \ {0}, NEW len \in Nat, NEW t \in 0..len-1
    PROVE  t \div m < Ceil(len, m) /\ Ceil(len, m) \in Nat
<1> DEFINE c == Ceil(len, m)
           q == t \div m
<1>1. len + m - 1 \in Nat  OBVIOUS
<1>2. c \in Nat /\ \E r \in 0..m-1 : len + m - 1 = c * m + r
    BY <1>1, DivMod DEF Ceil
<1>3. q \in Nat /\ q * m <= t
    <2>1. q \in Nat /\ t % m \in 0..m-1 /\ t = q * m + (t % m)
        <3>1. t \in Nat  OBVIOUS
        <3> QED BY <3>1, DivMod
    <2>2. q * m \in Nat  BY <2>1
    <2> HIDE DEF q
    <2> QED BY <2>1, <2>2
<1> HIDE DEF c, q
<1>4. q < c
    <2> SUFFICES ASSUME c <= q PROVE FALSE  BY <1>2, <1>3
    <2>1. c * m <= q * m  BY <1>2, <1>3, Monotone
    <2>2. c * m \in Nat /\ q * m \in Nat  BY <1>2, <1>3
    <2>3. PICK r \in 0..m-1 : len + m - 1 = c * m + r  BY <1>2
    <2>4. t < len  OBVIOUS
    <2> QED BY <2>1, <2>2, <2>3, <2>4, <1>3
<1> QED BY <1>2, <1>4 DEF c, q

\* A lease names each block once.
Distinct(ids) == \A a, b \in 1..Len(ids) : ids[a] = ids[b] => a = b

\* A stripe stays inside the lease.
LEMMA Indexed ==
    ASSUME NEW n \in Nat, NEW stripe \in Nat, NEW size \in Nat, n * stripe <= size,
           NEW i \in 0..n-1, NEW k \in 0..stripe-1
    PROVE  i * stripe + k + 1 \in 1..size
<1>1. (i + 1) * stripe <= n * stripe  BY Monotone
<1>2. (i + 1) * stripe = i * stripe + stripe  OBVIOUS
<1>3. i * stripe \in Nat /\ n * stripe \in Nat  OBVIOUS
<1> QED BY <1>1, <1>2, <1>3

\* Kernel blocks refine pool blocks: a token's block and offset, by way of its kernel
\* block.
LEMMA Split ==
    ASSUME NEW g \in Nat \ {0}, NEW r \in Nat \ {0}, NEW t \in Nat
    PROVE  /\ (t \div g) \div r = t \div (r * g)
           /\ t % (r * g) = ((t \div g) % r) * g + (t % g)
<1> DEFINE k == t \div g
           x == t % g
           q == k \div r
           y == k % r
<1>1. k \in Nat /\ x \in 0..g-1 /\ t = k * g + x  BY DivMod
<1>2. q \in Nat /\ y \in 0..r-1 /\ k = q * r + y  BY <1>1, DivMod
<1> HIDE DEF k, x, q, y
<1>3. (q * r + y) * g = q * (r * g) + y * g
    <2>1. q * r \in Nat /\ y \in Nat  BY <1>2
    <2>2. (q * r + y) * g = (q * r) * g + y * g  BY <2>1
    <2>3. (q * r) * g = q * (r * g)  BY <1>2
    <2> QED BY <2>2, <2>3
<1>4. y * g + x \in 0..(r * g)-1
    <2>1. (y + 1) * g <= r * g  BY <1>2, Monotone
    <2>2. (y + 1) * g = y * g + g  BY <1>2
    <2>3. y * g \in Nat /\ r * g \in Nat  BY <1>2
    <2> QED BY <2>1, <2>2, <2>3, <1>1
<1>5. t = q * (r * g) + (y * g + x)
    <2>1. t = (q * (r * g) + y * g) + x  BY <1>1, <1>2, <1>3
    <2>2. q * (r * g) \in Nat /\ y * g \in Nat  BY <1>2
    <2> QED BY <2>1, <2>2, <1>1
<1>6. r * g \in Nat \ {0}  OBVIOUS
<1>7. t \div (r * g) = q /\ t % (r * g) = y * g + x
    <2> DEFINE m == r * g
               z == y * g + x
    <2>1. m \in Nat \ {0} /\ z \in 0..m-1 /\ t = q * m + z  BY <1>4, <1>5, <1>6
    <2> HIDE DEF m, z
    <2>2. t \div m = q /\ t % m = z  BY <2>1, <1>2, DivOf
    <2> QED BY <2>2 DEF m, z
<1> QED BY <1>7 DEF k, x, q, y

\* What the guards give the theorem below: a kernel split r, an index in the lease for
\* every token, and a kernel block within the table.
LEMMA Guarded ==
    ASSUME NEW n \in Nat, NEW len \in Nat, NEW grp \in [g : Nat \ {0}, m : Nat \ {0}],
           NEW ids \in Seq(Nat), NEW stripe \in Nat, Fits(n, len, grp, ids, stripe)
    PROVE  /\ grp.m \div grp.g \in Nat \ {0}
           /\ grp.m = (grp.m \div grp.g) * grp.g
           /\ \A i \in 0..n-1, k \in 0..stripe-1 :
                  i * stripe + k + 1 \in 1..Len(ids) /\ Block(ids, stripe, i, k) \in Nat
           /\ \A t \in 0..len-1 :
                  /\ t \div grp.m \in 0..stripe-1
                  /\ t \div grp.g \in 0..(Ceil(len, grp.m) * (grp.m \div grp.g))-1
<1> DEFINE g == grp.g
           m == grp.m
           r == m \div g
           c == Ceil(len, m)
<1>1. g \in Nat \ {0} /\ m \in Nat \ {0}  OBVIOUS
<1>2. m % g = 0 /\ c <= stripe /\ n * stripe <= Len(ids)  BY DEF Fits
<1> HIDE DEF g, m
<1>3. r \in Nat \ {0} /\ m = r * g
    <2>1. r \in Nat /\ m = r * g + (m % g)
        <3>1. m \in Nat  BY <1>1
        <3> QED BY <3>1, <1>1, DivMod
    <2> HIDE DEF r
    <2>2. m = r * g
        <3>1. r * g \in Nat  BY <2>1, <1>1
        <3> QED BY <3>1, <2>1, <1>2
    <2>3. r # 0  BY <2>2, <1>1
    <2> QED BY <2>1, <2>2, <2>3
<1>4. ASSUME NEW i \in 0..n-1, NEW k \in 0..stripe-1
      PROVE  i * stripe + k + 1 \in 1..Len(ids) /\ Block(ids, stripe, i, k) \in Nat
    <2>1. Len(ids) \in Nat  OBVIOUS
    <2>2. i * stripe + k + 1 \in 1..Len(ids)  BY <1>2, <2>1, Indexed
    <2> QED BY <2>2 DEF Block
<1>5. ASSUME NEW t \in 0..len-1
      PROVE  t \div m \in 0..stripe-1 /\ t \div g \in 0..(c * r)-1
    <2>1. t \in Nat  OBVIOUS
    <2>2. t \div m < c /\ c \in Nat /\ t \div m \in Nat
        BY <1>1, <2>1, CeilCovers, DivMod
    <2> DEFINE q == t \div m
               k == t \div g
               y == k % r
    <2>3. (t \div g) \div r = t \div (r * g)  BY <1>1, <1>3, <2>1, Split
    <2>4. k \in Nat /\ k \div r = q  BY <2>1, <2>3, <1>1, <1>3, DivMod
    <2>5. y \in 0..r-1 /\ k = (k \div r) * r + y  BY <2>4, <1>3, DivMod
    <2>6. k = q * r + y  BY <2>4, <2>5
    <2> HIDE DEF q, k, y, c, r
    <2>7. (q + 1) * r <= c * r
        <3>1. q + 1 \in Nat /\ c \in Nat /\ r \in Nat /\ q + 1 <= c
            BY <2>2, <1>3 DEF q
        <3> QED BY <3>1, Monotone
    <2>8. (q + 1) * r = q * r + r /\ q * r \in Nat /\ c * r \in Nat
        BY <2>2, <1>3 DEF q
    <2>9. k \in 0..(c * r)-1
        <3>1. k < q * r + r  BY <2>5, <2>6, <2>8, <1>3
        <3>2. q * r + r <= c * r  BY <2>7, <2>8
        <3> DEFINE w == c * r
                   v == q * r + r
        <3>3. k \in Nat /\ w \in Nat /\ v \in Nat  BY <2>4, <2>8, <1>3
        <3>4. k < v /\ v <= w  BY <3>1, <3>2
        <3> HIDE DEF w, v
        <3>5. k \in 0..w-1  BY <3>3, <3>4
        <3> QED BY <3>5 DEF w
    <2> QED BY <2>2, <2>9, <1>2 DEF q, k
<1> QED BY <1>3, <1>4, <1>5 DEF g, m

\* A slot has the block of its token as quotient and the token's offset as remainder.
LEMMA SlotParts ==
    ASSUME NEW n \in Nat, NEW len \in Nat, NEW grp \in [g : Nat \ {0}, m : Nat \ {0}],
           NEW ids \in Seq(Nat), NEW stripe \in Nat, Fits(n, len, grp, ids, stripe),
           NEW i \in 0..n-1, NEW t \in 0..len-1
    PROVE  /\ BorrowedSlot(grp, ids, stripe, i, t) \div grp.m
                  = Block(ids, stripe, i, t \div grp.m)
           /\ BorrowedSlot(grp, ids, stripe, i, t) % grp.m = t % grp.m
<1> DEFINE m == grp.m
           b == Block(ids, stripe, i, t \div m)
           x == t % m
<1>1. b \in Nat  BY Guarded
<1>2. m \in Nat \ {0}  OBVIOUS
<1>3. x \in 0..m-1
    <2>1. t \in Nat  OBVIOUS
    <2> HIDE DEF m
    <2> QED BY <2>1, <1>2, DivMod
<1>4. BorrowedSlot(grp, ids, stripe, i, t) = b * m + x  BY DEF BorrowedSlot
<1> HIDE DEF b, x, m
<1>5. (b * m + x) \div m = b /\ (b * m + x) % m = x  BY <1>1, <1>2, <1>3, DivOf
<1> QED BY <1>4, <1>5 DEF b, x, m

\* Two tokens with one slot are one token.
LEMMA SameToken ==
    ASSUME NEW n \in Nat, NEW len \in Nat, NEW grp \in [g : Nat \ {0}, m : Nat \ {0}],
           NEW ids \in Seq(Nat), NEW stripe \in Nat, Fits(n, len, grp, ids, stripe),
           Distinct(ids),
           NEW i \in 0..n-1, NEW t \in 0..len-1, NEW j \in 0..n-1, NEW u \in 0..len-1,
           BorrowedSlot(grp, ids, stripe, i, t) = BorrowedSlot(grp, ids, stripe, j, u)
    PROVE  i = j /\ t = u
<1> DEFINE m == grp.m
           kt == t \div m
           ku == u \div m
<1>1. Block(ids, stripe, i, kt) = Block(ids, stripe, j, ku) /\ t % m = u % m
    BY SlotParts
<1>2. kt \in 0..stripe-1 /\ ku \in 0..stripe-1  BY Guarded
<1>3. t = kt * m + (t % m) /\ u = ku * m + (u % m)
    <2>1. t \in Nat /\ u \in Nat /\ m \in Nat \ {0}  OBVIOUS
    <2> HIDE DEF m
    <2> QED BY <2>1, DivMod
<1> HIDE DEF kt, ku, m
<1>4. i * stripe + kt + 1 \in 1..Len(ids) /\ j * stripe + ku + 1 \in 1..Len(ids)
    BY <1>2, Guarded
<1>5. i * stripe + kt + 1 = j * stripe + ku + 1  BY <1>1, <1>4 DEF Distinct, Block
<1>6. i * stripe + kt = j * stripe + ku
    <2>1. i * stripe \in Nat /\ j * stripe \in Nat  OBVIOUS
    <2> QED BY <2>1, <1>2, <1>5
<1>7. i = j /\ kt = ku
    <2>1. stripe \in Nat \ {0}  BY <1>2
    <2>2. i \in Nat /\ j \in Nat  OBVIOUS
    <2> QED BY <1>2, <1>6, <2>1, <2>2, MixedRadix, SMTT(30)
<1> QED BY <1>1, <1>3, <1>7

\* The table entry of a token's kernel block, scaled, is where its slot begins.
LEMMA EntryOfToken ==
    ASSUME NEW n \in Nat, NEW len \in Nat, NEW grp \in [g : Nat \ {0}, m : Nat \ {0}],
           NEW ids \in Seq(Nat), NEW stripe \in Nat, Fits(n, len, grp, ids, stripe),
           NEW i \in 0..n-1, NEW t \in 0..len-1
    PROVE  BorrowedSlot(grp, ids, stripe, i, t)
               = (BorrowedEntry(grp, ids, stripe, i, t \div grp.g) * grp.g) + (t % grp.g)
<1> DEFINE g == grp.g
           m == grp.m
           r == m \div g
           k == t \div g
           b == Block(ids, stripe, i, t \div m)
           y == k % r
           x == t % g
<1>1. g \in Nat \ {0} /\ r \in Nat \ {0} /\ m = r * g /\ b \in Nat  BY Guarded
<1>2. t \in Nat  OBVIOUS
<1>3. k \div r = t \div m /\ t % m = y * g + x
    <2> HIDE DEF g, m, r
    <2> QED BY <1>1, <1>2, Split
<1>4. x \in Nat /\ y \in Nat
    <2> HIDE DEF g, m, r
    <2>1. k \in Nat /\ x \in 0..g-1  BY <1>1, <1>2, DivMod
    <2> HIDE DEF k
    <2>2. y \in 0..r-1  BY <1>1, <2>1, DivMod
    <2> QED BY <2>1, <2>2, <1>1
<1>5. BorrowedSlot(grp, ids, stripe, i, t) = b * m + (y * g + x)
    BY <1>3 DEF BorrowedSlot
<1>6. BorrowedEntry(grp, ids, stripe, i, k) = b * r + y
    BY <1>3 DEF BorrowedEntry
<1> HIDE DEF b, y, x, r, m, g
<1>7. b * m + (y * g + x) = (b * r + y) * g + x
    <2>1. b * r \in Nat /\ b * m \in Nat /\ y * g \in Nat  BY <1>1, <1>4
    <2>2. (b * r + y) * g = (b * r) * g + y * g  BY <2>1, <1>1, <1>4
    <2>3. (b * r) * g = b * m  BY <1>1
    <2> QED BY <2>1, <2>2, <2>3, <1>4
<1> HIDE DEF k
<1>8. BorrowedSlot(grp, ids, stripe, i, t) = (BorrowedEntry(grp, ids, stripe, i, k) * g) + x
    BY <1>5, <1>6, <1>7
<1> QED BY <1>8 DEF k, g, x

\* A sequence needs at most one block for each token.
LEMMA CeilBound ==
    ASSUME NEW m \in Nat \ {0}, NEW len \in Nat
    PROVE  Ceil(len, m) \in 0..len
<1> DEFINE c == Ceil(len, m)
<1>1. c \in Nat /\ \E r \in 0..m-1 : len + m - 1 = c * m + r
    <2>1. len + m - 1 \in Nat  OBVIOUS
    <2> QED BY <2>1, DivMod DEF Ceil
<1> HIDE DEF c
<1>2. ~ (len + 1 <= c)
    <2> SUFFICES ASSUME len + 1 <= c PROVE FALSE  OBVIOUS
    <2>1. (len + 1) * m <= c * m  BY <1>1, Monotone
    <2>2. (len + 1) * m = len * m + m /\ len * m \in Nat /\ c * m \in Nat  BY <1>1
    <2>3. len <= len * m
        <3>1. \A a \in Nat : len * (a + 1) = len * a + len /\ len * a \in Nat  OBVIOUS
        <3>2. m - 1 \in Nat /\ (m - 1) + 1 = m  OBVIOUS
        <3>3. len * m = len * (m - 1) + len /\ len * (m - 1) \in Nat  BY <3>1, <3>2
        <3> QED BY <3>3
    <2>4. PICK r \in 0..m-1 : len + m - 1 = c * m + r  BY <1>1
    <2> QED BY <2>1, <2>2, <2>3, <2>4
<1>3. c \in 0..len  BY <1>1, <1>2
<1> QED BY <1>3 DEF c

\* An entry of the table lies in the block of its stripe that it is a part of.
LEMMA EntryBlock ==
    ASSUME NEW n \in Nat, NEW len \in Nat, NEW grp \in [g : Nat \ {0}, m : Nat \ {0}],
           NEW ids \in Seq(Nat), NEW stripe \in Nat, Fits(n, len, grp, ids, stripe),
           NEW i \in 0..n-1, NEW k \in 0..(Ceil(len, grp.m) * (grp.m \div grp.g))-1
    PROVE  /\ k \div (grp.m \div grp.g) \in 0..stripe-1
           /\ (BorrowedEntry(grp, ids, stripe, i, k) * grp.g) \div grp.m
                  = Block(ids, stripe, i, k \div (grp.m \div grp.g))
<1> DEFINE g == grp.g
           m == grp.m
           r == m \div g
           c == Ceil(len, m)
           q == k \div r
           y == k % r
           b == Block(ids, stripe, i, q)
<1>1. g \in Nat \ {0} /\ m \in Nat \ {0} /\ k \in Nat  OBVIOUS
<1>2. r \in Nat \ {0} /\ m = r * g  BY Guarded
<1>3. c \in Nat /\ c <= stripe
    <2>1. Ceil(len, grp.m) \in 0..len  BY CeilBound
    <2>2. Ceil(len, grp.m) <= stripe  BY DEF Fits
    <2> QED BY <2>1, <2>2
<1>4. k < c * r /\ c * r \in Nat
    <2> HIDE DEF c, r
    <2>1. c * r \in Nat  BY <1>2, <1>3
    <2>2. k \in 0..(c * r)-1  BY DEF c, r, m, g
    <2> QED BY <2>1, <2>2
<1> HIDE DEF g, m, r, c
<1>5. q \in Nat /\ y \in 0..r-1 /\ k = q * r + y  BY <1>1, <1>2, DivMod
<1> HIDE DEF q, y
<1>6. ~ (c <= q)
    <2> SUFFICES ASSUME c <= q PROVE FALSE  OBVIOUS
    <2>1. c * r <= q * r  BY <1>2, <1>3, <1>5, Monotone
    <2>2. q * r \in Nat  BY <1>2, <1>5
    <2> QED BY <1>4, <1>5, <2>1, <2>2
<1>7. q \in 0..stripe-1  BY <1>3, <1>5, <1>6
<1>8. b \in Nat  BY <1>7, Guarded
<1>9. BorrowedEntry(grp, ids, stripe, i, k) = b * r + y
    BY DEF BorrowedEntry, b, q, y, r, m, g
<1> HIDE DEF b
<1>10. (b * r + y) * g = b * m + y * g
    <2>1. b * r \in Nat /\ y \in Nat  BY <1>2, <1>5, <1>8
    <2>2. (b * r + y) * g = (b * r) * g + y * g  BY <2>1, <1>1
    <2>3. (b * r) * g = b * (r * g)  BY <1>1, <1>2, <1>8
    <2> QED BY <2>2, <2>3, <1>2
<1>11. y * g \in 0..m-1
    <2>1. y \in Nat /\ y + 1 <= r  BY <1>2, <1>5
    <2>2. (y + 1) * g <= r * g  BY <2>1, <1>1, <1>2, Monotone
    <2>3. (y + 1) * g = y * g + g /\ y * g \in Nat  BY <2>1, <1>1
    <2> QED BY <2>2, <2>3, <1>1, <1>2
<1>12. (b * m + y * g) \div m = b  BY <1>1, <1>8, <1>11, DivOf
<1>13. (BorrowedEntry(grp, ids, stripe, i, k) * g) \div m = b  BY <1>9, <1>10, <1>12
<1> QED BY <1>7, <1>13 DEF b, q, r, m, g

\* _borrowed_layout: when the guards pass on a lease of distinct blocks, the forward
\* writes leased blocks only, no two tokens share a slot, and the table, in kernel
\* units, names leased blocks only and leads attention to the slot of every token.
THEOREM BorrowedSound ==
    ASSUME NEW n \in Nat, NEW len \in Nat, NEW grp \in [g : Nat \ {0}, m : Nat \ {0}],
           NEW ids \in Seq(Nat), NEW stripe \in Nat, Fits(n, len, grp, ids, stripe),
           Distinct(ids)
    PROVE  LET layout == BorrowedLayout(n, len, grp, ids, stripe)
           IN  /\ Written(layout, grp) \subseteq {ids[a] : a \in 1..Len(ids)}
               /\ Named(layout, grp) \subseteq {ids[a] : a \in 1..Len(ids)}
               /\ Injective(layout)
               /\ ReadsBack(layout, grp)
<1> DEFINE layout == BorrowedLayout(n, len, grp, ids, stripe)
           slot(i, t) == BorrowedSlot(grp, ids, stripe, i, t)
           width == Ceil(len, grp.m) * (grp.m \div grp.g)
<1>1. /\ DOMAIN layout.slot = (0..n-1) \X (0..len-1)
      /\ \A i \in 0..n-1, t \in 0..len-1 : layout.slot[<<i, t>>] = slot(i, t)
    BY DEF BorrowedLayout
<1>2. \A i \in 0..n-1, k \in 0..width-1 :
          layout.table[<<i, k>>] = BorrowedEntry(grp, ids, stripe, i, k)
    BY DEF BorrowedLayout
<1>3. Written(layout, grp) \subseteq {ids[a] : a \in 1..Len(ids)}
    <2> SUFFICES ASSUME NEW p \in DOMAIN layout.slot
                 PROVE  layout.slot[p] \div grp.m \in {ids[a] : a \in 1..Len(ids)}
        BY DEF Written
    <2> PICK i \in 0..n-1, t \in 0..len-1 : p = <<i, t>>  BY <1>1
    <2>1. slot(i, t) \div grp.m = Block(ids, stripe, i, t \div grp.m)  BY SlotParts
    <2>2. i * stripe + (t \div grp.m) + 1 \in 1..Len(ids)  BY Guarded
    <2>3. layout.slot[p] = slot(i, t)  BY <1>1
    <2> QED BY <2>1, <2>2, <2>3 DEF Block
<1>4. Injective(layout)
    <2> SUFFICES ASSUME NEW p \in DOMAIN layout.slot, NEW q \in DOMAIN layout.slot,
                        layout.slot[p] = layout.slot[q]
                 PROVE  p = q
        BY DEF Injective
    <2> PICK i \in 0..n-1, t \in 0..len-1 : p = <<i, t>>  BY <1>1
    <2> PICK j \in 0..n-1, u \in 0..len-1 : q = <<j, u>>  BY <1>1
    <2>1. slot(i, t) = slot(j, u)
        <3>1. layout.slot[<<i, t>>] = slot(i, t) /\ layout.slot[<<j, u>>] = slot(j, u)
            BY <1>1
        <3> HIDE DEF layout, slot
        <3> QED BY <3>1
    <2>2. i = j /\ t = u  BY <2>1, SameToken
    <2> QED BY <2>2
<1>5. ReadsBack(layout, grp)
    <2> SUFFICES ASSUME NEW i \in 0..n-1, NEW t \in 0..len-1
                 PROVE  layout.slot[<<i, t>>]
                            = (layout.table[<<i, t \div grp.g>>] * grp.g) + (t % grp.g)
        BY <1>1 DEF ReadsBack
    <2>1. t \div grp.g \in 0..width-1  BY Guarded
    <2>2. layout.table[<<i, t \div grp.g>>] = BorrowedEntry(grp, ids, stripe, i, t \div grp.g)
        BY <1>2, <2>1
    <2> QED BY <1>1, <2>2, EntryOfToken
<1>6. Named(layout, grp) \subseteq {ids[a] : a \in 1..Len(ids)}
    <2>1. DOMAIN layout.table = (0..n-1) \X (0..width-1)  BY DEF BorrowedLayout
    <2> SUFFICES ASSUME NEW p \in DOMAIN layout.table
                 PROVE  (layout.table[p] * grp.g) \div grp.m \in {ids[a] : a \in 1..Len(ids)}
        BY DEF Named
    <2> PICK i \in 0..n-1, k \in 0..width-1 : p = <<i, k>>  BY <2>1
    <2> HIDE DEF layout
    <2> DEFINE q == k \div (grp.m \div grp.g)
    <2>2. q \in 0..stripe-1  BY EntryBlock
    <2>3. i * stripe + q + 1 \in 1..Len(ids)  BY <2>2, Guarded
    <2>4. layout.table[<<i, k>>] = BorrowedEntry(grp, ids, stripe, i, k)  BY <1>2
    <2>5. (BorrowedEntry(grp, ids, stripe, i, k) * grp.g) \div grp.m = Block(ids, stripe, i, q)
        BY EntryBlock
    <2> QED BY <2>3, <2>4, <2>5 DEF Block
<1> QED BY <1>3, <1>4, <1>5, <1>6

----------------------------------------------------------------------------
(* The layout over blocks 0..N.                                            *)

\* Padding a sequence to whole kernel blocks leaves room for its tokens.
LEMMA Padded ==
    ASSUME NEW g \in Nat \ {0}, NEW len \in Nat, NEW t \in 0..len-1
    PROVE  /\ Ceil(len, g) * g \in Nat \ {0}
           /\ t \in 0..(Ceil(len, g) * g)-1
           /\ t = (t \div g) * g + (t % g)
           /\ t \div g \in 0..Ceil(len, g)-1
           /\ t % g \in Nat
<1> DEFINE c == Ceil(len, g)
           q == t \div g
           x == t % g
<1>1. q \in Nat /\ x \in 0..g-1 /\ t = q * g + x
    <2>1. t \in Nat  OBVIOUS
    <2> QED BY <2>1, DivMod
<1>2. q < c /\ c \in Nat  BY CeilCovers
<1> HIDE DEF c, q, x
<1>3. (q + 1) * g <= c * g  BY <1>1, <1>2, Monotone
<1>4. (q + 1) * g = q * g + g /\ q * g \in Nat /\ c * g \in Nat  BY <1>1, <1>2
<1> DEFINE w == c * g
           v == q * g
<1>5. v + g <= w /\ v \in Nat /\ w \in Nat /\ t = v + x  BY <1>1, <1>3, <1>4
<1> HIDE DEF w, v
<1>6. w \in Nat \ {0} /\ t \in 0..w-1  BY <1>1, <1>5
<1>7. q \in 0..c-1 /\ x \in Nat  BY <1>1, <1>2
<1> QED BY <1>1, <1>6, <1>7 DEF w, c, q, x

\* _inplace_layout: the slots are those of blocks 0 .. n * blocks_per_seq, no two tokens
\* share one, and the table leads to them.
THEOREM InplaceSound ==
    ASSUME NEW n \in Nat, NEW len \in Nat, NEW grp \in [g : Nat \ {0}, m : Nat \ {0}]
    PROVE  LET layout == InplaceLayout(n, len, grp)
           IN  /\ \A p \in DOMAIN layout.slot :
                      layout.slot[p] \in 0..(n * (Ceil(len, grp.g) * grp.g))-1
               /\ Injective(layout)
               /\ ReadsBack(layout, grp)
<1> DEFINE layout == InplaceLayout(n, len, grp)
           c == Ceil(len, grp.g)
           w == c * grp.g
<1>1. /\ DOMAIN layout.slot = (0..n-1) \X (0..len-1)
      /\ \A i \in 0..n-1, t \in 0..len-1 : layout.slot[<<i, t>>] = i * w + t
    BY DEF InplaceLayout
<1>2. \A i \in 0..n-1, k \in 0..c-1 : layout.table[<<i, k>>] = i * c + k
    BY DEF InplaceLayout
<1>3. ASSUME NEW p \in DOMAIN layout.slot
      PROVE  layout.slot[p] \in 0..(n * w)-1
    <2> PICK i \in 0..n-1, t \in 0..len-1 : p = <<i, t>>  BY <1>1
    <2>1. layout.slot[p] = i * w + t  BY <1>1
    <2>2. w \in Nat \ {0} /\ t \in 0..w-1  BY Padded
    <2> HIDE DEF w
    <2>3. i * w + t + 1 \in 1..(n * w)
        <3>1. n * w \in Nat /\ w \in Nat  BY <2>2
        <3> QED BY <2>2, <3>1, Indexed
    <2>4. i * w + t \in Nat /\ n * w \in Nat  BY <2>2
    <2> QED BY <2>1, <2>3, <2>4
<1>4. Injective(layout)
    <2> SUFFICES ASSUME NEW i \in 0..n-1, NEW t \in 0..len-1,
                        NEW j \in 0..n-1, NEW u \in 0..len-1, i * w + t = j * w + u
                 PROVE  i = j /\ t = u
        BY <1>1 DEF Injective
    <2>1. w \in Nat \ {0} /\ t \in 0..w-1 /\ u \in 0..w-1  BY Padded
    <2>2. i \in Nat /\ j \in Nat  OBVIOUS
    <2> HIDE DEF w
    <2> QED BY <2>1, <2>2, MixedRadix
<1>5. ReadsBack(layout, grp)
    <2> SUFFICES ASSUME NEW i \in 0..n-1, NEW t \in 0..len-1
                 PROVE  layout.slot[<<i, t>>]
                            = (layout.table[<<i, t \div grp.g>>] * grp.g) + (t % grp.g)
        BY <1>1 DEF ReadsBack
    <2> DEFINE g == grp.g
               k == t \div g
               x == t % g
    <2>1. k \in 0..c-1 /\ t = k * g + x /\ x \in Nat  BY Padded
    <2>2. layout.slot[<<i, t>>] = i * w + t /\ layout.table[<<i, k>>] = i * c + k
        BY <1>1, <1>2, <2>1
    <2>3. c \in Nat /\ g \in Nat  BY <2>1, CeilCovers
    <2> HIDE DEF layout, g, k, x, c
    <2>4. i * (c * g) + (k * g + x) = (i * c + k) * g + x
        <3>1. i * c \in Nat /\ k \in Nat /\ k * g \in Nat /\ (i * c) * g \in Nat
            BY <2>1, <2>3
        <3>2. (i * c + k) * g = (i * c) * g + k * g  BY <3>1, <2>3
        <3>3. (i * c) * g = i * (c * g)  BY <2>3
        <3> QED BY <3>1, <3>2, <3>3, <2>1
    <2> QED BY <2>1, <2>2, <2>4 DEF g, k, x
<1> QED BY <1>3, <1>4, <1>5

----------------------------------------------------------------------------
(* The lease that the engine grants.                                       *)

\* A bounded set of numbers has a greatest element.
LEMMA Greatest ==
    ASSUME NEW S \in SUBSET Nat, S # {}, NEW b \in Nat, \A x \in S : x <= b
    PROVE  \E x \in S : \A y \in S : x >= y
<1> DEFINE U == {u \in Nat : \A x \in S : x <= u}
           R == OpToRel(<, Nat)
<1>1. U \subseteq Nat /\ U # {}  OBVIOUS
<1>2. IsWellFoundedOn(R, Nat)  BY NatLessThanWellFounded
<1>3. PICK u \in U : \A v \in U : ~ (<<v, u>> \in R)
    <2> HIDE DEF U, R
    <2> QED BY <1>1, <1>2, WFMin
<1>4. \A v \in U : ~ (v < u)
    <2> SUFFICES ASSUME NEW v \in U, v < u PROVE FALSE  OBVIOUS
    <2>1. <<v, u>> \in R  BY <1>1 DEF OpToRel
    <2> QED BY <2>1, <1>3
<1>5. u \in S
    <2> SUFFICES ASSUME u \notin S PROVE FALSE  OBVIOUS
    <2>1. \A x \in S : x < u  OBVIOUS
    <2>2. u # 0
        <3> PICK x \in S : TRUE  OBVIOUS
        <3>1. x \in Nat /\ x < u  BY <2>1
        <3> QED BY <3>1
    <2>3. u - 1 \in U  BY <2>1, <2>2
    <2> QED BY <2>3, <1>4
<1> QED BY <1>5

\* blocks_per_seq is what the most demanding group needs, and no group needs more.
LEMMA StripeCovers ==
    ASSUME NEW groups \in SUBSET [g : Nat \ {0}, m : Nat \ {0}], groups # {},
           NEW len \in Nat
    PROVE  /\ Stripe(groups, len) \in Nat
           /\ \A grp \in groups : Ceil(len, grp.m) <= Stripe(groups, len)
<1> DEFINE S == {Ceil(len, grp.m) : grp \in groups}
<1>1. \A grp \in groups : Ceil(len, grp.m) \in 0..len  BY CeilBound
<1>2. S \in SUBSET Nat /\ S # {} /\ \A x \in S : x <= len  BY <1>1
<1>3. \E x \in S : \A y \in S : x >= y
    <2> HIDE DEF S
    <2> QED BY <1>2, Greatest
<1>4. \E s \in S : \A grp \in groups : s >= Ceil(len, grp.m)  BY <1>3
<1>5. /\ Stripe(groups, len) \in S
      /\ \A grp \in groups : Stripe(groups, len) >= Ceil(len, grp.m)
    BY <1>4 DEF Stripe
<1> QED BY <1>1, <1>2, <1>5

\* gonka_poc_borrow_blocks: a granted lease, used for no more sequences than it was
\* asked for, passes the guards of every group, and it names free blocks, each once.
THEOREM LeaseFits ==
    ASSUME NEW groups \in SUBSET [g : Nat \ {0}, m : Nat \ {0}], groups # {},
           \A grp \in groups : grp.m % grp.g = 0,
           NEW batch \in Nat, NEW n \in 0..batch, NEW len \in Nat,
           NEW free \in Seq(Nat), Distinct(free),
           Borrow(batch, len, groups, free) # <<>>
    PROVE  LET ids == Borrow(batch, len, groups, free)
           IN  /\ ids \in Seq(Nat) /\ Distinct(ids)
               /\ \A grp \in groups : Fits(n, len, grp, ids, Stripe(groups, len))
               /\ {ids[a] : a \in 1..Len(ids)} \subseteq {free[a] : a \in 1..Len(free)}
<1> DEFINE s == Stripe(groups, len)
           needed == batch * s
           ids == Borrow(batch, len, groups, free)
<1>1. s \in Nat /\ \A grp \in groups : Ceil(len, grp.m) <= s  BY StripeCovers
<1>2. needed \in Nat  BY <1>1
<1>3. needed <= Len(free) /\ ids = SubSeq(free, 1, needed)
    <2> HIDE DEF s
    <2>1. ~ (needed > Len(free)) /\ ids = SubSeq(free, 1, needed)  BY DEF Borrow, s
    <2> QED BY <1>2, <2>1
<1> HIDE DEF needed, ids
<1>4. /\ ids \in Seq(Nat) /\ Len(ids) = needed
      /\ \A a \in 1..needed : ids[a] = free[a] /\ a \in 1..Len(free)
    BY <1>2, <1>3
<1>5. Distinct(ids)  BY <1>4 DEF Distinct
<1>6. n * s <= needed
    <2>1. n \in Nat /\ n <= batch  OBVIOUS
    <2> HIDE DEF s
    <2> QED BY <1>1, <2>1, Monotone DEF needed
<1>7. \A grp \in groups : Fits(n, len, grp, ids, s)
    BY <1>1, <1>4, <1>6 DEF Fits
<1> QED BY <1>4, <1>5, <1>7 DEF ids
=============================================================================
