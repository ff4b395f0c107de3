---------------------------- MODULE Argument_proofs ----------------------------
(***************************************************************************)
(* Proofs about the argument, for every tape, code and chunk size.          *)
(*                                                                         *)
(* First the tree and the digest of a column: any number of leaves, any     *)
(* number of rows, any cut of the rows into pieces.  Then the layout, the   *)
(* groups of the claims and the pieces a sweep emits, up to the inductive   *)
(* invariant of the sweep (SweepInv): every row is folded once.  Then both  *)
(* together: the pieces that arrive for a block are its rows in order, so   *)
(* its leaves are the digests of its columns, and with LeavesInv what the   *)
(* proof opens verifies at its own place alone.                             *)
(***************************************************************************)
EXTENDS Argument, FiniteSetTheorems, TLAPS
T == INSTANCE Tape_proofs

CH == BLAKE3_CHUNK_ROWS

---------------------------------------------------------------------------
(* Numbers.                                                                 *)

\* A set that holds 0 and with each number below n the next one.
LEMMA UpTo ==
  ASSUME NEW n \in Nat, NEW S, 0 \in S, \A k \in 1 .. n : k - 1 \in S => k \in S
  PROVE  0 .. n \subseteq S
<1> DEFINE K == {k \in Nat : k <= n => k \in S}
<1>1. 0 \in K
  OBVIOUS
<1>2. ASSUME NEW k \in Nat, k \in K PROVE k + 1 \in K
  <2> SUFFICES ASSUME k + 1 <= n PROVE k + 1 \in S
    OBVIOUS
  <2>1. k + 1 \in 1 .. n /\ (k + 1) - 1 = k /\ k <= n
    OBVIOUS
  <2> QED BY <1>2, <2>1
<1> HIDE DEF K
<1>3. Nat \subseteq K
  BY <1>1, <1>2, T!NatIsLeast
<1> QED BY <1>3 DEF K

\* Two functions that agree at 0 and, where they agree, one further.
Agree(n, f, g) == f[0] = g[0] /\ \A k \in 1 .. n : f[k - 1] = g[k - 1] => f[k] = g[k]
\* Two functions that agree round by round agree throughout.
LEMMA SameRounds ==
  ASSUME NEW n \in Nat, NEW f, NEW g, Agree(n, f, g)
  PROVE  \A k \in 0 .. n : f[k] = g[k]
<1> DEFINE S == {k \in 0 .. n : f[k] = g[k]}
<1>1. 0 \in S /\ \A k \in 1 .. n : k - 1 \in S => k \in S
  BY DEF Agree
<1> HIDE DEF S
<1>2. 0 .. n \subseteq S
  BY <1>1, UpTo
<1> QED BY <1>2 DEF S

\* Powers of two.
LEMMA Pow2Is ==
  /\ Pow2[0] = 1
  /\ \A k \in Nat : Pow2[k] \in Nat /\ Pow2[k] > 0 /\ Pow2[k + 1] = 2 * Pow2[k]
<1> DEFINE Is(g, D) == g = [k \in D |-> IF k = 0 THEN 1 ELSE 2 * g[k - 1]]
           K == {k \in Nat : \E g : Is(g, 0 .. k)}
<1>1. ASSUME NEW D, NEW g, Is(g, D), NEW k \in D
      PROVE  g[k] = IF k = 0 THEN 1 ELSE 2 * g[k - 1]
  <2> DEFINE e(j) == IF j = 0 THEN 1 ELSE 2 * g[j - 1]
  <2>1. g = [j \in D |-> e(j)]
    BY <1>1
  <2> HIDE DEF e, Is
  <2>2. g[k] = e(k)
    BY <2>1
  <2> QED BY <2>2 DEF e
<1>2. 0 \in K
  <2> DEFINE g == [k \in 0 .. 0 |-> 1]
  <2>1. Is(g, 0 .. 0)
    OBVIOUS
  <2> HIDE DEF g
  <2> QED BY <2>1
<1>3. ASSUME NEW k \in Nat, k \in K PROVE k + 1 \in K
  <2>1. PICK g : Is(g, 0 .. k)
    BY <1>3
  <2> DEFINE h == [j \in 0 .. k + 1 |-> IF j = 0 THEN 1 ELSE 2 * g[j - 1]]
  <2> HIDE DEF Is
  <2>2. \A j \in 0 .. k : h[j] = g[j]
    <3>1. \A j \in 0 .. k : j \in 0 .. k + 1
      OBVIOUS
    <3> QED BY <1>1, <2>1, <3>1
  <2>3. \A j \in 0 .. k + 1 : j # 0 => j - 1 \in 0 .. k
    OBVIOUS
  <2>4. h = [j \in 0 .. k + 1 |-> h[j]] /\ \A j \in 0 .. k + 1 : h[j] = IF j = 0 THEN 1 ELSE 2 * g[j - 1]
    OBVIOUS
  <2> HIDE DEF h
  <2>5. \A j \in 0 .. k + 1 : h[j] = IF j = 0 THEN 1 ELSE 2 * h[j - 1]
    BY <2>2, <2>3, <2>4
  <2>6. Is(h, 0 .. k + 1)
    BY <2>4, <2>5 DEF Is
  <2> QED BY <2>6
<1> DEFINE G(k) == CHOOSE g : Is(g, 0 .. k)
           p == [k \in Nat |-> G(k)[k]]
<1>4. ASSUME NEW k \in Nat PROVE Is(G(k), 0 .. k)
  <2> HIDE DEF Is, K
  <2>1. Nat \subseteq K
    BY <1>2, <1>3, T!NatIsLeast
  <2>2. PICK g : Is(g, 0 .. k)
    BY <2>1 DEF K
  <2> QED BY <2>2
<1>5. ASSUME NEW k \in Nat \ {0} PROVE G(k)[k - 1] = G(k - 1)[k - 1]
  <2> DEFINE f == G(k)
             g == G(k - 1)
  <2>0. k \in Nat /\ k - 1 \in Nat
    OBVIOUS
  <2> HIDE DEF G, Is
  <2>1. Is(f, 0 .. k) /\ Is(g, 0 .. k - 1)
    BY <1>4, <2>0
  <2> HIDE DEF f, g
  <2>2. f[0] = g[0]
    BY <1>1, <2>1
  <2>3. ASSUME NEW j \in 1 .. k - 1, f[j - 1] = g[j - 1] PROVE f[j] = g[j]
    <3>1. j \in 0 .. k /\ j \in 0 .. k - 1 /\ j # 0
      BY <2>0
    <3>2. f[j] = 2 * f[j - 1]
      BY <1>1, <2>1, <3>1
    <3>3. g[j] = 2 * g[j - 1]
      BY <1>1, <2>1, <3>1
    <3> QED BY ONLY <2>3, <3>2, <3>3
  <2>4. \A j \in 0 .. k - 1 : f[j] = g[j]
    <3>1. k - 1 \in Nat /\ Agree(k - 1, f, g)
      BY <2>0, <2>2, <2>3 DEF Agree
    <3> QED BY ONLY <3>1, SameRounds
  <2> QED BY <2>1, <2>4 DEF f, g
<1>6. ASSUME NEW k \in Nat PROVE p[k] = IF k = 0 THEN 1 ELSE 2 * p[k - 1]
  <2>1. k \in 0 .. k /\ (k # 0 => k - 1 \in Nat)
    OBVIOUS
  <2>2. p[k] = G(k)[k] /\ (k # 0 => p[k - 1] = G(k - 1)[k - 1])
    BY <2>1
  <2> HIDE DEF p, G, Is
  <2>3. G(k)[k] = IF k = 0 THEN 1 ELSE 2 * G(k)[k - 1]
    BY <1>1, <1>4, <2>1
  <2> QED BY <1>5, <2>2, <2>3
<1>7. p = [k \in Nat |-> p[k]]
  OBVIOUS
<1> HIDE DEF p, G
<1>8. Is(p, Nat)
  BY <1>6, <1>7
<1>9. Pow2 = CHOOSE g : Is(g, Nat)
  BY DEF Pow2
<1> HIDE DEF Is, K
<1>10. Is(Pow2, Nat)
  BY <1>8, <1>9
<1>11. Pow2[0] = 1 /\ \A k \in Nat : Pow2[k + 1] = 2 * Pow2[k]
  <2>1. ASSUME NEW k \in Nat PROVE k + 1 \in Nat /\ k + 1 # 0 /\ (k + 1) - 1 = k
    OBVIOUS
  <2> QED BY <1>1, <1>10, <2>1
<1> DEFINE S == {k \in Nat : Pow2[k] \in Nat /\ Pow2[k] > 0}
<1>12. 0 \in S /\ \A k \in Nat : k \in S => k + 1 \in S
  BY <1>11
<1> HIDE DEF S
<1>13. Nat \subseteq S
  BY <1>12, T!NatIsLeast
<1> QED BY <1>11, <1>13 DEF S

\* A power of two divides the ones above it, and at least doubles.
LEMMA Pow2Grows ==
  ASSUME NEW k \in Nat
  PROVE  /\ k < Pow2[k]
         /\ \A j \in 0 .. k : Pow2[j] <= Pow2[k] /\ \E r \in Nat : Pow2[k] = Pow2[j] * r
         /\ \A j \in 0 .. k - 1 : 2 * Pow2[j] <= Pow2[k]
<1> DEFINE OK(i) == /\ i < Pow2[i]
                    /\ \A j \in 0 .. i : Pow2[j] <= Pow2[i] /\ \E r \in Nat : Pow2[i] = Pow2[j] * r
           S == {i \in Nat : OK(i)}
<1>1. 0 \in S
  <2>1. \A j \in 0 .. 0 : j = 0
    OBVIOUS
  <2>2. Pow2[0] = Pow2[0] * 1
    BY Pow2Is
  <2> QED BY <2>1, <2>2, Pow2Is
<1>2. ASSUME NEW i \in Nat, i \in S PROVE i + 1 \in S
  <2>1. Pow2[i + 1] = 2 * Pow2[i] /\ Pow2[i] \in Nat /\ Pow2[i] > 0 /\ i < Pow2[i] /\ Pow2[i + 1] \in Nat
    BY <1>2, Pow2Is
  <2>2. i + 1 < Pow2[i + 1]
    BY <2>1
  <2>3. ASSUME NEW j \in 0 .. i + 1
        PROVE  Pow2[j] <= Pow2[i + 1] /\ \E r \in Nat : Pow2[i + 1] = Pow2[j] * r
    <3>1. CASE j = i + 1
      <4>1. Pow2[i + 1] = Pow2[j] * 1
        BY <2>1, <3>1
      <4> QED BY <2>1, <3>1, <4>1
    <3>2. CASE j # i + 1
      <4>1. j \in 0 .. i /\ j \in Nat
        BY <3>2
      <4>2. PICK r \in Nat : Pow2[i] = Pow2[j] * r
        BY <1>2, <4>1
      <4>3. Pow2[j] <= Pow2[i] /\ Pow2[j] \in Nat
        BY <1>2, <4>1, Pow2Is
      <4>4. Pow2[i + 1] = Pow2[j] * (2 * r) /\ 2 * r \in Nat
        BY <2>1, <4>2, <4>3
      <4> QED BY <2>1, <4>3, <4>4
    <3> QED BY <3>1, <3>2
  <2> QED BY <2>2, <2>3
<1> HIDE DEF S, OK
<1>3. Nat \subseteq S
  BY <1>1, <1>2, T!NatIsLeast
<1>4. \A i \in Nat : OK(i)
  BY <1>3 DEF S
<1>5. ASSUME NEW j \in 0 .. k - 1 PROVE 2 * Pow2[j] <= Pow2[k]
  <2>1. j + 1 \in 0 .. k /\ j \in Nat
    OBVIOUS
  <2> QED BY <1>4, <2>1, Pow2Is DEF OK
<1> QED BY <1>4, <1>5 DEF OK

\* At most one power of two is below s and not below its half.
LEMMA OneBetween ==
  ASSUME NEW i \in Nat, NEW k \in Nat, NEW s \in Nat,
         Pow2[i] < s, s <= 2 * Pow2[i], Pow2[k] < s, s <= 2 * Pow2[k]
  PROVE  i = k
<1>1. ASSUME NEW a \in Nat, NEW b \in Nat, a < b, s <= 2 * Pow2[a], Pow2[b] < s PROVE FALSE
  <2>1. a \in 0 .. b - 1
    BY <1>1
  <2>2. 2 * Pow2[a] <= Pow2[b] /\ Pow2[a] \in Nat /\ Pow2[b] \in Nat
    BY <2>1, Pow2Grows, Pow2Is
  <2> QED BY <1>1, <2>2
<1>2. ~(i < k) /\ ~(k < i)
  BY <1>1
<1> QED BY <1>2

\* The least power of two that is not below n.
LEMMA DepthIs ==
  ASSUME NEW n \in Nat \ {0}
  PROVE  /\ merkle_depth(n) \in 0 .. n /\ Pow2[merkle_depth(n)] >= n
         /\ merkle_depth(n) = 0 \/ Pow2[merkle_depth(n) - 1] < n
<1> DEFINE S == {k \in Nat : Pow2[k] >= n}
<1>1. n \in S
  <2>1. n \in Nat /\ n < Pow2[n] /\ Pow2[n] \in Nat
    BY Pow2Grows, Pow2Is
  <2> QED BY <2>1
<1>2. PICK d \in S : \A k \in S : d <= k
  BY <1>1, T!LeastElement
<1>3. d = 0 \/ Pow2[d - 1] < n
  <2> SUFFICES ASSUME d # 0 PROVE Pow2[d - 1] < n
    OBVIOUS
  <2>1. d - 1 \in Nat /\ ~(d <= d - 1)
    BY <1>2
  <2>2. d - 1 \notin S /\ Pow2[d - 1] \in Nat
    BY <1>2, <2>1, Pow2Is
  <2> QED BY <2>1, <2>2
<1>4. d \in 0 .. n /\ Pow2[d] >= n
  BY <1>1, <1>2
<1> HIDE DEF S
<1> QED BY <1>3, <1>4 DEF merkle_depth

\* The left part of a tree of two chunks or more.
LEMMA LeftIs ==
  ASSUME NEW size \in Nat, size >= 2
  PROVE  /\ \E k \in Nat : LeftSize(size) = Pow2[k]
         /\ LeftSize(size) \in 1 .. size - 1 /\ size <= 2 * LeftSize(size)
         /\ \A k \in Nat : Pow2[k] < size /\ size <= 2 * Pow2[k] => LeftSize(size) = Pow2[k]
<1> DEFINE OK(k) == Pow2[k] < size /\ size <= 2 * Pow2[k]
           c == CHOOSE k \in 0 .. size : OK(k)
<1>1. \E k \in 0 .. size : OK(k)
  <2>1. merkle_depth(size) \in 1 .. size /\ Pow2[merkle_depth(size)] >= size
        /\ Pow2[merkle_depth(size) - 1] < size
    <3>1. merkle_depth(size) # 0
      BY DepthIs, Pow2Is
    <3> QED BY <3>1, DepthIs
  <2>2. merkle_depth(size) - 1 \in 0 .. size /\ merkle_depth(size) - 1 \in Nat
        /\ (merkle_depth(size) - 1) + 1 = merkle_depth(size)
    BY <2>1
  <2>3. OK(merkle_depth(size) - 1)
    BY <2>1, <2>2, Pow2Is
  <2> QED BY <2>2, <2>3
<1>2. c \in 0 .. size /\ OK(c) /\ LeftSize(size) = Pow2[c]
  BY <1>1 DEF LeftSize
<1> HIDE DEF c
<1>3. c \in Nat /\ Pow2[c] \in Nat /\ Pow2[c] > 0
  BY <1>2, Pow2Is
<1>4. LeftSize(size) \in 1 .. size - 1 /\ size <= 2 * LeftSize(size)
  BY <1>2, <1>3
<1>5. \A k \in Nat : OK(k) => k = c
  BY <1>2, <1>3, OneBetween
<1> QED BY <1>2, <1>3, <1>4, <1>5

\* Division with remainder.
Divides(p, m) == \E q \in Nat : m = p * q

\* A quotient and a remainder below the divisor are the quotient and the remainder.
LEMMA DivIs ==
  ASSUME NEW p \in Nat, p > 0, NEW q \in Nat, NEW r \in Nat, r < p, NEW m, m = p * q + r
  PROVE  m \div p = q /\ m % p = r
<1> DEFINE d == m \div p
           e == m % p
<1>1. p * q \in Nat /\ m \in Nat
  OBVIOUS
<1>2. d \in Nat /\ e \in Nat /\ e < p /\ m = p * d + e
  BY <1>1
<1> HIDE DEF d, e
<1>3. ASSUME NEW a \in Nat, NEW b \in Nat, a < b PROVE p * a + p <= p * b
  <2>1. PICK c \in Nat : b = a + 1 + c
    <3>1. b - a - 1 \in Nat /\ b = a + 1 + (b - a - 1)
      BY <1>3
    <3> QED BY <3>1
  <2>2. p * b = p * a + p + p * c /\ p * c \in Nat /\ p * a \in Nat
    BY <2>1
  <2> QED BY <2>2
<1>4. p * d \in Nat
  BY <1>2
<1>5. ~(q < d) /\ ~(d < q)
  BY <1>1, <1>2, <1>3, <1>4
<1>6. q = d
  BY <1>2, <1>5
<1> QED BY <1>1, <1>2, <1>6 DEF d, e

\* A number divides another when no remainder is left.
LEMMA Divisible ==
  ASSUME NEW p \in Nat, p > 0, NEW m \in Nat
  PROVE  m % p = 0 <=> Divides(p, m)
<1>1. m \div p \in Nat /\ m = p * (m \div p) + (m % p)
  OBVIOUS
<1>2. ASSUME m % p = 0 PROVE Divides(p, m)
  <2>1. m = p * (m \div p)
    BY <1>1, <1>2
  <2> QED BY <1>1, <2>1 DEF Divides
<1>3. ASSUME NEW q \in Nat, m = p * q PROVE m % p = 0
  <2>1. m = p * q + 0
    BY <1>3
  <2> QED BY <2>1, DivIs
<1> QED BY <1>2, <1>3 DEF Divides

\* m = 2^k * (an odd number): the count of its trailing zeros is k.
LEMMA ZerosAre ==
  ASSUME NEW k \in Nat, NEW q \in Nat, NEW m \in Nat, m = Pow2[k] * (2 * q + 1)
  PROVE  TrailingZeros(m) = k /\ m > 0
<1> DEFINE OK(j) == m % Pow2[j] = 0 /\ m % Pow2[j + 1] # 0
<1>0. /\ Pow2[k] \in Nat /\ Pow2[k] > 0 /\ Pow2[k + 1] \in Nat /\ Pow2[k + 1] > 0
      /\ Pow2[k + 1] = 2 * Pow2[k] /\ 2 * q + 1 \in Nat /\ k + 1 \in Nat
  BY Pow2Is
<1>1. m % Pow2[k] = 0
  <2>1. Divides(Pow2[k], m)
    BY <1>0 DEF Divides
  <2> QED BY <1>0, <2>1, Divisible
<1>2. m % Pow2[k + 1] # 0
  <2> SUFFICES ASSUME Divides(Pow2[k + 1], m) PROVE FALSE
    BY <1>0, Divisible
  <2>0. PICK c \in Nat : m = Pow2[k + 1] * c
    BY DEF Divides
  <2> DEFINE p == Pow2[k]
  <2>1. p \in Nat /\ p > 0 /\ p * (2 * q + 1) = (2 * p) * c
    BY <1>0, <2>0
  <2> HIDE DEF p
  <2>2. p * (2 * q + 1) = p * (2 * c)
    BY <2>1
  <2>3. 2 * q + 1 = 2 * c
    <3> DEFINE a == 2 * q + 1
               b == 2 * c
    <3>1. a \in Nat /\ b \in Nat /\ p * a = p * b
      BY <2>2
    <3> HIDE DEF a, b
    <3>2. a = (p * a) \div p /\ b = (p * b) \div p
      <4>1. p * a = p * a + 0 /\ p * b = p * b + 0
        BY <2>1, <3>1
      <4> QED BY <2>1, <3>1, <4>1, DivIs
    <3>3. a = b
      BY <3>1, <3>2
    <3> QED BY <3>3 DEF a, b
  <2> QED BY <2>3
<1>3. k \in 0 .. m /\ m > 0
  <2>1. k < Pow2[k]
    BY Pow2Grows
  <2>2. Pow2[k] * (2 * q + 1) = Pow2[k] + Pow2[k] * (2 * q) /\ Pow2[k] * (2 * q) \in Nat
    BY <1>0
  <2> QED BY <1>0, <2>1, <2>2
\* What a greater power divides, a smaller one does.
<1>4. ASSUME NEW a \in Nat, NEW b \in Nat, a <= b, m % Pow2[b] = 0 PROVE m % Pow2[a] = 0
  <2>1. PICK r \in Nat : Pow2[b] = Pow2[a] * r
    <3>1. a \in 0 .. b
      BY <1>4
    <3> QED BY <3>1, Pow2Grows
  <2>2. Pow2[a] \in Nat /\ Pow2[a] > 0 /\ Pow2[b] \in Nat /\ Pow2[b] > 0
    BY Pow2Is
  <2>3. PICK c \in Nat : m = Pow2[b] * c
    BY <1>4, <2>2, Divisible DEF Divides
  <2>4. m = Pow2[a] * (r * c) /\ r * c \in Nat
    BY <2>1, <2>2, <2>3
  <2>5. Divides(Pow2[a], m)
    BY <2>4 DEF Divides
  <2> QED BY <2>2, <2>5, Divisible
<1>5. ASSUME NEW j \in 0 .. m, OK(j) PROVE j = k
  <2>0. j \in Nat
    OBVIOUS
  <2>1. CASE j < k
    <3>1. j + 1 \in Nat /\ j + 1 <= k
      BY <2>0, <2>1
    <3> QED BY <1>1, <1>4, <1>5, <3>1
  <2>2. CASE j > k
    <3>1. k + 1 \in Nat /\ k + 1 <= j
      BY <2>0, <2>2
    <3> QED BY <1>2, <1>4, <1>5, <2>0, <3>1
  <2> QED BY <2>0, <2>1, <2>2
<1> QED BY <1>1, <1>2, <1>3, <1>5 DEF TrailingZeros

\* Every positive number is one.
LEMMA ZerosExist ==
  ASSUME NEW m \in Nat, m > 0
  PROVE  \E k \in Nat : \E q \in Nat : m = Pow2[k] * (2 * q + 1)
<1> DEFINE S == {k \in Nat : ~Divides(Pow2[k + 1], m)}
<1>1. m \in S
  <2> SUFFICES ASSUME NEW c \in Nat, m = Pow2[m + 1] * c PROVE FALSE
    BY DEF Divides
  <2> DEFINE p == Pow2[m + 1]
  <2>0. m + 1 \in Nat
    OBVIOUS
  <2>1. m + 1 < p /\ p \in Nat /\ m = p * c
    BY <2>0, Pow2Is, Pow2Grows
  <2> HIDE DEF p
  <2>2. c # 0
    BY <2>1
  <2>3. PICK b \in Nat : c = b + 1
    <3>1. c - 1 \in Nat /\ c = (c - 1) + 1
      BY <2>2
    <3> QED BY <3>1
  <2>4. p * c = p * b + p /\ p * b \in Nat
    BY <2>1, <2>3
  <2> QED BY <2>1, <2>4
<1>2. PICK k \in S : \A j \in S : k <= j
  <2> HIDE DEF S
  <2>1. S \subseteq Nat
    BY DEF S
  <2> QED BY <1>1, <2>1, T!LeastElement
<1>3. k \in Nat /\ ~Divides(Pow2[k + 1], m)
  BY <1>2
<1>4. Divides(Pow2[k], m)
  <2>1. CASE k = 0
    <3>1. m = Pow2[k] * m
      BY <2>1, Pow2Is
    <3> QED BY <3>1 DEF Divides
  <2>2. CASE k # 0
    <3>1. k - 1 \in Nat /\ (k - 1) + 1 = k /\ ~(k <= k - 1)
      BY <1>3, <2>2
    <3>2. k - 1 \notin S
      BY <1>2, <3>1
    <3> QED BY <3>1, <3>2
  <2> QED BY <2>1, <2>2
<1>5. PICK c \in Nat : m = Pow2[k] * c
  BY <1>4 DEF Divides
<1>6. Pow2[k] \in Nat /\ Pow2[k + 1] = 2 * Pow2[k]
  BY <1>3, Pow2Is
<1>7. PICK q \in Nat : c = 2 * q \/ c = 2 * q + 1
  <2>1. c \div 2 \in Nat /\ (c = 2 * (c \div 2) \/ c = 2 * (c \div 2) + 1)
    OBVIOUS
  <2> QED BY <2>1
<1>8. c # 2 * q
  <2> SUFFICES ASSUME c = 2 * q PROVE FALSE
    OBVIOUS
  <2>1. Pow2[k] * (2 * q) = (2 * Pow2[k]) * q
    BY <1>6
  <2>2. Divides(Pow2[k + 1], m)
    BY <1>5, <1>6, <2>1 DEF Divides
  <2> QED BY <1>3, <2>2
<1> QED BY <1>3, <1>5, <1>7, <1>8

---------------------------------------------------------------------------
(* The tree.                                                                *)

\* A node's place k levels up, and the width of that level.
Place(j, k) == j \div Pow2[k]
Width(n, k) == (n + Pow2[k] - 1) \div Pow2[k]

\* The place of a leaf's ancestor halves from level to level and ends at 0.
LEMMA PlaceIs ==
  ASSUME NEW j \in Nat, NEW k \in Nat
  PROVE  /\ Place(j, 0) = j /\ Place(j, k) \in Nat
         /\ Place(j, k + 1) = Place(j, k) \div 2
         /\ j < Pow2[k] => Place(j, k) = 0
<1> DEFINE p == Pow2[k]
<1>1. p \in Nat /\ p > 0 /\ Pow2[k + 1] = 2 * p /\ Pow2[0] = 1
  BY Pow2Is
<1> HIDE DEF p
<1>2. j \div 1 = j
  <2>1. j = 1 * j + 0
    OBVIOUS
  <2> QED BY <2>1, DivIs
<1>3. j \div p \in Nat /\ j \div (2 * p) = (j \div p) \div 2
  BY <1>1
<1>4. j < p => j \div p = 0
  BY <1>1
<1> QED BY <1>1, <1>2, <1>3, <1>4 DEF Place, p

\* So does the width of a level, rounded up, as merkle_verify computes it.
LEMMA WidthIs ==
  ASSUME NEW n \in Nat, n > 0, NEW k \in Nat
  PROVE  /\ Width(n, 0) = n /\ Width(n, k) \in Nat /\ Width(n, k) > 0
         /\ Width(n, k + 1) = Halved(Width(n, k))
         /\ \A j \in 0 .. n - 1 : Place(j, k) < Width(n, k)
         /\ n <= Pow2[k] => Width(n, k) = 1
<1> DEFINE p == Pow2[k]
<1>1. p \in Nat /\ p > 0 /\ Pow2[k + 1] = 2 * p /\ Pow2[0] = 1
  BY Pow2Is
<1> HIDE DEF p
<1>2. (n + 1 - 1) \div 1 = n
  <2>1. n + 1 - 1 = 1 * n + 0
    OBVIOUS
  <2> QED BY <2>1, DivIs
<1>3. (n + p - 1) \div p \in Nat /\ (n + p - 1) \div p > 0
  BY <1>1
<1>4. (n + 2 * p - 1) \div (2 * p) = (((n + p - 1) \div p) + 1) \div 2
  BY <1>1
<1>5. ASSUME NEW j \in 0 .. n - 1 PROVE j \div p < (n + p - 1) \div p
  BY <1>1
<1>6. n <= p => (n + p - 1) \div p = 1
  BY <1>1
<1>7. Width(n, 0) = n
  BY <1>1, <1>2 DEF Width
<1>8. Width(n, k + 1) = Halved(Width(n, k))
  BY <1>1, <1>4 DEF Width, Halved, p
<1> QED BY <1>1, <1>3, <1>5, <1>6, <1>7, <1>8 DEF Width, Place, p

\* Each level is the one above the level before.
LEMMA LevelsAre ==
  ASSUME NEW leaves, Len(leaves) \in Nat, Len(leaves) > 0,
         NEW d, d = merkle_depth(Len(leaves)), NEW levels, levels = merkle_build_blake3(leaves)
  PROVE  /\ d \in Nat /\ levels = [k \in 1 .. d + 1 |-> levels[k]] /\ Len(levels) = d + 1
         /\ levels[1] = leaves /\ \A k \in 1 .. d : levels[k + 1] = NextLevel(levels[k])
<1>0. d \in Nat
  BY DepthIs
<1> DEFINE Up(g, n) == g = [k \in 0 .. n |-> IF k = 0 THEN leaves ELSE NextLevel(g[k - 1])]
           K == {n \in Nat : \E g : Up(g, n)}
<1>1. 0 \in K
  <2> DEFINE g == [k \in 0 .. 0 |-> leaves]
  <2>1. \A k \in 0 .. 0 : k = 0
    OBVIOUS
  <2>2. Up(g, 0)
    BY <2>1
  <2> HIDE DEF g
  <2> QED BY <2>2
<1>2. ASSUME NEW g, NEW n \in Nat, Up(g, n), NEW k \in 0 .. n
      PROVE  g[k] = IF k = 0 THEN leaves ELSE NextLevel(g[k - 1])
  <2> DEFINE e(j) == IF j = 0 THEN leaves ELSE NextLevel(g[j - 1])
  <2>1. g = [j \in 0 .. n |-> e(j)]
    BY <1>2
  <2> HIDE DEF e, Up
  <2>2. g[k] = e(k)
    BY <2>1
  <2> QED BY <2>2 DEF e
<1>3. ASSUME NEW n \in Nat, n \in K PROVE n + 1 \in K
  <2>1. PICK g : Up(g, n)
    BY <1>3
  <2> DEFINE h == [k \in 0 .. n + 1 |-> IF k = 0 THEN leaves ELSE NextLevel(g[k - 1])]
  <2> HIDE DEF Up
  <2>2. \A k \in 0 .. n : h[k] = g[k]
    <3>1. \A k \in 0 .. n : k \in 0 .. n + 1
      OBVIOUS
    <3> QED BY <1>2, <2>1, <3>1
  <2>3. \A k \in 0 .. n + 1 : k # 0 => k - 1 \in 0 .. n
    OBVIOUS
  <2>4. h = [k \in 0 .. n + 1 |-> h[k]]
        /\ \A k \in 0 .. n + 1 : h[k] = IF k = 0 THEN leaves ELSE NextLevel(g[k - 1])
    OBVIOUS
  <2> HIDE DEF h
  <2>5. \A k \in 0 .. n + 1 : h[k] = IF k = 0 THEN leaves ELSE NextLevel(h[k - 1])
    BY <2>2, <2>3, <2>4
  <2>6. Up(h, n + 1)
    BY <2>4, <2>5 DEF Up
  <2> QED BY <2>6
<1> DEFINE f == CHOOSE g : Up(g, d)
<1>4. levels = [k \in 1 .. d + 1 |-> f[k - 1]]
  BY DEF merkle_build_blake3, Rounds
<1>5. Up(f, d)
  <2> HIDE DEF K, Up
  <2>1. Nat \subseteq K
    BY <1>1, <1>3, T!NatIsLeast
  <2>2. PICK g : Up(g, d)
    BY <1>0, <2>1 DEF K
  <2> QED BY <2>2
<1> HIDE DEF f, Up, K
<1>6. \A k \in 1 .. d + 1 : levels[k] = f[k - 1]
  BY <1>4
<1>7. f[0] = leaves /\ \A k \in 1 .. d : f[k] = NextLevel(f[k - 1])
  <2>1. 0 \in 0 .. d /\ \A k \in 1 .. d : k \in 0 .. d /\ k # 0
    BY <1>0
  <2> QED BY <1>0, <1>2, <1>5, <2>1
<1>8. levels[1] = leaves
  BY <1>0, <1>6, <1>7
<1>9. ASSUME NEW k \in 1 .. d PROVE levels[k + 1] = NextLevel(levels[k])
  <2>1. k + 1 \in 1 .. d + 1 /\ k \in 1 .. d + 1 /\ (k + 1) - 1 = k
    BY <1>0
  <2> QED BY <1>6, <1>7, <2>1
<1>10. levels = [k \in 1 .. d + 1 |-> levels[k]] /\ Len(levels) = d + 1
  BY <1>0, <1>4
<1> QED BY <1>0, <1>8, <1>9, <1>10

\* Their widths, down to one root.
LEMMA LevelWidths ==
  ASSUME NEW leaves, Len(leaves) \in Nat, Len(leaves) > 0,
         NEW d, d = merkle_depth(Len(leaves)), NEW levels, levels = merkle_build_blake3(leaves)
  PROVE  /\ \A k \in 0 .. d : Len(levels[k + 1]) = Width(Len(leaves), k)
         /\ Width(Len(leaves), d) = 1
<1> DEFINE n == Len(leaves)
           S == {k \in 0 .. d : Len(levels[k + 1]) = Width(n, k)}
<1>1. /\ d \in Nat /\ levels[1] = leaves
      /\ \A k \in 1 .. d : levels[k + 1] = NextLevel(levels[k])
  BY LevelsAre
<1>2. Width(n, d) = 1
  <2>1. Pow2[d] >= n
    <3>1. n \in Nat \ {0}
      OBVIOUS
    <3> QED BY <3>1, DepthIs
  <2>2. n <= Pow2[d]
    BY <1>1, <2>1, Pow2Is
  <2> QED BY <1>1, <2>2, WidthIs
<1>3. 0 \in S
  <2>1. Width(n, 0) = n /\ 0 \in 0 .. d /\ 0 + 1 = 1
    BY <1>1, WidthIs
  <2> QED BY <1>1, <2>1
<1>4. ASSUME NEW k \in 1 .. d, k - 1 \in S PROVE k \in S
  <2>1. k - 1 \in Nat /\ (k - 1) + 1 = k /\ k \in Nat
    BY <1>1
  <2>2. Len(levels[k]) = Width(n, k - 1) /\ Width(n, k - 1) \in Nat
    BY <1>4, <2>1, WidthIs
  <2>3. Len(levels[k + 1]) = Halved(Len(levels[k]))
    <3>1. Halved(Len(levels[k])) \in Nat
      BY <2>2 DEF Halved
    <3>2. levels[k + 1] = NextLevel(levels[k])
      BY <1>1
    <3> QED BY <3>1, <3>2 DEF NextLevel
  <2>4. Width(n, k) = Halved(Width(n, k - 1))
    BY <2>1, WidthIs
  <2> QED BY <1>1, <2>2, <2>3, <2>4
<1> HIDE DEF S
<1>5. 0 .. d \subseteq S
  BY <1>1, <1>3, <1>4, UpTo
<1> QED BY <1>2, <1>5 DEF S

\* The hashes the verifier goes through.
Chain(leaf, path, index) ==
  Rounds(LAMBDA a, k : IF Place(index, k - 1) % 2 = 1 THEN Node(path[k].sibling, a) ELSE Node(a, path[k].sibling),
         leaf, Len(path))

\* The digests a path is verified through, step by step.
LEMMA ChainIs ==
  ASSUME NEW leaf, NEW path, NEW index, Len(path) \in Nat, NEW c, c = Chain(leaf, path, index)
  PROVE  /\ c[0] = leaf
         /\ \A k \in 1 .. Len(path) :
              c[k] = IF Place(index, k - 1) % 2 = 1 THEN Node(path[k].sibling, c[k - 1])
                     ELSE Node(c[k - 1], path[k].sibling)
<1> DEFINE d == Len(path)
           E(a, k) == IF Place(index, k - 1) % 2 = 1 THEN Node(path[k].sibling, a) ELSE Node(a, path[k].sibling)
           Up(g, n) == g = [k \in 0 .. n |-> IF k = 0 THEN leaf ELSE E(g[k - 1], k)]
           K == {n \in Nat : \E g : Up(g, n)}
<1>0. c = CHOOSE g : Up(g, d)
  BY DEF Chain, Rounds
<1> HIDE DEF E
<1>1. 0 \in K
  <2> DEFINE g == [k \in 0 .. 0 |-> leaf]
  <2>1. \A k \in 0 .. 0 : k = 0
    OBVIOUS
  <2>2. Up(g, 0)
    BY <2>1
  <2> HIDE DEF g
  <2> QED BY <2>2
<1>2. ASSUME NEW g, NEW n \in Nat, Up(g, n), NEW k \in 0 .. n
      PROVE  g[k] = IF k = 0 THEN leaf ELSE E(g[k - 1], k)
  <2> DEFINE e(j) == IF j = 0 THEN leaf ELSE E(g[j - 1], j)
  <2>1. g = [j \in 0 .. n |-> e(j)]
    BY <1>2
  <2> HIDE DEF e, Up
  <2>2. g[k] = e(k)
    BY <2>1
  <2> QED BY <2>2 DEF e
<1>3. ASSUME NEW n \in Nat, n \in K PROVE n + 1 \in K
  <2>1. PICK g : Up(g, n)
    BY <1>3
  <2> DEFINE h == [k \in 0 .. n + 1 |-> IF k = 0 THEN leaf ELSE E(g[k - 1], k)]
  <2> HIDE DEF Up
  <2>2. \A k \in 0 .. n : h[k] = g[k]
    <3>1. \A k \in 0 .. n : k \in 0 .. n + 1
      OBVIOUS
    <3> QED BY <1>2, <2>1, <3>1
  <2>3. \A k \in 0 .. n + 1 : k # 0 => k - 1 \in 0 .. n
    OBVIOUS
  <2>4. h = [k \in 0 .. n + 1 |-> h[k]]
        /\ \A k \in 0 .. n + 1 : h[k] = IF k = 0 THEN leaf ELSE E(g[k - 1], k)
    OBVIOUS
  <2> HIDE DEF h
  <2>5. \A k \in 0 .. n + 1 : h[k] = IF k = 0 THEN leaf ELSE E(h[k - 1], k)
    BY <2>2, <2>3, <2>4
  <2>6. Up(h, n + 1)
    BY <2>4, <2>5 DEF Up
  <2> QED BY <2>6
<1>4. Up(c, d)
  <2> HIDE DEF K, Up
  <2>1. Nat \subseteq K
    BY <1>1, <1>3, T!NatIsLeast
  <2>2. PICK g : Up(g, d)
    BY <2>1 DEF K
  <2> QED BY <1>0, <2>2
<1> HIDE DEF Up, K
<1>5. c[0] = leaf /\ \A k \in 1 .. d : c[k] = E(c[k - 1], k)
  <2>1. 0 \in 0 .. d /\ \A k \in 1 .. d : k \in 0 .. d /\ k # 0
    OBVIOUS
  <2> QED BY <1>2, <1>4, <2>1
<1> QED BY <1>5 DEF E

\* merkle_verify by places and widths.
LEMMA VerifyIs ==
  ASSUME NEW leaf, NEW path, NEW root, NEW index, NEW n
  PROVE  merkle_verify(leaf, path, root, index, n) <=>
           /\ index < n /\ Len(path) = merkle_depth(n)
           /\ \A k \in DOMAIN path :
                /\ path[k].side = (IF Place(index, k - 1) % 2 = 1 THEN 0 ELSE 1)
                /\ ~(Place(index, k - 1) % 2 = 1) /\ Place(index, k - 1) + 1 >= Width(n, k - 1)
                     => path[k].sibling = Chain(leaf, path, index)[k - 1]
           /\ Chain(leaf, path, index)[Len(path)] = root
BY DEF merkle_verify, Chain, Place, Width

\* The steps of a path are the siblings of the places above j, and their sides.
StepsAre(path, j, d, levels) ==
  \A k \in 1 .. d : /\ path[k].side = (IF Place(j, k - 1) % 2 = 1 THEN 0 ELSE 1)
                    /\ path[k].sibling = levels[k][sibling_index(Place(j, k - 1), Len(levels[k])) + 1]
\* The path of a leaf.
LEMMA PathIs ==
  ASSUME NEW leaves, Len(leaves) \in Nat, Len(leaves) > 0, NEW j \in 0 .. Len(leaves) - 1,
         NEW d, d = merkle_depth(Len(leaves)), NEW levels, levels = merkle_build_blake3(leaves),
         NEW path, path = merkle_path(levels, j)
  PROVE  d \in Nat /\ DOMAIN path = 1 .. d /\ Len(path) = d /\ StepsAre(path, j, d, levels)
<1>1. d \in Nat /\ Len(levels) - 1 = d
  BY LevelsAre
<1>2. path = [k \in 1 .. d |->
                [sibling |-> levels[k][sibling_index(Place(j, k - 1), Len(levels[k])) + 1],
                 side |-> IF Place(j, k - 1) % 2 = 0 THEN 1 ELSE 0]]
  BY <1>1 DEF merkle_path, Place
<1>3. ASSUME NEW k \in 1 .. d PROVE Place(j, k - 1) % 2 \in {0, 1}
  <2>1. k - 1 \in Nat /\ j \in Nat
    BY <1>1
  <2>2. Place(j, k - 1) \in Nat
    BY <2>1, PlaceIs
  <2> QED BY <2>2
<1>4. DOMAIN path = 1 .. d /\ Len(path) = d
  BY <1>1, <1>2
<1>5. StepsAre(path, j, d, levels)
  <2> SUFFICES ASSUME NEW k \in 1 .. d
               PROVE  /\ path[k].side = (IF Place(j, k - 1) % 2 = 1 THEN 0 ELSE 1)
                      /\ path[k].sibling = levels[k][sibling_index(Place(j, k - 1), Len(levels[k])) + 1]
    BY DEF StepsAre
  <2> QED BY <1>2, <1>3
<1> QED BY <1>1, <1>4, <1>5

\* The node above a place is that of the place and its sibling.
LEMMA NodeAbove ==
  ASSUME NEW level, Len(level) \in Nat, NEW a \in Nat, a < Len(level),
         NEW s, s = sibling_index(a, Len(level))
  PROVE  /\ NextLevel(level)[a \div 2 + 1]
              = IF a % 2 = 1 THEN Node(level[s + 1], level[a + 1]) ELSE Node(level[a + 1], level[s + 1])
         /\ a % 2 = 1 => s = a - 1
         /\ a % 2 # 1 => s = IF a + 1 >= Len(level) THEN a ELSE a + 1
<1> DEFINE w == Len(level)
           At(k) == IF k < w THEN level[k + 1] ELSE level[w]
           h == a \div 2
<1>1. /\ h \in Nat /\ (a % 2 = 0 \/ a % 2 = 1)
      /\ a % 2 = 0 => a = 2 * h
      /\ a % 2 = 1 => a = 2 * h + 1
  OBVIOUS
<1>2. h + 1 \in 1 .. Halved(w)
  BY DEF Halved
<1>3. NextLevel(level) = [k \in 1 .. Halved(w) |-> Node(At(2 * k - 2), At(2 * k - 1))]
  BY DEF NextLevel
<1> HIDE DEF h, At
<1>4. NextLevel(level)[h + 1] = Node(At(2 * (h + 1) - 2), At(2 * (h + 1) - 1))
  BY <1>2, <1>3
<1>5. 2 * (h + 1) - 2 = 2 * h /\ 2 * (h + 1) - 1 = 2 * h + 1
  BY <1>1
<1>6. NextLevel(level)[h + 1] = Node(At(2 * h), At(2 * h + 1))
  BY <1>4, <1>5
<1>7. CASE a % 2 = 1
  <2>1. s = a - 1 /\ a = 2 * h + 1 /\ s = 2 * h
    BY <1>1, <1>7 DEF sibling_index
  <2>2. At(2 * h) = level[s + 1] /\ At(2 * h + 1) = level[a + 1]
    BY <1>1, <2>1 DEF At
  <2> QED BY <1>6, <1>7, <2>1, <2>2 DEF h
<1>8. CASE a % 2 = 0
  <2>1. a = 2 * h /\ s = IF a + 1 >= w THEN a ELSE a + 1
    BY <1>1, <1>8 DEF sibling_index
  <2>2. At(2 * h) = level[a + 1]
    BY <1>1, <2>1 DEF At
  <2>3. At(2 * h + 1) = level[s + 1]
    BY <1>1, <2>1 DEF At
  <2> QED BY <1>6, <1>8, <2>1, <2>2, <2>3 DEF h
<1> QED BY <1>1, <1>7, <1>8

\* What an honest path hashes to, level by level.
LEMMA PathClimbs ==
  ASSUME NEW leaves, Len(leaves) \in Nat, Len(leaves) > 0, NEW j \in 0 .. Len(leaves) - 1,
         NEW d, d = merkle_depth(Len(leaves)), NEW levels, levels = merkle_build_blake3(leaves),
         NEW path, path = merkle_path(levels, j),
         NEW c, c = Chain(leaves[j + 1], path, j)
  PROVE  \A k \in 0 .. d : c[k] = levels[k + 1][Place(j, k) + 1]
<1> DEFINE n == Len(leaves)
           S == {k \in 0 .. d : c[k] = levels[k + 1][Place(j, k) + 1]}
<1>1. /\ d \in Nat /\ Len(path) = d /\ j \in Nat /\ levels[1] = leaves
      /\ \A k \in 1 .. d : levels[k + 1] = NextLevel(levels[k])
      /\ \A k \in 1 .. d :
           path[k].sibling = levels[k][sibling_index(Place(j, k - 1), Len(levels[k])) + 1]
  <2>1. j \in Nat
    OBVIOUS
  <2>2. /\ d \in Nat /\ Len(levels) = d + 1 /\ levels[1] = leaves
        /\ \A k \in 1 .. d : levels[k + 1] = NextLevel(levels[k])
    BY LevelsAre
  <2>3. path = [k \in 1 .. d |->
                  [sibling |-> levels[k][sibling_index(Place(j, k - 1), Len(levels[k])) + 1],
                   side |-> IF Place(j, k - 1) % 2 = 0 THEN 1 ELSE 0]]
    BY <2>2 DEF merkle_path, Place
  <2>4. Len(path) = d
    BY <2>2, <2>3
  <2> QED BY <2>1, <2>2, <2>3, <2>4
<1>2. 0 \in S
  <2>1. c[0] = leaves[j + 1]
    BY <1>1, ChainIs
  <2>2. Place(j, 0) = j
    BY <1>1, PlaceIs
  <2>3. 0 + 1 = 1 /\ 0 \in 0 .. d
    BY <1>1
  <2> QED BY <1>1, <2>1, <2>2, <2>3
<1>3. ASSUME NEW k \in 1 .. d, k - 1 \in S PROVE k \in S
  <2>1. k - 1 \in Nat /\ (k - 1) + 1 = k /\ k - 1 \in 0 .. d /\ k \in 0 .. d /\ k \in Nat
    BY <1>1
  <2> DEFINE a == Place(j, k - 1)
             s == sibling_index(a, Len(levels[k]))
  <2>2. a \in Nat /\ Place(j, k) = a \div 2
    BY <1>1, <2>1, PlaceIs
  <2>3. Len(levels[k]) \in Nat /\ a < Len(levels[k])
    <3>1. Len(levels[(k - 1) + 1]) = Width(n, k - 1)
      BY <2>1, LevelWidths
    <3>2. n \in Nat /\ n > 0 /\ j \in 0 .. n - 1
      BY <1>1
    <3>3. Width(n, k - 1) \in Nat /\ Place(j, k - 1) < Width(n, k - 1)
      BY ONLY <2>1, <3>2, WidthIs
    <3>4. Len(levels[k]) = Width(n, k - 1)
      BY <2>1, <3>1
    <3> QED BY ONLY <3>3, <3>4 DEF a
  <2>4. c[k - 1] = levels[k][a + 1]
    BY <1>3, <2>1
  <2>5. c[k] = IF a % 2 = 1 THEN Node(path[k].sibling, c[k - 1]) ELSE Node(c[k - 1], path[k].sibling)
    BY <1>1, ChainIs
  <2>6. path[k].sibling = levels[k][s + 1]
    BY <1>1
  <2> DEFINE level == levels[k]
  <2> HIDE DEF a, level
  <2>7. a \in Nat /\ Len(level) \in Nat /\ a < Len(level) /\ s = sibling_index(a, Len(level))
    BY <2>2, <2>3 DEF level
  <2> HIDE DEF s
  <2>9. NextLevel(level)[a \div 2 + 1]
          = IF a % 2 = 1 THEN Node(level[s + 1], level[a + 1]) ELSE Node(level[a + 1], level[s + 1])
    BY <2>7, NodeAbove
  <2>8. c[k] = levels[k + 1][Place(j, k) + 1]
    BY <1>1, <2>2, <2>4, <2>5, <2>6, <2>9 DEF level
  <2> QED BY <2>1, <2>8
<1> HIDE DEF S
<1>4. 0 .. d \subseteq S
  BY <1>1, <1>2, <1>3, UpTo
<1> QED BY <1>4 DEF S

\* The path of a leaf opens it.
LEMMA PathOpens ==
  ASSUME NEW leaves, Len(leaves) \in Nat, Len(leaves) > 0, NEW j \in 0 .. Len(leaves) - 1,
         NEW levels, levels = merkle_build_blake3(leaves)
  PROVE  merkle_verify(leaves[j + 1], merkle_path(levels, j), Root(levels), j, Len(leaves))
<1> DEFINE n == Len(leaves)
           d == merkle_depth(n)
           path == merkle_path(levels, j)
           c == Chain(leaves[j + 1], path, j)
<1>1. /\ d \in Nat /\ Len(path) = d /\ DOMAIN path = 1 .. d /\ j \in Nat
      /\ \A k \in 1 .. d :
           /\ path[k].side = (IF Place(j, k - 1) % 2 = 1 THEN 0 ELSE 1)
           /\ path[k].sibling = levels[k][sibling_index(Place(j, k - 1), Len(levels[k])) + 1]
  <2>1. j \in Nat
    OBVIOUS
  <2> HIDE DEF d, path
  <2>2. d = merkle_depth(Len(leaves)) /\ path = merkle_path(levels, j)
    BY DEF d, path
  <2>3. DOMAIN path = 1 .. d /\ Len(path) = d /\ d \in Nat /\ StepsAre(path, j, d, levels)
    BY <2>2, PathIs
  <2> QED BY <2>1, <2>3 DEF StepsAre
<1>2. \A k \in 0 .. d : c[k] = levels[k + 1][Place(j, k) + 1]
  BY PathClimbs
<1>3. /\ \A k \in 0 .. d : Len(levels[k + 1]) = Width(n, k)
      /\ Width(n, d) = 1 /\ Len(levels) = d + 1
  BY LevelWidths, LevelsAre
<1> HIDE DEF d, path, c
<1>4. ASSUME NEW k \in 1 .. d, ~(Place(j, k - 1) % 2 = 1), Place(j, k - 1) + 1 >= Width(n, k - 1)
      PROVE  path[k].sibling = c[k - 1]
  <2>1. k - 1 \in 0 .. d /\ (k - 1) + 1 = k /\ k - 1 \in Nat
    BY <1>1
  <2> DEFINE a == Place(j, k - 1)
  <2>2. Len(levels[k]) = Width(n, k - 1) /\ Width(n, k - 1) \in Nat /\ a < Width(n, k - 1) /\ a \in Nat
    BY <1>1, <1>3, <2>1, WidthIs, PlaceIs
  <2>3. sibling_index(a, Len(levels[k])) = a
    BY <1>4, <2>2, NodeAbove
  <2>4. c[k - 1] = levels[k][a + 1]
    BY <1>2, <2>1
  <2> QED BY <1>1, <2>3, <2>4
<1>5. c[d] = Root(levels)
  <2>1. Place(j, d) < Width(n, d) /\ Place(j, d) \in Nat
    BY <1>1, WidthIs, PlaceIs
  <2>2. Place(j, d) = 0
    BY <1>3, <2>1
  <2>3. d \in 0 .. d /\ 0 + 1 = 1
    BY <1>1
  <2> QED BY <1>2, <1>3, <2>2, <2>3 DEF Root
<1>6. j < n
  OBVIOUS
<1> QED BY <1>1, <1>4, <1>5, <1>6, VerifyIs DEF d, path, c

\* A path names its index: the sides are the digits of the place.
LEMMA OnePlace ==
  ASSUME NEW n \in Nat, n > 0, NEW path, Len(path) \in Nat, DOMAIN path = 1 .. Len(path),
         NEW i \in Nat, NEW j \in Nat, NEW leaf, NEW leaf2, NEW root, NEW root2,
         merkle_verify(leaf, path, root, i, n), merkle_verify(leaf2, path, root2, j, n)
  PROVE  i = j
<1> DEFINE d == Len(path)
           S == {m \in 0 .. d : Place(i, d - m) = Place(j, d - m)}
<1>1. /\ i < n /\ j < n /\ d = merkle_depth(n)
      /\ \A k \in 1 .. d : path[k].side = (IF Place(i, k - 1) % 2 = 1 THEN 0 ELSE 1)
      /\ \A k \in 1 .. d : path[k].side = (IF Place(j, k - 1) % 2 = 1 THEN 0 ELSE 1)
  <2>1. /\ i < n /\ d = merkle_depth(n)
        /\ \A k \in 1 .. d : path[k].side = (IF Place(i, k - 1) % 2 = 1 THEN 0 ELSE 1)
    BY VerifyIs
  <2>2. /\ j < n
        /\ \A k \in 1 .. d : path[k].side = (IF Place(j, k - 1) % 2 = 1 THEN 0 ELSE 1)
    BY VerifyIs
  <2> QED BY <2>1, <2>2
<1>2. d \in Nat /\ Pow2[d] >= n /\ Pow2[d] \in Nat
  <2>1. n \in Nat \ {0} /\ d \in Nat
    OBVIOUS
  <2> QED BY <1>1, <2>1, DepthIs, Pow2Is
<1> HIDE DEF d
<1>3. 0 \in S
  <2>1. i < Pow2[d] /\ j < Pow2[d]
    BY <1>1, <1>2
  <2>2. Place(i, d) = 0 /\ Place(j, d) = 0
    BY <1>2, <2>1, PlaceIs
  <2>3. d - 0 = d /\ 0 \in 0 .. d
    BY <1>2
  <2> QED BY <2>2, <2>3
<1>4. ASSUME NEW m \in 1 .. d, m - 1 \in S PROVE m \in S
  <2> DEFINE k == d - m
             a == Place(i, k)
             b == Place(j, k)
  <2>1. k \in Nat /\ k + 1 \in 1 .. d /\ (k + 1) - 1 = k /\ d - (m - 1) = k + 1 /\ m \in 0 .. d
    BY <1>2
  <2>2. a \in Nat /\ b \in Nat /\ Place(i, k + 1) = a \div 2 /\ Place(j, k + 1) = b \div 2
    BY <2>1, PlaceIs
  <2>3. Place(i, k + 1) = Place(j, k + 1)
    BY <1>4, <2>1
  <2>4. (IF a % 2 = 1 THEN 0 ELSE 1) = (IF b % 2 = 1 THEN 0 ELSE 1)
    <3>1. path[k + 1].side = (IF a % 2 = 1 THEN 0 ELSE 1) /\ path[k + 1].side = (IF b % 2 = 1 THEN 0 ELSE 1)
      BY <1>1, <2>1
    <3> QED BY <3>1
  <2> HIDE DEF a, b, k
  <2>5. a = b
    BY <2>2, <2>3, <2>4
  <2> QED BY <2>1, <2>5 DEF a, b, k
<1> HIDE DEF S
<1>5. 0 .. d \subseteq S
  BY <1>2, <1>3, <1>4, UpTo
<1>6. Place(i, 0) = Place(j, 0)
  <2>1. d \in S
    BY <1>2, <1>5
  <2>2. d - d = 0
    BY <1>2
  <2> QED BY <2>1, <2>2 DEF S
<1> QED BY <1>6, PlaceIs

\* Equal parents have equal children: a digest is the term it is taken of.
LEMMA SameNode ==
  ASSUME NEW a, NEW b, NEW x, NEW y, Node(a, b) = Node(x, y)
  PROVE  a = x /\ b = y
<1>1. Node(a, b)[2] = a /\ Node(a, b)[3] = b /\ Node(x, y)[2] = x /\ Node(x, y)[3] = y
  BY DEF Node
<1> QED BY <1>1

\* What opens an index of a tree is the leaf there.
LEMMA OneLeaf ==
  ASSUME NEW leaves, Len(leaves) \in Nat, Len(leaves) > 0, NEW j \in 0 .. Len(leaves) - 1,
         NEW levels, levels = merkle_build_blake3(leaves), NEW leaf, NEW path,
         merkle_verify(leaf, path, Root(levels), j, Len(leaves))
  PROVE  leaf = leaves[j + 1]
<1> DEFINE n == Len(leaves)
           d == merkle_depth(n)
           own == merkle_path(levels, j)
           c == Chain(leaf, path, j)
           e == Chain(leaves[j + 1], own, j)
           S == {m \in 0 .. d : c[d - m] = e[d - m]}
<1>1. d \in Nat /\ Len(path) = d /\ Len(own) = d /\ c[d] = Root(levels) /\ e[d] = Root(levels)
  <2>0. n \in Nat \ {0}
    OBVIOUS
  <2>1. d \in Nat
    BY <2>0, DepthIs
  <2>2. Len(path) = d /\ c[Len(path)] = Root(levels)
    BY VerifyIs
  <2>3. Len(own) = d /\ e[Len(own)] = Root(levels)
    BY PathOpens, VerifyIs
  <2> QED BY <2>1, <2>2, <2>3
<1>2. /\ c[0] = leaf
      /\ \A k \in 1 .. d : c[k] = IF Place(j, k - 1) % 2 = 1 THEN Node(path[k].sibling, c[k - 1])
                                  ELSE Node(c[k - 1], path[k].sibling)
  BY <1>1, ChainIs
<1>3. /\ e[0] = leaves[j + 1]
      /\ \A k \in 1 .. d : e[k] = IF Place(j, k - 1) % 2 = 1 THEN Node(own[k].sibling, e[k - 1])
                                  ELSE Node(e[k - 1], own[k].sibling)
  BY <1>1, ChainIs
<1> HIDE DEF c, e, d, own
<1>4. 0 \in S
  <2>1. d - 0 = d /\ 0 \in 0 .. d
    BY <1>1
  <2> QED BY <1>1, <2>1
<1>5. ASSUME NEW m \in 1 .. d, m - 1 \in S PROVE m \in S
  <2> DEFINE k == d - (m - 1)
  <2>1. k \in 1 .. d /\ k - 1 = d - m /\ m \in 0 .. d
    BY <1>1
  <2>2. c[k] = e[k]
    BY <1>5
  <2> HIDE DEF k
  <2> DEFINE right == Place(j, k - 1) % 2 = 1
  <2>3. /\ c[k] = IF right THEN Node(path[k].sibling, c[k - 1]) ELSE Node(c[k - 1], path[k].sibling)
        /\ e[k] = IF right THEN Node(own[k].sibling, e[k - 1]) ELSE Node(e[k - 1], own[k].sibling)
    BY <1>2, <1>3, <2>1
  <2> HIDE DEF right
  <2>4. ASSUME right PROVE c[k - 1] = e[k - 1]
    <3>1. Node(path[k].sibling, c[k - 1]) = Node(own[k].sibling, e[k - 1])
      BY <2>2, <2>3, <2>4
    <3> QED BY <3>1, SameNode
  <2>5. ASSUME ~right PROVE c[k - 1] = e[k - 1]
    <3>1. Node(c[k - 1], path[k].sibling) = Node(e[k - 1], own[k].sibling)
      BY <2>2, <2>3, <2>5
    <3> QED BY <3>1, SameNode
  <2> QED BY <2>1, <2>4, <2>5
<1> HIDE DEF S
<1>6. 0 .. d \subseteq S
  BY <1>1, <1>4, <1>5, UpTo
<1>7. c[0] = e[0]
  <2>1. d \in S /\ d - d = 0
    BY <1>1, <1>6
  <2> QED BY <2>1 DEF S
<1> QED BY <1>2, <1>3, <1>7

\* Of a block of columns, whatever their number: the path of a column opens it
\* (merkle_path and merkle_verify agree on every width, the odd levels' repeated
\* last node included), that path verifies under no other index, and under an
\* index whatever path verifies carries the digest of that column.
THEOREM PathsOpenOneLeaf ==
  ASSUME NEW leaves, Len(leaves) \in Nat \ {0}, NEW j \in 0 .. Len(leaves) - 1,
         NEW levels, levels = merkle_build_blake3(leaves)
  PROVE  /\ merkle_verify(leaves[j + 1], merkle_path(levels, j), Root(levels), j, Len(leaves))
         /\ \A i \in Nat : \A leaf, root :
              merkle_verify(leaf, merkle_path(levels, j), root, i, Len(leaves)) => i = j
         /\ \A leaf, path :
              merkle_verify(leaf, path, Root(levels), j, Len(leaves)) => leaf = leaves[j + 1]
<1>1. Len(leaves) \in Nat /\ Len(leaves) > 0 /\ j \in Nat
  OBVIOUS
<1>2. merkle_verify(leaves[j + 1], merkle_path(levels, j), Root(levels), j, Len(leaves))
  BY <1>1, PathOpens
<1>3. ASSUME NEW i \in Nat, NEW leaf, NEW root,
             merkle_verify(leaf, merkle_path(levels, j), root, i, Len(leaves))
      PROVE  i = j
  <2> DEFINE path == merkle_path(levels, j)
             d == merkle_depth(Len(leaves))
  <2>1. d \in Nat /\ DOMAIN path = 1 .. d /\ Len(path) = d
    BY <1>1, PathIs
  <2> HIDE DEF path, d
  <2>2. Len(path) \in Nat /\ DOMAIN path = 1 .. Len(path)
    BY <2>1
  <2>3. /\ merkle_verify(leaf, path, root, i, Len(leaves))
        /\ merkle_verify(leaves[j + 1], path, Root(levels), j, Len(leaves))
    BY <1>2, <1>3 DEF path
  <2> QED BY <1>1, <2>2, <2>3, OnePlace
<1>4. ASSUME NEW leaf, NEW path, merkle_verify(leaf, path, Root(levels), j, Len(leaves))
      PROVE  leaf = leaves[j + 1]
  BY <1>1, <1>4, OneLeaf
<1> QED BY <1>2, <1>3, <1>4


---------------------------------------------------------------------------
(* The digest of a column: the tree over its chunks.                        *)

\* A chunk, and the tree merkle_leaf builds.
Chunk(column, lo, root) == ChunkCV(Piece(column, lo), lo, root)
Tree(column) ==
  LET n == Chunks(Len(column))
      tree[size \in 1 .. n] ==
        [lo \in 0 .. n - size |->
           IF size = 1 THEN Chunk(column, lo, n = 1)
           ELSE Parent(tree[LeftSize(size)][lo], tree[size - LeftSize(size)][lo + LeftSize(size)], size = n)]
  IN  tree

\* The number of chunks is the number of rows over CH, rounded up.
LEMMA ChunksAre ==
  ASSUME NEW r \in Nat
  PROVE  /\ Chunks(r) \in Nat /\ CH * Chunks(r) >= r
         /\ r > 0 => Chunks(r) > 0 /\ CH * (Chunks(r) - 1) < r
<1> DEFINE c == Chunks(r)
           m == r + CH - 1
           e == m % CH
<1>1. CH \in Nat /\ CH > 0 /\ m \in Nat
  BY ChunkRowsAssumption DEF CH
<1>2. c = m \div CH
  BY DEF Chunks, CH
<1>3. c \in Nat /\ e \in Nat /\ e < CH /\ m = CH * c + e
  BY <1>1, <1>2
<1> HIDE DEF c, e
<1>4. CH * c \in Nat /\ CH * (c - 1) = CH * c - CH
  BY <1>1, <1>3
<1>5. (CH * c >= r /\ CH * (c - 1) < r) \/ r = 0
  BY <1>1, <1>3, <1>4
<1>6. r > 0 => c > 0
  <2>1. c = 0 => CH * c = 0
    BY <1>1
  <2> QED BY <1>1, <1>3, <2>1
<1>7. CH * c >= r
  BY <1>1, <1>3, <1>4
<1>8. r > 0 => CH * (c - 1) < r
  BY <1>1, <1>3, <1>4
<1> QED BY <1>3, <1>6, <1>7, <1>8 DEF c

\* merkle_leaf is the tree over all chunks.
LEMMA LeafIsTree ==
  ASSUME NEW column, NEW n, n = Chunks(Len(column))
  PROVE  merkle_leaf(column) = Tree(column)[n][0]
BY DEF merkle_leaf, Tree, Chunk

\* A tree is a chunk, or the two subtrees its size splits into.
LEMMA TreeIs ==
  ASSUME NEW column, NEW n \in Nat, n = Chunks(Len(column)), NEW t, t = Tree(column)
  PROVE  /\ n >= 1 => \A lo \in 0 .. n - 1 : t[1][lo] = Chunk(column, lo, n = 1)
         /\ \A size \in 2 .. n : \A lo \in 0 .. n - size :
              t[size][lo] = Parent(t[LeftSize(size)][lo], t[size - LeftSize(size)][lo + LeftSize(size)], size = n)
<1> DEFINE E(g, size, lo) ==
             IF size = 1 THEN Chunk(column, lo, n = 1)
             ELSE Parent(g[LeftSize(size)][lo], g[size - LeftSize(size)][lo + LeftSize(size)], size = n)
           Row(g, size) == [lo \in 0 .. n - size |-> E(g, size, lo)]
           Up(g, m) == g = [size \in 1 .. m |-> Row(g, size)]
           K == {m \in Nat : \E g : Up(g, m)}
<1>0. t = CHOOSE g : Up(g, n)
  BY DEF Tree
<1>1. 0 \in K
  <2> DEFINE g == [size \in 1 .. 0 |-> 0]
  <2>1. Up(g, 0)
    <3>1. 1 .. 0 = {}
      OBVIOUS
    <3> QED BY <3>1
  <2> HIDE DEF g
  <2> QED BY <2>1
<1> HIDE DEF Row
<1>2. ASSUME NEW g, NEW m \in Nat, Up(g, m), NEW size \in 1 .. m PROVE g[size] = Row(g, size)
  <2> DEFINE e(j) == Row(g, j)
  <2>1. g = [j \in 1 .. m |-> e(j)]
    BY <1>2
  <2> HIDE DEF e, Up
  <2>2. g[size] = e(size)
    BY <2>1
  <2> QED BY <2>2 DEF e
<1>3. ASSUME NEW m \in Nat, m \in K PROVE m + 1 \in K
  <2>1. PICK g : Up(g, m)
    BY <1>3
  <2> DEFINE h == [size \in 1 .. m + 1 |-> Row(g, size)]
  <2> HIDE DEF Up
  <2>2. \A size \in 1 .. m : h[size] = g[size]
    <3>1. \A size \in 1 .. m : size \in 1 .. m + 1
      OBVIOUS
    <3> QED BY <1>2, <2>1, <3>1
  <2>3. h = [size \in 1 .. m + 1 |-> h[size]] /\ \A size \in 1 .. m + 1 : h[size] = Row(g, size)
    OBVIOUS
  <2> HIDE DEF h
  <2>4. ASSUME NEW size \in 1 .. m + 1 PROVE Row(g, size) = Row(h, size)
    <3>1. CASE size = 1
      BY <3>1 DEF Row
    <3>2. CASE size # 1
      <4> DEFINE l == LeftSize(size)
      <4>1. size \in Nat /\ size >= 2
        BY <3>2
      <4>2. l \in 1 .. m /\ size - l \in 1 .. m
        <5>1. l \in 1 .. size - 1
          BY <4>1, LeftIs
        <5> HIDE DEF l
        <5> QED BY <4>1, <5>1
      <4>3. h[l] = g[l] /\ h[size - l] = g[size - l]
        BY <2>2, <4>2
      <4> HIDE DEF l
      <4>4. \A lo \in 0 .. n - size : Parent(g[l][lo], g[size - l][lo + l], size = n)
                                        = Parent(h[l][lo], h[size - l][lo + l], size = n)
        BY <4>3
      <4> QED BY <3>2, <4>4 DEF Row, l
    <3> QED BY <3>1, <3>2
  <2>5. \A size \in 1 .. m + 1 : h[size] = Row(h, size)
    BY <2>3, <2>4
  <2>6. Up(h, m + 1)
    BY <2>3, <2>5 DEF Up
  <2> QED BY <2>6
<1>4. Up(t, n)
  <2> HIDE DEF K, Up
  <2>1. Nat \subseteq K
    BY <1>1, <1>3, T!NatIsLeast
  <2>2. PICK g : Up(g, n)
    BY <2>1 DEF K
  <2> QED BY <1>0, <2>2
<1> HIDE DEF Up, K
<1>5. \A size \in 1 .. n : t[size] = Row(t, size)
  BY <1>2, <1>4
<1>6. ASSUME n >= 1, NEW lo \in 0 .. n - 1 PROVE t[1][lo] = Chunk(column, lo, n = 1)
  <2>1. 1 \in 1 .. n
    BY <1>6
  <2>2. t[1] = Row(t, 1)
    BY <1>5, <2>1
  <2>3. Row(t, 1) = [l \in 0 .. n - 1 |-> Chunk(column, l, n = 1)]
    BY DEF Row
  <2> QED BY <2>2, <2>3
<1>7. ASSUME NEW size \in 2 .. n, NEW lo \in 0 .. n - size
      PROVE t[size][lo] = Parent(t[LeftSize(size)][lo], t[size - LeftSize(size)][lo + LeftSize(size)], size = n)
  <2>1. size \in 1 .. n /\ size # 1
    OBVIOUS
  <2>2. t[size] = Row(t, size)
    BY <1>5, <2>1
  <2>3. t[size][lo] = E(t, size, lo)
    BY <2>2 DEF Row
  <2> QED BY <2>1, <2>3
<1> QED BY <1>6, <1>7

\* The lowest digit of a count, and what is left without it.
LEMMA LowIs ==
  ASSUME NEW m \in Nat, m > 0, NEW z, z = TrailingZeros(m)
  PROVE  /\ z \in Nat /\ Pow2[z] \in 1 .. m
         /\ \A k \in 0 .. z - 1 : /\ m - Pow2[k] \in Nat /\ m - Pow2[k] > 0
                                  /\ TrailingZeros(m - Pow2[k]) = k
                                  /\ Pow2[k] \in Nat /\ (m - Pow2[k]) - Pow2[k] = m - Pow2[k + 1]
         /\ m - Pow2[z] > 0 => Pow2[TrailingZeros(m - Pow2[z])] >= 2 * Pow2[z]
<1>1. PICK k \in Nat, q \in Nat : m = Pow2[k] * (2 * q + 1)
  BY ZerosExist
<1>2. z = k /\ Pow2[z] \in Nat /\ Pow2[z] > 0 /\ m = Pow2[z] * (2 * q + 1)
  BY <1>1, ZerosAre, Pow2Is
<1> DEFINE p == Pow2[z]
<1> HIDE DEF p
<1>3. p \in Nat /\ p > 0 /\ m = p * (2 * q + 1) /\ z \in Nat
  BY <1>2, <1>1 DEF p
<1>4. p \in 1 .. m /\ m - p = 2 * (p * q) /\ p * q \in Nat
  <2>1. p * q \in Nat /\ p * (2 * q + 1) = 2 * (p * q) + p
    BY <1>1, <1>3
  <2> QED BY <1>3, <2>1
<1>5. ASSUME NEW j \in 0 .. z - 1
      PROVE  /\ m - Pow2[j] \in Nat /\ m - Pow2[j] > 0 /\ TrailingZeros(m - Pow2[j]) = j
             /\ Pow2[j] \in Nat /\ (m - Pow2[j]) - Pow2[j] = m - Pow2[j + 1]
  <2> DEFINE u == Pow2[j]
  <2>1. j \in Nat /\ j + 1 \in 0 .. z
    BY <1>3
  <2>2. u \in Nat /\ u > 0 /\ Pow2[j + 1] = 2 * u
    BY <2>1, Pow2Is
  <2>3. PICK r \in Nat : p = Pow2[j + 1] * r
    BY <1>3, <2>1, Pow2Grows DEF p
  <2> HIDE DEF u
  <2>4. r > 0
    <3>1. r = 0 => 2 * u * r = 0
      BY <2>2
    <3> QED BY <1>3, <2>2, <2>3, <3>1
  <2> DEFINE x == r * (2 * q + 1)
             y == x - 1
  <2>5. x \in Nat /\ x > 0
    <3>1. x = 2 * (r * q) + r /\ r * q \in Nat
      BY <1>1, <2>3
    <3> QED BY <2>3, <2>4, <3>1
  <2>6. m = 2 * (u * x)
    <3>1. m = (2 * u * r) * (2 * q + 1)
      BY <1>3, <2>2, <2>3
    <3>2. (2 * u * r) * (2 * q + 1) = 2 * (u * (r * (2 * q + 1)))
      BY <1>1, <2>2, <2>3
    <3> QED BY <3>1, <3>2
  <2> HIDE DEF x
  <2>7. y \in Nat /\ x = y + 1
    BY <2>5
  <2> HIDE DEF y
  <2>8. m - u = u * (2 * y + 1) /\ u * y \in Nat
    <3>1. u * x = u * y + u /\ u * (2 * y + 1) = 2 * (u * y) + u /\ u * y \in Nat
      BY <2>2, <2>7
    <3> QED BY <2>2, <2>6, <3>1
  <2>9. m - u \in Nat /\ m - u > 0
    <3>1. u * (2 * y + 1) = 2 * (u * y) + u
      BY <2>2, <2>7
    <3> QED BY <2>2, <2>8, <3>1
  <2>10. TrailingZeros(m - u) = j
    BY <2>1, <2>7, <2>8, <2>9, ZerosAre DEF u
  <2>11. (m - u) - u = m - 2 * u
    BY <2>2
  <2> QED BY <2>2, <2>9, <2>10, <2>11 DEF u
<1>6. ASSUME m - p > 0 PROVE Pow2[TrailingZeros(m - p)] >= 2 * p
  <2> DEFINE a == m - p
  <2>1. a \in Nat /\ a > 0 /\ a = 2 * (p * q)
    BY <1>3, <1>4, <1>6
  <2> HIDE DEF a
  <2>2. PICK j \in Nat, r \in Nat : a = Pow2[j] * (2 * r + 1)
    BY <2>1, ZerosExist
  <2>3. TrailingZeros(a) = j /\ Pow2[j] \in Nat /\ Pow2[j] > 0 /\ Pow2[j + 1] = 2 * Pow2[j]
    BY <2>1, <2>2, ZerosAre, Pow2Is
  <2>4. z < j
    <3> SUFFICES ASSUME ~(z < j) PROVE FALSE
      OBVIOUS
    <3>1. j \in 0 .. z
      BY <1>3
    <3>2. PICK s \in Nat : p = Pow2[j] * s
      BY <1>3, <3>1, Pow2Grows DEF p
    <3> DEFINE u == Pow2[j]
    <3> HIDE DEF u
    <3>3. u \in Nat /\ u > 0 /\ a = u * (2 * r + 1) + 0 /\ p = u * s
      BY <2>2, <2>3, <3>2 DEF u
    <3>4. a = u * (2 * (s * q)) + 0 /\ s * q \in Nat
      BY <1>1, <2>1, <3>2, <3>3
    <3>5. 2 * r + 1 \in Nat /\ 2 * (s * q) \in Nat
      BY <3>4
    <3> DEFINE x == 2 * r + 1
    <3> HIDE DEF x
    <3>8. x \in Nat /\ a = u * x + 0 /\ 0 < u /\ 0 \in Nat /\ a = a
      BY <3>3, <3>5 DEF x
    <3>9. a \div u = x
      BY <2>1, <3>3, <3>8, DivIs
    <3>6. a \div u = 2 * r + 1
      BY <3>9 DEF x
    <3>7. a \div u = 2 * (s * q)
      BY <2>1, <3>3, <3>4, <3>5, DivIs
    <3> QED BY <3>4, <3>6, <3>7
  <2>5. z \in 0 .. j - 1
    BY <1>3, <2>4
  <2>6. 2 * Pow2[z] <= Pow2[j]
    BY <2>5, Pow2Grows
  <2> QED BY <2>3, <2>6 DEF p, a
<1> QED BY <1>3, <1>4, <1>5, <1>6 DEF p

---------------------------------------------------------------------------
(* The merge stack.                                                         *)

\* A merge takes the last two subtrees of the stack for their parent.
LEMMA MergeIs ==
  ASSUME NEW U, NEW s \in Seq(U), NEW x \in U, NEW y \in U
  PROVE  /\ Len(Append(Append(s, y), x)) = Len(s) + 2 /\ Len(s) \in Nat
         /\ \A root : Merge(Append(Append(s, y), x), root) = Append(s, Parent(y, x, root))
<1> DEFINE n == Len(s)
           v == Append(s, y)
           w == Append(v, x)
<1>1. n \in Nat /\ v \in Seq(U) /\ Len(v) = n + 1 /\ v[n + 1] = y /\ \A i \in 1 .. n : v[i] = s[i]
  OBVIOUS
<1> HIDE DEF v
<1>2. /\ w \in Seq(U) /\ Len(w) = n + 2 /\ w[n + 2] = x /\ w[n + 1] = y
      /\ \A i \in 1 .. n : w[i] = s[i]
  BY <1>1
<1> HIDE DEF w
<1>3. Len(w) - 2 = n /\ Len(w) - 1 = n + 1
  BY <1>1, <1>2
<1>4. SubSeq(w, 1, n) = s
  <2>1. SubSeq(w, 1, n) \in Seq(U) /\ Len(SubSeq(w, 1, n)) = n /\ \A i \in 1 .. n : SubSeq(w, 1, n)[i] = w[i]
    BY <1>1, <1>2
  <2> QED BY <1>1, <1>2, <2>1
<1>5. \A root : Merge(w, root) = Append(s, Parent(y, x, root))
  BY <1>2, <1>3, <1>4 DEF Merge
<1> QED BY <1>1, <1>2, <1>5 DEF w, v

\* The stacks f under the counts below m, over the subtrees t.
Laid(U, f, t, m) ==
  LET z == TrailingZeros(m)
  IN  /\ \A a \in 0 .. m - 1 : f[a] \in Seq(U)
      /\ \A a \in 1 .. m - 1 : f[a] = Append(f[a - Pow2[TrailingZeros(a)]],
                                             t[Pow2[TrailingZeros(a)]][a - Pow2[TrailingZeros(a)]])
      /\ \A k \in 0 .. z : t[Pow2[k]][m - Pow2[k]] \in U
      /\ \A k \in 0 .. z - 1 : t[Pow2[k]][m - Pow2[k + 1]] \in U
      /\ \A k \in 0 .. z - 1 : t[Pow2[k + 1]][m - Pow2[k + 1]]
                                = Parent(t[Pow2[k]][m - Pow2[k + 1]], t[Pow2[k]][m - Pow2[k]], FALSE)

\* What the merges after a chunk leave.
LEMMA EagerIs ==
  ASSUME NEW U, NEW f, NEW t, NEW m \in Nat, m > 0, NEW z, z = TrailingZeros(m), Laid(U, f, t, m)
  PROVE  EagerMerge(Append(f[m - 1], t[1][m - 1]), m) = Append(f[m - Pow2[z]], t[Pow2[z]][m - Pow2[z]])
<1> DEFINE start == Append(f[m - 1], t[1][m - 1])
           Step(st) == IF Len(st) >= 2 THEN Merge(st, FALSE) ELSE st
           G(k) == Append(f[m - Pow2[k]], t[Pow2[k]][m - Pow2[k]])
           g == [k \in 0 .. z |-> G(k)]
           Up(h) == h = [k \in 0 .. z |-> IF k = 0 THEN start ELSE Step(h[k - 1])]
           at == CHOOSE h : Up(h)
<1>9. /\ \A a \in 0 .. m - 1 : f[a] \in Seq(U)
      /\ \A a \in 1 .. m - 1 : f[a] = Append(f[a - Pow2[TrailingZeros(a)]],
                                             t[Pow2[TrailingZeros(a)]][a - Pow2[TrailingZeros(a)]])
      /\ \A k \in 0 .. z : t[Pow2[k]][m - Pow2[k]] \in U
      /\ \A k \in 0 .. z - 1 : t[Pow2[k]][m - Pow2[k + 1]] \in U
      /\ \A k \in 0 .. z - 1 : t[Pow2[k + 1]][m - Pow2[k + 1]]
                                = Parent(t[Pow2[k]][m - Pow2[k + 1]], t[Pow2[k]][m - Pow2[k]], FALSE)
  BY DEF Laid
<1>1. EagerMerge(start, m) = at[z]
  BY DEF EagerMerge, Rounds
<1>2. z \in Nat
  BY LowIs
<1>3. G(0) = start
  BY Pow2Is
<1>4. ASSUME NEW k \in 0 .. z - 1 PROVE G(k + 1) = Step(G(k))
  <2> DEFINE p == Pow2[k]
             p2 == Pow2[k + 1]
             a == m - p
             b == m - p2
  <2>1. a \in Nat /\ a > 0 /\ TrailingZeros(a) = k /\ a - p = b /\ p \in Nat
    BY LowIs
  <2>2. k \in 0 .. z /\ k + 1 \in 0 .. z /\ k \in Nat /\ k + 1 \in Nat
    BY <1>2
  <2>3. p > 0 /\ p2 = 2 * p
    BY <2>2, Pow2Is
  <2>4. p2 \in 1 .. m
    <3>1. z \in Nat /\ Pow2[z] \in 1 .. m
      BY LowIs
    <3>2. Pow2[k + 1] <= Pow2[z]
      BY <2>2, <3>1, Pow2Grows
    <3> QED BY <2>1, <2>3, <3>1, <3>2
  <2>5. a \in 1 .. m - 1 /\ b \in 0 .. m - 1
    <3>1. p > 0 /\ p2 \in 1 .. m /\ a \in Nat /\ a > 0 /\ p \in Nat
      BY <2>1, <2>3, <2>4
    <3> HIDE DEF p, p2
    <3> QED BY <3>1
  <2>6. f[a] = Append(f[b], t[p][b])
    BY <1>9, <2>1, <2>5
  <2>7. t[p][a] \in U /\ t[p][b] \in U /\ t[p2][b] = Parent(t[p][b], t[p][a], FALSE)
    BY <1>9, <2>2
  <2>8. f[b] \in Seq(U)
    BY <1>9, <2>5
  <2> DEFINE x == t[p][a]
             y == t[p][b]
             fb == f[b]
             w == Append(Append(fb, y), x)
  <2>9. G(k) = w /\ G(k + 1) = Append(fb, Parent(y, x, FALSE))
    BY <2>6, <2>7
  <2> HIDE DEF G, x, y, p, p2, a, b, fb
  <2>10. fb \in Seq(U) /\ x \in U /\ y \in U
    BY <2>7, <2>8 DEF x, y, fb
  <2>11. /\ Len(Append(Append(fb, y), x)) = Len(fb) + 2 /\ Len(fb) \in Nat
         /\ \A root : Merge(Append(Append(fb, y), x), root) = Append(fb, Parent(y, x, root))
    BY ONLY <2>10, MergeIs
  <2>12. Len(w) = Len(fb) + 2 /\ Len(fb) \in Nat
    BY ONLY <2>11
  <2> HIDE DEF w
  <2>13. Len(w) >= 2
    BY ONLY <2>12
  <2>14. Merge(w, FALSE) = Append(fb, Parent(y, x, FALSE))
    BY ONLY <2>11, Zenon DEF w
  <2>15. Step(w) = Merge(w, FALSE)
    BY ONLY <2>13, Zenon DEF Step
  <2> QED BY ONLY <2>9, <2>14, <2>15, Zenon
<1> HIDE DEF G, Step, start
<1>5. Up(g)
  <2>1. \A k \in 1 .. z : k - 1 \in 0 .. z - 1 /\ k - 1 \in 0 .. z /\ (k - 1) + 1 = k
    BY <1>2
  <2>2. \A k \in 1 .. z : G(k) = Step(g[k - 1])
    BY <1>4, <2>1
  <2>3. \A k \in 0 .. z : G(k) = IF k = 0 THEN start ELSE Step(g[k - 1])
    BY <1>2, <1>3, <2>2
  <2> QED BY <2>3
<1>6. Up(at)
  <2> HIDE DEF Up, g
  <2> QED BY <1>5
<1> HIDE DEF at
<1>7. \A k \in 0 .. z : at[k] = g[k]
  <2>1. at[0] = g[0]
    BY <1>2, <1>3, <1>6
  <2>2. ASSUME NEW k \in 1 .. z, at[k - 1] = g[k - 1] PROVE at[k] = g[k]
    <3>1. k \in 0 .. z /\ k # 0
      BY <1>2
    <3> DEFINE e(j) == IF j = 0 THEN start ELSE Step(at[j - 1])
               c(j) == IF j = 0 THEN start ELSE Step(g[j - 1])
    <3>2. at = [j \in 0 .. z |-> e(j)] /\ g = [j \in 0 .. z |-> c(j)]
      BY <1>5, <1>6
    <3> HIDE DEF e, c, g
    <3>3. at[k] = e(k) /\ g[k] = c(k)
      BY <3>1, <3>2
    <3> QED BY <2>2, <3>1, <3>3 DEF e, c
  <2> HIDE DEF g
  <2>4. z \in Nat /\ Agree(z, at, g)
    BY <1>2, <2>1, <2>2 DEF Agree
  <2> QED BY ONLY <2>4, SameRounds
<1>8. at[z] = G(z)
  BY <1>2, <1>7
<1> QED BY <1>1, <1>8 DEF G, start

\* The kernel's states over a column, chunk by chunk.
Fed(column) ==
  LET n == Chunks(Len(column))
  IN  Rounds(LAMBDA a, c : k_stream_update_chunk(a, Piece(column, c - 1), c = n, n), k_stream_init, n)

\* The states k_stream_update_chunk goes through, one chunk after the other.
LEMMA FedIs ==
  ASSUME NEW column, NEW n \in Nat, n = Chunks(Len(column)), NEW f, f = Fed(column)
  PROVE  /\ f[0].stack = << >> /\ f[0] = k_stream_init
         /\ \A c \in 1 .. n : f[c] = k_stream_update_chunk(f[c - 1], Piece(column, c - 1), c = n, n)
         /\ \A c \in 0 .. n : f[c].chunk_counter = c
<1> DEFINE E(a, c) == k_stream_update_chunk(a, Piece(column, c - 1), c = n, n)
           init == k_stream_init
           Up(g, m) == g = [c \in 0 .. m |-> IF c = 0 THEN init ELSE E(g[c - 1], c)]
           K == {m \in Nat : \E g : Up(g, m)}
<1>0. f = CHOOSE g : Up(g, n)
  BY DEF Fed, Rounds
<1> HIDE DEF E, init
<1>1. 0 \in K
  <2> DEFINE g == [c \in 0 .. 0 |-> init]
  <2>1. \A c \in 0 .. 0 : c = 0
    OBVIOUS
  <2>2. Up(g, 0)
    BY <2>1
  <2> HIDE DEF g
  <2> QED BY <2>2
<1>2. ASSUME NEW g, NEW m \in Nat, Up(g, m), NEW c \in 0 .. m
      PROVE  g[c] = IF c = 0 THEN init ELSE E(g[c - 1], c)
  <2> DEFINE e(j) == IF j = 0 THEN init ELSE E(g[j - 1], j)
  <2>1. g = [j \in 0 .. m |-> e(j)]
    BY <1>2
  <2> HIDE DEF e, Up
  <2>2. g[c] = e(c)
    BY <2>1
  <2> QED BY <2>2 DEF e
<1>3. ASSUME NEW m \in Nat, m \in K PROVE m + 1 \in K
  <2>1. PICK g : Up(g, m)
    BY <1>3
  <2> DEFINE h == [c \in 0 .. m + 1 |-> IF c = 0 THEN init ELSE E(g[c - 1], c)]
  <2> HIDE DEF Up
  <2>2. \A c \in 0 .. m : h[c] = g[c]
    <3>1. \A c \in 0 .. m : c \in 0 .. m + 1
      OBVIOUS
    <3> QED BY <1>2, <2>1, <3>1
  <2>3. \A c \in 0 .. m + 1 : c # 0 => c - 1 \in 0 .. m
    OBVIOUS
  <2>4. h = [c \in 0 .. m + 1 |-> h[c]]
        /\ \A c \in 0 .. m + 1 : h[c] = IF c = 0 THEN init ELSE E(g[c - 1], c)
    OBVIOUS
  <2> HIDE DEF h
  <2>5. \A c \in 0 .. m + 1 : h[c] = IF c = 0 THEN init ELSE E(h[c - 1], c)
    BY <2>2, <2>3, <2>4
  <2>6. Up(h, m + 1)
    BY <2>4, <2>5 DEF Up
  <2> QED BY <2>6
<1>4. Up(f, n)
  <2> HIDE DEF K, Up
  <2>1. Nat \subseteq K
    BY <1>1, <1>3, T!NatIsLeast
  <2>2. PICK g : Up(g, n)
    BY <2>1 DEF K
  <2> QED BY <1>0, <2>2
<1> HIDE DEF Up, K
<1>5. f[0] = init /\ \A c \in 1 .. n : f[c] = E(f[c - 1], c)
  <2>1. 0 \in 0 .. n /\ \A c \in 1 .. n : c \in 0 .. n /\ c # 0
    OBVIOUS
  <2> QED BY <1>2, <1>4, <2>1
<1>6. init.stack = << >> /\ init.chunk_counter = 0
  BY DEF init, k_stream_init
<1>7. \A a, c : E(a, c).chunk_counter = a.chunk_counter + 1
  BY DEF E, k_stream_update_chunk
<1> DEFINE S == {c \in 0 .. n : f[c].chunk_counter = c}
<1>8. 0 \in S
  BY <1>5, <1>6
<1>9. \A c \in 1 .. n : c - 1 \in S => c \in S
  <2> SUFFICES ASSUME NEW c \in 1 .. n, c - 1 \in S PROVE c \in S
    OBVIOUS
  <2>1. f[c].chunk_counter = (c - 1) + 1
    BY <1>5, <1>7
  <2> QED BY <2>1
<1> HIDE DEF S
<1>10. 0 .. n \subseteq S
  BY <1>8, <1>9, UpTo
<1> QED BY <1>5, <1>6, <1>10 DEF S, E, init

\* The stack under a count is that of its digits, the highest first.
Below(column, n) == {Tree(column)[size][lo] : size \in 1 .. n, lo \in 0 .. n}

Stacks(column) == [c \in 0 .. Chunks(Len(column)) |-> Fed(column)[c].stack]

Stacked(n, t, f, U) ==
  /\ f[0] = << >> /\ \A a \in 0 .. n - 1 : f[a] \in Seq(U)
  /\ \A a \in 1 .. n - 1 : f[a] = Append(f[a - Pow2[TrailingZeros(a)]],
                                         t[Pow2[TrailingZeros(a)]][a - Pow2[TrailingZeros(a)]])
  /\ f[n] = Append(f[n - 1], t[1][n - 1])

\* After c chunks the stack has a complete subtree for each bit of c, and after
\* the last one that chunk on top, unmerged.
LEMMA FedStack ==
  ASSUME NEW column, NEW n \in Nat, n > 0, n = Chunks(Len(column)), NEW t, t = Tree(column),
         NEW f, f = Stacks(column), NEW U, U = Below(column, n)
  PROVE  Stacked(n, t, f, U)
<1> DEFINE fed == Fed(column)
           Holds(a) == /\ f[a] \in Seq(U)
                       /\ a >= 1 => f[a] = Append(f[a - Pow2[TrailingZeros(a)]],
                                                  t[Pow2[TrailingZeros(a)]][a - Pow2[TrailingZeros(a)]])
           K == {c \in Nat : c <= n - 1 => \A a \in 0 .. c : Holds(a)}
<1>1. /\ fed[0].stack = << >>
      /\ \A c \in 1 .. n : fed[c] = k_stream_update_chunk(fed[c - 1], Piece(column, c - 1), c = n, n)
      /\ \A c \in 0 .. n : fed[c].chunk_counter = c
  BY FedIs
<1>2. \A size \in 1 .. n, lo \in 0 .. n : t[size][lo] \in U
  BY DEF Below
<1>3. /\ \A lo \in 0 .. n - 1 : t[1][lo] = Chunk(column, lo, n = 1)
      /\ \A size \in 2 .. n : \A lo \in 0 .. n - size :
           t[size][lo] = Parent(t[LeftSize(size)][lo], t[size - LeftSize(size)][lo + LeftSize(size)], size = n)
  BY TreeIs
<1>4. \A c \in 0 .. n : f[c] = fed[c].stack
  BY DEF Stacks
<1> HIDE DEF fed
<1>5. ASSUME NEW m \in 1 .. n
      PROVE  f[m] = IF m = n THEN Append(f[m - 1], t[1][m - 1]) ELSE EagerMerge(Append(f[m - 1], t[1][m - 1]), m)
  <2>1. /\ m - 1 \in 0 .. n /\ m \in 0 .. n /\ m - 1 \in 0 .. n - 1 /\ m = (m - 1) + 1
    OBVIOUS
  <2> DEFINE old == fed[m - 1]
             root == m = n /\ n = 1
             pushed == Append(old.stack, ChunkCV(Piece(column, m - 1), old.chunk_counter, root))
  <2>2. fed[m] = k_stream_update_chunk(old, Piece(column, m - 1), m = n, n)
    BY <1>1
  <2>3. fed[m].stack = IF m = n THEN pushed ELSE EagerMerge(pushed, old.chunk_counter + 1)
    BY <2>2 DEF k_stream_update_chunk
  <2>4. old.chunk_counter = m - 1 /\ old.chunk_counter + 1 = m /\ old.stack = f[m - 1]
    BY <1>1, <1>4, <2>1
  <2>5. root <=> n = 1
    OBVIOUS
  <2>6. ChunkCV(Piece(column, m - 1), m - 1, root) = t[1][m - 1]
    <3>1. t[1][m - 1] = Chunk(column, m - 1, n = 1)
      BY <1>3, <2>1
    <3> QED BY <2>5, <3>1 DEF Chunk, ChunkCV
  <2>7. pushed = Append(f[m - 1], t[1][m - 1])
    BY <2>4, <2>6
  <2>8. f[m] = fed[m].stack
    BY <1>4, <2>1
  <2> HIDE DEF pushed, old
  <2> QED BY <2>3, <2>4, <2>7, <2>8
<1>13. Holds(0)
  <2>1. f[0] = << >>
    BY <1>1, <1>4
  <2>2. f[0] \in Seq(U) /\ ~(0 >= 1)
    BY ONLY <2>1
  <2> QED BY ONLY <2>2
<1> HIDE DEF Holds
<1>6. 0 \in K
  <2>1. \A a \in 0 .. 0 : a = 0
    OBVIOUS
  <2> QED BY <1>13, <2>1
<1>7. ASSUME NEW c \in Nat, c \in K PROVE c + 1 \in K
  <2> SUFFICES ASSUME c + 1 <= n - 1 PROVE \A a \in 0 .. c + 1 : Holds(a)
    OBVIOUS
  <2> DEFINE m == c + 1
             z == TrailingZeros(m)
             p == Pow2[z]
  <2>1. m \in Nat /\ m > 0 /\ m < n /\ m \in 1 .. n /\ m - 1 = c /\ c \in 0 .. n
    OBVIOUS
  <2>2. \A a \in 0 .. c : Holds(a)
    BY <1>7
  <2>3. /\ \A a \in 0 .. m - 1 : f[a] \in Seq(U)
        /\ \A a \in 1 .. m - 1 : f[a] = Append(f[a - Pow2[TrailingZeros(a)]],
                                               t[Pow2[TrailingZeros(a)]][a - Pow2[TrailingZeros(a)]])
    <3>1. m - 1 = c /\ \A a \in 1 .. c : a \in 0 .. c /\ a >= 1
      BY <2>1
    <3> QED BY <2>2, <3>1 DEF Holds
  <2>4. /\ z \in Nat /\ p \in 1 .. m
        /\ \A k \in 0 .. z - 1 : /\ m - Pow2[k] \in Nat /\ Pow2[k] \in Nat
                                 /\ (m - Pow2[k]) - Pow2[k] = m - Pow2[k + 1]
    BY <2>1, LowIs
  <2> HIDE DEF m, z
  <2>5. ASSUME NEW k \in 0 .. z PROVE Pow2[k] \in 1 .. m /\ m - Pow2[k] \in 0 .. n
    <3>1. Pow2[k] <= p
      BY <2>4, Pow2Grows
    <3>2. Pow2[k] \in Nat /\ Pow2[k] > 0
      BY <2>4, Pow2Is
    <3> HIDE DEF p
    <3> QED BY <2>1, <2>4, <3>1, <3>2
  <2>6. ASSUME NEW k \in 0 .. z - 1
        PROVE  /\ t[Pow2[k]][m - Pow2[k + 1]] \in U
               /\ t[Pow2[k + 1]][m - Pow2[k + 1]]
                    = Parent(t[Pow2[k]][m - Pow2[k + 1]], t[Pow2[k]][m - Pow2[k]], FALSE)
    <3> DEFINE u == Pow2[k]
               size == Pow2[k + 1]
               lo == m - size
    <3>1. k \in Nat /\ k \in 0 .. z /\ k + 1 \in 0 .. z
      BY <2>4
    <3>2. u \in Nat /\ u > 0 /\ size = 2 * u
      BY <3>1, Pow2Is
    <3>3. u \in 1 .. m /\ size \in 1 .. m
      BY <2>5, <3>1
    <3>4. LeftSize(size) = u
      <4>1. size \in Nat /\ size >= 2 /\ u < size /\ size <= 2 * u
        BY <3>2
      <4> QED BY <3>1, <4>1, LeftIs
    <3> HIDE DEF u, size, p
    <3>5. /\ size \in 2 .. n /\ lo \in 0 .. n - size /\ lo \in 0 .. n /\ u \in 1 .. n
          /\ size - u = u /\ lo + u = m - u /\ size # n
      BY <2>1, <3>2, <3>3
    <3>6. t[size][lo] = Parent(t[LeftSize(size)][lo], t[size - LeftSize(size)][lo + LeftSize(size)], size = n)
      BY <1>3, <3>5
    <3>7. t[size][lo] = Parent(t[u][lo], t[u][m - u], FALSE)
      BY <3>4, <3>5, <3>6
    <3>8. t[u][lo] \in U
      BY <1>2, <3>5
    <3> QED BY <3>7, <3>8 DEF u, size
  <2>7. \A k \in 0 .. z : t[Pow2[k]][m - Pow2[k]] \in U
    <3>1. \A k \in 0 .. z : Pow2[k] \in 1 .. n /\ m - Pow2[k] \in 0 .. n
      <4> SUFFICES ASSUME NEW k \in 0 .. z PROVE Pow2[k] \in 1 .. n /\ m - Pow2[k] \in 0 .. n
        OBVIOUS
      <4>1. Pow2[k] \in 1 .. m /\ m - Pow2[k] \in 0 .. n
        BY <2>5
      <4> QED BY <2>1, <4>1
    <3> QED BY <1>2, <3>1
  <2>8. EagerMerge(Append(f[m - 1], t[1][m - 1]), m) = Append(f[m - Pow2[z]], t[Pow2[z]][m - Pow2[z]])
    <3>1. z = TrailingZeros(m)
      BY DEF z
    <3>2. /\ \A k \in 0 .. z - 1 : t[Pow2[k]][m - Pow2[k + 1]] \in U
          /\ \A k \in 0 .. z - 1 : t[Pow2[k + 1]][m - Pow2[k + 1]]
                                     = Parent(t[Pow2[k]][m - Pow2[k + 1]], t[Pow2[k]][m - Pow2[k]], FALSE)
      BY ONLY <2>6, Zenon
    <3>3. Laid(U, f, t, m)
      BY ONLY <2>3, <2>7, <3>1, <3>2, Zenon DEF Laid
    <3> QED BY ONLY <2>1, <3>1, <3>3, EagerIs
  <2>9. f[m] = Append(f[m - p], t[p][m - p])
    <3>1. m # n /\ m \in 1 .. n
      BY <2>1
    <3>2. f[m] = EagerMerge(Append(f[m - 1], t[1][m - 1]), m)
      BY ONLY <1>5, <3>1
    <3> QED BY ONLY <2>8, <3>2 DEF p
  <2>10. f[m] \in Seq(U)
    <3>1. z \in 0 .. z /\ m - p \in 0 .. m - 1
      BY <2>1, <2>4
    <3>2. t[p][m - p] \in U /\ f[m - p] \in Seq(U)
      BY <2>3, <2>7, <3>1
    <3> DEFINE x == t[p][m - p]
               s == f[m - p]
    <3>3. f[m] = Append(s, x) /\ x \in U /\ s \in Seq(U)
      BY ONLY <2>9, <3>2
    <3> HIDE DEF x, s
    <3> QED BY ONLY <3>3
  <2>11. Holds(m)
    BY <2>9, <2>10 DEF Holds, z
  <2>12. \A a \in 0 .. c + 1 : a \in 0 .. c \/ a = m
    BY DEF m
  <2> QED BY <2>2, <2>11, <2>12
<1> HIDE DEF K
<1>8. Nat \subseteq K
  BY <1>6, <1>7, T!NatIsLeast
<1>9. n - 1 \in K /\ n - 1 \in Nat
  BY <1>8
<1>10. \A a \in 0 .. n - 1 : Holds(a)
  <2>1. n - 1 <= n - 1
    BY <1>9
  <2> QED BY ONLY <1>9, <2>1 DEF K
<1>11. f[n] = Append(f[n - 1], t[1][n - 1])
  <2>1. n \in 1 .. n
    OBVIOUS
  <2> QED BY <1>5, <2>1
<1>12. f[0] = << >>
  BY <1>1, <1>4
<1>14. \A a \in 0 .. n - 1 : f[a] \in Seq(U)
  BY ONLY <1>10 DEF Holds
<1>15. \A a \in 1 .. n - 1 : f[a] = Append(f[a - Pow2[TrailingZeros(a)]],
                                          t[Pow2[TrailingZeros(a)]][a - Pow2[TrailingZeros(a)]])
  <2>1. \A a \in 1 .. n - 1 : a \in 0 .. n - 1 /\ a >= 1
    OBVIOUS
  <2> QED BY ONLY <1>10, <2>1 DEF Holds
<1> QED BY ONLY <1>11, <1>12, <1>14, <1>15 DEF Stacked

\* The stacks k_stream_finalize goes through.
Final(stack) == Rounds(LAMBDA st, k : Merge(st, Len(st) = 2), stack, Len(stack) - 1)

\* The stacks of k_stream_finalize, merge by merge.
LEMMA FinalIs ==
  ASSUME NEW stack, NEW n \in Nat, n = Len(stack) - 1, NEW c, c = Final(stack)
  PROVE  c[0] = stack /\ \A k \in 1 .. n : c[k] = Merge(c[k - 1], Len(c[k - 1]) = 2)
<1> DEFINE E(a) == Merge(a, Len(a) = 2)
           Up(g, m) == g = [k \in 0 .. m |-> IF k = 0 THEN stack ELSE E(g[k - 1])]
           K == {m \in Nat : \E g : Up(g, m)}
<1>0. c = CHOOSE g : Up(g, n)
  BY DEF Final, Rounds
<1> HIDE DEF E
<1>1. 0 \in K
  <2> DEFINE g == [k \in 0 .. 0 |-> stack]
  <2>1. \A k \in 0 .. 0 : k = 0
    OBVIOUS
  <2>2. Up(g, 0)
    BY <2>1
  <2> HIDE DEF g
  <2> QED BY <2>2
<1>2. ASSUME NEW g, NEW m \in Nat, Up(g, m), NEW k \in 0 .. m
      PROVE  g[k] = IF k = 0 THEN stack ELSE E(g[k - 1])
  <2> DEFINE e(j) == IF j = 0 THEN stack ELSE E(g[j - 1])
  <2>1. g = [j \in 0 .. m |-> e(j)]
    BY <1>2
  <2> HIDE DEF e, Up
  <2>2. g[k] = e(k)
    BY <2>1
  <2> QED BY <2>2 DEF e
<1>3. ASSUME NEW m \in Nat, m \in K PROVE m + 1 \in K
  <2>1. PICK g : Up(g, m)
    BY <1>3
  <2> DEFINE h == [k \in 0 .. m + 1 |-> IF k = 0 THEN stack ELSE E(g[k - 1])]
  <2> HIDE DEF Up
  <2>2. \A k \in 0 .. m : h[k] = g[k]
    <3>1. \A k \in 0 .. m : k \in 0 .. m + 1
      OBVIOUS
    <3> QED BY <1>2, <2>1, <3>1
  <2>3. \A k \in 0 .. m + 1 : k # 0 => k - 1 \in 0 .. m
    OBVIOUS
  <2>4. h = [k \in 0 .. m + 1 |-> h[k]]
        /\ \A k \in 0 .. m + 1 : h[k] = IF k = 0 THEN stack ELSE E(g[k - 1])
    OBVIOUS
  <2> HIDE DEF h
  <2>5. \A k \in 0 .. m + 1 : h[k] = IF k = 0 THEN stack ELSE E(h[k - 1])
    BY <2>2, <2>3, <2>4
  <2>6. Up(h, m + 1)
    BY <2>4, <2>5 DEF Up
  <2> QED BY <2>6
<1>4. Up(c, n)
  <2> HIDE DEF K, Up
  <2>1. Nat \subseteq K
    BY <1>1, <1>3, T!NatIsLeast
  <2>2. PICK g : Up(g, n)
    BY <2>1 DEF K
  <2> QED BY <1>0, <2>2
<1> HIDE DEF Up, K
<1>5. c[0] = stack /\ \A k \in 1 .. n : c[k] = E(c[k - 1])
  <2>1. 0 \in 0 .. n /\ \A k \in 1 .. n : k \in 0 .. n /\ k # 0
    OBVIOUS
  <2> QED BY <1>2, <1>4, <2>1
<1> QED BY <1>5 DEF E

\* In one launch: the digest of a column is the tree over its chunks.
LEMMA OneLaunch ==
  ASSUME NEW column, Len(column) \in Nat, Len(column) > 0
  PROVE  /\ k_hash_columns_simple(column) = merkle_leaf(column)
         /\ k_stream_finalize(Fed(column)[Chunks(Len(column))].stack) = merkle_leaf(column)
<1> DEFINE n == Chunks(Len(column))
           t == Tree(column)
           U == Below(column, n)
           f == Stacks(column)
<1>1. n \in Nat /\ n > 0
  BY ChunksAre
<1>2. /\ f[0] = << >> /\ \A a \in 0 .. n - 1 : f[a] \in Seq(U)
      /\ \A a \in 1 .. n - 1 : f[a] = Append(f[a - Pow2[TrailingZeros(a)]],
                                             t[Pow2[TrailingZeros(a)]][a - Pow2[TrailingZeros(a)]])
      /\ f[n] = Append(f[n - 1], t[1][n - 1])
  <2> HIDE DEF n, t, f, U
  <2>1. n = Chunks(Len(column)) /\ t = Tree(column) /\ U = Below(column, n)
        /\ f = Stacks(column)
    BY DEF n, t, f, U
  <2>2. Stacked(n, t, f, U)
    BY ONLY <1>1, <2>1, FedStack
  <2> QED BY ONLY <2>2 DEF Stacked
<1>3. \A size \in 2 .. n : \A lo \in 0 .. n - size :
        t[size][lo] = Parent(t[LeftSize(size)][lo], t[size - LeftSize(size)][lo + LeftSize(size)], size = n)
  <2> HIDE DEF n, t
  <2>1. n = Chunks(Len(column)) /\ t = Tree(column)
    BY DEF n, t
  <2> QED BY <1>1, <2>1, TreeIs
<1>4. \A size \in 1 .. n, lo \in 0 .. n : t[size][lo] \in U
  BY DEF Below
<1>5. merkle_leaf(column) = t[n][0]
  BY LeafIsTree
<1>6. k_hash_columns_simple(column) = k_stream_finalize(Fed(column)[n].stack) /\ Fed(column)[n].stack = f[n]
  <2>1. n \in 0 .. n
    BY <1>1
  <2> QED BY <2>1 DEF k_hash_columns_simple, Fed, Stacks
<1> DEFINE stack == f[n]
           L == Len(stack) - 1
           c == Final(stack)
<1>7. k_stream_finalize(stack) = c[L][1]
  BY DEF k_stream_finalize, Final
<1> HIDE DEF n, t, U, f
<1>8. L \in Nat /\ L = Len(f[n - 1]) /\ n - 1 \in 0 .. n - 1
  <2>1. f[n - 1] \in Seq(U) /\ n - 1 \in 0 .. n - 1
    BY <1>1, <1>2
  <2>2. t[1][n - 1] \in U
    <3>1. 1 \in 1 .. n /\ n - 1 \in 0 .. n
      BY <1>1
    <3> QED BY <1>4, <3>1
  <2> DEFINE s == f[n - 1]
             x == t[1][n - 1]
  <2>3. s \in Seq(U) /\ x \in U /\ stack = Append(s, x)
    BY <1>2, <2>1, <2>2
  <2> HIDE DEF s, x
  <2>4. Len(stack) = Len(s) + 1 /\ Len(s) \in Nat
    BY ONLY <2>3
  <2> HIDE DEF stack
  <2> QED BY ONLY <2>1, <2>4 DEF s
<1>9. c[0] = stack /\ \A k \in 1 .. L : c[k] = Merge(c[k - 1], Len(c[k - 1]) = 2)
  <2> HIDE DEF c, stack
  <2>1. c = Final(stack) /\ L = Len(stack) - 1
    BY DEF c
  <2> HIDE DEF L
  <2> QED BY <1>8, <2>1, FinalIs
<1> DEFINE At(k, a) == /\ a \in 0 .. n - 1 /\ c[k] = Append(f[a], t[n - a][a]) /\ Len(f[a]) = L - k
                       /\ a > 0 => n - a <= Pow2[TrailingZeros(a)]
           S == {k \in 0 .. L : \E a \in 0 .. n - 1 : At(k, a)}
<1>10. 0 \in S
  <2>1. At(0, n - 1)
    <3>1. n - (n - 1) = 1 /\ L - 0 = L
      BY <1>1, <1>8
    <3>2. n - 1 > 0 => 1 <= Pow2[TrailingZeros(n - 1)]
      <4> SUFFICES ASSUME n - 1 > 0 PROVE 1 <= Pow2[TrailingZeros(n - 1)]
        OBVIOUS
      <4>1. n - 1 \in Nat
        BY <1>1
      <4> QED BY <4>1, LowIs
    <3> HIDE DEF L
    <3> QED BY <1>2, <1>8, <1>9, <3>1, <3>2
  <2> HIDE DEF At, L
  <2> QED BY <1>8, <2>1
<1> HIDE DEF c, L
<1>11. ASSUME NEW k \in 1 .. L, k - 1 \in S PROVE k \in S
  <2>1. PICK a \in 0 .. n - 1 : At(k - 1, a)
    BY <1>11
  <2> DEFINE p == Pow2[TrailingZeros(a)]
             b == a - p
             fb == f[b]
             y == t[p][b]
             x == t[n - a][a]
  <2>2. a \in Nat /\ k - 1 \in Nat /\ k \in 0 .. L /\ (L - k) \in Nat /\ Len(f[a]) = (L - k) + 1
    BY <1>8, <2>1
  <2>3. a > 0
    BY <1>2, <2>2
  <2>4. p \in 1 .. a /\ (b > 0 => Pow2[TrailingZeros(b)] >= 2 * p)
    BY <2>2, <2>3, LowIs
  <2>5. f[a] = Append(fb, y) /\ c[k - 1] = Append(f[a], x) /\ n - a <= p
    <3>1. a \in 1 .. n - 1
      BY <2>2, <2>3
    <3> QED BY <1>2, <2>1, <2>3, <3>1
  <2>14. p \in Nat /\ \E i \in Nat : p = Pow2[i]
    <3>1. TrailingZeros(a) \in Nat
      BY <2>2, <2>3, LowIs
    <3> QED BY <2>4, <3>1
  <2>15. LeftSize(n - b) = p
    <3>1. PICK i \in Nat : p = Pow2[i]
      BY <2>14
    <3> HIDE DEF p
    <3>2. n - b \in Nat /\ n - b >= 2 /\ p < n - b /\ n - b <= 2 * p
      <4>1. n \in Nat /\ a \in Nat /\ a <= n - 1 /\ p \in 1 .. a /\ n - a <= p
        BY <1>1, <2>2, <2>4, <2>5
      <4> QED BY ONLY <4>1
    <3> HIDE DEF b
    <3> QED BY <3>1, <3>2, LeftIs
  <2> HIDE DEF p
  <2>6. /\ b \in 0 .. n - 1 /\ n - b \in 2 .. n /\ b \in 0 .. n - (n - b) /\ b \in 0 .. n /\ a \in 0 .. n
        /\ p \in 1 .. n /\ n - a \in 1 .. n /\ (n - b) - p = n - a /\ b + p = a
    BY <1>1, <2>2, <2>4
  <2>7. fb \in Seq(U) /\ y \in U /\ x \in U
    BY <1>2, <1>4, <2>6
  <2>8. Len(fb) = 0 <=> b = 0
    <3>1. b = 0 => Len(fb) = 0
      BY <1>2
    <3>2. ASSUME b # 0 PROVE Len(fb) # 0
      <4> DEFINE q == Pow2[TrailingZeros(b)]
      <4>1. b \in 1 .. n - 1 /\ b \in Nat /\ b > 0
        BY <2>6, <3>2
      <4>2. q \in 1 .. b
        <5> HIDE DEF b
        <5> QED BY <4>1, LowIs
      <4>3. f[b] = Append(f[b - q], t[q][b - q])
        BY <1>2, <4>1
      <4>4. f[b - q] \in Seq(U) /\ t[q][b - q] \in U
        <5>1. b - q \in 0 .. n - 1 /\ b - q \in 0 .. n /\ q \in 1 .. n
          BY <1>1, <4>1, <4>2
        <5> QED BY <1>2, <1>4, <5>1
      <4> DEFINE s == f[b - q]
                 v == t[q][b - q]
      <4>5. fb = Append(s, v) /\ s \in Seq(U) /\ v \in U
        BY <4>3, <4>4
      <4> HIDE DEF s, v, fb
      <4> QED BY ONLY <4>5
    <3> QED BY <3>1, <3>2
  <2> DEFINE w == Append(Append(fb, y), x)
  <2>9. c[k] = Merge(w, Len(w) = 2)
    <3>1. c[k - 1] = w
      BY <2>5
    <3> HIDE DEF w
    <3> QED BY <1>9, <3>1
  <2>10. t[n - b][b] = Parent(y, x, n - b = n)
    <3>1. t[n - b][b] = Parent(t[LeftSize(n - b)][b], t[(n - b) - LeftSize(n - b)][b + LeftSize(n - b)], n - b = n)
      BY <1>3, <2>6
    <3> QED BY <2>6, <2>15, <3>1
  <2>16. n - b = n <=> b = 0
    BY <1>1, <2>6
  <2> HIDE DEF fb, x, y, b
  <2>11. /\ Len(w) = Len(fb) + 2 /\ Len(fb) \in Nat
         /\ \A root : Merge(w, root) = Append(fb, Parent(y, x, root))
    BY ONLY <2>7, MergeIs
  <2> HIDE DEF w
  <2>17. (Len(w) = 2) = (n - b = n)
    BY ONLY <2>8, <2>11, <2>16
  <2>12. c[k] = Append(fb, t[n - b][b])
    BY ONLY <2>9, <2>10, <2>11, <2>17, Zenon
  <2>13. At(k, b)
    <3>1. Len(fb) = L - k
      <4>1. Len(Append(fb, y)) = (L - k) + 1
        BY <2>2, <2>5
      <4>2. Len(Append(fb, y)) = Len(fb) + 1 /\ Len(fb) \in Nat
        BY ONLY <2>7
      <4> QED BY ONLY <2>2, <4>1, <4>2
    <3>2. b > 0 => n - b <= Pow2[TrailingZeros(b)]
      <4> SUFFICES ASSUME b > 0 PROVE n - b <= Pow2[TrailingZeros(b)]
        OBVIOUS
      <4> DEFINE q == Pow2[TrailingZeros(b)]
      <4>1. b \in Nat
        BY <2>6
      <4>2. q \in Nat
        BY <4>1, LowIs
      <4>3. q >= 2 * p
        BY <2>4
      <4> HIDE DEF q
      <4>4. n - b <= 2 * p
        BY ONLY <1>1, <2>2, <2>4, <2>5, <2>6, <2>14, <4>1
      <4>5. n - b <= q
        BY ONLY <1>1, <2>14, <4>1, <4>2, <4>3, <4>4
      <4> QED BY <4>5 DEF q
    <3> QED BY ONLY <2>6, <2>12, <3>1, <3>2 DEF fb
  <2> HIDE DEF At
  <2> QED BY ONLY <2>2, <2>6, <2>13
<1> HIDE DEF S
<1>12. 0 .. L \subseteq S
  BY <1>8, <1>10, <1>11, UpTo
<1>13. c[L][1] = t[n][0]
  <2>1. L \in S
    BY <1>8, <1>12
  <2>2. PICK a \in 0 .. n - 1 : At(L, a)
    BY <2>1 DEF S
  <2>3. Len(f[a]) = 0 /\ f[a] \in Seq(U)
    BY <1>2, <1>8, <2>2
  <2>4. a = 0
    <3> SUFFICES ASSUME a # 0 PROVE FALSE
      OBVIOUS
    <3> DEFINE q == Pow2[TrailingZeros(a)]
    <3>1. a \in 1 .. n - 1 /\ a \in Nat /\ a > 0
      OBVIOUS
    <3>2. q \in 1 .. a
      BY <3>1, LowIs
    <3>3. f[a] = Append(f[a - q], t[q][a - q])
      BY <1>2, <3>1
    <3>4. f[a - q] \in Seq(U) /\ t[q][a - q] \in U
      <4>1. a - q \in 0 .. n - 1 /\ a - q \in 0 .. n /\ q \in 1 .. n
        BY <1>1, <3>1, <3>2
      <4> QED BY <1>2, <1>4, <4>1
    <3> DEFINE s == f[a - q]
               v == t[q][a - q]
               fa == f[a]
    <3>5. fa = Append(s, v) /\ s \in Seq(U) /\ v \in U /\ Len(fa) = 0
      BY <2>3, <3>3, <3>4
    <3> HIDE DEF s, v, fa
    <3> QED BY ONLY <3>5
  <2>5. c[L] = Append(<< >>, t[n][0])
    <3>1. n - 0 = n
      BY <1>1
    <3> QED BY <1>2, <2>2, <2>4, <3>1
  <2>6. t[n][0] \in U
    BY <1>1, <1>4
  <2> QED BY ONLY <2>5, <2>6
<1>14. k_stream_finalize(stack) = merkle_leaf(column)
  BY <1>5, <1>7, <1>13
<1> QED BY <1>6, <1>14 DEF n

---------------------------------------------------------------------------
(* The accumulator: the rows of a column in pieces of any size.             *)

\* Sequences that agree at every index are equal.
LEMMA SameSeq ==
  ASSUME NEW V, NEW s \in Seq(V), NEW u \in Seq(V), Len(s) = Len(u), \A i \in 1 .. Len(s) : s[i] = u[i]
  PROVE  s = u
OBVIOUS

\* What SubSeq cuts out.
LEMMA Cut ==
  ASSUME NEW V, NEW R \in Seq(V), NEW a \in Nat, NEW b \in Nat, a <= b, b <= Len(R),
         NEW s, s = SubSeq(R, a + 1, b)
  PROVE  s \in Seq(V) /\ Len(s) = b - a /\ \A i \in 1 .. b - a : s[i] = R[a + i]
<1>1. \A i \in a + 1 .. b : R[i] \in V
  OBVIOUS
<1>2. s \in Seq(V)
  BY <1>1
<1>3. Len(s) = b - a
  OBVIOUS
<1>4. ASSUME NEW i \in 1 .. b - a PROVE s[i] = R[a + i]
  <2>1. s[i] = R[(a + 1) + i - 1] /\ (a + 1) + i - 1 = a + i
    OBVIOUS
  <2> QED BY <2>1
<1> QED BY <1>2, <1>3, <1>4

\* A cut of a cut is a cut.
LEMMA CutCut ==
  ASSUME NEW V, NEW R \in Seq(V), NEW a \in Nat, NEW b \in Nat, a <= b, b <= Len(R),
         NEW s, s = SubSeq(R, a + 1, b), NEW c \in Nat, NEW d \in Nat, c <= d, d <= b - a
  PROVE  SubSeq(s, c + 1, d) = SubSeq(R, a + c + 1, a + d)
<1> DEFINE x == SubSeq(s, c + 1, d)
           y == SubSeq(R, (a + c) + 1, a + d)
<1>1. s \in Seq(V) /\ Len(s) = b - a /\ \A i \in 1 .. b - a : s[i] = R[a + i]
  BY Cut
<1>2. x \in Seq(V) /\ Len(x) = d - c /\ \A i \in 1 .. d - c : x[i] = s[c + i]
  <2> HIDE DEF x
  <2>1. x = SubSeq(s, c + 1, d) /\ d <= Len(s)
    BY <1>1 DEF x
  <2> QED BY <1>1, <2>1, Cut
<1>3. y \in Seq(V) /\ Len(y) = d - c /\ \A i \in 1 .. d - c : y[i] = R[(a + c) + i]
  <2>1. a + c \in Nat /\ a + d \in Nat /\ a + c <= a + d /\ a + d <= Len(R) /\ (a + d) - (a + c) = d - c
    OBVIOUS
  <2> HIDE DEF y
  <2>2. y = SubSeq(R, (a + c) + 1, a + d)
    BY DEF y
  <2>3. y \in Seq(V) /\ Len(y) = (a + d) - (a + c) /\ \A i \in 1 .. (a + d) - (a + c) : y[i] = R[(a + c) + i]
    BY <2>1, <2>2, Cut
  <2> QED BY <2>1, <2>3
<1>4. \A i \in 1 .. d - c : c + i \in 1 .. b - a /\ a + (c + i) = (a + c) + i
  OBVIOUS
<1> HIDE DEF x, y
<1>5. \A i \in 1 .. d - c : x[i] = y[i]
  BY <1>1, <1>2, <1>3, <1>4
<1>6. x = y
  BY <1>2, <1>3, <1>5, SameSeq
<1> QED BY <1>6 DEF x, y

\* What two sequences are one after the other.
LEMMA JoinIs ==
  ASSUME NEW V, NEW s \in Seq(V), NEW u \in Seq(V)
  PROVE  /\ s \o u \in Seq(V) /\ Len(s \o u) = Len(s) + Len(u)
         /\ \A i \in 1 .. Len(s) : (s \o u)[i] = s[i]
         /\ \A i \in 1 .. Len(u) : (s \o u)[Len(s) + i] = u[i]
OBVIOUS

Rows(R, a, b) == SubSeq(R, a + 1, b)
\* The rows of R after b begin with these.
Follows(R, b, more) == b + Len(more) <= Len(R) /\ \A i \in 1 .. Len(more) : more[i] = R[b + i]

\* Rows that follow a cut make it longer.
LEMMA CutJoin ==
  ASSUME NEW V, NEW R \in Seq(V), NEW a \in Nat, NEW b \in Nat, a <= b,
         NEW more \in Seq(V), Follows(R, b, more)
  PROVE  Rows(R, a, b) \o more = Rows(R, a, b + Len(more))
<1> DEFINE s == SubSeq(R, a + 1, b)
           x == s \o more
           y == SubSeq(R, a + 1, b + Len(more))
           m == Len(more)
<1>0. m \in Nat /\ b + m \in Nat /\ a <= b + m /\ b <= Len(R) /\ b + m <= Len(R)
      /\ \A i \in 1 .. m : more[i] = R[b + i]
  BY DEF Follows
<1>1. s \in Seq(V) /\ Len(s) = b - a /\ \A i \in 1 .. b - a : s[i] = R[a + i]
  <2> HIDE DEF s
  <2>1. s = SubSeq(R, a + 1, b)
    BY DEF s
  <2> QED BY <1>0, <2>1, Cut
<1>2. y \in Seq(V) /\ Len(y) = b + m - a /\ \A i \in 1 .. b + m - a : y[i] = R[a + i]
  <2> HIDE DEF y, m
  <2>1. y = SubSeq(R, a + 1, b + m)
    BY DEF y, m
  <2> QED BY <1>0, <2>1, Cut
<1> HIDE DEF s, y
<1>3. /\ x \in Seq(V) /\ Len(x) = b - a + m
      /\ \A i \in 1 .. b - a : x[i] = s[i]
      /\ \A i \in 1 .. m : x[b - a + i] = more[i]
  <2>1. /\ x \in Seq(V) /\ Len(x) = Len(s) + m
        /\ \A i \in 1 .. Len(s) : x[i] = s[i]
        /\ \A i \in 1 .. m : x[Len(s) + i] = more[i]
    <3>1. s \in Seq(V) /\ more \in Seq(V)
      BY <1>1
    <3> QED BY ONLY <3>1, JoinIs
  <2> HIDE DEF x, m
  <2> QED BY <1>1, <2>1
<1> HIDE DEF x
<1>4. ASSUME NEW i \in 1 .. b - a + m PROVE x[i] = y[i]
  <2>1. CASE i <= b - a
    <3>1. i \in 1 .. b - a /\ i \in 1 .. b + m - a
      BY <1>0, <2>1
    <3> QED BY <1>1, <1>2, <1>3, <3>1
  <2>2. CASE ~(i <= b - a)
    <3> DEFINE j == i - (b - a)
    <3>1. j \in 1 .. m /\ b - a + j = i /\ b + j = a + i /\ i \in 1 .. b + m - a
      BY <1>0, <2>2
    <3> HIDE DEF j
    <3>2. x[i] = more[j] /\ more[j] = R[b + j]
      BY <1>0, <1>3, <3>1
    <3> QED BY <1>2, <3>1, <3>2
  <2> QED BY <2>1, <2>2
<1>5. b - a + m = b + m - a
  BY <1>0
<1>6. x = y
  BY <1>2, <1>3, <1>4, <1>5, SameSeq
<1> QED BY <1>6 DEF x, y, s, Rows

\* The chunks of a column, the last one short.
\* A chunk of a sequence is a cut, short when it is the last.
LEMMA PieceIs ==
  ASSUME NEW V, NEW R \in Seq(V), NEW c \in Nat
  PROVE  /\ (c + 1) * CH <= Len(R) => Piece(R, c) = SubSeq(R, c * CH + 1, (c + 1) * CH)
         /\ Len(R) <= (c + 1) * CH => Piece(R, c) = SubSeq(R, c * CH + 1, Len(R))
<1>1. CH \in Nat /\ CH > 0 /\ CH = BLAKE3_CHUNK_ROWS
  BY ChunkRowsAssumption DEF CH
<1>2. c * CH \in Nat /\ (c + 1) * CH = c * CH + CH /\ Len(R) \in Nat
  BY <1>1
<1>3. Piece(R, c) = SubSeq(R, c * CH + 1, IF c * CH + CH < Len(R) THEN c * CH + CH ELSE Len(R))
  BY <1>1 DEF Piece
<1> DEFINE lo == c * CH
           hi == (c + 1) * CH
           r == Len(R)
<1>4. /\ lo \in Nat /\ hi = lo + CH /\ r \in Nat
      /\ Piece(R, c) = SubSeq(R, lo + 1, IF lo + CH < r THEN lo + CH ELSE r)
  BY <1>2, <1>3
<1> HIDE DEF lo, hi, r
<1>5. hi <= r => (IF lo + CH < r THEN lo + CH ELSE r) = hi
  BY <1>1, <1>4
<1>6. r <= hi => (IF lo + CH < r THEN lo + CH ELSE r) = r
  BY <1>1, <1>4
<1>7. /\ hi <= r => Piece(R, c) = SubSeq(R, lo + 1, hi)
      /\ r <= hi => Piece(R, c) = SubSeq(R, lo + 1, r)
  BY ONLY <1>4, <1>5, <1>6
<1> QED BY <1>7 DEF lo, hi, r

\* What update feeds of the rows it has: q full chunks from a state on.
Emit1(st, values, n) == k_stream_update_chunk(st, values, st.chunk_counter + 1 = n, n)
Emitted(states, rows, n, q) == Rounds(LAMBDA st, c : Emit1(st, Piece(rows, c - 1), n), states, q)[q]

\* The rows from chunk e on, up to b, with q chunks of R among them.
Feeds(R, e, q, b, rows) ==
  /\ b <= Len(R) /\ (e + q) * CH <= b /\ e + q <= Chunks(Len(R))
  /\ rows = SubSeq(R, e * CH + 1, b)

\* The last chunk is fed to the state the chunks before it left.
FedAtLast(column, f, n, p) == f[n] = Emit1(f[p], Piece(column, p), n)

\* k_stream_update_chunk's last launch takes the state all the others left.
LEMMA FedLast ==
  ASSUME NEW column, NEW n \in Nat, n = Chunks(Len(column)), NEW f, f = Fed(column),
         NEW p \in Nat, n = p + 1
  PROVE  FedAtLast(column, f, n, p)
<1>1. /\ n \in Nat
      /\ \A c \in 1 .. n : f[c] = k_stream_update_chunk(f[c - 1], Piece(column, c - 1), c = n, n)
      /\ \A c \in 0 .. n : f[c].chunk_counter = c
  <2>1. n \in Nat /\ n = Chunks(Len(column)) /\ f = Fed(column)
    OBVIOUS
  <2> QED BY ONLY <2>1, FedIs
<1>2. n \in 1 .. n /\ n - 1 = p /\ p \in 0 .. n
  OBVIOUS
<1>3. f[n] = k_stream_update_chunk(f[n - 1], Piece(column, n - 1), n = n, n)
  BY ONLY <1>1, <1>2
<1>4. f[p].chunk_counter = p
  BY <1>1, <1>2
<1>5. f[p].chunk_counter + 1 = n
  BY ONLY <1>2, <1>4
<1>6. Emit1(f[p], Piece(column, p), n) = k_stream_update_chunk(f[p], Piece(column, p), n = n, n)
  BY ONLY <1>5 DEF Emit1
<1> QED BY ONLY <1>2, <1>3, <1>6 DEF FedAtLast

\* The chunks a call emits are the next ones of the column.
LEMMA EmittedIs ==
  ASSUME NEW V, NEW R \in Seq(V), NEW n, n = Chunks(Len(R)), NEW e \in Nat, NEW q \in Nat,
         NEW b \in Nat, NEW f, f = Fed(R), NEW rows, Feeds(R, e, q, b, rows)
  PROVE  Emitted(f[e], rows, n, q) = f[e + q]
<1> DEFINE start == f[e]
           Step(st, c) == Emit1(st, Piece(rows, c - 1), n)
           G(k) == f[e + k]
           g == [k \in 0 .. q |-> G(k)]
           Up(h) == h = [k \in 0 .. q |-> IF k = 0 THEN start ELSE Step(h[k - 1], k)]
           at == CHOOSE h : Up(h)
<1>10. /\ b <= Len(R) /\ (e + q) * CH <= b /\ e + q <= n
       /\ rows = SubSeq(R, e * CH + 1, b)
  BY DEF Feeds
<1>1. Emitted(start, rows, n, q) = at[q]
  BY DEF Emitted, Rounds
<1>2. /\ n \in Nat /\ Len(R) \in Nat
      /\ \A c \in 1 .. n : f[c] = k_stream_update_chunk(f[c - 1], Piece(R, c - 1), c = n, n)
      /\ \A c \in 0 .. n : f[c].chunk_counter = c
  <2>1. Len(R) \in Nat
    OBVIOUS
  <2>2. n \in Nat
    BY <2>1, ChunksAre
  <2> QED BY <2>1, <2>2, FedIs
<1>3. G(0) = start
  <2>1. e + 0 = e
    OBVIOUS
  <2> QED BY <2>1
<1>4. CH \in Nat /\ CH > 0
  BY ChunkRowsAssumption DEF CH
<1>5. ASSUME NEW k \in 1 .. q PROVE G(k) = Step(G(k - 1), k)
  <2> DEFINE c == e + k
  <2>1. /\ c \in 1 .. n /\ c - 1 \in 0 .. n /\ (c - 1) + 1 = c /\ e + (k - 1) = c - 1 /\ c - 1 \in Nat
        /\ k - 1 \in Nat /\ (k - 1) + 1 = k /\ c \in Nat
    BY <1>2, <1>10
  <2>2. f[c] = k_stream_update_chunk(f[c - 1], Piece(R, c - 1), c = n, n) /\ f[c - 1].chunk_counter + 1 = c
    BY <1>2, <2>1
  <2> DEFINE lo == e * CH
             x == (k - 1) * CH
  <2>3. /\ lo \in Nat /\ x \in Nat /\ c * CH = lo + x + CH /\ (c - 1) * CH = lo + x
        /\ k * CH = x + CH /\ lo + x + CH <= b
    <3>1. c * CH <= (e + q) * CH /\ lo \in Nat /\ x \in Nat
      <4>1. PICK i \in Nat : q = k + i
        <5>1. q - k \in Nat /\ q = k + (q - k)
          OBVIOUS
        <5> QED BY <5>1
      <4>2. (e + q) * CH = c * CH + i * CH /\ i * CH \in Nat
        BY <1>4, <2>1, <4>1
      <4>3. c * CH \in Nat /\ lo \in Nat /\ x \in Nat
        BY <1>4, <2>1
      <4> QED BY <4>2, <4>3
    <3>2. c * CH = lo + x + CH /\ (c - 1) * CH = lo + x /\ k * CH = x + CH
      BY <1>4, <2>1
    <3>3. (e + q) * CH \in Nat
      BY <1>4
    <3>4. lo + x + CH <= b
      <4> DEFINE z == (e + q) * CH
                 y == c * CH
      <4>1. y = lo + x + CH /\ y <= z /\ z <= b /\ z \in Nat
        BY <1>10, <3>1, <3>2, <3>3
      <4> HIDE DEF y, z, lo, x
      <4> QED BY <1>4, <3>1, <4>1
    <3> QED BY ONLY <3>1, <3>2, <3>4
  <2>4. Piece(R, c - 1) = SubSeq(R, lo + x + 1, lo + x + CH)
    <3>1. c * CH <= Len(R)
      BY <1>2, <1>4, <1>10, <2>3
    <3>2. Piece(R, c - 1) = SubSeq(R, (c - 1) * CH + 1, ((c - 1) + 1) * CH)
      <4>1. ((c - 1) + 1) * CH <= Len(R)
        BY <2>1, <3>1
      <4> HIDE DEF c
      <4> QED BY <2>1, <4>1, PieceIs
    <3> QED BY <2>1, <2>3, <3>2
  <2> HIDE DEF lo
  <2>5. rows \in Seq(V) /\ Len(rows) = b - lo
    <3>1. lo <= b /\ b <= Len(R) /\ rows = SubSeq(R, lo + 1, b)
      BY <1>4, <1>10, <2>3 DEF lo
    <3> HIDE DEF x
    <3>2. lo \in Nat /\ b \in Nat /\ R \in Seq(V)
      BY <2>3
    <3> QED BY ONLY <3>1, <3>2, Cut
  <2>6. Piece(rows, k - 1) = SubSeq(rows, x + 1, x + CH)
    <3>1. ((k - 1) + 1) * CH <= Len(rows)
      <4> HIDE DEF x
      <4> QED BY <1>4, <2>1, <2>3, <2>5
    <3>2. Piece(rows, k - 1) = SubSeq(rows, (k - 1) * CH + 1, ((k - 1) + 1) * CH)
      BY <2>1, <2>5, <3>1, PieceIs
    <3> QED BY <2>1, <2>3, <3>2
  <2>7. SubSeq(rows, x + 1, x + CH) = SubSeq(R, lo + x + 1, lo + (x + CH))
    <3> HIDE DEF x
    <3>1. x + CH \in Nat /\ x <= x + CH /\ x + CH <= b - lo /\ lo <= b /\ b <= Len(R)
      BY <1>4, <1>10, <2>3
    <3>2. rows = SubSeq(R, lo + 1, b)
      BY <1>10 DEF lo
    <3>3. lo \in Nat /\ b \in Nat /\ R \in Seq(V) /\ x \in Nat
      BY <2>3
    <3> DEFINE hi == x + CH
    <3>4. hi \in Nat /\ x <= hi /\ hi <= b - lo
      BY <3>1
    <3> HIDE DEF hi
    <3>5. SubSeq(rows, x + 1, hi) = SubSeq(R, lo + x + 1, lo + hi)
      BY ONLY <3>1, <3>2, <3>3, <3>4, CutCut
    <3> QED BY <3>5 DEF hi
  <2>8. Piece(rows, k - 1) = Piece(R, c - 1)
    <3>1. lo + (x + CH) = lo + x + CH
      BY <1>4, <2>3
    <3> QED BY <2>4, <2>6, <2>7, <3>1
  <2> HIDE DEF c
  <2>9. Step(f[c - 1], k) = f[c]
    BY ONLY <2>2, <2>8 DEF Emit1
  <2> QED BY <2>1, <2>9 DEF c
<1> HIDE DEF G, Step, start
<1>6. Up(g)
  <2>1. \A k \in 1 .. q : k - 1 \in 0 .. q
    OBVIOUS
  <2>2. \A k \in 1 .. q : G(k) = Step(g[k - 1], k)
    BY <1>5, <2>1
  <2>3. \A k \in 0 .. q : G(k) = IF k = 0 THEN start ELSE Step(g[k - 1], k)
    BY <1>3, <2>2
  <2> QED BY <2>3
<1>7. Up(at)
  <2> HIDE DEF Up, g
  <2> QED BY <1>6
<1> HIDE DEF at
<1>8. \A k \in 0 .. q : at[k] = g[k]
  <2>1. at[0] = g[0]
    BY <1>3, <1>7
  <2>2. ASSUME NEW k \in 1 .. q, at[k - 1] = g[k - 1] PROVE at[k] = g[k]
    <3>1. k \in 0 .. q /\ k # 0
      OBVIOUS
    <3> DEFINE x(j) == IF j = 0 THEN start ELSE Step(at[j - 1], j)
               y(j) == IF j = 0 THEN start ELSE Step(g[j - 1], j)
    <3>2. at = [j \in 0 .. q |-> x(j)] /\ g = [j \in 0 .. q |-> y(j)]
      BY <1>6, <1>7
    <3> HIDE DEF x, y, g
    <3>3. at[k] = x(k) /\ g[k] = y(k)
      BY <3>1, <3>2
    <3> QED BY <2>2, <3>1, <3>3 DEF x, y
  <2> HIDE DEF g
  <2>3. q \in Nat
    OBVIOUS
  <2>4. Agree(q, at, g)
    BY ONLY <2>1, <2>2 DEF Agree
  <2> QED BY ONLY <2>3, <2>4, SameRounds
<1>9. at[q] = G(q)
  BY <1>8
<1> QED BY <1>1, <1>9 DEF G, start

\* The chunks of a number of rows, counted from either side.
LEMMA ChunksFrom ==
  ASSUME NEW r \in Nat, NEW i \in Nat
  PROVE  /\ CH \in Nat /\ CH > 0 /\ i * CH \in Nat /\ (i + 1) * CH = i * CH + CH
         /\ i * CH <= r => i <= Chunks(r)
         /\ i * CH < r /\ r <= (i + 1) * CH => Chunks(r) = i + 1
         /\ r = i * CH => Chunks(r) = i
<1>1. CH \in Nat /\ CH > 0 /\ i * CH \in Nat /\ (i + 1) * CH = i * CH + CH
  <2>1. CH \in Nat /\ CH > 0
    BY ChunkRowsAssumption DEF CH
  <2> QED BY <2>1
<1>2. Chunks(r) = (r + CH - 1) \div CH
  BY DEF Chunks, CH
<1>3. ASSUME i * CH <= r PROVE i <= Chunks(r)
  <2> DEFINE n == Chunks(r)
  <2>1. n \in Nat /\ CH * n >= r
    BY ChunksAre
  <2> HIDE DEF n
  <2> SUFFICES ASSUME n < i PROVE FALSE
    BY <2>1 DEF n
  <2>2. PICK j \in Nat : i = n + 1 + j
    <3>1. i - n - 1 \in Nat /\ i = n + 1 + (i - n - 1)
      BY <2>1
    <3> QED BY <3>1
  <2>3. i * CH = CH * n + CH + CH * j /\ CH * j \in Nat /\ CH * n \in Nat
    BY <1>1, <2>1, <2>2
  <2> QED BY <1>1, <1>3, <2>1, <2>3
<1>4. ASSUME i * CH < r, r <= (i + 1) * CH PROVE Chunks(r) = i + 1
  <2> DEFINE x == i * CH
             m == r + CH - 1
             d == r - x - 1
             j == i + 1
  <2>1. x \in Nat /\ x < r /\ r <= x + CH
    BY <1>1, <1>4
  <2>2. CH * j = x + CH /\ j \in Nat
    BY <1>1
  <2> HIDE DEF x, j
  <2>3. d \in Nat /\ d < CH /\ m = CH * j + d
    BY <1>1, <2>1, <2>2
  <2> HIDE DEF d, m
  <2>4. m \div CH = j
    BY <1>1, <2>2, <2>3, DivIs
  <2> QED BY <1>2, <2>4 DEF m, j
<1>5. ASSUME r = i * CH PROVE Chunks(r) = i
  <2> DEFINE m == r + CH - 1
             d == CH - 1
  <2>1. d \in Nat /\ d < CH /\ m = CH * i + d
    BY <1>1, <1>5
  <2> HIDE DEF d, m
  <2>2. m \div CH = i
    BY <1>1, <2>1, DivIs
  <2> QED BY <1>2, <2>2 DEF m
<1> QED BY <1>1, <1>3, <1>4, <1>5

\* What a call that is not the last emits and keeps.
LEMMA HeldIs ==
  ASSUME NEW k \in Nat, k > 0
  PROVE  \E i \in Nat : /\ k = i * CH + held_back(k) /\ held_back(k) \in 1 .. CH
                        /\ (k - held_back(k)) \div CH = i
<1>1. CH \in Nat /\ CH > 0 /\ CH = BLAKE3_CHUNK_ROWS
  BY ChunkRowsAssumption DEF CH
<1> DEFINE d == k \div CH
           w == k % CH
           h == held_back(k)
<1>2. d \in Nat /\ w \in Nat /\ w < CH /\ k = CH * d + w
  BY <1>1
<1>3. h = IF w # 0 THEN w ELSE CH
  BY <1>1 DEF held_back
<1> HIDE DEF d, w, h
<1>4. \E i \in Nat : k = i * CH + h /\ h \in 1 .. CH
  <2>1. CASE w # 0
    <3>1. k = d * CH + h /\ h \in 1 .. CH
      <4>1. d * CH = CH * d
        BY <1>1, <1>2
      <4> QED BY <1>1, <1>2, <1>3, <2>1, <4>1
    <3> QED BY <1>2, <3>1
  <2>2. CASE w = 0
    <3>1. d # 0
      <4>1. d = 0 => CH * d = 0
        BY <1>1
      <4> QED BY <1>2, <2>2, <4>1
    <3>2. d - 1 \in Nat /\ (d - 1) * CH = CH * d - CH /\ CH * d \in Nat
      BY <1>1, <1>2, <3>1
    <3>3. k = (d - 1) * CH + h /\ h \in 1 .. CH
      BY <1>1, <1>2, <1>3, <2>2, <3>2
    <3> QED BY <3>2, <3>3
  <2> QED BY <2>1, <2>2
<1>5. PICK i \in Nat : k = i * CH + h /\ h \in 1 .. CH
  BY <1>4
<1>6. (k - h) \div CH = i
  <2> DEFINE m == k - h
  <2>1. i * CH = CH * i /\ CH * i \in Nat
    BY <1>1
  <2>2. m = CH * i + 0 /\ 0 \in Nat /\ 0 < CH
    BY <1>1, <1>5, <2>1
  <2> HIDE DEF m
  <2>3. m \div CH = i
    BY <1>1, <2>2, DivIs
  <2> QED BY <2>3 DEF m
<1> QED BY <1>5, <1>6 DEF h

\* After r of the rows of R: all chunks at the end, before it all but the last.
EmittedAt(R, r) == IF r = Len(R) THEN Chunks(r) ELSE IF r = 0 THEN 0 ELSE (r - 1) \div CH
SeenAt(R, r) == IF r = Len(R) THEN r ELSE EmittedAt(R, r) * CH
AccAt(R, r) ==
  [n_total_rows |-> Len(R), states |-> Fed(R)[EmittedAt(R, r)], rows_seen |-> SeenAt(R, r),
   partial |-> SubSeq(R, SeenAt(R, r) + 1, r)]

\* Before the last row, the chunks emitted leave between one row and a chunk waiting.
LEMMA EmittedAtIs ==
  ASSUME NEW R, Len(R) \in Nat, NEW r \in Nat, r < Len(R), NEW e, e = EmittedAt(R, r)
  PROVE  /\ e \in Nat /\ SeenAt(R, r) = e * CH /\ e * CH \in Nat /\ e * CH <= r
         /\ r > 0 => e * CH < r /\ r <= (e + 1) * CH
         /\ \A i \in Nat : r > 0 /\ i * CH < r /\ r <= (i + 1) * CH => e = i
<1>1. CH \in Nat /\ CH > 0
  BY ChunkRowsAssumption DEF CH
<1>2. r # Len(R) /\ SeenAt(R, r) = e * CH /\ e = IF r = 0 THEN 0 ELSE (r - 1) \div CH
  BY DEF SeenAt, EmittedAt
<1>3. CASE r = 0
  <2>1. e = 0 /\ e * CH = 0
    BY <1>1, <1>2, <1>3
  <2> QED BY <1>2, <1>3, <2>1
<1>4. CASE r > 0
  <2> DEFINE m == r - 1
             w == m % CH
             x == e * CH
  <2>1. m \in Nat /\ r = m + 1 /\ e = m \div CH
    BY <1>2, <1>4
  <2>2. e \in Nat /\ w \in Nat /\ w < CH /\ m = CH * e + w
    <3> HIDE DEF m
    <3> QED BY <1>1, <2>1
  <2>3. x \in Nat /\ CH * e = x /\ (e + 1) * CH = x + CH
    BY <1>1, <2>2
  <2> HIDE DEF w, x, m
  <2>4. x < r /\ r <= x + CH
    <3>1. r = x + w + 1 /\ r \in Nat
      BY <2>1, <2>2, <2>3
    <3> QED BY ONLY <1>1, <2>2, <2>3, <3>1
  <2>5. ASSUME NEW i \in Nat, i * CH < r, r <= (i + 1) * CH PROVE e = i
    <3> DEFINE y == i * CH
               d == m - y
    <3>1. y \in Nat /\ CH * i = y /\ (i + 1) * CH = y + CH
      BY <1>1
    <3>2. y < r /\ r <= y + CH
      BY <2>5, <3>1
    <3> HIDE DEF y
    <3>3. d \in Nat /\ d < CH /\ m = CH * i + d
      BY <1>1, <2>1, <3>1, <3>2
    <3> HIDE DEF d
    <3>4. m \div CH = i
      BY ONLY <1>1, <2>5, <3>3, i \in Nat, DivIs
    <3> QED BY <2>1, <3>4
  <2> QED BY <1>2, <2>2, <2>3, <2>4, <2>5 DEF x
<1> QED BY <1>3, <1>4

\* What a call of update does, its rounds named.
Acc(total, st, seen, partial) ==
  [n_total_rows |-> total, states |-> st, rows_seen |-> seen, partial |-> partial]
Left(rows, q, k) == SubSeq(rows, q * CH + 1, k)
Due(total, seen, k) == (k - (IF seen + k = total THEN k % CH ELSE held_back(k))) \div CH
Updated(total, st, seen, acc, rows, k, n, q, left) ==
  IF k = 0 THEN acc
  ELSE IF left # << >> /\ seen + k = total
    THEN [n_total_rows |-> total, states |-> Emit1(Emitted(st, rows, n, q), left, n),
          rows_seen |-> seen + k, partial |-> << >>]
    ELSE [n_total_rows |-> total, states |-> Emitted(st, rows, n, q),
          rows_seen |-> seen + q * CH, partial |-> left]

AccAfter(total, st, seen, partial, more) ==
  LET rows == partial \o more
      k == Len(rows)
      q == Due(total, seen, k)
  IN  Updated(total, st, seen, Acc(total, st, seen, partial), rows, k, Chunks(total), q, Left(rows, q, k))

\* update is that.
LEMMA UpdateForm ==
  ASSUME NEW total, NEW st, NEW seen, NEW partial, NEW more
  PROVE  update(Acc(total, st, seen, partial), more) = AccAfter(total, st, seen, partial, more)
<1> DEFINE rows == partial \o more
           k == Len(rows)
           n == Chunks(total)
           q == Due(total, seen, k)
           left == Left(rows, q, k)
           acc == Acc(total, st, seen, partial)
           ends == left # << >> /\ seen + k = total
           emitted == Emitted(st, rows, n, q)
<1>1. acc.n_total_rows = total /\ acc.states = st /\ acc.rows_seen = seen /\ acc.partial = partial
      /\ acc = [n_total_rows |-> total, states |-> st, rows_seen |-> seen, partial |-> partial]
  BY DEF Acc
<1>2. update(acc, more) =
        IF k = 0 THEN acc
        ELSE [acc EXCEPT !.states = IF ends THEN Emit1(emitted, left, n) ELSE emitted,
                         !.rows_seen = @ + (IF ends THEN k ELSE q * CH),
                         !.partial = IF ends THEN << >> ELSE left]
  BY <1>1 DEF update, Emitted, Emit1, CH, Due, Left
<1>6. AccAfter(total, st, seen, partial, more) = Updated(total, st, seen, acc, rows, k, n, q, left)
  BY DEF AccAfter
<1> HIDE DEF ends, emitted, rows, k, n, q, left, acc
<1>3. update(acc, more) =
        IF k = 0 THEN acc
        ELSE [n_total_rows |-> total, states |-> IF ends THEN Emit1(emitted, left, n) ELSE emitted,
              rows_seen |-> seen + (IF ends THEN k ELSE q * CH), partial |-> IF ends THEN << >> ELSE left]
  BY <1>1, <1>2
<1>4. CASE ends
  BY <1>3, <1>4, <1>6 DEF ends, emitted, Updated, acc
<1>5. CASE ~ends
  BY <1>3, <1>5, <1>6 DEF ends, emitted, Updated, acc
<1> QED BY <1>4, <1>5

\* A call takes the accumulator from the rows before it to those after.
LEMMA UpdateIs ==
  ASSUME NEW V, NEW R \in Seq(V), Len(R) > 0, NEW r \in Nat, NEW more \in Seq(V), Follows(R, r, more)
  PROVE  update(AccAt(R, r), more) = AccAt(R, r + Len(more))
<1> DEFINE total == Len(R)
           n == Chunks(total)
           f == Fed(R)
           b == r + Len(more)
           seen == SeenAt(R, r)
           partial == SubSeq(R, seen + 1, r)
           rows == partial \o more
           k == Len(rows)
           st == f[EmittedAt(R, r)]
           q == Due(total, seen, k)
           left == Left(rows, q, k)
           acc == AccAt(R, r)
<1>1. /\ total \in Nat /\ b \in Nat /\ r <= b /\ b <= total /\ total > 0 /\ Len(more) \in Nat
      /\ b = r + Len(more) /\ n \in Nat
  <2>1. total \in Nat
    OBVIOUS
  <2>2. n \in Nat
    BY <2>1, ChunksAre
  <2> QED BY <2>1, <2>2 DEF Follows
<1>2. update(acc, more) =
           IF k = 0 THEN acc
           ELSE IF left # << >> /\ seen + k = total
             THEN [n_total_rows |-> total, states |-> Emit1(Emitted(st, rows, n, q), left, n),
                   rows_seen |-> seen + k, partial |-> << >>]
             ELSE [n_total_rows |-> total, states |-> Emitted(st, rows, n, q),
                   rows_seen |-> seen + q * CH, partial |-> left]
  <2>1. acc = Acc(total, st, seen, partial)
    BY DEF AccAt, Acc
  <2>2. update(acc, more) = AccAfter(total, st, seen, partial, more)
    BY <2>1, UpdateForm
  <2>3. update(acc, more) = Updated(total, st, seen, acc, rows, k, n, q, left)
    <3>1. AccAfter(total, st, seen, partial, more) = Updated(total, st, seen, Acc(total, st, seen, partial), rows, k, n, q, left)
      BY DEF AccAfter
    <3> QED BY ONLY <2>1, <2>2, <3>1
  <2> HIDE DEF total, n, seen, partial, rows, k, st, q, left, acc
  <2> QED BY ONLY <2>3 DEF Updated
<1>3. seen \in Nat /\ seen <= r
  <2>1. CASE r = total
    BY <1>1, <2>1 DEF SeenAt
  <2>2. CASE r # total
    <3>1. r < total
      BY <1>1, <2>2
    <3> HIDE DEF seen
    <3> QED BY <1>1, <3>1, EmittedAtIs DEF seen
  <2> QED BY <2>1, <2>2
<1>4. rows = SubSeq(R, seen + 1, b)
  <2> HIDE DEF seen, b
  <2>1. /\ R \in Seq(V) /\ seen \in Nat /\ r \in Nat /\ seen <= r /\ more \in Seq(V)
        /\ Follows(R, r, more)
    BY <1>3
  <2>3. Rows(R, seen, r) \o more = Rows(R, seen, r + Len(more))
    BY ONLY <2>1, CutJoin
  <2>2. SubSeq(R, seen + 1, r) \o more = SubSeq(R, seen + 1, r + Len(more))
    BY ONLY <2>3 DEF Rows
  <2> QED BY <1>1, <2>2
<1>5. rows \in Seq(V) /\ k = b - seen
  <2> HIDE DEF seen, b, rows, total
  <2>1. R \in Seq(V) /\ seen \in Nat /\ b \in Nat /\ seen <= b /\ b <= Len(R)
    BY <1>1, <1>3 DEF total
  <2>2. rows \in Seq(V) /\ Len(rows) = b - seen
    BY ONLY <1>4, <2>1, Cut
  <2> QED BY <2>2
<1>6. CASE k = 0
  <2>1. r = b
    <3> HIDE DEF k, seen, b
    <3> QED BY <1>1, <1>3, <1>5, <1>6
  <2>2. update(acc, more) = acc
    BY ONLY <1>2, <1>6
  <2> QED BY ONLY <2>1, <2>2
<1>7. CASE k # 0
  <2> DEFINE e == EmittedAt(R, r)
  <2> HIDE DEF n, f, seen, partial, rows, q, k, left, acc, b
  <2>1. r < total
    <3> SUFFICES ASSUME r = total PROVE FALSE
      BY <1>1
    <3>1. seen = r
      BY DEF seen, SeenAt
    <3> QED BY <1>1, <1>5, <1>7, <3>1
  <2>2. e \in Nat /\ seen = e * CH /\ e * CH \in Nat
    BY <1>1, <2>1, EmittedAtIs DEF seen
  <2>3. k \in Nat /\ k > 0 /\ seen + k = b
    BY <1>1, <1>3, <1>5, <1>7
  <2>4. CH \in Nat /\ CH > 0
    BY ChunkRowsAssumption DEF CH
  <2> HIDE DEF e
  <2>5. ASSUME NEW i \in Nat, i = q, i * CH <= k
        PROVE  /\ Emitted(st, rows, n, q) = f[e + i] /\ (e + i) * CH = seen + i * CH /\ i * CH \in Nat
               /\ (e + i) * CH <= b
               /\ left = SubSeq(R, (e + i) * CH + 1, b) /\ Len(left) = k - i * CH /\ left \in Seq(V)
    <3>1. (e + i) * CH = e * CH + i * CH /\ i * CH \in Nat
      BY <2>2, <2>4
    <3> DEFINE x == i * CH
               y == (e + i) * CH
    <3>2. y = seen + x /\ x \in Nat /\ x <= k /\ y <= b /\ y \in Nat
      <4>1. y = seen + x /\ x \in Nat /\ x <= k
        BY <2>2, <2>5, <3>1
      <4> HIDE DEF x, y
      <4> QED BY <1>3, <2>3, <4>1
    <3>3. e + i <= n
      <4>1. y <= total /\ e + i \in Nat
        <5> HIDE DEF y
        <5> QED BY <1>1, <2>2, <3>2
      <4> QED BY <1>1, <4>1, ChunksFrom DEF n
    <3>4. Emitted(f[e], rows, n, i) = f[e + i]
      <4>1. /\ R \in Seq(V) /\ n = Chunks(Len(R)) /\ e \in Nat /\ i \in Nat /\ b \in Nat /\ f = Fed(R)
        BY <1>1, <2>2 DEF n, f
      <4>2. Feeds(R, e, i, b, rows)
        <5>1. rows = SubSeq(R, e * CH + 1, b)
          BY <1>4, <2>2
        <5>2. b <= Len(R) /\ (e + i) * CH <= b /\ e + i <= Chunks(Len(R))
          BY <1>1, <3>2, <3>3 DEF n
        <5> QED BY ONLY <5>1, <5>2 DEF Feeds
      <4> QED BY ONLY <4>1, <4>2, EmittedIs
    <3>5. left = SubSeq(rows, x + 1, k)
      BY <2>5 DEF left, Left
    <3> HIDE DEF x
    <3>6. left = SubSeq(R, seen + x + 1, seen + k)
      <4>1. /\ R \in Seq(V) /\ seen \in Nat /\ b \in Nat /\ seen <= b /\ b <= Len(R)
            /\ rows = SubSeq(R, seen + 1, b) /\ x \in Nat /\ k \in Nat /\ x <= k /\ k <= b - seen
        BY <1>1, <1>3, <1>4, <1>5, <2>3, <3>2
      <4>2. SubSeq(rows, x + 1, k) = SubSeq(R, seen + x + 1, seen + k)
        BY ONLY <4>1, CutCut
      <4> QED BY <3>5, <4>2
    <3> HIDE DEF y
    <3>7. left = SubSeq(R, y + 1, b)
      BY <1>3, <2>3, <3>2, <3>6
    <3>8. left \in Seq(V) /\ Len(left) = b - y
      <4>1. R \in Seq(V) /\ y \in Nat /\ b \in Nat /\ y <= b /\ b <= Len(R)
        BY <1>1, <3>2
      <4> QED BY ONLY <3>7, <4>1, Cut
    <3>9. b - y = k - x
      BY <1>1, <1>3, <2>3, <3>2
    <3>10. st = f[e]
      BY DEF e
    <3> HIDE DEF st
    <3> QED BY ONLY <2>5, <3>2, <3>4, <3>7, <3>8, <3>9, <3>10 DEF x, y
  <2> HIDE DEF st
  <2>6. CASE b = total
    <3> DEFINE i == k \div CH
               w == k % CH
    <3>1. i \in Nat /\ w \in Nat /\ w < CH /\ k = CH * i + w
      BY <2>3, <2>4
    <3> HIDE DEF i, w
    <3>2. i * CH = CH * i /\ i * CH \in Nat
      BY <2>4, <3>1
    <3>3. q = i
      <4> DEFINE m == k - w
      <4>1. m = CH * i + 0 /\ 0 \in Nat /\ 0 < CH
        BY <2>3, <2>4, <3>1, <3>2
      <4> HIDE DEF m
      <4>2. m \div CH = i
        BY <2>4, <3>1, <4>1, DivIs
      <4>3. q = m \div CH
        BY <2>3, <2>6 DEF q, m, w, Due
      <4> QED BY <4>2, <4>3
    <3>4. /\ Emitted(st, rows, n, q) = f[e + i] /\ (e + i) * CH = seen + i * CH
          /\ left = SubSeq(R, (e + i) * CH + 1, b) /\ Len(left) = w /\ left \in Seq(V)
      <4>1. i * CH <= k /\ k - i * CH = w
        <5> HIDE DEF total
        <5> QED BY <2>3, <3>1, <3>2
      <4> QED BY <2>5, <3>1, <3>3, <4>1
    <3>5. (e + i) * CH + w = total /\ (e + i) * CH \in Nat /\ e + i \in Nat
      <4> DEFINE y == (e + i) * CH
                 x == i * CH
      <4>1. y = seen + x /\ x \in Nat /\ k = x + w
        BY <3>1, <3>2, <3>4
      <4> HIDE DEF x, y
      <4>2. y + w = total /\ y \in Nat
        BY <1>3, <2>3, <2>6, <3>1, <4>1
      <4> QED BY <2>2, <3>1, <4>2 DEF y
    <3>6. AccAt(R, b) = [n_total_rows |-> total, states |-> f[n], rows_seen |-> total, partial |-> << >>]
      <4>1. EmittedAt(R, b) = n /\ SeenAt(R, b) = total
        BY <2>6 DEF EmittedAt, SeenAt, n
      <4>2. SubSeq(R, total + 1, total) = << >>
        OBVIOUS
      <4> QED BY <2>6, <4>1, <4>2 DEF AccAt, f
    <3> DEFINE c == e + i
    <3>7. CASE w = 0
      <4>1. n = c
        <5>1. total = c * CH /\ c \in Nat
          BY <3>5, <3>7
        <5> HIDE DEF c
        <5> QED BY <1>1, <5>1, ChunksFrom DEF n
      <4>2. left = << >>
        BY ONLY <3>4, <3>7
      <4>3. update(acc, more) = [n_total_rows |-> total, states |-> Emitted(st, rows, n, q),
                                 rows_seen |-> seen + q * CH, partial |-> left]
        BY ONLY <1>2, <1>7, <4>2
      <4>4. seen + q * CH = total
        BY <3>3, <3>4, <3>5, <3>7
      <4>5. Emitted(st, rows, n, q) = f[c]
        BY <3>4
      <4> HIDE DEF c, total
      <4> QED BY ONLY <3>6, <4>1, <4>2, <4>3, <4>4, <4>5 DEF acc, b
    <3>8. CASE w # 0
      <4>1. n = c + 1 /\ total <= (c + 1) * CH /\ c \in Nat
        <5>1. c \in Nat /\ c * CH < total
          BY <3>1, <3>5, <3>8
        <5>2. (c + 1) * CH = c * CH + CH /\ c * CH \in Nat
          BY <2>4, <5>1
        <5>3. total <= (c + 1) * CH
          BY <1>1, <2>4, <3>1, <3>5, <5>2
        <5> HIDE DEF c
        <5>4. Chunks(total) = c + 1
          BY <1>1, <5>1, <5>3, ChunksFrom
        <5> QED BY <5>1, <5>3, <5>4 DEF n
      <4>2. left # << >>
        BY ONLY <3>1, <3>4, <3>8
      <4>3. left = Piece(R, c)
        <5>1. left = SubSeq(R, c * CH + 1, total)
          BY <2>6, <3>4
        <5> HIDE DEF c
        <5>2. R \in Seq(V) /\ c \in Nat /\ Len(R) <= (c + 1) * CH
          BY <4>1
        <5>3. Piece(R, c) = SubSeq(R, c * CH + 1, Len(R))
          BY ONLY <5>2, PieceIs
        <5> QED BY <5>1, <5>3
      <4>4. seen + k = total
        BY <2>3, <2>6
      <4>5. update(acc, more) = [n_total_rows |-> total, states |-> Emit1(Emitted(st, rows, n, q), left, n),
                                 rows_seen |-> seen + k, partial |-> << >>]
        BY ONLY <1>2, <1>7, <4>2, <4>4
      <4>6. Emit1(f[c], left, n) = f[n]
        <5>1. n \in Nat /\ n = Chunks(Len(R)) /\ f = Fed(R)
          BY <1>1 DEF f, n
        <5>2. c \in Nat /\ n = c + 1
          BY <4>1
        <5> HIDE DEF c, f, n, total
        <5>3. FedAtLast(R, f, n, c)
          BY ONLY <5>1, <5>2, FedLast
        <5> QED BY ONLY <4>3, <5>3 DEF FedAtLast
      <4>7. Emitted(st, rows, n, q) = f[c]
        BY <3>4
      <4> HIDE DEF c, total
      <4> QED BY ONLY <3>6, <4>4, <4>5, <4>6, <4>7 DEF acc, b
    <3> QED BY <3>1, <3>7, <3>8 DEF acc, b
  <2>7. CASE b # total
    <3>1. PICK i \in Nat : /\ k = i * CH + held_back(k) /\ held_back(k) \in 1 .. CH
                           /\ (k - held_back(k)) \div CH = i
      BY <2>3, HeldIs
    <3> DEFINE h == held_back(k)
    <3>2. i * CH \in Nat
      BY <2>4
    <3>3. q = i
      BY <2>3, <2>7, <3>1 DEF q, Due
    <3> HIDE DEF h
    <3>4. k = i * CH + h /\ h \in 1 .. CH
      BY <3>1 DEF h
    <3>5. /\ Emitted(st, rows, n, q) = f[e + i] /\ (e + i) * CH = seen + i * CH
          /\ left = SubSeq(R, (e + i) * CH + 1, b) /\ Len(left) = h /\ left \in Seq(V)
      <4>1. i * CH <= k /\ k - i * CH = h
        <5> HIDE DEF total
        <5> QED BY <2>3, <2>4, <3>2, <3>4
      <4> QED BY <2>5, <3>3, <4>1
    <3> DEFINE c == e + i
    <3>6. EmittedAt(R, b) = c /\ SeenAt(R, b) = c * CH
      <4>1. c \in Nat /\ c * CH \in Nat /\ (c + 1) * CH = c * CH + CH /\ b = c * CH + h
        <5>1. c \in Nat
          BY <2>2
        <5>2. c * CH \in Nat /\ (c + 1) * CH = c * CH + CH
          BY <2>4, <5>1
        <5>3. b = c * CH + h
          BY <1>3, <2>3, <3>2, <3>4, <3>5
        <5> QED BY <5>1, <5>2, <5>3
      <4> HIDE DEF c
      <4>2. b > 0 /\ c * CH < b /\ b <= (c + 1) * CH /\ b < total
        BY <1>1, <2>4, <2>7, <3>4, <4>1
      <4> DEFINE d == EmittedAt(R, b)
      <4>3. d = c /\ SeenAt(R, b) = d * CH
        <5> HIDE DEF d
        <5>1. d = EmittedAt(R, b) /\ b < Len(R) /\ b \in Nat /\ Len(R) \in Nat
          BY <1>1, <4>2 DEF d
        <5> QED BY <4>1, <4>2, <5>1, EmittedAtIs
      <4> QED BY <4>3
    <3>7. update(acc, more) = [n_total_rows |-> total, states |-> Emitted(st, rows, n, q),
                               rows_seen |-> seen + q * CH, partial |-> left]
      BY ONLY <1>2, <1>7, <2>3, <2>7
    <3>8. seen + q * CH = c * CH
      BY <3>3, <3>5
    <3>9. left = SubSeq(R, c * CH + 1, b) /\ Emitted(st, rows, n, q) = f[c]
      BY <3>5
    <3> HIDE DEF c
    <3>10. AccAt(R, b) = [n_total_rows |-> total, states |-> f[c], rows_seen |-> c * CH,
                          partial |-> SubSeq(R, c * CH + 1, b)]
      BY <3>6 DEF AccAt, f
    <3> QED BY ONLY <3>7, <3>8, <3>9, <3>10 DEF acc, b
  <2> QED BY <2>6, <2>7
<1> QED BY <1>6, <1>7

---------------------------------------------------------------------------
(* The pieces of a column.                                                  *)

\* The rows the first i pieces bring.
Came(pieces, i) == IF i = 0 THEN 0 ELSE Len(T!Flattened(pieces, Len(pieces))[i])
\* S is how R begins.
Begins(S, R) == Len(S) <= Len(R) /\ \A k \in 1 .. Len(S) : S[k] = R[k]
\* The pieces are R cut up.
CutUp(pieces, R) ==
  /\ Came(pieces, 0) = 0 /\ Came(pieces, Len(pieces)) = Len(R)
  /\ \A i \in 1 .. Len(pieces) :
       /\ Came(pieces, i - 1) \in Nat
       /\ Follows(R, Came(pieces, i - 1), pieces[i])
       /\ Came(pieces, i) = Came(pieces, i - 1) + Len(pieces[i])

\* FlattenSeq is Flattened, which has lemmas.
LEMMA FlattenSeqIs ==
  ASSUME NEW pieces, NEW n \in Nat, n # 0, n = Len(pieces)
  PROVE  FlattenSeq(pieces) = T!Flattened(pieces, n)[n]
BY DEF FlattenSeq, T!Flattened

\* The pieces are cut from the column one after the other.
LEMMA PiecesAre ==
  ASSUME NEW V, NEW pieces \in Seq(Seq(V)), Len(pieces) # 0, NEW R, R = FlattenSeq(pieces)
  PROVE  R \in Seq(V) /\ CutUp(pieces, R)
<1> DEFINE n == Len(pieces)
           F == T!Flattened(pieces, n)
           r(i) == Came(pieces, i)
<1>1. n \in Nat /\ n # 0 /\ \A i \in 1 .. n : pieces[i] \in Seq(V)
  OBVIOUS
<1>2. R = F[n]
  BY <1>1, FlattenSeqIs
<1>3. F[1] = pieces[1] /\ \A i \in 1 .. (n - 1) : F[i + 1] = F[i] \o pieces[i + 1]
  BY <1>1, T!FlattenedIs
<1>4. r(0) = 0 /\ \A i \in 1 .. n : r(i) = Len(F[i])
  BY DEF Came
<1> HIDE DEF F, r, n
<1>5. \A i \in 1 .. n : F[i] \in Seq(V)
  <2> DEFINE S == {i \in 0 .. n : i # 0 => F[i] \in Seq(V)}
  <2>1. 0 \in S
    BY <1>1
  <2>2. ASSUME NEW i \in 1 .. n, i - 1 \in S PROVE i \in S
    <3>1. CASE i = 1
      BY <1>1, <1>3, <3>1
    <3>2. CASE i # 1
      <4> DEFINE j == i - 1
      <4>1. j \in 1 .. (n - 1) /\ j + 1 = i /\ j # 0
        BY <1>1, <3>2
      <4>2. F[j] \in Seq(V) /\ F[i] = F[j] \o pieces[i]
        BY <1>3, <2>2, <4>1
      <4> HIDE DEF j
      <4>3. F[i] \in Seq(V)
        BY <1>1, <4>2
      <4> QED BY <1>1, <4>3
    <3> QED BY <3>1, <3>2
  <2> HIDE DEF S
  <2>3. 0 .. n \subseteq S
    BY <1>1, <2>1, <2>2, UpTo
  <2> QED BY <1>1, <2>3 DEF S
<1>6. \A i \in 1 .. n : r(i) \in Nat
  BY <1>4, <1>5
<1>7. ASSUME NEW i \in 1 .. n
      PROVE  /\ r(i - 1) \in Nat /\ r(i) = r(i - 1) + Len(pieces[i])
             /\ \A k \in 1 .. Len(pieces[i]) : F[i][r(i - 1) + k] = pieces[i][k]
  <2>1. CASE i = 1
    <3>1. r(i - 1) = 0 /\ F[i] = pieces[i] /\ r(i) = Len(F[i]) /\ pieces[i] \in Seq(V)
      BY <1>1, <1>3, <1>4, <2>1
    <3>2. Len(pieces[i]) \in Nat
      BY <3>1
    <3> QED BY <3>1, <3>2
  <2>2. CASE i # 1
    <3> DEFINE j == i - 1
               p == pieces[i]
               q == F[j]
    <3>1. j \in 1 .. (n - 1) /\ j \in 1 .. n /\ j + 1 = i
      BY <1>1, <2>2
    <3>2. p \in Seq(V) /\ q \in Seq(V) /\ F[i] = q \o p /\ r(j) = Len(q) /\ r(i) = Len(F[i])
      BY <1>1, <1>3, <1>4, <1>5, <3>1
    <3> HIDE DEF j, p, q
    <3>3. Len(q \o p) = Len(q) + Len(p) /\ \A k \in 1 .. Len(p) : (q \o p)[Len(q) + k] = p[k]
      BY <3>2, JoinIs
    <3>4. r(j) \in Nat
      BY <3>2
    <3> QED BY <3>2, <3>3, <3>4 DEF j, p
  <2> QED BY <2>1, <2>2
<1>8. \A i \in 1 .. n : Begins(F[i], R)
  <2> DEFINE m == n - 1
             S == {d \in 0 .. m : Begins(F[n - d], R)}
  <2>1. m \in Nat
    BY <1>1
  <2>2. 0 \in S
    <3>1. n - 0 = n /\ n \in 1 .. n
      BY <1>1
    <3>2. Len(R) \in Nat
      BY <1>2, <1>5, <3>1
    <3>3. Begins(R, R)
      BY <3>2 DEF Begins
    <3> QED BY <1>2, <2>1, <3>1, <3>3
  <2>3. ASSUME NEW d \in 1 .. m, d - 1 \in S PROVE d \in S
    <3> DEFINE j == n - d
               p == pieces[j + 1]
               q == F[j]
    <3>1. j \in 1 .. (n - 1) /\ j \in 1 .. n /\ j + 1 \in 1 .. n /\ n - (d - 1) = j + 1 /\ d \in 0 .. m
      BY <1>1
    <3>2. p \in Seq(V) /\ q \in Seq(V) /\ F[j + 1] = q \o p
      BY <1>1, <1>3, <1>5, <3>1
    <3>3. Begins(q \o p, R)
      BY <2>3, <3>1, <3>2
    <3> HIDE DEF j, p, q
    <3>4. Len(R) \in Nat
      <4>1. n \in 1 .. n
        BY <1>1
      <4> QED BY <1>2, <1>5, <4>1
    <3>5. Begins(q, R)
      <4>1. /\ Len(q \o p) = Len(q) + Len(p) /\ \A k \in 1 .. Len(q) : (q \o p)[k] = q[k]
            /\ Len(q) \in Nat /\ Len(p) \in Nat
        BY <3>2, JoinIs
      <4>2. \A k \in 1 .. Len(q) : k \in 1 .. Len(q \o p)
        BY <4>1
      <4>3. Len(q) <= Len(R)
        BY <3>3, <3>4, <4>1 DEF Begins
      <4> QED BY <3>3, <4>1, <4>2, <4>3 DEF Begins
    <3> QED BY <3>1, <3>5 DEF j, q
  <2> HIDE DEF S
  <2>4. 0 .. m \subseteq S
    BY <2>1, <2>2, <2>3, UpTo
  <2>5. ASSUME NEW i \in 1 .. n PROVE Begins(F[i], R)
    <3>1. n - i \in 0 .. m /\ n - (n - i) = i
      BY <1>1
    <3>2. n - i \in S
      BY <2>4, <3>1
    <3> QED BY <3>1, <3>2 DEF S
  <2> QED BY <2>5
<1>9. ASSUME NEW i \in 1 .. n PROVE Follows(R, r(i - 1), pieces[i])
  <2> DEFINE p == pieces[i]
             b == r(i - 1)
  <2>1. /\ p \in Seq(V) /\ b \in Nat /\ r(i) = b + Len(p) /\ r(i) = Len(F[i])
        /\ \A k \in 1 .. Len(p) : F[i][b + k] = p[k]
    BY <1>1, <1>4, <1>7
  <2>2. Begins(F[i], R)
    BY <1>8
  <2> HIDE DEF p, b
  <2>3. Len(p) \in Nat
    BY <2>1
  <2>4. \A k \in 1 .. Len(p) : b + k \in 1 .. Len(F[i])
    BY <2>1, <2>3
  <2>5. Follows(R, b, p)
    BY <2>1, <2>2, <2>4 DEF Begins, Follows
  <2> QED BY <2>5 DEF p, b
<1>10. R \in Seq(V) /\ r(n) = Len(R)
  <2>1. n \in 1 .. n
    BY <1>1
  <2> QED BY <1>2, <1>4, <1>5, <2>1
<1> QED BY <1>4, <1>7, <1>9, <1>10 DEF CutUp, n, r

\* The digest of a column is blake3's over its rows, however they are cut into
\* pieces: the bytes that wait for more rows are never lost, doubled or flagged as
\* the root early, and one chunk takes the one-launch path to the same leaf.
THEOREM StreamedDigestIsLeaf ==
  ASSUME NEW V, NEW pieces \in Seq(Seq(V)), Len(FlattenSeq(pieces)) > 0
  PROVE  ColumnDigest(pieces) = merkle_leaf(FlattenSeq(pieces))
<1> DEFINE R == FlattenSeq(pieces)
           n == Len(pieces)
           r(i) == Came(pieces, i)
           start == NewAccumulator(Len(R))
           Step(a, i) == update(a, pieces[i])
           G(i) == AccAt(R, r(i))
           g == [i \in 0 .. n |-> G(i)]
           Up(h) == h = [i \in 0 .. n |-> IF i = 0 THEN start ELSE Step(h[i - 1], i)]
           at == CHOOSE h : Up(h)
<1>1. n \in Nat /\ n # 0
  <2>1. n = 0 => R = pieces
    BY DEF FlattenSeq
  <2>2. n \in Nat
    OBVIOUS
  <2> QED BY <2>1, <2>2
<1>2. R \in Seq(V) /\ CutUp(pieces, R)
  <2> HIDE DEF R
  <2>1. R = FlattenSeq(pieces)
    BY DEF R
  <2> QED BY <1>1, <2>1, PiecesAre
<1>3. Len(R) \in Nat /\ Len(R) > 0
  BY <1>2
<1>4. ColumnDigest(pieces) =
        IF Len(R) > BLAKE3_CHUNK_ROWS THEN k_stream_finalize(at[n].states.stack) ELSE k_hash_columns_simple(R)
  BY DEF ColumnDigest, Rounds
<1>5. r(0) = 0 /\ r(n) = Len(R)
  BY <1>2 DEF CutUp
<1>6. \A i \in 1 .. n : r(i - 1) \in Nat /\ Follows(R, r(i - 1), pieces[i]) /\ r(i) = r(i - 1) + Len(pieces[i])
  BY <1>2 DEF CutUp
<1>7. \A i \in 1 .. n : pieces[i] \in Seq(V)
  OBVIOUS
<1> HIDE DEF R, n, r
<1>8. G(0) = start
  <2> DEFINE f == Fed(R)
  <2>1. Chunks(Len(R)) \in Nat
    BY <1>3, ChunksAre
  <2>2. f[0] = k_stream_init
    BY <2>1, FedIs
  <2>3. SubSeq(R, 0 + 1, 0) = << >>
    BY <1>2
  <2>4. EmittedAt(R, 0) = 0 /\ SeenAt(R, 0) = 0
    <3>1. EmittedAt(R, 0) = 0
      BY <1>3 DEF EmittedAt
    <3>2. CH \in Nat
      BY ChunkRowsAssumption DEF CH
    <3> QED BY <1>3, <3>1, <3>2 DEF SeenAt
  <2> HIDE DEF f
  <2>5. AccAt(R, 0) = [n_total_rows |-> Len(R), states |-> f[0], rows_seen |-> 0, partial |-> << >>]
    BY <2>3, <2>4 DEF AccAt, f
  <2> QED BY <1>5, <2>2, <2>5 DEF NewAccumulator
<1>9. ASSUME NEW i \in 1 .. n PROVE G(i) = Step(G(i - 1), i)
  <2> DEFINE b == r(i - 1)
             more == pieces[i]
  <2>1. b \in Nat /\ more \in Seq(V) /\ Follows(R, b, more) /\ r(i) = b + Len(more)
    BY <1>6, <1>7
  <2> HIDE DEF b, more
  <2>2. update(AccAt(R, b), more) = AccAt(R, b + Len(more))
    BY ONLY <1>2, <1>3, <2>1, UpdateIs
  <2> QED BY <2>1, <2>2 DEF b, more
<1> HIDE DEF G, Step, start
<1>10. Up(g)
  <2>1. \A k \in 1 .. n : k - 1 \in 0 .. n
    BY <1>1
  <2>2. \A k \in 1 .. n : G(k) = Step(g[k - 1], k)
    BY <1>9, <2>1
  <2>3. \A k \in 0 .. n : G(k) = IF k = 0 THEN start ELSE Step(g[k - 1], k)
    BY <1>1, <1>8, <2>2
  <2> QED BY <2>3
<1>11. Up(at)
  <2> HIDE DEF Up, g
  <2> QED BY <1>10
<1> HIDE DEF at
<1>12. \A k \in 0 .. n : at[k] = g[k]
  <2>1. at[0] = g[0]
    BY <1>1, <1>8, <1>11
  <2>2. ASSUME NEW k \in 1 .. n, at[k - 1] = g[k - 1] PROVE at[k] = g[k]
    <3>1. k \in 0 .. n /\ k # 0
      BY <1>1
    <3> DEFINE x(j) == IF j = 0 THEN start ELSE Step(at[j - 1], j)
               y(j) == IF j = 0 THEN start ELSE Step(g[j - 1], j)
    <3>2. at = [j \in 0 .. n |-> x(j)] /\ g = [j \in 0 .. n |-> y(j)]
      BY <1>10, <1>11
    <3> HIDE DEF x, y, g
    <3>3. at[k] = x(k) /\ g[k] = y(k)
      BY <3>1, <3>2
    <3> QED BY <2>2, <3>1, <3>3 DEF x, y
  <2> HIDE DEF g
  <2>4. n \in Nat /\ Agree(n, at, g)
    BY ONLY <1>1, <2>1, <2>2 DEF Agree
  <2> QED BY ONLY <2>4, SameRounds
<1>13. at[n] = AccAt(R, Len(R))
  <2>1. n \in 0 .. n
    BY <1>1
  <2>2. at[n] = G(n)
    BY <1>12, <2>1
  <2> QED BY <1>5, <2>2 DEF G
<1>14. at[n].states = Fed(R)[Chunks(Len(R))]
  <2>1. EmittedAt(R, Len(R)) = Chunks(Len(R))
    BY DEF EmittedAt
  <2> QED BY <1>13, <2>1 DEF AccAt
<1>15. /\ k_hash_columns_simple(R) = merkle_leaf(R)
       /\ k_stream_finalize(Fed(R)[Chunks(Len(R))].stack) = merkle_leaf(R)
  BY <1>3, OneLaunch
<1> QED BY <1>4, <1>14, <1>15 DEF R

---------------------------------------------------------------------------
(* How many rows variables have.                                            *)

\* What the count of rows asks of variables.
VarsOK(U) ==
  /\ IsFiniteSet(U)
  /\ \A v \in U : n_rows(v) \in Nat
  /\ \A u, v \in U : u.name = v.name => u = v
RowsOf(v) == {v.name} \X (1 .. n_rows(v))
RowsOfAll(vs) == UNION {RowsOf(v) : v \in vs}

\* RowCount counts the rows of any of the variables: a finite set of them.
LEMMA RowsFinite ==
  ASSUME NEW U, VarsOK(U), NEW vs, vs \subseteq U
  PROVE  IsFiniteSet(RowsOfAll(vs)) /\ RowCount(vs) = Cardinality(RowsOfAll(vs)) /\ RowCount(vs) \in Nat
<1>1. IsFiniteSet(vs)
  BY FS_Subset DEF VarsOK
<1>2. ASSUME NEW v \in vs PROVE IsFiniteSet(RowsOf(v))
  <2>1. n_rows(v) \in Int
    BY DEF VarsOK
  <2>2. IsFiniteSet(1 .. n_rows(v))
    <3>1. 1 \in Int
      OBVIOUS
    <3> QED BY <2>1, <3>1, FS_Interval
  <2>3. IsFiniteSet({v.name})
    BY FS_Singleton
  <2> QED BY <2>2, <2>3, FS_Product DEF RowsOf
<1> DEFINE G == {RowsOf(v) : v \in vs}
<1>4. IsFiniteSet(G)
  <2>1. PICK q \in Seq(vs) : \A v \in vs : \E n \in 1 .. Len(q) : v = q[n]
    BY <1>1 DEF IsFiniteSet
  <2> DEFINE r == [n \in 1 .. Len(q) |-> RowsOf(q[n])]
  <2>2. Len(q) \in Nat /\ \A n \in 1 .. Len(q) : q[n] \in vs
    BY <2>1
  <2>3. r \in Seq(G) /\ Len(r) = Len(q) /\ \A n \in 1 .. Len(q) : r[n] = RowsOf(q[n])
    BY <2>2
  <2>4. \A x \in G : \E n \in 1 .. Len(r) : x = r[n]
    <3> SUFFICES ASSUME NEW v \in vs PROVE \E n \in 1 .. Len(r) : RowsOf(v) = r[n]
      OBVIOUS
    <3> QED BY <2>1, <2>3
  <2> QED BY <2>3, <2>4 DEF IsFiniteSet
<1>5. IsFiniteSet(UNION G)
  <2>1. \A x \in G : IsFiniteSet(x)
    BY <1>2
  <2> HIDE DEF G
  <2> QED BY <1>4, <2>1, FS_UNION
<1>6. IsFiniteSet(RowsOfAll(vs))
  BY <1>5 DEF RowsOfAll
<1>7. RowCount(vs) = Cardinality(RowsOfAll(vs))
  BY DEF RowCount, RowsOfAll, RowsOf
<1> QED BY <1>6, <1>7, FS_CardinalityType

\* One variable more adds its rows.
LEMMA RowsAdd ==
  ASSUME NEW U, VarsOK(U), NEW vs, vs \subseteq U, NEW v \in U, v \notin vs
  PROVE  RowCount(vs \cup {v}) = RowCount(vs) + n_rows(v)
<1>1. /\ IsFiniteSet(RowsOfAll(vs)) /\ RowCount(vs) = Cardinality(RowsOfAll(vs))
      /\ RowCount(vs \cup {v}) = Cardinality(RowsOfAll(vs \cup {v}))
  BY RowsFinite
<1>2. n_rows(v) \in Nat
  BY DEF VarsOK
<1>3. IsFiniteSet(RowsOf(v)) /\ Cardinality(RowsOf(v)) = n_rows(v)
  <2>1. IsFiniteSet(1 .. n_rows(v)) /\ Cardinality(1 .. n_rows(v)) = n_rows(v)
    <3>1. 1 \in Int /\ n_rows(v) \in Int
      BY <1>2
    <3>2. IsFiniteSet(1 .. n_rows(v)) /\ Cardinality(1 .. n_rows(v)) = IF 1 > n_rows(v) THEN 0 ELSE n_rows(v) - 1 + 1
      BY <3>1, FS_Interval
    <3> QED BY <1>2, <3>2
  <2>2. IsFiniteSet({v.name}) /\ Cardinality({v.name}) = 1
    BY FS_Singleton
  <2>3. IsFiniteSet(RowsOf(v)) /\ Cardinality(RowsOf(v)) = 1 * n_rows(v)
    <3> DEFINE X == {v.name}
               Y == 1 .. n_rows(v)
    <3>1. RowsOf(v) = X \X Y
      BY DEF RowsOf
    <3>2. IsFiniteSet(X) /\ IsFiniteSet(Y) /\ Cardinality(X) = 1 /\ Cardinality(Y) = n_rows(v)
      BY <2>1, <2>2
    <3> HIDE DEF X, Y
    <3>3. IsFiniteSet(X \X Y) /\ Cardinality(X \X Y) = Cardinality(X) * Cardinality(Y)
      BY <3>2, FS_Product
    <3> QED BY <3>1, <3>2, <3>3
  <2> QED BY <1>2, <2>3
<1>4. RowsOfAll(vs \cup {v}) = RowsOfAll(vs) \cup RowsOf(v)
  BY DEF RowsOfAll
<1>5. RowsOfAll(vs) \cap RowsOf(v) = {}
  <2> SUFFICES ASSUME NEW u \in vs, NEW x, x \in RowsOf(u), x \in RowsOf(v) PROVE FALSE
    BY DEF RowsOfAll
  <2>1. u.name = v.name
    BY DEF RowsOf
  <2> QED BY <2>1 DEF VarsOK
<1> DEFINE A == RowsOfAll(vs)
           B == RowsOf(v)
<1>6. Cardinality(A \cup B) = Cardinality(A) + Cardinality(B) - Cardinality(A \cap B)
  <2> HIDE DEF A, B
  <2>1. IsFiniteSet(A) /\ IsFiniteSet(B)
    BY <1>1, <1>3 DEF A, B
  <2> QED BY <2>1, FS_Union
<1>7. Cardinality(A \cap B) = 0
  BY <1>5, FS_EmptySet
<1>8. Cardinality(A) \in Nat
  BY <1>1, FS_CardinalityType
<1> HIDE DEF A, B
<1>9. RowCount(vs) = Cardinality(A) /\ RowCount(vs \cup {v}) = Cardinality(A \cup B) /\ Cardinality(B) = n_rows(v)
  BY <1>1, <1>3, <1>4 DEF A, B
<1> QED BY <1>2, <1>6, <1>7, <1>8, <1>9

\* More variables have no fewer rows.
LEMMA RowsMore ==
  ASSUME NEW U, VarsOK(U), NEW vs, NEW ws, vs \subseteq ws, ws \subseteq U
  PROVE  RowCount(vs) \in Nat /\ RowCount(ws) \in Nat /\ RowCount(vs) <= RowCount(ws)
<1>1. /\ IsFiniteSet(RowsOfAll(ws)) /\ RowCount(ws) = Cardinality(RowsOfAll(ws)) /\ RowCount(ws) \in Nat
      /\ RowCount(vs) = Cardinality(RowsOfAll(vs)) /\ RowCount(vs) \in Nat
  BY RowsFinite
<1>2. RowsOfAll(vs) \subseteq RowsOfAll(ws)
  BY DEF RowsOfAll
<1>3. Cardinality(RowsOfAll(vs)) <= Cardinality(RowsOfAll(ws))
  BY <1>1, <1>2, FS_Subset
<1> QED BY <1>1, <1>3

---------------------------------------------------------------------------
(* Spots.                                                                   *)

\* N claims and what they mention.
Listed(M, N) == N \in Nat /\ DOMAIN M = 1 .. N /\ MentionsOK(M)

\* A spot is a block, a claim and a place at which the claim is the first to
\* mention a variable of that block.
LEMMA SpotIs ==
  ASSUME NEW M, NEW N, Listed(M, N), NEW s \in Spots(M)
  PROVE  /\ s = <<s[1], s[2], s[3]>>
         /\ s[1] \in 1 .. 5 /\ s[2] \in 1 .. N /\ s[3] \in 1 .. Len(M[s[2]]) /\ s[3] \in Nat
         /\ s[3] \in News(M, s[2])
         /\ Met(M, s) = M[s[2]][s[3]] /\ Met(M, s) \in Walked(M) /\ Met(M, s).blk = Blocks[s[1]]
<1>1. PICK b \in DOMAIN Blocks, n \in DOMAIN M :
        s \in {<<b, n, i>> : i \in {i \in News(M, n) : M[n][i].blk = Blocks[b]}}
  BY DEF Spots
<1>2. PICK i \in News(M, n) : M[n][i].blk = Blocks[b] /\ s = <<b, n, i>>
  BY <1>1
<1>3. i \in DOMAIN M[n] /\ n \in 1 .. N /\ b \in 1 .. 5 /\ M[n] \in Seq(Walked(M))
  <2>1. i \in DOMAIN M[n]
    BY <1>2 DEF News
  <2>2. n \in 1 .. N /\ M[n] \in Seq(Walked(M))
    BY <1>1 DEF Listed, MentionsOK
  <2>3. DOMAIN Blocks = 1 .. 5
    BY DEF Blocks
  <2> QED BY <1>1, <2>1, <2>2, <2>3
<1>4. i \in 1 .. Len(M[n]) /\ i \in Nat /\ M[n][i] \in Walked(M)
  BY <1>3
<1>5. s[1] = b /\ s[2] = n /\ s[3] = i
  BY <1>2
<1> QED BY <1>2, <1>3, <1>4, <1>5 DEF Met

\* Every such place is a spot.
LEMMA IsSpot ==
  ASSUME NEW M, NEW N, Listed(M, N), NEW b \in 1 .. 5, NEW n \in 1 .. N, NEW i \in News(M, n),
         M[n][i].blk = Blocks[b]
  PROVE  <<b, n, i>> \in Spots(M)
<1>1. b \in DOMAIN Blocks /\ n \in DOMAIN M
  BY DEF Blocks, Listed
<1> DEFINE G == {<<b, n, j>> : j \in {j \in News(M, n) : M[n][j].blk = Blocks[b]}}
<1>2. <<b, n, i>> \in G
  OBVIOUS
<1>3. G \in {{<<c, m, j>> : j \in {j \in News(M, m) : M[m][j].blk = Blocks[c]}} : c \in DOMAIN Blocks, m \in DOMAIN M}
  BY <1>1
<1> HIDE DEF G
<1> QED BY <1>2, <1>3 DEF Spots

\* A variable has one spot.
LEMMA OneSpot ==
  ASSUME NEW M, NEW N, Listed(M, N), NEW s \in Spots(M), NEW t \in Spots(M), Met(M, s) = Met(M, t)
  PROVE  s = t
<1>1. /\ s = <<s[1], s[2], s[3]>> /\ s[1] \in 1 .. 5 /\ s[2] \in 1 .. N /\ s[3] \in 1 .. Len(M[s[2]]) /\ s[3] \in Nat
      /\ s[3] \in News(M, s[2]) /\ Met(M, s) = M[s[2]][s[3]] /\ Met(M, s).blk = Blocks[s[1]]
  BY SpotIs
<1>2. /\ t = <<t[1], t[2], t[3]>> /\ t[1] \in 1 .. 5 /\ t[2] \in 1 .. N /\ t[3] \in 1 .. Len(M[t[2]]) /\ t[3] \in Nat
      /\ t[3] \in News(M, t[2]) /\ Met(M, t) = M[t[2]][t[3]] /\ Met(M, t).blk = Blocks[t[1]]
  BY SpotIs
<1>3. s[1] = t[1]
  <2>1. Blocks[s[1]] = Blocks[t[1]]
    BY <1>1, <1>2
  <2>2. \A b, c \in 1 .. 5 : Blocks[b] = Blocks[c] => b = c
    BY DEF Blocks
  <2> QED BY <1>1, <1>2, <2>1, <2>2
<1>4. N \in Nat /\ \A n \in 1 .. N : M[n] \in Seq(Walked(M))
  BY DEF Listed, MentionsOK
<1>5. s[2] = t[2]
  <2>1. ASSUME NEW a \in 1 .. N, NEW c \in 1 .. N, NEW i \in 1 .. Len(M[a]), NEW j \in News(M, c),
               a < c, M[a][i] = M[c][j]
        PROVE  FALSE
    <3>1. a \in 1 .. c - 1
      BY <1>4, <2>1
    <3>2. M[c][j] \notin ToSet(M[a])
      BY <3>1 DEF News
    <3>3. i \in DOMAIN M[a]
      BY <1>4
    <3> QED BY <2>1, <3>2, <3>3 DEF ToSet
  <2>2. ~(s[2] < t[2]) /\ ~(t[2] < s[2])
    BY <1>1, <1>2, <2>1
  <2> QED BY <1>1, <1>2, <1>4, <2>2
<1>6. s[3] = t[3]
  <2>1. ASSUME NEW n \in 1 .. N, NEW i \in Nat, NEW j \in News(M, n), i > 0, i < j, j \in Nat, M[n][i] = M[n][j]
        PROVE  FALSE
    <3>1. i \in 1 .. j - 1
      BY <2>1
    <3> QED BY <2>1, <3>1 DEF News
  <2> DEFINE n == s[2]
             i == s[3]
             j == t[3]
  <2>3. /\ n \in 1 .. N /\ i \in Nat /\ i > 0 /\ j \in Nat /\ j > 0 /\ i \in News(M, n) /\ j \in News(M, n)
        /\ M[n][i] = M[n][j] /\ M[n][j] = M[n][i]
    <3>1. i > 0 /\ j > 0
      <4>1. i \in 1 .. Len(M[s[2]]) /\ j \in 1 .. Len(M[t[2]]) /\ Len(M[s[2]]) \in Nat /\ Len(M[t[2]]) \in Nat
        BY <1>1, <1>2, <1>4
      <4> QED BY <4>1
    <3> QED BY <1>1, <1>2, <1>5, <3>1
  <2> HIDE DEF n, i, j
  <2>4. ~(i < j) /\ ~(j < i)
    BY <2>1, <2>3
  <2>2. ~(s[3] < t[3]) /\ ~(t[3] < s[3])
    BY <2>4 DEF i, j
  <2> QED BY <1>1, <1>2, <2>2
<1> QED BY <1>1, <1>2, <1>3, <1>5, <1>6

\* The order of the spots is a strict total order.
LEMMA LowerIs ==
  ASSUME NEW M, NEW N, Listed(M, N)
  PROVE  /\ \A s \in Spots(M) : ~Lower(s, s)
         /\ \A s, t \in Spots(M) : s = t \/ Lower(s, t) \/ Lower(t, s)
         /\ \A s, t, u \in Spots(M) : Lower(s, t) /\ Lower(t, u) => Lower(s, u)
<1>1. \A s \in Spots(M) : s = <<s[1], s[2], s[3]>> /\ s[1] \in Int /\ s[2] \in Int /\ s[3] \in Int
  <2> TAKE s \in Spots(M)
  <2>1. s = <<s[1], s[2], s[3]>> /\ s[1] \in 1 .. 5 /\ s[2] \in 1 .. N /\ s[3] \in Nat
    BY SpotIs
  <2>2. N \in Nat
    BY DEF Listed
  <2> QED BY <2>1, <2>2
<1>2. ASSUME NEW s \in Spots(M) PROVE ~Lower(s, s)
  BY <1>1 DEF Lower
<1>3. ASSUME NEW s \in Spots(M), NEW t \in Spots(M) PROVE s = t \/ Lower(s, t) \/ Lower(t, s)
  <2>1. /\ s = <<s[1], s[2], s[3]>> /\ s[1] \in Int /\ s[2] \in Int /\ s[3] \in Int
        /\ t = <<t[1], t[2], t[3]>> /\ t[1] \in Int /\ t[2] \in Int /\ t[3] \in Int
    BY <1>1
  <2>2. s[1] = t[1] /\ s[2] = t[2] /\ s[3] = t[3] => s = t
    BY <2>1
  <2> QED BY <2>1, <2>2 DEF Lower
<1>4. ASSUME NEW s \in Spots(M), NEW t \in Spots(M), NEW u \in Spots(M), Lower(s, t), Lower(t, u) PROVE Lower(s, u)
  <2>1. /\ s[1] \in Int /\ s[2] \in Int /\ s[3] \in Int /\ t[1] \in Int /\ t[2] \in Int /\ t[3] \in Int
        /\ u[1] \in Int /\ u[2] \in Int /\ u[3] \in Int
    BY <1>1
  <2> QED BY <1>4, <2>1 DEF Lower
<1> QED BY <1>2, <1>3, <1>4

\* What a tape mentions is finite.
LEMMA WalkedOK ==
  ASSUME NEW M, NEW N, Listed(M, N)
  PROVE  VarsOK(Walked(M))
<1>1. N \in Nat /\ DOMAIN M = 1 .. N /\ \A n \in 1 .. N : M[n] \in Seq(Walked(M))
  BY DEF Listed, MentionsOK
<1>2. ASSUME NEW n \in 1 .. N PROVE IsFiniteSet(ToSet(M[n]))
  <2>1. M[n] \in Seq(ToSet(M[n]))
    <3>1. M[n] \in Seq(Walked(M)) /\ DOMAIN M[n] = 1 .. Len(M[n])
      BY <1>1
    <3>2. \A i \in 1 .. Len(M[n]) : M[n][i] \in ToSet(M[n])
      BY <3>1 DEF ToSet
    <3> QED BY <3>1, <3>2
  <2>2. \A v \in ToSet(M[n]) : \E i \in 1 .. Len(M[n]) : v = M[n][i]
    BY <1>1 DEF ToSet
  <2> QED BY <2>1, <2>2 DEF IsFiniteSet
<1> DEFINE G == {ToSet(M[n]) : n \in 1 .. N}
<1>3. IsFiniteSet(G)
  <2> DEFINE q == [n \in 1 .. N |-> ToSet(M[n])]
  <2>1. q \in Seq(G) /\ Len(q) = N /\ \A n \in 1 .. N : q[n] = ToSet(M[n])
    <3>1. N \in Nat /\ \A n \in 1 .. N : q[n] = ToSet(M[n]) /\ q[n] \in G
      BY <1>1
    <3>2. DOMAIN q = 1 .. N /\ q = [n \in 1 .. N |-> q[n]]
      OBVIOUS
    <3> HIDE DEF q, G
    <3> QED BY ONLY <3>1, <3>2
  <2>2. \A x \in G : \E n \in 1 .. Len(q) : x = q[n]
    <3> SUFFICES ASSUME NEW n \in 1 .. N PROVE \E k \in 1 .. Len(q) : ToSet(M[n]) = q[k]
      OBVIOUS
    <3> QED BY <2>1
  <2> QED BY <2>1, <2>2 DEF IsFiniteSet
<1>4. IsFiniteSet(UNION G)
  <2>1. \A x \in G : IsFiniteSet(x)
    BY <1>2
  <2> HIDE DEF G
  <2> QED BY <1>3, <2>1, FS_UNION
<1>5. Walked(M) = UNION G
  BY <1>1 DEF Walked
<1>6. (\A v \in Walked(M) : n_rows(v) \in Nat) /\ (\A u, v \in Walked(M) : u.name = v.name => u = v)
  BY DEF Listed, MentionsOK
<1> QED BY <1>4, <1>5, <1>6 DEF VarsOK

---------------------------------------------------------------------------
(* Rows.                                                                    *)

\* The rows of the variables at the spots Q.
Count(M, Q) == RowCount({Met(M, t) : t \in Q})
Before(M, s) == {t \in Spots(M) : Lower(t, s)}
Under(M, b, n) == {t \in Spots(M) : t[1] < b \/ (t[1] = b /\ t[2] < n)}
\* The first row of the variable at spot s, and of what claim n adds to block b.
First(M, s) == NUM_BLINDING_ROWS + Count(M, Before(M, s))
Start(M, b, n) == NUM_BLINDING_ROWS + Count(M, Under(M, b, n))

\* One spot more counts the rows of one variable more.
LEMMA CountAdd ==
  ASSUME NEW M, NEW N, Listed(M, N), NEW Q, Q \subseteq Spots(M), NEW s \in Spots(M), s \notin Q
  PROVE  Count(M, Q \cup {s}) = Count(M, Q) + n_rows(Met(M, s))
<1> DEFINE V == {Met(M, t) : t \in Q}
           v == Met(M, s)
<1>1. V \subseteq Walked(M) /\ v \in Walked(M)
  BY SpotIs
<1>2. v \notin V
  BY OneSpot
<1>3. {Met(M, t) : t \in Q \cup {s}} = V \cup {v}
  OBVIOUS
<1>4. VarsOK(Walked(M))
  BY WalkedOK
<1> HIDE DEF V, v
<1>5. RowCount(V \cup {v}) = RowCount(V) + n_rows(v)
  BY <1>1, <1>2, <1>4, RowsAdd
<1> QED BY <1>3, <1>5 DEF Count, V, v

\* Fewer spots have no more rows.
LEMMA CountMore ==
  ASSUME NEW M, NEW N, Listed(M, N), NEW Q, NEW R, Q \subseteq R, R \subseteq Spots(M)
  PROVE  Count(M, Q) \in Nat /\ Count(M, R) \in Nat /\ Count(M, Q) <= Count(M, R)
<1> DEFINE V == {Met(M, t) : t \in Q}
           X == {Met(M, t) : t \in R}
<1>1. V \subseteq X /\ X \subseteq Walked(M)
  BY SpotIs
<1>2. VarsOK(Walked(M))
  BY WalkedOK
<1> HIDE DEF V, X
<1>3. RowCount(V) \in Nat /\ RowCount(X) \in Nat /\ RowCount(V) <= RowCount(X)
  BY <1>1, <1>2, RowsMore
<1> QED BY <1>3 DEF Count, V, X

\* The layout puts every variable where its spot says.
LEMMA LayoutIs ==
  ASSUME NEW M, NEW N, Listed(M, N), NEW s \in Spots(M)
  PROVE  _layout(M)[Met(M, s).name] = First(M, s)
<1> DEFINE name == Met(M, s).name
           c == CHOOSE u \in Spots(M) : Met(M, u).name = name
<1>1. c \in Spots(M) /\ Met(M, c).name = name
  OBVIOUS
<1>2. Met(M, c) = Met(M, s)
  <2>1. Met(M, c) \in Walked(M) /\ Met(M, s) \in Walked(M)
    BY <1>1, SpotIs
  <2>2. \A u, v \in Walked(M) : u.name = v.name => u = v
    BY DEF Listed, MentionsOK
  <2> QED BY <1>1, <2>1, <2>2
<1>3. c = s
  BY <1>1, <1>2, OneSpot
<1>4. name \in {Met(M, u).name : u \in Spots(M)}
  OBVIOUS
<1>5. _layout(M)[name] = First(M, c)
  BY <1>4 DEF _layout, First, Count, Before
<1> QED BY <1>3, <1>5

\* Two spots in their order: the first one's rows end where the second one's begin, or before.
LEMMA FirstsAre ==
  ASSUME NEW M, NEW N, Listed(M, N), NEW s \in Spots(M), NEW t \in Spots(M), Lower(s, t)
  PROVE  First(M, s) \in Nat /\ First(M, t) \in Nat /\ n_rows(Met(M, s)) \in Nat
         /\ First(M, s) + n_rows(Met(M, s)) <= First(M, t)
<1>1. s \notin Before(M, s)
  BY LowerIs DEF Before
<1>2. Before(M, s) \cup {s} \subseteq Before(M, t) /\ Before(M, t) \subseteq Spots(M) /\ Before(M, s) \subseteq Spots(M)
  BY LowerIs DEF Before
<1>3. Count(M, Before(M, s) \cup {s}) = Count(M, Before(M, s)) + n_rows(Met(M, s))
  BY <1>1, <1>2, CountAdd
<1>4. /\ Count(M, Before(M, s)) \in Nat /\ Count(M, Before(M, t)) \in Nat
      /\ Count(M, Before(M, s) \cup {s}) <= Count(M, Before(M, t))
  BY <1>2, CountMore
<1>5. n_rows(Met(M, s)) \in Nat
  BY SpotIs DEF Listed, MentionsOK
<1> QED BY <1>3, <1>4, <1>5 DEF First, NUM_BLINDING_ROWS

\* Blocks and claims in their order.
LEMMA StartsAre ==
  ASSUME NEW M, NEW N, Listed(M, N), NEW b \in Int, NEW n \in Int, NEW c \in Int, NEW m \in Int,
         b < c \/ (b = c /\ n <= m)
  PROVE  Start(M, b, n) \in Nat /\ Start(M, c, m) \in Nat /\ Start(M, b, n) <= Start(M, c, m)
<1>1. Under(M, b, n) \subseteq Under(M, c, m)
  <2> SUFFICES ASSUME NEW t \in Under(M, b, n) PROVE t \in Under(M, c, m)
    OBVIOUS
  <2>1. t \in Spots(M) /\ (t[1] < b \/ (t[1] = b /\ t[2] < n))
    BY DEF Under
  <2>2. t[1] \in 1 .. 5 /\ t[2] \in 1 .. N /\ N \in Nat
    BY <2>1, SpotIs DEF Listed
  <2>3. t[1] < c \/ (t[1] = c /\ t[2] < m)
    BY <2>1, <2>2
  <2> QED BY <2>1, <2>3 DEF Under
<1>2. Under(M, c, m) \subseteq Spots(M)
  BY DEF Under
<1>3. Count(M, Under(M, b, n)) \in Nat /\ Count(M, Under(M, c, m)) \in Nat
      /\ Count(M, Under(M, b, n)) <= Count(M, Under(M, c, m))
  BY <1>1, <1>2, CountMore
<1> QED BY <1>3 DEF Start, NUM_BLINDING_ROWS

\* Where the last claim ends, the next block starts.
LEMMA BlockEnds ==
  ASSUME NEW M, NEW N, Listed(M, N), NEW b \in Int
  PROVE  Start(M, b, N + 1) = Start(M, b + 1, 1)
<1>1. ASSUME NEW t \in Spots(M) PROVE (t[1] < b \/ (t[1] = b /\ t[2] < N + 1)) <=> (t[1] < b + 1 \/ (t[1] = b + 1 /\ t[2] < 1))
  <2>1. t[1] \in 1 .. 5 /\ t[2] \in 1 .. N /\ N \in Nat
    BY SpotIs DEF Listed
  <2> QED BY <2>1
<1>2. Under(M, b, N + 1) = Under(M, b + 1, 1)
  BY <1>1 DEF Under
<1> QED BY <1>2 DEF Start

---------------------------------------------------------------------------
(* What Chosen picks.                                                       *)

\* Chosen, element by element.
ChosenTo(s, S) ==
  LET upTo[n \in 0 .. Len(s)] ==
        IF n = 0 THEN <<>> ELSE IF s[n] \in S THEN Append(upTo[n - 1], s[n]) ELSE upTo[n - 1]
  IN  upTo

\* The rounds of Chosen, element by element.
LEMMA ChosenToIs ==
  ASSUME NEW s, NEW S, Len(s) \in Nat
  PROVE  /\ ChosenTo(s, S)[0] = <<>>
         /\ \A n \in 1 .. Len(s) :
              ChosenTo(s, S)[n] = IF s[n] \in S THEN Append(ChosenTo(s, S)[n - 1], s[n]) ELSE ChosenTo(s, S)[n - 1]
<1> DEFINE Body(g, i) == IF i = 0 THEN <<>> ELSE IF s[i] \in S THEN Append(g[i - 1], s[i]) ELSE g[i - 1]
           Rec(g, k) == g = [i \in 0 .. k |-> Body(g, i)]
           K == {k \in Nat : \E g : Rec(g, k)}
<1>1. 0 \in K
  <2> DEFINE g == [i \in 0 .. 0 |-> <<>>]
  <2>1. g = [i \in 0 .. 0 |-> Body(g, i)]
    OBVIOUS
  <2> HIDE DEF g
  <2> QED BY <2>1
<1>2. ASSUME NEW g, NEW k \in Nat, Rec(g, k), NEW i \in 0 .. k PROVE g[i] = Body(g, i)
  <2>1. g = [j \in 0 .. k |-> Body(g, j)]
    BY <1>2
  <2> HIDE DEF Body
  <2> DEFINE h == [j \in 0 .. k |-> Body(g, j)]
  <2>2. h[i] = Body(g, i)
    OBVIOUS
  <2> QED BY <2>1, <2>2
<1>3. ASSUME NEW k \in Nat, k \in K PROVE k + 1 \in K
  <2>1. PICK g : Rec(g, k)
    BY <1>3
  <2> DEFINE h == [i \in 0 .. (k + 1) |-> Body(g, i)]
  <2> HIDE DEF Rec
  <2>2. \A i \in 0 .. k : h[i] = g[i]
    <3>1. \A i \in 0 .. k : i \in 0 .. (k + 1)
      OBVIOUS
    <3> HIDE DEF Body
    <3> QED BY <1>2, <2>1, <3>1
  <2>3. \A i \in 0 .. (k + 1) : i # 0 => i - 1 \in 0 .. k
    OBVIOUS
  <2>4. \A i \in 0 .. (k + 1) : h[i] = Body(g, i)
    OBVIOUS
  <2>5. h = [i \in 0 .. (k + 1) |-> h[i]]
    OBVIOUS
  <2> HIDE DEF h
  <2>6. \A i \in 0 .. (k + 1) : Body(g, i) = Body(h, i)
    BY <2>2, <2>3
  <2>7. \A i \in 0 .. (k + 1) : h[i] = Body(h, i)
    BY <2>4, <2>6
  <2> HIDE DEF Body
  <2>8. h = [i \in 0 .. (k + 1) |-> Body(h, i)]
    BY <2>5, <2>7
  <2> QED BY <2>8 DEF Rec
<1> DEFINE f == ChosenTo(s, S)
           N == Len(s)
<1>4. f = CHOOSE g : Rec(g, N)
  BY DEF ChosenTo
<1> HIDE DEF K, Rec, Body
<1>5. Nat \subseteq K
  BY <1>1, <1>3, T!NatIsLeast
<1>6. PICK g : Rec(g, N)
  BY <1>5 DEF K
<1>7. Rec(f, N)
  BY <1>4, <1>6
<1> HIDE DEF f
<1>8. \A i \in 0 .. N : f[i] = Body(f, i)
  BY <1>2, <1>7
<1>9. f[0] = <<>>
  <2>1. 0 \in 0 .. N
    OBVIOUS
  <2> QED BY <1>8, <2>1 DEF Body
<1>10. ASSUME NEW n \in 1 .. N PROVE f[n] = IF s[n] \in S THEN Append(f[n - 1], s[n]) ELSE f[n - 1]
  <2>1. n \in 0 .. N /\ n # 0
    OBVIOUS
  <2> QED BY <1>8, <2>1 DEF Body
<1> QED BY <1>9, <1>10 DEF f, N

\* The places at[1] < at[2] < ... are those of the first n elements of s that are in S.
Ascends(at) == \A j, k \in 1 .. Len(at) : j < k => at[j] < at[k]
Places(s, S, n, at) ==
  /\ at \in Seq(Nat) /\ Ascends(at)
  /\ \A k \in 1 .. Len(at) : at[k] \in 1 .. n /\ s[at[k]] \in S
  /\ \A i \in 1 .. n : s[i] \in S => \E k \in 1 .. Len(at) : at[k] = i
Picked(s, at, c) == Len(c) = Len(at) /\ \A k \in 1 .. Len(at) : c[k] = s[at[k]]

\* Chosen(s, S) has the elements of s in S at their places, ascending, all of them.
LEMMA ChosenIs ==
  ASSUME NEW V, NEW s \in Seq(V), NEW S
  PROVE  Chosen(s, S) \in Seq(V) /\ \E at : Places(s, S, Len(s), at) /\ Picked(s, at, Chosen(s, S))
<1> DEFINE f == ChosenTo(s, S)
           N == Len(s)
           G == {n \in 0 .. N : f[n] \in Seq(V) /\ \E at : Places(s, S, n, at) /\ Picked(s, at, f[n])}
<1>1. N \in Nat /\ \A i \in 1 .. N : s[i] \in V
  OBVIOUS
<1>2. f[0] = <<>> /\ \A n \in 1 .. N : f[n] = IF s[n] \in S THEN Append(f[n - 1], s[n]) ELSE f[n - 1]
  BY <1>1, ChosenToIs
<1>3. Chosen(s, S) = f[N]
  BY DEF Chosen, ChosenTo
<1> HIDE DEF f, N
<1>4. 0 \in G
  <2>1. Places(s, S, 0, <<>>)
    BY DEF Places, Ascends
  <2>2. Picked(s, <<>>, f[0])
    BY <1>2 DEF Picked
  <2>3. f[0] \in Seq(V) /\ 0 \in 0 .. N
    BY <1>1, <1>2
  <2> QED BY <2>1, <2>2, <2>3
<1>5. ASSUME NEW n \in 1 .. N, n - 1 \in G PROVE n \in G
  <2>0. n \in Nat /\ n - 1 \in Nat /\ n \in 0 .. N
    BY <1>1
  <2>1. PICK at : Places(s, S, n - 1, at) /\ Picked(s, at, f[n - 1])
    BY <1>5
  <2>2. f[n - 1] \in Seq(V)
    BY <1>5
  <2> DEFINE c == f[n - 1]
             L == Len(at)
  <2> HIDE DEF G, c
  <2>3. /\ at \in Seq(Nat) /\ L \in Nat /\ Len(c) = L /\ c \in Seq(V)
        /\ \A j, k \in 1 .. L : j < k => at[j] < at[k]
        /\ \A k \in 1 .. L : at[k] \in 1 .. n - 1 /\ s[at[k]] \in S /\ c[k] = s[at[k]]
        /\ \A i \in 1 .. n - 1 : s[i] \in S => \E k \in 1 .. L : at[k] = i
    BY <2>1, <2>2 DEF Places, Picked, Ascends, c
  <2>4. CASE s[n] \in S
    <3> DEFINE new == Append(at, n)
               d == Append(c, s[n])
    <3>1. /\ new \in Seq(Nat) /\ Len(new) = L + 1 /\ (\A k \in 1 .. L : new[k] = at[k]) /\ new[L + 1] = n
          /\ d \in Seq(V) /\ Len(d) = L + 1 /\ (\A k \in 1 .. L : d[k] = c[k]) /\ d[L + 1] = s[n]
      BY <1>1, <2>0, <2>3
    <3>2. f[n] = d
      BY <1>2, <2>4 DEF c
    <3> HIDE DEF new, d
    <3>3. \A k \in 1 .. L + 1 : k \in 1 .. L \/ k = L + 1
      BY <2>3
    <3>4. ASSUME NEW j \in 1 .. L + 1, NEW k \in 1 .. L + 1, j < k PROVE new[j] < new[k]
      <4>1. j \in 1 .. L
        BY <2>3, <3>4
      <4>2. CASE k \in 1 .. L
        BY <2>3, <3>1, <3>4, <4>1, <4>2
      <4>3. CASE k = L + 1
        <5>1. new[j] \in 1 .. n - 1 /\ new[k] = n
          BY <2>3, <3>1, <4>1, <4>3
        <5> QED BY <2>0, <5>1
      <4> QED BY <3>3, <4>2, <4>3
    <3>5. ASSUME NEW k \in 1 .. L + 1 PROVE new[k] \in 1 .. n /\ s[new[k]] \in S /\ d[k] = s[new[k]]
      <4>1. CASE k \in 1 .. L
        <5>1. new[k] = at[k] /\ at[k] \in 1 .. n - 1 /\ s[at[k]] \in S /\ c[k] = s[at[k]] /\ d[k] = c[k]
          BY <2>3, <3>1, <4>1
        <5>2. at[k] \in 1 .. n
          BY <2>0, <5>1
        <5> QED BY <5>1, <5>2
      <4>2. CASE k = L + 1
        <5>1. new[k] = n /\ d[k] = s[n] /\ n \in 1 .. n
          BY <2>0, <3>1, <4>2
        <5> QED BY <2>4, <5>1
      <4> QED BY <3>3, <4>1, <4>2
    <3>6. ASSUME NEW i \in 1 .. n, s[i] \in S PROVE \E k \in 1 .. L + 1 : new[k] = i
      <4>1. CASE i = n
        <5>1. L + 1 \in 1 .. L + 1
          BY <2>3
        <5> QED BY <3>1, <4>1, <5>1
      <4>2. CASE i # n
        <5>1. i \in 1 .. n - 1
          BY <2>0, <4>2
        <5>2. PICK k \in 1 .. L : at[k] = i
          BY <2>3, <3>6, <5>1
        <5>3. k \in 1 .. L + 1 /\ new[k] = i
          BY <2>3, <3>1, <5>2
        <5> QED BY <5>3
      <4> QED BY <4>1, <4>2
    <3>7. Places(s, S, n, new)
      BY <3>1, <3>4, <3>5, <3>6 DEF Places, Ascends
    <3>8. Picked(s, new, f[n])
      BY <3>1, <3>2, <3>5 DEF Picked
    <3>9. f[n] \in Seq(V)
      BY <3>1, <3>2
    <3> QED BY <2>0, <3>7, <3>8, <3>9 DEF G
  <2>5. CASE s[n] \notin S
    <3>1. f[n] = c
      BY <1>2, <2>5 DEF c
    <3>2. \A i \in 1 .. n : s[i] \in S => i \in 1 .. n - 1
      <4> SUFFICES ASSUME NEW i \in 1 .. n, s[i] \in S PROVE i \in 1 .. n - 1
        OBVIOUS
      <4>1. i # n
        BY <2>5
      <4> QED BY <2>0, <4>1
    <3>3. \A k \in 1 .. L : at[k] \in 1 .. n
      <4>1. \A x \in 1 .. n - 1 : x \in 1 .. n
        BY <2>0
      <4> QED BY ONLY <2>3, <4>1
    <3>4. Places(s, S, n, at)
      BY <2>3, <3>2, <3>3 DEF Places, Ascends
    <3>5. Picked(s, at, f[n])
      BY <2>3, <3>1 DEF Picked
    <3> QED BY <2>0, <2>3, <3>1, <3>4, <3>5 DEF G
  <2> QED BY <2>4, <2>5
<1> HIDE DEF G
<1>6. 0 .. N \subseteq G
  BY <1>1, <1>4, <1>5, UpTo
<1>7. N \in G
  BY <1>1, <1>6
<1> QED BY <1>3, <1>7 DEF G, N

---------------------------------------------------------------------------
(* The new variables of a claim.                                            *)

NewHere(M, n) == {i \in News(M, n) : M[n][i].blk # "ext"}
\* The variables g are those claim n is the first to mention, at its places at.
GroupAt(M, n, g, at) ==
  /\ at \in Seq(Nat) /\ Ascends(at) /\ Len(g) = Len(at)
  /\ \A k \in 1 .. Len(at) : at[k] \in NewHere(M, n) /\ g[k] = M[n][at[k]]
  /\ \A i \in NewHere(M, n) : \E k \in 1 .. Len(at) : at[k] = i

\* _claim_var_groups gives claim n the variables it is the first to mention, in
\* the order in which it mentions them.
LEMMA GroupIs ==
  ASSUME NEW M, NEW N, Listed(M, N), NEW n \in 1 .. N
  PROVE  _claim_var_groups(M)[n] \in Seq(Walked(M)) /\ \E at : GroupAt(M, n, _claim_var_groups(M)[n], at)
<1> DEFINE id == [i \in DOMAIN M[n] |-> i]
           S == NewHere(M, n)
           met == Chosen(id, S)
           g == [k \in DOMAIN met |-> M[n][met[k]]]
<1>1. M[n] \in Seq(Walked(M)) /\ n \in DOMAIN M
  BY DEF Listed, MentionsOK
<1>2. id \in Seq(Nat) /\ Len(id) = Len(M[n]) /\ \A i \in 1 .. Len(M[n]) : id[i] = i
  BY <1>1
<1>3. _claim_var_groups(M)[n] = g
  BY <1>1 DEF _claim_var_groups, NewHere
<1>4. \A i \in S : i \in 1 .. Len(M[n])
  BY <1>1 DEF NewHere, News
<1> HIDE DEF id, S
<1>5. met \in Seq(Nat) /\ \E at : Places(id, S, Len(id), at) /\ Picked(id, at, met)
  BY <1>2, ChosenIs
<1> HIDE DEF met
<1>6. PICK at : Places(id, S, Len(id), at) /\ Picked(id, at, met)
  BY <1>5
<1>7. /\ at \in Seq(Nat) /\ Ascends(at) /\ Len(met) = Len(at)
      /\ \A k \in 1 .. Len(at) : at[k] \in 1 .. Len(id) /\ id[at[k]] \in S /\ met[k] = id[at[k]]
      /\ \A i \in 1 .. Len(id) : id[i] \in S => \E k \in 1 .. Len(at) : at[k] = i
  BY <1>6 DEF Places, Picked
<1>8. \A k \in 1 .. Len(at) : at[k] \in S /\ met[k] = at[k] /\ at[k] \in 1 .. Len(M[n])
  BY <1>2, <1>7
<1>9. g \in Seq(Walked(M)) /\ Len(g) = Len(at) /\ \A k \in 1 .. Len(at) : g[k] = M[n][at[k]]
  <2>1. DOMAIN met = 1 .. Len(at) /\ Len(at) \in Nat
    BY <1>5, <1>7
  <2>2. \A k \in 1 .. Len(at) : M[n][met[k]] = M[n][at[k]] /\ M[n][at[k]] \in Walked(M)
    BY <1>1, <1>8
  <2> QED BY <2>1, <2>2
<1> HIDE DEF g
<1>10. \A i \in S : \E k \in 1 .. Len(at) : at[k] = i
  BY <1>2, <1>4, <1>7
<1>11. GroupAt(M, n, g, at)
  BY <1>7, <1>8, <1>9, <1>10 DEF GroupAt, S
<1> QED BY <1>3, <1>9, <1>11

\* The variables vs are those at the spots <<b, n, idx[1]>>, <<b, n, idx[2]>>, ...
CellAt(M, b, n, vs, idx) ==
  /\ idx \in Seq(Nat) /\ Ascends(idx) /\ Len(vs) = Len(idx)
  /\ \A k \in 1 .. Len(idx) : <<b, n, idx[k]>> \in Spots(M) /\ vs[k] = Met(M, <<b, n, idx[k]>>)
  /\ \A i : <<b, n, i>> \in Spots(M) => \E k \in 1 .. Len(idx) : idx[k] = i
InBlock(g, b) == Chosen(g, {v \in ToSet(g) : v.blk = Blocks[b]})

\* What a group has for a block are the spots of that block and claim, in order.
LEMMA CellIs ==
  ASSUME NEW M, NEW N, Listed(M, N), NEW n \in 1 .. N, NEW b \in 1 .. 5
  PROVE  /\ InBlock(_claim_var_groups(M)[n], b) \in Seq(Walked(M))
         /\ \E idx : CellAt(M, b, n, InBlock(_claim_var_groups(M)[n], b), idx)
<1> DEFINE g == _claim_var_groups(M)[n]
           S == {v \in ToSet(g) : v.blk = Blocks[b]}
           vs == InBlock(g, b)
<1>1. g \in Seq(Walked(M)) /\ \E at : GroupAt(M, n, g, at)
  BY GroupIs
<1>2. PICK at : GroupAt(M, n, g, at)
  BY <1>1
<1>3. /\ at \in Seq(Nat) /\ Ascends(at) /\ Len(g) = Len(at)
      /\ \A k \in 1 .. Len(at) : at[k] \in NewHere(M, n) /\ g[k] = M[n][at[k]]
      /\ \A i \in NewHere(M, n) : \E k \in 1 .. Len(at) : at[k] = i
  BY <1>2 DEF GroupAt
<1>4. vs = Chosen(g, S)
  BY DEF InBlock
<1> HIDE DEF g, vs
<1>5. vs \in Seq(Walked(M)) /\ \E p : Places(g, S, Len(g), p) /\ Picked(g, p, vs)
  BY <1>1, <1>4, ChosenIs
<1>6. PICK p : Places(g, S, Len(g), p) /\ Picked(g, p, vs)
  BY <1>5
<1>7. \A k \in 1 .. Len(g) : g[k] \in S <=> g[k].blk = Blocks[b]
  <2>1. DOMAIN g = 1 .. Len(g)
    BY <1>1
  <2> QED BY <2>1 DEF ToSet
<1> HIDE DEF S
<1>8. /\ p \in Seq(Nat) /\ Ascends(p) /\ Len(vs) = Len(p)
      /\ \A k \in 1 .. Len(p) : p[k] \in 1 .. Len(g) /\ g[p[k]] \in S /\ vs[k] = g[p[k]]
      /\ \A i \in 1 .. Len(g) : g[i] \in S => \E k \in 1 .. Len(p) : p[k] = i
  BY <1>6 DEF Places, Picked
<1> DEFINE L == Len(p)
           idx == [k \in 1 .. L |-> at[p[k]]]
<1>9. L \in Nat /\ Len(at) \in Nat /\ \A k \in 1 .. Len(at) : at[k] \in Nat
  BY <1>3, <1>8
<1>10. idx \in Seq(Nat) /\ Len(idx) = L /\ \A k \in 1 .. L : idx[k] = at[p[k]]
  <2>1. \A k \in 1 .. L : at[p[k]] \in Nat
    BY <1>3, <1>8, <1>9
  <2> QED BY <1>9, <2>1
<1> HIDE DEF idx, L
<1>11. Ascends(idx)
  <2> SUFFICES ASSUME NEW j \in 1 .. L, NEW k \in 1 .. L, j < k PROVE idx[j] < idx[k]
    BY <1>10 DEF Ascends
  <2>1. p[j] < p[k]
    BY <1>8 DEF Ascends, L
  <2>2. p[j] \in 1 .. Len(at) /\ p[k] \in 1 .. Len(at)
    BY <1>3, <1>8 DEF L
  <2>3. at[p[j]] < at[p[k]]
    BY <1>3, <2>1, <2>2 DEF Ascends
  <2> QED BY <1>10, <2>3
<1>12. ASSUME NEW k \in 1 .. L PROVE <<b, n, idx[k]>> \in Spots(M) /\ vs[k] = Met(M, <<b, n, idx[k]>>)
  <2>1. p[k] \in 1 .. Len(g) /\ g[p[k]] \in S /\ vs[k] = g[p[k]]
    BY <1>8 DEF L
  <2>2. idx[k] \in NewHere(M, n) /\ vs[k] = M[n][idx[k]] /\ vs[k].blk = Blocks[b]
    BY <1>3, <1>7, <1>10, <2>1
  <2>3. <<b, n, idx[k]>> \in Spots(M)
    BY <2>2, IsSpot DEF NewHere
  <2> QED BY <2>2, <2>3 DEF Met
<1>13. ASSUME NEW i, <<b, n, i>> \in Spots(M) PROVE \E k \in 1 .. L : idx[k] = i
  <2> DEFINE s == <<b, n, i>>
  <2>1. s[3] \in News(M, s[2]) /\ Met(M, s) = M[s[2]][s[3]] /\ Met(M, s).blk = Blocks[s[1]]
    BY <1>13, SpotIs
  <2>2. i \in News(M, n) /\ M[n][i].blk = Blocks[b]
    BY <2>1
  <2>3. Blocks[b] # "ext"
    BY DEF Blocks
  <2>4. i \in NewHere(M, n)
    BY <2>2, <2>3 DEF NewHere
  <2>5. PICK k \in 1 .. Len(at) : at[k] = i
    BY <1>3, <2>4
  <2>6. k \in 1 .. Len(g) /\ g[k] \in S
    BY <1>3, <1>7, <2>2, <2>5
  <2>7. PICK j \in 1 .. L : p[j] = k
    BY <1>8, <2>6 DEF L
  <2> QED BY <1>10, <2>5, <2>7
<1>14. CellAt(M, b, n, vs, idx)
  BY <1>8, <1>10, <1>11, <1>12, <1>13 DEF CellAt, L
<1> QED BY <1>5, <1>14 DEF vs, g

\* The variables vs lie one behind the other, from row lo to row hi.
EdgesAt(rs, vs, lo, hi, e) ==
  /\ e[0] = lo /\ e[Len(vs)] = hi /\ \A k \in 0 .. Len(vs) : e[k] \in Nat
  /\ \A k \in 1 .. Len(vs) : rs[vs[k].name] = e[k - 1] /\ e[k] = e[k - 1] + n_rows(vs[k])
Adjoin(rs, vs, lo, hi) == \E e : EdgesAt(rs, vs, lo, hi, e)

\* The variables a claim adds to a block adjoin, from its first row there to the next claim's.
LEMMA CellAdjoins ==
  ASSUME NEW M, NEW N, Listed(M, N), NEW n \in 1 .. N, NEW b \in 1 .. 5, NEW vs, NEW idx, CellAt(M, b, n, vs, idx)
  PROVE  Adjoin(_layout(M), vs, Start(M, b, n), Start(M, b, n + 1))
<1> DEFINE L == Len(idx)
           sp(k) == <<b, n, idx[k]>>
           Reach(k) == {t \in Spots(M) : t[1] < b \/ (t[1] = b /\ (t[2] < n \/ (t[2] = n /\ \E j \in 1 .. k : t[3] = idx[j])))}
           e == [k \in 0 .. L |-> NUM_BLINDING_ROWS + Count(M, Reach(k))]
<1>1. /\ L \in Nat /\ Len(vs) = L /\ N \in Nat
      /\ \A k \in 1 .. L : idx[k] \in Nat
      /\ \A j, k \in 1 .. L : j < k => idx[j] < idx[k]
      /\ \A k \in 1 .. L : sp(k) \in Spots(M) /\ vs[k] = Met(M, sp(k))
      /\ \A i : <<b, n, i>> \in Spots(M) => \E k \in 1 .. L : idx[k] = i
  BY DEF CellAt, Ascends, Listed
<1>2. ASSUME NEW t \in Spots(M)
      PROVE  t = <<t[1], t[2], t[3]>> /\ t[1] \in Int /\ t[2] \in Int /\ t[3] \in Int
  <2>1. t = <<t[1], t[2], t[3]>> /\ t[1] \in 1 .. 5 /\ t[2] \in 1 .. N /\ t[3] \in Nat
    BY SpotIs
  <2> QED BY <1>1, <2>1
<1>3. ASSUME NEW t \in Spots(M), t[1] = b, t[2] = n PROVE \E k \in 1 .. L : t[3] = idx[k]
  <2>1. <<b, n, t[3]>> \in Spots(M)
    BY <1>2, <1>3
  <2> QED BY <1>1, <2>1
<1>4. Reach(0) = Under(M, b, n)
  <2>1. \A t \in Spots(M) : ~ \E j \in 1 .. 0 : t[3] = idx[j]
    OBVIOUS
  <2> QED BY <2>1 DEF Under
<1>5. Reach(L) = Under(M, b, n + 1)
  <2>1. ASSUME NEW t \in Spots(M)
        PROVE  (t[2] < n \/ (t[2] = n /\ \E j \in 1 .. L : t[3] = idx[j])) /\ t[1] = b <=> t[1] = b /\ t[2] < n + 1
    <3>1. t[2] \in Int /\ n \in Int
      BY <1>2
    <3> QED BY <1>3, <3>1
  <2> QED BY <2>1 DEF Under
<1>6. ASSUME NEW k \in 1 .. L
      PROVE  Before(M, sp(k)) = Reach(k - 1) /\ Reach(k) = Reach(k - 1) \cup {sp(k)} /\ sp(k) \notin Reach(k - 1)
  <2>1. sp(k)[1] = b /\ sp(k)[2] = n /\ sp(k)[3] = idx[k] /\ sp(k) \in Spots(M)
    BY <1>1
  <2>2. ASSUME NEW t \in Spots(M), t[1] = b, t[2] = n
        PROVE  t[3] < idx[k] <=> \E j \in 1 .. k - 1 : t[3] = idx[j]
    <3>1. PICK i \in 1 .. L : t[3] = idx[i]
      BY <1>3, <2>2
    <3>2. ASSUME t[3] < idx[k] PROVE \E j \in 1 .. k - 1 : t[3] = idx[j]
      <4>1. ~(k < i) /\ k # i
        <5>1. idx[i] < idx[k] /\ idx[i] \in Nat /\ idx[k] \in Nat
          BY <1>1, <3>1, <3>2
        <5> QED BY <1>1, <5>1
      <4>2. i \in 1 .. k - 1
        BY <1>1, <4>1
      <4> QED BY <3>1, <4>2
    <3>3. ASSUME NEW j \in 1 .. k - 1, t[3] = idx[j] PROVE t[3] < idx[k]
      <4>1. j \in 1 .. L /\ j < k
        BY <1>1
      <4> QED BY <1>1, <3>3, <4>1
    <3> QED BY <3>2, <3>3
  <2>3. Before(M, sp(k)) = Reach(k - 1)
    <3>1. ASSUME NEW t \in Spots(M)
          PROVE  Lower(t, sp(k)) <=> t[1] < b \/ (t[1] = b /\ (t[2] < n \/ (t[2] = n /\ t[3] < idx[k])))
      BY <2>1 DEF Lower
    <3> HIDE DEF sp
    <3> QED BY <2>2, <3>1 DEF Before
  <2>4. sp(k) \notin Reach(k - 1)
    <3>1. ~Lower(sp(k), sp(k))
      BY <2>1, LowerIs
    <3> QED BY <2>3, <3>1 DEF Before
  <2>5. Reach(k) = Reach(k - 1) \cup {sp(k)}
    <3>1. \A t \in Spots(M) : (\E j \in 1 .. k : t[3] = idx[j]) <=> ((\E j \in 1 .. k - 1 : t[3] = idx[j]) \/ t[3] = idx[k])
      <4>1. \A j : j \in 1 .. k <=> j \in 1 .. k - 1 \/ j = k
        BY <1>1
      <4> QED BY <4>1
    <3>2. ASSUME NEW t \in Spots(M) PROVE t[1] = b /\ t[2] = n /\ t[3] = idx[k] <=> t = sp(k)
      BY <1>2, <2>1
    <3>3. n \in Int /\ ~(n < n)
      OBVIOUS
    <3> HIDE DEF sp
    <3>4. \A t \in Reach(k) : t \in Reach(k - 1) \/ t = sp(k)
      BY <3>1, <3>2
    <3>5. \A t \in Reach(k - 1) : t \in Reach(k)
      BY <3>1
    <3>6. sp(k) \in Reach(k)
      BY <2>1, <3>1, <3>2
    <3> QED BY <3>4, <3>5, <3>6
  <2> QED BY <2>3, <2>4, <2>5
<1>7. \A k \in 0 .. L : Reach(k) \subseteq Spots(M)
  OBVIOUS
<1> HIDE DEF sp, Reach
<1>8. \A k \in 0 .. L : e[k] = NUM_BLINDING_ROWS + Count(M, Reach(k)) /\ e[k] \in Nat
  BY <1>7, CountMore DEF NUM_BLINDING_ROWS
<1> HIDE DEF e
<1>9. e[0] = Start(M, b, n) /\ e[L] = Start(M, b, n + 1)
  BY <1>1, <1>4, <1>5, <1>8 DEF Start
<1>10. ASSUME NEW k \in 1 .. L
       PROVE  _layout(M)[vs[k].name] = e[k - 1] /\ e[k] = e[k - 1] + n_rows(vs[k])
  <2>1. k - 1 \in 0 .. L /\ k \in 0 .. L
    BY <1>1
  <2>2. sp(k) \in Spots(M) /\ vs[k] = Met(M, sp(k))
    BY <1>1
  <2>3. _layout(M)[vs[k].name] = First(M, sp(k))
    BY <2>2, LayoutIs
  <2>4. First(M, sp(k)) = e[k - 1]
    BY <1>6, <1>8, <2>1 DEF First
  <2>5. Count(M, Reach(k)) = Count(M, Reach(k - 1)) + n_rows(vs[k])
    BY <1>6, <1>7, <2>1, <2>2, CountAdd
  <2>6. Count(M, Reach(k - 1)) \in Nat /\ n_rows(vs[k]) \in Nat
    <3>1. vs[k] \in Walked(M)
      BY <2>2, SpotIs
    <3> QED BY <1>7, <2>1, <3>1, CountMore DEF Listed, MentionsOK
  <2> QED BY <1>8, <2>1, <2>3, <2>4, <2>5, <2>6 DEF NUM_BLINDING_ROWS
<1>11. EdgesAt(_layout(M), vs, Start(M, b, n), Start(M, b, n + 1), e)
  BY <1>1, <1>8, <1>9, <1>10 DEF EdgesAt
<1> QED BY <1>11 DEF Adjoin

---------------------------------------------------------------------------
(* Tiles.                                                                   *)

\* What row r holds under the layout rs of the variables W.
RowHas(rs, W, r, x) == \E v \in W : \E q \in 0 .. n_rows(v) - 1 : x = <<v.name, q>> /\ r = rs[v.name] + q
Pieces(W) == [abs : Nat, rows : Seq({v.name : v \in W} \X Nat)]
\* The pieces ps bring what the rows from lo to hi hold, one piece behind the other.
TilesAt(rs, W, ps, lo, hi, e) ==
  /\ e[0] = lo /\ e[Len(ps)] = hi /\ \A k \in 0 .. Len(ps) : e[k] \in Nat
  /\ \A k \in 1 .. Len(ps) :
       /\ ps[k].abs = e[k - 1] /\ e[k] = e[k - 1] + Len(ps[k].rows)
       /\ \A q \in 1 .. Len(ps[k].rows) : RowHas(rs, W, e[k - 1] + q - 1, ps[k].rows[q])
Tiles(rs, W, ps, lo, hi) == ps \in Seq(Pieces(W)) /\ \E e : TilesAt(rs, W, ps, lo, hi, e)

\* No pieces tile no rows.
LEMMA NoTiles ==
  ASSUME NEW rs, NEW W, NEW lo \in Nat
  PROVE  Tiles(rs, W, <<>>, lo, lo)
<1> DEFINE e == [k \in 0 .. 0 |-> lo]
<1>1. e[0] = lo /\ Len(<<>>) = 0 /\ <<>> \in Seq(Pieces(W))
  OBVIOUS
<1> HIDE DEF e
<1>2. TilesAt(rs, W, <<>>, lo, lo, e)
  BY <1>1 DEF TilesAt
<1> QED BY <1>1, <1>2 DEF Tiles

\* Tiles behind tiles.
LEMMA TilesJoin ==
  ASSUME NEW rs, NEW W, NEW ps, NEW qs, NEW lo, NEW mid, NEW hi, Tiles(rs, W, ps, lo, mid), Tiles(rs, W, qs, mid, hi)
  PROVE  Tiles(rs, W, ps \o qs, lo, hi)
<1>1. PICK e : TilesAt(rs, W, ps, lo, mid, e)
  BY DEF Tiles
<1>2. PICK f : TilesAt(rs, W, qs, mid, hi, f)
  BY DEF Tiles
<1> DEFINE m == Len(ps)
           n == Len(qs)
           g == [k \in 0 .. m + n |-> IF k <= m THEN e[k] ELSE f[k - m]]
           all == ps \o qs
<1>3. /\ ps \in Seq(Pieces(W)) /\ qs \in Seq(Pieces(W)) /\ m \in Nat /\ n \in Nat
      /\ all \in Seq(Pieces(W)) /\ Len(all) = m + n
      /\ (\A i \in 1 .. m : all[i] = ps[i]) /\ (\A i \in 1 .. n : all[m + i] = qs[i])
  BY JoinIs DEF Tiles
<1>4. /\ e[0] = lo /\ e[m] = mid /\ f[0] = mid /\ f[n] = hi
      /\ (\A k \in 0 .. m : e[k] \in Nat) /\ (\A k \in 0 .. n : f[k] \in Nat)
  BY <1>1, <1>2 DEF TilesAt
<1> HIDE DEF all, m, n
<1>5. /\ \A k \in 0 .. m : g[k] = e[k]
      /\ \A k \in 0 .. n : g[m + k] = f[k]
  <2>1. \A k \in 0 .. m : k \in 0 .. m + n /\ k <= m
    BY <1>3
  <2>2. ASSUME NEW k \in 0 .. n PROVE g[m + k] = f[k]
    <3>1. m + k \in 0 .. m + n /\ (m + k) - m = k /\ (m + k <= m => k = 0)
      BY <1>3
    <3>2. g[m + k] = IF m + k <= m THEN e[m + k] ELSE f[(m + k) - m]
      BY <3>1
    <3>3. CASE k = 0
      <4>1. m + k = m
        BY <1>3, <3>3
      <4> QED BY <1>3, <1>4, <3>2, <3>3, <4>1
    <3>4. CASE k # 0
      BY <3>1, <3>2, <3>4
    <3> QED BY <3>3, <3>4
  <2> QED BY <2>1, <2>2
<1> HIDE DEF g
<1>6. \A k \in 1 .. m + n : k \in 1 .. m \/ \E j \in 1 .. n : k = m + j
  <2> TAKE k \in 1 .. m + n
  <2>1. CASE k <= m
    BY <1>3, <2>1
  <2>2. CASE k > m
    <3>1. k - m \in 1 .. n /\ k = m + (k - m)
      BY <1>3, <2>2
    <3> QED BY <3>1
  <2> QED BY <1>3, <2>1, <2>2
<1>7. \A k \in 0 .. m + n : g[k] \in Nat
  <2> TAKE k \in 0 .. m + n
  <2>1. CASE k = 0
    BY <1>3, <1>4, <1>5, <2>1
  <2>2. CASE k # 0
    <3>1. k \in 1 .. m + n
      BY <2>2
    <3>2. CASE k \in 1 .. m
      BY <1>3, <1>4, <1>5, <3>2
    <3>3. CASE \E j \in 1 .. n : k = m + j
      <4>1. PICK j \in 1 .. n : k = m + j
        BY <3>3
      <4>2. j \in 0 .. n
        BY <1>3
      <4> QED BY <1>4, <1>5, <4>1, <4>2
    <3> QED BY <1>6, <3>1, <3>2, <3>3
  <2> QED BY <2>1, <2>2
<1>8. g[0] = lo /\ g[m + n] = hi
  <2>1. 0 \in 0 .. m /\ n \in 0 .. n
    BY <1>3
  <2> QED BY <1>4, <1>5, <2>1
<1> DEFINE Fits(p, a, z) == /\ p.abs = a /\ z = a + Len(p.rows)
                            /\ \A q \in 1 .. Len(p.rows) : RowHas(rs, W, a + q - 1, p.rows[q])
<1>9. (\A k \in 1 .. m : Fits(ps[k], e[k - 1], e[k])) /\ (\A k \in 1 .. n : Fits(qs[k], f[k - 1], f[k]))
  BY <1>1, <1>2 DEF TilesAt, m, n
<1>10. \A k \in 1 .. m + n : Fits(all[k], g[k - 1], g[k])
  <2> HIDE DEF Fits
  <2> TAKE k \in 1 .. m + n
  <2>1. CASE k \in 1 .. m
    <3>1. k - 1 \in 0 .. m /\ k \in 0 .. m
      BY <1>3, <2>1
    <3>2. all[k] = ps[k] /\ g[k - 1] = e[k - 1] /\ g[k] = e[k]
      BY <1>3, <1>5, <2>1, <3>1
    <3> QED BY <1>9, <2>1, <3>2
  <2>2. CASE \E j \in 1 .. n : k = m + j
    <3>1. PICK j \in 1 .. n : k = m + j
      BY <2>2
    <3>2. j - 1 \in 0 .. n /\ j \in 0 .. n /\ k - 1 = m + (j - 1)
      BY <1>3, <3>1
    <3>3. all[k] = qs[j] /\ g[k - 1] = f[j - 1] /\ g[k] = f[j]
      BY <1>3, <1>5, <3>1, <3>2
    <3> QED BY <1>9, <3>3
  <2> QED BY <1>6, <2>1, <2>2
<1>11. TilesAt(rs, W, all, lo, hi, g)
  BY <1>3, <1>7, <1>8, <1>10 DEF TilesAt
<1> QED BY <1>3, <1>11 DEF Tiles, all

\* Tiles behind tiles, any number of times.
AllTiles(rs, W, ss, E) == \A k \in 1 .. Len(ss) : Tiles(rs, W, ss[k], E[k - 1], E[k])
\* Sequences that tile adjacent intervals tile, one behind the other, the whole.
LEMMA TilesFlatten ==
  ASSUME NEW rs, NEW W, NEW ss, Len(ss) \in Nat, Len(ss) = 0 => ss = <<>>,
         NEW E, E[0] \in Nat, AllTiles(rs, W, ss, E)
  PROVE  Tiles(rs, W, FlattenSeq(ss), E[0], E[Len(ss)])
<1> DEFINE n == Len(ss)
           F == T!Flattened(ss, n)
<1>1. CASE n = 0
  <2>1. FlattenSeq(ss) = <<>>
    BY <1>1 DEF FlattenSeq
  <2> QED BY <1>1, <2>1, NoTiles
<1>2. CASE n # 0
  <2>1. n \in Nat \ {0}
    BY <1>2
  <2>2. F[1] = ss[1] /\ \A i \in 1 .. (n - 1) : F[i + 1] = F[i] \o ss[i + 1]
    BY <2>1, T!FlattenedIs
  <2>3. FlattenSeq(ss) = F[n]
    BY <2>1, FlattenSeqIs
  <2>4. \A k \in 1 .. n : Tiles(rs, W, ss[k], E[k - 1], E[k])
    BY DEF AllTiles
  <2> HIDE DEF F, n
  <2> DEFINE S == {k \in 0 .. n : k # 0 => Tiles(rs, W, F[k], E[0], E[k])}
  <2>5. 0 \in S
    BY <2>1
  <2>6. ASSUME NEW k \in 1 .. n, k - 1 \in S PROVE k \in S
    <3>1. CASE k = 1
      <4>1. 1 \in 1 .. n /\ 1 - 1 = 0
        BY <2>1
      <4>2. Tiles(rs, W, F[1], E[0], E[1])
        BY <2>2, <2>4, <4>1
      <4> QED BY <2>1, <3>1, <4>2
    <3>2. CASE k # 1
      <4> DEFINE j == k - 1
      <4>1. j \in 1 .. (n - 1) /\ j + 1 = k /\ j # 0
        BY <2>1, <3>2
      <4>2. Tiles(rs, W, F[j], E[0], E[j]) /\ F[k] = F[j] \o ss[k]
        BY <2>2, <2>6, <4>1
      <4>3. Tiles(rs, W, ss[k], E[j], E[k])
        BY <2>4
      <4> HIDE DEF j
      <4>4. Tiles(rs, W, F[k], E[0], E[k])
        BY <4>2, <4>3, TilesJoin
      <4> QED BY <2>1, <4>4
    <3> QED BY <3>1, <3>2
  <2> HIDE DEF S
  <2>7. 0 .. n \subseteq S
    BY <2>1, <2>5, <2>6, UpTo
  <2>8. n \in S /\ n # 0
    BY <2>1, <2>7
  <2>9. Tiles(rs, W, F[n], E[0], E[n])
    BY <2>8 DEF S
  <2> QED BY <2>3, <2>9 DEF n
<1> QED BY <1>1, <1>2

---------------------------------------------------------------------------
(* A phase of the stream.                                                   *)

\* Between two ends there is a step over every number.
LEMMA StepOver ==
  ASSUME NEW n \in Nat, NEW f, \A k \in 0 .. n : f[k] \in Nat, NEW x \in Nat, f[0] <= x, x < f[n]
  PROVE  \E k \in 1 .. n : f[k - 1] <= x /\ x < f[k]
<1>1. SUFFICES ASSUME \A k \in 1 .. n : ~(f[k - 1] <= x /\ x < f[k]) PROVE FALSE
  OBVIOUS
<1> DEFINE S == {k \in 0 .. n : f[k] <= x}
<1>2. 0 \in S
  OBVIOUS
<1>3. ASSUME NEW k \in 1 .. n, k - 1 \in S PROVE k \in S
  <2>1. f[k - 1] <= x /\ k \in 0 .. n /\ f[k] \in Nat
    BY <1>3
  <2> QED BY <1>1, <2>1
<1> HIDE DEF S
<1>4. 0 .. n \subseteq S
  BY <1>2, <1>3, UpTo
<1>5. n \in S /\ f[n] \in Nat
  BY <1>4
<1> QED BY <1>5 DEF S

\* The rows of the variables of a phase, one behind the other.
RowsOfVar(v) == [k \in 1 .. n_rows(v) |-> <<v.name, k - 1>>]
PhaseRows(vs) == FlattenSeq([n \in DOMAIN vs |-> RowsOfVar(vs[n])])
RowNames(W) == {v.name : v \in W} \X Nat

\* Variables that adjoin in the layout have their rows at consecutive places.
LEMMA PhaseRowsAre ==
  ASSUME NEW W, \A v \in W : n_rows(v) \in Nat, NEW vs \in Seq(W), vs # <<>>,
         NEW rs, NEW lo, NEW hi, Adjoin(rs, vs, lo, hi)
  PROVE  /\ PhaseRows(vs) \in Seq(RowNames(W)) /\ lo \in Nat /\ hi = lo + Len(PhaseRows(vs))
         /\ \A j \in 1 .. Len(PhaseRows(vs)) : RowHas(rs, W, lo + j - 1, PhaseRows(vs)[j])
<1> DEFINE L == Len(vs)
           ss == [n \in DOMAIN vs |-> RowsOfVar(vs[n])]
           R == PhaseRows(vs)
           X == RowNames(W)
<1>1. L \in Nat /\ L # 0 /\ DOMAIN vs = 1 .. L /\ \A i \in 1 .. L : vs[i] \in W /\ n_rows(vs[i]) \in Nat
  OBVIOUS
<1>2. \A v \in W : /\ RowsOfVar(v) \in Seq(X) /\ Len(RowsOfVar(v)) = n_rows(v)
                   /\ \A k \in 1 .. n_rows(v) : RowsOfVar(v)[k] = <<v.name, k - 1>>
  <2> TAKE v \in W
  <2>1. n_rows(v) \in Nat
    OBVIOUS
  <2>2. \A k \in 1 .. n_rows(v) : <<v.name, k - 1>> \in X
    BY <2>1 DEF RowNames
  <2> DEFINE m == n_rows(v)
             r == [k \in 1 .. m |-> <<v.name, k - 1>>]
  <2>3. r = RowsOfVar(v)
    BY DEF RowsOfVar
  <2> HIDE DEF X, m
  <2>4. m \in Nat /\ \A k \in 1 .. m : r[k] = <<v.name, k - 1>> /\ r[k] \in X
    BY <2>1, <2>2 DEF m
  <2>5. DOMAIN r = 1 .. m
    OBVIOUS
  <2> HIDE DEF r
  <2>6. r = [k \in 1 .. m |-> r[k]]
    BY <2>5 DEF r
  <2>7. r \in Seq(X) /\ Len(r) = m
    BY <2>4, <2>6
  <2> QED BY <2>3, <2>4, <2>7 DEF m
<1>3. ss \in Seq(Seq(X)) /\ Len(ss) = L /\ \A i \in 1 .. L : ss[i] = RowsOfVar(vs[i])
  BY <1>1, <1>2
<1>4. R = FlattenSeq(ss)
  BY DEF PhaseRows
<1> HIDE DEF ss, R, X, L
<1>5. R \in Seq(X) /\ CutUp(ss, R)
  BY <1>1, <1>3, <1>4, PiecesAre
<1> DEFINE f == [k \in 0 .. L |-> Came(ss, k)]
<1>6. /\ f[0] = 0 /\ f[L] = Len(R) /\ Len(R) \in Nat
      /\ \A i \in 1 .. L : /\ f[i - 1] \in Nat /\ f[i] = f[i - 1] + n_rows(vs[i])
                           /\ \A k \in 1 .. n_rows(vs[i]) : R[f[i - 1] + k] = <<vs[i].name, k - 1>>
  <2>1. \A k \in 0 .. L : f[k] = Came(ss, k)
    OBVIOUS
  <2>2. 0 \in 0 .. L /\ L \in 0 .. L /\ \A i \in 1 .. L : i \in 0 .. L /\ i - 1 \in 0 .. L
    BY <1>1
  <2> HIDE DEF f
  <2>3. f[0] = 0 /\ f[L] = Len(R) /\ Len(R) \in Nat
    BY <1>3, <1>5, <2>1, <2>2 DEF CutUp
  <2>4. ASSUME NEW i \in 1 .. L
        PROVE  /\ f[i - 1] \in Nat /\ f[i] = f[i - 1] + n_rows(vs[i])
               /\ \A k \in 1 .. n_rows(vs[i]) : R[f[i - 1] + k] = <<vs[i].name, k - 1>>
    <3>1. /\ ss[i] = RowsOfVar(vs[i]) /\ Len(ss[i]) = n_rows(vs[i])
          /\ \A k \in 1 .. n_rows(vs[i]) : ss[i][k] = <<vs[i].name, k - 1>>
      BY <1>1, <1>2, <1>3
    <3>2. Came(ss, i - 1) \in Nat /\ Follows(R, Came(ss, i - 1), ss[i]) /\ Came(ss, i) = Came(ss, i - 1) + Len(ss[i])
      BY <1>3, <1>5 DEF CutUp
    <3> QED BY <2>1, <2>2, <3>1, <3>2 DEF Follows
  <2> QED BY <2>3, <2>4
<1> HIDE DEF f
<1>7. PICK e : EdgesAt(rs, vs, lo, hi, e)
  BY DEF Adjoin
<1>8. /\ e[0] = lo /\ e[L] = hi /\ \A k \in 0 .. L : e[k] \in Nat
      /\ \A k \in 1 .. L : rs[vs[k].name] = e[k - 1] /\ e[k] = e[k - 1] + n_rows(vs[k])
  BY <1>7 DEF EdgesAt, L
<1>9. \A k \in 0 .. L : f[k] \in Nat /\ e[k] = lo + f[k]
  <2> DEFINE S == {k \in 0 .. L : f[k] \in Nat /\ e[k] = lo + f[k]}
  <2>1. 0 \in S
    BY <1>1, <1>6, <1>8
  <2>2. ASSUME NEW k \in 1 .. L, k - 1 \in S PROVE k \in S
    <3>1. f[k - 1] \in Nat /\ e[k - 1] = lo + f[k - 1]
      BY ONLY <2>2
    <3>2. f[k] = f[k - 1] + n_rows(vs[k])
      BY <1>6
    <3>3. e[k] = e[k - 1] + n_rows(vs[k])
      BY <1>8
    <3>4. n_rows(vs[k]) \in Nat /\ lo \in Nat /\ k \in 0 .. L
      BY <1>1, <1>8
    <3> QED BY <3>1, <3>2, <3>3, <3>4
  <2> HIDE DEF S
  <2>3. 0 .. L \subseteq S
    BY <1>1, <2>1, <2>2, UpTo
  <2> QED BY <2>3 DEF S
<1>10. lo \in Nat /\ hi = lo + Len(R)
  BY <1>1, <1>6, <1>8, <1>9
<1>11. ASSUME NEW j \in 1 .. Len(R) PROVE RowHas(rs, W, lo + j - 1, R[j])
  <2> DEFINE x == j - 1
  <2>1. x \in Nat /\ f[0] <= x /\ x < f[L]
    BY <1>6
  <2>2. PICK i \in 1 .. L : f[i - 1] <= x /\ x < f[i]
    BY <1>1, <1>9, <2>1, StepOver
  <2> DEFINE q == x - f[i - 1]
  <2>3. f[i - 1] \in Nat /\ f[i] = f[i - 1] + n_rows(vs[i]) /\ n_rows(vs[i]) \in Nat
    BY <1>1, <1>6
  <2>4. q \in 0 .. n_rows(vs[i]) - 1 /\ q + 1 \in 1 .. n_rows(vs[i]) /\ f[i - 1] + (q + 1) = j
    BY <2>1, <2>2, <2>3
  <2> HIDE DEF q, x
  <2>5. R[j] = <<vs[i].name, (q + 1) - 1>> /\ (q + 1) - 1 = q
    <3>1. R[f[i - 1] + (q + 1)] = <<vs[i].name, (q + 1) - 1>>
      BY <1>6, <2>4
    <3>2. q \in Int
      BY <2>3, <2>4
    <3> QED BY <2>4, <3>1, <3>2
  <2>6. rs[vs[i].name] = lo + f[i - 1]
    <3>1. i - 1 \in 0 .. L
      BY <1>1
    <3> QED BY <1>8, <1>9, <3>1
  <2>7. lo + j - 1 = rs[vs[i].name] + q
    <3> DEFINE a == f[i - 1]
               m == n_rows(vs[i])
               z == rs[vs[i].name]
    <3>1. lo \in Nat /\ a \in Nat /\ m \in Nat /\ q \in 0 .. m - 1 /\ a + (q + 1) = j /\ z = lo + a
      BY <1>10, <2>3, <2>4, <2>6
    <3> HIDE DEF a, m, z
    <3>2. lo + j - 1 = z + q
      BY <3>1
    <3> QED BY <3>2 DEF z
  <2>8. vs[i] \in W
    BY <1>1
  <2> QED BY <2>4, <2>5, <2>7, <2>8 DEF RowHas
<1> QED BY <1>5, <1>10, <1>11 DEF R, X

\* Where the parts of size c of lo .. hi begin and end.
Mark(lo, hi, c, i) == IF lo + i * c < hi THEN lo + i * c ELSE hi
MarksOK(lo, hi, c, n) ==
  /\ n \in Nat /\ Mark(lo, hi, c, 0) = lo /\ Mark(lo, hi, c, n) = hi
  /\ \A i \in 1 .. n :
       /\ Mark(lo, hi, c, i - 1) = lo + (i - 1) * c /\ Mark(lo, hi, c, i - 1) \in Nat /\ Mark(lo, hi, c, i) \in Nat
       /\ Mark(lo, hi, c, i - 1) <= Mark(lo, hi, c, i) /\ Mark(lo, hi, c, i) <= hi
\* The ends of the chunks: they start at lo, end at hi and never step back.
LEMMA MarksAre ==
  ASSUME NEW lo \in Nat, NEW hi \in Nat, lo <= hi, NEW c \in Nat, c > 0
  PROVE  MarksOK(lo, hi, c, CeilDiv(hi - lo, c))
<1> DEFINE n == CeilDiv(hi - lo, c)
           m == hi - lo + c - 1
           r == m % c
<1>1. m \in Nat
  OBVIOUS
<1>2. n = m \div c
  BY DEF CeilDiv
<1>3. n \in Nat /\ r \in Nat /\ r < c /\ m = c * n + r
  <2> HIDE DEF m, n
  <2>1. m \div c \in Nat /\ m % c \in Nat /\ m % c < c /\ m = c * (m \div c) + (m % c)
    BY <1>1
  <2> QED BY <1>2, <2>1
<1> HIDE DEF n, r
<1>4. c * n \in Nat /\ hi - lo <= c * n /\ c * n < hi - lo + c
  BY <1>3
<1>5. n * c = c * n /\ 0 * c = 0
  BY <1>3
<1>6. Mark(lo, hi, c, 0) = lo /\ Mark(lo, hi, c, n) = hi
  BY <1>3, <1>4, <1>5 DEF Mark
<1>7. ASSUME NEW i \in 1 .. n
      PROVE  /\ Mark(lo, hi, c, i - 1) = lo + (i - 1) * c /\ Mark(lo, hi, c, i - 1) \in Nat /\ Mark(lo, hi, c, i) \in Nat
             /\ Mark(lo, hi, c, i - 1) <= Mark(lo, hi, c, i) /\ Mark(lo, hi, c, i) <= hi
  <2> DEFINE a == (i - 1) * c
  <2>1. a \in Nat /\ i * c = a + c /\ i * c \in Nat
    BY <1>3
  <2>2. a + c <= c * n
    <3>1. n - i \in Nat /\ c * n = c * (i - 1) + c + c * (n - i) /\ c * (n - i) \in Nat /\ c * (i - 1) = a
      BY <1>3
    <3> QED BY <2>1, <3>1
  <2> HIDE DEF a
  <2>3. lo + a < hi
    BY <1>4, <2>1, <2>2
  <2>4. Mark(lo, hi, c, i - 1) = IF lo + a < hi THEN lo + a ELSE hi
    BY DEF Mark, a
  <2>5. Mark(lo, hi, c, i) = IF lo + (a + c) < hi THEN lo + (a + c) ELSE hi
    BY <2>1 DEF Mark
  <2>6. Mark(lo, hi, c, i - 1) = lo + a
    BY <2>3, <2>4
  <2>7. /\ lo + a \in Nat /\ Mark(lo, hi, c, i) \in Nat /\ lo + a <= Mark(lo, hi, c, i) /\ Mark(lo, hi, c, i) <= hi
    BY <2>1, <2>3, <2>5
  <2> QED BY <2>6, <2>7 DEF a
<1> QED BY <1>3, <1>6, <1>7 DEF MarksOK, n

\* One piece of a phase, and the pieces of one chunk.
Capped(x, end) == IF x < end THEN x ELSE end
PieceOf(R, at, a, b) == [abs |-> at + a, rows |-> SubSeq(R, a + 1, b)]
InnerOf(R, at, c, a, b) ==
  [i \in 1 .. CeilDiv(b - a, c) |-> PieceOf(R, at, a + (i - 1) * c, Capped(a + i * c, b))]

\* The rows R lie from row lo on.
LiesAt(rs, W, R, lo) ==
  R \in Seq(RowNames(W)) /\ \A j \in 1 .. Len(R) : RowHas(rs, W, lo + j - 1, R[j])

\* The piece p brings the rows from a to z.
Brings(rs, W, p, a, z) ==
  /\ p \in Pieces(W) /\ p.abs = a /\ z = a + Len(p.rows)
  /\ \A q \in 1 .. Len(p.rows) : RowHas(rs, W, a + q - 1, p.rows[q])
\* The piece of the rows from a to b brings those rows.
LEMMA PieceFits ==
  ASSUME NEW rs, NEW W, NEW R, NEW lo \in Nat, LiesAt(rs, W, R, lo), NEW a \in Nat, NEW b \in Nat, a <= b, b <= Len(R),
         NEW p, p = PieceOf(R, lo, a, b)
  PROVE  Brings(rs, W, p, lo + a, lo + b)
<1> DEFINE t == SubSeq(R, a + 1, b)
           V == RowNames(W)
<1>1. R \in Seq(V) /\ Len(R) \in Nat
  BY DEF LiesAt
<1>2. p.abs = lo + a /\ p.rows = t /\ p = [abs |-> lo + a, rows |-> t]
  BY DEF PieceOf
<1> HIDE DEF t, V
<1>3. t \in Seq(V) /\ Len(t) = b - a /\ \A i \in 1 .. b - a : t[i] = R[a + i]
  BY <1>1, Cut DEF t
<1>4. p \in Pieces(W)
  <2>1. lo + a \in Nat
    OBVIOUS
  <2> QED BY <1>2, <1>3, <2>1 DEF Pieces, V, RowNames
<1>5. ASSUME NEW q \in 1 .. b - a PROVE RowHas(rs, W, (lo + a) + q - 1, t[q])
  <2>1. a + q \in 1 .. Len(R) /\ lo + (a + q) - 1 = (lo + a) + q - 1
    BY <1>1
  <2>2. RowHas(rs, W, lo + (a + q) - 1, R[a + q])
    BY <2>1 DEF LiesAt
  <2> QED BY <1>3, <2>1, <2>2
<1> QED BY <1>2, <1>3, <1>4, <1>5 DEF Brings

\* The inner chunks of an interval tile it, whatever its length and theirs.
LEMMA InnerTiles ==
  ASSUME NEW rs, NEW W, NEW R, NEW lo \in Nat, LiesAt(rs, W, R, lo), NEW a \in Nat, NEW b \in Nat, a <= b, b <= Len(R),
         NEW c \in Nat, c > 0
  PROVE  Tiles(rs, W, InnerOf(R, lo, c, a, b), lo + a, lo + b)
<1> DEFINE n == CeilDiv(b - a, c)
           ps == InnerOf(R, lo, c, a, b)
           e == [k \in 0 .. n |-> lo + Mark(a, b, c, k)]
<1>1. /\ n \in Nat /\ Mark(a, b, c, 0) = a /\ Mark(a, b, c, n) = b
      /\ \A i \in 1 .. n :
           /\ Mark(a, b, c, i - 1) = a + (i - 1) * c /\ Mark(a, b, c, i - 1) \in Nat /\ Mark(a, b, c, i) \in Nat
           /\ Mark(a, b, c, i - 1) <= Mark(a, b, c, i) /\ Mark(a, b, c, i) <= b
  BY MarksAre DEF MarksOK
<1>2. ps = [i \in 1 .. n |-> PieceOf(R, lo, a + (i - 1) * c, Capped(a + i * c, b))]
  BY DEF InnerOf
<1> HIDE DEF n, ps
<1>3. \A i \in 1 .. n : ps[i] = PieceOf(R, lo, Mark(a, b, c, i - 1), Mark(a, b, c, i))
  <2> TAKE i \in 1 .. n
  <2>1. Capped(a + i * c, b) = Mark(a, b, c, i)
    BY DEF Capped, Mark
  <2>2. ps[i] = PieceOf(R, lo, a + (i - 1) * c, Capped(a + i * c, b))
    BY <1>2
  <2> QED BY <1>1, <2>1, <2>2
<1>4. ASSUME NEW i \in 1 .. n
      PROVE  Brings(rs, W, ps[i], lo + Mark(a, b, c, i - 1), lo + Mark(a, b, c, i))
  <2> DEFINE p == ps[i]
             f == Mark(a, b, c, i - 1)
             t == Mark(a, b, c, i)
  <2>1. p = PieceOf(R, lo, f, t) /\ f \in Nat /\ t \in Nat /\ f <= t /\ t <= b
    BY <1>1, <1>3
  <2> HIDE DEF p, f, t
  <2>2. t <= Len(R)
    <3>1. Len(R) \in Nat
      BY DEF LiesAt
    <3> QED BY <2>1, <3>1
  <2>3. Brings(rs, W, p, lo + f, lo + t)
    BY <2>1, <2>2, PieceFits
  <2> QED BY <2>3 DEF p, f, t
<1>5. \A k \in 0 .. n : e[k] = lo + Mark(a, b, c, k)
  OBVIOUS
<1> HIDE DEF e
<1>6. \A k \in 0 .. n : e[k] \in Nat
  <2> TAKE k \in 0 .. n
  <2>1. CASE k = 0
    BY <1>1, <1>5, <2>1
  <2>2. CASE k # 0
    <3>1. k \in 1 .. n
      BY <2>2
    <3> QED BY <1>1, <1>5, <3>1
  <2> QED BY <2>1, <2>2
<1>7. ps \in Seq(Pieces(W)) /\ Len(ps) = n
  <2>1. \A i \in 1 .. n : ps[i] \in Pieces(W)
    BY <1>4 DEF Brings
  <2>2. ps = [i \in 1 .. n |-> ps[i]]
    BY <1>2
  <2> QED BY <1>1, <2>1, <2>2
<1>8. ASSUME NEW k \in 1 .. n
      PROVE  /\ ps[k].abs = e[k - 1] /\ e[k] = e[k - 1] + Len(ps[k].rows)
             /\ \A q \in 1 .. Len(ps[k].rows) : RowHas(rs, W, e[k - 1] + q - 1, ps[k].rows[q])
  <2>1. k \in 0 .. n /\ k - 1 \in 0 .. n
    BY <1>1
  <2>2. e[k] = lo + Mark(a, b, c, k) /\ e[k - 1] = lo + Mark(a, b, c, k - 1)
    BY <1>5, <2>1
  <2> QED BY <1>4, <2>2 DEF Brings
<1>9. e[0] = lo + a /\ e[n] = lo + b
  BY <1>1, <1>5
<1>10. TilesAt(rs, W, ps, lo + a, lo + b, e)
  BY <1>6, <1>7, <1>8, <1>9 DEF TilesAt
<1> QED BY <1>7, <1>10 DEF Tiles, ps

\* A phase brings the rows of its variables, first to last.
LEMMA PhaseTiles ==
  ASSUME NEW W, \A v \in W : n_rows(v) \in Nat, NEW vs \in Seq(W), vs # <<>>,
         NEW lo, NEW hi, Adjoin(row_start, vs, lo, hi), cut[1] \in Nat \ {0}, cut[2] \in Nat \ {0}
  PROVE  Tiles(row_start, W, _stream_phase(vs), lo, hi)
<1> DEFINE R == PhaseRows(vs)
           L == Len(R)
           C == cut[1]
           c == cut[2]
           n == CeilDiv(L, C)
           ss == [k \in 1 .. n |-> InnerOf(R, lo, c, (k - 1) * C, Capped(k * C, L))]
           E == [k \in 0 .. n |-> lo + Mark(0, L, C, k)]
<1>1. row_start[vs[1].name] = lo
  <2>1. PICK e : EdgesAt(row_start, vs, lo, hi, e)
    BY DEF Adjoin
  <2>2. 1 \in 1 .. Len(vs) /\ 1 - 1 = 0
    OBVIOUS
  <2> QED BY <2>1, <2>2 DEF EdgesAt
<1>2. _stream_phase(vs) = FlattenSeq(ss)
  BY <1>1 DEF _stream_phase, PhaseRows, RowsOfVar, InnerOf, PieceOf, Capped
<1>3. R \in Seq(RowNames(W)) /\ lo \in Nat /\ hi = lo + L /\ LiesAt(row_start, W, R, lo)
  BY PhaseRowsAre DEF LiesAt
<1>4. L \in Nat /\ C \in Nat /\ C > 0 /\ c \in Nat /\ c > 0 /\ L - 0 = L /\ 0 <= L
  BY <1>3
<1> HIDE DEF R, L, C, c
<1>5. /\ n \in Nat /\ Mark(0, L, C, 0) = 0 /\ Mark(0, L, C, n) = L
      /\ \A i \in 1 .. n :
           /\ Mark(0, L, C, i - 1) = 0 + (i - 1) * C /\ Mark(0, L, C, i - 1) \in Nat /\ Mark(0, L, C, i) \in Nat
           /\ Mark(0, L, C, i - 1) <= Mark(0, L, C, i) /\ Mark(0, L, C, i) <= L
  <2>1. 0 \in Nat /\ MarksOK(0, L, C, CeilDiv(L - 0, C))
    BY <1>4, MarksAre
  <2> QED BY <1>4, <2>1 DEF MarksOK
<1> HIDE DEF n
<1>6. Len(ss) = n /\ (n = 0 => ss = <<>>) /\ \A k \in 1 .. n : ss[k] = InnerOf(R, lo, c, (k - 1) * C, Capped(k * C, L))
  BY <1>5
<1>7. \A k \in 0 .. n : E[k] = lo + Mark(0, L, C, k)
  OBVIOUS
<1> HIDE DEF ss, E
<1>8. ASSUME NEW k \in 1 .. n PROVE Tiles(row_start, W, ss[k], E[k - 1], E[k])
  <2> DEFINE a == (k - 1) * C
             b == Capped(k * C, L)
  <2>1. Mark(0, L, C, k) = b
    <3>1. 0 + k * C = k * C
      BY <1>4, <1>5
    <3> QED BY <3>1 DEF Mark, Capped
  <2>2. a = Mark(0, L, C, k - 1) /\ a \in Nat /\ b \in Nat /\ a <= b /\ b <= L
    <3>1. a \in Nat /\ 0 + a = a
      BY <1>4, <1>5
    <3> QED BY <1>5, <2>1, <3>1
  <2>3. ss[k] = InnerOf(R, lo, c, a, b)
    BY <1>6
  <2>4. k - 1 \in 0 .. n /\ k \in 0 .. n
    BY <1>5
  <2>5. E[k - 1] = lo + a /\ E[k] = lo + b
    BY <1>7, <2>1, <2>2, <2>4
  <2> HIDE DEF a, b
  <2>6. b <= Len(R)
    BY <2>2 DEF L
  <2>7. Tiles(row_start, W, InnerOf(R, lo, c, a, b), lo + a, lo + b)
    BY <1>3, <1>4, <2>2, <2>6, InnerTiles
  <2> QED BY <2>3, <2>5, <2>7
<1>9. AllTiles(row_start, W, ss, E) /\ E[0] = lo /\ E[n] = hi
  <2>1. 0 \in 0 .. n /\ n \in 0 .. n
    BY <1>5
  <2>2. E[0] = lo + 0 /\ E[n] = lo + L
    BY <1>5, <1>7, <2>1
  <2>3. AllTiles(row_start, W, ss, E)
    BY <1>6, <1>8 DEF AllTiles
  <2> QED BY <1>3, <2>2, <2>3
<1>10. Tiles(row_start, W, FlattenSeq(ss), E[0], E[Len(ss)])
  <2>1. Len(ss) \in Nat /\ (Len(ss) = 0 => ss = <<>>) /\ E[0] \in Nat
    BY <1>3, <1>5, <1>6, <1>9
  <2> QED BY <1>9, <2>1, TilesFlatten
<1> QED BY <1>2, <1>6, <1>9, <1>10 DEF ss

---------------------------------------------------------------------------
(* What goes to a block.                                                    *)

RunsTo(vs) ==
  LET runs[n \in 0 .. Len(vs)] ==
        IF n = 0 THEN <<>>
        ELSE IF n > 1 /\ row_start[vs[n].name] = row_start[vs[n - 1].name] + n_rows(vs[n - 1])
             THEN [runs[n - 1] EXCEPT ![Len(runs[n - 1])] = Append(@, vs[n])]
             ELSE Append(runs[n - 1], <<vs[n]>>)
  IN  runs

\* Variables that adjoin are one run.
LEMMA OneRun ==
  ASSUME NEW W, NEW vs \in Seq(W), vs # <<>>, NEW lo, NEW hi, Adjoin(row_start, vs, lo, hi)
  PROVE  _row_contiguous_runs(vs) = <<vs>>
<1> DEFINE L == Len(vs)
           Body(g, n) == IF n = 0 THEN <<>>
                         ELSE IF n > 1 /\ row_start[vs[n].name] = row_start[vs[n - 1].name] + n_rows(vs[n - 1])
                              THEN [g[n - 1] EXCEPT ![Len(g[n - 1])] = Append(@, vs[n])]
                              ELSE Append(g[n - 1], <<vs[n]>>)
           Rec(g) == g = [n \in 0 .. L |-> Body(g, n)]
           w == [n \in 0 .. L |-> IF n = 0 THEN <<>> ELSE <<SubSeq(vs, 1, n)>>]
           f == RunsTo(vs)
<1>1. L \in Nat /\ L > 0 /\ \A n \in 1 .. L : vs[n] \in W
  OBVIOUS
<1>2. \A n \in 1 .. L : n > 1 => row_start[vs[n].name] = row_start[vs[n - 1].name] + n_rows(vs[n - 1])
  <2>1. PICK e : EdgesAt(row_start, vs, lo, hi, e)
    BY DEF Adjoin
  <2>2. \A k \in 1 .. L : row_start[vs[k].name] = e[k - 1] /\ e[k] = e[k - 1] + n_rows(vs[k])
    BY <2>1 DEF EdgesAt
  <2> TAKE n \in 1 .. L
  <2> HAVE n > 1
  <2>3. n - 1 \in 1 .. L
    BY <1>1
  <2> QED BY <2>2, <2>3
<1>3. w[0] = <<>> /\ \A n \in 1 .. L : w[n] = <<SubSeq(vs, 1, n)>>
  <2>1. 0 \in 0 .. L /\ \A n \in 1 .. L : n \in 0 .. L /\ n # 0
    BY <1>1
  <2> QED BY <2>1
<1>4. ASSUME NEW n \in 1 .. L PROVE w[n] = Body(w, n)
  <2>1. CASE n = 1
    <3>1. w[n - 1] = <<>> /\ w[n] = <<SubSeq(vs, 1, 1)>> /\ ~(n > 1) /\ n # 0
      BY <1>3, <2>1
    <3>2. SubSeq(vs, 1, 1) = <<vs[1]>>
      <4> DEFINE t == SubSeq(vs, 0 + 1, 1)
      <4>1. t \in Seq(W) /\ Len(t) = 1 - 0 /\ \A i \in 1 .. 1 - 0 : t[i] = vs[0 + i]
        BY <1>1, Cut
      <4>2. t = SubSeq(vs, 1, 1)
        OBVIOUS
      <4> HIDE DEF t
      <4>3. t = <<vs[1]>>
        BY <4>1
      <4> QED BY <4>2, <4>3
    <3> HIDE DEF w
    <3>3. Body(w, n) = Append(<<>>, <<vs[1]>>)
      BY <2>1, <3>1
    <3>4. Append(<<>>, <<vs[1]>>) = <<<<vs[1]>>>>
      OBVIOUS
    <3> QED BY <3>1, <3>2, <3>3, <3>4
  <2>2. CASE n # 1
    <3> DEFINE m == n - 1
               s == SubSeq(vs, 1, m)
               t == SubSeq(vs, 1, n)
    <3>1. m \in 1 .. L /\ n > 1 /\ n # 0 /\ m \in Nat /\ n = m + 1
      BY <1>1, <2>2
    <3>2. t = Append(s, vs[n])
      <4>1. s \in Seq(W) /\ Len(s) = m /\ \A i \in 1 .. m : s[i] = vs[i]
        BY <1>1, <3>1
      <4>2. t \in Seq(W) /\ Len(t) = n /\ \A i \in 1 .. n : t[i] = vs[i]
        BY <1>1, <3>1
      <4> HIDE DEF s, t, m
      <4>3. Append(s, vs[n]) \in Seq(W) /\ Len(Append(s, vs[n])) = m + 1 /\ Append(s, vs[n])[m + 1] = vs[n]
            /\ \A i \in 1 .. m : Append(s, vs[n])[i] = s[i]
        BY <1>1, <4>1
      <4> QED BY <3>1, <4>1, <4>2, <4>3
    <3>3. w[m] = <<s>> /\ w[n] = <<t>>
      BY <1>3, <3>1
    <3> HIDE DEF w, s, t
    <3>4. Body(w, n) = [w[n - 1] EXCEPT ![Len(w[n - 1])] = Append(@, vs[n])]
      BY <1>2, <3>1
    <3>5. [<<s>> EXCEPT ![Len(<<s>>)] = Append(@, vs[n])] = <<Append(s, vs[n])>>
      <4>1. Len(<<s>>) = 1
        OBVIOUS
      <4>2. [<<s>> EXCEPT ![1] = Append(@, vs[n])] = <<Append(s, vs[n])>>
        OBVIOUS
      <4> QED BY <4>1, <4>2
    <3>6. w[n - 1] = <<s>>
      BY <3>3
    <3> HIDE DEF Body, m
    <3> QED BY <3>2, <3>3, <3>4, <3>5, <3>6
  <2> QED BY <2>1, <2>2
<1>5. w[0] = Body(w, 0)
  BY <1>3
<1>6. Rec(w)
  <2>1. w = [n \in 0 .. L |-> w[n]]
    OBVIOUS
  <2>2. \A n \in 0 .. L : w[n] = Body(w, n)
    <3> HIDE DEF w, Body
    <3> TAKE n \in 0 .. L
    <3>1. n = 0 \/ n \in 1 .. L
      BY <1>1
    <3> QED BY <1>4, <1>5, <3>1
  <2> HIDE DEF w, Body
  <2> QED BY <2>1, <2>2
<1>7. f = CHOOSE g : Rec(g)
  BY DEF RunsTo
<1> HIDE DEF f, Rec, w
<1>8. Rec(f)
  BY <1>6, <1>7
<1>9. \A g : Rec(g) => \A n \in 0 .. L : g[n] = Body(g, n)
  <2> TAKE g
  <2> HAVE Rec(g)
  <2>1. g = [n \in 0 .. L |-> Body(g, n)]
    BY DEF Rec
  <2> DEFINE h == [n \in 0 .. L |-> Body(g, n)]
  <2> HIDE DEF Body
  <2>2. \A n \in 0 .. L : h[n] = Body(g, n)
    OBVIOUS
  <2> QED BY <2>1, <2>2
<1> DEFINE S == {n \in 0 .. L : f[n] = w[n]}
<1>10. 0 \in S
  <2>1. 0 \in 0 .. L
    BY <1>1
  <2>2. f[0] = Body(f, 0)
    BY <1>8, <1>9, <2>1
  <2> QED BY <1>3, <2>1, <2>2
<1>11. ASSUME NEW n \in 1 .. L, n - 1 \in S PROVE n \in S
  <2>1. n \in 0 .. L /\ f[n - 1] = w[n - 1]
    BY <1>1, <1>11
  <2>2. Body(f, n) = Body(w, n)
    BY <2>1
  <2> HIDE DEF Body
  <2>3. f[n] = Body(f, n)
    BY <1>8, <1>9, <2>1
  <2> QED BY <1>4, <2>1, <2>2, <2>3
<1> HIDE DEF S
<1>12. 0 .. L \subseteq S
  BY <1>1, <1>10, <1>11, UpTo
<1>13. f[L] = w[L] /\ L \in 1 .. L
  BY <1>1, <1>12 DEF S
<1>14. SubSeq(vs, 1, L) = vs
  BY <1>1
<1>15. _row_contiguous_runs(vs) = f[L]
  BY DEF _row_contiguous_runs, RunsTo, f
<1> QED BY <1>3, <1>13, <1>14, <1>15

\* What goes to block b is what the variables of b bring, first to last.
LEMMA StreamOfTiles ==
  ASSUME NEW W, \A v \in W : n_rows(v) \in Nat, NEW g, NEW b,
         NEW vs \in Seq(W), vs = Chosen(g, {v \in ToSet(g) : v.blk = b}),
         NEW lo, NEW hi, Adjoin(row_start, vs, lo, hi), cut[1] \in Nat \ {0}, cut[2] \in Nat \ {0}
  PROVE  Tiles(row_start, W, StreamOf(g, b), lo, hi)
<1> DEFINE runs == IF vs = <<>> THEN <<>> ELSE IF b = "W" THEN _row_contiguous_runs(vs) ELSE <<vs>>
           all == [n \in DOMAIN runs |-> _stream_phase(runs[n])]
<1>1. StreamOf(g, b) = FlattenSeq(all)
  BY DEF StreamOf
<1>2. CASE vs = <<>>
  <2>1. runs = <<>> /\ DOMAIN <<>> = {} /\ Len(vs) = 0
    BY <1>2
  <2>2. all = <<>>
    BY <2>1
  <2>3. FlattenSeq(<<>>) = <<>>
    BY DEF FlattenSeq
  <2>4. lo \in Nat /\ lo = hi
    <3>1. PICK e : EdgesAt(row_start, vs, lo, hi, e)
      BY DEF Adjoin
    <3>2. 0 \in 0 .. 0
      OBVIOUS
    <3> QED BY <2>1, <3>1, <3>2 DEF EdgesAt
  <2>5. Tiles(row_start, W, <<>>, lo, lo)
    BY <2>4, NoTiles
  <2>6. StreamOf(g, b) = <<>>
    BY <1>1, <2>2, <2>3
  <2> QED BY <2>4, <2>5, <2>6
<1>3. CASE vs # <<>>
  <2>1. runs = <<vs>>
    BY <1>3, OneRun
  <2> HIDE DEF runs
  <2>2. all = <<_stream_phase(vs)>>
    BY <2>1
  <2> DEFINE x == _stream_phase(vs)
  <2>3. Tiles(row_start, W, x, lo, hi)
    BY <1>3, PhaseTiles
  <2> HIDE DEF x, all
  <2>4. FlattenSeq(<<x>>) = T!Flattened(<<x>>, 1)[1] /\ 1 \in Nat \ {0}
    <3>1. 1 = Len(<<x>>) /\ 1 \in Nat /\ 1 # 0
      OBVIOUS
    <3> QED BY <3>1, FlattenSeqIs
  <2>5. T!Flattened(<<x>>, 1)[1] = <<x>>[1]
    BY <2>4, T!FlattenedIs
  <2>6. FlattenSeq(<<x>>) = x
    BY <2>4, <2>5
  <2> QED BY <1>1, <2>2, <2>3, <2>6 DEF x
<1> QED BY <1>2, <1>3

---------------------------------------------------------------------------
(* Pieces in any order.                                                     *)

Span(p) == p.abs .. p.abs + Len(p.rows) - 1
HasRows(rs, W, p) == \A q \in 1 .. Len(p.rows) : RowHas(rs, W, p.abs + q - 1, p.rows[q])
\* The pieces ps bring what the rows of the set R hold, each row once.
Parts(rs, W, ps, R) ==
  /\ ps \in Seq(Pieces(W))
  /\ \A i \in 1 .. Len(ps) : HasRows(rs, W, ps[i])
  /\ \A i, j \in 1 .. Len(ps) : i # j => Span(ps[i]) \cap Span(ps[j]) = {}
  /\ \A r : r \in R <=> \E i \in 1 .. Len(ps) : r \in Span(ps[i])

\* What grows from each number to the next grows from each to all behind it.
LEMMA Grows ==
  ASSUME NEW n \in Nat, NEW f, \A k \in 0 .. n : f[k] \in Nat, \A k \in 1 .. n : f[k - 1] <= f[k],
         NEW i \in 0 .. n, NEW j \in 0 .. n, i <= j
  PROVE  f[i] <= f[j]
<1> DEFINE S == {k \in 0 .. n : i <= k => f[i] <= f[k]}
<1>1. 0 \in S
  OBVIOUS
<1>2. ASSUME NEW k \in 1 .. n, k - 1 \in S PROVE k \in S
  <2>1. k \in 0 .. n /\ k - 1 \in 0 .. n /\ f[k - 1] <= f[k] /\ f[k] \in Nat /\ f[k - 1] \in Nat /\ f[i] \in Nat
    OBVIOUS
  <2>2. CASE i = k
    BY <2>1, <2>2
  <2>3. CASE i # k
    BY <1>2, <2>1, <2>3
  <2> QED BY <2>2, <2>3
<1> HIDE DEF S
<1>3. 0 .. n \subseteq S
  BY <1>1, <1>2, UpTo
<1> QED BY <1>3 DEF S

\* Pieces that tile an interval are parts of it, each of its rows in one of them.
LEMMA TilesParts ==
  ASSUME NEW rs, NEW W, NEW ps, NEW lo, NEW hi, Tiles(rs, W, ps, lo, hi)
  PROVE  Parts(rs, W, ps, lo .. hi - 1)
<1> DEFINE n == Len(ps)
<1>1. PICK e : TilesAt(rs, W, ps, lo, hi, e)
  BY DEF Tiles
<1>2. ps \in Seq(Pieces(W)) /\ n \in Nat /\ \A i \in 1 .. n : ps[i].abs \in Nat /\ Len(ps[i].rows) \in Nat
  <2>1. ps \in Seq(Pieces(W))
    BY DEF Tiles
  <2>2. \A p \in Pieces(W) : p.abs \in Nat /\ Len(p.rows) \in Nat
    BY DEF Pieces
  <2> QED BY <2>1, <2>2
<1>3. /\ e[0] = lo /\ e[n] = hi /\ \A k \in 0 .. n : e[k] \in Nat
      /\ \A k \in 1 .. n :
           /\ ps[k].abs = e[k - 1] /\ e[k] = e[k - 1] + Len(ps[k].rows)
           /\ \A q \in 1 .. Len(ps[k].rows) : RowHas(rs, W, e[k - 1] + q - 1, ps[k].rows[q])
  BY <1>1 DEF TilesAt
<1> HIDE DEF n
<1>4. \A k \in 1 .. n : k - 1 \in 0 .. n /\ k \in 0 .. n
  BY <1>2
<1>5. \A k \in 1 .. n : e[k - 1] <= e[k] /\ Span(ps[k]) = e[k - 1] .. e[k] - 1
  <2> TAKE k \in 1 .. n
  <2> DEFINE l == Len(ps[k].rows)
             a == e[k - 1]
             z == e[k]
  <2>1. l \in Nat /\ a \in Nat /\ z \in Nat /\ z = a + l /\ ps[k].abs = a
    BY <1>2, <1>3, <1>4
  <2>2. Span(ps[k]) = a .. a + l - 1
    BY <2>1 DEF Span
  <2> HIDE DEF l, a, z
  <2>3. a <= z
    BY <2>1
  <2> QED BY <2>1, <2>2, <2>3 DEF a, z
<1>6. \A i, j \in 0 .. n : i <= j => e[i] <= e[j]
  BY <1>2, <1>3, <1>5, Grows
<1>7. ASSUME NEW i \in 1 .. n, NEW j \in 1 .. n, i < j, NEW r, r \in Span(ps[i]), r \in Span(ps[j]) PROVE FALSE
  <2>1. e[i] <= e[j - 1]
    BY <1>2, <1>4, <1>6, <1>7
  <2>2. r \in e[i - 1] .. e[i] - 1 /\ r \in e[j - 1] .. e[j] - 1
    BY <1>5, <1>7
  <2>3. e[i - 1] \in Nat /\ e[i] \in Nat /\ e[j - 1] \in Nat /\ e[j] \in Nat
    BY <1>3, <1>4
  <2> QED BY <2>1, <2>2, <2>3
<1>8. \A i, j \in 1 .. n : i # j => Span(ps[i]) \cap Span(ps[j]) = {}
  <2> SUFFICES ASSUME NEW i \in 1 .. n, NEW j \in 1 .. n, i # j, NEW r, r \in Span(ps[i]), r \in Span(ps[j]) PROVE FALSE
    OBVIOUS
  <2>1. i < j \/ j < i
    BY <1>2
  <2> QED BY <1>7, <2>1
<1>9. ASSUME NEW r, r \in lo .. hi - 1 PROVE \E i \in 1 .. n : r \in Span(ps[i])
  <2>1. lo \in Nat /\ hi \in Nat
    BY <1>2, <1>3
  <2>2. r \in Nat /\ e[0] <= r /\ r < e[n]
    BY <1>3, <1>9, <2>1
  <2>3. PICK k \in 1 .. n : e[k - 1] <= r /\ r < e[k]
    BY <1>2, <1>3, <2>2, StepOver
  <2>4. r \in e[k - 1] .. e[k] - 1
    BY <1>3, <1>4, <2>2, <2>3
  <2> QED BY <1>5, <2>4
<1>10. ASSUME NEW i \in 1 .. n, NEW r, r \in Span(ps[i]) PROVE r \in lo .. hi - 1
  <2>1. r \in e[i - 1] .. e[i] - 1
    BY <1>5, <1>10
  <2>2. lo <= e[i - 1] /\ e[i] <= hi
    <3>1. 0 \in 0 .. n /\ n \in 0 .. n /\ i - 1 \in 0 .. n /\ i \in 0 .. n /\ 0 <= i - 1 /\ i <= n
      BY <1>2
    <3> QED BY <1>3, <1>6, <3>1
  <2>3. lo \in Nat /\ hi \in Nat /\ e[i] \in Nat /\ e[i - 1] \in Nat
    BY <1>2, <1>3, <1>4
  <2> QED BY <2>1, <2>2, <2>3
<1>11. \A i \in 1 .. n : HasRows(rs, W, ps[i])
  BY <1>3 DEF HasRows
<1> QED BY <1>2, <1>8, <1>9, <1>10, <1>11 DEF Parts, n

\* Parts of two sets of rows that have none in common are parts of both together.
LEMMA PartsJoin ==
  ASSUME NEW rs, NEW W, NEW ps, NEW qs, NEW R, NEW S, Parts(rs, W, ps, R), Parts(rs, W, qs, S), R \cap S = {}
  PROVE  Parts(rs, W, ps \o qs, R \cup S)
<1> DEFINE m == Len(ps)
           n == Len(qs)
           all == ps \o qs
<1>1. /\ ps \in Seq(Pieces(W)) /\ qs \in Seq(Pieces(W)) /\ m \in Nat /\ n \in Nat
      /\ all \in Seq(Pieces(W)) /\ Len(all) = m + n
      /\ (\A i \in 1 .. m : all[i] = ps[i]) /\ (\A i \in 1 .. n : all[m + i] = qs[i])
  BY JoinIs DEF Parts
<1>2. /\ \A i \in 1 .. m : HasRows(rs, W, ps[i])
      /\ \A i, j \in 1 .. m : i # j => Span(ps[i]) \cap Span(ps[j]) = {}
      /\ \A r : r \in R <=> \E i \in 1 .. m : r \in Span(ps[i])
  BY DEF Parts
<1>3. /\ \A i \in 1 .. n : HasRows(rs, W, qs[i])
      /\ \A i, j \in 1 .. n : i # j => Span(qs[i]) \cap Span(qs[j]) = {}
      /\ \A r : r \in S <=> \E i \in 1 .. n : r \in Span(qs[i])
  BY DEF Parts
<1> HIDE DEF all, m, n
<1>4. \A k \in 1 .. m + n : k \in 1 .. m \/ \E j \in 1 .. n : k = m + j
  <2> TAKE k \in 1 .. m + n
  <2>1. CASE k <= m
    BY <1>1, <2>1
  <2>2. CASE k > m
    <3>1. k - m \in 1 .. n /\ k = m + (k - m)
      BY <1>1, <2>2
    <3> QED BY <3>1
  <2> QED BY <1>1, <2>1, <2>2
<1>5. (\A i \in 1 .. m : i \in 1 .. m + n) /\ (\A i \in 1 .. n : m + i \in 1 .. m + n)
  BY <1>1
<1>6. \A k \in 1 .. m + n : HasRows(rs, W, all[k])
  <2> TAKE k \in 1 .. m + n
  <2>1. CASE k \in 1 .. m
    BY <1>1, <1>2, <2>1
  <2>2. CASE \E j \in 1 .. n : k = m + j
    <3>1. PICK j \in 1 .. n : k = m + j
      BY <2>2
    <3>2. all[k] = qs[j]
      BY <1>1, <3>1
    <3> QED BY <1>3, <3>2
  <2> QED BY <1>4, <2>1, <2>2
<1>7. \A r : r \in R \cup S <=> \E k \in 1 .. m + n : r \in Span(all[k])
  <2> TAKE r
  <2>1. ASSUME r \in R \cup S PROVE \E k \in 1 .. m + n : r \in Span(all[k])
    BY <1>1, <1>2, <1>3, <1>5, <2>1
  <2>2. ASSUME NEW k \in 1 .. m + n, r \in Span(all[k]) PROVE r \in R \cup S
    <3>1. CASE k \in 1 .. m
      <4>1. all[k] = ps[k]
        BY <1>1, <3>1
      <4> QED BY <1>2, <2>2, <3>1, <4>1
    <3>2. CASE \E j \in 1 .. n : k = m + j
      <4>1. PICK j \in 1 .. n : k = m + j
        BY <3>2
      <4>2. all[k] = qs[j]
        BY <1>1, <4>1
      <4> QED BY <1>3, <2>2, <4>2
    <3> QED BY <1>4, <3>1, <3>2
  <2> QED BY <2>1, <2>2
<1>8. ASSUME NEW i \in 1 .. m + n, NEW j \in 1 .. m + n, i # j, NEW r, r \in Span(all[i]), r \in Span(all[j]) PROVE FALSE
  <2>1. CASE i \in 1 .. m /\ j \in 1 .. m
    BY <1>1, <1>2, <1>8, <2>1
  <2>2. CASE i \in 1 .. m /\ \E k \in 1 .. n : j = m + k
    <3>1. PICK k \in 1 .. n : j = m + k
      BY <2>2
    <3>2. all[j] = qs[k] /\ all[i] = ps[i]
      BY <1>1, <2>2, <3>1
    <3>3. r \in S /\ r \in R
      BY <1>2, <1>3, <1>8, <2>2, <3>2
    <3> QED BY <3>3
  <2>3. CASE j \in 1 .. m /\ \E k \in 1 .. n : i = m + k
    <3>1. PICK k \in 1 .. n : i = m + k
      BY <2>3
    <3>2. all[i] = qs[k] /\ all[j] = ps[j]
      BY <1>1, <2>3, <3>1
    <3>3. r \in S /\ r \in R
      BY <1>2, <1>3, <1>8, <2>3, <3>2
    <3> QED BY <3>3
  <2>4. CASE (\E k \in 1 .. n : i = m + k) /\ (\E k \in 1 .. n : j = m + k)
    <3>1. PICK a \in 1 .. n : i = m + a
      BY <2>4
    <3>2. PICK b \in 1 .. n : j = m + b
      BY <2>4
    <3>3. a # b
      BY <1>8, <3>1, <3>2
    <3> QED BY <1>1, <1>3, <1>8, <3>1, <3>2, <3>3
  <2> QED BY <1>4, <2>1, <2>2, <2>3, <2>4
<1>9. \A i, j \in 1 .. m + n : i # j => Span(all[i]) \cap Span(all[j]) = {}
  BY <1>8
<1>10. Parts(rs, W, all, R \cup S)
  BY <1>1, <1>6, <1>7, <1>9 DEF Parts
<1> QED BY <1>10 DEF all

\* Without its first piece, what is left are parts of the rows that are left.
LEMMA PartsTail ==
  ASSUME NEW rs, NEW W, NEW ps, NEW R, Parts(rs, W, ps, R), ps # <<>>
  PROVE  /\ ps[1] \in Pieces(W) /\ HasRows(rs, W, ps[1])
         /\ Span(ps[1]) \subseteq R /\ Parts(rs, W, Tail(ps), R \ Span(ps[1]))
<1> DEFINE n == Len(ps)
           t == Tail(ps)
<1>1. /\ ps \in Seq(Pieces(W))
      /\ \A i \in 1 .. n : HasRows(rs, W, ps[i])
      /\ \A i, j \in 1 .. n : i # j => Span(ps[i]) \cap Span(ps[j]) = {}
      /\ \A r : r \in R <=> \E i \in 1 .. n : r \in Span(ps[i])
  BY DEF Parts
<1>2. /\ n \in Nat /\ 1 \in 1 .. n /\ ps[1] \in Pieces(W)
      /\ t \in Seq(Pieces(W)) /\ Len(t) = n - 1 /\ \A i \in 1 .. n - 1 : t[i] = ps[i + 1] /\ i + 1 \in 1 .. n /\ i + 1 # 1
  BY <1>1
<1>3. \A i \in 1 .. n : i = 1 \/ \E j \in 1 .. n - 1 : i = j + 1
  <2> TAKE i \in 1 .. n
  <2>1. i # 1 => i - 1 \in 1 .. n - 1 /\ i = (i - 1) + 1
    BY <1>2
  <2> QED BY <2>1
<1> HIDE DEF n, t
<1>4. \A i \in 1 .. n - 1 : HasRows(rs, W, t[i])
  BY <1>1, <1>2
<1>5. \A i, j \in 1 .. n - 1 : i # j => Span(t[i]) \cap Span(t[j]) = {}
  <2> TAKE i, j \in 1 .. n - 1
  <2> HAVE i # j
  <2>1. i + 1 # j + 1
    BY <1>2
  <2> QED BY <1>1, <1>2, <2>1
<1>6. \A r : r \in R \ Span(ps[1]) <=> \E i \in 1 .. n - 1 : r \in Span(t[i])
  <2> TAKE r
  <2>1. ASSUME r \in R \ Span(ps[1]) PROVE \E i \in 1 .. n - 1 : r \in Span(t[i])
    <3>1. PICK i \in 1 .. n : r \in Span(ps[i])
      BY <1>1, <2>1
    <3>2. i # 1
      BY <2>1, <3>1
    <3>3. PICK j \in 1 .. n - 1 : i = j + 1
      BY <1>3, <3>2
    <3> QED BY <1>2, <3>1, <3>3
  <2>2. ASSUME NEW i \in 1 .. n - 1, r \in Span(t[i]) PROVE r \in R \ Span(ps[1])
    <3>1. r \in Span(ps[i + 1]) /\ i + 1 \in 1 .. n /\ i + 1 # 1
      BY <1>2, <2>2
    <3>2. Span(ps[i + 1]) \cap Span(ps[1]) = {}
      BY <1>1, <1>2, <3>1
    <3> QED BY <1>1, <3>1, <3>2
  <2> QED BY <2>1, <2>2
<1>7. Parts(rs, W, t, R \ Span(ps[1]))
  BY <1>2, <1>4, <1>5, <1>6 DEF Parts
<1>8. Span(ps[1]) \subseteq R /\ HasRows(rs, W, ps[1])
  BY <1>1, <1>2
<1> QED BY <1>2, <1>7, <1>8 DEF t

---------------------------------------------------------------------------
(* The rows of a claim.                                                     *)

\* The variables that have rows.
Housed(M) == {Met(M, s) : s \in Spots(M)}
CellRows(M, b, n) == Start(M, b, n) .. Start(M, b, n + 1) - 1
ClaimRows(M, n) == UNION {CellRows(M, b, n) : b \in 1 .. 5}

\* A variable that has rows is one the claims mention.
LEMMA HousedOK ==
  ASSUME NEW M, NEW N, Listed(M, N)
  PROVE  \A v \in Housed(M) : n_rows(v) \in Nat /\ v \in Walked(M)
<1> SUFFICES ASSUME NEW s \in Spots(M) PROVE n_rows(Met(M, s)) \in Nat /\ Met(M, s) \in Walked(M)
  BY DEF Housed
<1> QED BY SpotIs DEF Listed, MentionsOK

\* What a claim brings to a block.
LEMMA CellTiles ==
  ASSUME NEW M, NEW N, Listed(M, N), NEW n \in 1 .. N, NEW b \in 1 .. 5,
         row_start = _layout(M), groups = _claim_var_groups(M), cut[1] \in Nat \ {0}, cut[2] \in Nat \ {0}
  PROVE  Tiles(row_start, Housed(M), StreamOf(groups[n], Blocks[b]), Start(M, b, n), Start(M, b, n + 1))
<1> DEFINE g == groups[n]
           W == Housed(M)
           vs == InBlock(g, b)
<1>1. vs \in Seq(Walked(M)) /\ \E idx : CellAt(M, b, n, vs, idx)
  BY CellIs
<1>2. PICK idx : CellAt(M, b, n, vs, idx)
  BY <1>1
<1>3. vs = Chosen(g, {v \in ToSet(g) : v.blk = Blocks[b]})
  BY DEF InBlock
<1> HIDE DEF vs, g
<1>4. vs \in Seq(W)
  <2>1. Len(vs) \in Nat /\ vs = [k \in 1 .. Len(vs) |-> vs[k]]
    BY <1>1
  <2>2. \A k \in 1 .. Len(vs) : vs[k] \in W
    <3> TAKE k \in 1 .. Len(vs)
    <3>1. <<b, n, idx[k]>> \in Spots(M) /\ vs[k] = Met(M, <<b, n, idx[k]>>)
      BY <1>2 DEF CellAt
    <3> QED BY <3>1 DEF Housed
  <2> QED BY <2>1, <2>2
<1>5. Adjoin(row_start, vs, Start(M, b, n), Start(M, b, n + 1))
  BY <1>2, CellAdjoins
<1>6. \A v \in W : n_rows(v) \in Nat
  BY HousedOK
<1> HIDE DEF W
<1> DEFINE c == Blocks[b]
           lo == Start(M, b, n)
           hi == Start(M, b, n + 1)
<1>7. vs = Chosen(g, {v \in ToSet(g) : v.blk = c}) /\ Adjoin(row_start, vs, lo, hi)
  BY <1>3, <1>5
<1> HIDE DEF c, lo, hi
<1>8. Tiles(row_start, W, StreamOf(g, c), lo, hi)
  BY <1>4, <1>6, <1>7, StreamOfTiles
<1> QED BY <1>8 DEF c, lo, hi, g, W

\* Two claims, or two blocks, share no row.
LEMMA CellsApart ==
  ASSUME NEW M, NEW N, Listed(M, N), NEW b \in 1 .. 5, NEW n \in 1 .. N, NEW c \in 1 .. 5, NEW m \in 1 .. N,
         b # c \/ n # m
  PROVE  CellRows(M, b, n) \cap CellRows(M, c, m) = {}
<1>1. ASSUME NEW a \in 1 .. 5, NEW k \in 1 .. N, NEW z \in 1 .. 5, NEW l \in 1 .. N, a < z \/ (a = z /\ k < l),
             NEW r, r \in CellRows(M, a, k), r \in CellRows(M, z, l)
      PROVE  FALSE
  <2>1. a \in Int /\ z \in Int /\ k \in Int /\ k + 1 \in Int /\ l \in Int /\ l + 1 \in Int /\ (a < z \/ (a = z /\ k + 1 <= l))
    BY <1>1 DEF Listed
  <2>2. Start(M, a, k + 1) \in Nat /\ Start(M, z, l) \in Nat /\ Start(M, a, k + 1) <= Start(M, z, l)
    BY <2>1, StartsAre
  <2>3. Start(M, a, k) \in Nat /\ Start(M, z, l + 1) \in Nat
    <3>1. a = a /\ k <= k + 1 /\ z = z /\ l <= l + 1
      BY <2>1
    <3> QED BY <2>1, <3>1, StartsAre
  <2>4. r \in Start(M, a, k) .. Start(M, a, k + 1) - 1 /\ r \in Start(M, z, l) .. Start(M, z, l + 1) - 1
    BY <1>1 DEF CellRows
  <2> QED BY <2>2, <2>3, <2>4
<1>2. b < c \/ c < b \/ (b = c /\ (n < m \/ m < n))
  <2>1. N \in Nat
    BY DEF Listed
  <2> QED BY <2>1
<1> QED BY <1>1, <1>2

\* A claim brings its rows, each once, whatever the order of the blocks.
LEMMA StreamParts ==
  ASSUME NEW M, NEW N, Listed(M, N), NEW n \in 1 .. N,
         row_start = _layout(M), groups = _claim_var_groups(M), cut[1] \in Nat \ {0}, cut[2] \in Nat \ {0}
  PROVE  Parts(row_start, Housed(M), Stream(groups[n]), ClaimRows(M, n))
<1> DEFINE W == Housed(M)
           g == groups[n]
           C(b) == CellRows(M, b, n)
           ps(b) == StreamOf(g, Blocks[b])
<1>1. ASSUME NEW b \in 1 .. 5 PROVE Parts(row_start, W, ps(b), C(b))
  <2>1. Tiles(row_start, Housed(M), StreamOf(groups[n], Blocks[b]), Start(M, b, n), Start(M, b, n + 1))
    BY CellTiles
  <2> DEFINE lo == Start(M, b, n)
             hi == Start(M, b, n + 1)
             p == StreamOf(groups[n], Blocks[b])
  <2>2. Tiles(row_start, W, p, lo, hi)
    BY <2>1
  <2> HIDE DEF lo, hi, p, W
  <2>3. Parts(row_start, W, p, lo .. hi - 1)
    BY <2>2, TilesParts
  <2> QED BY <2>3 DEF lo, hi, p, CellRows
<1>2. \A b, c \in 1 .. 5 : b # c => C(b) \cap C(c) = {}
  BY CellsApart
<1>3. ClaimRows(M, n) = (((C(3) \cup C(1)) \cup C(2)) \cup C(4)) \cup C(5)
  <2>1. 1 .. 5 = {1, 2, 3, 4, 5}
    OBVIOUS
  <2> HIDE DEF C
  <2>2. UNION {C(b) : b \in {1, 2, 3, 4, 5}} = (((C(3) \cup C(1)) \cup C(2)) \cup C(4)) \cup C(5)
    OBVIOUS
  <2>3. ClaimRows(M, n) = UNION {C(b) : b \in 1 .. 5}
    BY DEF ClaimRows, C
  <2> QED BY <2>1, <2>2, <2>3
<1>4. Stream(g) = (((ps(3) \o ps(1)) \o ps(2)) \o ps(4)) \o ps(5)
  BY DEF Stream, Blocks
<1> HIDE DEF W, g, C, ps
<1>5. 1 \in 1 .. 5 /\ 2 \in 1 .. 5 /\ 3 \in 1 .. 5 /\ 4 \in 1 .. 5 /\ 5 \in 1 .. 5
  OBVIOUS
<1>6. Parts(row_start, W, ps(3) \o ps(1), C(3) \cup C(1))
  <2>1. C(3) \cap C(1) = {}
    BY <1>2, <1>5
  <2> QED BY <1>1, <1>5, <2>1, PartsJoin
<1>7. Parts(row_start, W, (ps(3) \o ps(1)) \o ps(2), (C(3) \cup C(1)) \cup C(2))
  <2>1. (C(3) \cup C(1)) \cap C(2) = {}
    BY <1>2, <1>5
  <2> QED BY <1>1, <1>5, <1>6, <2>1, PartsJoin
<1>8. Parts(row_start, W, ((ps(3) \o ps(1)) \o ps(2)) \o ps(4), ((C(3) \cup C(1)) \cup C(2)) \cup C(4))
  <2>1. ((C(3) \cup C(1)) \cup C(2)) \cap C(4) = {}
    BY <1>2, <1>5
  <2> QED BY <1>1, <1>5, <1>7, <2>1, PartsJoin
<1>9. Parts(row_start, W, (((ps(3) \o ps(1)) \o ps(2)) \o ps(4)) \o ps(5), (((C(3) \cup C(1)) \cup C(2)) \cup C(4)) \cup C(5))
  <2>1. (((C(3) \cup C(1)) \cup C(2)) \cup C(4)) \cap C(5) = {}
    BY <1>2, <1>5
  <2> QED BY <1>1, <1>5, <1>8, <2>1, PartsJoin
<1> QED BY <1>3, <1>4, <1>9 DEF W, g

\* A row belongs to one variable.
LEMMA OneRow ==
  ASSUME NEW M, NEW N, Listed(M, N), NEW rs, rs = _layout(M), NEW r, NEW x, NEW y,
         RowHas(rs, Housed(M), r, x), RowHas(rs, Housed(M), r, y)
  PROVE  x = y
<1> DEFINE At(s, q, z) == z = <<Met(M, s).name, q>> /\ r = rs[Met(M, s).name] + q
<1>a. PICK s \in Spots(M) : \E q \in 0 .. n_rows(Met(M, s)) - 1 : At(s, q, x)
  BY DEF RowHas, Housed
<1>b. PICK t \in Spots(M) : \E p \in 0 .. n_rows(Met(M, t)) - 1 : At(t, p, y)
  BY DEF RowHas, Housed
<1>1. PICK q \in 0 .. n_rows(Met(M, s)) - 1 : x = <<Met(M, s).name, q>> /\ r = rs[Met(M, s).name] + q
  BY <1>a
<1>2. PICK p \in 0 .. n_rows(Met(M, t)) - 1 : y = <<Met(M, t).name, p>> /\ r = rs[Met(M, t).name] + p
  BY <1>b
<1>3. rs[Met(M, s).name] = First(M, s) /\ rs[Met(M, t).name] = First(M, t)
  BY LayoutIs
<1>4. n_rows(Met(M, s)) \in Nat /\ n_rows(Met(M, t)) \in Nat
  BY SpotIs DEF Listed, MentionsOK
<1>5. First(M, s) \in Nat /\ First(M, t) \in Nat
  <2>1. \A u \in Spots(M) : Before(M, u) \subseteq Spots(M)
    BY DEF Before
  <2> QED BY <2>1, CountMore DEF First, NUM_BLINDING_ROWS
<1>6. ~Lower(s, t)
  <2> SUFFICES ASSUME Lower(s, t) PROVE FALSE
    OBVIOUS
  <2>1. First(M, s) + n_rows(Met(M, s)) <= First(M, t)
    BY FirstsAre
  <2> QED BY <1>1, <1>2, <1>3, <1>4, <1>5, <2>1
<1>7. ~Lower(t, s)
  <2> SUFFICES ASSUME Lower(t, s) PROVE FALSE
    OBVIOUS
  <2>1. First(M, t) + n_rows(Met(M, t)) <= First(M, s)
    BY FirstsAre
  <2> QED BY <1>1, <1>2, <1>3, <1>4, <1>5, <2>1
<1>8. s = t
  BY <1>6, <1>7, LowerIs
<1>9. p = q
  BY <1>1, <1>2, <1>3, <1>4, <1>5, <1>8
<1> QED BY <1>1, <1>2, <1>8, <1>9

\* A new variable of a claim is at a spot of the claim, in its block.
LEMMA GroupMet ==
  ASSUME NEW M, NEW N, Listed(M, N), NEW n \in 1 .. N, NEW v \in ToSet(_claim_var_groups(M)[n]),
         NEW b \in 1 .. 5, v.blk = Blocks[b]
  PROVE  v \in Walked(M) /\ \E s \in Spots(M) : Met(M, s) = v /\ s[1] = b /\ s[2] = n
<1> DEFINE g == _claim_var_groups(M)[n]
<1>1. g \in Seq(Walked(M)) /\ \E at : GroupAt(M, n, g, at)
  BY GroupIs
<1>2. PICK at : GroupAt(M, n, g, at)
  BY <1>1
<1>3. PICK k \in 1 .. Len(at) : v = g[k]
  BY <1>1, <1>2 DEF ToSet, GroupAt
<1> DEFINE i == at[k]
<1>4. i \in News(M, n) /\ M[n][i].blk # "ext" /\ v = M[n][i]
  BY <1>2, <1>3 DEF GroupAt, NewHere
<1>5. v \in Walked(M)
  BY <1>1, <1>2, <1>3 DEF GroupAt
<1> DEFINE s == <<b, n, i>>
<1>7. s \in Spots(M) /\ Met(M, s) = v /\ s[1] = b /\ s[2] = n
  BY <1>4, IsSpot DEF Met
<1> QED BY <1>5, <1>7

\* The first row of a variable.
LEMMA FirstIs ==
  ASSUME NEW M, NEW N, Listed(M, N), NEW s \in Spots(M)
  PROVE  First(M, s) \in Nat
<1>1. Before(M, s) \subseteq Spots(M)
  BY DEF Before
<1> QED BY <1>1, CountMore DEF First, NUM_BLINDING_ROWS

\* The rows of a new variable of claim n are rows of the claim, in its block.
LEMMA GroupCell ==
  ASSUME NEW M, NEW N, Listed(M, N), NEW n \in 1 .. N, NEW v \in ToSet(_claim_var_groups(M)[n]),
         NEW q \in 0 .. n_rows(v) - 1, NEW b \in 1 .. 5, v.blk = Blocks[b]
  PROVE  /\ v \in Housed(M)
         /\ _layout(M)[v.name] + q \in CellRows(M, b, n)
<1>5. v \in Walked(M) /\ \E s \in Spots(M) : Met(M, s) = v /\ s[1] = b /\ s[2] = n
  BY GroupMet
<1>7. PICK s \in Spots(M) : Met(M, s) = v /\ s[1] = b /\ s[2] = n
  BY <1>5
<1>8. _layout(M)[v.name] = First(M, s)
  BY <1>7, LayoutIs
<1>9. Under(M, b, n) \subseteq Before(M, s) /\ Before(M, s) \cup {s} \subseteq Under(M, b, n + 1)
  <2>1. ASSUME NEW t \in Spots(M) PROVE t[1] \in Int /\ t[2] \in Int
    <3>1. t[1] \in 1 .. 5 /\ t[2] \in 1 .. N /\ N \in Nat
      BY SpotIs DEF Listed
    <3> QED BY <3>1
  <2>2. n \in Int /\ b \in Int
    BY DEF Listed
  <2>3. ASSUME NEW t \in Under(M, b, n) PROVE t \in Before(M, s)
    BY <1>7, <2>1, <2>2 DEF Under, Before, Lower
  <2>4. ASSUME NEW t \in Before(M, s) PROVE t \in Under(M, b, n + 1)
    BY <1>7, <2>1, <2>2 DEF Under, Before, Lower
  <2>5. s \in Under(M, b, n + 1)
    BY <1>7, <2>2 DEF Under
  <2> QED BY <2>3, <2>4, <2>5
<1>10. Before(M, s) \subseteq Spots(M) /\ Under(M, b, n + 1) \subseteq Spots(M) /\ s \notin Before(M, s)
  BY <1>7, LowerIs DEF Before, Under
<1>11. Count(M, Before(M, s) \cup {s}) = Count(M, Before(M, s)) + n_rows(v)
  BY <1>7, <1>10, CountAdd
<1>12. /\ Count(M, Under(M, b, n)) \in Nat /\ Count(M, Before(M, s)) \in Nat
       /\ Count(M, Under(M, b, n)) <= Count(M, Before(M, s))
  BY <1>9, <1>10, CountMore
<1>13. Count(M, Before(M, s) \cup {s}) <= Count(M, Under(M, b, n + 1)) /\ Count(M, Under(M, b, n + 1)) \in Nat
  BY <1>9, <1>10, CountMore
<1>14. n_rows(v) \in Nat
  BY <1>5 DEF Listed, MentionsOK
<1>15. First(M, s) + q \in Start(M, b, n) .. Start(M, b, n + 1) - 1
  <2> DEFINE x == Count(M, Under(M, b, n))
             y == Count(M, Before(M, s))
             z == Count(M, Under(M, b, n + 1))
             m == n_rows(v)
  <2>1. x \in Nat /\ y \in Nat /\ z \in Nat /\ m \in Nat /\ x <= y /\ y + m <= z /\ q \in 0 .. m - 1
    BY <1>11, <1>12, <1>13, <1>14
  <2> HIDE DEF x, y, z, m
  <2>2. (3 + y) + q \in 3 + x .. (3 + z) - 1
    BY <2>1
  <2> QED BY <2>2 DEF First, Start, NUM_BLINDING_ROWS, x, y, z
<1>16. First(M, s) + q \in CellRows(M, b, n)
  BY <1>15 DEF CellRows
<1>17. v \in Housed(M)
  BY <1>7 DEF Housed
<1> QED BY <1>8, <1>16, <1>17

\* A new variable of a claim is in a block.
LEMMA InSomeBlock ==
  ASSUME NEW M, NEW N, Listed(M, N), NEW n \in 1 .. N, NEW v \in ToSet(_claim_var_groups(M)[n])
  PROVE  \E b \in 1 .. 5 : v.blk = Blocks[b]
<1> DEFINE g == _claim_var_groups(M)[n]
<1>1. g \in Seq(Walked(M)) /\ \E at : GroupAt(M, n, g, at)
  BY GroupIs
<1>2. PICK at : GroupAt(M, n, g, at)
  BY <1>1
<1>3. PICK k \in 1 .. Len(at) : v = g[k]
  BY <1>1, <1>2 DEF ToSet, GroupAt
<1>4. at[k] \in News(M, n) /\ M[n][at[k]].blk # "ext" /\ v = M[n][at[k]]
  BY <1>2, <1>3 DEF GroupAt, NewHere
<1>5. v \in Walked(M)
  BY <1>1, <1>2, <1>3 DEF GroupAt
<1>6. v.blk \in ToSet(Blocks)
  BY <1>4, <1>5 DEF Listed, MentionsOK
<1>7. DOMAIN Blocks = 1 .. 5
  BY DEF Blocks
<1> QED BY <1>6, <1>7 DEF ToSet

\* What a claim is the first to mention, it brings.
LEMMA MetInGroup ==
  ASSUME NEW M, NEW N, Listed(M, N), NEW s \in Spots(M)
  PROVE  s[2] \in 1 .. N /\ Met(M, s) \in ToSet(_claim_var_groups(M)[s[2]])
<1> DEFINE g == _claim_var_groups(M)[s[2]]
<1>1. /\ s[1] \in 1 .. 5 /\ s[2] \in 1 .. N /\ s[3] \in News(M, s[2])
      /\ Met(M, s) = M[s[2]][s[3]] /\ Met(M, s).blk = Blocks[s[1]]
  BY SpotIs
<1>2. Blocks[s[1]] # "ext"
  <2>1. \A b \in 1 .. 5 : Blocks[b] # "ext"
    BY DEF Blocks
  <2> QED BY <1>1, <2>1
<1>3. s[3] \in NewHere(M, s[2])
  BY <1>1, <1>2 DEF NewHere
<1>4. g \in Seq(Walked(M)) /\ \E at : GroupAt(M, s[2], g, at)
  BY <1>1, GroupIs
<1>5. PICK at : GroupAt(M, s[2], g, at)
  BY <1>4
<1>6. PICK k \in 1 .. Len(at) : at[k] = s[3]
  BY <1>3, <1>5 DEF GroupAt
<1> HIDE DEF g
<1>7. g[k] = M[s[2]][at[k]] /\ Len(g) = Len(at)
  BY <1>5 DEF GroupAt
<1>8. DOMAIN g = 1 .. Len(g)
  BY <1>4
<1>9. g[k] = Met(M, s) /\ k \in DOMAIN g
  BY <1>1, <1>6, <1>7, <1>8
<1>10. Met(M, s) \in ToSet(g)
  BY <1>9 DEF ToSet
<1> QED BY <1>1, <1>10 DEF g

\* So its rows are rows of the claim.
LEMMA GroupRows ==
  ASSUME NEW M, NEW N, Listed(M, N), NEW n \in 1 .. N, NEW v \in ToSet(_claim_var_groups(M)[n]),
         NEW q \in 0 .. n_rows(v) - 1
  PROVE  /\ v \in Housed(M)
         /\ _layout(M)[v.name] + q \in ClaimRows(M, n)
<1>1. PICK b \in 1 .. 5 : v.blk = Blocks[b]
  BY InSomeBlock
<1> QED BY <1>1, GroupCell DEF ClaimRows

---------------------------------------------------------------------------
(* The sweep.                                                               *)

\* What the claims of the tape mention, and the rows of its first n claims.
Mentioned == [n \in DOMAIN tape |-> Mentions(tape[n])]
RowsUpTo(M, n) == UNION {ClaimRows(M, k) : k \in 1 .. n}

\* The layout and the groups are those of the tape.
LaidOut ==
  /\ Listed(Mentioned, Len(tape)) /\ Len(tape) >= 1
  /\ row_start = _layout(Mentioned) /\ groups = _claim_var_groups(Mentioned)
  /\ cut[1] \in Nat \ {0} /\ cut[2] \in Nat \ {0}
\* A row that landed is one the layout put there, alone.
LandedRight ==
  \A r \in DOMAIN landed : \E x : landed[r] = <<x>> /\ RowHas(row_start, Housed(Mentioned), r, x)
\* While claim ci is streamed, what has landed and what is queued are the rows
\* of the first ci claims, and the queue brings rows of ci, each once.
Sweeping(R) ==
  /\ Parts(row_start, Housed(Mentioned), queue, R) /\ R \subseteq ClaimRows(Mentioned, ci)
  /\ DOMAIN landed = RowsUpTo(Mentioned, ci) \ R
SweepInv ==
  /\ LaidOut /\ LandedRight
  /\ pc \in {"index", "sweep", "compile", "panic", "test", "done"}
  /\ pc = "index" => DOMAIN landed = {}
  /\ pc = "sweep" => ci \in 1 .. Len(tape) /\ \E R : Sweeping(R)
  /\ pc \notin {"index", "sweep"} => DOMAIN landed = RowsUpTo(Mentioned, Len(tape))

\* Two claims share no row.
LEMMA ClaimsApart ==
  ASSUME NEW M, NEW N, Listed(M, N), NEW n \in 1 .. N, NEW m \in 1 .. N, n # m
  PROVE  ClaimRows(M, n) \cap ClaimRows(M, m) = {}
<1> SUFFICES ASSUME NEW r, r \in ClaimRows(M, n), r \in ClaimRows(M, m) PROVE FALSE
  OBVIOUS
<1>1. PICK b \in 1 .. 5 : r \in CellRows(M, b, n)
  BY DEF ClaimRows
<1>2. PICK c \in 1 .. 5 : r \in CellRows(M, c, m)
  BY DEF ClaimRows
<1>3. CellRows(M, b, n) \cap CellRows(M, c, m) = {}
  BY CellsApart
<1> QED BY <1>1, <1>2, <1>3

\* A claim's rows are behind those of the claims before it.
LEMMA RowsGrow ==
  ASSUME NEW M, NEW N, Listed(M, N), NEW n \in 1 .. N
  PROVE  /\ RowsUpTo(M, n) = RowsUpTo(M, n - 1) \cup ClaimRows(M, n)
         /\ RowsUpTo(M, n - 1) \cap ClaimRows(M, n) = {}
<1>1. 1 .. n = 1 .. n - 1 \cup {n} /\ \A k \in 1 .. n - 1 : k \in 1 .. N /\ k # n
  BY DEF Listed
<1>2. \A k \in 1 .. n - 1 : ClaimRows(M, k) \cap ClaimRows(M, n) = {}
  BY <1>1, ClaimsApart
<1> QED BY <1>1, <1>2 DEF RowsUpTo

\* The program starts with the layout of its tape, and no row has landed.
LEMMA SweepInit == Init => SweepInv
<1> SUFFICES ASSUME Init PROVE SweepInv
  OBVIOUS
<1>1. PICK t \in Tapes : tape = WithSettlements(t)
  BY DEF Init
<1>2. tape \in Seq(ToSet(tape)) /\ tape # <<>> /\ MentionsOK(Mentioned)
  BY <1>1, TapesAssumption DEF Mentioned
<1>3. Len(tape) \in Nat /\ Len(tape) >= 1 /\ DOMAIN tape = 1 .. Len(tape)
  BY <1>2
<1>4. row_start = _layout(Mentioned) /\ groups = _claim_var_groups(Mentioned)
  BY DEF Init, Mentioned
<1>5. cut[1] \in Nat \ {0} /\ cut[2] \in Nat \ {0}
  BY CutsAssumption DEF Init
<1>6. Listed(Mentioned, Len(tape))
  <2>1. DOMAIN Mentioned = DOMAIN tape
    BY DEF Mentioned
  <2> QED BY <1>2, <1>3, <2>1 DEF Listed
<1>7. LaidOut
  BY <1>3, <1>4, <1>5, <1>6 DEF LaidOut
<1>8. pc = "index" /\ DOMAIN landed = {}
  BY DEF Init
<1>9. LandedRight
  BY <1>8 DEF LandedRight
<1> QED BY <1>7, <1>8, <1>9 DEF SweepInv

\* No step disturbs it: a chunk folded moves its rows from the queue to what has
\* landed, and the next claim brings rows of its own.
LEMMA SweepStep == SweepInv /\ [Next]_vars => SweepInv'
<1> SUFFICES ASSUME SweepInv, [Next]_vars PROVE SweepInv'
  OBVIOUS
<1> DEFINE M == Mentioned
           W == Housed(M)
           N == Len(tape)
<1>1. UNCHANGED fixed
  BY DEF Next, IndexClaim, StartSweep, Update, NextClaim, CompileClaim, Panic, StartTest, TestFamily, EndTest,
         vars, fixed
<1>2. UNCHANGED <<tape, row_start, groups, cut, Mentioned>>
  BY <1>1 DEF fixed, Mentioned
<1>3. LaidOut /\ LaidOut'
  BY <1>2 DEF SweepInv, LaidOut
<1>4. Listed(M, N) /\ N >= 1 /\ N \in Nat
  BY <1>3 DEF LaidOut, Listed
<1>5. \A n \in 1 .. N : Parts(row_start, W, Stream(groups[n]), ClaimRows(M, n))
  BY <1>3, <1>4, StreamParts DEF LaidOut
<1>6. UNCHANGED landed => LandedRight'
  BY <1>2 DEF SweepInv, LandedRight
<1>7. CASE StartSweep
  <2>1. pc = "index" /\ pc' = "sweep" /\ ci' = 1 /\ queue' = Stream(groups[1]) /\ landed' = landed
    BY <1>7 DEF StartSweep
  <2>2. 1 \in 1 .. N
    BY <1>4
  <2>3. RowsUpTo(M, 1) = ClaimRows(M, 1)
    <3>1. 1 .. 1 = {1}
      OBVIOUS
    <3> QED BY <3>1 DEF RowsUpTo
  <2>4. DOMAIN landed = RowsUpTo(M, 1) \ ClaimRows(M, 1)
    BY <2>1, <2>3 DEF SweepInv
  <2>5. Parts(row_start, W, queue', ClaimRows(M, 1))
    BY <1>5, <2>1, <2>2
  <2>6. Sweeping(ClaimRows(M, 1))'
    BY <1>2, <2>1, <2>4, <2>5 DEF Sweeping
  <2>7. ci' \in 1 .. Len(tape')
    BY <1>2, <2>1, <2>2
  <2>8. LandedRight'
    BY <1>6, <2>1
  <2> QED BY <1>3, <2>1, <2>6, <2>7, <2>8 DEF SweepInv
<1>8. CASE Update
  <2> DEFINE p == queue[1]
             hi == p.abs + Len(p.rows)
  <2>1. /\ pc = "sweep" /\ queue # <<>> /\ pc' = pc /\ ci' = ci /\ queue' = Tail(queue)
        /\ landed' = [r \in DOMAIN landed \cup p.abs .. hi - 1 |->
                        LET old == IF r \in DOMAIN landed THEN landed[r] ELSE <<>>
                        IN  IF r \in p.abs .. hi - 1 THEN Append(old, p.rows[r - p.abs + 1]) ELSE old]
    BY <1>8 DEF Update
  <2>2. PICK R : Sweeping(R)
    BY <2>1 DEF SweepInv
  <2>3. /\ Parts(row_start, W, Tail(queue), R \ Span(p)) /\ Span(p) \subseteq R
        /\ HasRows(row_start, W, p) /\ p \in Pieces(W)
    <3>1. Parts(row_start, W, queue, R)
      BY <2>2 DEF Sweeping
    <3>2. p \in Pieces(W)
      BY <2>1, <3>1 DEF Parts
    <3> QED BY <2>1, <3>1, <3>2, PartsTail
  <2>4. p.abs \in Nat /\ Len(p.rows) \in Nat
    <3>1. p.abs \in Nat /\ p.rows \in Seq({v.name : v \in W} \X Nat)
      BY <2>3 DEF Pieces
    <3> QED BY <3>1
  <2>6. /\ DOMAIN landed = RowsUpTo(M, ci) \ R /\ R \subseteq ClaimRows(M, ci)
        /\ ci \in 1 .. N
    BY <2>1, <2>2 DEF Sweeping, SweepInv
  <2>7. ClaimRows(M, ci) \subseteq RowsUpTo(M, ci)
    BY <2>6 DEF RowsUpTo
  <2> HIDE DEF p
  <2>8. \A r \in Span(p) : r \notin DOMAIN landed
    BY <2>3, <2>6
  <2>a. Span(p) = p.abs .. hi - 1
    <3>1. hi = p.abs + Len(p.rows)
      OBVIOUS
    <3> HIDE DEF hi
    <3>2. p.abs + (Len(p.rows) - 1) = hi - 1
      BY <2>4, <3>1
    <3> QED BY <3>2 DEF Span
  <2> HIDE DEF hi
  <2>10. /\ DOMAIN landed' = Span(p) \cup DOMAIN landed
         /\ \A r \in Span(p) : landed'[r] = <<p.rows[r - p.abs + 1]>>
         /\ \A r \in DOMAIN landed : landed'[r] = landed[r]
    <3>1. \A r \in p.abs .. hi - 1 : r \notin DOMAIN landed
      BY <2>8, <2>a
    <3>2. DOMAIN landed' = DOMAIN landed \cup p.abs .. hi - 1
      BY <2>1
    <3>3. \A r \in p.abs .. hi - 1 : landed'[r] = Append(<<>>, p.rows[r - p.abs + 1])
      BY <2>1, <3>1
    <3>4. \A r \in DOMAIN landed : landed'[r] = landed[r]
      BY <2>1, <3>1
    <3>5. \A x : Append(<<>>, x) = <<x>>
      OBVIOUS
    <3> QED BY <2>a, <3>2, <3>3, <3>4, <3>5
  <2>11. LandedRight'
    <3> SUFFICES ASSUME NEW r \in DOMAIN landed'
                 PROVE  \E x : landed'[r] = <<x>> /\ RowHas(row_start, W, r, x)
      BY <1>2 DEF LandedRight
    <3>1. CASE r \in Span(p)
      <4>1. r - p.abs + 1 \in 1 .. Len(p.rows) /\ p.abs + (r - p.abs + 1) - 1 = r
        BY <2>4, <3>1 DEF Span
      <4>2. RowHas(row_start, W, r, p.rows[r - p.abs + 1])
        BY <2>3, <4>1 DEF HasRows
      <4> QED BY <2>10, <3>1, <4>2
    <3>2. CASE r \notin Span(p)
      BY <2>10, <3>2 DEF SweepInv, LandedRight
    <3> QED BY <3>1, <3>2
  <2>12. DOMAIN landed' = RowsUpTo(M, ci) \ (R \ Span(p))
    BY <2>3, <2>6, <2>7, <2>10
  <2>13. \E S : Sweeping(S)'
    <3>1. \E S : S = R \ Span(p)
      OBVIOUS
    <3>2. PICK S : S = R \ Span(p)
      BY <3>1
    <3>3. Sweeping(S)'
      BY <1>2, <2>1, <2>3, <2>6, <2>12, <3>2 DEF Sweeping
    <3> QED BY <3>3
  <2>14. ci' \in 1 .. Len(tape')
    BY <1>2, <2>1, <2>6
  <2> QED BY <1>3, <2>1, <2>11, <2>13, <2>14 DEF SweepInv
<1>9. CASE NextClaim
  <2>1. pc = "sweep" /\ queue = <<>> /\ landed' = landed
    BY <1>9 DEF NextClaim, prover
  <2>2. PICK R : Sweeping(R)
    BY <2>1 DEF SweepInv
  <2>3. R = {}
    BY <2>1, <2>2 DEF Sweeping, Parts
  <2>4. DOMAIN landed = RowsUpTo(M, ci) /\ ci \in 1 .. N
    BY <2>1, <2>2, <2>3 DEF Sweeping, SweepInv
  <2>5. CASE ci < N
    <3>1. pc' = pc /\ ci' = ci + 1 /\ queue' = Stream(groups[ci + 1])
      BY <1>9, <2>5 DEF NextClaim
    <3>2. ci + 1 \in 1 .. N /\ (ci + 1) - 1 = ci
      BY <1>4, <2>4, <2>5
    <3>3. DOMAIN landed = RowsUpTo(M, ci + 1) \ ClaimRows(M, ci + 1)
      <4>1. /\ RowsUpTo(M, ci + 1) = RowsUpTo(M, (ci + 1) - 1) \cup ClaimRows(M, ci + 1)
            /\ RowsUpTo(M, (ci + 1) - 1) \cap ClaimRows(M, ci + 1) = {}
        BY <1>4, <3>2, RowsGrow
      <4> QED BY <2>4, <3>2, <4>1
    <3>4. Parts(row_start, W, queue', ClaimRows(M, ci + 1))
      BY <1>5, <3>1, <3>2
    <3>5. \E S : Sweeping(S)'
      <4>1. \E S : S = ClaimRows(M, ci + 1)
        OBVIOUS
      <4>2. PICK S : S = ClaimRows(M, ci + 1)
        BY <4>1
      <4>3. Sweeping(S)'
        BY <1>2, <2>1, <3>1, <3>3, <3>4, <4>2 DEF Sweeping
      <4> QED BY <4>3
    <3>6. ci' \in 1 .. Len(tape') /\ LandedRight'
      BY <1>2, <1>6, <2>1, <3>1, <3>2
    <3> QED BY <1>3, <2>1, <3>1, <3>5, <3>6 DEF SweepInv
  <2>6. CASE ~(ci < N)
    <3>1. pc' = "compile"
      BY <1>9, <2>6 DEF NextClaim
    <3>2. ci = N
      BY <1>4, <2>4, <2>6
    <3>3. DOMAIN landed' = RowsUpTo(M, N)' /\ LandedRight'
      BY <1>2, <1>6, <2>1, <2>4, <3>2
    <3> QED BY <1>2, <1>3, <3>1, <3>3 DEF SweepInv
  <2> QED BY <2>5, <2>6
<1>10. ASSUME UNCHANGED landed, UNCHANGED <<pc, ci, queue>> \/ (pc = "index" /\ pc' = "index")
              \/ (pc \notin {"index", "sweep"} /\ pc' \in {"compile", "panic", "test", "done"})
       PROVE  SweepInv'
  <2>1. LandedRight' /\ RowsUpTo(M, N)' = RowsUpTo(M, N)
    BY <1>2, <1>6, <1>10
  <2>2. CASE UNCHANGED <<pc, ci, queue>>
    BY <1>2, <1>3, <1>10, <2>1, <2>2 DEF SweepInv, Sweeping
  <2>3. CASE pc = "index" /\ pc' = "index"
    BY <1>3, <1>10, <2>1, <2>3 DEF SweepInv
  <2>4. CASE pc \notin {"index", "sweep"} /\ pc' \in {"compile", "panic", "test", "done"}
    BY <1>2, <1>3, <1>10, <2>1, <2>4 DEF SweepInv
  <2> QED BY <1>10, <2>2, <2>3, <2>4
<1>11. CASE IndexClaim
  BY <1>10, <1>11 DEF IndexClaim
<1>12. CASE CompileClaim
  BY <1>10, <1>12 DEF CompileClaim, prover, SweepInv
<1>13. CASE Panic
  BY <1>10, <1>13 DEF Panic, prover
<1>14. CASE StartTest
  BY <1>10, <1>14 DEF StartTest, prover
<1>15. CASE TestFamily
  BY <1>10, <1>15 DEF TestFamily, prover
<1>16. CASE EndTest
  BY <1>10, <1>16 DEF EndTest, prover
<1>17. CASE UNCHANGED vars
  BY <1>10, <1>17 DEF vars
<1> QED BY <1>7, <1>8, <1>9, <1>11, <1>12, <1>13, <1>14, <1>15, <1>16, <1>17 DEF Next

\* Once the sweep is over, every row has landed once and is the layout's.
LEMMA SweepOnce == SweepInv => EachRowOnce
<1> SUFFICES ASSUME SweepInv, pc \notin {"index", "sweep"} PROVE
      /\ \A v \in AllVars : \A q \in 0 .. n_rows(v) - 1 : landed[row_start[v.name] + q] = <<<<v.name, q>>>>
      /\ \A r \in DOMAIN landed : Len(landed[r]) = 1
  BY DEF EachRowOnce
<1> DEFINE M == Mentioned
           N == Len(tape)
<1>1. Listed(M, N) /\ row_start = _layout(M) /\ groups = _claim_var_groups(M) /\ DOMAIN landed = RowsUpTo(M, N)
  BY DEF SweepInv, LaidOut
<1>2. ASSUME NEW r \in DOMAIN landed PROVE Len(landed[r]) = 1
  <2>1. PICK x : landed[r] = <<x>>
    BY <1>2 DEF SweepInv, LandedRight
  <2> QED BY <2>1
<1>3. ASSUME NEW v \in AllVars, NEW q \in 0 .. n_rows(v) - 1
      PROVE  landed[row_start[v.name] + q] = <<<<v.name, q>>>>
  <2> DEFINE r == row_start[v.name] + q
  <2>1. DOMAIN groups = 1 .. N
    BY <1>1 DEF _claim_var_groups, Listed
  <2>2. PICK n \in 1 .. N : v \in ToSet(groups[n])
    BY <1>3, <2>1 DEF AllVars
  <2>3. v \in Housed(M) /\ r \in ClaimRows(M, n)
    BY <1>1, <1>3, <2>2, GroupRows
  <2>4. r \in DOMAIN landed
    BY <1>1, <2>3 DEF RowsUpTo
  <2>5. PICK x : landed[r] = <<x>> /\ RowHas(row_start, Housed(M), r, x)
    BY <2>4 DEF SweepInv, LandedRight
  <2>6. RowHas(row_start, Housed(M), r, <<v.name, q>>)
    BY <1>3, <2>3 DEF RowHas
  <2>7. x = <<v.name, q>>
    BY <1>1, <2>5, <2>6, OneRow
  <2> QED BY <2>5, <2>7
<1> QED BY <1>2, <1>3

\* For every tape and every pair of chunk sizes: when the sweep is over, each row
\* of each variable has been folded at the place the layout gave it, and no row
\* has been folded twice (core.py _layout and _claim_var_groups, which walk the
\* claims apart, and _stream_sweep, which emits the groups block by block in
\* chunks and inner chunks).
THEOREM RowsOnce == Spec => []EachRowOnce
<1>1. Init => SweepInv
  BY SweepInit
<1>2. SweepInv /\ [Next]_vars => SweepInv'
  BY SweepStep
<1>3. SweepInv => EachRowOnce
  BY SweepOnce
<1> QED BY <1>1, <1>2, <1>3, PTL DEF Spec

---------------------------------------------------------------------------
(* The leaves of a block.                                                   *)

\* What f holds from e[0] to e[n], cut at e[1], e[2] and so on, and as a whole.
Climbs(n, e) == (\A k \in 0 .. n : e[k] \in Nat) /\ (\A k \in 1 .. n : e[k - 1] <= e[k])
Slices(n, e, f) == [k \in 1 .. n |-> [i \in 1 .. e[k] - e[k - 1] |-> f[e[k - 1] + i - 1]]]
Whole(n, e, f) == [k \in 1 .. e[n] - e[0] |-> f[e[0] + k - 1]]
Values(f) == {f[r] : r \in Nat}

\* The slices, one behind the other, are the whole.
LEMMA InOrder ==
  ASSUME NEW n \in Nat, n # 0, NEW e, Climbs(n, e), NEW f
  PROVE  Slices(n, e, f) \in Seq(Seq(Values(f))) /\ FlattenSeq(Slices(n, e, f)) = Whole(n, e, f)
<1> DEFINE pieces == Slices(n, e, f)
<1>0. /\ \A k \in 0 .. n : e[k] \in Nat
      /\ \A k \in 1 .. n : e[k - 1] <= e[k]
      /\ pieces = [k \in 1 .. n |-> [i \in 1 .. e[k] - e[k - 1] |-> f[e[k - 1] + i - 1]]]
  BY DEF Climbs, Slices
<1> HIDE DEF pieces
<1> USE <1>0
<1> DEFINE V == {f[r] : r \in Nat}
           w(k) == e[k] - e[k - 1]
           R == FlattenSeq(pieces)
<1>1. \A k \in 1 .. n : /\ k \in 0 .. n /\ k - 1 \in 0 .. n /\ e[k] \in Nat /\ e[k - 1] \in Nat
                        /\ w(k) \in Nat /\ e[k] = e[k - 1] + w(k)
  <2> TAKE k \in 1 .. n
  <2>1. k \in 0 .. n /\ k - 1 \in 0 .. n
    OBVIOUS
  <2>2. e[k] \in Nat /\ e[k - 1] \in Nat /\ e[k - 1] <= e[k]
    BY <2>1
  <2> QED BY <2>1, <2>2
<1>2. \A k \in 1 .. n : pieces[k] = [i \in 1 .. w(k) |-> f[e[k - 1] + i - 1]]
  OBVIOUS
<1>3. ASSUME NEW k \in 1 .. n
      PROVE  /\ pieces[k] \in Seq(V) /\ Len(pieces[k]) = w(k)
             /\ \A i \in 1 .. w(k) : pieces[k][i] = f[e[k - 1] + i - 1]
  <2> DEFINE a == e[k - 1]
             m == w(k)
             p == pieces[k]
  <2>1. a \in Nat /\ m \in Nat /\ p = [i \in 1 .. m |-> f[a + i - 1]]
    BY <1>1, <1>2
  <2> HIDE DEF a, m, p
  <2>2. \A i \in 1 .. m : a + i - 1 \in Nat
    BY <2>1
  <2>3. \A i \in 1 .. m : f[a + i - 1] \in V
    BY <2>2
  <2> HIDE DEF V
  <2>4. p \in Seq(V) /\ Len(p) = m /\ \A i \in 1 .. m : p[i] = f[a + i - 1]
    BY <2>1, <2>3
  <2> QED BY <2>4 DEF a, m, p
<1> HIDE DEF w, V
<1>4. Len(pieces) = n /\ pieces \in Seq(Seq(V))
  <2>1. DOMAIN pieces = 1 .. n /\ pieces = [k \in 1 .. n |-> pieces[k]]
    OBVIOUS
  <2>2. \A k \in 1 .. n : pieces[k] \in Seq(V)
    BY <1>3
  <2> QED BY <2>1, <2>2
<1>5. R \in Seq(V) /\ CutUp(pieces, R)
  <2>1. pieces \in Seq(Seq(V)) /\ Len(pieces) # 0 /\ R = FlattenSeq(pieces)
    BY <1>4
  <2> HIDE DEF R
  <2> QED BY ONLY <2>1, PiecesAre
<1> DEFINE c == [k \in 0 .. n |-> Came(pieces, k)]
<1> HIDE DEF R
<1>6. /\ c[0] = 0 /\ c[n] = Len(R) /\ Len(R) \in Nat
      /\ \A k \in 1 .. n : /\ c[k - 1] \in Nat /\ c[k] = c[k - 1] + w(k)
                           /\ \A i \in 1 .. w(k) : R[c[k - 1] + i] = f[e[k - 1] + i - 1]
  <2>1. \A k \in 0 .. n : c[k] = Came(pieces, k)
    OBVIOUS
  <2> HIDE DEF c
  <2>2. c[0] = 0 /\ c[n] = Len(R) /\ Len(R) \in Nat
    <3>1. 0 \in 0 .. n /\ n \in 0 .. n
      OBVIOUS
    <3>2. Came(pieces, 0) = 0 /\ Came(pieces, n) = Len(R)
      BY <1>4, <1>5 DEF CutUp
    <3>3. Len(R) \in Nat
      BY <1>5
    <3> QED BY ONLY <2>1, <3>1, <3>2, <3>3
  <2>3. ASSUME NEW k \in 1 .. n
        PROVE  /\ c[k - 1] \in Nat /\ c[k] = c[k - 1] + w(k)
               /\ \A i \in 1 .. w(k) : R[c[k - 1] + i] = f[e[k - 1] + i - 1]
    <3>1. Came(pieces, k - 1) \in Nat /\ Follows(R, Came(pieces, k - 1), pieces[k])
          /\ Came(pieces, k) = Came(pieces, k - 1) + Len(pieces[k])
      BY <1>4, <1>5 DEF CutUp
    <3>2. c[k - 1] = Came(pieces, k - 1) /\ c[k] = Came(pieces, k)
      BY <1>1, <2>1
    <3>3. Len(pieces[k]) = w(k) /\ \A i \in 1 .. w(k) : pieces[k][i] = f[e[k - 1] + i - 1]
      BY <1>3
    <3> QED BY <3>1, <3>2, <3>3 DEF Follows
  <2> QED BY <2>2, <2>3
<1> HIDE DEF c
<1>7. \A k \in 0 .. n : c[k] \in Nat /\ e[k] = e[0] + c[k]
  <2> DEFINE S == {k \in 0 .. n : c[k] \in Nat /\ e[k] = e[0] + c[k]}
  <2>1. 0 \in S
    <3>1. 0 \in 0 .. n /\ e[0] \in Nat
      OBVIOUS
    <3> QED BY <1>6, <3>1
  <2>2. ASSUME NEW k \in 1 .. n, k - 1 \in S PROVE k \in S
    <3>1. c[k - 1] \in Nat /\ e[k - 1] = e[0] + c[k - 1]
      BY ONLY <2>2
    <3>2. c[k] = c[k - 1] + w(k)
      BY <1>6
    <3>3. e[k] = e[k - 1] + w(k) /\ w(k) \in Nat /\ k \in 0 .. n
      BY <1>1
    <3>4. e[0] \in Nat
      <4>1. 0 \in 0 .. n
        OBVIOUS
      <4> QED BY <4>1
    <3>5. c[k] \in Nat /\ e[k] = e[0] + c[k]
      BY ONLY <3>1, <3>2, <3>3, <3>4
    <3> QED BY <3>3, <3>5
  <2> HIDE DEF S
  <2>3. 0 .. n \subseteq S
    BY <2>1, <2>2, UpTo
  <2> QED BY <2>3 DEF S
<1>8. e[0] \in Nat /\ e[n] - e[0] = Len(R)
  <2>1. 0 \in 0 .. n /\ n \in 0 .. n
    OBVIOUS
  <2>2. e[0] \in Nat /\ e[n] = e[0] + c[n] /\ c[n] = Len(R)
    BY <1>6, <1>7, <2>1
  <2> QED BY <1>6, <2>2
<1>9. ASSUME NEW j \in 1 .. Len(R) PROVE R[j] = f[e[0] + j - 1]
  <2> DEFINE x == j - 1
  <2>1. x \in Nat /\ c[0] <= x /\ x < c[n]
    BY <1>6
  <2>2. PICK k \in 1 .. n : c[k - 1] <= x /\ x < c[k]
    BY <1>7, <2>1, StepOver
  <2> DEFINE i == j - c[k - 1]
  <2>3. /\ c[k - 1] \in Nat /\ c[k] = c[k - 1] + w(k) /\ w(k) \in Nat
        /\ e[k - 1] = e[0] + c[k - 1]
    BY <1>1, <1>6, <1>7
  <2>4. i \in 1 .. w(k) /\ c[k - 1] + i = j
    BY <2>2, <2>3
  <2>5. e[k - 1] + i - 1 = e[0] + j - 1
    BY <1>8, <2>3
  <2>6. R[c[k - 1] + i] = f[e[k - 1] + i - 1]
    BY <1>6, <2>4
  <2> QED BY <2>4, <2>5, <2>6
<1>10. R = [j \in 1 .. Len(R) |-> f[e[0] + j - 1]]
  <2>1. DOMAIN R = 1 .. Len(R) /\ R = [j \in 1 .. Len(R) |-> R[j]]
    BY <1>5
  <2> QED BY <1>9, <2>1
<1>11. R = Whole(n, e, f)
  BY <1>8, <1>10 DEF Whole
<1> QED BY <1>4, <1>11 DEF R, V, Values, pieces

\* What the claims bring to a block, one behind the other.
LEMMA BlockTiles ==
  ASSUME LaidOut, NEW b \in 1 .. 5
  PROVE  Tiles(row_start, Housed(Mentioned), FlattenSeq([n \in DOMAIN groups |-> StreamOf(groups[n], Blocks[b])]),
               Start(Mentioned, b, 1), Start(Mentioned, b, Len(tape) + 1))
<1> DEFINE M == Mentioned
           N == Len(tape)
           W == Housed(M)
           ss == [n \in DOMAIN groups |-> StreamOf(groups[n], Blocks[b])]
           E == [k \in 0 .. N |-> Start(M, b, k + 1)]
<1>1. /\ Listed(M, N) /\ N \in Nat /\ N >= 1 /\ row_start = _layout(M) /\ groups = _claim_var_groups(M)
      /\ cut[1] \in Nat \ {0} /\ cut[2] \in Nat \ {0}
  BY DEF LaidOut, Listed
<1>2. DOMAIN groups = 1 .. N
  BY <1>1 DEF _claim_var_groups, Listed
<1>3. Len(ss) = N /\ \A k \in 1 .. N : ss[k] = StreamOf(groups[k], Blocks[b])
  BY <1>1, <1>2
<1>4. \A k \in 1 .. N : E[k - 1] = Start(M, b, k) /\ E[k] = Start(M, b, k + 1)
  <2> TAKE k \in 1 .. N
  <2>1. k \in 0 .. N /\ k - 1 \in 0 .. N /\ (k - 1) + 1 = k
    BY <1>1
  <2> QED BY <2>1
<1>5. E[0] = Start(M, b, 1) /\ E[N] = Start(M, b, N + 1) /\ E[0] \in Nat
  <2>1. 0 \in 0 .. N /\ N \in 0 .. N /\ 0 + 1 = 1
    BY <1>1
  <2>2. b \in Int /\ 1 \in Int /\ 1 <= 1
    OBVIOUS
  <2> QED BY <1>1, <2>1, <2>2, StartsAre
<1> HIDE DEF ss, E
<1>6. AllTiles(row_start, W, ss, E)
  <2> SUFFICES ASSUME NEW k \in 1 .. N PROVE Tiles(row_start, W, ss[k], E[k - 1], E[k])
    BY <1>3 DEF AllTiles
  <2>1. Tiles(row_start, Housed(M), StreamOf(groups[k], Blocks[b]), Start(M, b, k), Start(M, b, k + 1))
    BY <1>1, CellTiles
  <2> QED BY <1>3, <1>4, <2>1
<1> HIDE DEF W
<1>7. Tiles(row_start, W, FlattenSeq(ss), E[0], E[Len(ss)])
  <2>1. Len(ss) \in Nat /\ (Len(ss) = 0 => ss = <<>>) /\ E[0] \in Nat
    BY <1>1, <1>3, <1>5
  <2> QED BY ONLY <1>6, <2>1, TilesFlatten
<1> QED BY <1>3, <1>5, <1>7 DEF ss, W

\* The rows of a block are those from its first claim's to its last's.
LEMMA BlockRowsAre ==
  ASSUME LaidOut, NEW b \in 1 .. 5
  PROVE  BlockRows(Blocks[b]) = Start(Mentioned, b, 1) .. Start(Mentioned, b, Len(tape) + 1) - 1
<1> DEFINE M == Mentioned
           N == Len(tape)
           lo == Start(M, b, 1)
           hi == Start(M, b, N + 1)
           B == BlockRows(Blocks[b])
<1>1. Listed(M, N) /\ N \in Nat /\ N >= 1 /\ row_start = _layout(M) /\ groups = _claim_var_groups(M)
  BY DEF LaidOut, Listed
<1>2. DOMAIN groups = 1 .. N
  BY <1>1 DEF _claim_var_groups, Listed
<1>3. B = UNION {row_start[v.name] .. row_start[v.name] + n_rows(v) - 1 : v \in {v \in AllVars : v.blk = Blocks[b]}}
  <2>1. Blocks[b] # "blind"
    BY DEF Blocks
  <2> QED BY <2>1 DEF BlockRows
<1>4. \A v \in AllVars : n_rows(v) \in Nat
  <2> TAKE v \in AllVars
  <2>1. PICK n \in 1 .. N : v \in ToSet(groups[n])
    BY <1>2 DEF AllVars
  <2>2. groups[n] \in Seq(Walked(M))
    BY <1>1, GroupIs
  <2>3. v \in Walked(M)
    BY <2>1, <2>2 DEF ToSet
  <2> QED BY <1>1, <2>3 DEF Listed, MentionsOK
<1>5. lo \in Nat /\ hi \in Nat
  <2>1. b \in Int /\ 1 \in Int /\ N + 1 \in Int /\ 1 <= N + 1
    BY <1>1
  <2> QED BY <1>1, <2>1, StartsAre
<1>6. ASSUME NEW r \in B PROVE r \in lo .. hi - 1
  <2>1. PICK v \in AllVars : v.blk = Blocks[b] /\ r \in row_start[v.name] .. row_start[v.name] + n_rows(v) - 1
    BY <1>3, <1>6
  <2>2. PICK n \in 1 .. N : v \in ToSet(groups[n])
    BY <1>2 DEF AllVars
  <2>3. \E s \in Spots(M) : Met(M, s) = v
    BY <1>1, <2>1, <2>2, GroupMet
  <2>4. PICK s \in Spots(M) : Met(M, s) = v
    BY <2>3
  <2>5. row_start[v.name] = First(M, s) /\ First(M, s) \in Nat
    BY <1>1, <2>4, LayoutIs, FirstIs
  <2> DEFINE q == r - row_start[v.name]
  <2>6. q \in 0 .. n_rows(v) - 1 /\ row_start[v.name] + q = r
    BY <1>4, <2>1, <2>5
  <2> HIDE DEF q
  <2>7. r \in CellRows(M, b, n)
    BY <1>1, <2>1, <2>2, <2>6, GroupCell
  <2>8. /\ Start(M, b, 1) \in Nat /\ Start(M, b, n) \in Nat /\ Start(M, b, 1) <= Start(M, b, n)
        /\ Start(M, b, n + 1) \in Nat /\ Start(M, b, n + 1) <= Start(M, b, N + 1)
    <3>1. b \in Int /\ 1 \in Int /\ n \in Int /\ n + 1 \in Int /\ N + 1 \in Int /\ 1 <= n /\ n + 1 <= N + 1
      BY <1>1
    <3> QED BY <1>1, <3>1, StartsAre
  <2> QED BY <1>5, <2>7, <2>8 DEF CellRows
<1>7. ASSUME NEW r \in lo .. hi - 1 PROVE r \in B
  <2> DEFINE W == Housed(M)
             ps == FlattenSeq([n \in DOMAIN groups |-> StreamOf(groups[n], Blocks[b])])
  <2>1. Tiles(row_start, Housed(M), ps, lo, hi)
    BY BlockTiles
  <2> HIDE DEF ps, lo, hi, W
  <2>2. Parts(row_start, Housed(M), ps, lo .. hi - 1)
    BY <2>1, TilesParts
  <2>3. PICK i \in 1 .. Len(ps) : r \in Span(ps[i]) /\ HasRows(row_start, Housed(M), ps[i]) /\ ps[i] \in Pieces(Housed(M))
    BY <1>7, <2>2 DEF Parts
  <2> DEFINE p == ps[i]
             k == r - p.abs + 1
  <2>4. p.abs \in Nat /\ Len(p.rows) \in Nat
    <3>1. p.abs \in Nat /\ p.rows \in Seq({v.name : v \in Housed(M)} \X Nat)
      BY <2>3 DEF Pieces
    <3> QED BY <3>1
  <2> HIDE DEF p
  <2>5. k \in 1 .. Len(p.rows) /\ p.abs + k - 1 = r
    <3>1. r \in p.abs .. p.abs + Len(p.rows) - 1
      BY <2>3 DEF Span, p
    <3> QED BY <2>4, <3>1
  <2>6. RowHas(row_start, Housed(M), r, p.rows[k])
    <3>1. \A z \in 1 .. Len(p.rows) : RowHas(row_start, Housed(M), p.abs + z - 1, p.rows[z])
      BY <2>3 DEF HasRows, p
    <3> HIDE DEF k
    <3> QED BY <2>5, <3>1
  <2>7. PICK v \in Housed(M) : \E q \in 0 .. n_rows(v) - 1 : r = row_start[v.name] + q
    BY <2>6 DEF RowHas
  <2>8. PICK q \in 0 .. n_rows(v) - 1 : r = row_start[v.name] + q
    BY <2>7
  <2>9. PICK s \in Spots(M) : v = Met(M, s)
    BY <2>7 DEF Housed
  <2> DEFINE c == s[1]
             n == s[2]
  <2>10. c \in 1 .. 5 /\ n \in 1 .. N /\ v.blk = Blocks[c] /\ v \in ToSet(groups[n])
    BY <1>1, <2>9, SpotIs, MetInGroup
  <2> HIDE DEF c, n
  <2>11. r \in CellRows(M, c, n)
    BY <1>1, <2>8, <2>10, GroupCell
  <2>12. ~(c < b)
    <3> SUFFICES ASSUME c < b PROVE FALSE
      OBVIOUS
    <3>1. c \in Int /\ n + 1 \in Int /\ b \in Int /\ 1 \in Int
      BY <2>10
    <3>2. Start(M, c, n + 1) \in Nat /\ Start(M, c, n + 1) <= Start(M, b, 1)
      BY <1>1, <3>1, StartsAre
    <3>3. Start(M, c, n) \in Nat
      <4>1. c \in Int /\ n \in Int /\ n <= n
        BY <2>10
      <4> QED BY <1>1, <4>1, StartsAre
    <3> QED BY <1>5, <1>7, <2>11, <3>2, <3>3 DEF CellRows, lo
  <2>13. ~(b < c)
    <3> SUFFICES ASSUME b < c PROVE FALSE
      OBVIOUS
    <3>1. c \in Int /\ n \in Int /\ b \in Int /\ N + 1 \in Int
      BY <1>1, <2>10
    <3>2. Start(M, c, n) \in Nat /\ Start(M, b, N + 1) <= Start(M, c, n)
      BY <1>1, <3>1, StartsAre
    <3>3. Start(M, c, n + 1) \in Nat
      <4>1. c \in Int /\ n + 1 \in Int /\ n + 1 <= n + 1
        BY <2>10
      <4> QED BY <1>1, <4>1, StartsAre
    <3> QED BY <1>5, <1>7, <2>11, <3>2, <3>3 DEF CellRows, hi
  <2>14. c = b
    BY <2>10, <2>12, <2>13
  <2>15. v \in AllVars /\ v.blk = Blocks[b]
    BY <1>2, <2>10, <2>14 DEF AllVars
  <2>16. r \in row_start[v.name] .. row_start[v.name] + n_rows(v) - 1
    <3>1. row_start[v.name] = First(M, s) /\ First(M, s) \in Nat
      BY <1>1, <2>9, LayoutIs, FirstIs
    <3>2. n_rows(v) \in Nat
      BY <1>4, <2>15
    <3> QED BY <2>8, <3>1, <3>2
  <2> QED BY <1>3, <2>15, <2>16
<1> QED BY <1>6, <1>7

\* What arrives of block b is its rows, ascending, in n pieces.
InRows(b, n, e) ==
  /\ n \in Nat /\ n # 0 /\ Climbs(n, e)
  /\ Arrivals(b) = [k \in 1 .. n |-> [i \in 1 .. e[k] - e[k - 1] |-> e[k - 1] + i - 1]]
  /\ BlockRows(b) = e[0] .. e[n] - 1

\* What the sweep brings to a block that has rows are those rows, ascending.
LEMMA ArrivalsAre ==
  ASSUME LaidOut, NEW b \in 1 .. 5, BlockRows(Blocks[b]) # {}
  PROVE  \E n, e : InRows(Blocks[b], n, e)
<1> DEFINE W == Housed(Mentioned)
           ps == FlattenSeq([n \in DOMAIN groups |-> StreamOf(groups[n], Blocks[b])])
           lo == Start(Mentioned, b, 1)
           hi == Start(Mentioned, b, Len(tape) + 1)
           n == Len(ps)
<1>1. Tiles(row_start, W, ps, lo, hi) /\ BlockRows(Blocks[b]) = lo .. hi - 1
  BY BlockTiles, BlockRowsAre
<1>2. Arrivals(Blocks[b]) = [k \in DOMAIN ps |-> [i \in DOMAIN ps[k].rows |-> ps[k].abs + i - 1]]
  <2>1. Blocks[b] # "blind"
    BY DEF Blocks
  <2> QED BY <2>1 DEF Arrivals
<1> HIDE DEF W, ps, lo, hi, n
<1>3. PICK e : TilesAt(row_start, W, ps, lo, hi, e)
  BY <1>1 DEF Tiles
<1>4. ps \in Seq(Pieces(W)) /\ n \in Nat /\ DOMAIN ps = 1 .. n /\ n = Len(ps)
  <2>1. ps \in Seq(Pieces(W))
    BY <1>1 DEF Tiles
  <2> QED BY <2>1 DEF n
<1>5. /\ e[0] = lo /\ e[n] = hi /\ (\A k \in 0 .. n : e[k] \in Nat)
      /\ \A k \in 1 .. n : ps[k].abs = e[k - 1] /\ e[k] = e[k - 1] + Len(ps[k].rows)
  BY <1>3, <1>4 DEF TilesAt
<1>6. n # 0
  <2> SUFFICES ASSUME n = 0 PROVE FALSE
    OBVIOUS
  <2>1. lo = hi /\ lo \in Nat
    <3>1. 0 \in 0 .. n
      BY <1>4
    <3> QED BY <1>5, <3>1
  <2>2. lo .. hi - 1 = {}
    BY <2>1
  <2> QED BY <1>1, <2>2
<1>7. ASSUME NEW k \in 1 .. n
      PROVE  /\ e[k - 1] <= e[k] /\ e[k] - e[k - 1] = Len(ps[k].rows)
             /\ DOMAIN ps[k].rows = 1 .. e[k] - e[k - 1] /\ ps[k].abs = e[k - 1]
  <2>1. ps[k] \in Pieces(W)
    BY <1>4
  <2>2. ps[k].rows \in Seq({v.name : v \in W} \X Nat)
    BY <2>1 DEF Pieces
  <2>3. Len(ps[k].rows) \in Nat /\ DOMAIN ps[k].rows = 1 .. Len(ps[k].rows)
    BY <2>2
  <2>4. k \in 0 .. n /\ k - 1 \in 0 .. n
    BY <1>4
  <2>5. e[k] \in Nat /\ e[k - 1] \in Nat /\ e[k] = e[k - 1] + Len(ps[k].rows) /\ ps[k].abs = e[k - 1]
    BY <1>5, <2>4
  <2>6. e[k - 1] <= e[k] /\ e[k] - e[k - 1] = Len(ps[k].rows)
    BY ONLY <2>3, <2>5
  <2> QED BY ONLY <2>3, <2>5, <2>6
<1>8. Arrivals(Blocks[b]) = [k \in 1 .. n |-> [i \in 1 .. e[k] - e[k - 1] |-> e[k - 1] + i - 1]]
  <2>1. ASSUME NEW k \in 1 .. n
        PROVE  [i \in DOMAIN ps[k].rows |-> ps[k].abs + i - 1] = [i \in 1 .. e[k] - e[k - 1] |-> e[k - 1] + i - 1]
    BY <1>7
  <2> QED BY <1>2, <1>4, <2>1
<1>9. InRows(Blocks[b], n, e)
  BY <1>1, <1>4, <1>5, <1>6, <1>7, <1>8 DEF InRows, Climbs
<1> QED BY <1>9

\* The blinding rows come in one piece.
LEMMA BlindArrives == \E n, e : InRows("blind", n, e)
<1> DEFINE e == [k \in 0 .. 1 |-> IF k = 0 THEN 0 ELSE 3]
<1>1. e[0] = 0 /\ e[1] = 3 /\ 0 .. 1 = {0, 1} /\ 1 .. 1 = {1}
  OBVIOUS
<1> HIDE DEF e
<1>2. (\A k \in 0 .. 1 : e[k] \in Nat) /\ (\A k \in 1 .. 1 : e[k - 1] <= e[k])
  BY <1>1
<1>3. BlockRows("blind") = e[0] .. e[1] - 1
  BY <1>1 DEF BlockRows, NUM_BLINDING_ROWS
<1>4. Arrivals("blind") = [k \in 1 .. 1 |-> [i \in 1 .. e[k] - e[k - 1] |-> e[k - 1] + i - 1]]
  <2>1. [i \in 1 .. 3 |-> i - 1] = [i \in 1 .. e[1] - e[1 - 1] |-> e[1 - 1] + i - 1]
    BY <1>1
  <2>2. Arrivals("blind") = <<[i \in 1 .. 3 |-> i - 1]>>
    BY DEF Arrivals, NUM_BLINDING_ROWS
  <2>3. \A x : <<x>> = [k \in {1} |-> x]
    OBVIOUS
  <2>4. [k \in 1 .. 1 |-> [i \in 1 .. e[k] - e[k - 1] |-> e[k - 1] + i - 1]]
          = [k \in {1} |-> [i \in 1 .. e[1] - e[1 - 1] |-> e[1 - 1] + i - 1]]
    BY <1>1
  <2> QED BY <2>1, <2>2, <2>3, <2>4
<1>5. InRows("blind", 1, e)
  BY <1>2, <1>3, <1>4 DEF InRows, Climbs
<1> QED BY <1>5

\* The rows of an interval, ascending.
LEMMA OrderedIs ==
  ASSUME NEW a \in Nat, NEW z \in Nat, a < z
  PROVE  Ordered(a .. z - 1) = [k \in 1 .. z - a |-> a + k - 1]
<1> DEFINE S == a .. z - 1
<1>1. a \in S /\ \A x \in S : a <= x /\ x \in Int
  OBVIOUS
<1>2. Cardinality(S) = z - a
  <2>1. a \in Int /\ z - 1 \in Int
    OBVIOUS
  <2>2. Cardinality(a .. z - 1) = IF a > z - 1 THEN 0 ELSE (z - 1) - a + 1
    BY <2>1, FS_Interval
  <2> QED BY <2>2
<1> HIDE DEF S
<1>3. Min(S) = a
  <2>1. \A x \in S : (\A y \in S : x <= y) => x = a
    BY <1>1
  <2> QED BY <1>1, <2>1 DEF Min
<1>4. Ordered(S) = [k \in 1 .. z - a |-> a + k - 1]
  BY <1>2, <1>3 DEF Ordered
<1> QED BY <1>4 DEF S

\* Column j of the rows S of a code, and the tree over the hashes of the columns.
ColumnAt(S, cw, j) == [k \in DOMAIN Ordered(S) |-> cw[Ordered(S)[k]][j]]
TreeAt(S, cw) == merkle_build_blake3([j \in 1 .. N_LIG |-> merkle_leaf(ColumnAt(S, cw, j - 1))])

\* The leaf the accumulator makes of a column of a block is the hash of the
\* column in the order of the rows.
LEMMA LeafIsColumn ==
  ASSUME NEW b, NEW n, NEW e, InRows(b, n, e), BlockRows(b) # {}, NEW cw, NEW j
  PROVE  ColumnDigest(Column(Arrivals(b), cw, j)) = merkle_leaf(ColumnAt(BlockRows(b), cw, j))
<1> DEFINE f == [r \in Nat |-> cw[r][j]]
           pieces == Slices(n, e, f)
           R == Whole(n, e, f)
<1>1. /\ n \in Nat /\ n # 0 /\ (\A k \in 0 .. n : e[k] \in Nat) /\ (\A k \in 1 .. n : e[k - 1] <= e[k])
      /\ Arrivals(b) = [k \in 1 .. n |-> [i \in 1 .. e[k] - e[k - 1] |-> e[k - 1] + i - 1]]
      /\ BlockRows(b) = e[0] .. e[n] - 1 /\ Climbs(n, e)
  BY DEF InRows, Climbs
<1>2. e[0] \in Nat /\ e[n] \in Nat /\ e[0] < e[n]
  <2>1. 0 \in 0 .. n /\ n \in 0 .. n
    BY <1>1
  <2>2. e[0] \in Nat /\ e[n] \in Nat
    BY <1>1, <2>1
  <2> QED BY <1>1, <2>2
<1>3. \A r \in Nat : f[r] = cw[r][j]
  OBVIOUS
<1> HIDE DEF f
<1>4. pieces \in Seq(Seq(Values(f))) /\ FlattenSeq(pieces) = R
  BY <1>1, InOrder
<1>5. Column(Arrivals(b), cw, j) = pieces
  <2>1. DOMAIN Arrivals(b) = 1 .. n
    BY <1>1
  <2>2. ASSUME NEW k \in 1 .. n
        PROVE  [i \in DOMAIN Arrivals(b)[k] |-> cw[Arrivals(b)[k][i]][j]]
                 = [i \in 1 .. e[k] - e[k - 1] |-> f[e[k - 1] + i - 1]]
    <3> DEFINE a == e[k - 1]
               m == e[k] - e[k - 1]
    <3>1. k \in 0 .. n /\ k - 1 \in 0 .. n
      BY <1>1
    <3>2. a \in Nat /\ m \in Nat
      BY <1>1, <3>1
    <3>3. Arrivals(b)[k] = [i \in 1 .. m |-> a + i - 1]
      BY <1>1
    <3> HIDE DEF a, m
    <3>4. DOMAIN Arrivals(b)[k] = 1 .. m /\ \A i \in 1 .. m : Arrivals(b)[k][i] = a + i - 1
      BY <3>3
    <3>5. \A i \in 1 .. m : a + i - 1 \in Nat
      BY <3>2
    <3>6. \A i \in 1 .. m : cw[Arrivals(b)[k][i]][j] = f[a + i - 1]
      BY <1>3, <3>4, <3>5
    <3>7. [i \in DOMAIN Arrivals(b)[k] |-> cw[Arrivals(b)[k][i]][j]] = [i \in 1 .. m |-> f[a + i - 1]]
      BY <3>4, <3>6
    <3> QED BY <3>7 DEF a, m
  <2>3. Column(Arrivals(b), cw, j) = [k \in 1 .. n |-> [i \in DOMAIN Arrivals(b)[k] |-> cw[Arrivals(b)[k][i]][j]]]
    BY <2>1 DEF Column
  <2> QED BY <2>2, <2>3 DEF Slices
<1>6. ColumnAt(BlockRows(b), cw, j) = R
  <2> DEFINE a == e[0]
             m == e[n] - e[0]
             o == Ordered(BlockRows(b))
  <2>1. a \in Nat /\ m \in Nat
    BY <1>2
  <2>2. o = [k \in 1 .. m |-> a + k - 1]
    BY <1>1, <1>2, OrderedIs
  <2>3. ColumnAt(BlockRows(b), cw, j) = [k \in DOMAIN o |-> cw[o[k]][j]]
    BY DEF ColumnAt
  <2>4. R = [k \in 1 .. m |-> f[a + k - 1]]
    BY DEF Whole
  <2> HIDE DEF a, m, o, R
  <2>5. DOMAIN o = 1 .. m /\ \A k \in 1 .. m : o[k] = a + k - 1 /\ a + k - 1 \in Nat
    BY <2>1, <2>2
  <2>6. \A k \in 1 .. m : cw[o[k]][j] = f[a + k - 1]
    BY <1>3, <2>5
  <2> QED BY <2>3, <2>4, <2>5, <2>6
<1>7. Len(R) > 0
  <2>1. e[n] - e[0] \in Nat /\ e[n] - e[0] > 0
    BY <1>2
  <2> QED BY <2>1 DEF Whole
<1> HIDE DEF pieces, R
<1>8. ColumnDigest(pieces) = merkle_leaf(FlattenSeq(pieces))
  <2>1. Len(FlattenSeq(pieces)) > 0
    BY <1>4, <1>7
  <2> QED BY ONLY <1>4, <2>1, StreamedDigestIsLeaf
<1> QED BY <1>4, <1>5, <1>6, <1>8

---------------------------------------------------------------------------
(* The openings.                                                            *)

\* The rows of the n-th block of the commitment.
BlockSpan(n) ==
  IF n = 1 THEN 0 .. NUM_BLINDING_ROWS - 1
  ELSE Start(Mentioned, n - 1, 1) .. Start(Mentioned, n - 1, Len(tape) + 1) - 1

\* The blocks of the commitment: the blinding rows, then those of the layout.
LEMMA BlockNamesAre ==
  DOMAIN BlockNames = 1 .. 6 /\ BlockNames[1] = "blind" /\ \A n \in 2 .. 6 : n - 1 \in 1 .. 5 /\ BlockNames[n] = Blocks[n - 1]
<1> DEFINE h == <<"blind">>
           t == Blocks
           V == {t[k] : k \in 1 .. 5} \cup {"blind"}
<1>1. t \in Seq(V) /\ Len(t) = 5
  <2>1. Len(t) = 5 /\ t = [k \in 1 .. 5 |-> t[k]]
    BY DEF Blocks
  <2> HIDE DEF t
  <2>2. \A k \in 1 .. 5 : t[k] \in V
    OBVIOUS
  <2> HIDE DEF V
  <2> QED BY <2>1, <2>2
<1>2. h \in Seq(V) /\ Len(h) = 1 /\ h[1] = "blind"
  <2>1. "blind" \in V
    OBVIOUS
  <2> HIDE DEF V
  <2> QED BY <2>1
<1>3. BlockNames = h \o t
  BY DEF BlockNames
<1> HIDE DEF h, t, V
<1>4. /\ h \o t \in Seq(V) /\ Len(h \o t) = Len(h) + Len(t)
      /\ \A i \in 1 .. Len(h) : (h \o t)[i] = h[i]
      /\ \A i \in 1 .. Len(t) : (h \o t)[Len(h) + i] = t[i]
  <2>1. h \in Seq(V) /\ t \in Seq(V)
    BY <1>1, <1>2
  <2> QED BY ONLY <2>1
<1>5. DOMAIN (h \o t) = 1 .. 6 /\ (h \o t)[1] = "blind"
  BY <1>1, <1>2, <1>4
<1>6. ASSUME NEW n \in 2 .. 6 PROVE n - 1 \in 1 .. 5 /\ (h \o t)[n] = t[n - 1]
  <2>1. n - 1 \in 1 .. Len(t) /\ Len(h) + (n - 1) = n
    BY <1>1, <1>2
  <2>2. (h \o t)[Len(h) + (n - 1)] = t[n - 1]
    BY <1>4, <2>1
  <2> QED BY <1>1, <2>1, <2>2
<1> QED BY <1>3, <1>5, <1>6 DEF t

\* The tree of a block is that over the hashes of its columns.
LEMMA ArtifactIs ==
  ASSUME LaidOut, NEW n \in DOMAIN BlockNames, NEW cw
  PROVE  /\ BlockRows(BlockNames[n]) = BlockSpan(n)
         /\ Artifact(BlockNames[n], cw) = IF BlockSpan(n) = {} THEN <<>> ELSE TreeAt(BlockSpan(n), cw)
<1> DEFINE b == BlockNames[n]
<1>1. BlockRows(b) = BlockSpan(n) /\ (BlockRows(b) # {} => \E m, e : InRows(b, m, e))
  <2>1. CASE n = 1
    <3>1. b = "blind"
      BY <2>1, BlockNamesAre
    <3>2. BlockRows(b) = BlockSpan(n)
      BY <2>1, <3>1 DEF BlockRows, BlockSpan
    <3> QED BY <3>1, <3>2, BlindArrives
  <2>2. CASE n # 1
    <3>1. n \in 2 .. 6
      BY <2>2, BlockNamesAre
    <3>2. n - 1 \in 1 .. 5 /\ b = Blocks[n - 1]
      BY <3>1, BlockNamesAre
    <3>3. BlockRows(b) = BlockSpan(n)
      BY <2>2, <3>2, BlockRowsAre DEF BlockSpan
    <3> QED BY <3>2, <3>3, ArrivalsAre
  <2> QED BY <2>1, <2>2
<1> HIDE DEF b
<1>2. CASE BlockRows(b) = {}
  BY <1>1, <1>2 DEF Artifact, b
<1>3. CASE BlockRows(b) # {}
  <2>1. PICK m, e : InRows(b, m, e)
    BY <1>1, <1>3
  <2>2. \A j \in 1 .. N_LIG : ColumnDigest(Column(Arrivals(b), cw, j - 1)) = merkle_leaf(ColumnAt(BlockRows(b), cw, j - 1))
    BY <1>3, <2>1, LeafIsColumn
  <2>3. [j \in 1 .. N_LIG |-> ColumnDigest(Column(Arrivals(b), cw, j - 1))]
          = [j \in 1 .. N_LIG |-> merkle_leaf(ColumnAt(BlockRows(b), cw, j - 1))]
    BY <2>2
  <2>4. Artifact(b, cw) = TreeAt(BlockRows(b), cw)
    BY <1>3, <2>3 DEF Artifact, TreeOf, TreeAt
  <2> QED BY <1>1, <1>3, <2>4 DEF b
<1> QED BY <1>2, <1>3

\* A leaf of a tree opens at its own index only.
LEMMA OpensOnce ==
  ASSUME NEW n \in Nat \ {0}, NEW leaves, Len(leaves) = n, NEW j \in 0 .. n - 1, NEW leaf, leaf = leaves[j + 1],
         NEW levels, levels = merkle_build_blake3(leaves)
  PROVE  OpensOnlyAt(leaf, merkle_path(levels, j), Root(levels), n) = {j}
<1>1. /\ merkle_verify(leaf, merkle_path(levels, j), Root(levels), j, n)
      /\ \A i \in Nat : merkle_verify(leaf, merkle_path(levels, j), Root(levels), i, n) => i = j
  BY PathsOpenOneLeaf
<1>2. j \in 0 .. 2 * n /\ \A i \in 0 .. 2 * n : i \in Nat
  OBVIOUS
<1> QED BY <1>1, <1>2 DEF OpensOnlyAt

\* The instance of PathsOpenOneLeaf that the run of TLC also evaluates.
LEMMA SmallOnes == SmallTreesOpen
<1> SUFFICES ASSUME NEW n \in 1 .. 9, NEW j \in 0 .. n - 1,
                    NEW levels, levels = merkle_build_blake3([k \in 1 .. n |-> <<"leaf", k>>])
             PROVE  OpensOnlyAt(<<"leaf", j + 1>>, merkle_path(levels, j), Root(levels), n) = {j}
  BY DEF SmallTreesOpen
<1> DEFINE leaves == [k \in 1 .. n |-> <<"leaf", k>>]
<1>1. n \in Nat \ {0} /\ Len(leaves) = n
  OBVIOUS
<1>2. j + 1 \in 1 .. n
  OBVIOUS
<1>3. <<"leaf", j + 1>> = leaves[j + 1] /\ levels = merkle_build_blake3(leaves)
  BY <1>2
<1> DEFINE leaf == <<"leaf", j + 1>>
<1>4. /\ n \in Nat \ {0} /\ Len(leaves) = n /\ j \in 0 .. n - 1 /\ leaf = leaves[j + 1]
      /\ levels = merkle_build_blake3(leaves)
  BY <1>1, <1>3
<1> HIDE DEF leaves, leaf
<1>5. OpensOnlyAt(leaf, merkle_path(levels, j), Root(levels), n) = {j}
  BY ONLY <1>4, OpensOnce
<1> QED BY <1>5 DEF leaf

\* So does a column of a block.
LEMMA TreeOpens ==
  ASSUME NEW S, NEW cw, N_LIG \in Nat \ {0}, NEW j \in 0 .. N_LIG - 1
  PROVE  OpensOnlyAt(merkle_leaf(ColumnAt(S, cw, j)), merkle_path(TreeAt(S, cw), j), Root(TreeAt(S, cw)), N_LIG) = {j}
<1> DEFINE leaves == [k \in 1 .. N_LIG |-> merkle_leaf(ColumnAt(S, cw, k - 1))]
           leaf == merkle_leaf(ColumnAt(S, cw, j))
           levels == TreeAt(S, cw)
           n == N_LIG
<1>1. j + 1 \in 1 .. N_LIG /\ (j + 1) - 1 = j
  OBVIOUS
<1>2. /\ n \in Nat \ {0} /\ Len(leaves) = n /\ j \in 0 .. n - 1 /\ leaf = leaves[j + 1]
      /\ levels = merkle_build_blake3(leaves)
  BY <1>1 DEF TreeAt
<1> HIDE DEF leaves, leaf, levels, n
<1>3. OpensOnlyAt(leaf, merkle_path(levels, j), Root(levels), n) = {j}
  BY ONLY <1>2, OpensOnce
<1> QED BY <1>3 DEF leaf, levels, n

\* What was committed to, and what the proof shows of it.
Committed ==
  \A n \in DOMAIN BlockNames : arts[n] = IF BlockSpan(n) = {} THEN <<>> ELSE TreeAt(BlockSpan(n), codes)
Shown ==
  /\ proof.Q \in Queries
  /\ \A n \in DOMAIN BlockNames : \A j \in proof.Q : BlockSpan(n) # {} => proof.opened[n][j] = ColumnAt(BlockSpan(n), codes, j)
  /\ \A n \in DOMAIN BlockNames : \A j \in proof.Q : arts[n] # <<>> => proof.paths[n][j] = merkle_path(arts[n], j)
LeavesInv ==
  /\ LaidOut
  /\ step \in {"commit", "respond", "open", "check", "verdict"}
  /\ step # "commit" => Committed
  /\ step \in {"check", "verdict"} => Shown

\* The prover starts with nothing committed.
LEMMA LeavesInit == ArgumentInit => LeavesInv
BY SweepInit DEF ArgumentInit, LeavesInv, SweepInv

\* No step of either side moves the layout.
LEMMA FixedStays == [Next]_vars => UNCHANGED fixed
BY DEF Next, IndexClaim, StartSweep, Update, NextClaim, CompileClaim, Panic, StartTest, TestFamily, EndTest, vars, fixed

\* No step of either side disturbs it: the layout never moves, the commitment is
\* made once from the codewords and never changed, and the openings come from both.
LEMMA LeavesStep == LeavesInv /\ [ArgumentNext]_allvars => LeavesInv'
<1> SUFFICES ASSUME LeavesInv, [ArgumentNext]_allvars PROVE LeavesInv'
  OBVIOUS
<1>1. UNCHANGED <<tape, row_start, groups, cut>>
  <2>1. [Next]_vars \/ UNCHANGED vars
    BY DEF ArgumentNext, allvars, Commit, Respond, Open, Check
  <2> QED BY <2>1, FixedStays DEF fixed, vars
<1>2. UNCHANGED Mentioned /\ LaidOut'
  BY <1>1 DEF LeavesInv, LaidOut, Mentioned
<1>3. \A n : BlockSpan(n)' = BlockSpan(n)
  BY <1>1, <1>2 DEF BlockSpan
<1>4. UNCHANGED <<codes, arts>> => (Committed => Committed')
  BY <1>3 DEF Committed
<1>5. UNCHANGED <<codes, arts, proof>> => (Shown => Shown')
  BY <1>3 DEF Shown
<1>6. CASE UNCHANGED argument
  BY <1>2, <1>4, <1>5, <1>6 DEF argument, LeavesInv
<1>7. CASE Commit
  <2>1. step' = "respond"
    BY <1>7 DEF Commit
  <2>2. PICK cw : codes' = cw /\ arts' = [n \in DOMAIN BlockNames |-> Artifact(BlockNames[n], cw)]
    BY <1>7 DEF Commit
  <2>3. Committed'
    <3> SUFFICES ASSUME NEW n \in DOMAIN BlockNames
                 PROVE  arts'[n] = IF BlockSpan(n) = {} THEN <<>> ELSE TreeAt(BlockSpan(n), codes')
      BY <1>3 DEF Committed
    <3>1. Artifact(BlockNames[n], cw) = IF BlockSpan(n) = {} THEN <<>> ELSE TreeAt(BlockSpan(n), cw)
      BY ArtifactIs DEF LeavesInv
    <3> QED BY <2>2, <3>1
  <2> QED BY <1>2, <2>1, <2>3 DEF LeavesInv
<1>8. CASE Respond
  <2>1. step = "respond" /\ step' = "open" /\ UNCHANGED <<codes, arts>>
    BY <1>8 DEF Respond
  <2> QED BY <1>2, <1>4, <2>1 DEF LeavesInv
<1>9. CASE Open
  <2>1. step = "open" /\ step' = "check" /\ UNCHANGED <<codes, arts>>
    BY <1>9 DEF Open
  <2>2. PICK Q \in Queries :
          /\ proof'.Q = Q
          /\ proof'.opened = [n \in DOMAIN BlockNames |-> [j \in Q |-> Opened(BlockNames[n], j)]]
          /\ proof'.paths = [n \in DOMAIN BlockNames |-> IF arts[n] = <<>> THEN <<>> ELSE [j \in Q |-> merkle_path(arts[n], j)]]
    BY <1>9 DEF Open
  <2>3. Shown'
    <3>1. ASSUME NEW n \in DOMAIN BlockNames, NEW j \in Q, BlockSpan(n) # {}
          PROVE  proof'.opened[n][j] = ColumnAt(BlockSpan(n), codes, j)
      <4>1. BlockRows(BlockNames[n]) = BlockSpan(n)
        BY ArtifactIs DEF LeavesInv
      <4>2. Opened(BlockNames[n], j) = ColumnAt(BlockSpan(n), codes, j)
        BY <3>1, <4>1 DEF Opened, ColumnAt
      <4> QED BY <2>2, <4>2
    <3>2. ASSUME NEW n \in DOMAIN BlockNames, NEW j \in Q, arts[n] # <<>>
          PROVE  proof'.paths[n][j] = merkle_path(arts[n], j)
      BY <2>2, <3>2
    <3> QED BY <1>3, <2>1, <2>2, <3>1, <3>2 DEF Shown
  <2> QED BY <1>2, <1>4, <2>1, <2>3 DEF LeavesInv
<1>10. CASE Check
  <2>1. step = "check" /\ step' = "verdict" /\ UNCHANGED <<codes, arts, proof>>
    BY <1>10 DEF Check
  <2> QED BY <1>2, <1>4, <1>5, <2>1 DEF LeavesInv
<1> QED BY <1>6, <1>7, <1>8, <1>9, <1>10 DEF ArgumentNext, allvars

\* What was opened is a leaf of the tree, under its own index and no other.
LEMMA LeavesHold == LeavesInv => LeavesAreColumns
<1> SUFFICES ASSUME LeavesInv, step = "verdict", NEW n \in DOMAIN BlockNames, arts[n] # <<>>, NEW j \in proof.Q
             PROVE  OpensOnlyAt(merkle_leaf(proof.opened[n][j]), proof.paths[n][j], Root(arts[n]), N_LIG) = {j}
  BY SmallOnes DEF LeavesAreColumns
<1> DEFINE S == BlockSpan(n)
<1>1. Committed /\ Shown
  BY DEF LeavesInv
<1>2. S # {} /\ arts[n] = TreeAt(S, codes)
  BY <1>1 DEF Committed
<1>3. proof.opened[n][j] = ColumnAt(S, codes, j) /\ proof.paths[n][j] = merkle_path(arts[n], j)
  BY <1>1, <1>2 DEF Shown
<1>4. N_LIG \in Nat \ {0} /\ j \in 0 .. N_LIG - 1
  BY <1>1, LigeroConfig, QueriesAssumption DEF IsConfig, Shown
<1> HIDE DEF S
<1>5. OpensOnlyAt(merkle_leaf(ColumnAt(S, codes, j)), merkle_path(TreeAt(S, codes), j), Root(TreeAt(S, codes)), N_LIG) = {j}
  BY <1>4, TreeOpens
<1> QED BY <1>2, <1>3, <1>5

\* For every tape, witness, code and set of columns: at the verdict each opened
\* column, hashed as the verifier hashes it, verifies along its path under its own
\* index and under no other, though the prover's leaves were streamed in pieces
\* that the chunks of the sweep cut (core.py MerkleColumnAccumulator, merkle_path,
\* ColumnSink; verifier/src/protocol.rs merkle_leaf, merkle_verify).
THEOREM ColumnsOpen == ArgumentSpec => []LeavesAreColumns
<1>1. ArgumentInit => LeavesInv
  BY LeavesInit
<1>2. LeavesInv /\ [ArgumentNext]_allvars => LeavesInv'
  BY LeavesStep
<1>3. LeavesInv => LeavesAreColumns
  BY LeavesHold
<1> QED BY <1>1, <1>2, <1>3, PTL DEF ArgumentSpec
================================================================================
