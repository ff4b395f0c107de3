-------------------------------- MODULE Ligero --------------------------------
(***************************************************************************)
(* Polynomials and codewords: the field of the kernels word by word         *)
(* (prover/kernels/goldilocks.cuh), the number-theoretic transforms         *)
(* (kernels/ntt.cuh), the Reed-Solomon encoding of core.py and what the     *)
(* verifier evaluates of it (verifier/src/protocol.rs).                     *)
(*                                                                         *)
(* Vectors are functions from 0 .. n-1.  WORD is half a machine word (32 in *)
(* the code), SIDE the side of the two-pass transform (256).                *)
(***************************************************************************)
EXTENDS Field, SequencesExt

CONSTANTS K_DEG, N_LIG, GLOBAL_G, WORD, SIDE

IsPowerOfTwo(n) == \E k \in 0 .. n : n = 2 ^ k
ASSUME GoldilocksPrime == P = 2 ^ (2 * WORD) - 2 ^ WORD + 1
IsConfig ==
  /\ K_DEG \in Nat \ {0} /\ N_LIG \in Nat \ {0}
  /\ IsPowerOfTwo(K_DEG) /\ IsPowerOfTwo(N_LIG) /\ 2 * K_DEG <= N_LIG
  /\ (P - 1) % K_DEG = 0 /\ (P - 1) % N_LIG = 0
ASSUME LigeroConfig == IsConfig

---------------------------------------------------------------------------
(* Machine words: two halves of WORD bits.                                  *)
Wrap(x) == x % 2 ^ (2 * WORD)
EPSILON == 2 ^ WORD - 1        \* 2^(2*WORD) modulo P
ReduceOnce(x) == IF x >= P THEN x - P ELSE x

reduce128(lo, hi) ==
  LET hi_hi == hi \div 2 ^ WORD
      hi_lo == hi % 2 ^ WORD
      t0 == Wrap(lo - hi_hi - (IF lo < hi_hi THEN EPSILON ELSE 0))
      res == Wrap(t0 + hi_lo * EPSILON)
  IN  ReduceOnce(IF res < t0 THEN Wrap(res + EPSILON) ELSE res)
gl_mul(a, b) == reduce128(Wrap(a * b), (a * b) \div 2 ^ (2 * WORD))
gl_add(a, b) ==
  LET s == Wrap(a + b)
  IN  ReduceOnce(IF s < a THEN Wrap(s + EPSILON) ELSE s)
gl_sub(a, b) == Wrap(a - b - (IF a < b THEN EPSILON ELSE 0))

\* Square and multiply.
pow(a, e) ==
  LET r[n \in 0 .. e] ==
        IF n = 0 THEN 1
        ELSE LET h == r[n \div 2]
             IN  IF n % 2 = 1 THEN FMul(FMul(h, h), a) ELSE FMul(h, h)
  IN  r[e]
host_root_of_unity(n) == pow(GLOBAL_G, (P - 1) \div n)

VecAdd(u, v) == [m \in DOMAIN u |-> gl_add(u[m], v[m])]
VecMul(u, v) == [m \in DOMAIN u |-> gl_mul(u[m], v[m])]
Scaled(c, u) == [m \in DOMAIN u |-> gl_mul(c, u[m])]
Zeros(n) == ConstVec(0, n)
\* u with zeros up to length n.
ZeroExtended(u, n) == [m \in 0 .. n - 1 |-> IF m \in DOMAIN u THEN u[m] ELSE 0]

---------------------------------------------------------------------------
(* Transforms.                                                              *)
Lengths == {2 ^ k : k \in 1 .. 2 * WORD} \cap (2 .. N_LIG)
Log2(n) == CHOOSE k \in 0 .. n : 2 ^ k = n
\* The first half of the powers of the root, or of its inverse.
Twiddles == [n \in Lengths, invert \in BOOLEAN |->
  LET w == IF invert THEN FInv(host_root_of_unity(n)) ELSE host_root_of_unity(n)
  IN  [k \in 0 .. n \div 2 - 1 |-> pow(w, k)]]

BitReversed(n) ==
  LET rev[l \in 0 .. Log2(n)] ==
        IF l = 0 THEN [m \in {0} |-> 0]
        ELSE LET h == rev[l - 1]
             IN  [m \in 0 .. 2 ^ l - 1 |-> 2 * h[m % 2 ^ (l - 1)] + m \div 2 ^ (l - 1)]
  IN  rev[Log2(n)]
Reversal == [n \in Lengths |-> BitReversed(n)]

\* One level: pairs `half` apart, in groups of twice that.
k_butterfly_level(a, twid, half, twid_stride) ==
  LET k(m) == m % half
      low(m) == m % (2 * half) < half
      v(m) == gl_mul(a[m], twid[k(m) * twid_stride])
      up == [m \in {j \in DOMAIN a : ~low(j)} |-> v(m)]
  IN  [m \in DOMAIN a |-> IF low(m) THEN gl_add(a[m], up[m + half]) ELSE gl_sub(a[m - half], up[m])]

\* Every level of a transform, with the twiddles of length n_total.
Butterflies(a, twid, n_total) ==
  LET n == Cardinality(DOMAIN a)
  IN  FoldLeft(LAMBDA b, l : k_butterfly_level(b, twid, 2 ^ (l - 1), n_total \div 2 ^ l),
               [m \in DOMAIN a |-> a[Reversal[n][m]]], [l \in 1 .. Log2(n) |-> l])

\* A mutant: the table is read past its half without the sign.
bailey_twiddleUnsigned(twid, t, n_total) == twid[t % (n_total \div 2)]
bailey_twiddle(twid, t, n_total) ==
  LET half == n_total \div 2
  IN  IF t < half THEN twid[t] ELSE IF twid[t - half] = 0 THEN 0 ELSE P - twid[t - half]

\* Columns, twiddles, rows, written transposed.
ntt_run_bailey(a, twid) ==
  LET n == SIDE * SIDE
      side == 0 .. SIDE - 1
      Columns == [j \in side |-> Butterflies([m \in side |-> a[m * SIDE + j]], twid, n)]
      Rows(column) ==
        [k \in side |->
           Butterflies([j \in side |-> gl_mul(column[j][k], bailey_twiddle(twid, k * j, n))], twid, n)]
      Transposed(row) == [m \in 0 .. n - 1 |-> row[m % SIDE][m \div SIDE]]
  IN  Transposed(Rows(Columns))

LOCAL Raw(a, n, twid) == IF n = SIDE * SIDE THEN ntt_run_bailey(a, twid) ELSE Butterflies(a, twid, n)
LOCAL Normalised(n, b, invert) == IF invert THEN Scaled(FInv(n), b) ELSE b
LOCAL TransformOf(a, n, invert) == Normalised(n, Raw(a, n, Twiddles[n, invert]), invert)
Transform(a, invert) == TransformOf(a, Cardinality(DOMAIN a), invert)
ntt_forward(a) == Transform(a, FALSE)
ntt_inverse(a) == Transform(a, TRUE)

---------------------------------------------------------------------------
(* Encoding.                                                                *)
W_K == host_root_of_unity(K_DEG)
W_N == host_root_of_unity(N_LIG)
Zeta == [c \in 0 .. K_DEG - 1 |-> pow(W_K, c)]
Eta == [j \in 0 .. N_LIG - 1 |-> FMul(GLOBAL_G, pow(W_N, j))]
_coset_powers == [gamma \in 1 .. P - 1 |-> [l \in 0 .. 2 * K_DEG - 1 |-> pow(gamma, l)]]

\* The K_DEG coefficients of the row with these values at the first zetas.
_interpolate_to_kdeg(values) == ntt_inverse(ZeroExtended(values, K_DEG))

\* A polynomial of K_DEG or 2*K_DEG coefficients at every eta.
_coset_encode_codewords(coeffs) ==
  ntt_forward(ZeroExtended(VecMul(coeffs, _coset_powers[GLOBAL_G]), N_LIG))

\* The same by rho transforms of length K_DEG, interleaved.
_coset_encode_via_coset_ntt(coeffs) ==
  LET rho == N_LIG \div K_DEG
      Interleaved(coset) == [j \in 0 .. N_LIG - 1 |-> coset[j % rho][j \div rho]]
  IN  Interleaved([t \in 0 .. rho - 1 |-> ntt_forward(VecMul(coeffs, _coset_powers[Eta[t]]))])

\* Products live in the domain of the first power of two from 2*K_DEG - 1.
n_eval == CHOOSE n \in Lengths : n >= 2 * K_DEG - 1 /\ n < 2 * (2 * K_DEG - 1)
ToEval(coeffs) == ntt_forward(ZeroExtended(coeffs, n_eval))

---------------------------------------------------------------------------
(* What the verifier evaluates.                                             *)
poly_eval(coeffs, x) ==
  LET n == Cardinality(DOMAIN coeffs)
  IN  FoldLeft(LAMBDA acc, k : (FMul(acc, x) + coeffs[n - k]) % P, 0, [k \in 1 .. n |-> k])
lagrange(c, eta) ==
  FMul(FMul(Zeta[c], pow(eta, K_DEG) - 1), FInv(K_DEG * (eta - Zeta[c])))
\* lagrange_table: L_c at every eta.
Lagrange == [j \in 0 .. N_LIG - 1, c \in 0 .. K_DEG - 1 |-> lagrange(c, Eta[j])]
===============================================================================
