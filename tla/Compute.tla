------------------------------ MODULE Compute ------------------------------
(***************************************************************************)
(* How the prover fills a witness (prover/compute_fns.py, the *_compute of   *)
(* routing_claim.py, topk_routing.py, routed_projected.py, max_claim.py,    *)
(* ui_claim.py and rescale_claim.py; the side effects and auxiliary rows of  *)
(* tape.py and claims.py).  A witness maps each variable to its vector.     *)
(***************************************************************************)
EXTENDS RoutingClaims
LOCAL INSTANCE FiniteSetsExt
LOCAL INSTANCE SequencesExt
LOCAL INSTANCE TLC

\* The integer a field element stands for, and a vector of such integers.
signed(a) == IF a > (P - 1) \div 2 THEN a - P ELSE a
Column(L, f(_)) == [i \in 0 .. L - 1 |-> f(i) % P]
\* Values for words 1 .. n: word j of a list is named j.
PerWord(words, f(_)) == [w \in {words[n] : n \in DOMAIN words} |-> f(w.name[3])]
Nothing == [v \in {} |-> <<>>]
Sum(f(_), S) == FoldSet(LAMBDA e, acc : acc + f(e), 0, S)

---------------------------------------------------------------------------
(* Rescaling: full = 2^bits * high + low with low in [0, 2^bits), so a      *)
(* negative value rounds down.                                             *)
\* The RMS norm splits the field representative of its input, unsigned.
rms_input_split(r, full) ==
  LET High(i) == full[i] \div 2 ^ r.bits
  IN  r.high :> Column(r.L, High)
      @@ r.low :> Column(r.L, LAMBDA i : full[i] % 2 ^ r.bits)
      @@ r.shifted :> Column(r.L, LAMBDA i : High(i) + r.offset)
\* Every other rescale splits the integer it stands for.
_signed_floor_decomp(r, full) ==
  LET High(i) == signed(full[i]) \div 2 ^ r.bits
  IN  r.high :> Column(r.L, High)
      @@ r.low :> Column(r.L, LAMBDA i : signed(full[i]) % 2 ^ r.bits)
      @@ r.shifted :> Column(r.L, LAMBDA i : High(i) + r.offset)
\* A claim whose input is rescaled computes its rows from the high part.
LOCAL FromHead(head, x, Rows(_)) == head @@ Rows(head[x])
\* The raw product under `full`, split when there is a rescale.
LOCAL WithHigh(on, r, out, full) ==
  IF on THEN r.full :> full @@ _signed_floor_decomp(r, full) ELSE out :> full

---------------------------------------------------------------------------
(* compute_fns.py.                                                          *)
add_compute(c, live) ==
  IF c.public_rhs # -1 THEN Nothing
  ELSE Own(c, "c", c.length) :> Column(c.length, LAMBDA i : live[c.a][i] + live[c.b][i])

concat_compute(c, live) ==
  LET L == Offset(c.srcs, Len(c.srcs) + 1)
      src(i) == CHOOSE n \in DOMAIN c.srcs :
                  i >= Offset(c.srcs, n) /\ i < Offset(c.srcs, n) + c.srcs[n].len
  IN  Own(c, "dst", L) :> [i \in 0 .. L - 1 |-> live[c.srcs[src(i)]][i - Offset(c.srcs, src(i))]]

\* Heads share the rows of A; B holds (K, H, n), transposed (n, H, K).
_matmul_raw(c, A, B) ==
  LET H == c.heads   K == c.head_dim   n == c.n
      At(i, h, r) == A[i * H * K + h * K + r]
      Bt(r, h, j) == IF c.transpose_b THEN B[j * H * K + h * K + r] ELSE B[r * H * n + h * n + j]
  IN  Column(c.m * H * n, LAMBDA f : FSum(LAMBDA r : At(f \div (H * n), (f \div n) % H, r)
                                                    * Bt(r, (f \div n) % H, f % n), 0 .. K - 1))
matmul_compute(c, live) ==
  LET L == c.m * c.heads * c.n
  IN  WithHigh(c.rescale_bits > 0, matmul_rescaling(c), Own(c, "C", L),
               _matmul_raw(c, live[c.A], live[c.B]))

hadamard_compute(c, live) ==
  WithHigh(c.rescale_bits > 0, hadamard_rescaling(c), Own(c, "c", c.length),
           Column(c.length, LAMBDA i : live[c.a][i] * live[c.b][i]))

\* Words from x, or x from its words when the words are there first.
word_extract_compute(c, live) ==
  LET n == Len(c.coeffs)
      words == Words(c, "word", n, c.length)
      B == bit_length(c.coeffs[2]) - 1
  IN  IF c.x \notin DOMAIN live
      THEN c.x :> Column(c.length, LAMBDA i : FSum(LAMBDA j : c.coeffs[j] * live[words[j]][i], 1 .. n))
      ELSE IF n = 1 THEN words[1] :> live[c.x]
      ELSE PerWord(words, LAMBDA j : [i \in 0 .. c.length - 1 |->
                                        (live[c.x][i] \div 2 ^ (B * (j - 1))) % 2 ^ B])

\* A key outside the table takes the value at its nearest end.
paired_tlookup_compute(c, live) ==
  LET key(i) == signed((live[c.x][i] + c.shift) % P)
      last == TLen(c.table) - 1
  IN  Own(c, "y", c.length) :>
        [i \in 0 .. c.length - 1 |-> c.table.T_Y[IF key(i) < 0 THEN 0
                                                 ELSE IF key(i) > last THEN last ELSE key(i)]]

embedding_lookup_compute(c, live) ==
  LET L == Cardinality(DOMAIN c.token_ids) * c.d
  IN  Own(c, "x", L) :> [i \in 0 .. L - 1 |-> live[c.E][c.token_ids[i \div c.d] * c.d + (i % c.d)]]

\* The two halves of a head are the coordinates that rotate.
rope_compute(c, live) ==
  LET L == c.SEQ * c.heads * c.d_h   half == c.d_h \div 2   x == live[c.x]
      At(i) == (i \div (c.heads * c.d_h)) * half + ((i % c.d_h) % half)
      cos(i) == RopeCos(c)[At(i)]   sin(i) == RopeSin(c)[At(i)]
      Rotated(i) == IF i % c.d_h < half THEN cos(i) * x[i] - sin(i) * x[i + half]
                    ELSE sin(i) * x[i - half] + cos(i) * x[i]
  IN  WithHigh(c.rescale_bits > 0, rope_rescaling(c), Own(c, "x_rot", L), Column(L, Rotated))

\* Sign and magnitude, the magnitude in five chunks: a_1 with the sign is the
\* key of the table, a chunk above it (g # 0) passes x through, or 0.
LOCAL SiluRows(c, x) ==
  LET L == c.length
      v(role) == Own(c, role, L)
      strides == <<1, c.b, c.b_2, c.b_3, c.b_4>>
      sizes == <<c.b, c.T_LEN, 2 ^ c.width_2, 2 ^ c.width_3, 2 ^ c.width_4>>
      sign(i) == IF signed(x[i]) < 0 THEN 1 ELSE 0
      mag(i) == IF signed(x[i]) < 0 THEN -signed(x[i]) ELSE signed(x[i])
      a(j, i) == (mag(i) \div strides[j]) % sizes[j]
      g(i) == Sum(LAMBDA j : strides[j] * a(j, i), 3 .. 5)
      is_high(i) == IF g(i) # 0 THEN 1 ELSE 0
      key(i) == sign(i) * c.T_LEN + a(2, i)
      y(i) == c.silu_table.T_Y[key(i)]
      sat(i) == x[i] - sign(i) * x[i]
  IN  v("sign") :> Column(L, sign) @@ v("magnitude") :> Column(L, mag)
      @@ v("C") :> Column(L, LAMBDA i : sign(i) * x[i])
      @@ PerWord(Words(c, "a", 5, L), LAMBDA j : Column(L, LAMBDA i : a(j, i)))
      @@ v("g") :> Column(L, g) @@ v("inv_g") :> Column(L, LAMBDA i : FInv(g(i)))
      @@ v("is_high") :> Column(L, is_high) @@ v("inv_x") :> Column(L, LAMBDA i : FInv(x[i]))
      @@ v("key") :> Column(L, key) @@ v("output_sat") :> Column(L, sat) @@ v("y") :> Column(L, y)
      @@ v("mux_a") :> Column(L, LAMBDA i : is_high(i) * y(i))
      @@ v("mux_b") :> Column(L, LAMBDA i : is_high(i) * sat(i))
      @@ v("output") :> Column(L, LAMBDA i : y(i) - is_high(i) * y(i) + is_high(i) * sat(i))
silu_compute(c, live) ==
  IF c.rescale_bits > 0
  THEN FromHead(_signed_floor_decomp(silu_rescaling(c), live[c.x]), Own(c, "x", c.length), LAMBDA x : SiluRows(c, x))
  ELSE SiluRows(c, live[c.x])

\* CHUNK-bit chunks of v.
Chunk(v, j) == (v \div 2 ^ (CHUNK * (j - 1))) % 2 ^ CHUNK
Limb(v, j) == (v \div 2 ^ (RMS_LIMB_W * (j - 1))) % 2 ^ RMS_LIMB_W

\* q * S_total, limb by limb, with the carries in view.
LOCAL Limbs(q, S) ==
  LET limb == 2 ^ RMS_LIMB_W
      H(k) == q * Limb(S, k)
      G1 == H(2) + H(1) \div limb
  IN  [H |-> [k \in 1 .. RMS_N_LIMBS |-> H(k)], G |-> <<H(1), G1, H(3) + G1 \div limb>>]
LOCAL Chunks(c, role, bits, val(_)) ==
  PerWord(Words(c, role, ChunkCount(bits), c.B), LAMBDA j : Column(c.B, LAMBDA b : Chunk(val(b), j)))
LOCAL RmsSide(c, s, prod, slack) ==
  LET B == c.B   limb == 2 ^ RMS_LIMB_W
  IN  PerWord(Words(c, s \o "_H", RMS_N_LIMBS, B), LAMBDA k : Column(B, LAMBDA b : prod[b].H[k]))
      @@ PerWord(Words(c, s \o "_gl", 2, B), LAMBDA k : Column(B, LAMBDA b : prod[b].G[k] % limb))
      @@ Chunks(c, s \o "_g0h", g0h_width(c), LAMBDA b : prod[b].G[1] \div limb)
      @@ Chunks(c, s \o "_g1h", g1h_width(c), LAMBDA b : prod[b].G[2] \div limb)
      @@ Chunks(c, s \o "_G2", G2_width(c), LAMBDA b : prod[b].G[3])
      @@ Own(c, "s_" \o s, B) :> slack
      @@ Chunks(c, "s_" \o s \o "_chunk", slack_width(c), LAMBDA b : slack[b])
\* Both brackets of y: y^2 * S_total >= magic > (y - 1)^2 * S_total.
LOCAL RmsBrackets(c, S_tot, y, q1, q2) ==
  LET B == c.B
      v(role) == Own(c, role, B)
  IN  v("S_total") :> S_tot @@ v("y") :> y @@ v("y_m1") :> Column(B, LAMBDA b : y[b] - 1)
      @@ v("q1") :> q1 @@ v("q2") :> q2
      @@ Chunks(c, "ym1", y_width(c), LAMBDA b : y[b] - 1)
      @@ PerWord(Words(c, "S_limb", RMS_N_LIMBS, B), LAMBDA n : Column(B, LAMBDA b : Limb(S_tot[b], n)))
      @@ RmsSide(c, "lo", [b \in 0 .. B - 1 |-> Limbs(q1[b], S_tot[b])],
                 Column(B, LAMBDA b : q1[b] * S_tot[b] - magic(c)))
      @@ RmsSide(c, "hi", [b \in 0 .. B - 1 |-> Limbs(q2[b], S_tot[b])],
                 Column(B, LAMBDA b : magic(c) - 1 - q2[b] * S_tot[b]))
LOCAL RmsScaled(c, x, S_tot, y) ==
  WithHigh(c.output_rescale_bits > 0, output_rescaling(c), Own(c, "output", c.B * c.d),
           Column(c.B * c.d, LAMBDA i : x[i] * y[i \div c.d]))
  @@ RmsBrackets(c, S_tot, [b \in DOMAIN y |-> y[b] % P], Column(c.B, LAMBDA b : y[b] * y[b]),
                 Column(c.B, LAMBDA b : (y[b] - 1) * (y[b] - 1)))
\* y is least with y^2 * S_total >= magic.
LOCAL LeastRoot(c, S) ==
  CHOOSE y \in 1 .. magic(c) : /\ y * y * S >= magic(c)
                               /\ y = 1 \/ (y - 1) * (y - 1) * S < magic(c)
LOCAL RmsTotals(c, x, S_tot) == RmsScaled(c, x, S_tot, [b \in DOMAIN S_tot |-> LeastRoot(c, S_tot[b])])
LOCAL RmsSums(c, x, S) ==
  Own(c, "X_sq", c.B * c.d) :> Column(c.B * c.d, LAMBDA i : x[i] * x[i]) @@ Own(c, "S", c.B) :> S
  @@ RmsTotals(c, x, Column(c.B, LAMBDA b : S[b] + c.d * c.eps_int))
LOCAL RmsRows(c, x) ==
  RmsSums(c, x, Column(c.B, LAMBDA b : FSum(LAMBDA j : x[b * c.d + j] * x[b * c.d + j], 0 .. c.d - 1)))
\* The code raises where a bracket or its slack leaves its window; such inputs
\* are no part of a case.
rmsnorm_compute(c, live) ==
  IF c.rescale_bits > 0
  THEN FromHead(rms_input_split(input_rescaling(c), live[c.x]), Own(c, "x", c.B * c.d), LAMBDA x : RmsRows(c, x))
  ELSE RmsRows(c, live[c.x])

---------------------------------------------------------------------------
(* Softmax.  T_A, T_B are the tables of the configuration.                  *)
Unmasked(c, b) == {j \in 0 .. c.M - 1 : ~c.causal \/ j <= b \div c.heads}
\* The entry of key z, 1 (or 0) past the table's end.
SoftmaxEntry(c, T, z) ==
  IF z \in 0 .. c.Z_max - 1 THEN T[z] ELSE IF c.round_up /\ z >= c.Z_max THEN 1 ELSE 0
s1_at(c, x, b, c2) == Sum(LAMBDA j : SoftmaxEntry(c, c.T_A, c2 - signed(x[b * c.M + j])), Unmasked(c, b))

\* The least c2 with s1(c2) <= s_y, by bisection above the row's maximum.
softmax_c2(c, x, b) ==
  LET xs == {signed(x[b * c.M + j]) : j \in Unmasked(c, b)}
      lo0 == Max(xs)
      hi0 == IF c.saturate THEN Max(xs) + c.Z_max ELSE Min(xs) + c.Z_max - 1
      n_iter == AtLeast1(bit_length(c.Z_max - 1)) + 2
      Halve(w) == LET mid == (w[1] + w[2]) \div 2
                  IN  IF w[1] + 1 >= w[2] THEN w
                      ELSE IF s1_at(c, x, b, mid) <= c.s_y THEN <<w[1], mid>> ELSE <<mid, w[2]>>
      window[n \in 0 .. n_iter] == IF n = 0 THEN <<lo0, hi0>> ELSE Halve(window[n - 1])
  IN  IF s1_at(c, x, b, lo0) <= c.s_y THEN lo0 ELSE window[n_iter][2]

LOCAL SaturatedRows(c, z(_), masked(_)) ==
  LET L == c.B * c.M
      v(role) == Own(c, role, L)
      z_high(i) == IF masked(i) THEN 0 ELSE z(i) \div c.Z_max
      is_high(i) == IF z_high(i) # 0 THEN 1 ELSE 0
      raw(T, i) == IF masked(i) THEN 0 ELSE T[z(i) % c.Z_max]
  IN  v("z_high") :> Column(L, z_high) @@ v("is_high") :> Column(L, is_high)
      @@ v("inv_z_high") :> Column(L, LAMBDA i : FInv(z_high(i)))
      @@ v("y_A_raw") :> Column(L, LAMBDA i : raw(c.T_A, i))
      @@ v("y_B_raw") :> Column(L, LAMBDA i : raw(c.T_B, i))
      @@ v("mux_y_A") :> Column(L, LAMBDA i : is_high(i) * raw(c.T_A, i))
      @@ v("mux_y_B") :> Column(L, LAMBDA i : is_high(i) * raw(c.T_B, i))
LOCAL SoftmaxRows(c, x, c2) ==
  LET B == c.B   M == c.M   L == B * M
      v(role) == Own(c, role, L)
      r(role) == Own(c, role, B)
      z(i) == c2[i \div M] - signed(x[i])
      masked(i) == i % M \notin Unmasked(c, i \div M)
      y(T, i) == IF masked(i) THEN 0 ELSE SoftmaxEntry(c, T, z(i))
      s(T, b) == Sum(LAMBDA j : y(T, b * M + j), 0 .. M - 1)
  IN  (IF c.saturate THEN SaturatedRows(c, z, masked) ELSE Nothing)
      @@ v("z") :> Column(L, LAMBDA i : IF masked(i) THEN 0 ELSE IF c.saturate THEN z(i) % c.Z_max ELSE z(i))
      @@ v("y_A") :> Column(L, LAMBDA i : y(c.T_A, i)) @@ v("y_B") :> Column(L, LAMBDA i : y(c.T_B, i))
      @@ r("c2") :> Column(B, LAMBDA b : c2[b])
      @@ r("c2_shifted") :> Column(B, LAMBDA b : c2[b] + 2 ^ (c.aux_chunk_width - 1))
      @@ r("s1") :> Column(B, LAMBDA b : s(c.T_A, b)) @@ r("s2") :> Column(B, LAMBDA b : s(c.T_B, b))
      @@ r("r_lo") :> Column(B, LAMBDA b : c.s_y - s(c.T_A, b))
      @@ r("r_hi") :> Column(B, LAMBDA b : s(c.T_B, b) - c.s_y - 1)
LOCAL SoftmaxOf(c, x) == SoftmaxRows(c, x, [b \in 0 .. c.B - 1 |-> softmax_c2(c, x, b)])
\* The code raises where r_lo, r_hi or c2 leaves its window; such inputs are no
\* part of a case.
softmax_compute(c, live) ==
  IF c.rescale_bits > 0
  THEN FromHead(_signed_floor_decomp(softmax_rescaling(c), live[c.x]), Own(c, "x", c.B * c.M),
                LAMBDA x : SoftmaxOf(c, x))
  ELSE SoftmaxOf(c, live[c.x])
---------------------------------------------------------------------------
(* The routing, maximum, information and rescale claims, and the dispatch     *)
(* (compute_fns.py COMPUTE_FNS).                                            *)

\* The first index in 0 .. n-1 with the largest f.
argmax(f(_), n) == CHOOSE i \in 0 .. n - 1 : /\ \A j \in 0 .. n - 1 : f(j) <= f(i)
                                             /\ \A j \in 0 .. i - 1 : f(j) < f(i)
Bit(b) == IF b THEN 1 ELSE 0

---------------------------------------------------------------------------
(* routing_claim.py: m is one-hot at the largest tiebroken logit.           *)
routing_compute(c, live) ==
  LET T == c.T   E == c.E   L == T * E
      v(role) == Own(c, role, L)
      r == live[c.r]
      rt == Column(L, LAMBDA f : r[f] * 2 ^ c.L_bits + Bonus(E)[f % E])
      chosen(t) == t * E + argmax(LAMBDA e : signed(rt[t * E + e]), E)
      m(f) == Bit(f = chosen(f \div E))
  IN  v("m") :> Column(L, m) @@ v("rt") :> rt @@ v("mrt") :> Column(L, LAMBDA f : m(f) * rt[f])
      @@ Own(c, "rstar", T) :> Column(T, LAMBDA t : rt[chosen(t)])
      @@ v("gap") :> Column(L, LAMBDA f : rt[chosen(f \div E)] - rt[f])
      @@ Own(c, "r_chosen", T) :> Column(T, LAMBDA t : r[chosen(t)])

\* y absorbs one expert at a time as its stream retires; field sums commute.
fcombine_compute(c, live) ==
  LET T == c.T   E == c.E   F == c.F
      m(t, e) == live[c.m][t * E + e]
  IN  Own(c, "m_em", T * E) :> Column(T * E, LAMBDA f : m(f % T, f \div T))
      @@ c.y :> Column(T * F, LAMBDA i : FSum(LAMBDA e : m(i \div F, e) * live[c.xs[e + 1]][i], 0 .. E - 1))

---------------------------------------------------------------------------
(* topk_routing.py: the k largest tiebroken scores; tau is the k-th.        *)
topk_compute(c, live) ==
  LET T == c.T   E == c.E   L == T * E
      v(role) == Own(c, role, L)
      qt == Column(L, LAMBDA f : (live[c.s][f] + live[c.b][f % E]) * 2 ^ c.L_bits + Bonus(E)[f % E])
      above(f) == Cardinality({e \in 0 .. E - 1 : signed(qt[(f \div E) * E + e]) > signed(qt[f])})
      m(f) == Bit(above(f) < c.k)
      tau(t) == qt[CHOOSE f \in t * E .. t * E + E - 1 : above(f) = c.k - 1]
      d(f) == (qt[f] - tau(f \div E)) % P
  IN  v("m") :> Column(L, m) @@ v("qt") :> qt @@ Own(c, "tau", T) :> Column(T, tau)
      @@ v("d") :> Column(L, d) @@ v("md") :> Column(L, LAMBDA f : m(f) * d(f))
      @@ v("v") :> Column(L, LAMBDA f : 2 * m(f) * d(f) - d(f))

\* Slot i takes the i-th selected expert, by index.
slots_compute(c, live) ==
  LET T == c.T   E == c.E   k == c.k   L == T * E
      m == live[c.m]   s == live[c.s]
      before(f) == Sum(LAMBDA e : m[(f \div E) * E + e], 0 .. f % E)
      M(i, f) == Bit(m[f] = 1 /\ before(f) = i)
  IN  PerWord(Words(c, "M", k, L), LAMBDA i : Column(L, LAMBDA f : M(i, f)))
      @@ PerWord(Words(c, "MS", k, L), LAMBDA i : Column(L, LAMBDA f : M(i, f) * s[f]))
      @@ Own(c, "ss", T * k) :>
           Column(T * k, LAMBDA j : Sum(LAMBDA e : M(1 + (j % k), (j \div k) * E + e) * s[(j \div k) * E + e],
                                        0 .. E - 1))

bracket_compute(c, live) ==
  LET T == c.T   k == c.k   L == T * k   ss == live[c.ss]
      v(role) == Own(c, role, L)
      Z(t) == Sum(LAMBDA i : ss[t * k + i], 0 .. k - 1)
      Zb(j) == Z(j \div k)
      w(j) == (c.C * ss[j]) \div Zb(j)
      rem(j) == c.C * ss[j] - w(j) * Zb(j)
  IN  Own(c, "Z", T) :> Column(T, Z) @@ v("Zb") :> Column(L, Zb) @@ v("w") :> Column(L, w)
      @@ v("wZ") :> Column(L, LAMBDA j : w(j) * Zb(j)) @@ v("rem") :> Column(L, rem)
      @@ v("gr") :> Column(L, LAMBDA j : Zb(j) - 1 - rem(j))

split_compute(c, live) ==
  LET At(p) == Offset(c.parts, CHOOSE n \in DOMAIN c.parts : c.parts[n] = p)
  IN  [p \in {c.parts[n] : n \in DOMAIN c.parts} |-> [i \in 0 .. p.len - 1 |-> live[c.whole][At(p) + i]]]

\* One expert at a time, for the tokens routed to it.
routed_compute(c, live) ==
  LET route(t) == argmax(LAMBDA e : live[c.M][t * c.E + e], c.E)
  IN  c.Y :> Column(c.T * c.J, LAMBDA i :
               FSum(LAMBDA k : live[c.X][(i \div c.J) * c.K + k]
                               * live[c.W[route(i \div c.J) + 1]][k * c.J + (i % c.J)], 0 .. c.K - 1))

---------------------------------------------------------------------------
(* max_claim.py, ui_claim.py, rescale_claim.py.                             *)
max_compute(c, live) ==
  LET T == c.T   V == c.V   L == T * V
      v(role) == Own(c, role, L)
      l == live[c.l]   O == live[c.O]
      best(t) == t * V + argmax(LAMBDA i : signed(l[t * V + i]), V)
      A(f) == Bit(f = best(f \div V))
      gap(f) == (l[best(f \div V)] - l[f]) % P
  IN  v("A") :> Column(L, A) @@ v("Al") :> Column(L, LAMBDA f : A(f) * l[f])
      @@ Own(c, "vstar", T) :> Column(T, LAMBDA t : l[best(t)])
      @@ v("gap") :> Column(L, gap) @@ v("neg_gap") :> Column(L, LAMBDA f : -gap(f))
      @@ v("Ogap") :> Column(L, LAMBDA f : O[f] * gap(f))
      @@ Own(c, "gap_o", T) :> Column(T, LAMBDA t : FSum(LAMBDA i : O[t * V + i] * gap(t * V + i), 0 .. V - 1))

\* b is the least power of the table not below a, the sum of the e's.
info_compute(c, live) ==
  LET T == c.T   V == c.V   k == c.k   POW == c.pow
      v(role) == Own(c, role, T)
      a(t) == Sum(LAMBDA i : live[c.e][t * V + i], 0 .. V - 1)
      above(t) == {b \in 0 .. c.K - 1 : POW[b] >= a(t)}
      b(t) == IF above(t) = {} THEN c.K - 1 ELSE Min(above(t))
      d(t) == (POW[b(t)] - a(t)) % P
      z_o(t) == CeilDiv(live[c.gap_o2][t], k)
      Word(x, j) == (x \div 2 ^ (c.wb * (j - 1))) % 2 ^ c.wb
  IN  c.b :> Column(T, b) @@ c.pw :> Column(T, LAMBDA t : POW[b(t)])
      @@ v("a") :> Column(T, a) @@ v("d") :> Column(T, d)
      @@ PerWord(Words(c, "dw", c.n_dw, T), LAMBDA j : Column(T, LAMBDA t : Word(d(t), j)))
      @@ v("z_o") :> Column(T, z_o) @@ v("rem") :> Column(T, LAMBDA t : k * z_o(t) - live[c.gap_o2][t])
      @@ PerWord(Words(c, "zw", c.n_zw, T), LAMBDA j : Column(T, LAMBDA t : Word(z_o(t), j)))
      @@ v("surprisal") :> Column(T, LAMBDA t : z_o(t) + b(t))

rescale_compute(c, live) == _signed_floor_decomp(rescale_rescaling(c), live[c.x_full])

---------------------------------------------------------------------------
COMPUTE_FNS(c, live) ==
  CASE c.op = "Matmul" -> matmul_compute(c, live)
    [] c.op \in {"LinComb", "RangeWord"} -> Nothing
    [] c.op = "Add" -> add_compute(c, live)
    [] c.op = "Concat" -> concat_compute(c, live)
    [] c.op = "Hadamard" -> hadamard_compute(c, live)
    [] c.op = "WordExtraction" -> word_extract_compute(c, live)
    [] c.op = "PairedTlookup" -> paired_tlookup_compute(c, live)
    [] c.op = "EmbeddingLookup" -> embedding_lookup_compute(c, live)
    [] c.op = "Silu" -> silu_compute(c, live)
    [] c.op = "RmsNorm" -> rmsnorm_compute(c, live)
    [] c.op = "Softmax" -> softmax_compute(c, live)
    [] c.op = "RoPE" -> rope_compute(c, live)
    [] c.op = "Rescale" -> rescale_compute(c, live)
    [] c.op = "Max" -> max_compute(c, live)
    [] c.op = "InfoFinalize" -> info_compute(c, live)
    [] c.op = "Routing" -> routing_compute(c, live)
    [] c.op = "FreivaldsCombine" -> fcombine_compute(c, live)
    [] c.op = "TopkRouting" -> topk_compute(c, live)
    [] c.op = "TopkSlots" -> slots_compute(c, live)
    [] c.op = "GateBracket" -> bracket_compute(c, live)
    [] c.op = "Split" -> split_compute(c, live)
    [] c.op = "RoutedProjected" -> routed_compute(c, live)
============================================================================
