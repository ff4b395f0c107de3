------------------------------- MODULE Claims -------------------------------
(***************************************************************************)
(* The claims of a proof and how the prover compiles each one              *)
(* (prover/claims.py, rescale_claim.py, max_claim.py, ui_claim.py and the   *)
(* table settlement of core.py): linear constraints, given as bands over    *)
(* the rows of the variables, quadratic families x*y + a*z = b, the number  *)
(* of linear constraints and the right sides that are not zero.             *)
(*                                                                         *)
(* A claim names its inputs; the variables it owns are named after it.  A   *)
(* range or lookup family also names its table.                             *)
(***************************************************************************)
EXTENDS Packets, ClaimVars
LOCAL INSTANCE SequencesExt

Compiled(bands, quads, n, rhs) ==
  [bands |-> bands, quads |-> quads, n |-> n, rhs |-> {r \in rhs : r[2] # 0}]

\* (rel_start, length, value) of _build_b_chunk.
Runs(lo, len, value) == {<<lo + i, value % P>> : i \in 0 .. len - 1}

---------------------------------------------------------------------------
(* Emission helpers.                                                        *)
\* One identity band per variable, with its coefficient.
Ids(vars, coefs, base, L) == [n \in DOMAIN vars |-> IdentityScalar(vars[n], base, L, coefs[n] % P)]
Id(v, base, L, coef) == <<IdentityScalar(v, base, L, coef % P)>>

\* 1*target + sum of (P - coef) * word.
LinCombo(target, words, coefs, base, L) ==
  Id(target, base, L, 1) \o Ids(words, [n \in DOMAIN words |-> Neg(coefs[n])], base, L)

RowSum(v, base, L, stride, vec) == <<RowSumPerSlotVector(v, base, L, stride, vec)>>

Quad(x, y, z, a, b, L) ==
  <<[x |-> x, y |-> y, z |-> z, a |-> a, b |-> b, L |-> L, table |-> NoTable]>>
Product(x, y, z, L) == Quad(x, y, z, P - 1, 0, L)
\* A mutant: the bit may be 0 whatever x is.
NonZeroBitOneWay(x, inv, bit, L) == Product(x, inv, bit, L) \o Product(bit, bit, bit, L)
\* bit is 1 where x is not 0, and 0 where it is.
NonZeroBit(x, inv, bit, L) ==
  Product(x, inv, bit, L) \o Product(bit, x, x, L) \o Product(bit, bit, bit, L)
\* (alpha - x) * z = 1.
RangeQuad(x, z, table, L) ==
  <<[x |-> x, y |-> z, z |-> z, a |-> Neg(table.alpha), b |-> P - 1, L |-> L, table |-> table]>>
RangeQuads(xs, zs, tables, L) == [n \in DOMAIN xs |-> RangeQuad(xs[n], zs[n], tables[n], L)[1]]

\* full = 2^bits * high + low and shifted = high + offset; `high` is the
\* rescaled value, the other variables are the claim's.
Rescaling(c, high, full, bits, offset, tight, loose, L) ==
  LET role == high.name[2]
  IN  [high |-> high, full |-> full, bits |-> bits, offset |-> offset,
       tight |-> tight, loose |-> loose, L |-> L,
       low |-> Low(c, role, L), z_low |-> ZLow(c, role, L),
       shifted |-> Shifted(c, role, L), z_shifted |-> ZShifted(c, role, L)]
RescaleBands(r, base) ==
  LinCombo(r.full, <<r.high, r.low>>, <<2 ^ r.bits, 1>>, base, r.L)
  \o LinCombo(r.shifted, <<r.high>>, <<1>>, base + r.L, r.L)
RescaleQuads(r) ==
  RangeQuad(r.low, r.z_low, r.tight, r.L) \o RangeQuad(r.shifted, r.z_shifted, r.loose, r.L)
RescaleRhs(r, off) == Runs(off + r.L, r.L, r.offset)

\* An optional rescale at the end of a compiled claim k.
WithRescale(on, r, base, k) ==
  IF on THEN Compiled(k.bands \o RescaleBands(r, base + k.n), k.quads \o RescaleQuads(r),
                      k.n + 2 * r.L, k.rhs \cup RescaleRhs(r, k.n))
  ELSE k

---------------------------------------------------------------------------
(* claims.py.                                                               *)
matmul_rescaling(c) ==
  LET L == c.m * c.heads * c.n
  IN  Rescaling(c, Own(c, "C", L), Own(c, "C_full", L), c.rescale_bits,
                2 ^ (c.output_width - 1), c.range_rescale, c.range_output, L)
matmul_compile(c, base) ==
  LET H == c.heads   K == c.head_dim   k == c.k   m == c.m   n == c.n
      L == m * H * n
      rho == OpVec(c.id, "rho", H * n)
      lam == OpVec(c.id, "lam", H * m)
      y == Aux(c, "y", k)   u == Aux(c, "u", k)   p == Aux(c, "p", k)
      C_freivalds == IF c.rescale_bits > 0 THEN Own(c, "C_full", L) ELSE Own(c, "C", L)
      bands == Id(y, base, k, 1)
               \o <<FreivaldsLF1B(c.B, base, k, n, H, K, c.transpose_b, NegVec(rho))>>
               \o Id(u, base + k, k, 1)
               \o <<FreivaldsLF2A(c.A, base + k, k, m, H, K, NegVec(lam)),
                    StrideManyToOne(p, base + 2 * k, k, K, 1),
                    FreivaldsLF3C(C_freivalds, base + 2 * k, m, n, H, lam, rho)>>
  IN  WithRescale(c.rescale_bits > 0, matmul_rescaling(c), base,
                  Compiled(bands, Product(u, y, p, k), 2 * k + H, {}))

lincomb_compile(c, base) ==
  Compiled(Ids(c.xs, c.coefs, base, c.length), <<>>, c.length,
           IF Len(c.rhs) = 1 THEN Runs(0, c.length, c.rhs[1])
           ELSE {<<i, c.rhs[i + 1] % P>> : i \in 0 .. c.length - 1})

\* public_rhs is -1 when there is none.
add_compile(c, base) ==
  IF c.public_rhs # -1
  THEN Compiled(Id(c.a, base, c.length, 1), <<>>, c.length, Runs(0, c.length, c.public_rhs))
  ELSE Compiled(Ids(<<c.a, c.b, Own(c, "c", c.length)>>, <<1, 1, P - 1>>, base, c.length),
                <<>>, c.length, {})

\* Where part n of a list of variables starts in the whole.
Offset(vars, n) == FoldLeft(LAMBDA s, v : s + v.len, 0, SubSeq(vars, 1, n - 1))

concat_compile(c, base) ==
  LET L == Offset(c.srcs, Len(c.srcs) + 1)
  IN  Compiled(Id(Own(c, "dst", L), base, L, P - 1)
               \o [n \in DOMAIN c.srcs |->
                     IdentityScalar(c.srcs[n], base + Offset(c.srcs, n), c.srcs[n].len, 1)],
               <<>>, L, {})

hadamard_rescaling(c) ==
  Rescaling(c, Own(c, "c", c.length), Own(c, "c_full", c.length), c.rescale_bits,
            2 ^ (c.output_width - 1), c.range_rescale, c.range_output, c.length)
hadamard_compile(c, base) ==
  LET target == IF c.rescale_bits > 0 THEN Own(c, "c_full", c.length) ELSE Own(c, "c", c.length)
  IN  WithRescale(c.rescale_bits > 0, hadamard_rescaling(c), base,
                  Compiled(<<>>, Product(c.a, c.b, target, c.length), 0, {}))

range_word_compile(c, base) ==
  Compiled(<<>>, RangeQuad(c.x, Aux(c, "z", c.length), c.table, c.length), 0, {})

word_extract_compile(c, base) ==
  LET words == Words(c, "word", Len(c.coeffs), c.length)
  IN  Compiled(LinCombo(c.x, words, c.coeffs, base, c.length), <<>>, c.length,
               Runs(0, c.length, Neg(c.shift)))

paired_tlookup_compile(c, base) ==
  LET u == Aux(c, "u", c.length)   y == Own(c, "y", c.length)
  IN  Compiled(Ids(<<u, c.x, y>>, <<1, P - 1, Neg(c.table.beta)>>, base, c.length),
               RangeQuad(u, Aux(c, "z", c.length), c.table, c.length), c.length,
               Runs(0, c.length, c.shift))

embedding_lookup_compile(c, base) ==
  LET L == Cardinality(DOMAIN c.token_ids) * c.d
  IN  Compiled(Id(Own(c, "x", L), base, L, 1) \o <<EmbedE(c.E, base, c.d, c.token_ids)>>,
               <<>>, L, {})

silu_rescaling(c) ==
  Rescaling(c, Own(c, "x", c.length), c.x, c.rescale_bits, 2 ^ (c.width_2 - 1),
            c.range_rescale, c.range_x, c.length)
silu_compile(c, base) ==
  LET L == c.length
      x == IF c.rescale_bits > 0 THEN Own(c, "x", L) ELSE c.x
      v(role) == Own(c, role, L)
      a == Words(c, "a", 5, L)          \* a_0 .. a_4
      z_a == AuxWords(c, "z_a", 5, L)
      pt_u == Aux(c, "pt_u", L)   pt_z == Aux(c, "pt_z", L)
      Lin(i, target, words, coefs) == LinCombo(target, words, coefs, base + i * L, L)
      bands == Lin(0, x, <<v("magnitude"), v("C")>>, <<1, 2>>)
               \o Lin(1, v("magnitude"), a, <<1, c.b, c.b_2, c.b_3, c.b_4>>)
               \o Lin(2, v("g"), SubSeq(a, 3, 5), <<c.b_2, c.b_3, c.b_4>>)
               \o Lin(3, v("key"), <<v("sign"), a[2]>>, <<c.T_LEN, 1>>)
               \o Lin(4, x, <<v("output_sat"), v("C")>>, <<1, 1>>)
               \o Lin(5, v("y"), <<v("output"), v("mux_a"), v("mux_b")>>, <<1, 1, P - 1>>)
               \o Lin(6, pt_u, <<v("key"), v("y")>>, <<1, c.silu_table.beta>>)
      quads == Product(v("sign"), v("sign"), v("sign"), L)
               \o Product(v("sign"), x, v("C"), L)
               \o Product(v("C"), v("inv_x"), v("sign"), L)
               \o NonZeroBit(v("g"), v("inv_g"), v("is_high"), L)
               \o Product(v("is_high"), v("y"), v("mux_a"), L)
               \o Product(v("is_high"), v("output_sat"), v("mux_b"), L)
               \o RangeQuads(a, z_a, <<c.range_b, c.range_a1, c.range_w2, c.range_w3, c.range_w4>>, L)
               \o RangeQuad(pt_u, pt_z, c.silu_table, L)
  IN  WithRescale(c.rescale_bits > 0, silu_rescaling(c), base, Compiled(bands, quads, 7 * L, {}))

---------------------------------------------------------------------------
(* RMSNorm.  Its range windows are derived from (d, s, eps_int).            *)
bit_length(n) == CHOOSE w \in 0 .. n : n < 2 ^ w /\ (w = 0 \/ 2 ^ (w - 1) <= n)
isqrt(n) == CHOOSE r \in 0 .. n : r * r <= n /\ n < (r + 1) * (r + 1)
AtLeast1(w) == IF w < 1 THEN 1 ELSE w

magic(c) == c.d * c.s ^ 4
y_max(c) == CHOOSE y \in 1 .. magic(c) :
              y * y * c.d * c.eps_int >= magic(c)
              /\ (y = 1 \/ (y - 1) * (y - 1) * c.d * c.eps_int < magic(c))
y_width(c) == AtLeast1(bit_length(y_max(c) - 1))
S_CAP == 2 ^ (RMS_N_LIMBS * RMS_LIMB_W)
slack_width(c) == bit_length(2 * isqrt(magic(c) * S_CAP) + S_CAP)
g0h_width(c) == 2 * y_width(c)
g1h_width(c) == 2 * y_width(c) + 1
G2_width(c)  == AtLeast1(bit_length((magic(c) + 2 ^ slack_width(c)) \div 2 ^ (2 * RMS_LIMB_W)))

\* CHUNK-bit words and one narrower top word.
_chunk_widths(bits) ==
  IF bits = 0 THEN <<1>>
  ELSE [n \in 1 .. CeilDiv(bits, CHUNK) |-> IF n * CHUNK <= bits THEN CHUNK ELSE bits % CHUNK]
ChunkCount(bits) == Len(_chunk_widths(bits))
ChunkStrides(bits) == [n \in 1 .. ChunkCount(bits) |-> 2 ^ (CHUNK * (n - 1))]
\* The table of each word: a full word has the slack table, the top its own.
ChunkTables(c, bits, top) ==
  [n \in 1 .. ChunkCount(bits) |->
     IF _chunk_widths(bits)[n] = CHUNK THEN c.range_slack ELSE top]

input_rescaling(c) ==
  Rescaling(c, Own(c, "x", c.B * c.d), c.x, c.rescale_bits, 2 ^ (CHUNK - 1),
            c.range_rescale, c.range_slack, c.B * c.d)
output_rescaling(c) ==
  LET L == c.B * c.d
  IN  Rescaling(c, Own(c, "output", L), Own(c, "output_full", L), c.output_rescale_bits,
                2 ^ (c.output_width - 1), c.range_output_rescale, c.range_output, L)

\* One bracket, "lo" or "hi": the carry chain assembling q * S_total, at f0.
RmsBracket(c, side, slack, slack_coef, f0) ==
  LET B == c.B
      H   == Words(c, side \o "_H", RMS_N_LIMBS, B)
      gl  == Words(c, side \o "_gl", 2, B)
      g0h == Words(c, side \o "_g0h", ChunkCount(g0h_width(c)), B)
      g1h == Words(c, side \o "_g1h", ChunkCount(g1h_width(c)), B)
      G2  == Words(c, side \o "_G2", ChunkCount(G2_width(c)), B)
      Scaled(ws, by, at) == Ids(ws, [j \in DOMAIN ws |-> by * 2 ^ (CHUNK * (j - 1))], at, B)
      Negated(ws, by, at) == Ids(ws, [j \in DOMAIN ws |-> Neg(by * 2 ^ (CHUNK * (j - 1)))], at, B)
      limb == 2 ^ RMS_LIMB_W
  IN  Ids(<<H[1], gl[1]>>, <<1, P - 1>>, f0, B) \o Negated(g0h, limb, f0)
      \o Ids(<<H[2], gl[2]>>, <<1, P - 1>>, f0 + B, B)
      \o Scaled(g0h, 1, f0 + B) \o Negated(g1h, limb, f0 + B)
      \o Id(H[3], f0 + 2 * B, B, 1)
      \o Scaled(g1h, 1, f0 + 2 * B) \o Negated(G2, 1, f0 + 2 * B)
      \o Scaled(G2, limb * limb, f0 + 3 * B)
      \o Ids(<<gl[2], gl[1], slack>>, <<limb, 1, slack_coef>>, f0 + 3 * B, B)

\* The order of the limb range checks shared with the verifier.
_rms_limb_range_groups(c) ==
  LET B == c.B
      Group(role, z, bits, top) ==
        RangeQuads(Words(c, role, ChunkCount(bits), B), AuxWords(c, z, ChunkCount(bits), B),
                   ChunkTables(c, bits, top), B)
      Limbs(role, z, n) ==
        RangeQuads(Words(c, role, n, B), AuxWords(c, z, n, B), [j \in 1 .. n |-> c.range_limb], B)
      Side(s) == Limbs(s \o "_gl", "z_" \o s \o "_gl", 2)
                 \o Group(s \o "_g0h", "z_" \o s \o "_g0h", g0h_width(c), c.range_g0h_top)
                 \o Group(s \o "_g1h", "z_" \o s \o "_g1h", g1h_width(c), c.range_g1h_top)
                 \o Group(s \o "_G2", "z_" \o s \o "_G2", G2_width(c), c.range_G2_top)
  IN  Group("ym1", "z_ym1", y_width(c), c.range_y_top)
      \o Limbs("S_limb", "z_S_limb", RMS_N_LIMBS) \o Side("lo") \o Side("hi")

rmsnorm_compile(c, base) ==
  LET B == c.B   d == c.d   L == B * d
      v(role) == Own(c, role, B)
      x == IF c.rescale_bits > 0 THEN Own(c, "x", L) ELSE c.x
      target == IF c.output_rescale_bits > 0 THEN Own(c, "output_full", L) ELSE Own(c, "output", L)
      u == Aux(c, "u", B)   p == Aux(c, "p", B)
      neg_rho == NegVec(OpVec(c.id, "rho", d))
      F(i) == base + (i - 1) * B
      n_slack == ChunkCount(slack_width(c))
      Chunks(role, bits) == Words(c, role, ChunkCount(bits), B)
      S_limbs == Words(c, "S_limb", RMS_N_LIMBS, B)
      bands == Ids(<<v("S_total"), v("S")>>, <<1, P - 1>>, F(1), B)
               \o Ids(<<v("y_m1"), v("y")>>, <<1, P - 1>>, F(2), B)
               \o Id(v("S"), F(3), B, 1) \o RowSum(Own(c, "X_sq", L), F(3), L, d, ConstVec(P - 1, d))
               \o Id(u, F(4), B, 1) \o RowSum(x, F(4), L, d, neg_rho)
               \o Id(p, F(5), B, 1) \o RowSum(target, F(5), L, d, neg_rho)
               \o LinCombo(v("s_lo"), Chunks("s_lo_chunk", slack_width(c)),
                           ChunkStrides(slack_width(c)), F(6), B)
               \o LinCombo(v("s_hi"), Chunks("s_hi_chunk", slack_width(c)),
                           ChunkStrides(slack_width(c)), F(7), B)
               \o LinCombo(v("y_m1"), Chunks("ym1", y_width(c)), ChunkStrides(y_width(c)), F(8), B)
               \o LinCombo(v("S_total"), S_limbs,
                           [n \in 1 .. RMS_N_LIMBS |-> 2 ^ (RMS_LIMB_W * (n - 1))], F(9), B)
               \o RmsBracket(c, "lo", v("s_lo"), P - 1, F(10))
               \o RmsBracket(c, "hi", v("s_hi"), 1, F(14))
      LimbProducts(q, side) ==
        [n \in 1 .. RMS_N_LIMBS |->
           Product(q, S_limbs[n], Words(c, side \o "_H", RMS_N_LIMBS, B)[n], B)[1]]
      Slack(role, z) ==
        RangeQuads(Words(c, role, n_slack, B), AuxWords(c, z, n_slack, B),
                   ChunkTables(c, slack_width(c), c.range_slack_top), B)
      quads == Product(x, x, Own(c, "X_sq", L), L)
               \o Product(v("y"), v("y"), v("q1"), B) \o Product(v("y_m1"), v("y_m1"), v("q2"), B)
               \o LimbProducts(v("q1"), "lo") \o LimbProducts(v("q2"), "hi")
               \o Product(v("y"), u, p, B)
               \o Slack("s_lo_chunk", "z_lo_chunk") \o Slack("s_hi_chunk", "z_hi_chunk")
               \o _rms_limb_range_groups(c)
      rhs == Runs(0, B, d * c.eps_int) \cup Runs(B, B, P - 1)
             \cup Runs(12 * B, B, magic(c)) \cup Runs(16 * B, B, magic(c) - 1)
  IN  WithRescale(c.output_rescale_bits > 0, output_rescaling(c), base,
                  WithRescale(c.rescale_bits > 0, input_rescaling(c), base,
                              Compiled(bands, quads, 17 * B, rhs)))

---------------------------------------------------------------------------
(* Softmax: T_A and T_B bracket the row sum between s_y and s_y + 1.        *)
softmax_rescaling(c) ==
  Rescaling(c, Own(c, "x", c.B * c.M), c.x, c.rescale_bits, 2 ^ (CHUNK - 1),
            c.range_rescale, c.range_aux, c.B * c.M)
unmasked_count(c) == LET SEQ == c.B \div c.heads IN (c.heads * SEQ * (SEQ + 1)) \div 2
softmax_z_count(c) ==
  IF c.causal THEN unmasked_count(c) + causal_masked_count(c.B, c.M, c.heads) ELSE c.B * c.M

softmax_compile(c, base) ==
  LET B == c.B   M == c.M   H == c.heads   L == B * M
      v(role) == Own(c, role, L)
      r(role) == Own(c, role, B)
      x == IF c.rescale_bits > 0 THEN Own(c, "x", L) ELSE c.x
      y_A_look == IF c.saturate THEN v("y_A_raw") ELSE v("y_A")
      y_B_look == IF c.saturate THEN v("y_B_raw") ELSE v("y_B")
      pt_u_A == Aux(c, "pt_u_A", L)   pt_u_B == Aux(c, "pt_u_B", L)
      High(b) == IF c.saturate THEN b ELSE <<>>
      z_decomp ==
        IF c.causal
        THEN <<CausalFilteredId(v("z"), base, L, M, H, 1),
               CausalFilteredC2(r("c2"), base, B, H, P - 1),
               CausalFilteredId(x, base, L, M, H, 1)>>
             \o High(<<CausalFilteredId(v("z_high"), base, L, M, H, c.Z_max)>>)
             \o <<CausalMaskedId(v("z"), base + unmasked_count(c), L, M, H, 1)>>
        ELSE Id(v("z"), base, L, 1) \o <<StrideOneToMany(r("c2"), base, B, M, P - 1)>>
             \o Id(x, base, L, 1) \o High(Id(v("z_high"), base, L, c.Z_max))
      mux_at == base + softmax_z_count(c)
      Mux(s, at) ==
        LinCombo(v("y_" \o s \o "_raw"), <<v("y_" \o s), v("mux_y_" \o s)>>
                   \o (IF c.round_up THEN <<v("is_high")>> ELSE <<>>),
                 <<1, 1>> \o (IF c.round_up THEN <<-1>> ELSE <<>>), at, L)
      pt_at == mux_at + (IF c.saturate THEN 2 * L ELSE 0)
      sum_at == pt_at + 2 * L
      bands == z_decomp \o High(Mux("A", mux_at) \o Mux("B", mux_at + L))
               \o LinCombo(pt_u_A, <<v("z"), y_A_look>>, <<1, c.exp_A.beta>>, pt_at, L)
               \o LinCombo(pt_u_B, <<v("z"), y_B_look>>, <<1, c.exp_B.beta>>, pt_at + L, L)
               \o Id(r("s1"), sum_at, B, 1) \o RowSum(v("y_A"), sum_at, L, M, ConstVec(P - 1, M))
               \o Id(r("s2"), sum_at + B, B, 1)
               \o RowSum(v("y_B"), sum_at + B, L, M, ConstVec(P - 1, M))
               \o LinCombo(r("s1"), <<r("r_lo")>>, <<-1>>, sum_at + 2 * B, B)
               \o LinCombo(r("r_hi"), <<r("s2")>>, <<1>>, sum_at + 3 * B, B)
               \o LinCombo(r("c2_shifted"), <<r("c2")>>, <<1>>, sum_at + 4 * B, B)
      Bracket(role, z) == RangeQuad(r(role), Aux(c, z, B), c.range_aux, B)
      quads == RangeQuad(pt_u_A, Aux(c, "pt_z_A", L), c.exp_A, L)
               \o RangeQuad(pt_u_B, Aux(c, "pt_z_B", L), c.exp_B, L)
               \o Bracket("c2_shifted", "z_c2") \o Bracket("r_lo", "z_r_lo")
               \o Bracket("r_hi", "z_r_hi")
               \o High(NonZeroBit(v("z_high"), v("inv_z_high"), v("is_high"), L)
                       \o Product(v("is_high"), v("y_A_raw"), v("mux_y_A"), L)
                       \o Product(v("is_high"), v("y_B_raw"), v("mux_y_B"), L)
                       \o RangeQuad(v("z_high"), Aux(c, "z_z_high", L), c.range_z_high, L))
      \* A masked cell's key is Z_max: the zero half of the doubled table.
      Masked(i) == c.causal /\ i % M > (i \div M) \div H
      rhs == {<<pt_at - base + k * L + i, c.Z_max % P>> : k \in {0, 1}, i \in {i \in 0 .. L - 1 : Masked(i)}}
             \cup Runs(sum_at - base + 2 * B, B, c.s_y)
             \cup Runs(sum_at - base + 3 * B, B, Neg(c.s_y + 1))
             \cup Runs(sum_at - base + 4 * B, B, 2 ^ (c.aux_chunk_width - 1))
  IN  WithRescale(c.rescale_bits > 0, softmax_rescaling(c), base,
                  Compiled(bands, quads, sum_at + 5 * B - base, rhs))

---------------------------------------------------------------------------
(* RoPE, the maximum, the information of a token, the settlement of a table. *)
rope_rescaling(c) ==
  LET L == c.SEQ * c.heads * c.d_h
  IN  Rescaling(c, Own(c, "x_rot", L), Own(c, "x_rot_full", L), c.rescale_bits,
                2 ^ (c.output_width - 1), c.range_rescale, c.range_output, L)
rope_compile(c, base) ==
  LET L == c.SEQ * c.heads * c.d_h
      target == IF c.rescale_bits > 0 THEN Own(c, "x_rot_full", L) ELSE Own(c, "x_rot", L)
  IN  WithRescale(c.rescale_bits > 0, rope_rescaling(c), base,
                  Compiled(<<RoPEXRot(target, base, c.SEQ, c.heads, c.d_h),
                             RoPEX(c.x, base, c.SEQ, c.heads, c.d_h, RopeCos(c), RopeSin(c))>>,
                           <<>>, L, {}))

rescale_rescaling(c) ==
  Rescaling(c, Own(c, "x", c.length), c.x_full, c.rescale_bits, 2 ^ (c.output_width - 1),
            c.range_rescale, c.range_output, c.length)
rescale_compile(c, base) == WithRescale(TRUE, rescale_rescaling(c), base, Compiled(<<>>, <<>>, 0, {}))

max_compile(c, base) ==
  LET T == c.T   V == c.V   L == T * V
      v(role) == Own(c, role, L)
      t(role) == Own(c, role, T)
      gap_at == base + 2 * T
      O_at == gap_at + 2 * L
      ones == ConstVec(1, V)
      bands == RowSum(v("A"), base, L, V, ones)
               \o RowSum(v("Al"), base + T, L, V, ones) \o Id(t("vstar"), base + T, T, P - 1)
               \o Ids(<<v("gap"), c.l>>, <<1, 1>>, gap_at, L)
               \o <<StrideOneToMany(t("vstar"), gap_at, T, V, P - 1)>>
               \o Ids(<<v("neg_gap"), v("gap")>>, <<1, 1>>, gap_at + L, L)
               \o RowSum(c.O, O_at, L, V, ones)
               \o RowSum(v("Ogap"), O_at + T, L, V, ones) \o Id(t("gap_o"), O_at + T, T, P - 1)
               \o RowSum(c.O, O_at + 2 * T, L, V, [i \in 0 .. V - 1 |-> i])
               \o Id(c.tok, O_at + 2 * T, T, P - 1)
      quads == Product(v("A"), v("A"), v("A"), L) \o Product(v("A"), c.l, v("Al"), L)
               \o Product(c.O, c.O, c.O, L) \o Product(c.O, v("gap"), v("Ogap"), L)
               \o RangeQuad(v("gap"), Aux(c, "z_gap", L), c.table, L)
  IN  Compiled(bands, quads, 2 * L + 5 * T, Runs(0, T, 1) \cup Runs(O_at - base, T, 1))

\* k*z_o = gap_o2 + rem, surprisal = z_o + b, and the sum of e is at most pw.
info_compile(c, base) ==
  LET T == c.T   L == T * c.V
      v(role) == Own(c, role, T)
      dw == Words(c, "dw", c.n_dw, T)   zw == Words(c, "zw", c.n_zw, T)
      At(i) == base + i * T
      strides(n) == [j \in 1 .. n |-> 2 ^ (c.wb * (j - 1))]
      bands == RowSum(c.e, At(0), L, c.V, ConstVec(1, c.V)) \o Id(v("a"), At(0), T, P - 1)
               \o Ids(<<v("a"), v("d"), c.pw>>, <<1, 1, P - 1>>, At(1), T)
               \o LinCombo(v("d"), dw, strides(c.n_dw), At(2), T)
               \o Ids(<<v("z_o"), c.gap_o2, v("rem")>>, <<c.k, P - 1, P - 1>>, At(3), T)
               \o LinCombo(v("z_o"), zw, strides(c.n_zw), At(4), T)
               \o Ids(<<v("surprisal"), v("z_o"), c.b>>, <<1, P - 1, P - 1>>, At(5), T)
      Ranged(ws, z) ==
        RangeQuads(ws, AuxWords(c, z, Len(ws), T), [j \in DOMAIN ws |-> c.range_wd], T)
  IN  Compiled(bands, Ranged(dw, "z_dw") \o RangeQuad(v("rem"), Aux(c, "z_rem", T), c.range_k, T)
                      \o Ranged(zw, "z_zw"), 6 * T, {})

\* (alpha - v[j]) * w[j] = mult[j], and the sum of the z's is the sum of the w's.
table_settlement_compile(c, base) ==
  LET t == c.table   n == TLen(t)   w == WVar(t)
      coef_vec == [j \in 0 .. n - 1 |-> (t.alpha - Fingerprint(t, j)) % P]
  IN  Compiled(<<PerSlotVector(w, base, n, coef_vec), IdentityScalar(MultVar(t), base, n, P - 1)>>
               \o [k \in DOMAIN c.z_vars |->
                     StrideManyToOne(c.z_vars[k], base + n, c.z_vars[k].len, c.z_vars[k].len, 1)]
               \o <<StrideManyToOne(w, base + n, n, n, P - 1)>>,
               <<>>, n + 1, {})
===========================================================================
