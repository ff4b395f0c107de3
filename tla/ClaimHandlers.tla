--------------------------- MODULE ClaimHandlers ---------------------------
(***************************************************************************)
(* The verifier's own compile of a claim (verifier/src/handlers.rs): the    *)
(* families of linear terms as expanders over a variable, the quadratic     *)
(* families, the number of constraint ids and the right sides, and the      *)
(* conditions under which a handler panics.                                 *)
(***************************************************************************)
EXTENDS Expanders, ClaimVars
LOCAL INSTANCE SequencesExt
LOCAL INSTANCE FiniteSetsExt

Built(families, quads, n, rhs) == [families |-> families, quads |-> quads, n |-> n, rhs |-> rhs]
LOCAL Sum(s) == FoldLeft(LAMBDA a, x : a + x, 0, s)
LOCAL Ones(n) == ConstVec(1, n)

---------------------------------------------------------------------------
(* The emitters of Build.                                                   *)
push_family(v, exp) == <<[v |-> v, row |-> 0, len |-> v.len, exp |-> exp]>>
emit_id(v, cid, coef) == push_family(v, RowsumConst(cid, 1, coef % P))
emit_ids(vars, coefs, cid) == FlattenSeq([n \in DOMAIN vars |-> emit_id(vars[n], cid, coefs[n])])
emit_rowsum(v, cid, stride, coef_vec) == push_family(v, Rowsum(cid, stride, coef_vec))
emit_stride_o2m(v, cid, stride, coef) == push_family(v, TransposeO2m(cid, 1, 1, stride, coef % P))
emit_transpose_o2m(v, cid, rows, cols, fan, coef) ==
  push_family(v, TransposeO2m(cid, rows, cols, fan, coef % P))
emit_lin_combo(target, words, coeffs, cid) ==
  emit_id(target, cid, 1) \o emit_ids(words, [n \in DOMAIN words |-> Neg(coeffs[n])], cid)
emit_quad(x, y, z, a, b, l) == <<[x |-> x, y |-> y, z |-> z, a |-> a, b |-> b, L |-> l]>>
emit_product(x, y, z, l) == emit_quad(x, y, z, P - 1, 0, l)
emit_range(x, z, alpha, l) == emit_quad(x, z, z, (P - alpha) % P, P - 1, l)
emit_ranges(xs, zs, alphas, l) ==
  FlattenSeq([n \in DOMAIN xs |-> emit_range(xs[n], zs[n], alphas[n], l)])
add_rhs(at, length, val) ==
  IF val % P = 0 THEN {} ELSE {<<at + i, val % P>> : i \in 0 .. length - 1}

\* The one rescale gadget, over ids cur .. cur + 2*l - 1 (off = cur - base).
emit_rescale(c, role, high, full, bits, shift_width, tight, loose, l, base, off) ==
  Built(emit_lin_combo(full, <<high, Low(c, role, l)>>, <<2 ^ bits, 1>>, base + off)
          \o emit_lin_combo(Shifted(c, role, l), <<high>>, <<1>>, base + off + l),
        emit_range(Low(c, role, l), ZLow(c, role, l), tight.alpha, l)
          \o emit_range(Shifted(c, role, l), ZShifted(c, role, l), loose.alpha, l),
        2 * l, add_rhs(off + l, l, 2 ^ (shift_width - 1)))
After(b, more) == Built(b.families \o more.families, b.quads \o more.quads,
                        b.n + more.n, b.rhs \cup more.rhs)
\* b, and the gadget behind its ids when the claim rescales.
with_rescale(b, c, role, high, full, bits, shift_width, tight, loose, l, base) ==
  IF bits > 0 THEN After(b, emit_rescale(c, role, high, full, bits, shift_width, tight, loose, l, base, b.n))
  ELSE b

---------------------------------------------------------------------------
(* compile_op, and the handlers it calls.                                   *)
handle_add(c, base) ==
  IF c.public_rhs # -1
  THEN Built(emit_id(c.a, base, 1), <<>>, c.length, add_rhs(0, c.length, c.public_rhs))
  ELSE Built(emit_id(c.a, base, 1) \o emit_id(c.b, base, 1) \o emit_id(Own(c, "c", c.length), base, P - 1),
             <<>>, c.length, {})
handle_lincomb(c, base) ==
  Built(emit_ids(c.xs, c.coefs, base), <<>>, c.length,
        IF Len(c.rhs) = 1 THEN add_rhs(0, c.length, c.rhs[1])
        ELSE UNION {add_rhs(i - 1, 1, c.rhs[i]) : i \in 1 .. c.length})
handle_hadamard(c, base) ==
  LET l == c.length   high == Own(c, "c", l)   full == Own(c, "c_full", l)
  IN  with_rescale(Built(<<>>, emit_product(c.a, c.b, IF c.rescale_bits > 0 THEN full ELSE high, l), 0, {}),
                   c, "c", high, full, c.rescale_bits, c.output_width,
                   c.range_rescale, c.range_output, l, base)
\* One family per row of E: the expander scatters by token.
handle_embedding(c, base) ==
  LET l == Cardinality(DOMAIN c.token_ids) * c.d
      rows_per_w == ELL \div c.d
  IN  Built(emit_id(Own(c, "x", l), base, 1)
            \o [i \in 1 .. nrows(c.E.len) |->
                  [v |-> c.E, row |-> i - 1, len |-> ELL,
                   exp |-> Embed(base, c.d, c.token_ids, (i - 1) * rows_per_w, rows_per_w)]],
            <<>>, l, {})
handle_rope(c, base) ==
  LET l == c.SEQ * c.heads * c.d_h
      high == Own(c, "x_rot", l)   full == Own(c, "x_rot_full", l)
  IN  with_rescale(
        Built(push_family(IF c.rescale_bits > 0 THEN full ELSE high, RopeXrot(base, c.heads, c.d_h))
              \o push_family(c.x, RopeX(base, c.heads, c.d_h, RopeCos(c), RopeSin(c))),
              <<>>, l, {}),
        c, "x_rot", high, full, c.rescale_bits, c.output_width, c.range_rescale, c.range_output, l, base)
handle_word_extract(c, base) ==
  Built(emit_id(c.x, base, 1)
        \o emit_ids(Words(c, "word", Len(c.coeffs), c.length),
                    [n \in DOMAIN c.coeffs |-> Neg(c.coeffs[n])], base),
        <<>>, c.length, add_rhs(0, c.length, P - (c.shift % P)))
handle_range_word(c) ==
  Built(<<>>, emit_range(c.x, Aux(c, "z", c.length), c.table.alpha, c.length), 0, {})
handle_rescale(c, base) ==
  emit_rescale(c, "x", Own(c, "x", c.length), c.x_full, c.rescale_bits, c.output_width,
               c.range_rescale, c.range_output, c.length, base, 0)

\* The A side is the B side transposed, with lambda for rho.
compile_matmul(c, base) ==
  LET h == c.heads   kk == c.head_dim   k == c.k   m == c.m   n == c.n
      l_out == m * h * n
      high == Own(c, "C", l_out)   full == Own(c, "C_full", l_out)
      rho == OpVec(c.id, "rho", h * n)   lam == OpVec(c.id, "lam", h * m)
      y == Aux(c, "y", k)   u == Aux(c, "u", k)   p == Aux(c, "p", k)
      lf1 == base   lf2 == base + k   lf3 == base + 2 * k
  IN  with_rescale(
        Built(emit_id(y, lf1, 1)
                 \o push_family(c.B, FreivaldsB(lf1, k, n, h, kk, c.transpose_b, NegVec(rho)))
                 \o emit_id(u, lf2, 1)
                 \o push_family(c.A, FreivaldsB(lf2, k, m, h, kk, TRUE, NegVec(lam)))
                 \o push_family(p, RowsumConst(lf3, kk, 1))
                 \o push_family(IF c.rescale_bits > 0 THEN full ELSE high,
                                FreivaldsC(lf3, m, n, h, lam, rho)),
              emit_product(u, y, p, k), 2 * k + h, {}),
        c, "C", high, full, c.rescale_bits, c.output_width, c.range_rescale, c.range_output, l_out, base)

compile_routed_projected(c, base) ==
  LET t == c.T   k == c.K   j == c.J   e == c.E
      neg_rho == NegVec(OpVec(c.rho_id, "rho", j))
      sig == OpVec(c.id, "sig", k)   lam == OpVec(c.id, "lam", t)
      Pj == Aux(c, "Pj", e * k)   Qm == Aux(c, "Qm", t * k)   Hd == Aux(c, "Hd", t * k)
      yr == Aux(c, "yr", t)
      f_y == Own3(c, "f_y", e)   f_u == Own3(c, "f_u", e)   f_p == Own3(c, "f_p", e)
      b_yr == base + e * k   b_sum == b_yr + t   b_fy == b_sum + t
      b_fu == b_fy + e   b_fin == b_fu + e
      Column(v, at, rows, cols, neg) ==
        push_family(v, FreivaldsB(at, rows, cols, 1, rows, FALSE, neg))
  IN  Built(emit_id(Pj, base, 1)
            \o (IF c.use_bridge THEN <<>>
                ELSE FlattenSeq([x \in 1 .. e |-> Column(c.W[x], base + (x - 1) * k, k, j, neg_rho)]))
            \o emit_id(yr, b_yr, 1) \o Column(c.Y, b_yr, t, j, neg_rho)
            \o push_family(Hd, RowsumConst(b_sum, k, 1)) \o emit_id(yr, b_sum, P - 1)
            \o emit_id(f_y, b_fy, 1) \o Column(Pj, b_fy, e, k, NegVec(sig))
            \o emit_id(f_u, b_fu, 1)
            \o push_family(c.M, FreivaldsB(b_fu, e, t, 1, e, TRUE, NegVec(lam)))
            \o push_family(f_p, RowsumConst(b_fin, e, 1))
            \o push_family(Qm, FreivaldsC(b_fin, t, k, 1, lam, sig)),
            emit_product(c.X, Qm, Hd, t * k) \o emit_product(f_u, f_y, f_p, e),
            b_fin + 1 - base,
            IF c.use_bridge THEN UNION {add_rhs(i, 1, c.pin[i]) : i \in 0 .. e * k - 1} ELSE {})

---------------------------------------------------------------------------
(* RMSNorm: the widths are derived from the public configuration again.     *)
bitlen(n) == IF n = 0 THEN 0 ELSE CHOOSE w \in 1 .. n : 2 ^ (w - 1) <= n /\ n < 2 ^ w
LOCAL AtLeast(a, b) == IF a < b THEN b ELSE a
isqrt_u128(n) == CHOOSE x \in 0 .. n : x * x <= n /\ n < (x + 1) * (x + 1)

rms_chunk_widths(total_bits) ==
  LET full == [i \in 1 .. total_bits \div CHUNK |-> CHUNK]
      ws == IF total_bits % CHUNK # 0 THEN Append(full, total_bits % CHUNK) ELSE full
  IN  IF ws = <<>> THEN <<1>> ELSE ws

rms_widths(d, eps_int, mg) ==
  LET s_min == d * eps_int
      y == CHOOSE v \in AtLeast(isqrt_u128(mg \div s_min), 1) .. mg + 1 :
             v * v * s_min >= mg
             /\ \A u \in AtLeast(isqrt_u128(mg \div s_min), 1) .. v - 1 : u * u * s_min < mg
      yw == AtLeast(bitlen(y - 1), 1)
      cap == 2 ^ (RMS_LIMB_W * RMS_N_LIMBS)
      sw == bitlen(2 * isqrt_u128(mg * cap) + cap)
  IN  [y |-> yw, slack |-> sw, g0h |-> 2 * yw, g1h |-> 2 * yw + 1,
       g2 |-> AtLeast(bitlen((mg + 2 ^ sw) \div 2 ^ (2 * RMS_LIMB_W)), 1)]

\* Words of `widths` bits: a full one is checked by range_slack, a narrow one by top.
group_alphas(c, widths, top) ==
  [n \in DOMAIN widths |-> IF widths[n] = CHUNK THEN c.range_slack.alpha ELSE top.alpha]

\* The constraints between the rescales of the input and of the output.
rms_core(c, base, mg, w) ==
  LET bsz == c.B   d == c.d   l == bsz * d
      neg_rho == NegVec(OpVec(c.id, "rho", d))
      v(role) == Own(c, role, bsz)
      At(i) == base + (i - 1) * bsz
      x == IF c.rescale_bits > 0 THEN Own(c, "x", l) ELSE c.x
      target == IF c.output_rescale_bits > 0 THEN Own(c, "output_full", l) ELSE Own(c, "output", l)
      u == Aux(c, "u", bsz)   p == Aux(c, "p", bsz)
      Chunks(role, width) == Words(c, role, Len(rms_chunk_widths(width)), bsz)
      Zs(role, width) == AuxWords(c, role, Len(rms_chunk_widths(width)), bsz)
      s_limbs == Words(c, "S_limb", RMS_N_LIMBS, bsz)
      H(side) == Words(c, side \o "_H", RMS_N_LIMBS, bsz)
      gl(side) == Words(c, side \o "_gl", 2, bsz)
      lw == RMS_LIMB_W
      \* coefficient sgn * 2^(shift + CHUNK*j) for chunk j
      Strided(ws, sgn, shift, at) ==
        emit_ids(ws, [j \in DOMAIN ws |-> LET k == 2 ^ (shift + CHUNK * (j - 1))
                                          IN  IF sgn < 0 THEN Neg(k) ELSE k], at)
      Recombine(whole, ws, at) == emit_id(whole, at, 1) \o Strided(ws, -1, 0, at)
      Bracket(f0, side, slack, slack_coef) ==
        LET g0h == Chunks(side \o "_g0h", w.g0h)   g1h == Chunks(side \o "_g1h", w.g1h)
            g2 == Chunks(side \o "_G2", w.g2)
        IN  emit_id(H(side)[1], f0, 1) \o emit_id(gl(side)[1], f0, P - 1) \o Strided(g0h, -1, lw, f0)
            \o emit_id(H(side)[2], f0 + bsz, 1) \o Strided(g0h, 1, 0, f0 + bsz)
            \o emit_id(gl(side)[2], f0 + bsz, P - 1) \o Strided(g1h, -1, lw, f0 + bsz)
            \o emit_id(H(side)[3], f0 + 2 * bsz, 1)
            \o Strided(g1h, 1, 0, f0 + 2 * bsz) \o Strided(g2, -1, 0, f0 + 2 * bsz)
            \o Strided(g2, 1, 2 * lw, f0 + 3 * bsz)
            \o emit_id(gl(side)[2], f0 + 3 * bsz, 2 ^ lw) \o emit_id(gl(side)[1], f0 + 3 * bsz, 1)
            \o emit_id(slack, f0 + 3 * bsz, slack_coef)
      families ==
        emit_id(v("S_total"), At(1), 1) \o emit_id(v("S"), At(1), P - 1)
        \o emit_id(v("y_m1"), At(2), 1) \o emit_id(v("y"), At(2), P - 1)
        \o emit_id(v("S"), At(3), 1) \o emit_rowsum(Own(c, "X_sq", l), At(3), d, ConstVec(P - 1, d))
        \o emit_id(u, At(4), 1) \o emit_rowsum(x, At(4), d, neg_rho)
        \o emit_id(p, At(5), 1) \o emit_rowsum(target, At(5), d, neg_rho)
        \o Recombine(v("s_lo"), Chunks("s_lo_chunk", w.slack), At(6))
        \o Recombine(v("s_hi"), Chunks("s_hi_chunk", w.slack), At(7))
        \o Recombine(v("y_m1"), Chunks("ym1", w.y), At(8))
        \o emit_id(v("S_total"), At(9), 1)
        \o emit_ids(s_limbs, [n \in 1 .. RMS_N_LIMBS |-> Neg(2 ^ (lw * (n - 1)))], At(9))
        \o Bracket(At(10), "lo", v("s_lo"), P - 1) \o Bracket(At(14), "hi", v("s_hi"), 1)
      LimbProducts(q, side) ==
        FlattenSeq([k \in 1 .. RMS_N_LIMBS |-> emit_product(q, s_limbs[k], H(side)[k], bsz)])
      Group(role, z, width, top) ==
        emit_ranges(Chunks(role, width), Zs(z, width),
                    group_alphas(c, rms_chunk_widths(width), top), bsz)
      Limbs(role, z, n) ==
        emit_ranges(Words(c, role, n, bsz), AuxWords(c, z, n, bsz),
                    [k \in 1 .. n |-> c.range_limb.alpha], bsz)
      Side(s) == Limbs(s \o "_gl", "z_" \o s \o "_gl", 2)
                 \o Group(s \o "_g0h", "z_" \o s \o "_g0h", w.g0h, c.range_g0h_top)
                 \o Group(s \o "_g1h", "z_" \o s \o "_g1h", w.g1h, c.range_g1h_top)
                 \o Group(s \o "_G2", "z_" \o s \o "_G2", w.g2, c.range_G2_top)
      quads ==
        emit_product(x, x, Own(c, "X_sq", l), l)
        \o emit_product(v("y"), v("y"), v("q1"), bsz) \o emit_product(v("y_m1"), v("y_m1"), v("q2"), bsz)
        \o LimbProducts(v("q1"), "lo") \o LimbProducts(v("q2"), "hi")
        \o emit_product(v("y"), u, p, bsz)
        \o Group("s_lo_chunk", "z_lo_chunk", w.slack, c.range_slack_top)
        \o Group("s_hi_chunk", "z_hi_chunk", w.slack, c.range_slack_top)
        \o Group("ym1", "z_ym1", w.y, c.range_y_top) \o Limbs("S_limb", "z_S_limb", RMS_N_LIMBS)
        \o Side("lo") \o Side("hi")
  IN  Built(families, quads, 17 * bsz,
            add_rhs(0, bsz, d * c.eps_int) \cup add_rhs(bsz, bsz, P - 1)
            \cup add_rhs(12 * bsz, bsz, mg) \cup add_rhs(16 * bsz, bsz, mg + P - 1))

compile_rmsnorm(c, base) ==
  LET l == c.B * c.d
      mg == c.d * c.s ^ 4
  IN  with_rescale(
        with_rescale(rms_core(c, base, mg, rms_widths(c.d, c.eps_int, mg)),
                     c, "x", Own(c, "x", l), c.x, c.rescale_bits, CHUNK,
                     c.range_rescale, c.range_slack, l, base),
        c, "output", Own(c, "output", l), Own(c, "output_full", l), c.output_rescale_bits,
        c.output_width, c.range_output_rescale, c.range_output, l, base)

---------------------------------------------------------------------------
compile_silu(c, base) ==
  LET l == c.length
      v(role) == Own(c, role, l)
      x == IF c.rescale_bits > 0 THEN v("x") ELSE c.x
      a == Words(c, "a", 5, l)   z_a == AuxWords(c, "z_a", 5, l)
      pt_u == Aux(c, "pt_u", l)
  IN  with_rescale(Built(
        emit_lin_combo(x, <<v("magnitude"), v("C")>>, <<1, 2>>, base)
        \o emit_lin_combo(v("magnitude"), a, <<1, c.b, c.b_2, c.b_3, c.b_4>>, base + l)
        \o emit_lin_combo(v("g"), <<a[3], a[4], a[5]>>, <<c.b_2, c.b_3, c.b_4>>, base + 2 * l)
        \o emit_lin_combo(v("key"), <<v("sign"), a[2]>>, <<c.T_LEN, 1>>, base + 3 * l)
        \o emit_lin_combo(x, <<v("output_sat"), v("C")>>, <<1, 1>>, base + 4 * l)
        \o emit_lin_combo(v("y"), <<v("output"), v("mux_a"), v("mux_b")>>, <<1, 1, P - 1>>, base + 5 * l)
        \o emit_lin_combo(pt_u, <<v("key"), v("y")>>, <<1, c.silu_table.beta>>, base + 6 * l),
        emit_product(v("sign"), v("sign"), v("sign"), l) \o emit_product(v("sign"), x, v("C"), l)
        \o emit_product(v("C"), v("inv_x"), v("sign"), l)
        \o emit_product(v("g"), v("inv_g"), v("is_high"), l)
        \o emit_product(v("is_high"), v("g"), v("g"), l)
        \o emit_product(v("is_high"), v("is_high"), v("is_high"), l)
        \o emit_product(v("is_high"), v("y"), v("mux_a"), l)
        \o emit_product(v("is_high"), v("output_sat"), v("mux_b"), l)
        \o emit_ranges(a, z_a, <<c.range_b.alpha, c.range_a1.alpha, c.range_w2.alpha,
                                 c.range_w3.alpha, c.range_w4.alpha>>, l)
        \o emit_range(pt_u, Aux(c, "pt_z", l), c.silu_table.alpha, l), 7 * l, {}),
        c, "x", x, c.x, c.rescale_bits, c.width_2, c.range_rescale, c.range_x, l, base)

compile_softmax(c, base) ==
  LET bsz == c.B   m == c.M   h == c.heads   l == bsz * m
      v(role) == Own(c, role, l)
      r(role) == Own(c, role, bsz)
      x == IF c.rescale_bits > 0 THEN v("x") ELSE c.x
      seq == bsz \div h
      l_u == (h * seq * (seq + 1)) \div 2
      l_m == h * Sum([i \in 1 .. seq |-> m - i])
      Sat(fs) == IF c.saturate THEN fs ELSE <<>>
      y_look(s) == v(IF c.saturate THEN "y_" \o s \o "_raw" ELSE "y_" \o s)
      scores ==
        IF c.causal
        THEN push_family(v("z"), CausalId(base, m, h, 1)) \o push_family(r("c2"), CausalC2(base, h, P - 1))
             \o push_family(x, CausalId(base, m, h, 1))
             \o Sat(push_family(v("z_high"), CausalId(base, m, h, c.Z_max % P)))
             \o push_family(v("z"), CausalMasked(base + l_u, m, h, 1))
        ELSE emit_id(v("z"), base, 1) \o emit_stride_o2m(r("c2"), base, m, P - 1)
             \o emit_id(x, base, 1) \o Sat(emit_id(v("z_high"), base, c.Z_max))
      mux_at == base + (IF c.causal THEN l_u + l_m ELSE l)
      Mux(s, at) ==
        emit_lin_combo(v("y_" \o s \o "_raw"),
                       <<v("y_" \o s), v("mux_y_" \o s)>> \o (IF c.round_up THEN <<v("is_high")>> ELSE <<>>),
                       IF c.round_up THEN <<1, 1, P - 1>> ELSE <<1, 1>>, at)
      pt_at == IF c.saturate THEN mux_at + 2 * l ELSE mux_at
      s_at == pt_at + 2 * l
      f5 == s_at + 2 * bsz
      alpha_r == c.range_aux.alpha
      families ==
        scores \o Sat(Mux("A", mux_at) \o Mux("B", mux_at + l))
        \o emit_lin_combo(Aux(c, "pt_u_A", l), <<v("z"), y_look("A")>>, <<1, c.exp_A.beta>>, pt_at)
        \o emit_lin_combo(Aux(c, "pt_u_B", l), <<v("z"), y_look("B")>>, <<1, c.exp_B.beta>>, pt_at + l)
        \o emit_id(r("s1"), s_at, 1) \o emit_rowsum(v("y_A"), s_at, m, ConstVec(P - 1, m))
        \o emit_id(r("s2"), s_at + bsz, 1) \o emit_rowsum(v("y_B"), s_at + bsz, m, ConstVec(P - 1, m))
        \o emit_lin_combo(r("s1"), <<r("r_lo")>>, <<P - 1>>, f5)
        \o emit_lin_combo(r("r_hi"), <<r("s2")>>, <<1>>, f5 + bsz)
        \o emit_lin_combo(r("c2_shifted"), <<r("c2")>>, <<1>>, f5 + 2 * bsz)
      Masked(row) == (row \div h) + 1          \* the masked cells of a row start here
      masked_rhs ==
        UNION {add_rhs(pt - base + row * m + Masked(row), m - Masked(row), c.Z_max) :
                 pt \in {pt_at, pt_at + l}, row \in {b \in 0 .. bsz - 1 : Masked(b) < m}}
      quads ==
        emit_range(Aux(c, "pt_u_A", l), Aux(c, "pt_z_A", l), c.exp_A.alpha, l)
        \o emit_range(Aux(c, "pt_u_B", l), Aux(c, "pt_z_B", l), c.exp_B.alpha, l)
        \o emit_range(r("c2_shifted"), Aux(c, "z_c2", bsz), alpha_r, bsz)
        \o emit_range(r("r_lo"), Aux(c, "z_r_lo", bsz), alpha_r, bsz)
        \o emit_range(r("r_hi"), Aux(c, "z_r_hi", bsz), alpha_r, bsz)
        \o Sat(emit_product(v("z_high"), v("inv_z_high"), v("is_high"), l)
               \o emit_product(v("is_high"), v("z_high"), v("z_high"), l)
               \o emit_product(v("is_high"), v("is_high"), v("is_high"), l)
               \o emit_product(v("is_high"), v("y_A_raw"), v("mux_y_A"), l)
               \o emit_product(v("is_high"), v("y_B_raw"), v("mux_y_B"), l)
               \o emit_range(v("z_high"), Aux(c, "z_z_high", l), c.range_z_high.alpha, l))
  IN  with_rescale(
            Built(families, quads, f5 + 3 * bsz - base,
                  (IF c.causal THEN masked_rhs ELSE {})
                  \cup add_rhs(f5 - base, bsz, c.s_y)
                  \cup add_rhs(f5 + bsz - base, bsz, Neg(c.s_y + 1))
                  \cup add_rhs(f5 + 2 * bsz - base, bsz, 2 ^ (c.aux_chunk_width - 1))),
            c, "x", x, c.x, c.rescale_bits, CHUNK, c.range_rescale, c.range_aux, l, base)

---------------------------------------------------------------------------
compile_max(c, base) ==
  LET t == c.T   vv == c.V   l == t * vv
      v(role) == Own(c, role, l)
      s(role) == Own(c, role, t)
      gbase == base + 2 * t   nbase == gbase + l   obase == nbase + l
  IN  Built(
        emit_rowsum(v("A"), base, vv, Ones(vv))
        \o emit_rowsum(v("Al"), base + t, vv, Ones(vv)) \o emit_id(s("vstar"), base + t, P - 1)
        \o emit_id(v("gap"), gbase, 1) \o emit_id(c.l, gbase, 1) \o emit_stride_o2m(s("vstar"), gbase, vv, P - 1)
        \o emit_id(v("neg_gap"), nbase, 1) \o emit_id(v("gap"), nbase, 1)
        \o emit_rowsum(c.O, obase, vv, Ones(vv))
        \o emit_rowsum(v("Ogap"), obase + t, vv, Ones(vv)) \o emit_id(s("gap_o"), obase + t, P - 1)
        \o emit_rowsum(c.O, obase + 2 * t, vv, [i \in 0 .. vv - 1 |-> i])
        \o emit_id(c.tok, obase + 2 * t, P - 1),
        emit_product(v("A"), v("A"), v("A"), l) \o emit_product(v("A"), c.l, v("Al"), l)
        \o emit_product(c.O, c.O, c.O, l) \o emit_product(c.O, v("gap"), v("Ogap"), l)
        \o emit_range(v("gap"), Aux(c, "z_gap", l), c.table.alpha, l),
        2 * l + 5 * t, add_rhs(0, t, 1) \cup add_rhs(obase - base, t, 1))

compile_routing(c, base) ==
  LET t == c.T   e == c.E   l == t * e
      v(role) == Own(c, role, l)
      s(role) == Own(c, role, t)
      two_l == 2 ^ c.L_bits
      f3 == base + l + t   f4 == f3 + t   f5 == f4 + l
  IN  Built(
        emit_id(v("rt"), base, 1) \o emit_id(c.r, base, Neg(two_l))
        \o emit_rowsum(v("m"), base + l, e, Ones(e))
        \o emit_rowsum(v("mrt"), f3, e, Ones(e)) \o emit_id(s("rstar"), f3, P - 1)
        \o emit_id(v("gap"), f4, 1) \o emit_id(v("rt"), f4, 1) \o emit_stride_o2m(s("rstar"), f4, e, P - 1)
        \o emit_id(s("r_chosen"), f5, two_l)
        \o emit_rowsum(v("m"), f5, e, [i \in 0 .. e - 1 |-> e - 1 - i]) \o emit_id(s("rstar"), f5, P - 1),
        emit_product(v("m"), v("m"), v("m"), l) \o emit_product(v("m"), v("rt"), v("mrt"), l),
        2 * l + 3 * t,
        UNION {add_rhs(f, 1, e - 1 - (f % e)) : f \in 0 .. l - 1} \cup add_rhs(l, t, 1))

compile_topk_routing(c, base) ==
  LET t == c.T   e == c.E   l == t * e
      v(role) == Own(c, role, l)
      neg_two_l == Neg(2 ^ c.L_bits)
      f2 == base + l   fd == f2 + t   fv == fd + l
  IN  Built(
        emit_transpose_o2m(v("qt"), base, t, e, 1, 1) \o emit_transpose_o2m(c.s, base, t, e, 1, neg_two_l)
        \o emit_stride_o2m(c.b, base, t, neg_two_l)
        \o emit_rowsum(v("m"), f2, e, Ones(e))
        \o emit_id(v("d"), fd, 1) \o emit_id(v("qt"), fd, P - 1) \o emit_stride_o2m(Own(c, "tau", t), fd, e, 1)
        \o emit_id(v("v"), fv, 1) \o emit_id(v("md"), fv, P - 2) \o emit_id(v("d"), fv, 1),
        emit_product(v("m"), v("m"), v("m"), l) \o emit_product(v("m"), v("d"), v("md"), l),
        3 * l + t,
        UNION {add_rhs(i * t, t, e - 1 - i) : i \in 0 .. e - 2} \cup add_rhs(l, t, c.k))

compile_topk_slots(c, base) ==
  LET t == c.T   e == c.E   k == c.k   l == t * e
      masks == Words(c, "M", k, l)   prods == Words(c, "MS", k, l)
      Rows(vars, at) ==
        FlattenSeq([i \in 1 .. k |-> emit_rowsum(vars[i], at + (i - 1) * t, e, Ones(e))])
  IN  Built(
        emit_ids(masks, [i \in 1 .. k |-> 1], base) \o emit_id(c.m, base, P - 1)
        \o Rows(masks, base + l) \o Rows(prods, base + l + k * t)
        \o emit_transpose_o2m(Own(c, "ss", t * k), base + l + k * t, t, k, 1, P - 1),
        FlattenSeq([i \in 1 .. k |-> emit_product(masks[i], masks[i], masks[i], l)])
        \o FlattenSeq([i \in 1 .. k |-> emit_product(masks[i], c.s, prods[i], l)]),
        l + 2 * k * t, add_rhs(l, k * t, 1))

compile_gate_bracket(c, base) ==
  LET t == c.T   k == c.k   l == t * k
      v(role) == Own(c, role, l)
      z == Own(c, "Z", t)
      bd == base + t + l   bg == bd + l
  IN  Built(
        emit_rowsum(c.ss, base, k, Ones(k)) \o emit_id(z, base, P - 1)
        \o emit_id(v("Zb"), base + t, 1) \o emit_stride_o2m(z, base + t, k, P - 1)
        \o emit_id(v("wZ"), bd, 1) \o emit_id(v("rem"), bd, 1) \o emit_id(c.ss, bd, Neg(c.C))
        \o emit_id(v("gr"), bg, 1) \o emit_id(v("Zb"), bg, P - 1) \o emit_id(v("rem"), bg, 1),
        emit_product(v("w"), v("Zb"), v("wZ"), l), t + 3 * l, add_rhs(bg - base, l, P - 1))

\* Parts laid end to end over a whole, for a split and a concat.
Segments(whole, parts, base) ==
  Built(emit_id(whole, base, P - 1)
        \o FlattenSeq([n \in DOMAIN parts |->
             emit_id(parts[n], base + Sum([i \in 1 .. n - 1 |-> parts[i].len]), 1)]),
        <<>>, whole.len, {})
compile_split(c, base) == Segments(c.whole, c.parts, base)
compile_concat(c, base) ==
  Segments(Own(c, "dst", Sum([i \in DOMAIN c.srcs |-> c.srcs[i].len])), c.srcs, base)

compile_freivalds_combine(c, base) ==
  LET t == c.T   e_n == c.E   f_n == c.F   l == t * e_n
      neg_rho == NegVec(OpVec(c.id, "rho", f_n))
      m_em == Own(c, "m_em", l)   s_em == Aux(c, "s_em", l)   ms_em == Aux(c, "ms_em", l)
      ms_tm == Aux(c, "ms_tm", l)   yr == Aux(c, "yr", t)
      c4 == base + 3 * l   c5 == c4 + t
  IN  Built(
        emit_id(s_em, base, 1)
        \o FlattenSeq([e \in 1 .. e_n |-> emit_rowsum(c.xs[e], base + (e - 1) * t, f_n, neg_rho)])
        \o emit_id(m_em, base + l, 1) \o emit_transpose_o2m(c.m, base + l, t, e_n, 1, P - 1)
        \o emit_id(ms_tm, base + 2 * l, 1) \o emit_transpose_o2m(ms_em, base + 2 * l, e_n, t, 1, P - 1)
        \o emit_id(yr, c4, 1) \o emit_rowsum(c.y, c4, f_n, neg_rho)
        \o emit_rowsum(ms_tm, c5, e_n, Ones(e_n)) \o emit_id(yr, c5, P - 1),
        emit_product(m_em, s_em, ms_em, l), 3 * l + 2 * t, {})

compile_paired(c, base) ==
  LET l == c.length   u == Aux(c, "u", l)
  IN  Built(emit_id(u, base, 1) \o emit_id(c.x, base, P - 1)
              \o emit_id(Own(c, "y", l), base, Neg(c.table.beta)),
            emit_range(u, Aux(c, "z", l), c.table.alpha, l), l, add_rhs(0, l, c.shift))

compile_info(c, base) ==
  LET t == c.T
      v(role) == Own(c, role, t)
      dw == Words(c, "dw", c.n_dw, t)   zw == Words(c, "zw", c.n_zw, t)
      powers(n) == [j \in 1 .. n |-> 2 ^ (c.wb * (j - 1))]
      wd(n) == [j \in 1 .. n |-> c.range_wd.alpha]
  IN  Built(
        emit_rowsum(c.e, base, c.V, Ones(c.V)) \o emit_id(v("a"), base, P - 1)
        \o emit_ids(<<v("a"), v("d"), c.pw>>, <<1, 1, P - 1>>, base + t)
        \o emit_lin_combo(v("d"), dw, powers(c.n_dw), base + 2 * t)
        \o emit_ids(<<v("z_o"), c.gap_o2, v("rem")>>, <<c.k, P - 1, P - 1>>, base + 3 * t)
        \o emit_lin_combo(v("z_o"), zw, powers(c.n_zw), base + 4 * t)
        \o emit_ids(<<v("surprisal"), v("z_o"), c.b>>, <<1, P - 1, P - 1>>, base + 5 * t),
        emit_ranges(dw, AuxWords(c, "z_dw", c.n_dw, t), wd(c.n_dw), t)
        \o emit_range(v("rem"), Aux(c, "z_rem", t), c.range_k.alpha, t)
        \o emit_ranges(zw, AuxWords(c, "z_zw", c.n_zw, t), wd(c.n_zw), t), 6 * t, {})

settle_table(t, z_vars, base) ==
  LET t_len == TLen(t)   w == WVar(t)
      w_coef == [j \in 0 .. t_len - 1 |-> (t.alpha - (Fingerprint(t, j) % P)) % P]
  IN  Built(push_family(w, Weighted(base, w_coef)) \o emit_id(MultVar(t), base, P - 1)
            \o FlattenSeq([n \in DOMAIN z_vars |->
                 push_family(z_vars[n], RowsumConst(base + t_len, z_vars[n].len, 1))])
            \o push_family(w, RowsumConst(base + t_len, t_len, P - 1)),
            <<>>, t_len + 1, {})

---------------------------------------------------------------------------
(* What a handler asserts before it builds anything.                        *)
rms_guard(c) ==
  LET w == rms_widths(c.d, c.eps_int, c.d * c.s ^ 4)
  IN  /\ c.d * c.eps_int >= 1
      /\ 2 * w.y + RMS_LIMB_W <= bitlen(P) - 1
      /\ c.d * c.s ^ 4 + 2 ^ w.slack < P
      /\ w.g2 + 2 * RMS_LIMB_W <= bitlen(P) - 2
topk_guard(c) ==
  /\ c.k >= 1 /\ c.k < c.E
  /\ c.E - 1 < 2 ^ c.L_bits
  /\ c.range_bits >= c.width
  /\ 2 ^ (c.range_bits + 1) - 1 <= P - 2 ^ c.width
bracket_guard(c) ==
  /\ c.k >= 1
  /\ 2 ^ (c.w_bits + c.z_bits) + 2 ^ c.rem_bits < P /\ 2 ^ c.cs_bits < P
  /\ 2 ^ c.rem_bits <= P - 2 ^ AtLeast(c.rem_bits, c.z_bits) - 1
info_guard(c) ==
  /\ TLen(c.range_wd) = 2 ^ c.wb
  /\ c.n_zw > 0
  /\ c.T * (2 ^ (c.wb * c.n_zw) + c.K) < P

---------------------------------------------------------------------------
(* compile_op, the dispatch.                                                *)
compile_op(c, base) ==
  CASE c.op = "Matmul" -> compile_matmul(c, base)
    [] c.op = "LinComb" -> handle_lincomb(c, base)
    [] c.op = "Add" -> handle_add(c, base)
    [] c.op = "Concat" -> compile_concat(c, base)
    [] c.op = "Hadamard" -> handle_hadamard(c, base)
    [] c.op = "RangeWord" -> handle_range_word(c)
    [] c.op = "WordExtraction" -> handle_word_extract(c, base)
    [] c.op = "PairedTlookup" -> compile_paired(c, base)
    [] c.op = "EmbeddingLookup" -> handle_embedding(c, base)
    [] c.op = "Silu" -> compile_silu(c, base)
    [] c.op = "RmsNorm" -> compile_rmsnorm(c, base)
    [] c.op = "Softmax" -> compile_softmax(c, base)
    [] c.op = "RoPE" -> handle_rope(c, base)
    [] c.op = "Rescale" -> handle_rescale(c, base)
    [] c.op = "Max" -> compile_max(c, base)
    [] c.op = "InfoFinalize" -> compile_info(c, base)
    [] c.op = "Routing" -> compile_routing(c, base)
    [] c.op = "FreivaldsCombine" -> compile_freivalds_combine(c, base)
    [] c.op = "TopkRouting" -> compile_topk_routing(c, base)
    [] c.op = "TopkSlots" -> compile_topk_slots(c, base)
    [] c.op = "GateBracket" -> compile_gate_bracket(c, base)
    [] c.op = "Split" -> compile_split(c, base)
    [] c.op = "RoutedProjected" -> compile_routed_projected(c, base)
    [] c.op = "TableSettlement" -> settle_table(c.table, c.z_vars, base)

\* The handlers' assertions.
Accepts(c) ==
  CASE c.op = "RmsNorm" -> rms_guard(c)
    [] c.op = "TopkRouting" -> topk_guard(c)
    [] c.op = "GateBracket" -> bracket_guard(c)
    [] c.op = "InfoFinalize" -> info_guard(c)
    [] OTHER -> TRUE
===========================================================================
