--------------------------- MODULE RoutingClaims ---------------------------
(***************************************************************************)
(* The claims of the mixture-of-experts layers and how the prover compiles  *)
(* each: the argmax router and the combine (prover/routing_claim.py), the   *)
(* top-k router, its slots, gates and splits (prover/topk_routing.py) and   *)
(* the projected expert matmul (prover/routed_projected.py); then the      *)
(* prover's dispatch over all claims, and the settlements of their tables. *)
(***************************************************************************)
EXTENDS Claims
LOCAL INSTANCE SequencesExt

LOCAL Ones(n) == ConstVec(1, n)
LOCAL Transpose(v, base, rows, cols, coef) ==
  <<TransposeO2M(v, base, rows, cols, 1, coef % P)>>
LOCAL Spread(v, base, L, fan, coef) == <<StrideOneToMany(v, base, L, fan, coef % P)>>
\* part(1) \o ... \o part(n).
LOCAL Each(n, part(_)) == FlattenSeq([i \in 1 .. n |-> part(i)])

\* The tie break: expert e adds E - 1 - e to 2^L * r, so equal scores differ.
Bonus(E) == [e \in 0 .. E - 1 |-> E - 1 - e]

---------------------------------------------------------------------------
(* routing_claim.py.                                                        *)
routing_compile(c, base) ==
  LET T == c.T   E == c.E   L == T * E
      two_l == 2 ^ c.L_bits
      v(role) == Own(c, role, L)
      t(role) == Own(c, role, T)
      At2 == base + L   At3 == At2 + T   At4 == At3 + T   At5 == At4 + L
      bands == Ids(<<v("rt"), c.r>>, <<1, Neg(two_l)>>, base, L)
               \o RowSum(v("m"), At2, L, E, Ones(E))
               \o RowSum(v("mrt"), At3, L, E, Ones(E)) \o Id(t("rstar"), At3, T, P - 1)
               \o Ids(<<v("gap"), v("rt")>>, <<1, 1>>, At4, L)
               \o Spread(t("rstar"), At4, T, E, P - 1)
               \o Id(t("r_chosen"), At5, T, two_l) \o RowSum(v("m"), At5, L, E, Bonus(E))
               \o Id(t("rstar"), At5, T, P - 1)
  IN  Compiled(bands, Product(v("m"), v("m"), v("m"), L) \o Product(v("m"), v("rt"), v("mrt"), L),
               2 * L + 3 * T,
               {<<f, E - 1 - (f % E)>> : f \in 0 .. L - 1} \cup Runs(L, T, 1))

\* The rows of the chosen experts, projected by rho, add up to y projected.
fcombine_compile(c, base) ==
  LET T == c.T   E == c.E   F == c.F   L == T * E
      neg_rho == NegVec(OpVec(c.id, "rho", F))
      m_em == Own(c, "m_em", L)   s_em == Aux(c, "s_em", L)   ms_em == Aux(c, "ms_em", L)
      ms_tm == Aux(c, "ms_tm", L)   yr == Aux(c, "yr", T)
      At2 == base + L   At3 == At2 + L   At4 == At3 + L   At5 == At4 + T
      bands == Id(s_em, base, L, 1)
               \o [e \in DOMAIN c.xs |->
                     RowSumPerSlotVector(c.xs[e], base + (e - 1) * T, T * F, F, neg_rho)]
               \o Id(m_em, At2, L, 1) \o Transpose(c.m, At2, T, E, P - 1)
               \o Id(ms_tm, At3, L, 1) \o Transpose(ms_em, At3, E, T, P - 1)
               \o Id(yr, At4, T, 1) \o RowSum(c.y, At4, T * F, F, neg_rho)
               \o RowSum(ms_tm, At5, L, E, Ones(E)) \o Id(yr, At5, T, P - 1)
  IN  Compiled(bands, Product(m_em, s_em, ms_em, L), 3 * L + 2 * T, {})

---------------------------------------------------------------------------
(* topk_routing.py.                                                         *)
topk_compile(c, base) ==
  LET T == c.T   E == c.E   L == T * E
      two_l == 2 ^ c.L_bits
      v(role) == Own(c, role, L)
      At2 == base + L   At3 == At2 + T   At4 == At3 + L
      bands == Transpose(v("qt"), base, T, E, 1) \o Transpose(c.s, base, T, E, P - two_l)
               \o Spread(c.b, base, E, T, P - two_l)
               \o RowSum(v("m"), At2, L, E, Ones(E))
               \o Ids(<<v("d"), v("qt")>>, <<1, P - 1>>, At3, L)
               \o Spread(Own(c, "tau", T), At3, T, E, 1)
               \o Ids(<<v("v"), v("md"), v("d")>>, <<1, P - 2, 1>>, At4, L)
  IN  Compiled(bands, Product(v("m"), v("m"), v("m"), L) \o Product(v("m"), v("d"), v("md"), L),
               3 * L + T,
               {<<f, E - 1 - (f \div T)>> : f \in 0 .. L - 1} \cup Runs(L, T, c.k))

slots_compile(c, base) ==
  LET T == c.T   E == c.E   k == c.k   L == T * E
      M == Words(c, "M", k, L)   MS == Words(c, "MS", k, L)
      ss == Own(c, "ss", T * k)
      Sc == base + L   Sv == Sc + k * T
      PerSlot(ws, at) == [i \in 1 .. k |-> RowSumPerSlotVector(ws[i], at + (i - 1) * T, L, E, Ones(E))]
      bands == Ids(M, [i \in 1 .. k |-> 1], base, L) \o Id(c.m, base, L, P - 1)
               \o PerSlot(M, Sc) \o PerSlot(MS, Sv) \o Transpose(ss, Sv, T, k, P - 1)
  IN  Compiled(bands, Each(k, LAMBDA i : Product(M[i], M[i], M[i], L))
                      \o Each(k, LAMBDA i : Product(M[i], c.s, MS[i], L)),
               L + 2 * k * T, Runs(L, k * T, 1))

\* w = floor(C * s / Z) for each gate, Z the sum of the token's gates.
bracket_compile(c, base) ==
  LET T == c.T   k == c.k   L == T * k
      v(role) == Own(c, role, L)
      Z == Own(c, "Z", T)
      Bb == base + T   Bd == Bb + L   Bg == Bd + L
      bands == RowSum(c.ss, base, L, k, Ones(k)) \o Id(Z, base, T, P - 1)
               \o Id(v("Zb"), Bb, L, 1) \o Spread(Z, Bb, T, k, P - 1)
               \o Ids(<<v("wZ"), v("rem"), c.ss>>, <<1, 1, Neg(c.C)>>, Bd, L)
               \o Ids(<<v("gr"), v("Zb"), v("rem")>>, <<1, P - 1, 1>>, Bg, L)
  IN  Compiled(bands, Product(v("w"), v("Zb"), v("wZ"), L), T + 3 * L,
               Runs(T + 2 * L, L, P - 1))

split_compile(c, base) ==
  Compiled(Id(c.whole, base, c.whole.len, P - 1)
           \o [n \in DOMAIN c.parts |->
                 IdentityScalar(c.parts[n], base + Offset(c.parts, n), c.parts[n].len, 1)],
           <<>>, c.whole.len, {})

---------------------------------------------------------------------------
(* routed_projected.py.  With the bridge the projections Pj are pinned to   *)
(* the published trace, and no band reads the experts' weights.             *)
routed_compile(c, base) ==
  LET T == c.T   K == c.K   J == c.J   E == c.E
      neg_rho == NegVec(OpVec(c.rho_id, "rho", J))
      sig == OpVec(c.id, "sig", K)   lam == OpVec(c.id, "lam", T)
      Pj == Aux(c, "Pj", E * K)   Qm == Aux(c, "Qm", T * K)   Hd == Aux(c, "Hd", T * K)
      yr == Aux(c, "yr", T)
      f_y == Own3(c, "f_y", E)   f_u == Own3(c, "f_u", E)   f_p == Own3(c, "f_p", E)
      b_yr == base + E * K   b_sum == b_yr + T   b_fy == b_sum + T
      b_fu == b_fy + E   b_fin == b_fu + E
      experts == IF c.use_bridge THEN <<>>
                 ELSE [e \in DOMAIN c.W |->
                         FreivaldsLF1B(c.W[e], base + (e - 1) * K, K, J, 1, K, FALSE, neg_rho)]
      bands == Id(Pj, base, E * K, 1) \o experts
               \o Id(yr, b_yr, T, 1) \o <<FreivaldsLF1B(c.Y, b_yr, T, J, 1, T, FALSE, neg_rho),
                                          StrideManyToOne(Hd, b_sum, T * K, K, 1)>>
               \o Id(yr, b_sum, T, P - 1)
               \o Id(f_y, b_fy, E, 1) \o <<FreivaldsLF1B(Pj, b_fy, E, K, 1, E, FALSE, NegVec(sig))>>
               \o Id(f_u, b_fu, E, 1) \o <<FreivaldsLF2A(c.M, b_fu, E, T, 1, E, NegVec(lam)),
                                           StrideManyToOne(f_p, b_fin, E, E, 1),
                                           FreivaldsLF3C(Qm, b_fin, T, K, 1, lam, sig)>>
  IN  Compiled(bands, Product(c.X, Qm, Hd, T * K) \o Product(f_u, f_y, f_p, E),
               b_fin + 1 - base,
               IF c.use_bridge THEN {<<i, c.pin[i]>> : i \in 0 .. E * K - 1} ELSE {})
---------------------------------------------------------------------------
(* The prover's dispatch from a claim to its compiler (core.py _compile_one), *)
(* and the settlements added behind the claims of a tape.                    *)
COMPILE_FNS(c, base) ==
  CASE c.op = "Matmul" -> matmul_compile(c, base)
    [] c.op = "LinComb" -> lincomb_compile(c, base)
    [] c.op = "Add" -> add_compile(c, base)
    [] c.op = "Concat" -> concat_compile(c, base)
    [] c.op = "Hadamard" -> hadamard_compile(c, base)
    [] c.op = "RangeWord" -> range_word_compile(c, base)
    [] c.op = "WordExtraction" -> word_extract_compile(c, base)
    [] c.op = "PairedTlookup" -> paired_tlookup_compile(c, base)
    [] c.op = "EmbeddingLookup" -> embedding_lookup_compile(c, base)
    [] c.op = "Silu" -> silu_compile(c, base)
    [] c.op = "RmsNorm" -> rmsnorm_compile(c, base)
    [] c.op = "Softmax" -> softmax_compile(c, base)
    [] c.op = "RoPE" -> rope_compile(c, base)
    [] c.op = "Rescale" -> rescale_compile(c, base)
    [] c.op = "Max" -> max_compile(c, base)
    [] c.op = "InfoFinalize" -> info_compile(c, base)
    [] c.op = "Routing" -> routing_compile(c, base)
    [] c.op = "FreivaldsCombine" -> fcombine_compile(c, base)
    [] c.op = "TopkRouting" -> topk_compile(c, base)
    [] c.op = "TopkSlots" -> slots_compile(c, base)
    [] c.op = "GateBracket" -> bracket_compile(c, base)
    [] c.op = "Split" -> split_compile(c, base)
    [] c.op = "RoutedProjected" -> routed_compile(c, base)
    [] c.op = "TableSettlement" -> table_settlement_compile(c, base)

---------------------------------------------------------------------------
(* Settlements: one per table, after the operations, over the z's of every  *)
(* lookup in it.                                                            *)
LOCAL TablesOf(quads) ==
  Distinct(FlattenSeq([n \in DOMAIN quads |-> IF quads[n].table = NoTable THEN <<>> ELSE <<quads[n].table>>]))
LOCAL Settlement(t, lookups) ==
  [op |-> "TableSettlement", id |-> t.name, table |-> t,
   z_vars |-> [k \in DOMAIN lookups |-> lookups[k].z]]
LOCAL Settlements(quads, tables) ==
  [n \in DOMAIN tables |-> Settlement(tables[n], SelectSeq(quads, LAMBDA q : q.table = tables[n]))]
LOCAL SettlementsOf(quads) == Settlements(quads, TablesOf(quads))
_collect_tables(claims) ==
  SettlementsOf(FlattenSeq([n \in DOMAIN claims |-> COMPILE_FNS(claims[n], 0).quads]))
_with_synthesized_settlements(claims) == claims \o _collect_tables(claims)
===========================================================================
