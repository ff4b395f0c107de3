------------------------------ MODULE AuxRows ------------------------------
(***************************************************************************)
(* What a claim looks up in its tables, the count of every lookup (the       *)
(* side effects of tape.py), and the rows the prover fills once the coins    *)
(* are known: inverses, projections and settlements (claims.py *_aux,        *)
(* routing_claim.py, routed_projected.py, core.py).                         *)
(***************************************************************************)
EXTENDS Compute
LOCAL INSTANCE FiniteSetsExt
LOCAL INSTANCE SequencesExt
LOCAL INSTANCE TLC

---------------------------------------------------------------------------
(* What a claim looks up: a value x in a range table, with its z, or a pair  *)
(* (key + shift, y), with u and z.  tape.py registers both by hand, beside   *)
(* the families that the compiler emits.                                    *)
Look(x, z, table) == [x |-> x, z |-> z, table |-> table]
Looks(xs, zs, tables) == [n \in DOMAIN xs |-> Look(xs[n], zs[n], tables[n])]
RescaleLooks(on, r) ==
  IF on THEN <<Look(r.low, r.z_low, r.tight), Look(r.shifted, r.z_shifted, r.loose)>> ELSE <<>>
LOCAL Same(table, n) == [j \in 1 .. n |-> table]

LOCAL LooksAt(groups) == [j \in DOMAIN groups |-> Look(groups[j].x, groups[j].z, groups[j].table)]
LOCAL SlackLooks(c, n, tables) ==
  Looks(Words(c, "s_lo_chunk", n, c.B), AuxWords(c, "z_lo_chunk", n, c.B), tables)
  \o Looks(Words(c, "s_hi_chunk", n, c.B), AuxWords(c, "z_hi_chunk", n, c.B), tables)
RmsLooks(c) ==
  SlackLooks(c, ChunkCount(slack_width(c)), ChunkTables(c, slack_width(c), c.range_slack_top))
  \o LooksAt(_rms_limb_range_groups(c))
  \o RescaleLooks(c.rescale_bits > 0, input_rescaling(c))
  \o RescaleLooks(c.output_rescale_bits > 0, output_rescaling(c))
SoftmaxLooks(c) ==
  LET r(role) == Own(c, role, c.B)
  IN  Looks(<<r("c2_shifted"), r("r_lo"), r("r_hi")>>,
            <<Aux(c, "z_c2", c.B), Aux(c, "z_r_lo", c.B), Aux(c, "z_r_hi", c.B)>>, Same(c.range_aux, 3))
      \o (IF c.saturate THEN <<Look(Own(c, "z_high", c.B * c.M), Aux(c, "z_z_high", c.B * c.M), c.range_z_high)>>
          ELSE <<>>)
      \o RescaleLooks(c.rescale_bits > 0, softmax_rescaling(c))
InfoLooks(c) ==
  Looks(Words(c, "dw", c.n_dw, c.T), AuxWords(c, "z_dw", c.n_dw, c.T), Same(c.range_wd, c.n_dw))
  \o <<Look(Own(c, "rem", c.T), Aux(c, "z_rem", c.T), c.range_k)>>
  \o Looks(Words(c, "zw", c.n_zw, c.T), AuxWords(c, "z_zw", c.n_zw, c.T), Same(c.range_wd, c.n_zw))

Ranged(c) ==
  CASE c.op = "Matmul" -> RescaleLooks(c.rescale_bits > 0, matmul_rescaling(c))
    [] c.op = "Hadamard" -> RescaleLooks(c.rescale_bits > 0, hadamard_rescaling(c))
    [] c.op = "RoPE" -> RescaleLooks(c.rescale_bits > 0, rope_rescaling(c))
    [] c.op = "Rescale" -> RescaleLooks(TRUE, rescale_rescaling(c))
    [] c.op = "RangeWord" -> <<Look(c.x, Aux(c, "z", c.length), c.table)>>
    [] c.op = "Silu" ->
         Looks(Words(c, "a", 5, c.length), AuxWords(c, "z_a", 5, c.length),
               <<c.range_b, c.range_a1, c.range_w2, c.range_w3, c.range_w4>>)
         \o RescaleLooks(c.rescale_bits > 0, silu_rescaling(c))
    [] c.op = "RmsNorm" -> RmsLooks(c)
    [] c.op = "Softmax" -> SoftmaxLooks(c)
    [] c.op = "Max" -> <<Look(Own(c, "gap", c.T * c.V), Aux(c, "z_gap", c.T * c.V), c.table)>>
    [] c.op = "InfoFinalize" -> InfoLooks(c)
    [] OTHER -> <<>>

PairLook(key, y, u, z, table, shift) ==
  [key |-> key, y |-> y, u |-> u, z |-> z, table |-> table, shift |-> shift]
\* A masked cell of a softmax looks up the zero half of its table.
LookedUp(c) ==
  CASE c.op = "PairedTlookup" ->
         <<PairLook(c.x, Own(c, "y", c.length), Aux(c, "u", c.length), Aux(c, "z", c.length), c.table,
                    ConstVec(c.shift, c.length))>>
    [] c.op = "Silu" ->
         <<PairLook(Own(c, "key", c.length), Own(c, "y", c.length), Aux(c, "pt_u", c.length),
                    Aux(c, "pt_z", c.length), c.silu_table, ConstVec(0, c.length))>>
    [] c.op = "Softmax" ->
         LET L == c.B * c.M
             shift == [i \in 0 .. L - 1 |-> IF i % c.M \in Unmasked(c, i \div c.M) THEN 0 ELSE c.Z_max]
             y(s) == Own(c, IF c.saturate THEN "y_" \o s \o "_raw" ELSE "y_" \o s, L)
         IN  <<PairLook(Own(c, "z", L), y("A"), Aux(c, "pt_u_A", L), Aux(c, "pt_z_A", L), c.exp_A, shift),
               PairLook(Own(c, "z", L), y("B"), Aux(c, "pt_u_B", L), Aux(c, "pt_z_B", L), c.exp_B, shift)>>
    [] OTHER -> <<>>

\* lookup_multiplicities: a value outside the table is not counted.
lookup_multiplicities(vec, table) ==
  [j \in DOMAIN table.T |-> Cardinality({i \in DOMAIN vec : vec[i] = table.T[j]})]
\* A mutant: a masked cell is counted in the unmasked half of its table.
KeysUnshifted(w, p) == w[p.key]
KeysOf(w, p) == [i \in DOMAIN w[p.key] |-> (w[p.key][i] + p.shift[i]) % P]
LOCAL Added(counts, e) ==
  LET new == lookup_multiplicities(e[2], e[1])
      old == IF e[1] \in DOMAIN counts THEN counts[e[1]] ELSE ConstVec(0, TLen(e[1]))
  IN  (e[1] :> [j \in DOMAIN new |-> old[j] + new[j]]) @@ counts
LOCAL RangeCounts(ranges, w) == [n \in DOMAIN ranges |-> <<ranges[n].table, w[ranges[n].x]>>]
LOCAL PairCounts(pairs, w) == [n \in DOMAIN pairs |-> <<pairs[n].table, KeysOf(w, pairs[n])>>]
side_effects(c, w, counts) == FoldLeft(Added, counts, RangeCounts(Ranged(c), w) \o PairCounts(LookedUp(c), w))

---------------------------------------------------------------------------
(* The rows of phases 2 and 3, after the coins.                             *)
Inverses(x, alpha) == [i \in DOMAIN x |-> FInv((alpha - x[i]) % P)]
LOCAL RangeRows(ranges, w) ==
  LET Z(a, n) == a @@ (ranges[n].z :> Inverses(w[ranges[n].x], ranges[n].table.alpha))
  IN  FoldLeft(Z, Nothing, [n \in DOMAIN ranges |-> n])
LOCAL PairRows(pairs, w) ==
  LET u(p) == [i \in DOMAIN w[p.key] |-> (w[p.key][i] + p.shift[i] + p.table.beta * w[p.y][i]) % P]
      U(a, n) == a @@ (pairs[n].u :> u(pairs[n])) @@ (pairs[n].z :> Inverses(u(pairs[n]), pairs[n].table.alpha))
  IN  FoldLeft(U, Nothing, [n \in DOMAIN pairs |-> n])
look_aux(c, w) == RangeRows(Ranged(c), w) @@ PairRows(LookedUp(c), w)

LOCAL Dot(n, f(_)) == FSum(f, 0 .. n - 1)
matmul_aux_witness(c, w) ==
  LET H == c.heads   K == c.head_dim   n == c.n   m == c.m
      rho == OpVec(c.id, "rho", H * n)   lam == OpVec(c.id, "lam", H * m)
      B(h, r, j) == w[c.B][IF c.transpose_b THEN j * H * K + h * K + r ELSE r * H * n + h * n + j]
      y(i) == Dot(n, LAMBDA j : B(i \div K, i % K, j) * rho[(i \div K) * n + j])
      u(i) == Dot(m, LAMBDA j : lam[(i \div K) * m + j] * w[c.A][j * H * K + i])
  IN  Aux(c, "y", c.k) :> Column(c.k, y) @@ Aux(c, "u", c.k) :> Column(c.k, u)
      @@ Aux(c, "p", c.k) :> Column(c.k, LAMBDA i : u(i) * y(i))
rmsnorm_aux(c, w) ==
  LET rho == OpVec(c.id, "rho", c.d)   L == c.B * c.d
      x == w[IF c.rescale_bits > 0 THEN Own(c, "x", L) ELSE c.x]
      out == w[IF c.output_rescale_bits > 0 THEN Own(c, "output_full", L) ELSE Own(c, "output", L)]
      Projected(vec) == Column(c.B, LAMBDA b : Dot(c.d, LAMBDA j : vec[b * c.d + j] * rho[j]))
  IN  Aux(c, "u", c.B) :> Projected(x) @@ Aux(c, "p", c.B) :> Projected(out)
fcombine_aux(c, w) ==
  LET T == c.T   E == c.E   F == c.F   L == T * E
      rho == OpVec(c.id, "rho", F)
      s(f) == Dot(F, LAMBDA j : w[c.xs[f \div T + 1]][(f % T) * F + j] * rho[j])
      ms(f) == (w[Own(c, "m_em", L)][f] * s(f)) % P
  IN  Aux(c, "s_em", L) :> Column(L, s) @@ Aux(c, "ms_em", L) :> Column(L, ms)
      @@ Aux(c, "ms_tm", L) :> Column(L, LAMBDA f : ms((f % E) * T + f \div E))
      @@ Aux(c, "yr", T) :> Column(T, LAMBDA t : Dot(F, LAMBDA j : w[c.y][t * F + j] * rho[j]))
routed_aux(c, w) ==
  LET T == c.T   K == c.K   J == c.J   E == c.E
      rho == OpVec(c.rho_id, "rho", J)
      Pj(i) == Dot(J, LAMBDA j : w[c.W[i \div K + 1]][(i % K) * J + j] * rho[j])
      Q(i) == Dot(E, LAMBDA e : w[c.M][(i \div K) * E + e] * Pj(e * K + (i % K)))
  IN  Aux(c, "Pj", E * K) :> Column(E * K, Pj) @@ Aux(c, "Qm", T * K) :> Column(T * K, Q)
      @@ Aux(c, "Hd", T * K) :> Column(T * K, LAMBDA i : w[c.X][i] * Q(i))
      @@ Aux(c, "yr", T) :> Column(T, LAMBDA t : Dot(J, LAMBDA j : w[c.Y][t * J + j] * rho[j]))
\* Once Pj and Qm are committed.
routed_late_aux(c, w) ==
  LET E == c.E   K == c.K
      sig == OpVec(c.id, "sig", K)   lam == OpVec(c.id, "lam", c.T)
      y(e) == Dot(K, LAMBDA j : w[Aux(c, "Pj", E * K)][e * K + j] * sig[j])
      u(e) == Dot(c.T, LAMBDA t : lam[t] * w[c.M][t * E + e])
  IN  Own3(c, "f_y", E) :> Column(E, y) @@ Own3(c, "f_u", E) :> Column(E, u)
      @@ Own3(c, "f_p", E) :> Column(E, LAMBDA e : u(e) * y(e))

LOCAL RoutedRows(c, w, first) == first @@ routed_late_aux(c, first @@ w)
LOCAL ProjectionRows(c, w) ==
  CASE c.op = "Matmul" -> matmul_aux_witness(c, w)
    [] c.op = "RmsNorm" -> rmsnorm_aux(c, w)
    [] c.op = "FreivaldsCombine" -> fcombine_aux(c, w)
    [] c.op = "RoutedProjected" -> RoutedRows(c, w, routed_aux(c, w))
    [] OTHER -> Nothing
AUX_FNS(c, w) == ProjectionRows(c, w) @@ look_aux(c, w)

table_settlement_aux(t, counts) ==
  LET n == IF t \in DOMAIN counts THEN counts[t] ELSE ConstVec(0, TLen(t))
  IN  MultVar(t) :> n
      @@ WVar(t) :> Column(TLen(t), LAMBDA j : n[j] * FInv((t.alpha - Fingerprint(t, j)) % P))
=============================================================================
