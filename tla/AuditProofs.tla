---------------------------- MODULE AuditProofs ----------------------------
(***************************************************************************)
(* What the one-pass audit checks of a claim it selects                     *)
(* (prover/sampled_local_proofs.py): its local relations over the committed *)
(* wires, its ranges and pairs; the prover's message after the block's      *)
(* challenge, and the verifier's check of it against the committed wires w  *)
(* (variable -> vector).                                                    *)
(*                                                                         *)
(* The residuals of a claim are batched by gammas and summed against eq, so a *)
(* sumcheck whose claim is zero says that each is zero at every slot.  The   *)
(* roots of two product trees agree when the lists of factors do, up to      *)
(* their order; a position tag fixes the order.  A matrix product is          *)
(* projected by rho on both sides.                                         *)
(***************************************************************************)
EXTENDS AuxRows, Sumcheck
LOCAL INSTANCE FiniteSetsExt
LOCAL INSTANCE SequencesExt

CONSTANTS
  ELL,                    \* slots of a row
  AuditVec(_, _, _, _)    \* protocol.op_vec over a challenge, an index and a label

CLAIM_PROOF_FAMILIES ==
  [freivalds |-> {"Matmul", "RoutedProjected", "FreivaldsCombine"},
   sumcheck |-> {"Add", "Concat", "Hadamard", "InfoFinalize", "LinComb", "Max", "Rescale", "RmsNorm", "RoPE",
                 "Routing", "Silu", "Softmax", "WordExtraction"},
   product_tree |-> {"EmbeddingLookup", "PairedTlookup", "RangeWord"}]
\* A claim of another kind has no family and stops the audit.
has_materialized_proof(c) ==
  \E f \in DOMAIN CLAIM_PROOF_FAMILIES : c.op \in CLAIM_PROOF_FAMILIES[f]

---------------------------------------------------------------------------
(* The relations, as constraints: those a claim compiles to without its      *)
(* lookups, unless they differ.                                            *)
LOCAL Unlooked(comp) == [comp EXCEPT !.quads = SelectSeq(comp.quads, LAMBDA q : q.table = NoTable)]
WithRounding(on, r, k) == Unlooked(WithRescale(on, r, 0, k))

add_relation(c) == Unlooked(add_compile(c, 0))
hadamard_relation(c) == Unlooked(hadamard_compile(c, 0))
concat_relation(c) == Unlooked(concat_compile(c, 0))
lincomb_relation(c) == Unlooked(lincomb_compile(c, 0))
words_relation(c) == Unlooked(word_extract_compile(c, 0))
rope_relation(c) == Unlooked(rope_compile(c, 0))
routing_relation(c) == Unlooked(routing_compile(c, 0))
max_relation(c) == Unlooked(max_compile(c, 0))
rescale_relation(c) == Unlooked(rescale_compile(c, 0))
\* The verifier projects x and the output itself: u and p are its values.
rmsnorm_relation(c) == Unlooked(rmsnorm_compile(c, 0))
_matmul_rounding_terms(c) == WithRounding(c.rescale_bits > 0, matmul_rescaling(c), Compiled(<<>>, <<>>, 0, {}))

silu_relation(c) ==
  LET L == c.length
      x == IF c.rescale_bits > 0 THEN Own(c, "x", L) ELSE c.x
      v(role) == Own(c, role, L)
      a == Words(c, "a", 5, L)          \* a_0 .. a_4
      Lin(i, target, words, coefs) == LinCombo(target, words, coefs, i * L, L)
      bands == Lin(0, x, <<v("magnitude"), v("C")>>, <<1, 2>>)
               \o Lin(1, v("magnitude"), a, <<1, c.b, c.b_2, c.b_3, c.b_4>>)
               \o Lin(2, v("g"), SubSeq(a, 3, 5), <<c.b_2, c.b_3, c.b_4>>)
               \o Lin(3, v("key"), <<v("sign"), a[2]>>, <<c.T_LEN, 1>>)
               \o Lin(4, x, <<v("output_sat"), v("C")>>, <<1, 1>>)
               \o Lin(5, v("y"), <<v("output"), v("mux_a"), v("mux_b")>>, <<1, 1, P - 1>>)
      quads == Product(v("sign"), v("sign"), v("sign"), L)
               \o Product(v("sign"), x, v("C"), L)
               \o NonZeroBit(v("g"), v("inv_g"), v("is_high"), L)
               \o Product(v("is_high"), v("y"), v("mux_a"), L)
               \o Product(v("is_high"), v("output_sat"), v("mux_b"), L)
  IN  WithRounding(c.rescale_bits > 0, silu_rescaling(c), Compiled(bands, quads, 6 * L, {}))

LOCAL Ones(n) == ConstVec(1, n)
\* z + Z_max*z_high = c2 - x at the cells a row may see; z at the others is in no relation.
LOCAL Distance(c, filtered) ==
  LET B == c.B   M == c.M   H == c.heads   L == B * M
      x == IF c.rescale_bits > 0 THEN Own(c, "x", L) ELSE c.x
      z == Own(c, "z", L)   c2 == Own(c, "c2", B)
      high == IF c.saturate THEN <<Own(c, "z_high", L)>> ELSE <<>>
      Cells(v, coef) == CausalFilteredId(v, 0, L, M, H, coef)
  IN  IF filtered
      THEN <<Cells(z, 1), CausalFilteredC2(c2, 0, B, H, P - 1), Cells(x, 1)>>
           \o [n \in DOMAIN high |-> Cells(high[n], c.Z_max)]
      ELSE Ids(<<z, x>> \o high, <<1, 1, c.Z_max>>, 0, L) \o <<StrideOneToMany(c2, 0, B, M, P - 1)>>
\* A mutant: the cells a row may not see are constrained too.
DistanceEverywhere(c) == Distance(c, FALSE)
DistanceOf(c) == Distance(c, c.causal)
softmax_relation(c) ==
  LET B == c.B   M == c.M   L == B * M
      v(role) == Own(c, role, L)
      r(role) == Own(c, role, B)
      Mux(s, at) ==
        LinCombo(v("y_" \o s \o "_raw"), <<v("y_" \o s), v("mux_y_" \o s)>> \o (IF c.round_up THEN <<v("is_high")>> ELSE <<>>),
                 <<1, 1>> \o (IF c.round_up THEN <<-1>> ELSE <<>>), at, L)
      sum_at == L + (IF c.saturate THEN 2 * L ELSE 0)
      bands == DistanceOf(c)
               \o (IF c.saturate THEN Mux("A", L) \o Mux("B", 2 * L) ELSE <<>>)
               \o Id(r("s1"), sum_at, B, 1) \o RowSum(v("y_A"), sum_at, L, M, NegVec(Ones(M)))
               \o Id(r("s2"), sum_at + B, B, 1) \o RowSum(v("y_B"), sum_at + B, L, M, NegVec(Ones(M)))
               \o Ids(<<r("s1"), r("r_lo")>>, <<1, 1>>, sum_at + 2 * B, B)
               \o Ids(<<r("r_hi"), r("s2")>>, <<1, P - 1>>, sum_at + 3 * B, B)
               \o Ids(<<r("c2_shifted"), r("c2")>>, <<1, P - 1>>, sum_at + 4 * B, B)
      quads == IF c.saturate
               THEN NonZeroBit(v("z_high"), v("inv_z_high"), v("is_high"), L)
                    \o Product(v("is_high"), v("y_A_raw"), v("mux_y_A"), L)
                    \o Product(v("is_high"), v("y_B_raw"), v("mux_y_B"), L)
               ELSE <<>>
      rhs == Runs(sum_at + 2 * B, B, c.s_y) \cup Runs(sum_at + 3 * B, B, Neg(c.s_y + 1))
             \cup Runs(sum_at + 4 * B, B, 2 ^ (c.aux_chunk_width - 1))
  IN  WithRounding(c.rescale_bits > 0, softmax_rescaling(c), Compiled(bands, quads, sum_at + 5 * B, rhs))

\* The words of z_o are no part of it.
info_relation(c) ==
  LET T == c.T   L == T * c.V
      v(role) == Own(c, role, T)
      bands == RowSum(c.e, 0, L, c.V, Ones(c.V)) \o Id(v("a"), 0, T, P - 1)
               \o Ids(<<v("a"), v("d"), c.pw>>, <<1, 1, P - 1>>, T, T)
               \o LinCombo(v("d"), Words(c, "dw", c.n_dw, T), [j \in 1 .. c.n_dw |-> 2 ^ (c.wb * (j - 1))], 2 * T, T)
               \o Ids(<<v("z_o"), c.gap_o2, v("rem")>>, <<c.k, P - 1, P - 1>>, 3 * T, T)
               \o Ids(<<v("surprisal"), v("z_o"), c.b>>, <<1, P - 1, P - 1>>, 4 * T, T)
  IN  Compiled(bands, <<>>, 5 * T, {})

_relation_terms(c) ==
  CASE c.op = "Add" -> add_relation(c)            [] c.op = "Hadamard" -> hadamard_relation(c)
    [] c.op = "Concat" -> concat_relation(c)      [] c.op = "LinComb" -> lincomb_relation(c)
    [] c.op = "WordExtraction" -> words_relation(c)
    [] c.op = "RoPE" -> rope_relation(c)          [] c.op = "Routing" -> routing_relation(c)
    [] c.op = "Silu" -> silu_relation(c)          [] c.op = "RmsNorm" -> rmsnorm_relation(c)
    [] c.op = "Softmax" -> softmax_relation(c)    [] c.op = "Max" -> max_relation(c)
    [] c.op = "InfoFinalize" -> info_relation(c)  [] c.op = "Rescale" -> rescale_relation(c)
    [] c.op = "Matmul" -> _matmul_rounding_terms(c)
    [] OTHER -> Compiled(<<>>, <<>>, 0, {})

---------------------------------------------------------------------------
(* The ranges and pairs.                                                    *)
Item(x, table) == [x |-> x, table |-> table]
\* A mutant: the rescaled value is not ranged.
_rounding_low(on, r) == IF on THEN <<Item(r.low, r.tight)>> ELSE <<>>
_rounding_parts(on, r) == IF on THEN <<Item(r.low, r.tight), Item(r.shifted, r.loose)>> ELSE <<>>
_silu_range_items(c) ==
  LET a == Words(c, "a", 5, c.length)
  IN  <<Item(a[1], c.range_b), Item(a[3], c.range_w2), Item(a[4], c.range_w3), Item(a[5], c.range_w4)>>
      \o _rounding_parts(c.rescale_bits > 0, silu_rescaling(c))
LOCAL ItemsAt(words, tables) == [j \in DOMAIN words |-> Item(words[j], tables[j])]
LOCAL ItemsOf(groups) == [j \in DOMAIN groups |-> Item(groups[j].x, groups[j].table)]
LOCAL SlackItems(c, n, tables) ==
  ItemsAt(Words(c, "s_lo_chunk", n, c.B), tables) \o ItemsAt(Words(c, "s_hi_chunk", n, c.B), tables)
_rmsnorm_range_items(c) ==
  SlackItems(c, ChunkCount(slack_width(c)), ChunkTables(c, slack_width(c), c.range_slack_top))
  \o ItemsOf(_rms_limb_range_groups(c))
  \o _rounding_parts(c.rescale_bits > 0, input_rescaling(c))
  \o _rounding_parts(c.output_rescale_bits > 0, output_rescaling(c))
_softmax_range_items(c) ==
  LET r(role) == Own(c, role, c.B)
  IN  <<Item(r("c2_shifted"), c.range_aux), Item(r("r_lo"), c.range_aux), Item(r("r_hi"), c.range_aux)>>
      \o (IF c.saturate THEN <<Item(Own(c, "z_high", c.B * c.M), c.range_z_high)>> ELSE <<>>)
      \o _rounding_parts(c.rescale_bits > 0, softmax_rescaling(c))
_info_range_items(c) ==
  [j \in 1 .. c.n_dw |-> Item(Words(c, "dw", c.n_dw, c.T)[j], c.range_wd)]
  \o <<Item(Own(c, "rem", c.T), c.range_k)>>
\* The committed index wire of a range_word is its value, x itself (tape.py).
RangeItems(c) ==
  CASE c.op = "Matmul" -> _rounding_parts(c.rescale_bits > 0, matmul_rescaling(c))
    [] c.op = "Hadamard" -> _rounding_parts(c.rescale_bits > 0, hadamard_rescaling(c))
    [] c.op = "Rescale" -> _rounding_parts(TRUE, rescale_rescaling(c))
    [] c.op = "RoPE" -> _rounding_parts(c.rescale_bits > 0, rope_rescaling(c))
    [] c.op = "Silu" -> _silu_range_items(c)        [] c.op = "RmsNorm" -> _rmsnorm_range_items(c)
    [] c.op = "Softmax" -> _softmax_range_items(c)  [] c.op = "InfoFinalize" -> _info_range_items(c)
    [] c.op = "Max" -> <<Item(Own(c, "gap", c.T * c.V), c.table)>>
    [] c.op = "RangeWord" -> <<Item(c.x, c.table)>>
    [] OTHER -> <<>>

PairItem(key, y, table, shift) == [key |-> key, y |-> y, table |-> table, shift |-> shift]
_softmax_lookup_key(c) ==
  [i \in 0 .. c.B * c.M - 1 |-> IF c.causal /\ i % c.M > (i \div c.M) \div c.heads THEN c.Z_max ELSE 0]
_softmax_paired_products(c, s, table) ==
  PairItem(Own(c, "z", c.B * c.M), Own(c, IF c.saturate THEN "y_" \o s \o "_raw" ELSE "y_" \o s, c.B * c.M),
           table, _softmax_lookup_key(c))
_silu_paired_products(c) ==
  PairItem(Own(c, "key", c.length), Own(c, "y", c.length), c.silu_table, ConstVec(0, c.length))
_paired_lookup_products(c) == PairItem(c.x, Own(c, "y", c.length), c.table, ConstVec(c.shift, c.length))
PairItems(c) ==
  CASE c.op = "Softmax" -> <<_softmax_paired_products(c, "A", c.exp_A), _softmax_paired_products(c, "B", c.exp_B)>>
    [] c.op = "Silu" -> <<_silu_paired_products(c)>>
    [] c.op = "PairedTlookup" -> <<_paired_lookup_products(c)>>
    [] OTHER -> <<>>

---------------------------------------------------------------------------
(* The residuals of a claim, each with the family it is batched in and its   *)
(* slot there.                                                             *)
SlotsOf(p) == {f \in 0 .. p.v.len - 1 : p.kind = "EmbedE" \/ f < p.L}
Enumerated(S) == {e : e \in S}
LOCAL BandCells(bands) ==
  UNION {UNION {{[id |-> t[1], v |-> bands[b].v, f |-> f, b |-> b, coef |-> t[2]] : t \in BandTerms(bands[b], f, ELL)} :
                  f \in SlotsOf(bands[b])} : b \in DOMAIN bands}
LOCAL StartOf(id, starts) == CHOOSE s \in starts : s <= id /\ \A r \in starts : r <= id => r <= s
LOCAL Row(family, slot, on, prod, rhs) == [family |-> family, slot |-> slot, on |-> on, prod |-> prod, rhs |-> rhs]
LOCAL LinearRow(id, start, starts, cells, rhs) ==
  Row(Cardinality({s \in starts : s < start}), id - start, Enumerated({t \in cells : t.id = id}), <<>>,
      FSum(LAMBDA r : r[2], {r \in rhs : r[1] = id}))
LOCAL LinearRows(comp, starts, cells) ==
  {LinearRow(id, StartOf(id, starts), starts, cells, comp.rhs) : id \in 0 .. comp.n - 1}
LOCAL QuadRows(comp, n) ==
  UNION {LET q == comp.quads[j]
         IN  {Row(n + j - 1, i, {[id |-> 0, v |-> q.z, f |-> i, b |-> 0, coef |-> q.a]}, <<<<q.x, i>>, <<q.y, i>>>>, q.b % P) :
                i \in 0 .. q.L - 1} : j \in DOMAIN comp.quads}
LOCAL Ordered(rows) ==
  [rows |-> [s \in {row.slot : row \in rows} |-> {row \in rows : row.slot = s}],
   families |-> 1 + Max({0} \cup {row.family : row \in rows})]
LOCAL FormOf(comp, starts) ==
  Ordered(Enumerated(LinearRows(comp, starts, Enumerated(BandCells(comp.bands))) \cup QuadRows(comp, Cardinality(starts))))
\* The parts of a joined vector are one residual.
LOCAL FormWith(c, comp) ==
  FormOf(comp, IF c.op = "Concat" THEN {0} ELSE {comp.bands[b].base : b \in DOMAIN comp.bands})
Form(c) == FormWith(c, _relation_terms(c))
RowResidual(row, w) ==
  (FSum(LAMBDA t : t.coef * w[t.v][t.f], row.on)
   + (IF row.prod = <<>> THEN 0 ELSE w[row.prod[1][1]][row.prod[1][2]] * w[row.prod[2][1]][row.prod[2][2]])
   + P - row.rhs) % P

---------------------------------------------------------------------------
(* The terms of a relation's sumcheck.                                      *)
LOCAL Pow2(n) == 2 ^ (CHOOSE k \in 0 .. n : 2 ^ k >= n /\ \A j \in 0 .. k - 1 : 2 ^ j < n)
_pad_pow2(v) == Tabulated([i \in 0 .. Pow2(Size(v)) - 1 |-> IF i \in DOMAIN v THEN v[i] ELSE 0])
_eq_weights(tau) ==
  Tabulated(FoldRight(LAMBDA r, u : [i \in 0 .. 2 * Size(u) - 1 |->
                                       IF i < Size(u) THEN FMul(u[i], 1 + P - r) ELSE FMul(u[i - Size(u)], r)],
                      tau, [i \in {0} |-> 1]))
LOCAL Eq(ch, index, n) == _eq_weights([k \in 1 .. _expected_rounds(n) |-> AuditVec(ch, index, "sampled-sumcheck-eq", _expected_rounds(n))[k - 1]])
\* A mutant: the residuals of one slot are added up as they are, and may cancel.
UnbatchedResiduals(form, w, gammas) ==
  [s \in 0 .. Max(DOMAIN form.rows) |->
     IF s \in DOMAIN form.rows THEN FSum(LAMBDA row : RowResidual(row, w), form.rows[s]) ELSE 0]
_batch_residuals(form, w, gammas) ==
  Tabulated([s \in 0 .. Max(DOMAIN form.rows) |->
     IF s \in DOMAIN form.rows THEN FSum(LAMBDA row : gammas[row.family] * RowResidual(row, w), form.rows[s]) ELSE 0])
LOCAL Weighted(v, ch, index) == <<<<1, <<v, Eq(ch, index, Size(v))>>>>>>
batched_terms(form, w, ch, index) ==
  Weighted(_pad_pow2(_batch_residuals(form, w, AuditVec(ch, index, "relation-batch", form.families))), ch, index)

\* The rotation keeps its wires apart: it is a sum of products of three factors.
LOCAL RopeTerms(c, w, eq, batch) ==
  LET half == c.d_h \div 2   L == c.SEQ * c.heads * c.d_h   r == rope_rescaling(c)
      At(f) == (f \div (c.heads * c.d_h)) * half + (f % half)
      First(f) == f % c.d_h < half
      target == _pad_pow2(w[IF c.rescale_bits > 0 THEN r.full ELSE Own(c, "x_rot", L)])
      paired == _pad_pow2([f \in 0 .. L - 1 |-> IF First(f) THEN w[c.x][f + half] ELSE w[c.x][f - half]])
      self_coeff == _pad_pow2([f \in 0 .. L - 1 |-> Neg(RopeCos(c)[At(f)])])
      pair_coeff == _pad_pow2([f \in 0 .. L - 1 |-> IF First(f) THEN RopeSin(c)[At(f)] ELSE Neg(RopeSin(c)[At(f)])])
      offset == _pad_pow2(ConstVec(r.offset, L))
      rotated == _pad_pow2(w[r.high])
  IN  <<<<1, <<target, eq>>>>, <<1, <<_pad_pow2(w[c.x]), self_coeff, eq>>>>, <<1, <<paired, pair_coeff, eq>>>>>>
      \o (IF c.rescale_bits = 0 THEN <<>>
          ELSE <<<<batch[0], <<target, eq>>>>, <<Neg(batch[0] * 2 ^ c.rescale_bits), <<rotated, eq>>>>,
                 <<Neg(batch[0]), <<_pad_pow2(w[r.low]), eq>>>>, <<batch[1], <<_pad_pow2(w[r.shifted]), eq>>>>,
                 <<Neg(batch[1]), <<rotated, eq>>>>, <<Neg(batch[1]), <<offset, eq>>>>>>)
rope_terms(c, w, ch, index) ==
  RopeTerms(c, w, Eq(ch, index, Pow2(c.SEQ * c.heads * c.d_h)), AuditVec(ch, index, "sampled-rope-rescale-batch", 2))
terms_of(c, form, w, ch, index) ==
  IF c.op = "RoPE" THEN rope_terms(c, w, ch, index) ELSE batched_terms(form, w, ch, index)

relation_name(c) == <<c.op, IF c.op \in {"Hadamard", "RoPE"} THEN c.rescale_bits > 0 ELSE FALSE>>
_sumcheck_transcript(ch, index, relation) == <<ch, index, relation>>

---------------------------------------------------------------------------
(* The product trees.                                                       *)
_product_tree_root(f, n) == FoldSet(LAMBDA i, acc : (acc * (f[i] % P)) % P, 1, 0 .. n - 1)
LOCAL Clamp(i, t) == IF i \in DOMAIN t THEN i ELSE 0
\* The roots of the values and of the entries they index, and whether they all do.
_range_value_products(v, n, t, alpha) ==
  [query |-> _product_tree_root([i \in 0 .. n - 1 |-> alpha + P - v[i]], n),
   table |-> _product_tree_root([i \in 0 .. n - 1 |-> alpha + P - t[Clamp(v[i], t)]], n),
   valid |-> \A i \in 0 .. n - 1 : v[i] \in DOMAIN t]
range_roots(c, items, w, ch, index) ==
  LET alphas == AuditVec(ch, index, "range-alpha", Len(items))
  IN  [j \in DOMAIN items |-> _range_value_products(w[items[j].x], items[j].x.len, items[j].table.T, alphas[j - 1])]

LOCAL Tagged(x, y, i, k) == k[1] + 3 * P - x - FMul(k[2], y) - FMul(k[3], i)
LOCAL PairProducts(key, y, n, t, k) ==
  [query |-> _product_tree_root([i \in 0 .. n - 1 |-> Tagged(key[i], y[i], i, k)], n),
   table |-> _product_tree_root([i \in 0 .. n - 1 |-> Tagged(t.T[Clamp(key[i], t.T)], t.T_Y[Clamp(key[i], t.T)], i, k)], n),
   valid |-> \A i \in 0 .. n - 1 : key[i] \in DOMAIN t.T]
pair_roots(c, items, w, ch, index) ==
  [j \in DOMAIN items |->
     LET item == items[j]   k == AuditVec(ch, index, <<"sampled-pair-a", "sampled-pair-b">>[j], 3)
     IN  PairProducts([i \in 0 .. item.key.len - 1 |-> (w[item.key][i] + item.shift[i]) % P], w[item.y], item.key.len,
                      item.table, <<k[0], k[1], k[2]>>)]

\* The selected rows of E in order.
LOCAL EmbeddingRoots(c, w, k) ==
  LET d == c.d   n == Cardinality(DOMAIN c.token_ids) * d   x == w[Own(c, "x", n)]
      selected == [i \in 0 .. n - 1 |-> w[c.E][c.token_ids[i \div d] * d + (i % d)]]
  IN  [query |-> _product_tree_root([i \in 0 .. n - 1 |-> Tagged(0, x[i], i, k)], n),
       table |-> _product_tree_root([i \in 0 .. n - 1 |-> Tagged(0, selected[i], i, k)], n),
       valid |-> \A i \in DOMAIN c.token_ids : c.token_ids[i] \in 0 .. c.E.len \div d - 1]
_embedding_products(c, w, ch, index) ==
  LET k == AuditVec(ch, index, "sampled-embedding-alpha-beta", 2) IN EmbeddingRoots(c, w, <<k[0], 1, k[1]>>)
\* Every pair of roots of a claim.
roots_of(c, w, ch, index) ==
  IF c.op = "EmbeddingLookup" THEN <<_embedding_products(c, w, ch, index)>>
  ELSE range_roots(c, RangeItems(c), w, ch, index) \o pair_roots(c, PairItems(c), w, ch, index)

---------------------------------------------------------------------------
(* The matrix products, projected.  A message is the two vectors the prover   *)
(* sends; Contracts says that they multiply as the matrices should.          *)
LOCAL Dot(n, f(_)) == FSum(f, 0 .. n - 1)
LOCAL Entry(c, w, h, r, j) == w[c.B][IF c.transpose_b THEN (j * c.heads + h) * c.head_dim + r ELSE (r * c.heads + h) * c.n + j]
LOCAL Product_(c, w) ==
  w[IF c.rescale_bits > 0 THEN Own(c, "C_full", c.m * c.heads * c.n) ELSE Own(c, "C", c.m * c.heads * c.n)]
\* <<B_h rho_h, C_h rho_h>> of every head.
matmul_projections(c, w, rho) ==
  << [a \in 0 .. c.heads * c.head_dim - 1 |->
        LET h == a \div c.head_dim IN Dot(c.n, LAMBDA j : Entry(c, w, h, a % c.head_dim, j) * rho[h * c.n + j])],
     [a \in 0 .. c.heads * c.m - 1 |->
        LET h == a \div c.m IN Dot(c.n, LAMBDA j : Product_(c, w)[((a % c.m) * c.heads + h) * c.n + j] * rho[h * c.n + j])] >>
MatmulContracts(c, w, msg) ==
  \A h \in 0 .. c.heads - 1 : \A i \in 0 .. c.m - 1 :
    Dot(c.head_dim, LAMBDA r : w[c.A][(i * c.heads + h) * c.head_dim + r] * msg[1][h * c.head_dim + r]) = msg[2][h * c.m + i]
_combine_projections(c, w, rho) ==
  << [a \in 0 .. c.E * c.T - 1 |-> Dot(c.F, LAMBDA j : w[c.xs[1 + a \div c.T]][(a % c.T) * c.F + j] * rho[j])],
     [t \in 0 .. c.T - 1 |-> Dot(c.F, LAMBDA j : w[c.y][t * c.F + j] * rho[j])] >>
CombineContracts(c, w, msg) ==
  \A t \in 0 .. c.T - 1 : Dot(c.E, LAMBDA e : w[c.m][t * c.E + e] * msg[1][e * c.T + t]) = msg[2][t]
_routed_projections(c, w, rho) ==
  << [a \in 0 .. c.E * c.K - 1 |-> Dot(c.J, LAMBDA j : w[c.W[1 + a \div c.K]][(a % c.K) * c.J + j] * rho[j])],
     [t \in 0 .. c.T - 1 |-> Dot(c.J, LAMBDA j : w[c.Y][t * c.J + j] * rho[j])] >>
RoutedContracts(c, w, msg) ==
  \A t \in 0 .. c.T - 1 :
    Dot(c.K, LAMBDA r : w[c.X][t * c.K + r] * Dot(c.E, LAMBDA e : w[c.M][t * c.E + e] * msg[1][e * c.K + r])) = msg[2][t]
\* The families of Freivalds: what they project, and whether it contracts.
Projections(c, w, ch, index) ==
  CASE c.op = "Matmul" -> matmul_projections(c, w, AuditVec(ch, index, "sampled-freivalds-rho", c.heads * c.n))
    [] c.op = "FreivaldsCombine" -> _combine_projections(c, w, AuditVec(ch, index, "sampled-combine-freivalds-rho", c.F))
    [] c.op = "RoutedProjected" -> _routed_projections(c, w, AuditVec(ch, index, "sampled-routed-freivalds-rho", c.J))
    [] OTHER -> <<>>
Contracts(c, w, msg) ==
  CASE c.op = "Matmul" -> MatmulContracts(c, w, msg)
    [] c.op = "FreivaldsCombine" -> CombineContracts(c, w, msg)
    [] c.op = "RoutedProjected" -> RoutedContracts(c, w, msg)
    [] OTHER -> msg = <<>>

---------------------------------------------------------------------------
(* The message, and its check.  A product, a lookup or an embedding has no    *)
(* relation of its own: its sumcheck is missing.                            *)
NoSumcheck == <<>>
has_relation(c) ==
  IF c.op = "Matmul" THEN c.rescale_bits > 0
  ELSE c.op \in CLAIM_PROOF_FAMILIES.sumcheck
prove_sumcheck(c, form, w, ch, index) ==
  <<prove_terms(terms_of(c, form, w, ch, index), _sumcheck_transcript(ch, index, relation_name(c)), 0, Untaped)>>
LOCAL Roots(rs) == [j \in DOMAIN rs |-> <<rs[j].query, rs[j].table>>]
prove_claim(c, form, w, ch, index) ==
  [index |-> index, challenge |-> ch, relation |-> IF has_relation(c) THEN relation_name(c) ELSE <<>>,
   sumcheck |-> IF has_relation(c) THEN prove_sumcheck(c, form, w, ch, index) ELSE NoSumcheck,
   projections |-> Projections(c, w, ch, index), roots |-> Roots(roots_of(c, w, ch, index))]

\* The argument is unmasked: a carried mask would be a free term.
NotMasked(s) == ~s.masked
verify_sumcheck(c, form, w, proof, ch, index) ==
  /\ proof.relation = relation_name(c) /\ Len(proof.sumcheck) = 1
  /\ NotMasked(proof.sumcheck[1]) /\ proof.sumcheck[1].claim % P = 0
  /\ \E terms \in {terms_of(c, form, w, ch, index)} :
       verify_terms(proof.sumcheck[1], terms, _sumcheck_transcript(ch, index, relation_name(c)))
verify_projections(c, w, proof, ch, index) ==
  proof.projections = Projections(c, w, ch, index) /\ Contracts(c, w, proof.projections)
verify_roots(c, w, proof, ch, index) ==
  \E rs \in {roots_of(c, w, ch, index)} :
    /\ \A j \in DOMAIN rs : rs[j].valid /\ rs[j].query = rs[j].table
    /\ proof.roots = Roots(rs)
verify_claim(c, form, w, proof, ch, index) ==
  /\ proof.index = index /\ proof.challenge = ch
  /\ has_relation(c) => verify_sumcheck(c, form, w, proof, ch, index)
  /\ verify_projections(c, w, proof, ch, index)
  /\ verify_roots(c, w, proof, ch, index)

---------------------------------------------------------------------------
(* What a proof is about, said of the whole vectors.                        *)
MatmulIs(c, w) ==
  \A h \in 0 .. c.heads - 1 : \A i \in 0 .. c.m - 1 : \A j \in 0 .. c.n - 1 :
    Product_(c, w)[(i * c.heads + h) * c.n + j]
      = Dot(c.head_dim, LAMBDA r : w[c.A][(i * c.heads + h) * c.head_dim + r] * Entry(c, w, h, r, j))
LOCAL CombineIsExact(c, w) ==
  \A t \in 0 .. c.T - 1 : \A j \in 0 .. c.F - 1 :
    w[c.y][t * c.F + j] = Dot(c.E, LAMBDA e : w[c.m][t * c.E + e] * w[c.xs[e + 1]][t * c.F + j])
LOCAL RoutedIs(c, w) ==
  \A t \in 0 .. c.T - 1 : \A j \in 0 .. c.J - 1 :
    w[c.Y][t * c.J + j] = Dot(c.K, LAMBDA r : w[c.X][t * c.K + r] * Dot(c.E, LAMBDA e : w[c.M][t * c.E + e] * w[c.W[e + 1]][r * c.J + j]))
LOCAL EmbeddingIs(c, w) ==
  \A i \in DOMAIN c.token_ids : \A k \in 0 .. c.d - 1 :
    w[Own(c, "x", Cardinality(DOMAIN c.token_ids) * c.d)][i * c.d + k] = w[c.E][c.token_ids[i] * c.d + k]
LOCAL PairHolds(w, item) ==
  \A i \in 0 .. item.key.len - 1 :
    \E j \in DOMAIN item.table.T : j = (w[item.key][i] + item.shift[i]) % P /\ item.table.T_Y[j] = w[item.y][i]
HoldsLocally(c, form, w) ==
  /\ \A s \in DOMAIN form.rows : \A row \in form.rows[s] : RowResidual(row, w) = 0
  /\ CASE c.op = "Matmul" -> MatmulIs(c, w)
       [] c.op = "FreivaldsCombine" -> CombineIsExact(c, w)
       [] c.op = "RoutedProjected" -> RoutedIs(c, w)
       [] c.op = "EmbeddingLookup" -> EmbeddingIs(c, w)
       [] OTHER -> TRUE
  /\ \A item \in ToSet(RangeItems(c)) : \A i \in 0 .. item.x.len - 1 : w[item.x][i] \in DOMAIN item.table.T
  /\ \A item \in ToSet(PairItems(c)) : PairHolds(w, item)
=============================================================================
