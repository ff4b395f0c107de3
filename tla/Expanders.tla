----------------------------- MODULE Expanders -----------------------------
(***************************************************************************)
(* The verifier's expanders (verifier/src/compile.rs): for a window of      *)
(* n_slots slots from flat_lo, Emit gives the terms one by one              *)
(* (<<slot in the window, constraint id, coefficient>>) and ForRuns the     *)
(* same terms as maximal homogeneous runs, which is what the column test    *)
(* folds.  RunTerms spells a run out.                                       *)
(***************************************************************************)
EXTENDS Field

CONSTANT ELL          \* slots of a row
nrows(length) == CeilDiv(length, ELL)

LOCAL MinOf(a, b) == IF a < b THEN a ELSE b
LOCAL MaxOf(a, b) == IF a > b THEN a ELSE b

---------------------------------------------------------------------------
Weighted(cid_base, coefs) == [exp |-> "Weighted", base |-> cid_base, vec |-> coefs]
Rowsum(cid_base, stride, coef_vec) ==
  [exp |-> "Rowsum", base |-> cid_base, stride |-> stride, vec |-> coef_vec]
RowsumConst(cid_base, stride, coef) ==
  [exp |-> "RowsumConst", base |-> cid_base, stride |-> stride, coef |-> coef]
TransposeO2m(cid_base, rows, cols, fan, coef) ==
  [exp |-> "TransposeO2m", base |-> cid_base, rows |-> rows, cols |-> cols,
   fan |-> fan, coef |-> coef]
CausalId(cid_base, m, h, coef) ==
  [exp |-> "CausalId", base |-> cid_base, m |-> m, h |-> h, coef |-> coef]
CausalMasked(cid_base, m, h, coef) ==
  [exp |-> "CausalMaskedId", base |-> cid_base, m |-> m, h |-> h, coef |-> coef]
CausalC2(cid_base, h, coef) == [exp |-> "CausalC2", base |-> cid_base, h |-> h, coef |-> coef]
Embed(cid_base, d, token_ids, vocab_lo, rows_per_w) ==
  [exp |-> "Embed", base |-> cid_base, d |-> d, token_ids |-> token_ids,
   vocab_lo |-> vocab_lo, rows_per_w |-> rows_per_w]
FreivaldsB(base, k, n, h, kk, transpose_b, neg_rho) ==
  [exp |-> "FreivaldsB", base |-> base, k |-> k, n |-> n, h |-> h, kk |-> kk,
   transpose_b |-> transpose_b, neg_rho |-> neg_rho]
FreivaldsC(base, m, n, h, lam, rho) ==
  [exp |-> "FreivaldsC", base |-> base, m |-> m, n |-> n, h |-> h, lam |-> lam, rho |-> rho]
RopeXrot(base, h, d_h) == [exp |-> "RopeXrot", base |-> base, h |-> h, d_h |-> d_h]
RopeX(base, h, d_h, cos, sin) ==
  [exp |-> "RopeX", base |-> base, h |-> h, d_h |-> d_h, cos |-> cos, sin |-> sin]

---------------------------------------------------------------------------
LOCAL UnmaskedBefore(i_qry, hh, h) == (h * i_qry * (i_qry + 1)) \div 2 + hh * (i_qry + 1)

\* A mutant: the heads of a query share their ids.
causal_masked_beforeHeadless(i_qry, hh, m, h) ==
  h * (i_qry * (m - 1) - (i_qry * MaxOf(i_qry - 1, 0)) \div 2)
\* The masked cells before row (i_qry, hh).
causal_masked_before(i_qry, hh, m, h) ==
  h * (i_qry * (m - 1) - (i_qry * MaxOf(i_qry - 1, 0)) \div 2) + hh * (m - 1 - i_qry)

\* flat index -> the pair, which half, and the index into cos and sin.
rope_decode(f, h, d_h) ==
  LET half == d_h \div 2
      seq  == f \div (h * d_h)
      k    == f % d_h
  IN  [pair_t |-> seq * h * half + ((f \div d_h) % h) * half + (k % half),
       e_self |-> k \div half, ci |-> seq * half + (k % half)]

\* The head-major row of B and the output column of slot ff.
FreivaldsSlot(e, ff) ==
  IF e.transpose_b THEN [j |-> ff \div e.k, i_k |-> ff % e.k]
  ELSE LET rest == ff \div e.n
       IN  [j |-> ff % e.n, i_k |-> (rest % e.h) * e.kk + (rest \div e.h)]

\* The terms of slot f of the whole variable.
SlotTerms(e, f) ==
  CASE e.exp = "Weighted" -> {<<e.base + f, e.vec[f]>>}
    [] e.exp = "Rowsum" -> {<<e.base + f \div e.stride, e.vec[f % e.stride]>>}
    [] e.exp = "RowsumConst" -> {<<e.base + f \div e.stride, e.coef>>}
    [] e.exp = "TransposeO2m" ->
         LET lo == e.base + (f % e.cols) * (e.rows * e.fan) + (f \div e.cols) * e.fan
         IN  {<<lo + k, e.coef>> : k \in 0 .. e.fan - 1}
    [] e.exp = "CausalId" ->
         LET b == f \div e.m   j == f % e.m   i_qry == b \div e.h
         IN  IF j <= i_qry
             THEN {<<e.base + UnmaskedBefore(i_qry, b % e.h, e.h) + j, e.coef>>} ELSE {}
    [] e.exp = "CausalMaskedId" ->
         LET b == f \div e.m   j == f % e.m   i_qry == b \div e.h
         IN  IF j > i_qry
             THEN {<<e.base + causal_masked_before(i_qry, b % e.h, e.m, e.h) + (j - i_qry - 1),
                     e.coef>>} ELSE {}
    [] e.exp = "CausalC2" ->
         LET i_qry == f \div e.h
         IN  {<<e.base + UnmaskedBefore(i_qry, f % e.h, e.h) + j, e.coef>> : j \in 0 .. i_qry}
    [] e.exp = "Embed" ->
         {<<e.base + i * e.d + f - (e.token_ids[i] - e.vocab_lo) * e.d, P - 1>> :
            i \in {i \in DOMAIN e.token_ids :
                     /\ e.token_ids[i] \in e.vocab_lo .. e.vocab_lo + e.rows_per_w - 1
                     /\ f \div e.d = e.token_ids[i] - e.vocab_lo}}
    [] e.exp = "FreivaldsB" ->
         LET s == FreivaldsSlot(e, f)
         IN  {<<e.base + s.i_k, e.neg_rho[(s.i_k \div e.kk) * e.n + s.j]>>}
    [] e.exp = "FreivaldsC" ->
         LET j == f % e.n   rest == f \div e.n   hh == rest % e.h
         IN  {<<e.base + hh, Neg(e.lam[hh * e.m + (rest \div e.h)] * e.rho[hh * e.n + j])>>}
    [] e.exp = "RopeXrot" ->
         LET r == rope_decode(f, e.h, e.d_h) IN {<<e.base + 2 * r.pair_t + r.e_self, 1>>}
    [] e.exp = "RopeX" ->
         LET r == rope_decode(f, e.h, e.d_h)
         IN  IF r.e_self = 0
             THEN {<<e.base + 2 * r.pair_t, Neg(e.cos[r.ci])>>,
                   <<e.base + 2 * r.pair_t + 1, Neg(e.sin[r.ci])>>}
             ELSE {<<e.base + 2 * r.pair_t, e.sin[r.ci]>>,
                   <<e.base + 2 * r.pair_t + 1, Neg(e.cos[r.ci])>>}

Emit(e, flat_lo, n_slots) ==
  UNION {{<<s, t[1], t[2]>> : t \in SlotTerms(e, flat_lo + s)} : s \in 0 .. n_slots - 1}

---------------------------------------------------------------------------
(* Runs.                                                                    *)
Repeat(slot_lo, len, cid, coef) ==
  [run |-> "Repeat", slot |-> slot_lo, len |-> len, cid |-> cid, step |-> 0, coef |-> coef]
OneToOne(slot_lo, len, cid_lo, cid_step, coef) ==
  [run |-> "OneToOne", slot |-> slot_lo, len |-> len, cid |-> cid_lo,
   step |-> cid_step, coef |-> coef]
Fan(slot, cid_lo, len, coef) ==
  [run |-> "Fan", slot |-> slot, len |-> len, cid |-> cid_lo, step |-> 1,
   coef |-> [s \in 0 .. len - 1 |-> coef]]

\* &v[off .. off + len]
LOCAL Slice(v, off, len) == [s \in 0 .. len - 1 |-> v[off + s]]
LOCAL NegSlice(v, off, len) == [s \in 0 .. len - 1 |-> Neg(v[off + s])]

\* The loops `while s < n_slots`: the runs from slot s on, and where the next starts.
LOCAL Walk(n_slots, At(_)) ==
  LET from[s \in 0 .. n_slots] ==
        IF s = n_slots THEN {} ELSE At(s).runs \cup from[At(s).next]
  IN  from[0]
LOCAL Step(runs, next) == [runs |-> runs, next |-> next]

\* Rows of `width` slots: a run ends where its row does.
LOCAL RowRuns(e, flat_lo, n_slots, width, Cid(_), Coef(_, _)) ==
  Walk(n_slots, LAMBDA s :
    LET ff   == flat_lo + s
        s_hi == MinOf((ff \div width + 1) * width - flat_lo, n_slots)
    IN  Step({Repeat(s, s_hi - s, Cid(ff), Coef(ff, s_hi - s))}, s_hi))

CausalRuns(e, flat_lo, n_slots) ==
  Walk(n_slots, LAMBDA s :
    LET b  == (flat_lo + s) \div e.m
        j0 == (flat_lo + s) % e.m
        i_qry == b \div e.h
        b_end == MinOf((b + 1) * e.m - flat_lo, n_slots)
        len   == MinOf(i_qry + 1 - j0, b_end - s)
    IN  Step(IF j0 <= i_qry
             THEN {OneToOne(s, len, e.base + UnmaskedBefore(i_qry, b % e.h, e.h) + j0, 1,
                            ConstVec(e.coef, len))}
             ELSE {}, b_end))

CausalMaskedRuns(e, flat_lo, n_slots) ==
  Walk(n_slots, LAMBDA s :
    LET b  == (flat_lo + s) \div e.m
        j0 == (flat_lo + s) % e.m
        i_qry == b \div e.h
        b_end == MinOf((b + 1) * e.m - flat_lo, n_slots)
        j_start == MaxOf(j0, i_qry + 1)
        s_lo == s + (j_start - j0)
        len  == MinOf(e.m - j_start, b_end - s_lo)
    IN  Step(IF j_start < e.m /\ s_lo < b_end
             THEN {OneToOne(s_lo, len, e.base + causal_masked_before(i_qry, b % e.h, e.m, e.h)
                              + (j_start - i_qry - 1), 1, ConstVec(e.coef, len))}
             ELSE {}, b_end))

EmbedRuns(e, flat_lo, n_slots) ==
  LET hits == {i \in DOMAIN e.token_ids :
                 e.token_ids[i] \in e.vocab_lo .. e.vocab_lo + e.rows_per_w - 1}
      rel(i) == e.token_ids[i] - e.vocab_lo
      lo(i) == MaxOf(rel(i) * e.d, flat_lo)
      hi(i) == MinOf(rel(i) * e.d + e.d, flat_lo + n_slots)
  IN  {OneToOne(lo(i) - flat_lo, hi(i) - lo(i), e.base + i * e.d + (lo(i) - rel(i) * e.d), 1,
                ConstVec(P - 1, hi(i) - lo(i))) : i \in {i \in hits : lo(i) < hi(i)}}

\* A mutant: a run goes on past the end of its head.
TransposedRunsWhole(e, flat_lo, n_slots) ==
  Walk(n_slots, LAMBDA s :
    LET ff == flat_lo + s
        s_hi == MinOf((ff \div e.k + 1) * e.k - flat_lo, n_slots)
    IN  Step({OneToOne(s, s_hi - s, e.base + (ff % e.k), 1,
                       ConstVec(e.neg_rho[((ff % e.k) \div e.kk) * e.n + ff \div e.k], s_hi - s))}, s_hi))
\* A transposed B (and an A): the id advances with the slot within a block of
\* k, the coefficient is constant within a head.
TransposedRuns(e, flat_lo, n_slots) ==
  Walk(n_slots, LAMBDA s :
    LET ff == flat_lo + s
        ik0 == ff % e.k
        head == ik0 \div e.kk
        s_hi == MinOf(MinOf((ff \div e.k + 1) * e.k, ff - ik0 + (head + 1) * e.kk) - flat_lo,
                      n_slots)
    IN  Step({OneToOne(s, s_hi - s, e.base + ik0, 1,
                       ConstVec(e.neg_rho[head * e.n + ff \div e.k], s_hi - s))}, s_hi))

RopeRuns(e, flat_lo, n_slots) ==
  LET half == e.d_h \div 2
  IN  Walk(n_slots, LAMBDA s :
        LET ff  == flat_lo + s
            r   == rope_decode(ff, e.h, e.d_h)
            seg == MinOf(half - ((ff % e.d_h) % half), n_slots - s)
            cid == e.base + 2 * r.pair_t
        IN  Step(IF e.exp = "RopeXrot" THEN {OneToOne(s, seg, cid + r.e_self, 2, ConstVec(1, seg))}
                 ELSE IF r.e_self = 0
                 THEN {OneToOne(s, seg, cid, 2, NegSlice(e.cos, r.ci, seg)),
                       OneToOne(s, seg, cid + 1, 2, NegSlice(e.sin, r.ci, seg))}
                 ELSE {OneToOne(s, seg, cid, 2, Slice(e.sin, r.ci, seg)),
                       OneToOne(s, seg, cid + 1, 2, NegSlice(e.cos, r.ci, seg))},
                 s + seg))

ForRuns(e, flat_lo, n_slots) ==
  CASE e.exp = "Weighted" ->
         {OneToOne(0, n_slots, e.base + flat_lo, 1, Slice(e.vec, flat_lo, n_slots))}
    [] e.exp = "Rowsum" ->
         RowRuns(e, flat_lo, n_slots, e.stride, LAMBDA ff : e.base + ff \div e.stride,
                 LAMBDA ff, len : Slice(e.vec, ff % e.stride, len))
    [] e.exp = "RowsumConst" ->
         RowRuns(e, flat_lo, n_slots, e.stride, LAMBDA ff : e.base + ff \div e.stride,
                 LAMBDA ff, len : ConstVec(e.coef, len))
    [] e.exp = "TransposeO2m" ->
         {LET f == flat_lo + s
          IN  Fan(s, e.base + (f % e.cols) * (e.rows * e.fan) + (f \div e.cols) * e.fan,
                  e.fan, e.coef) : s \in 0 .. n_slots - 1}
    [] e.exp = "CausalId" -> CausalRuns(e, flat_lo, n_slots)
    [] e.exp = "CausalMaskedId" -> CausalMaskedRuns(e, flat_lo, n_slots)
    [] e.exp = "CausalC2" ->
         {LET b == flat_lo + s   i_qry == b \div e.h
          IN  Fan(s, e.base + UnmaskedBefore(i_qry, b % e.h, e.h), i_qry + 1, e.coef) :
            s \in 0 .. n_slots - 1}
    [] e.exp = "Embed" -> EmbedRuns(e, flat_lo, n_slots)
    [] e.exp = "FreivaldsB" /\ ~e.transpose_b ->
         RowRuns(e, flat_lo, n_slots, e.n, LAMBDA ff : e.base + FreivaldsSlot(e, ff).i_k,
                 LAMBDA ff, len :
                   LET s == FreivaldsSlot(e, ff)
                   IN  Slice(e.neg_rho, (s.i_k \div e.kk) * e.n + s.j, len))
    [] e.exp = "FreivaldsB" /\ e.transpose_b -> TransposedRuns(e, flat_lo, n_slots)
    [] e.exp = "FreivaldsC" ->
         RowRuns(e, flat_lo, n_slots, e.n, LAMBDA ff : e.base + ((ff \div e.n) % e.h),
                 LAMBDA ff, len :
                   LET hh == (ff \div e.n) % e.h
                       a  == e.lam[hh * e.m + (ff \div e.n) \div e.h]
                   IN  [s \in 0 .. len - 1 |-> Neg(a * e.rho[hh * e.n + (ff % e.n) + s])])
    [] e.exp \in {"RopeXrot", "RopeX"} -> RopeRuns(e, flat_lo, n_slots)

\* What the column test folds of a run (row_contrib).
RunTerms(r) ==
  {<<IF r.run = "Fan" THEN r.slot ELSE r.slot + s, r.cid + s * r.step, r.coef[s]>> :
     s \in 0 .. r.len - 1}

\* The ids a preloaded challenge table covers (preload_for).
Preload(e) ==
  CASE e.exp = "FreivaldsB" -> e.base .. e.base + e.k - 1
    [] e.exp = "FreivaldsC" -> e.base .. e.base + e.h - 1
    [] OTHER -> Nat
===========================================================================
