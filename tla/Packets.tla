------------------------------ MODULE Packets ------------------------------
(***************************************************************************)
(* The prover's linear band templates (prover/packets.py) and how the fold *)
(* evaluates one: ten kinds are lowered to a descriptor that one kernel    *)
(* interprets digit by digit (core.py _lower_geometry, cuda_primitives.py  *)
(* k_interp_band), five have a kernel of their own.  The terms of slot f   *)
(* of the variable are a set of <<constraint id, coefficient>>.            *)
(*                                                                         *)
(* Vectors (rho, cos, the tokens ...) are functions from 0 .. n-1.         *)
(***************************************************************************)
EXTENDS Field
LOCAL INSTANCE FiniteSetsExt

---------------------------------------------------------------------------
(* The kinds.  Each names the variable it reads; its rows are the rows of   *)
(* that variable.                                                          *)
IdentityScalar(v, base, L, coef) ==
  [kind |-> "IdentityScalar", v |-> v, base |-> base, L |-> L, coef |-> coef]
PerSlotVector(v, base, L, vec) ==
  [kind |-> "PerSlotVector", v |-> v, base |-> base, L |-> L, vec |-> vec]
RowSumPerSlotVector(v, base, L, stride, vec) ==
  [kind |-> "RowSumPerSlotVector", v |-> v, base |-> base, L |-> L,
   stride |-> stride, vec |-> vec]
StrideManyToOne(v, base, L, stride, coef) ==
  [kind |-> "StrideManyToOne", v |-> v, base |-> base, L |-> L,
   stride |-> stride, coef |-> coef]
StrideOneToMany(v, base, L, stride, coef) ==
  [kind |-> "StrideOneToMany", v |-> v, base |-> base, L |-> L,
   stride |-> stride, coef |-> coef]
TransposeO2M(v, base, rows, cols, fan, coef) ==
  [kind |-> "TransposeO2M", v |-> v, base |-> base, L |-> rows * cols,
   rows |-> rows, cols |-> cols, fan |-> fan, coef |-> coef]
CausalFilteredId(v, base, L, M, H, coef) ==
  [kind |-> "CausalFilteredId", v |-> v, base |-> base, L |-> L,
   M |-> M, H |-> H, coef |-> coef]
CausalFilteredC2(v, base, B, H, coef) ==
  [kind |-> "CausalFilteredC2", v |-> v, base |-> base, L |-> B, H |-> H, coef |-> coef]
CausalMaskedId(v, base, L, M, H, coef) ==
  [kind |-> "CausalMaskedId", v |-> v, base |-> base, L |-> L,
   M |-> M, H |-> H, coef |-> coef]
EmbedE(v, base, d, token_ids) ==
  [kind |-> "EmbedE", v |-> v, base |-> base, d |-> d, token_ids |-> token_ids]
FreivaldsLF1B(v, base, k, n, H, K, transpose_b, neg_rho) ==
  [kind |-> "FreivaldsLF1B", v |-> v, base |-> base, L |-> k * n, k |-> k, n |-> n,
   H |-> H, K |-> K, transpose_b |-> transpose_b, neg_rho |-> neg_rho]
FreivaldsLF2A(v, base, k, m, H, K, neg_lam) ==
  [kind |-> "FreivaldsLF2A", v |-> v, base |-> base, L |-> m * k, k |-> k, m |-> m,
   H |-> H, K |-> K, neg_lam |-> neg_lam]
FreivaldsLF3C(v, base, m, n, H, lam, rho) ==
  [kind |-> "FreivaldsLF3C", v |-> v, base |-> base, L |-> m * H * n, m |-> m, n |-> n,
   H |-> H, lam |-> lam, rho |-> rho]
RoPEXRot(v, base, SEQ, H, d_h) ==
  [kind |-> "RoPEXRot", v |-> v, base |-> base, L |-> SEQ * H * d_h,
   SEQ |-> SEQ, H |-> H, d_h |-> d_h]
RoPEX(v, base, SEQ, H, d_h, cos, sin) ==
  [kind |-> "RoPEX", v |-> v, base |-> base, L |-> SEQ * H * d_h,
   SEQ |-> SEQ, H |-> H, d_h |-> d_h, cos |-> cos, sin |-> sin]

\* The number of masked cells of a causal (B, M) softmax with H heads.
causal_masked_count(B, M, H) ==
  H * FoldSet(LAMBDA i, s : s + M - 1 - i, 0, 0 .. (B \div H) - 1)

---------------------------------------------------------------------------
(* The descriptor: radices (most significant first), the stride of each     *)
(* digit in the constraint id and in the tables, the fan of the slot, and   *)
(* where the coefficient comes from.                                        *)
Desc(shape, cid, fan, fan_stride, coef) ==
  [shape |-> shape, cid |-> cid, fan |-> fan, fan_stride |-> fan_stride, coef |-> coef]
Const(c) == [mode |-> 0, c |-> c % P]
Gather(a, strides) == [mode |-> 1, a |-> a, sa |-> strides]
NegProduct(a, sa, b, sb) == [mode |-> 2, a |-> a, sa |-> sa, b |-> b, sb |-> sb]

Geometry(p) ==
  CASE p.kind = "IdentityScalar" -> Desc(<<p.L>>, <<1>>, 1, 0, Const(p.coef))
    [] p.kind = "PerSlotVector" -> Desc(<<p.L>>, <<1>>, 1, 0, Gather(p.vec, <<1>>))
    [] p.kind = "RowSumPerSlotVector" ->
         Desc(<<CeilDiv(p.L, p.stride), p.stride>>, <<1, 0>>, 1, 0, Gather(p.vec, <<0, 1>>))
    [] p.kind = "StrideManyToOne" ->
         Desc(<<CeilDiv(p.L, p.stride), p.stride>>, <<1, 0>>, 1, 0, Const(p.coef))
    [] p.kind = "StrideOneToMany" -> Desc(<<p.L>>, <<p.stride>>, p.stride, 1, Const(p.coef))
    [] p.kind = "TransposeO2M" ->
         Desc(<<p.rows, p.cols>>, <<p.fan, p.rows * p.fan>>, p.fan, 1, Const(p.coef))
    [] p.kind = "FreivaldsLF1B" /\ p.transpose_b ->
         Desc(<<p.n, p.H, p.K>>, <<0, p.K, 1>>, 1, 0, Gather(p.neg_rho, <<1, p.n, 0>>))
    [] p.kind = "FreivaldsLF1B" /\ ~p.transpose_b ->
         Desc(<<p.K, p.H, p.n>>, <<1, p.K, 0>>, 1, 0, Gather(p.neg_rho, <<0, p.n, 1>>))
    [] p.kind = "FreivaldsLF2A" ->
         Desc(<<p.m, p.H, p.K>>, <<0, p.K, 1>>, 1, 0, Gather(p.neg_lam, <<1, p.m, 0>>))
    [] p.kind = "FreivaldsLF3C" ->
         Desc(<<p.m, p.H, p.n>>, <<0, 1, 0>>, 1, 0,
              NegProduct(p.lam, <<1, p.m, 0>>, p.rho, <<0, p.n, 1>>))
    [] p.kind = "RoPEXRot" ->
         LET half == p.d_h \div 2
         IN  Desc(<<p.SEQ, p.H, 2, half>>, <<2 * p.H * half, 2 * half, 1, 2>>, 1, 0, Const(1))

\* The kinds of which every row repeats the same ids: their challenges are
\* hashed once, into a buffer that covers ids lo .. hi - 1.
Spans(p) ==
  CASE p.kind \in {"FreivaldsLF1B", "FreivaldsLF2A"} -> p.base .. p.base + p.k - 1
    [] p.kind = "FreivaldsLF3C" -> p.base .. p.base + p.H - 1
    [] OTHER -> Nat

\* One thread of the kernel: the digits of f, the most significant one open.
Digits(shape, f) ==
  LET q == Len(shape)
      rem[j \in 1 .. q] == IF j = q THEN f ELSE rem[j + 1] \div shape[j + 1]
  IN  [j \in 1 .. q |-> IF j = 1 THEN rem[1] ELSE rem[j] % shape[j]]
DotDigits(digit, s) == FoldSet(LAMBDA j, acc : acc + digit[j] * s[j], 0, DOMAIN digit)
Coefficient(k, digit) ==
  CASE k.mode = 0 -> k.c
    [] k.mode = 1 -> k.a[DotDigits(digit, k.sa)]
    [] k.mode = 2 -> Neg(FMul(k.a[DotDigits(digit, k.sa)], k.b[DotDigits(digit, k.sb)]))
LOCAL Fan(at, g, coef) == {<<at + t * g.fan_stride, coef>> : t \in 0 .. g.fan - 1}
LOCAL InterpAt(base, g, digit) == Fan(base + DotDigits(digit, g.cid), g, Coefficient(g.coef, digit))
LOCAL InterpWith(base, g, f) == InterpAt(base, g, Digits(g.shape, f))
Interp(p, f) == InterpWith(p.base, Geometry(p), f)

---------------------------------------------------------------------------
(* The kinds with a kernel of their own.                                    *)
RankBefore(i_qry, hh, H) == (H * i_qry * (i_qry + 1)) \div 2 + hh * (i_qry + 1)

interp_band_causal_id(p, f) ==
  LET b == f \div p.M   j == f % p.M   i_qry == b \div p.H
  IN  IF j > i_qry THEN {}
      ELSE {<<p.base + RankBefore(i_qry, b % p.H, p.H) + j, p.coef % P>>}

interp_band_causal_c2(p, f) ==
  LET i_qry == f \div p.H
  IN  {<<p.base + RankBefore(i_qry, f % p.H, p.H) + jo, p.coef % P>> : jo \in 0 .. i_qry}

interp_band_causal_masked_id(p, f) ==
  LET b == f \div p.M   j == f % p.M   i_qry == b \div p.H
      before == p.H * (i_qry * (p.M - 1) - (i_qry * (i_qry - 1)) \div 2)
                + (b % p.H) * (p.M - 1 - i_qry)
  IN  IF j <= i_qry THEN {} ELSE {<<p.base + before + (j - i_qry - 1), p.coef % P>>}

\* Every occurrence of the vocabulary row in the prompt reads the slot.
interp_band_embed(p, f, ell) ==
  LET rows_per_w == IF ell \div p.d = 0 THEN 1 ELSE ell \div p.d
      within == f % ell
      rel    == within \div p.d
      vocab  == (f \div ell) * rows_per_w + rel
  IN  IF rel >= rows_per_w THEN {}
      ELSE {<<p.base + i * p.d + (within % p.d), P - 1>> :
              i \in {i \in DOMAIN p.token_ids : p.token_ids[i] = vocab}}

interp_band_rope_x(p, f) ==
  LET half == p.d_h \div 2
      sq == f \div (p.H * p.d_h)   hh == (f \div p.d_h) % p.H   k == f % p.d_h
      kp == k % half
      pair_t == sq * p.H * half + hh * half + kp
      c == p.cos[sq * half + kp]   sn == p.sin[sq * half + kp]
  IN  IF k \div half = 0
      THEN {<<p.base + 2 * pair_t, Neg(c)>>, <<p.base + 2 * pair_t + 1, Neg(sn)>>}
      ELSE {<<p.base + 2 * pair_t, sn>>, <<p.base + 2 * pair_t + 1, Neg(c)>>}

\* The kernel a band is launched on, and the terms of its slot f.
BandTerms(p, f, ell) ==
  CASE p.kind = "CausalFilteredId" -> interp_band_causal_id(p, f)
    [] p.kind = "CausalFilteredC2" -> interp_band_causal_c2(p, f)
    [] p.kind = "CausalMaskedId"   -> interp_band_causal_masked_id(p, f)
    [] p.kind = "EmbedE"           -> interp_band_embed(p, f, ell)
    [] p.kind = "RoPEX"            -> interp_band_rope_x(p, f)
    [] OTHER                       -> Interp(p, f)
===========================================================================
