------------------------------ MODULE TapeOps ------------------------------
(***************************************************************************)
(* What a call on the tape records (prover/tape.py, topk_routing.py,         *)
(* routing_claim.py, rescale_claim.py): the claim with the tables it looks   *)
(* up in, shared by size between the calls of a tape, and the claims that    *)
(* range what the first one leaves open.                                    *)
(***************************************************************************)
EXTENDS AuxRows
LOCAL INSTANCE FiniteSetsExt
LOCAL INSTANCE SequencesExt
LOCAL INSTANCE TLC

CONSTANTS
  Alpha, Beta,               \* the fingerprint of a lookup
  ExpEntry(_, _, _, _)       \* s_y * exp(e / s_c), rounded or rounded up: s_c, s_y, e, up

Keys(n) == [j \in 0 .. n - 1 |-> j]
_range_table(kind, bits) == Table(kind \o ToString(bits), Keys(2 ^ bits), <<>>, Alpha, 0)
Pairs(name, T_Y) == Table(name, Keys(Cardinality(DOMAIN T_Y)), T_Y, Alpha, Beta)
\* The two tables of a rescale.
Rescaled(bits, width) ==
  [range_rescale |-> _range_table("rescale", bits), range_output |-> _range_table("output", width)]

range_word(x, table) ==
  <<[op |-> "RangeWord", id |-> ToString(x.name), x |-> x, length |-> x.len, table |-> table]>>
\* N words of B bits of x, each in the table.
word_extract(x, B, N, table) ==
  LET c == [op |-> "WordExtraction", id |-> ToString(x.name), x |-> x, length |-> x.len, shift |-> 0,
            coeffs |-> [n \in 1 .. N |-> 2 ^ (B * (n - 1))]]
  IN  <<c>> \o FlattenSeq([n \in 1 .. N |-> range_word(Words(c, "word", N, x.len)[n], table)])

\* The chunk tables are shared by size.
silu(c) ==
  <<c @@ [range_b |-> _range_table("silu", bit_length(c.b) - 1),
          range_a1 |-> _range_table("silu", bit_length(c.T_LEN) - 1),
          range_w2 |-> _range_table("silu", c.width_2), range_w3 |-> _range_table("silu", c.width_3),
          range_w4 |-> _range_table("silu", c.width_4),
          silu_table |-> Pairs("silu_paired", c.T_Y),
          range_x |-> _range_table("silu", c.width_2)]
      @@ Rescaled(c.rescale_bits, 0)>>

\* A window's top word has the table of its own width; a window of whole words
\* has none.
top_table(width) == _range_table("rms", IF width >= CHUNK THEN width % CHUNK ELSE width)
rmsnorm(c) ==
  <<c @@ [range_slack |-> _range_table("w", CHUNK), range_limb |-> _range_table("rms", RMS_LIMB_W),
          range_y_top |-> top_table(y_width(c)), range_slack_top |-> top_table(slack_width(c)),
          range_g0h_top |-> top_table(g0h_width(c)), range_g1h_top |-> top_table(g1h_width(c)),
          range_G2_top |-> top_table(G2_width(c)),
          range_output_rescale |-> _range_table("rescale", c.output_rescale_bits)]
      @@ Rescaled(c.rescale_bits, c.output_width)>>

\* The tables of a configuration: T_B[k] is T_A[k - delta] by construction.
_softmax_exp_tables(c) ==
  [A |-> [j \in 0 .. c.Z_max - 1 |-> ExpEntry(c.s_c, c.s_y, -j, c.round_up)],
   B |-> [j \in 0 .. c.Z_max - 1 |-> ExpEntry(c.s_c, c.s_y, c.delta - j, c.round_up)]]
\* The tape keeps the pair of tables under this name; a causal softmax looks its
\* masked cells up in a second half of zeros.
cache_attr(c) == <<c.Z_max, c.s_c, c.s_y, c.delta, c.causal>>
softmax(c, cached) ==
  LET own == _softmax_exp_tables(c)
      Doubled(T) == [j \in 0 .. (IF c.causal THEN 2 ELSE 1) * c.Z_max - 1 |-> IF j < c.Z_max THEN T[j] ELSE 0]
      name == "sm_exp" \o ToString(cache_attr(c))
      tables == IF cache_attr(c) \in DOMAIN cached THEN cached[cache_attr(c)]
                ELSE [A |-> Pairs(name \o "A", Doubled(own.A)), B |-> Pairs(name \o "B", Doubled(own.B))]
  IN  [cached |-> (cache_attr(c) :> tables) @@ cached,
       claims |-> <<c @@ [T_A |-> own.A, T_B |-> own.B, exp_A |-> tables.A, exp_B |-> tables.B,
                          range_aux |-> _range_table("w", c.aux_chunk_width),
                          range_z_high |-> _range_table("zhigh", c.Z_high_width)]
                      @@ Rescaled(c.rescale_bits, 0)>>]

---------------------------------------------------------------------------
(* The experts.  A call that breaks its guard records nothing.              *)
l_bits(E) == AtLeast1(bit_length(E - 1))
top1_guard_ok(width, range_bits) == 2 ^ range_bits <= P - 2 ^ width
threshold_guard_ok(width, range_bits) == 2 ^ (range_bits + 1) - 1 <= P - 2 ^ width
bracket_guard_ok(z_bits, rem_bits, w_bits, cs_bits) ==
  /\ 2 ^ (w_bits + z_bits) + 2 ^ rem_bits < P /\ 2 ^ cs_bits < P
  /\ 2 ^ rem_bits <= P - 2 ^ (IF rem_bits > z_bits THEN rem_bits ELSE z_bits) - 1

\* The mask of the best expert; its gaps are not negative.
route_top1(c, B_logit, word_bits) ==
  LET width == B_logit + l_bits(c.E)
      N == AtLeast1(CeilDiv(width, word_bits))
  IN  IF top1_guard_ok(width, N * word_bits)
      THEN <<c @@ [L_bits |-> l_bits(c.E)]>>
           \o word_extract(Own(c, "gap", c.T * c.E), word_bits, N, _range_table(c.id, word_bits))
      ELSE <<>>
route_topk(c, word_bits) ==
  LET N == AtLeast1(CeilDiv(c.width, word_bits))
  IN  IF 1 <= c.k /\ c.k < c.E /\ threshold_guard_ok(c.width, N * word_bits)
      THEN <<c @@ [L_bits |-> l_bits(c.E), range_bits |-> N * word_bits]>>
           \o word_extract(Own(c, "v", c.T * c.E), word_bits, N, _range_table(c.id, word_bits))
      ELSE <<>>
gate_bracket(c, score_bits, word_bits) ==
  LET z_bits == score_bits + AtLeast1(bit_length(c.k))
      cs_bits == bit_length(c.C) + score_bits
      n_rem == AtLeast1(CeilDiv(z_bits, word_bits))
      n_w == AtLeast1(CeilDiv(bit_length(c.C), word_bits))
      table == _range_table(c.id, word_bits)
      v(role) == Own(c, role, c.T * c.k)
  IN  IF bracket_guard_ok(z_bits, n_rem * word_bits, n_w * word_bits, cs_bits)
      THEN <<c @@ [z_bits |-> z_bits, cs_bits |-> cs_bits, rem_bits |-> n_rem * word_bits,
                   w_bits |-> n_w * word_bits]>>
           \o word_extract(v("rem"), word_bits, n_rem, table)
           \o word_extract(v("gr"), word_bits, n_rem, table)
           \o word_extract(v("w"), word_bits, n_w, table)
      ELSE <<>>

---------------------------------------------------------------------------
\* One call after the tape [cached, claims].
Call(tape, c) ==
  LET Recorded(claims) == [tape EXCEPT !.claims = @ \o claims]
  IN  CASE c.op \in {"Matmul", "Hadamard", "RoPE", "Rescale"} ->
             Recorded(<<c @@ Rescaled(c.rescale_bits, c.output_width)>>)
        [] c.op = "Silu" -> Recorded(silu(c))
        [] c.op = "RmsNorm" -> Recorded(rmsnorm(c))
        [] c.op = "Softmax" -> LET s == softmax(c, tape.cached)
                               IN  [cached |-> s.cached, claims |-> tape.claims \o s.claims]
        [] c.op = "Routing" -> Recorded(route_top1(c, c.B_logit, c.word_bits))
        [] c.op = "TopkRouting" -> Recorded(route_topk(c, c.word_bits))
        [] c.op = "GateBracket" -> Recorded(gate_bracket(c, c.score_bits, c.word_bits))
        [] c.op = "WordExtraction" ->
             Recorded(word_extract(c.x, c.B, c.N, _range_table("w", c.B)))
        [] OTHER -> Recorded(<<c>>)
Record(calls) == FoldLeft(Call, [cached |-> [a \in {} |-> <<>>], claims |-> <<>>], calls).claims
=============================================================================
