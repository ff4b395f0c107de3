----------------------------- MODULE MCWitness -----------------------------
(* Every claim over small values of a small field, alone or in a short tape.  *)
EXTENDS Witness, SequencesExt

MCOpVec(id, name, n) ==
  LET seed == Len(id) + (CASE name = "rho" -> 31 [] name = "lam" -> 57 [] name = "sig" -> 83 [] OTHER -> 41)
  IN  [j \in 0 .. n - 1 |-> (seed * 11 + 7 * j * j + 13 * j + 3) % P]
MCAuditVec(ch, index, label, n) ==
  LET seed == (ch * 211 + index * 37 + Len(label) * 101 + 5) % P
  IN  [j \in 0 .. n - 1 |-> (((seed * (seed + 5 * j + 1)) % P) * (j + 3) + 17) % P]
MCRoundCoin(ctx, polys) ==
  LET Absorb(h, g) == FoldLeft(LAMBDA a, s : ((((a * 31 + s[1] * 7 + s[2]) % P) * (a + 3)) + 11) % P, (h * 13 + 5) % P, g)
  IN  FoldLeft(Absorb, (ctx[1] * 97 + ctx[2] * 41 + Len(ctx[3][1])) % P, polys)
MCChallenges == {101, 257, 600}
MCRopeCos(c) == [j \in 0 .. (c.SEQ * c.d_h) \div 2 - 1 |-> 1 + (j % 2)]
MCRopeSin(c) == [j \in 0 .. (c.SEQ * c.d_h) \div 2 - 1 |-> 2 - (j % 2)]
\* 4 * exp(e), as the table holds it.
MCExpEntry(s_c, s_y, e, up) ==
  CASE e > 0 -> 11 [] e = 0 -> 4 [] e = -1 -> (IF up THEN 2 ELSE 1)
    [] e = -2 -> 1 [] OTHER -> IF up THEN 1 ELSE 0

\* A vector of integers as field elements.
V(s) == [j \in 0 .. Len(s) - 1 |-> (s[j + 1] + P) % P]
In(role, len) == Var("in", role, 0, len, "p1")
Weight(role, len) == Var("w", role, 0, len, "W")
Out(id, role, len) == Own([id |-> id], role, len)
Case(calls, inputs) == [calls |-> calls, inputs |-> inputs]
One(role, xs) == {In(role, 1) :> V(<<x>>) : x \in xs}

---------------------------------------------------------------------------
Rescale(id, x, len, bits, width) ==
  [op |-> "Rescale", id |-> id, x_full |-> x, length |-> len, rescale_bits |-> bits, output_width |-> width]
Had(id, a, b, len, bits, width) ==
  [op |-> "Hadamard", id |-> id, a |-> a, b |-> b, length |-> len, rescale_bits |-> bits, output_width |-> width]
Silu(id, x, len, width_2, bits) ==
  [op |-> "Silu", id |-> id, x |-> x, length |-> len, rescale_bits |-> bits, b |-> 2, T_LEN |-> 4,
   b_2 |-> 8, b_3 |-> 8 * 2 ^ width_2, b_4 |-> 16 * 2 ^ width_2, width_2 |-> width_2, width_3 |-> 1, width_4 |-> 1,
   T_Y |-> V(<<0, 2, 4, 6, -1, -1, -2, 0>>)]
Rms(id, x, B, d, s, bits, obits) ==
  [op |-> "RmsNorm", id |-> id, x |-> x, B |-> B, d |-> d, s |-> s, eps_int |-> 1,
   rescale_bits |-> bits, output_rescale_bits |-> obits, output_width |-> 4]
Soft(id, x, B, M, H, causal, sat, up, bits) ==
  [op |-> "Softmax", id |-> id, x |-> x, B |-> B, M |-> M, heads |-> H, causal |-> causal, saturate |-> sat,
   round_up |-> up, rescale_bits |-> bits, s_c |-> 1, s_y |-> 4, delta |-> 1, Z_max |-> 4,
   Z_high_width |-> 2, aux_chunk_width |-> 5]
Words_(id, x, B, N) == [op |-> "WordExtraction", id |-> id, x |-> x, B |-> B, N |-> N]
Route(id, T, E, r) == [op |-> "Routing", id |-> id, T |-> T, E |-> E, r |-> r, B_logit |-> 6, word_bits |-> 4]
Topk(id, T, E, kk, s, b, width, bits) ==
  [op |-> "TopkRouting", id |-> id, T |-> T, E |-> E, k |-> kk, s |-> s, b |-> b, width |-> width, word_bits |-> bits]
Slots(id, T, E, kk, m, s) == [op |-> "TopkSlots", id |-> id, T |-> T, E |-> E, k |-> kk, m |-> m, s |-> s]
Bracket(id, T, kk, ss) ==
  [op |-> "GateBracket", id |-> id, T |-> T, k |-> kk, ss |-> ss, C |-> 4, score_bits |-> 3, word_bits |-> 2]
MaxOf(id, T, n) ==
  [op |-> "Max", id |-> id, T |-> T, V |-> n, l |-> In("l", T * n), O |-> In("O", T * n), tok |-> In("tok", T),
   table |-> _range_table("gap", 4)]
Info(T, n, gap) ==
  << [op |-> "InfoFinalize", id |-> "inf", T |-> T, V |-> n, e |-> In("e", T * n), pw |-> Out("pt", "y", T),
      gap_o2 |-> gap, b |-> Out("inf", "b", T), k |-> 3, K |-> 4, pow |-> V(<<1, 2, 4, 8>>), wb |-> 2,
      n_dw |-> 2, n_zw |-> 2, range_wd |-> _range_table("wd", 2),
      range_k |-> Table("rem", Keys(3), <<>>, Alpha, 0)],
     [op |-> "PairedTlookup", id |-> "pt", x |-> Out("inf", "b", T), length |-> T, shift |-> 0,
      table |-> Pairs("pow", V(<<1, 2, 4, 8>>))] >>
MM(id, A, B, m, n, H, K, tr, bits) ==
  [op |-> "Matmul", id |-> id, A |-> A, B |-> B, m |-> m, n |-> n, heads |-> H, head_dim |-> K,
   k |-> H * K, transpose_b |-> tr, rescale_bits |-> bits, output_width |-> 6]
Rope(id, x, SEQ, H, d_h, bits) ==
  [op |-> "RoPE", id |-> id, x |-> x, SEQ |-> SEQ, heads |-> H, d_h |-> d_h, rescale_bits |-> bits, output_width |-> 6]
Add(id, a, b, len, rhs) == [op |-> "Add", id |-> id, a |-> a, b |-> b, length |-> len, public_rhs |-> rhs]

---------------------------------------------------------------------------
(* A dense block, an attention block, the experts, the token's information.   *)
Emb(id) == [op |-> "EmbeddingLookup", id |-> id, E |-> Weight("E", 6), d |-> 2,
            token_ids |-> [j \in 0 .. 2 |-> <<2, 0, 2>>[j + 1]]]
Dense ==
  << Emb("e"), MM("mm", Out("e", "x", 6), Weight("B", 4), 3, 2, 1, 2, FALSE, 1),
     Add("ad", Out("e", "x", 6), Out("mm", "C", 6), 6, -1),
     Had("h", Out("ad", "c", 6), Weight("g", 6), 6, 1, 6),
     Rms("n", Out("ad", "c", 6), 3, 2, 1, 0, 1), Silu("u", Out("n", "output", 6), 6, 1, 0) >>
DenseIn == Case(Dense, {Weight("E", 6) :> V(<<1, -2, 0, 3, x, 2>>) @@ Weight("B", 4) :> V(<<1, y, -1, 2>>)
                        @@ Weight("g", 6) :> V(<<2, -1, 0, 1, 3, -2>>) : x \in -1 .. 1, y \in {-3, 0, 2}})
Attention ==
  << Rope("q", In("q", 12), 3, 2, 2, 1), Rope("k", In("k", 12), 3, 2, 2, 0),
     MM("qk", Out("q", "x_rot", 12), Out("k", "x_rot", 12), 3, 3, 2, 2, TRUE, 2),
     Soft("s", Out("qk", "C", 18), 6, 3, 2, TRUE, TRUE, FALSE, 0) >>
AttentionIn ==
  Case(Attention, {In("q", 12) :> V(<<1, 0, -1, 2, x, 1, 0, -2, 1, 1, -1, 0>>)
                   @@ In("k", 12) :> V(<<0, 1, 1, -1, 2, 0, -1, x, 1, 0, 0, 1>>) : x \in -1 .. 2})
Experts ==
  << Route("ro", 2, 3, In("r", 6)),
     [op |-> "FreivaldsCombine", id |-> "fc", T |-> 2, E |-> 3, F |-> 2, m |-> Out("ro", "m", 6),
      xs |-> <<In("x1", 4), In("x2", 4), In("x3", 4)>>, y |-> In("y", 4)],
     [op |-> "RoutedProjected", id |-> "rp", rho_id |-> "rp", use_bridge |-> FALSE, T |-> 2, K |-> 2, J |-> 3,
      E |-> 3, X |-> In("x1", 4), Y |-> In("Y", 6), M |-> Out("ro", "m", 6),
      W |-> <<Weight("W1", 6), Weight("W2", 6), Weight("W3", 6)>>, pin |-> <<>>],
     Topk("tk", 2, 3, 2, In("s", 6), Weight("bias", 3), 8, 8),
     Slots("sl", 2, 3, 2, Out("tk", "m", 6), In("s", 6)), Bracket("gb", 2, 2, Out("sl", "ss", 4)),
     [op |-> "Split", id |-> "sp", whole |-> Out("gb", "w", 4), parts |-> <<In("w1", 2), In("w2", 2)>>],
     [op |-> "Concat", id |-> "cc", srcs |-> <<In("w2", 2), In("y", 4), In("w1", 2)>>] >>
ExpertsIn ==
  Case(Experts,
       {In("r", 6) :> V(<<x, 3, -2, 5, 5, y>>) @@ In("s", 6) :> V(<<x + 2, 3, 2, 5, 5, y + 3>>)
        @@ Weight("bias", 3) :> V(<<1, 0, 2>>)
        @@ In("x1", 4) :> V(<<1, 2, 3, 4>>) @@ In("x2", 4) :> V(<<-1, 5, 0, 7>>) @@ In("x3", 4) :> V(<<2, 2, 9, 9>>)
        @@ Weight("W1", 6) :> V(<<1, 2, 3, 4, 5, 6>>) @@ Weight("W2", 6) :> V(<<0, 1, 0, -1, 0, 2>>)
        @@ Weight("W3", 6) :> V(<<7, 7, 1, 1, 2, 2>>) : x \in {-1, 3, 4}, y \in {-2, 2, 4}})
Scored ==
  << MaxOf("mx", 2, 3) >> \o Info(2, 3, Out("mx", "gap_o", 2))
  \o << [op |-> "LinComb", id |-> "lc", xs |-> <<In("O", 6), In("O", 6)>>, coefs |-> <<3, P - 3>>,
         length |-> 6, rhs |-> <<0>>], Add("pin", In("tok", 2), In("tok", 2), 2, 1) >>
ScoredIn ==
  Case(Scored, {In("l", 6) :> V(<<x, 2, -3, 1, 4, y>>) @@ In("O", 6) :> V(<<0, 1, 0, 0, 1, 0>>)
                @@ In("tok", 2) :> V(<<1, 1>>) @@ In("e", 6) :> V(<<1, 2, 0, x + 2, 2, 1>>) :
                x \in -2 .. 3, y \in {0, 4, 7}})

---------------------------------------------------------------------------
Pair1(a, b) == V(<<a, b>>)
MCCases ==
  "rescale" :> Case(<<Rescale("rs", In("x", 1), 1, 2, 3)>>, One("x", -16 .. 15))
  @@ "hadamard" :> Case(<<Had("h", In("x", 1), In("y", 1), 1, 1, 4)>>,
                        {In("x", 1) :> V(<<x>>) @@ In("y", 1) :> V(<<y>>) : x \in {-3, 0, 2}, y \in {-5, -1, 3}})
  @@ "silu" :> Case(<<Silu("si", In("x", 1), 1, 1, 0)>>, One("x", {-63, -17, -16, -9, -8, -7, -1, 0, 1, 7, 8, 31, 63}))
  @@ "silu_in" :> Case(<<Silu("si", In("x", 1), 1, 3, 1)>>, One("x", -8 .. 7))
  @@ "rms" :> Case(<<Rms("n", In("x", 1), 1, 1, 2, 0, 1)>>, One("x", {-7, -3, -1, 0, 1, 2, 4, 6}))
  @@ "rms_in" :> Case(<<Rms("n", In("x", 2), 1, 2, 1, 1, 0)>>, {In("x", 2) :> V(<<x, y>>) : x \in 0 .. 3, y \in 0 .. 3})
  @@ "softmax" :> Case(<<Soft("s", In("x", 2), 1, 2, 1, FALSE, FALSE, FALSE, 0)>>,
                       {In("x", 2) :> V(<<x, y>>) : x \in -1 .. 1, y \in -1 .. 1})
  @@ "saturated" :> Case(<<Soft("s", In("x", 2), 1, 2, 1, FALSE, TRUE, FALSE, 1)>>,
                         {In("x", 2) :> V(<<x, y>>) : x \in {-4, 7}, y \in {-4, 0, 14}})
  @@ "causal" :> Case(<<Soft("s", In("x", 4), 2, 2, 1, TRUE, FALSE, FALSE, 0)>>,
                      {In("x", 4) :> V(<<x, 9, 0, y>>) : x \in {-2, 1}, y \in {-1, 1}})
  @@ "round_up" :> Case(<<Soft("s", In("x", 3), 1, 3, 1, FALSE, TRUE, TRUE, 0)>>,
                        {In("x", 3) :> V(<<x, 0, y>>) : x \in {-9, 0}, y \in {1, 5}})
  @@ "words" :> Case(<<Words_("we", In("x", 1), 2, 3)>>, One("x", {0, 1, 6, 27, 63}))
  @@ "routing" :> Case(<<Route("ro", 1, 3, In("r", 3))>>,
                       {In("r", 3) :> V(<<x, y, 1>>) : x \in {-31, 1, 31}, y \in {1, 31}})
  @@ "topk" :> Case(<<Topk("tk", 1, 3, 2, In("s", 3), Weight("bias", 3), 3, 3)>>,
                    {In("s", 3) :> V(<<x, y, 1>>) @@ Weight("bias", 3) :> V(<<0, 0, 0>>) : x \in 0 .. 1, y \in 0 .. 1})
  @@ "gates" :> Case(<<Slots("sl", 1, 3, 2, In("m", 3), In("s", 3)), Bracket("gb", 1, 2, Out("sl", "ss", 2))>>,
                     {In("m", 3) :> V(<<1, 0, 1>>) @@ In("s", 3) :> V(<<x, 5, y>>) : x \in {0, 7}, y \in {1}})
  @@ "max" :> Case(<<MaxOf("mx", 1, 3)>>,
                   {In("l", 3) :> V(<<x, 2, y>>) @@ In("O", 3) :> V(<<0, 1, 0>>) @@ In("tok", 1) :> V(<<1>>) :
                    x \in {-5, 2, 9}, y \in {-6, 3}})
  @@ "info" :> Case(Info(1, 2, In("gap", 1)),
                    {In("e", 2) :> V(<<x, 1>>) @@ In("gap", 1) :> V(<<y>>) : x \in {0, 1, 3, 7}, y \in {0, 4, 6}})
  @@ "dense" :> DenseIn @@ "attention" :> AttentionIn @@ "experts" :> ExpertsIn @@ "scored" :> ScoredIn
MCOpen == {"rescale", "hadamard", "silu", "silu_in", "rms", "softmax", "saturated", "causal", "round_up", "words",
           "routing", "topk", "gates", "max", "info"}
MCAudited == {"rescale", "hadamard", "rms", "softmax", "saturated", "round_up", "words", "routing", "max", "info"}
\* One input of each.
MCSelected == [n \in DOMAIN MCCases |-> {CHOOSE i \in MCCases[n].inputs : TRUE}]
NoneSelected == [n \in DOMAIN MCCases |-> {}]
OneSilu == {"silu"}
\* Two softmaxes of one tape that differ only in the rounding of their tables.
UpCases ==
  "both" :> Case(<<Soft("s", In("x", 2), 1, 2, 1, FALSE, TRUE, FALSE, 0), Soft("u", In("x", 2), 1, 2, 1, FALSE, TRUE, TRUE, 0)>>,
                 {In("x", 2) :> V(<<x, y>>) : x \in -1 .. 1, y \in -1 .. 1})
None == {}
NoUpSelected == [n \in DOMAIN UpCases |-> {}]
=============================================================================
