---------------------------- MODULE MCLinearFold ----------------------------
(* Small tapes in which every claim, and every variant of one, occurs.        *)
EXTENDS Argument, RoutingClaims, ClaimHandlers, Bridge

\* Challenge vectors: fixed, with no zero and no two equal entries in a vector.
MCOpVec(id, name, n) ==
  LET seed == Len(id) + (CASE name = "rho" -> 31 [] name = "lam" -> 57 [] name = "sig" -> 83)
  IN  [j \in 0 .. n - 1 |-> (seed * 11 + 7 * j * j + 13 * j + 3) % P]
MCRopeCos(c) == [j \in 0 .. (c.SEQ * c.d_h) \div 2 - 1 |-> 5 + 3 * j]
MCRopeSin(c) == [j \in 0 .. (c.SEQ * c.d_h) \div 2 - 1 |-> 2 + 7 * j]

In(role, len) == Var("in", role, 0, len, "p1")
Weight(role, len) == Var("w", role, 0, len, "W")
Fresh(role, len) == Var("w", role, 0, len, "Wnew")

RangeTable(name, bits, alpha) == Table(name, [j \in 0 .. 2 ^ bits - 1 |-> j], <<>>, alpha, 0)
Pairs(name, n, alpha, beta) == Table(name, [j \in 0 .. n - 1 |-> j], [j \in 0 .. n - 1 |-> j * j], alpha, beta)
LOCAL INSTANCE TLC
R1 == RangeTable("r1", 1, 901)
R2 == RangeTable("r2", 2, 902)
R3 == RangeTable("r3", 3, 903)

\* A dense block: lookup, projection, residual, gate.
Emb(id) == [op |-> "EmbeddingLookup", id |-> id, E |-> Weight("E", 6), d |-> 2,
            token_ids |-> [j \in 0 .. 2 |-> <<2, 0, 2>>[j + 1]]]
MM(id, A, B, m, n, H, K, tr, bits) ==
  [op |-> "Matmul", id |-> id, A |-> A, B |-> B, m |-> m, n |-> n, heads |-> H, head_dim |-> K,
   k |-> H * K, transpose_b |-> tr, rescale_bits |-> bits, output_width |-> 3,
   range_rescale |-> R1, range_output |-> R3]
Had(id, a, b, len, bits) ==
  [op |-> "Hadamard", id |-> id, a |-> a, b |-> b, length |-> len, rescale_bits |-> bits,
   output_width |-> 2, range_rescale |-> R1, range_output |-> R2]
AddC(id, a, b, len, rhs) ==
  [op |-> "Add", id |-> id, a |-> a, b |-> b, length |-> len, public_rhs |-> rhs]

Dense ==
  << Emb("e"),
     MM("mm", Own([id |-> "e"], "x", 6), Weight("B", 4), 3, 2, 1, 2, FALSE, 1),
     AddC("ad", Own([id |-> "e"], "x", 6), Own([id |-> "mm"], "C", 6), 6, -1),
     Had("h", Own([id |-> "ad"], "c", 6), Fresh("g", 6), 6, 1),
     AddC("pin", Own([id |-> "h"], "c", 6), Own([id |-> "h"], "c", 6), 6, 9) >>

\* Attention: two heads, B transposed, a causal saturating softmax.
Soft(id, x, B, M, H, causal, sat, up, bits) ==
  [op |-> "Softmax", id |-> id, x |-> x, B |-> B, M |-> M, heads |-> H, causal |-> causal,
   saturate |-> sat, round_up |-> up, rescale_bits |-> bits, s_y |-> 4, Z_max |-> 3,
   aux_chunk_width |-> 2, exp_A |-> Pairs("expA", 6, 911, 17), exp_B |-> Pairs("expB", 6, 912, 19),
   range_aux |-> R2, range_z_high |-> R1, range_rescale |-> R1]
Rope(id, x, SEQ, H, d_h, bits) ==
  [op |-> "RoPE", id |-> id, x |-> x, SEQ |-> SEQ, heads |-> H, d_h |-> d_h, rescale_bits |-> bits,
   output_width |-> 3, range_rescale |-> R1, range_output |-> R3]

Attention ==
  << Rope("q", In("q", 12), 3, 2, 2, 1), Rope("k", In("k", 12), 3, 2, 2, 0),
     MM("qk", Own([id |-> "q"], "x_rot", 12), Own([id |-> "k"], "x_rot", 12), 3, 3, 2, 2, TRUE, 0),
     Soft("s", Own([id |-> "qk"], "C", 18), 6, 3, 2, TRUE, TRUE, FALSE, 0) >>
Softmaxes ==
  << Soft("s1", In("x", 6), 2, 3, 1, FALSE, FALSE, FALSE, 1),
     Soft("s2", In("x", 6), 2, 3, 1, FALSE, TRUE, TRUE, 0),
     Soft("s3", In("y", 4), 2, 2, 1, TRUE, FALSE, FALSE, 1),
     Rope("r", In("r", 8), 2, 1, 4, 0) >>

\* The norm and the activation.
Rms(id, x, B, d, s, bits, obits) ==
  [op |-> "RmsNorm", id |-> id, x |-> x, B |-> B, d |-> d, s |-> s, eps_int |-> 1,
   rescale_bits |-> bits, output_rescale_bits |-> obits, output_width |-> 2,
   range_slack |-> R2, range_slack_top |-> R1, range_y_top |-> R1, range_limb |-> R1,
   range_g0h_top |-> R1, range_g1h_top |-> R1, range_G2_top |-> R1,
   range_rescale |-> R1, range_output_rescale |-> R1, range_output |-> R2]
Silu(id, x, len, bits) ==
  [op |-> "Silu", id |-> id, x |-> x, length |-> len, rescale_bits |-> bits, T_LEN |-> 4,
   b |-> 2, b_2 |-> 8, b_3 |-> 16, b_4 |-> 32, width_2 |-> 1,
   range_b |-> R1, range_a1 |-> R2, range_w2 |-> R1, range_w3 |-> R1, range_w4 |-> R1,
   silu_table |-> Pairs("silu", 8, 913, 23), range_rescale |-> R2, range_x |-> R1]
Norms == << Rms("n", In("x", 3), 3, 1, 2, 0, 1), Silu("u", Own([id |-> "n"], "output", 3), 3, 1) >>
Norms2 == << Rms("m", In("x", 6), 2, 3, 1, 1, 0), Silu("v", Own([id |-> "m"], "output", 6), 6, 0) >>

\* The unembedding's maximum, the information of its tokens and small claims.
Tables ==
  << [op |-> "Max", id |-> "mx", T |-> 2, V |-> 3, l |-> In("l", 6), O |-> In("O", 6),
      tok |-> In("tok", 2), table |-> R3],
     [op |-> "InfoFinalize", id |-> "inf", T |-> 2, V |-> 3, e |-> In("e", 6), pw |-> In("pw", 2),
      gap_o2 |-> Own([id |-> "mx"], "gap_o", 2), b |-> In("b", 2), k |-> 3, K |-> 4, wb |-> 2,
      n_dw |-> 2, n_zw |-> 1, range_wd |-> R2, range_k |-> R3],
     [op |-> "LinComb", id |-> "lc", xs |-> <<In("e", 6), In("l", 6)>>, coefs |-> <<3, P - 2>>,
      length |-> 6, rhs |-> <<1, 0, 2, 0, 0, 5>>],
     [op |-> "LinComb", id |-> "lk", xs |-> <<In("pw", 2), In("tok", 2)>>, coefs |-> <<1, 1>>,
      length |-> 2, rhs |-> <<7>>],
     [op |-> "WordExtraction", id |-> "we", x |-> In("e", 6), coeffs |-> <<1, 4>>, length |-> 6, shift |-> 8],
     [op |-> "RangeWord", id |-> "rw", x |-> Var("we", "word", 1, 6, "p1"), length |-> 6, table |-> R2],
     [op |-> "PairedTlookup", id |-> "pt", x |-> In("e", 6), length |-> 6, shift |-> 2,
      table |-> Pairs("sq", 5, 914, 29)],
     [op |-> "Rescale", id |-> "rs", x_full |-> In("l", 6), length |-> 6, rescale_bits |-> 2,
      output_width |-> 2, range_rescale |-> R2, range_output |-> R2] >>

\* The experts: router, combine; top-k router, its slots, gates and splits.
Experts ==
  << [op |-> "Routing", id |-> "ro", T |-> 2, E |-> 3, r |-> In("r", 6), L_bits |-> 2],
     [op |-> "FreivaldsCombine", id |-> "fc", T |-> 2, E |-> 3, F |-> 2, m |-> Own([id |-> "ro"], "m", 6),
      xs |-> <<In("x1", 4), In("x2", 4), In("x3", 4)>>, y |-> In("y", 4)],
     [op |-> "TopkRouting", id |-> "tk", T |-> 2, E |-> 3, k |-> 2, s |-> In("s", 6), b |-> Weight("bias", 3),
      L_bits |-> 2, width |-> 3, range_bits |-> 4],
     [op |-> "TopkSlots", id |-> "sl", T |-> 2, E |-> 3, k |-> 2, m |-> Own([id |-> "tk"], "m", 6), s |-> In("s", 6)],
     [op |-> "GateBracket", id |-> "gb", T |-> 2, k |-> 2, ss |-> Own([id |-> "sl"], "ss", 4), C |-> 8,
      z_bits |-> 3, w_bits |-> 4, rem_bits |-> 3, cs_bits |-> 5],
     [op |-> "Split", id |-> "sp", whole |-> Own([id |-> "gb"], "w", 4), parts |-> <<In("w1", 2), In("w2", 2)>>],
     [op |-> "Concat", id |-> "cc", srcs |-> <<In("w2", 2), In("r", 6), In("w1", 2)>>] >>
Routed(id, bridge) ==
  [op |-> "RoutedProjected", id |-> id, rho_id |-> "rp", use_bridge |-> bridge, T |-> 2, K |-> 2, J |-> 3, E |-> 2,
   X |-> In("X", 4), Y |-> In("Y", 6), M |-> In("M", 4), W |-> <<Weight("W1", 6), Weight("W2", 6)>>,
   pin |-> [j \in 0 .. 3 |-> 5 * j]]
Projected == << Routed("rp", FALSE), Routed("rb", TRUE) >>
\* A threshold that a handler refuses: two relations could share it.
Refused == << [Experts[3] EXCEPT !.range_bits = 10] >>

\* What the hashes expand to: fixed values, no two alike in a small range.
MCChallenge(label, k) ==
  CASE label = "irs" -> (k * k * 7 + k * 29 + 3) % P
    [] label = "lin" -> (k * k * 11 + k * 13 + 5) % P
    [] label = "quad" -> (k * k * 3 + k * 41 + 2) % P
MCRowPrg(row, k) == (row * 59 + k * k * 31 + row * k * 7 + 1) % P
MCBlinding(label, k) == (Len(label) * 61 + k * k * 19 + k * 23 + 4) % P

\* A tape whose relations are easily met: a product and a sum.
Small == << Had("h", In("a", 6), In("b", 6), 6, 0),
            AddC("s", Own([id |-> "h"], "c", 6), In("a", 6), 6, -1) >>
SmallWitness(c0) ==
  LET a == [j \in 0 .. 5 |-> 3 * j + 1]
      b == [j \in 0 .. 5 |-> 200 + j]
      c == [j \in 0 .. 5 |-> IF j = 5 THEN c0 ELSE FMul(a[j], b[j])]
  IN  (<<"in", "a", 0>> :> a) @@ (<<"in", "b", 0>> :> b) @@ (<<"h", "c", 0>> :> c)
      @@ (<<"s", "c", 0>> :> [j \in 0 .. 5 |-> (a[j] + c[j]) % P])
\* Any values at all for the others.
AnyVector(name, len) ==
  [j \in 0 .. len - 1 |-> (Len(name[1]) * 71 + Len(name[2]) * 101 + name[3] * 43 + j * j * 17 + j * 3) % P]
VarSet(s) == {s[k] : k \in DOMAIN s}
AnyOf(vs) == [name \in {v.name : v \in vs} |-> AnyVector(name, (CHOOSE v \in vs : v.name = name).len)]
Arbitrary(t) == AnyOf(UNION {VarSet(Mentions(t[n])) : n \in DOMAIN t})
MCWitnesses(t) ==
  IF t[1].id = "h" /\ t[1].op = "Hadamard" /\ Len(t) <= 3 THEN {SmallWitness(FMul(16, 205)), SmallWitness(7)} ELSE {Arbitrary(t)}
MCQueries == {{0, 5, 7, 12}, {2, 3}}
MCTapes == {Small, Dense, Attention, Softmaxes, Norms, Norms2, Tables, Experts, Projected, Refused}
\* One variable twice in a claim: both templates have one key.
AliasTapes == {<< AddC("xx", In("x", 6), In("x", 6), 6, -1) >>}

MCCuts == {<<1, 1>>, <<3, 2>>, <<8, 8>>}

\* Enrolled weights: widths, row counts that fill a last block and not, geometries
\* of both transforms; honest sections and one change in each part of one.
BC(J, K, W, b) == [J |-> J, K |-> K, W |-> W, use_bridge |-> b]
Mat(n, x) == [m \in 0 .. n - 1 |-> (x + 37 * m + 5 * m * m) % P]
\* Two widths; the rows of neither fill its last block.
BridgedClaims == << BC(2, 1, <<Mat(2, 9), Mat(2, 70)>>, TRUE), BC(1, 3, <<Mat(3, 200)>>, TRUE),
                    BC(2, 2, <<Mat(4, 31)>>, FALSE), BC(2, 3, <<Mat(6, 111)>>, TRUE) >>
Exact == << BC(1, 2, <<Mat(2, 17), Mat(2, 1)>>, TRUE) >>
\* One weight of the model changed; two claims of one shape exchanged.
Changed == [BridgedClaims EXCEPT ![4].W[1][3] = 6]
Uneven == << BC(2, 2, <<Mat(4, 9)>>, TRUE), BC(2, 1, <<Mat(2, 33)>>, TRUE) >>
Reordered == << Uneven[2], Uneven[1] >>
Geom(B, lam, N_w, q_w) == [B |-> B, lam |-> lam, N_w |-> N_w, q_w |-> q_w]
G1 == Geom(2, 2, 8, 2)
G2 == Geom(3, 1, 16, 2)
BJob(audited, enrolled, claims, cert, params, t, alter) ==
  [audited |-> audited, enrolled |-> enrolled, claims |-> claims, certified |-> cert, params |-> params,
   t_cols |-> t, alter |-> alter]
Alterations == {"none", "forged", "forged mask", "unreduced", "p_trace", "pi", "c", "c unreduced", "v", "short v", "eta",
  "column", "no column", "path", "side", "fewer", "split", "blocks", "outputs", "pi group"}
MCBridgeJobs ==
  {BJob(BridgedClaims, BridgedClaims, BridgedClaims, g, g, 4, a) : g \in {G1, G2}, a \in Alterations}
  \cup {BJob(c, c, c, G1, G1, t, "none") : c \in {Exact, Uneven}, t \in {4, 5}}
  \cup {BJob(a, e, c, G1, G1, 4, "none") : a, e, c \in {BridgedClaims, Changed}}
  \cup {BJob(Uneven, e, Uneven, G1, G1, 4, "none") : e \in {Reordered}}
  \cup {BJob(Reordered, Uneven, Uneven, G1, G1, 4, "none"),
        BJob(Uneven, Uneven, Uneven, G1, [G1 EXCEPT !.B = 1, !.lam = 3], 4, "none"),
        BJob(Uneven, Uneven, Uneven, G1, [G1 EXCEPT !.N_w = 16], 4, "none")}
MCBridgeCoins == {[alpha |-> [n \in 0 .. 15 |-> (n * n * 17 + n * 5 + a) % P], eta |-> e] :
                    a \in {11, 60}, e \in {<<5, 0>>, <<3, 6>>}}
MCBridgePrg(w, row, k) == (w * 83 + row * 41 + k * 29 + row * k * 13 + 2) % P
MCBridgeRho(w) == [j \in 0 .. w - 1 |-> (w * 50 + 19 * j + 7) % P]

\* The bridge and the argument meet in the pins of the bridged claims, which may
\* have any values here: one behaviour runs one of the two.
ArgumentIdle ==
  /\ tape = <<>> /\ row_start = <<>> /\ groups = <<>> /\ cut = <<1, 1>> /\ pc = "idle" /\ ci = 1 /\ cur = 0
  /\ bands = <<>> /\ quadsP = <<>> /\ rhsP = {} /\ queue = <<>> /\ landed = <<>> /\ fold = NoRows
  /\ families = <<>> /\ quadsV = <<>> /\ rhsV = {} /\ test = NoRows
  /\ step = "idle" /\ witness = <<>> /\ codes = <<>> /\ arts = <<>> /\ proof = <<>> /\ checks = <<>>
MCInit == (ArgumentInit /\ BridgeIdle) \/ (ArgumentIdle /\ BridgeInit)
MCNext == (ArgumentNext /\ UNCHANGED bridge_vars) \/ (BridgeNext /\ UNCHANGED allvars)
MCSpec == MCInit /\ [][MCNext]_<<allvars, bridge_vars>>
=============================================================================
