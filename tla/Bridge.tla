-------------------------------- MODULE Bridge --------------------------------
(***************************************************************************)
(* The weight-commitment bridge (prover/wc_bridge.py, its host in core.py   *)
(* and its twin in verify_proof.rs): expert weights are enrolled once as    *)
(* polynomials, B weights and lam masks each, under one Merkle root; a      *)
(* proof then shows, at q_w points drawn late, that the projections its     *)
(* claims consume are those of the enrolled weights.                        *)
(*                                                                         *)
(* Vectors are functions from 0, a matrix is a vector of rows.  Coins are   *)
(* free, but equal when what they hash is equal: Coin.  A claim has a       *)
(* width J, K rows per expert and the experts' matrices W.                  *)
(***************************************************************************)
EXTENDS Ligero, Merkle
LOCAL INSTANCE SequencesExt
LOCAL INSTANCE FiniteSetsExt

CONSTANTS
  BridgeJobs,          \* [audited, enrolled, claims : the weights the auditor read, those
                       \*  enrolled and those the proof reads; certified, params :
                       \*  [B, lam, N_w, q_w], the auditor's and the prover's; t_cols; alter]
  BridgeCoins,         \* [alpha : block -> value, eta : distinct points of the domain]
  BridgePrg(_, _, _),  \* width, row, k: the masks of the PRG
  BridgeRho(_)         \* width -> the projection's coin, one per width

VARIABLES
  bjob,
  bpc,                 \* "idle", "enroll", "r2", "r3", "verify", "verdict", "failed"
  enr,                 \* the enrollment: levels, root, layout
  r2,                  \* the projections: p_trace, pi
  late,                \* what the late coin hashed, and the coin
  wcfile,              \* the proof's section
  verdicts             \* python, rust: what each verifier says; the pins handed on

bridge_vars == <<bjob, bpc, enr, r2, late, wcfile, verdicts>>

K_w(p) == p.B + p.lam
Widths(f) == SetToSortSeq(DOMAIN f, <)
SumSeq(s) == FoldLeft(LAMBDA acc, x : acc + x, 0, s)
Dot(u, v) == FSum(LAMBDA j : FMul(u[j], v[j]), DOMAIN u)

---------------------------------------------------------------------------
(* The layout: the rows of the bridged claims, in claim order, per width.   *)
Bridged(claims) == SelectSeq([n \in DOMAIN claims |-> [ci |-> n, c |-> claims[n]]], LAMBDA e : e.c.use_bridge)
bridged_claim_map(claims) ==
  LET rows(e) == Len(e.c.W) * e.c.K
      Map(s) == [n \in DOMAIN s |->
        [ci |-> s[n].ci, width |-> s[n].c.J, ek |-> rows(s[n]),
         off |-> SumSeq([m \in 1 .. n - 1 |-> IF s[m].c.J = s[n].c.J THEN rows(s[m]) ELSE 0])]]
  IN  Map(Bridged(claims))
claim_layout(cmap) ==
  [w \in {cmap[n].width : n \in DOMAIN cmap} |->
     LET own == SelectSeq(cmap, LAMBDA m : m.width = w) IN [k \in DOMAIN own |-> own[k].ek]]
enrollment_identity(root, manifest, p, layout) == <<root, manifest, p.B, p.lam, p.N_w, layout>>
Blocks_(layout, p) == [w \in DOMAIN layout |-> CeilDiv(SumSeq(layout[w]), p.B)]

\* The rows of width w, in the order in which the units stream them.
Rows_(claims, w) ==
  LET unit(c, e) == [k \in 1 .. c.K |-> [j \in 0 .. w - 1 |-> c.W[e][(k - 1) * w + j]]]
      own == SelectSeq(Bridged(claims), LAMBDA e : e.c.J = w)
  IN  FlattenSeq([n \in DOMAIN own |-> FlattenSeq([e \in DOMAIN own[n].c.W |-> unit(own[n].c, e)])])

wc_block_masks(w, block, p) == [j \in 0 .. w - 1 |-> [h \in 0 .. p.lam - 1 |-> BridgePrg(w, block * w + j, h)]]
_coeffs_to_codewords(coeffs, p) == Tabulated(ntt_forward(Tabulated(ZeroExtended(coeffs, p.N_w))))
\* One polynomial per output: a column of the block, then its masks.
Packed(rows, masks, p) ==
  [j \in DOMAIN masks |->
     _coeffs_to_codewords([k \in 0 .. K_w(p) - 1 |-> IF k < p.B THEN rows[k][j] ELSE masks[j][k - p.B]], p)]
AsSeq(v) == Tabulated([n \in 1 .. Cardinality(DOMAIN v) |-> v[n - 1]])

\* LazyEnrollment: one pass per width through a buffer of B rows, emitted when
\* full and at the end; `zero` is what the buffer holds when a block begins.
EmptyBuffer(w, p) == [k \in 0 .. p.B - 1 |-> Zeros(w)]
\* Faulty variant of emit: the buffer keeps the rows of the last block.
emitUncleared(st, w, p) ==
  [buf |-> st.buf, fill |-> 0,
   out |-> Append(st.out, AsSeq(Packed(st.buf, wc_block_masks(w, Len(st.out), p), p)))]
emit(st, w, p) ==
  [buf |-> EmptyBuffer(w, p), fill |-> 0,
   out |-> Append(st.out, AsSeq(Packed(st.buf, wc_block_masks(w, Len(st.out), p), p)))]
Streamed(rows, w, p) ==
  LET take(st, row) ==
        LET full == [st EXCEPT !.buf[st.fill] = row, !.fill = @ + 1]
        IN  IF full.fill = p.B THEN emit(full, w, p) ELSE full
      done == FoldLeft(take, [buf |-> EmptyBuffer(w, p), fill |-> 0, out |-> <<>>], rows)
  IN  (IF done.fill > 0 THEN emit(done, w, p) ELSE done).out
\* The batches of codewords, widths ascending.
_stream_codewords(claims, layout, p) ==
  FlattenSeq([n \in DOMAIN Widths(layout) |-> Streamed(Rows_(claims, Widths(layout)[n]), Widths(layout)[n], p)])

_leaf_from_inner(inner) == <<"wc-leaf", inner>>
At_(batches, x) == [n \in DOMAIN batches |-> [k \in DOMAIN batches[n] |-> batches[n][k][x]]]
WcTree(batches, p) ==
  merkle_build_blake3([x \in 1 .. p.N_w |-> _leaf_from_inner(ColumnDigest(At_(batches, x - 1)))])

\* build_enrollment: every row resident, padded, one digest per whole column.
build_enrollment(claims, layout, p) ==
  LET Padded(rows, a) == [k \in 0 .. p.B - 1 |-> IF a * p.B + k + 1 \in DOMAIN rows THEN rows[a * p.B + k + 1]
                                                 ELSE Zeros(Cardinality(DOMAIN rows[1]))]
      Group(rows, w) == FlattenSeq([a \in 1 .. CeilDiv(Len(rows), p.B) |->
                          AsSeq(Packed(Padded(rows, a - 1), wc_block_masks(w, a - 1, p), p))])
      all == FlattenSeq([n \in DOMAIN Widths(layout) |-> Group(Rows_(claims, Widths(layout)[n]), Widths(layout)[n])])
      leaf(x) == _leaf_from_inner(merkle_leaf([k \in DOMAIN all |-> all[k][x]]))
  IN  merkle_build_blake3([x \in 1 .. p.N_w |-> leaf(x - 1)])

\* The resident builds of the jobs' weights.
Geometries == {j.params : j \in BridgeJobs} \cup {j.certified : j \in BridgeJobs}
Resident ==
  [claims \in {j.audited : j \in BridgeJobs} \cup {j.enrolled : j \in BridgeJobs}, p \in Geometries |->
     build_enrollment(claims, claim_layout(bridged_claim_map(claims)), p)]

---------------------------------------------------------------------------
(* The prover.                                                              *)
Claims_ == bjob.claims
cmap == bridged_claim_map(Claims_)
Params == bjob.params

BridgeInit ==
  /\ bjob \in BridgeJobs /\ bpc = "enroll"
  /\ enr = <<>> /\ r2 = <<>> /\ late = <<>> /\ wcfile = <<>> /\ verdicts = <<>>
BridgeIdle ==
  /\ bjob = <<>> /\ bpc = "idle"
  /\ enr = <<>> /\ r2 = <<>> /\ late = <<>> /\ wcfile = <<>> /\ verdicts = <<>>

\* Before any proof: the weights served are streamed once.
Enroll ==
  /\ bpc = "enroll"
  /\ \E layout \in {claim_layout(bridged_claim_map(bjob.enrolled))} :
       \E batches \in {_stream_codewords(bjob.enrolled, layout, Params)} : \E levels \in {WcTree(batches, Params)} :
         enr' = [layout |-> layout, levels |-> levels, root |-> Root(levels)]
  /\ bpc' = "r2"
  /\ UNCHANGED <<bjob, r2, late, wcfile, verdicts>>

\* The projections of the weights the sweep read, rows past the last zero, and
\* those of the masks.
Projected_(blocks, p) ==
  [p_trace |-> [w \in DOMAIN blocks |->
     [m \in 0 .. blocks[w] * p.B - 1 |->
        IF m < Len(Rows_(Claims_, w)) THEN Dot(Rows_(Claims_, w)[m + 1], BridgeRho(w)) ELSE 0]],
   pi |-> [w \in DOMAIN blocks |-> [a \in 0 .. blocks[w] - 1 |-> [h \in 0 .. p.lam - 1 |->
     FSum(LAMBDA j : FMul(wc_block_masks(w, a, p)[j][h], BridgeRho(w)[j]), 0 .. w - 1)]]]]
\* What a prover may claim in their place, before the late coin exists.
Claimed(r, w) ==
  CASE bjob.alter = "forged" -> [r EXCEPT !.p_trace[w][0] = (@ + 1) % P]
    [] bjob.alter = "forged mask" -> [r EXCEPT !.pi[w][0][0] = (@ + 1) % P]
    [] bjob.alter = "unreduced" -> [r EXCEPT !.p_trace[w][0] = @ + P]
    [] OTHER -> r
\* An enrollment of another layout is refused.
BridgeR2 ==
  /\ bpc = "r2"
  /\ \/ enr.layout # claim_layout(cmap) /\ bpc' = "failed" /\ UNCHANGED r2
     \/ /\ enr.layout = claim_layout(cmap)
        /\ \E r \in {Projected_(Blocks_(enr.layout, Params), Params)} : r2' = Claimed(r, Widths(enr.layout)[1])
        /\ bpc' = "r3"
  /\ UNCHANGED <<bjob, enr, late, wcfile, verdicts>>

\* The late coin hashes the identity, the geometry and the projections.
hosted_s_late(root, p, p_trace, pi) == <<"wc/hosted-late", root, p, p_trace, pi>>
\* <<width, block>> in the order of the alphas.
BlockOrder(layout, p) ==
  FlattenSeq([n \in DOMAIN Widths(layout) |->
    [a \in 1 .. Blocks_(layout, p)[Widths(layout)[n]] |-> <<Widths(layout)[n], a - 1>>]])
\* A mutant: one alpha per width.
AggregatePerWidth(order, p_trace, pi, alpha, p) ==
  [k \in 0 .. K_w(p) - 1 |->
     FSum(LAMBDA n : FMul(alpha[order[n][1]], IF k < p.B THEN p_trace[order[n][1]][order[n][2] * p.B + k] % P
                                             ELSE pi[order[n][1]][order[n][2]][k - p.B]), DOMAIN order)]
Aggregate(order, p_trace, pi, alpha, p) ==
  [k \in 0 .. K_w(p) - 1 |->
     FSum(LAMBDA n : FMul(alpha[n - 1], IF k < p.B THEN p_trace[order[n][1]][order[n][2] * p.B + k] % P
                                        ELSE pi[order[n][1]][order[n][2]][k - p.B]), DOMAIN order)]
_rs_domain(p) == ntt_forward([k \in 0 .. p.N_w - 1 |-> IF k = 1 THEN 1 ELSE 0])
_path(levels, x) == [k \in 1 .. Len(levels) - 1 |-> [merkle_path(levels, x)[k] EXCEPT !.side = 1 - @]]

\* What is changed between the prover and the verifier.
Altered(f, alter) ==
  LET w == Widths(f.p_trace)[1]
      e == f.eta[1]
      Plus(x) == (x + 1) % P
  IN  CASE alter = "p_trace" -> [f EXCEPT !.p_trace[w][0] = Plus(@)]
        [] alter = "pi" -> [f EXCEPT !.pi[w][0][0] = Plus(@)]
        [] alter = "c" -> [f EXCEPT !.c[0] = Plus(@)]
        [] alter = "c unreduced" -> [f EXCEPT !.c[0] = @ + P]
        [] alter = "v" -> [f EXCEPT !.v[1] = Plus(@)]
        [] alter = "short v" -> [f EXCEPT !.v = Tail(@)]
        [] alter = "eta" -> [f EXCEPT !.eta[1] = (@ + 1) % f.params.N_w]
        [] alter = "column" -> [f EXCEPT !.opened[e][1] = Plus(@)]
        [] alter = "no column" -> [f EXCEPT !.opened = [x \in DOMAIN @ \ {e} |-> @[x]]]
        [] alter = "path" -> [f EXCEPT !.paths[e][1].sibling = <<"other">>]
        [] alter = "side" -> [f EXCEPT !.paths[e][1].side = 1 - @]
        [] alter = "fewer" -> [f EXCEPT !.params.q_w = @ - 1, !.v = Tail(@), !.eta = Tail(@)]
        [] alter = "split" -> [f EXCEPT !.params.B = @ - 1, !.params.lam = @ + 1]
        [] alter = "blocks" -> [f EXCEPT !.group_meta[w][1] = @ + 1]
        [] alter = "outputs" -> [f EXCEPT !.group_meta[w][2] = @ - 1]
        [] alter = "pi group" -> [f EXCEPT !.pi = @ @@ [x \in {0} |-> <<>>]]
        [] OTHER -> f

\* The late coin, the aggregate and its values; then the second pass over the
\* weights, whose columns must still hash to the enrolled leaves.
BridgeR3 ==
  /\ bpc = "r3"
  /\ \E coin \in BridgeCoins : \E eta \in {SubSeq(coin.eta, 1, Params.q_w)} :
     \E c \in {Aggregate(BlockOrder(enr.layout, Params), r2.p_trace, r2.pi, coin.alpha, Params)} :
     \E batches \in {_stream_codewords(Claims_, enr.layout, Params)} :
       /\ late' = [hashed |-> hosted_s_late(enr.root, Params, r2.p_trace, r2.pi), coin |-> coin]
       /\ IF \E n \in DOMAIN eta : _leaf_from_inner(ColumnDigest(At_(batches, eta[n]))) # enr.levels[1][eta[n] + 1]
          THEN bpc' = "failed" /\ UNCHANGED wcfile
          ELSE /\ bpc' = "verify"
               /\ wcfile' = Altered(
                    [root |-> enr.root, params |-> Params, rho |-> [w \in DOMAIN enr.layout |-> BridgeRho(w)],
                     group_meta |-> [w \in DOMAIN enr.layout |-> <<Blocks_(enr.layout, Params)[w], w>>],
                     p_trace |-> r2.p_trace, pi |-> r2.pi, c |-> c,
                     v |-> [l \in DOMAIN eta |-> poly_eval(c, _rs_domain(Params)[eta[l]])], eta |-> eta,
                     opened |-> [x \in ToSet(eta) |-> FlattenSeq(At_(batches, x))],
                     paths |-> [x \in ToSet(eta) |-> _path(enr.levels, x)]], bjob.alter)
  /\ UNCHANGED <<bjob, enr, r2, verdicts>>

---------------------------------------------------------------------------
(* The verifiers: the claim map is theirs, everything else the file's.      *)
Layout_ == claim_layout(cmap)
TrustedIdentity(claims, p) ==
  LET layout == claim_layout(bridged_claim_map(claims))
  IN  enrollment_identity(Root(Resident[claims, p]), "manifest", p, layout)

_geometry_ok(p) ==
  /\ IsPowerOfTwo(K_w(p)) /\ IsPowerOfTwo(p.N_w) /\ p.N_w > K_w(p)
  /\ 0 < p.q_w /\ p.q_w <= p.N_w /\ p.B > 0 /\ p.lam > 0
  /\ p.q_w * 1000 >= 416 * bjob.t_cols
_identity_ok(f, trusted) == enrollment_identity(f.root, "manifest", f.params, Layout_) = trusted
_group_meta_ok(f) ==
  /\ DOMAIN f.group_meta = DOMAIN Layout_
  /\ \A w \in DOMAIN Layout_ : f.group_meta[w] = <<Blocks_(Layout_, f.params)[w], w>>
Sized(v, n) == DOMAIN v = 0 .. n - 1
_shapes_ok(f) ==
  /\ Sized(f.c, K_w(f.params)) /\ \A k \in DOMAIN f.c : f.c[k] < P
  /\ Len(f.v) = f.params.q_w /\ Len(f.eta) = f.params.q_w
  /\ DOMAIN f.p_trace = DOMAIN f.group_meta /\ DOMAIN f.pi = DOMAIN f.group_meta
  /\ \A w \in DOMAIN f.group_meta :
       /\ Sized(f.p_trace[w], f.group_meta[w][1] * f.params.B)
       /\ Sized(f.pi[w], f.group_meta[w][1]) /\ \A a \in DOMAIN f.pi[w] : Sized(f.pi[w][a], f.params.lam)

\* The order of every level comes from the index; the side bit is the opposite of
\* the main tree's.
_verify_path(leaf, path, root, index, n_leaves) ==
  merkle_verify(leaf, [k \in DOMAIN path |-> [path[k] EXCEPT !.side = 1 - @]], root, index, n_leaves)

_verify_core(f, coin) ==
  LET p == f.params
      order == BlockOrder(Layout_, p)
      first == [n \in DOMAIN order |-> SumSeq([m \in 1 .. n - 1 |-> order[m][1]])]
      equation(col) ==
        FSum(LAMBDA n : FMul(coin.alpha[n - 1],
               FSum(LAMBDA j : FMul(BridgeRho(order[n][1])[j], col[first[n] + j + 1]), 0 .. order[n][1] - 1)),
             DOMAIN order)
  IN  /\ f.eta = SubSeq(coin.eta, 1, p.q_w)
      /\ f.c = Aggregate(order, f.p_trace, f.pi, coin.alpha, p)
      /\ \A l \in DOMAIN f.eta :
           /\ f.eta[l] \in DOMAIN f.opened /\ f.eta[l] \in DOMAIN f.paths
           /\ Len(f.opened[f.eta[l]]) = SumSeq([n \in DOMAIN order |-> order[n][1]])
           /\ _verify_path(_leaf_from_inner(merkle_leaf(f.opened[f.eta[l]])), f.paths[f.eta[l]], f.root,
                           f.eta[l], p.N_w)
           /\ f.v[l] = poly_eval(f.c, pow(pow(GLOBAL_G, (P - 1) \div p.N_w), f.eta[l]))
           /\ f.v[l] = equation(f.opened[f.eta[l]])

\* Equal hashes are equal coins; `other` is the coin of any other hash.
Coin(f, other) ==
  IF hosted_s_late(f.root, f.params, f.p_trace, [w \in DOMAIN f.group_meta |-> f.pi[w]]) = late.hashed
  THEN late.coin ELSE other

verify_bridge_hosted(f, trusted, other) ==
  /\ _geometry_ok(f.params) /\ _group_meta_ok(f) /\ _shapes_ok(f)
  /\ _identity_ok(f, trusted)
  /\ \A w \in DOMAIN f.group_meta : f.rho[w] = BridgeRho(w)
  /\ _verify_core(f, Coin(f, other))

\* The twin reads the blocks of a group, never its width, and looks up the groups
\* of pi it needs.
wc_verify(f, trusted, other) ==
  /\ _geometry_ok(f.params) /\ _identity_ok(f, trusted)
  /\ Sized(f.c, K_w(f.params)) /\ Len(f.v) = f.params.q_w
  /\ DOMAIN f.group_meta = DOMAIN Layout_ /\ DOMAIN f.group_meta \subseteq DOMAIN f.pi
  /\ DOMAIN f.p_trace = DOMAIN f.group_meta
  /\ \A w \in DOMAIN Layout_ :
       /\ f.group_meta[w][1] = Blocks_(Layout_, f.params)[w]
       /\ Sized(f.p_trace[w], f.group_meta[w][1] * f.params.B) /\ Sized(f.pi[w], f.group_meta[w][1])
  /\ _verify_core(f, Coin(f, other))
\* What it hands to the compile: each claim's own rows.
Pins(f) == [n \in DOMAIN cmap |-> [k \in 0 .. cmap[n].ek - 1 |-> f.p_trace[cmap[n].width][cmap[n].off + k]]]

BridgeVerify ==
  /\ bpc = "verify"
  /\ \E other \in BridgeCoins \ {late.coin} : \E trusted \in {TrustedIdentity(bjob.audited, bjob.certified)} :
     \E rust \in {wc_verify(wcfile, trusted, other)} :
       verdicts' = [python |-> verify_bridge_hosted(wcfile, trusted, other), rust |-> rust,
                    pins |-> IF rust THEN Pins(wcfile) ELSE <<>>]
  /\ bpc' = "verdict"
  /\ UNCHANGED <<bjob, enr, r2, late, wcfile>>

BridgeNext == Enroll \/ BridgeR2 \/ BridgeR3 \/ BridgeVerify

---------------------------------------------------------------------------
(* Properties.                                                              *)

\* Whatever streams the weights, the root is the one of the resident build; a
\* proof leaves only when the weights it reads are the enrolled ones; and it is
\* accepted exactly when they are the audited ones under the audited geometry,
\* with enough points and nothing changed on the way.  Then each claim is pinned
\* to the projection of its own weights.  What the two verifiers treat
\* differently (a group's declared width, a group of pi nobody asks for) does not
\* change that (wc_bridge.py 325-470, 624-1010, verify_proof.rs 254-447).
Harmless == {"none", "unreduced", "outputs", "pi group"}
Genuine ==
  /\ bjob.audited = bjob.enrolled /\ bjob.enrolled = bjob.claims
  /\ \A g \in {"B", "lam", "N_w"} : bjob.certified[g] = bjob.params[g]
  /\ bjob.params.q_w * 1000 >= 416 * bjob.t_cols
Projection(c) ==
  [k \in 0 .. Len(c.W) * c.K - 1 |->
     FSum(LAMBDA j : FMul(c.W[k \div c.K + 1][(k % c.K) * c.J + j], BridgeRho(c.J)[j]), 0 .. c.J - 1)]
BridgeDecides ==
  /\ bpc = "r2" => enr.levels = Resident[bjob.enrolled, Params]
  /\ bpc = "failed" <=> bpc # "idle" /\ enr # <<>> /\ bjob.enrolled # bjob.claims /\ bpc \notin {"r2", "r3"}
  /\ bpc = "verdict" =>
       /\ verdicts.rust <=> Genuine /\ bjob.alter \in Harmless
       /\ verdicts.python <=> Genuine /\ bjob.alter \in {"none", "unreduced"}
       /\ verdicts.rust => \A n \in DOMAIN cmap :
            [k \in DOMAIN verdicts.pins[n] |-> verdicts.pins[n][k] % P] = Projection(Claims_[cmap[n].ci])
===============================================================================
