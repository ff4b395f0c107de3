------------------------------- MODULE Argument -------------------------------
(***************************************************************************)
(* The argument over the rows of LinearFold, once both sides hold their     *)
(* constraints: the prover encodes the rows and commits to them block by    *)
(* block, answers the three tests, opens columns; the verifier runs its six *)
(* checks (core.py prove_streaming, verify.rs verify_bound_pinned).         *)
(*                                                                         *)
(* Challenges, pads and blinding values are fixed functions of the hash     *)
(* they come from; whether a coin comes after what it must bind is the      *)
(* subject of Transcript.                                                   *)
(***************************************************************************)
EXTENDS LinearFold, Ligero, Merkle

CONSTANTS
  Challenge(_, _),     \* label, index: a coin's expansion
  row_prg(_, _),       \* row, k: the pad of a row
  Blinding(_, _),      \* label, k: the random values of the blinding rows
  Witnesses(_),        \* tape -> the values its variables may hold: name -> vector
  Queries,             \* the sets of columns a coin may open
  P0_CHUNK             \* quadratic constraints per chunk of p_0 (256)
\* A coin opens columns of the code.
ASSUME QueriesAssumption == \A Q \in Queries : Q \subseteq 0 .. N_LIG - 1

VARIABLES
  step,                \* "commit", "respond", "open", "check", "verdict"
  witness,
  codes,               \* absolute row -> codeword
  arts,                \* block -> levels of its tree, <<>> when it has no rows
  proof,               \* the polynomials, then the openings
  checks               \* name of a check -> its result

argument == <<step, witness, codes, arts, proof, checks>>
allvars == <<vars, argument>>

BLIND_IRS == 0
BLIND_LIN == 1
BLIND_QUAD == 2
K2 == 2 * K_DEG
PointsOfK(n) == {2 * c : c \in 0 .. n - 1}      \* the zetas among the points of 2K

---------------------------------------------------------------------------
(* Rows.                                                                    *)
m_total == NUM_BLINDING_ROWS + RowCount(AllVars)
WitnessRows == NUM_BLINDING_ROWS .. m_total - 1
\* A block's rows, in the layout.
BlockNames == <<"blind">> \o Blocks
BlockRows(b) ==
  IF b = "blind" THEN 0 .. NUM_BLINDING_ROWS - 1
  ELSE UNION {row_start[v.name] .. row_start[v.name] + n_rows(v) - 1 : v \in {v \in AllVars : v.blk = b}}
\* The rows of an interval, ascending.
Ordered(S) == LET lo == Min(S) IN [k \in 1 .. Cardinality(S) |-> lo + k - 1]

\* Row k of a variable: its values, zeros past its end.
Message(w, name, k) ==
  LET u == w[name]
  IN  [c \in 0 .. ELL - 1 |-> IF k * ELL + c \in DOMAIN u THEN u[k * ELL + c] ELSE 0]
\* Coefficients of a row: its message, then the pads of row `abs`.
encode_messages(message, abs) ==
  ntt_inverse([c \in 0 .. K_DEG - 1 |-> IF c < ELL THEN message[c] ELSE row_prg(abs, c - ELL)])

\* The pieces of a sweep, in the order in which they arrive.
Sweep == FlattenSeq([n \in DOMAIN groups |-> Stream(groups[n])])
StreamedPolys(w) ==
  LET of(p) == [r \in p.abs .. p.abs + Len(p.rows) - 1 |->
                  encode_messages(Message(w, p.rows[r - p.abs + 1][1], p.rows[r - p.abs + 1][2]), r)]
  IN  FoldLeft(LAMBDA m, p : of(p) @@ m, <<>>, Sweep)

\* _RowMap: the variable that covers a row, by bisection over the first rows.
_RowMap(r) ==
  LET Covering(order) == order[bisect_right([n \in DOMAIN order |-> row_start[order[n].name]], r)].name
      Within(name) == <<name, r - row_start[name]>>
  IN  Within(Covering(SortSeq(FlattenSeq(groups), LAMBDA u, v : row_start[u.name] < row_start[v.name])))
\* The rows p_0 needs, fetched one by one.
MessageAt(w, at) == Message(w, at[1], at[2])
_encode_rows_indexed(r) == encode_messages(MessageAt(witness, _RowMap(r)), r)

(* Blinding rows.                                                           *)
\* A mutant: the points of the linear row are not made to cancel.
u_lin_msgFree == [k \in 0 .. K2 - 1 |-> Blinding("lin", k)]
u_lin_msg ==
  LET last == 2 * (ELL - 1)
      head_sum == FSum(LAMBDA k : Blinding("lin", k), PointsOfK(ELL) \ {last})
  IN  [k \in 0 .. K2 - 1 |-> IF k = last THEN Neg(head_sum) ELSE Blinding("lin", k)]
u_quad_msg == [k \in 0 .. K2 - 1 |-> IF k \in PointsOfK(ELL) THEN 0 ELSE Blinding("quad", k)]
u_irs_poly == encode_messages([c \in 0 .. ELL - 1 |-> Blinding("irs", c)], BLIND_IRS)
u_lin_poly == ntt_inverse(u_lin_msg)
u_quad_poly == ntt_inverse(u_quad_msg)

---------------------------------------------------------------------------
(* The three tests' polynomials.                                            *)
QIrs(polys) ==
  FoldLeft(LAMBDA q, r : VecAdd(q, Scaled(Challenge("irs", r - NUM_BLINDING_ROWS), polys[r])),
           Zeros(K_DEG), Ordered(WitnessRows))

\* r^T A of a row, from its matrix.
RowChallenges(m) ==
  [c \in 0 .. ELL - 1 |-> FSum(LAMBDA t : FMul(m[t], Challenge("lin", t[2])), {t \in DOMAIN m : t[1] = c})]
QLin(polys) ==
  LET term(r) == VecMul(ToEval(_interpolate_to_kdeg(RowChallenges(fold[r]))), ToEval(polys[r]))
  IN  ntt_inverse(FoldLeft(LAMBDA q, r : VecAdd(q, term(r)), Zeros(n_eval), Ordered(WitnessRows)))

\* One quadratic constraint per row of a family.
Slots(L, t) == IF ELL < L - t * ELL THEN ELL ELSE L - t * ELL
QuadRows(quads) ==
  FlattenSeq([n \in DOMAIN quads |->
    [t \in 1 .. nrows(quads[n].L) |->
       [x |-> row_start[quads[n].x.name] + t - 1, y |-> row_start[quads[n].y.name] + t - 1,
        z |-> row_start[quads[n].z.name] + t - 1, a |-> quads[n].a % P, b |-> quads[n].b % P,
        n |-> Slots(quads[n].L, t - 1)]]])

\* The coefficient on the first n slots, interpolated.
public_poly(n, coef) == _interpolate_to_kdeg([c \in 0 .. ELL - 1 |-> IF c < n THEN coef ELSE 0])
\* Chunk by chunk in the evaluation domain, one inverse transform, then the
\* public polynomials of b.
RowEvals(T) == [r \in UNION {{T[t].x, T[t].y, T[t].z} : t \in DOMAIN T} |-> ToEval(_encode_rows_indexed(r))]
PublicEvals(T) == [k \in {<<T[t].n, T[t].a>> : t \in DOMAIN T} |-> ToEval(public_poly(k[1], k[2]))]
P0Product(q, polys, public) ==
  IF q.a = 0 THEN VecMul(polys[q.x], polys[q.y])
  ELSE VecAdd(VecMul(polys[q.x], polys[q.y]), VecMul(public[<<q.n, q.a>>], polys[q.z]))
P0Chunk(T, k, polys, public) ==
  FoldLeft(LAMBDA acc, t : VecAdd(acc, Scaled(Challenge("quad", t - 1), P0Product(T[t], polys, public))),
           Zeros(n_eval),
           SelectSeq([t \in DOMAIN T |-> t], LAMBDA t : (t - 1) \div P0_CHUNK = k - 1))
P0Eval(T, polys, public) ==
  FoldLeft(LAMBDA acc, k : VecAdd(acc, P0Chunk(T, k, polys, public)), Zeros(n_eval),
           [k \in 1 .. CeilDiv(Len(T), P0_CHUNK) |-> k])
P0Public(T) ==
  FoldLeft(LAMBDA acc, t : VecAdd(acc, Scaled(Challenge("quad", t - 1), public_poly(T[t].n, T[t].b))),
           Zeros(K_DEG), SelectSeq([t \in DOMAIN T |-> t], LAMBDA t : T[t].b # 0))
LOCAL Without(p, public_acc) == [k \in DOMAIN p |-> IF k < K_DEG THEN gl_sub(p[k], public_acc[k]) ELSE p[k]]
LOCAL P0Of(T) == Without(ntt_inverse(P0Eval(T, RowEvals(T), PublicEvals(T))), P0Public(T))
compute_p_0_streaming == P0Of(QuadRows(quadsP))

\* The blinding rows enter with coefficient 1; products stop below 2K - 1.
_mix_blinding_into_tests(q_irs, q_lin, p_0) ==
  LET Cut(u) == [k \in 0 .. K2 - 1 |-> IF k < K2 - 1 THEN u[k] ELSE 0]
  IN  [q_irs |-> VecAdd(q_irs, u_irs_poly),
       q_lin |-> VecAdd(Cut(q_lin), u_lin_poly),
       p_0 |-> VecAdd(Cut(p_0), u_quad_poly)]

---------------------------------------------------------------------------
ArgumentInit ==
  /\ Init
  /\ step = "commit" /\ witness = <<>> /\ codes = <<>> /\ arts = <<>> /\ proof = <<>> /\ checks = <<>>

\* The rows of block b as they arrive: one piece per chunk of the block (a
\* chunk never spans two blocks).
Arrivals(b) ==
  IF b = "blind" THEN <<[n \in 1 .. NUM_BLINDING_ROWS |-> n - 1]>>
  ELSE LET mine == FlattenSeq([n \in DOMAIN groups |-> StreamOf(groups[n], b)])
       IN  [n \in DOMAIN mine |-> [k \in DOMAIN mine[n].rows |-> mine[n].abs + k - 1]]
AllPolys(polys) ==
  [r \in 0 .. m_total - 1 |-> CASE r = BLIND_IRS -> u_irs_poly [] r = BLIND_LIN -> u_lin_poly
                                [] r = BLIND_QUAD -> u_quad_poly [] OTHER -> polys[r]]
Codewords(polys) == [r \in DOMAIN polys |-> _coset_encode_codewords(polys[r])]
\* The tree of a block over its codewords.
Column(pieces, cw, j) == [n \in DOMAIN pieces |-> [k \in DOMAIN pieces[n] |-> cw[pieces[n][k]][j]]]
TreeOf(pieces, cw) == merkle_build_blake3([j \in 1 .. N_LIG |-> ColumnDigest(Column(pieces, cw, j - 1))])
Artifact(b, cw) == IF BlockRows(b) = {} THEN <<>> ELSE TreeOf(Arrivals(b), cw)

\* Rounds 1 to 3: encode, hash the columns of each block, build its tree.
Commit ==
  /\ pc = "done" /\ step = "commit"
  /\ UNCHANGED vars
  /\ \E w \in Witnesses(tape) : \E cw \in {Codewords(AllPolys(StreamedPolys(w)))} :
       /\ witness' = w
       /\ codes' = cw
       /\ arts' = [n \in DOMAIN BlockNames |-> Artifact(BlockNames[n], cw)]
  /\ step' = "respond"
  /\ UNCHANGED <<proof, checks>>

\* The fold: the three polynomials, blinded.
Respond ==
  /\ step = "respond"
  /\ \E polys \in {StreamedPolys(witness)} : \E p_0 \in {compute_p_0_streaming} :
       \E q_lin \in {QLin(polys)} : proof' = _mix_blinding_into_tests(QIrs(polys), q_lin, p_0)
  /\ step' = "open"
  /\ UNCHANGED <<vars, witness, codes, arts, checks>>

\* ColumnSink: every piece is written at its absolute row.
Opened(b, j) ==
  LET At(rows) == [k \in DOMAIN rows |-> codes[rows[k]][j]]
  IN  IF BlockRows(b) = {} THEN <<>> ELSE At(Ordered(BlockRows(b)))
Open ==
  /\ step = "open"
  /\ \E Q \in Queries :
       proof' =
         [q_irs |-> proof.q_irs, q_lin |-> proof.q_lin, p_0 |-> proof.p_0,
          Q |-> Q,
          opened |-> [n \in DOMAIN BlockNames |-> [j \in Q |-> Opened(BlockNames[n], j)]],
          paths |-> [n \in DOMAIN BlockNames |-> IF arts[n] = <<>> THEN <<>>
                                                 ELSE [j \in Q |-> merkle_path(arts[n], j)]]]
  /\ step' = "check"
  /\ UNCHANGED <<vars, witness, codes, arts, checks>>

---------------------------------------------------------------------------
(* The verifier's checks.                                                   *)
cj == [j \in proof.Q |-> FlattenSeq([n \in DOMAIN BlockNames |-> proof.opened[n][j]])]
Cell0(col, r) == col[r + 1]

merkle_test ==
  \A n \in DOMAIN BlockNames : \A j \in proof.Q :
    IF arts[n] = <<>> THEN proof.opened[n][j] = <<>>
    ELSE merkle_verify(merkle_leaf(proof.opened[n][j]), proof.paths[n][j], Root(arts[n]), j, N_LIG)

irs_column_test(col, j) ==
  LET partial == FSum(LAMBDA k : FMul(Challenge("irs", k), Cell0(col, NUM_BLINDING_ROWS + k)),
                      0 .. Len(col) - NUM_BLINDING_ROWS - 1)
  IN  (partial + Cell0(col, BLIND_IRS)) % P = poly_eval(proof.q_irs, Eta[j])

linear_constraint_test ==
  FSum(LAMBDA c : poly_eval(proof.q_lin, Zeta[c]), 0 .. ELL - 1)
    = FSum(LAMBDA t : FMul(Challenge("lin", t[1]), t[2]), rhsV)

linear_column_test(col, j) ==
  LET row(m) == FSum(LAMBDA t : FMul(FMul(m[t], Challenge("lin", t[2])), Lagrange[j, t[1]]), DOMAIN m)
      acc == FSum(LAMBDA r : FMul(row(test[r]), Cell0(col, r)), DOMAIN test)
  IN  (acc + Cell0(col, BLIND_LIN)) % P = poly_eval(proof.q_lin, Eta[j])

quadratic_constraint_test == \A c \in 0 .. ELL - 1 : poly_eval(proof.p_0, Zeta[c]) = 0

quadratic_column_test(col, j) ==
  LET T == QuadRows(quadsV)
      prefix == [n \in 0 .. ELL |-> FSum(LAMBDA c : Lagrange[j, c], 0 .. n - 1)]
      term(q) == FMul(Cell0(col, q.x), Cell0(col, q.y)) + FMul(FMul(q.a, prefix[q.n]), Cell0(col, q.z))
                 - FMul(q.b, prefix[q.n])
      partial == FSum(LAMBDA t : FMul(Challenge("quad", t - 1), term(T[t]) % P), DOMAIN T)
  IN  (partial + Cell0(col, BLIND_QUAD)) % P = poly_eval(proof.p_0, Eta[j])

Check ==
  /\ step = "check"
  /\ checks' = [merkle |-> merkle_test,
                irs_col |-> \A j \in proof.Q : irs_column_test(cj[j], j),
                lin_sum |-> linear_constraint_test,
                lin_col |-> \A j \in proof.Q : linear_column_test(cj[j], j),
                quad_zero |-> quadratic_constraint_test,
                quad_col |-> \A j \in proof.Q : quadratic_column_test(cj[j], j)]
  /\ step' = "verdict"
  /\ UNCHANGED <<vars, witness, codes, arts, proof>>

ArgumentNext == (Next /\ UNCHANGED argument) \/ Commit \/ Respond \/ Open \/ Check
ArgumentSpec == ArgumentInit /\ [][ArgumentNext]_allvars

---------------------------------------------------------------------------
(* Properties.                                                              *)

\* Every way to a codeword gives the one the verifier assumes.  A row's
\* polynomial takes its message at the first ELL points; the single transform,
\* the interleaved short transforms and Horner agree at every eta; and the row
\* p_0 fetches by bisection is the row the stream committed, pads included
\* (core.py 672-804 and 2322-2384, ntt.cuh, goldilocks.cuh, protocol.rs).
EncodingsAgree ==
  step = "respond" =>
    \A polys \in {StreamedPolys(witness)} : \A r \in WitnessRows :
          /\ _encode_rows_indexed(r) = polys[r]
          /\ \A c \in 0 .. ELL - 1 : poly_eval(polys[r], Zeta[c]) = MessageAt(witness, _RowMap(r))[c]
          /\ _coset_encode_via_coset_ntt(polys[r]) = codes[r]
          /\ \A j \in 0 .. N_LIG - 1 : poly_eval(polys[r], Eta[j]) = codes[r][j]

\* A leaf is the hash of its column in layout order, whatever the pieces the
\* rows arrived in, and a path opens it at its own index only: the commitment
\* streams rows in the order of the claims, the opening writes them at their
\* absolute rows, and nothing compares the two before a verifier does.  The tree
\* keeps that for every number of leaves, odd levels included
\* (cuda_primitives.py 1335-1439, blake3_columns.cuh, protocol.rs).
OpensOnlyAt(leaf, path, root, n) == {k \in 0 .. 2 * n : merkle_verify(leaf, path, root, k, n)}
SmallTreesOpen ==
  \A n \in 1 .. 9 :
    LET levels == merkle_build_blake3([k \in 1 .. n |-> <<"leaf", k>>])
    IN  \A j \in 0 .. n - 1 : OpensOnlyAt(<<"leaf", j + 1>>, merkle_path(levels, j), Root(levels), n) = {j}
LeavesAreColumns ==
  step = "verdict" =>
    /\ \A n \in {n \in DOMAIN BlockNames : arts[n] # <<>>} : \A j \in proof.Q :
         OpensOnlyAt(merkle_leaf(proof.opened[n][j]), proof.paths[n][j], Root(arts[n]), N_LIG) = {j}
    /\ SmallTreesOpen

\* The verdict is the relation.  The checks against the commitment hold for every
\* honest run of the prover, true statement or not; the sum check holds exactly
\* when the challenged combination of the linear constraints holds of the
\* messages, and the zero check exactly when that of the quadratic constraints
\* does slot by slot: neither the pads, nor the blinding rows, nor the padding
\* of a partial row enters the verdict.
CombinedLinear ==
  LET lhs(p) == FSum(LAMBDA f : FMul(FSum(LAMBDA t : FMul(t[2], Challenge("lin", t[1])), BandTerms(p, f, ELL)),
                                     witness[p.v.name][f]),
                     0 .. p.v.len - 1)
      Sum(packets) == FSum(LAMBDA n : lhs(packets[n]), DOMAIN packets)
  IN  Sum(_compile_with_chs) = FSum(LAMBDA t : FMul(Challenge("lin", t[1]), t[2]), rhsP)
CombinedQuadratic ==
  LET at(r, c) == MessageAt(witness, _RowMap(r))[c]
      value(q, c) == IF c >= q.n THEN 0 ELSE at(q.x, c) * at(q.y, c) + FMul(q.a, at(q.z, c)) - q.b
  IN  \A T \in {QuadRows(quadsP)} : \A c \in 0 .. ELL - 1 :
        FSum(LAMBDA t : FMul(Challenge("quad", t - 1), value(T[t], c) % P), DOMAIN T) = 0
TestsDecide ==
  step = "verdict" =>
    /\ checks.merkle /\ checks.irs_col /\ checks.lin_col /\ checks.quad_col
    /\ checks.lin_sum <=> CombinedLinear
    /\ checks.quad_zero <=> CombinedQuadratic
===============================================================================
