------------------------------ MODULE Sumcheck ------------------------------
(***************************************************************************)
(* The sum of products that a local proof argues about (layergkr/            *)
(* sumcheck.py): a prover and a verifier over vectors of 2^n values, the     *)
(* first variable the most significant, with or without a mask.            *)
(*                                                                         *)
(* A term is <<coefficient, <<vector, ...>>>>.  A round's polynomial is sent  *)
(* as samples <<x, y>>; a transcript is what the coins are bound to: its     *)
(* context and the polynomials so far.                                     *)
(***************************************************************************)
EXTENDS Field
LOCAL INSTANCE SequencesExt
LOCAL INSTANCE FiniteSetsExt

\* RoundTranscript: the coin drawn after these polynomials in this context.
CONSTANT RoundCoin(_, _)

FSub(a, b) == (a + P - (b % P)) % P
Size(v) == Cardinality(DOMAIN v)
_fold(v, r) ==
  LET half == Size(v) \div 2
  IN  [i \in 0 .. half - 1 |-> (v[i] + r * FSub(v[half + i], v[i])) % P]
mle_eval(v, point) == FoldLeft(_fold, v, point)[0]

LOCAL FProd(f(_), S) == FoldSet(LAMBDA e, acc : (acc * f(e)) % P, 1, S)
_lagrange_interpolate(points, x) ==
  FSum(LAMBDA i :
         points[i][2] * FProd(LAMBDA k : FMul(FSub(x, points[k][1]), FInv(FSub(points[i][1], points[k][1]))),
                              DOMAIN points \ {i}),
       DOMAIN points)

---------------------------------------------------------------------------
(* The mask: a fresh polynomial h of each round, with h(0) + h(1) = mu.      *)
INV2 == FInv(2)
mask_poly_coeffs(mu, u) == <<FMul(FSub(mu, FSum(LAMBDA k : u[k], DOMAIN u)), INV2)>> \o u
poly_eval_coeffs(coeffs, x) == FoldRight(LAMBDA c, acc : (acc * x + c) % P, coeffs, 0)
\* The one tape that gives h, or none.
NoTape == <<>>
solve_tape_for_target(mu, h) ==
  IF h # <<>> /\ (poly_eval_coeffs(h, 0) + poly_eval_coeffs(h, 1)) % P = mu % P
  THEN [k \in 1 .. Len(h) - 1 |-> h[k + 1]] ELSE NoTape
---------------------------------------------------------------------------
(* A mutant: every coin is known before the first polynomial.               *)
CoinOfRound(ctx, polys) == RoundCoin(ctx, [r \in DOMAIN polys |-> <<>>])
draw_coin(ctx, polys) == RoundCoin(ctx, polys) % P

Degree(terms) == CHOOSE d \in {Len(terms[t][2]) : t \in DOMAIN terms} : \A t \in DOMAIN terms : Len(terms[t][2]) <= d
LOCAL Log2(n) == CHOOSE k \in 0 .. n : 2 ^ k = n
\* A size that is no power of two raises.
_expected_rounds(size) == Log2(size)

\* The sum over the slots S of the terms, each value by Of(factor, slot).
LOCAL SumOver(terms, S, Of(_, _)) ==
  FSum(LAMBDA t : terms[t][1] * FSum(LAMBDA i : FProd(LAMBDA f : Of(terms[t][2][f], i), DOMAIN terms[t][2]), S),
       DOMAIN terms)
\* g(x), with the rest of the variables summed out.
LOCAL Between(v, half, i, x) == (v[i] + x * FSub(v[half + i], v[i])) % P
RoundSample(terms, half, x) == SumOver(terms, 0 .. half - 1, LAMBDA v, i : Between(v, half, i, x))
LOCAL Start(terms, mu0) == [cur |-> terms, mu |-> mu0, round_polys |-> <<>>, challenges |-> <<>>]

\* One round: sample, mask, draw, fold.  u is the round's share of the tape.
LOCAL Masked(samples, h) == [n \in DOMAIN samples |-> <<samples[n][1], (samples[n][2] + poly_eval_coeffs(h, samples[n][1])) % P>>]
LOCAL Drawn(s, polys, h, r) ==
  [cur |-> [t \in DOMAIN s.cur |-> <<s.cur[t][1], [f \in DOMAIN s.cur[t][2] |-> _fold(s.cur[t][2][f], r)]>>],
   mu |-> IF h = <<>> THEN s.mu ELSE poly_eval_coeffs(h, r),
   round_polys |-> polys, challenges |-> Append(s.challenges, r)]
LOCAL Sent(s, polys, h, ctx) == Drawn(s, polys, h, draw_coin(ctx, polys))
LOCAL Sampled(s, deg) ==
  [x \in 1 .. deg + 1 |-> <<x - 1, RoundSample(s.cur, Size(s.cur[1][2][1]) \div 2, x - 1)>>]
ProveRound(s, ctx, h, deg) ==
  Sent(s, Append(s.round_polys, IF h = <<>> THEN Sampled(s, deg) ELSE Masked(Sampled(s, deg), h)), h, ctx)

Claimed(terms) == SumOver(terms, DOMAIN terms[1][2][1], LAMBDA v, i : v[i])
LOCAL Transcribed(claim, s, masked) ==
  [claim |-> claim, round_polys |-> s.round_polys, challenges |-> s.challenges, final_point |-> s.challenges,
   masked |-> masked, final_mask |-> s.mu]
\* A mask's tape: what a round with the running mask mu takes of it, <<>> without
\* a mask.
RoundNumbers == 1 .. 32
TapeOf(f(_, _)) == [mu \in 0 .. P - 1, n \in RoundNumbers |-> f(mu, n)]
Untaped == TapeOf(LAMBDA mu, n : NoTape)
prove_terms(terms, ctx, mu0, tape) ==
  LET deg == Degree(terms)
      Round(s, n) ==
        LET u == tape[s.mu, n] IN ProveRound(s, ctx, IF u = NoTape THEN <<>> ELSE mask_poly_coeffs(s.mu, u), deg)
      rounds == _expected_rounds(Size(terms[1][2][1]))
      last == FoldLeft(Round, Start(terms, mu0), [n \in 1 .. rounds |-> n])
  IN  Transcribed((Claimed(terms) + mu0) % P, last, tape[mu0, 1] # NoTape)

---------------------------------------------------------------------------
_rounds_ok(proof, n) ==
  Len(proof.round_polys) = n /\ Len(proof.challenges) = n /\ Len(proof.final_point) = n
LOCAL ClaimAfter(proof, rnd) ==
  IF rnd = 0 THEN proof.claim % P ELSE _lagrange_interpolate(proof.round_polys[rnd], proof.challenges[rnd])
LOCAL RoundOk(proof, rnd, deg, ctx) ==
  LET g == proof.round_polys[rnd]
  IN  /\ Len(g) = deg + 1
      /\ (_lagrange_interpolate(g, 0) + _lagrange_interpolate(g, 1)) % P = ClaimAfter(proof, rnd - 1)
      /\ proof.challenges[rnd] = draw_coin(ctx, SubSeq(proof.round_polys, 1, rnd))
Terminal(terms, point) ==
  FSum(LAMBDA t : terms[t][1] * FProd(LAMBDA f : mle_eval(terms[t][2][f], point), DOMAIN terms[t][2]), DOMAIN terms)
\* The round chain, the point and the terminal; a masked proof's terminal carries
\* its last mask.
TerminalOk(proof, terms) ==
  /\ proof.final_point = proof.challenges
  /\ ClaimAfter(proof, Len(proof.challenges))
       = (Terminal(terms, proof.final_point) + (IF proof.masked THEN proof.final_mask ELSE 0)) % P
verify_terms(proof, terms, ctx) ==
  /\ \A t \in DOMAIN terms : \A f \in DOMAIN terms[t][2] : Size(terms[t][2][f]) = Size(terms[1][2][1])
  /\ _rounds_ok(proof, _expected_rounds(Size(terms[1][2][1])))
  /\ \A rnd \in DOMAIN proof.round_polys : RoundOk(proof, rnd, Degree(terms), ctx)
  /\ TerminalOk(proof, terms)
=============================================================================
