---------------------------------- MODULE Tape ----------------------------------
(***************************************************************************)
(* A recorded tape (prover/tape.py, lazy mode) and what FoldRunner works   *)
(* out from it before a sweep: the claims in order, what each one reads,   *)
(* and which values a fold claim absorbs as they land.  Both the streaming *)
(* prover and the sampled audit walk such a tape.                          *)
(***************************************************************************)
EXTENDS Integers, Sequences, FiniteSets, FiniteSetsExt, Functions, TLC

\* Variables: the tape's input, and per claim its output.
X == <<"x", 0>>
Y(i) == <<"y", i>>

\* A recorded claim: a compute function over its inputs; a routed matmul, which
\* streams its expert shards and has a late stage; or a fold, which absorbs its
\* foldable inputs (all but the mask) as they land.
Claim(n) == [kind : {"plain", "routed", "fold"},
             ivars : SUBSET ({X} \cup {Y(j) : j \in 1..n}),
             mask : {X} \cup {Y(j) : j \in 1..n},
             looks : BOOLEAN,           (* its side effect counts lookups of Y *)
             operands : SUBSET ({X} \cup {Y(j) : j \in 1..n})]
                                        (* of its quads, besides its own rows *)

Foldable(t, f) == IF t[f].kind = "fold" THEN t[f].ivars \ {t[f].mask} ELSE {}
Absorbers(t, v) == {f \in DOMAIN t : v \in Foldable(t, f)}
Consumers(t, v) == {j \in DOMAIN t : v \in t[j].ivars}
OnlyConsumer(t, v, f) == Absorbers(t, v) = {f} /\ Consumers(t, v) = {f}

\* What the tape recorder produces: claims read what earlier claims wrote, and a
\* fold's mask (the routing) lands before any stream that this fold alone absorbs;
\* a stream that several folds share lands before the masks of the later ones.
IsTape(t) ==
  /\ t \in Seq(Claim(Len(t)))
  /\ \A i \in DOMAIN t :
    /\ t[i].ivars # {}
    /\ \A j \in DOMAIN t : Y(j) \in t[i].ivars \cup t[i].operands => j < i
    /\ t[i].kind = "fold" =>
         /\ t[i].mask \in t[i].ivars
         /\ \A j, k \in DOMAIN t :
              Absorbers(t, Y(j)) = {i} /\ Y(k) = t[i].mask => k < j
         /\ X \notin Foldable(t, i)
    /\ \A v \in t[i].operands, f \in DOMAIN t : ~OnlyConsumer(t, v, f)

\* d :> e and f @@ g, in a form provers can expand
Single(d, e) == [x \in {d} |-> e]
Over(f, g) == [x \in DOMAIN f \cup DOMAIN g |-> IF x \in DOMAIN f THEN f[x] ELSE g[x]]

\* The persistent weights a claim applies, and what it computes: the weights
\* applied once to each of its inputs.
Weights(i) == 7 * i
SumOf(f, S) == MapThenSumSet(LAMBDA v : f[v], S)

\* What each of n claims contributes, joined claim by claim: the sequences up to
\* every claim
Joined(each, n) ==
  LET upTo[i \in 0..n] == IF i = 0 THEN << >> ELSE upTo[i-1] \o each[i] IN upTo
================================================================================
