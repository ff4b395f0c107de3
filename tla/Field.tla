------------------------------- MODULE Field -------------------------------
(***************************************************************************)
(* The arithmetic of both sides (prover/cuda_primitives.py gl_*, verifier  *)
(* field.rs): the integers modulo a prime.  P is 2^64 - 2^32 + 1 in the    *)
(* code; the claims and the index maps are written for any prime.          *)
(***************************************************************************)
EXTENDS Integers, Sequences, FiniteSets
LOCAL INSTANCE FiniteSetsExt
LOCAL INSTANCE TLC

CONSTANT P
ASSUME PIsAPrime == P \in Nat \ {0, 1} /\ \A d \in 2 .. P - 1 : P % d # 0

Neg(a) == (P - (a % P)) % P
FMul(a, b) == (a * b) % P
\* The inverse of a (a Fermat power in the code, so the inverse of 0 is 0).
Inverted == [a \in 0 .. P - 1 |-> IF a = 0 THEN 0 ELSE CHOOSE b \in 1 .. P - 1 : FMul(a, b) = 1]
FInv(a) == Inverted[a % P]

\* The sum of f over the set S, modulo P.
FSum(f(_), S) == FoldSet(LAMBDA e, acc : (acc + f(e)) % P, 0, S)

\* Vectors are functions from 0 .. n-1.
Tabulated(f) == f @@ [e \in {} |-> 0]      \* computed once
NegVec(u) == [k \in DOMAIN u |-> Neg(u[k])]
ConstVec(c, n) == [k \in 0 .. n - 1 |-> c]
CeilDiv(a, b) == (a + b - 1) \div b
\* s without the repetitions.
Distinct(s) ==
  LET first == SelectSeq([n \in DOMAIN s |-> n], LAMBDA n : \A m \in 1 .. n - 1 : s[m] # s[n])
  IN  [n \in DOMAIN first |-> s[first[n]]]
===========================================================================
