----------------------------- MODULE ClaimVars -----------------------------
(***************************************************************************)
(* What the prover and the verifier both know of a claim: its variables     *)
(* (named after the claim, with a length and the block of rows they are     *)
(* committed in), its tables and its challenge vectors.                     *)
(***************************************************************************)
EXTENDS Field

CONSTANTS
  OpVec(_, _, _),       \* the challenge vector of a claim: id, name, length
  CHUNK,                \* bits of a range word (16)
  RMS_LIMB_W,           \* bits of a limb of the RMS row energy (18)
  RopeCos(_), RopeSin(_)  \* the rotation tables of a RoPE claim

RMS_N_LIMBS == 3

Var(id, role, j, len, blk) == [name |-> <<id, role, j>>, len |-> len, blk |-> blk]
Own(c, role, len)    == Var(c.id, role, 0, len, "p1")
Aux(c, role, len)    == Var(c.id, role, 0, len, "p2")
Own3(c, role, len)   == Var(c.id, role, 0, len, "p3")
Words(c, role, n, len)    == [j \in 1 .. n |-> Var(c.id, role, j, len, "p1")]
AuxWords(c, role, n, len) == [j \in 1 .. n |-> Var(c.id, role, j, len, "p2")]

\* A table: its columns from 0, T_Y empty when it is a range table.
Table(name, T, T_Y, alpha, beta) ==
  [name |-> name, T |-> T, T_Y |-> T_Y, alpha |-> alpha, beta |-> beta]
NoTable == Table("", <<>>, <<>>, 0, 0)
Paired(t) == t.T_Y # <<>>
TLen(t) == Cardinality(DOMAIN t.T)
MultVar(t) == Var(t.name, "mult", 0, TLen(t), "p1")
WVar(t)    == Var(t.name, "w", 0, TLen(t), "p2")
Fingerprint(t, j) == IF Paired(t) THEN t.T[j] + t.beta * t.T_Y[j] ELSE t.T[j]
\* The four variables of a rescale of `role`.
Low(c, role, L)      == Var(c.id, role, 1, L, "p1")
Shifted(c, role, L)  == Var(c.id, role, 2, L, "p1")
ZLow(c, role, L)     == Var(c.id, role, 3, L, "p2")
ZShifted(c, role, L) == Var(c.id, role, 4, L, "p2")
===========================================================================
