---------------------------- MODULE StreamingProver ----------------------------
(***************************************************************************)
(* The streaming prover (prover/core.py: _prove_streaming_body and         *)
(* _stream_sweep, with compute_fns.FoldRunner and the projection cache of  *)
(* routed_projected.py).                                                   *)
(*                                                                         *)
(* A proof never holds its witness.  It regenerates it once per round of   *)
(* the protocol: sweep R1 commits the phase-1 rows, R2 the phase-2 rows    *)
(* (which need the coin s_op), R3 the phase-3 rows (which need s_bind, and *)
(* only if the tape has a late claim), "fold" feeds every row to the test  *)
(* polynomials, and "open" extracts the challenged columns.  Each sweep    *)
(* walks the tape once, and a value stays in `live` only as long as        *)
(* something later in the sweep reads it.  The proof is accepted only if   *)
(* all of the sweeps saw the same witness.                                 *)
(*                                                                         *)
(* Values are integers put together from what was read, so that a missing, *)
(* repeated or stale read shows in the result.                             *)
(***************************************************************************)
EXTENDS Tape

CONSTANTS
  Tapes,      (* the tapes to prove; see IsTape                            *)
  Budgets,    (* the sets of claim indices whose outputs may fit the caches *)
  MaxProofs   (* bound on the proofs a process makes of one tape           *)

VARIABLES
  tape,       (* tape._deferred, never changed                             *)
  proof,      (* which proof of the process this is                        *)
  sweep,      (* the sweep that runs, or "idle" before a proof, "done" after *)
  at,         (* index into groups                                         *)
  step,       (* where in the body of the loop over groups                 *)
  live,       (* the values in memory during a sweep                       *)
  inputs,     (* tape.inputs: what a sweep starts from                     *)
  mult,       (* the lookup table's multiplicities, summed                 *)
  folds,      (* FoldRunner.states                                         *)
  fits,       (* the indices of the claims whose outputs the caches admit  *)
  cache,      (* witness_cache and routed_cache: outputs by claim index    *)
  pcache,     (* routed_projected._P_CACHE: P by claim and rho             *)
  walks,      (* passes over the expert shards that computed P, per claim  *)
  rows        (* what each sweep has encoded, fired and handed on          *)

vars == <<tape, proof, sweep, at, step, live, inputs, mult, folds, fits,
          cache, pcache, walks, rows>>

Sweeps == <<"R1", "R2", "R3", "fold", "open">>
Running == sweep \notin {"idle", "done"}
--------------------------------------------------------------------------------
(***************************************************************************)
(* Tapes                                                                   *)
(***************************************************************************)
\* Variables besides X and Y: expert weights, projection and auxiliary rows
\* (phase 2) and late rows (phase 3) of a claim, and the multiplicities.
W(i) == <<"w", i>>
Pj(i) == <<"p", i>>
Aux(i) == <<"aux", i>>
Late(i) == <<"late", i>>
MultVar == <<"mult", 0>>

ASSUME TapesAssumption ==
  /\ \A t \in Tapes : IsTape(t)
  /\ Budgets \subseteq SUBSET Nat
  /\ MaxProofs \in Nat

n_ops == Len(tape)
Ops == 1..n_ops
Settled == \E i \in Ops : tape[i].looks
Groups == IF Settled THEN n_ops + 1 ELSE n_ops
HasP3 == \E i \in Ops : tape[i].kind = "routed"
Routed(i) == i \in Ops /\ tape[i].kind = "routed"

\* The coins are hashes of roots that hide under a fresh seed: new in every proof.
Rho(p) == 100 * p
Sigma(p) == 1000 * p
Project(i, rho) == Weights(i) * rho

--------------------------------------------------------------------------------
(***************************************************************************)
(* What the proof is about: the witness, and the rows of each round        *)
(***************************************************************************)
\* The tape's input and each claim's output: the claim applied once to each of its
\* inputs.  The index of X is 0.
Output[i \in 0..n_ops] ==
  IF i = 0 THEN 1
  ELSE Weights(i) + SumOf([v \in tape[i].ivars |-> Output[v[2]]], tape[i].ivars)

Value(v) == Output[v[2]]
ValueSum(S) == SumOf([v \in S |-> Value(v)], S)
MultCount == SumOf(Output, {i \in Ops : tape[i].looks})

AuxValue(i, p) ==
  IF i > n_ops THEN Rho(p) + MultCount
  ELSE Rho(p) + (Output[i] + ValueSum(tape[i].ivars))
       + (IF Routed(i) THEN Project(i, Rho(p)) ELSE 0)

\* The rows of claim i, block by block, in layout order (_layout, _claim_var_groups)
RowVars(i, s) ==
  LET phase1 == (IF i = 1 THEN <<X>> ELSE <<>>)
                \o (IF i <= n_ops THEN <<Y(i)>> ELSE <<MultVar>>)
                \o (IF Routed(i) THEN <<W(i)>> ELSE <<>>)
      phase2 == (IF Routed(i) THEN <<Pj(i)>> ELSE <<>>) \o <<Aux(i)>>
      phase3 == IF Routed(i) THEN <<Late(i)>> ELSE <<>>
  IN (IF s \in {"R1", "fold", "open"} THEN phase1 ELSE <<>>)
     \o (IF s \in {"R2", "fold", "open"} THEN phase2 ELSE <<>>)
     \o (IF s \in {"R3", "fold", "open"} THEN phase3 ELSE <<>>)

Quad(i) == <<"quad", i>>

\* The entries a sweep hands on for claim i, given the value of each row; the
\* fold sweep also fires the claim's quads into p_0.
Entries(i, s, val, ownquad) ==
  LET vs == RowVars(i, s)
  IN [k \in 1..Len(vs) |-> <<vs[k], val[vs[k]]>>]
     \o (IF s = "fold" /\ i <= n_ops THEN <<<<Quad(i), ownquad>>>> ELSE <<>>)

RowValue(v, p) ==
  CASE v[1] \in {"x", "y"} -> Value(v)
    [] v[1] = "w" -> Weights(v[2])
    [] v[1] = "p" -> Project(v[2], Rho(p))
    [] v[1] = "aux" -> AuxValue(v[2], p)
    [] v[1] = "late" -> Sigma(p) + Project(v[2], Rho(p))
    [] v[1] = "mult" -> MultCount

\* What sweep s of proof p has to hand on, in this order, up to each group
ExpectedOf(i, s, p) ==
  Entries(i, s, [v \in Range(RowVars(i, s)) |-> RowValue(v, p)],
          IF i <= n_ops THEN ValueSum(tape[i].operands) + AuxValue(i, p) ELSE 0)
RowsUpTo(s, p) == Joined([i \in 1..Groups |-> ExpectedOf(i, s, p)], Groups)
ExpectedRows(s, p) == RowsUpTo(s, p)[Groups]
--------------------------------------------------------------------------------
(***************************************************************************)
(* A proof, sweep by sweep                                                 *)
(***************************************************************************)
Init ==
  /\ tape \in Tapes
  /\ proof = 0
  /\ sweep = "idle"
  /\ at = 0
  /\ step = "begin"
  /\ live = << >>
  /\ inputs = Single(X, 1)
  /\ mult = 0
  /\ folds = << >>
  /\ fits = {}
  /\ cache = << >>
  /\ pcache = << >>
  /\ walks = [i \in Ops |-> 0]
  /\ rows = [s \in Range(Sweeps) |-> << >>]

\* prove_streaming: the start hook drops the projections of the last proof, and
\* the caches are new.
StartProof ==
  /\ ~Running
  /\ proof < MaxProofs
  /\ proof' = proof + 1
  /\ sweep' = "R1"
  /\ step' = "begin"
  /\ fits' \in Budgets
  /\ cache' = << >>
  /\ pcache' = << >>
  /\ walks' = [i \in Ops |-> 0]
  /\ rows' = [s \in Range(Sweeps) |-> << >>]
  /\ UNCHANGED <<tape, at, live, inputs, mult, folds>>

want_aux == sweep # "R1"
have_ch1 == sweep \in {"R3", "fold", "open"}

\* The body of the loop: compute, aux, emit, free.  A settlement computes nothing.
Enter(i) ==
  IF i <= Groups
    THEN /\ at' = i
         /\ step' = IF i <= n_ops THEN "compute" ELSE IF want_aux THEN "aux" ELSE "emit"
    ELSE step' = "end" /\ UNCHANGED at

\* Faulty variant of BeginSweep: the lookup counts of the last sweep stay.
BeginSweepCounting ==
  /\ Running /\ step = "begin"
  /\ live' = inputs
  /\ folds' = << >>
  /\ Enter(1)
  /\ UNCHANGED <<tape, proof, sweep, inputs, mult, fits, cache, pcache, walks, rows>>

\* Every sweep zeroes the multiplicity tables, whose tensors tape.inputs keeps.
BeginSweep ==
  /\ Running /\ step = "begin"
  /\ live' = inputs
  /\ mult' = 0
  /\ folds' = << >>
  /\ Enter(1)
  /\ UNCHANGED <<tape, proof, sweep, inputs, fits, cache, pcache, walks, rows>>

At(place) == Running /\ step = place

\* last_use: the last claim whose compute reads v, or in the fold sweep (the
\* only one with compiled quads) whose quads do.
LastUse(v) ==
  Max({0} \cup Consumers(tape, v)
      \cup IF sweep = "fold" THEN {j \in Ops : v \in tape[j].operands} ELSE {})

\* Faulty variant of Dead: only inputs are freed.
DeadInputs ==
  IF at > n_ops THEN {} ELSE {v \in tape[at].ivars : LastUse(v) = at}

\* Inputs whose last use this was, and outputs nothing reads later, except the
\* last claim's (the logits).
Dead ==
  IF at > n_ops THEN {}
  ELSE {v \in tape[at].ivars : LastUse(v) = at}
       \cup IF at # n_ops /\ LastUse(Y(at)) <= at THEN {Y(at)} ELSE {}

\* Faulty variant of Offered: a value several folds want is absorbed on landing.
OfferedToAll ==
  IF at <= n_ops /\ Y(at) \in DOMAIN live \ Dead THEN Absorbers(tape, Y(at)) ELSE {}

\* offer, after the dead are freed: the fold that absorbs the new output now, if
\* there is exactly one.  The first absorption needs the fold's mask.
Offered ==
  IF at <= n_ops /\ Y(at) \in DOMAIN live \ Dead
     /\ Cardinality(Absorbers(tape, Y(at))) = 1
    THEN Absorbers(tape, Y(at)) ELSE {}

\* What the loop body reads from `live` where it stands; a KeyError if not there.
Reads ==
  CASE ~Running \/ step \in {"begin", "end"} -> {}
    [] step = "free" -> {tape[f].mask : f \in Offered \ DOMAIN folds}
    [] step = "compute" /\ tape[at].kind = "fold" ->
         tape[at].ivars \ (IF at \in DOMAIN folds THEN folds[at].absorbed ELSE {})
    [] step = "compute" /\ tape[at].kind # "fold" -> tape[at].ivars
    [] step = "aux" -> IF at > n_ops THEN {}
                       ELSE {Y(at)} \cup IF tape[at].kind = "fold" THEN {} ELSE tape[at].ivars
    [] step = "emit" ->
         {v \in Range(RowVars(at, sweep)) : v[1] \notin {"w", "mult"}}
         \cup IF sweep = "fold" /\ at <= n_ops THEN tape[at].operands \cup {Aux(at)} ELSE {}
Present == Reads \subseteq DOMAIN live

\* live[v] = t, then side_effects
Land(out) ==
  /\ live' = Over(Single(Y(at), out), live)
  /\ mult' = IF tape[at].looks THEN mult + out ELSE mult
  /\ step' = IF want_aux THEN "aux" ELSE "emit"

Keep(out) == cache' = IF at \in fits THEN Over(Single(at, out), cache) ELSE cache

\* Faulty variant of ProjectOnce: the projection is not kept.
ProjectAgain ==
  LET key == <<at, Rho(proof)>>
  IN IF want_aux
       THEN /\ pcache' = Over(Single(key, Project(at, Rho(proof))), pcache)
            /\ walks' = [walks EXCEPT ![at] = @ + 1]
       ELSE UNCHANGED <<pcache, walks>>

\* P for this proof's rho, if it is not there yet: one pass over the shards
ProjectOnce ==
  LET key == <<at, Rho(proof)>>
  IN IF want_aux /\ key \notin DOMAIN pcache
       THEN /\ pcache' = Over(Single(key, Project(at, Rho(proof))), pcache)
            /\ walks' = [walks EXCEPT ![at] = @ + 1]
       ELSE UNCHANGED <<pcache, walks>>

\* COMPUTE_FNS, on a claim whose outputs no earlier sweep left in a cache.  A
\* routed claim fuses the projection into its pass over the shards.
Compute ==
  /\ At("compute") /\ Present
  /\ tape[at].kind # "fold" /\ at \notin DOMAIN cache
  /\ LET out == Weights(at) + SumOf(live, tape[at].ivars) IN Land(out) /\ Keep(out)
  /\ IF Routed(at) THEN ProjectOnce ELSE UNCHANGED <<pcache, walks>>
  /\ UNCHANGED <<tape, proof, sweep, at, inputs, folds, fits, rows>>

\* The outputs come from the cache; the lookups are counted all the same, and a
\* routed claim still walks its shards for a P it does not have.
Reuse ==
  /\ At("compute") /\ Present
  /\ at \in DOMAIN cache
  /\ Land(cache[at])
  /\ IF Routed(at) THEN ProjectOnce ELSE UNCHANGED <<pcache, walks>>
  /\ UNCHANGED <<tape, proof, sweep, at, inputs, folds, fits, cache, rows>>
--------------------------------------------------------------------------------
(***************************************************************************)
(* FoldRunner                                                              *)
(***************************************************************************)
\* init takes the mask; absorbing adds a stream to the output, and to the aux
\* rows once their challenge exists.
InitState(f) ==
  LET m == live[tape[f].mask] IN [y |-> m, s |-> m, absorbed |-> {tape[f].mask}]

Absorbed(st, S, vals) ==
  [y |-> st.y + SumOf(vals, S),
   s |-> IF want_aux THEN st.s + SumOf(vals, S) ELSE st.s,
   absorbed |-> st.absorbed \cup S]

\* The fold claim itself: absorb what did not come by offer, then the output.
Finalize ==
  /\ At("compute") /\ Present
  /\ tape[at].kind = "fold"
  /\ LET st == IF at \in DOMAIN folds THEN folds[at] ELSE InitState(at)
         done == Absorbed(st, Foldable(tape, at) \ st.absorbed, live)
     IN folds' = Over(Single(at, done), folds) /\ Land(Weights(at) + done.y)
  /\ UNCHANGED <<tape, proof, sweep, at, inputs, fits, cache, pcache, walks, rows>>

\* AUX_FNS and, once s_bind exists, LATE_AUX_FNS
Auxiliary ==
  /\ At("aux") /\ Present
  /\ IF Routed(at) THEN ProjectOnce ELSE UNCHANGED <<pcache, walks>>
  /\ LET rho == Rho(proof)
         own == IF at > n_ops THEN mult
                ELSE live[Y(at)] + IF tape[at].kind = "fold" THEN folds[at].s
                                   ELSE SumOf(live, tape[at].ivars)
         P == IF Routed(at) THEN pcache'[<<at, rho>>] ELSE 0
         of == {Aux(at)} \cup (IF Routed(at) THEN {Pj(at)} ELSE {})
                         \cup (IF Routed(at) /\ have_ch1 THEN {Late(at)} ELSE {})
     IN live' = Over([v \in of |-> CASE v = Aux(at) -> rho + own + P
                                     [] v = Pj(at) -> P
                                     [] v = Late(at) -> Sigma(proof) + P], live)
  /\ step' = "emit"
  /\ UNCHANGED <<tape, proof, sweep, at, inputs, mult, folds, fits, cache, rows>>

\* emit the claim's rows into this sweep's accumulators, then fire its quads
Emit ==
  /\ At("emit") /\ Present
  /\ LET val == [v \in Range(RowVars(at, sweep)) |->
                    CASE v[1] = "w" -> Weights(v[2])
                      [] v[1] = "mult" -> mult
                      [] OTHER -> live[v]]
         quads == IF sweep = "fold" /\ at <= n_ops
                    THEN SumOf(live, tape[at].operands) + live[Aux(at)] ELSE 0
     IN rows' = [rows EXCEPT ![sweep] = @ \o Entries(at, sweep, val, quads)]
  /\ step' = "free"
  /\ UNCHANGED <<tape, proof, sweep, at, live, inputs, mult, folds, fits, cache,
                 pcache, walks>>
--------------------------------------------------------------------------------
(***************************************************************************)
(* Freeing, and the end of a sweep                                         *)
(***************************************************************************)
\* Rows of the later phases die with their claim.
OwnAux == (IF want_aux THEN {Aux(at), Pj(at)} ELSE {})
          \cup (IF have_ch1 THEN {Late(at)} ELSE {})

Free ==
  /\ At("free") /\ Present
  /\ LET absorbed == [f \in Offered |->
           Absorbed(IF f \in DOMAIN folds THEN folds[f] ELSE InitState(f), {Y(at)}, live)]
         freed == IF \E f \in Offered : OnlyConsumer(tape, Y(at), f) THEN {Y(at)} ELSE {}
     IN /\ folds' = Over(absorbed, folds)
        /\ live' = Restrict(live, DOMAIN live \ (Dead \cup freed \cup OwnAux))
  /\ Enter(at + 1)
  /\ UNCHANGED <<tape, proof, sweep, inputs, mult, fits, cache, pcache, walks, rows>>

NextSweep == CASE sweep = "R1" -> "R2"
               [] sweep = "R2" -> IF HasP3 THEN "R3" ELSE "fold"
               [] sweep = "R3" -> "fold"
               [] sweep = "fold" -> "open"
               [] sweep = "open" -> "done"

\* tape.inputs.update(live)
EndSweep ==
  /\ At("end")
  /\ inputs' = Over(live, inputs)
  /\ live' = << >>
  /\ sweep' = NextSweep
  /\ step' = "begin"
  /\ UNCHANGED <<tape, proof, at, mult, folds, fits, cache, pcache, walks, rows>>

\* An exception (out of memory, a short read of a spilled value, a refused
\* opening) ends the proof where it is, and its local variables with it; the
\* tape's tensors and the projections stay, and the process may prove again.
Raise ==
  /\ Running
  /\ sweep' = "idle"
  /\ step' = "begin"
  /\ at' = 0
  /\ live' = << >>
  /\ folds' = << >>
  /\ cache' = << >>
  /\ rows' = [s \in Range(Sweeps) |-> << >>]
  /\ UNCHANGED <<tape, proof, inputs, mult, fits, pcache, walks>>

Next ==
  \/ StartProof \/ BeginSweep
  \/ Compute \/ Reuse \/ Finalize \/ Auxiliary \/ Emit \/ Free
  \/ EndSweep \/ Raise

Spec == Init /\ [][Next]_vars
--------------------------------------------------------------------------------
(***************************************************************************)
(* Properties                                                              *)
(***************************************************************************)
\* No sweep reads a value it has freed, that a fold took, or that it never made:
\* a KeyError hours into a proof.
NoMissingValue == Present

\* Whatever was cached, folded, freed and recomputed, and whatever an earlier
\* proof of the process left behind, every sweep hands on the rows of the same
\* witness: each row of its phases once, in the order of the layout, and with
\* the value that computing the tape once gives.  This is what makes the opened
\* columns hash to the leaves that were committed sweeps earlier.
SameWitnessEverySweep == At("end") => rows[sweep] = ExpectedRows(sweep, proof)

\* "Never recompute P = W rho": a proof makes at most one pass over a claim's
\* expert shards for their projection, cached outputs or not.
ProjectedOncePerProof == \A i \in Ops : walks[i] <= 1

\* Memory: between two claims a sweep holds the input of the tape, the logits,
\* and of the rest only what a claim still to come reads (or, in the fold sweep,
\* an operand of foreign quads, which is kept to the end of the sweep); nothing
\* is held between sweeps, and of the projections only those of this proof's coin,
\* after a proof that failed too.
LiveIsNeeded ==
  /\ Running /\ step = "compute" =>
       \A v \in DOMAIN live \ ({X} \cup {Y(n_ops)}) :
         \/ \E j \in at..n_ops : v \in tape[j].ivars
         \/ \E j \in Ops : v \in tape[j].operands
  /\ step = "begin" => live = << >>
  /\ DOMAIN pcache \subseteq Ops \X {Rho(proof)}
================================================================================
