------------------------- MODULE StreamingProver_proofs -------------------------
(***************************************************************************)
(* Theorems about StreamingProver, for every set of tapes the recorder can *)
(* produce, every budget of the caches and any number of proofs: no sweep  *)
(* misses a value, none holds one longer than something needs it, the      *)
(* expert shards are walked once per proof for their projection, and every *)
(* sweep hands on the rows of the same witness.                            *)
(***************************************************************************)
EXTENDS StreamingProver, Tape_proofs

InBody == Running /\ step \in {"compute", "aux", "emit", "free"}

\* Where the program can stand.
TypeInv ==
  /\ tape \in Tapes
  /\ sweep \in {"idle", "done", "R1", "R2", "R3", "fold", "open"}
  /\ step \in {"begin", "compute", "aux", "emit", "free", "end"}
  /\ at \in 0..(n_ops + 1)
  /\ ~Running => step = "begin"
  /\ InBody => at \in 1..(n_ops + 1)
  /\ step = "compute" => at <= n_ops
  /\ step = "aux" => want_aux
  /\ X \in DOMAIN inputs

\* What the sweep has computed so far, and what something still to come reads.
Landed(v) == v = X \/ \E k \in Ops : v = Y(k) /\ (k < at \/ (k = at /\ step # "compute"))
ReadBy(v, j) == v \in tape[j].ivars \/ (sweep = "fold" /\ v \in tape[j].operands)
Needed(v) == \E j \in Ops : j >= at /\ ReadBy(v, j)

\* Taken by the only claim that reads it, a fold.
Swallowed(v) == \E f \in DOMAIN folds : OnlyConsumer(tape, v, f) /\ v \in folds[f].absorbed

\* The strengthening of NoMissingValue: what is needed again and was computed is
\* in memory or in its fold's state, and the values of the claim at hand are there.
HasWhatIsNeeded ==
  InBody =>
    /\ \A v : Landed(v) /\ Needed(v) => v \in DOMAIN live \/ Swallowed(v)
    /\ at = 1 => X \in DOMAIN live
    /\ at <= n_ops /\ step # "compute" => Y(at) \in DOMAIN live
    /\ step = "emit" /\ want_aux => Aux(at) \in DOMAIN live
    /\ step = "emit" /\ want_aux /\ Routed(at) => Pj(at) \in DOMAIN live
    /\ step = "emit" /\ have_ch1 /\ Routed(at) => Late(at) \in DOMAIN live

--------------------------------------------------------------------------------
(***************************************************************************)
(* Lemmas about the operators                                              *)
(***************************************************************************)
LEMMA OverFacts ==
  ASSUME NEW f, NEW g
  PROVE  /\ DOMAIN Over(f, g) = DOMAIN f \cup DOMAIN g
         /\ \A x \in DOMAIN f : Over(f, g)[x] = f[x]
         /\ \A x \in DOMAIN g \ DOMAIN f : Over(f, g)[x] = g[x]
  BY DEF Over

\* A function on one point.
LEMMA SingleFacts ==
  ASSUME NEW d, NEW e
  PROVE  DOMAIN Single(d, e) = {d} /\ Single(d, e)[d] = e
  BY DEF Single

\* The variables of the later phases are none of the tape's values.
LEMMA PhasesDiffer ==
  \A i, j : /\ X # Aux(j) /\ X # Pj(j) /\ X # Late(j)
            /\ Y(i) # Aux(j) /\ Y(i) # Pj(j) /\ Y(i) # Late(j)
  BY DEF X, Y, Aux, Pj, Late

\* The tape at hand is one the recorder makes, and its claims are 1..n_ops.
LEMMA TapeAtHand ==
  ASSUME TypeInv
  PROVE  /\ IsTape(tape) /\ n_ops \in Nat /\ Ops = 1..n_ops /\ DOMAIN tape = Ops
         /\ at \in Nat
<1>1. IsTape(tape)
  BY TapesAssumption DEF TypeInv
<1>2. Len(tape) \in Nat /\ DOMAIN tape = 1..Len(tape)
  BY <1>1, TapeFacts
<1> QED BY <1>1, <1>2 DEF TypeInv, Ops, n_ops

\* last_use is the last reader: no reader comes after it, and it is one itself
\* unless there is none.
LEMMA LastUseFacts ==
  ASSUME TypeInv, NEW v
  PROVE  /\ LastUse(v) \in Nat
         /\ \A j \in Ops : ReadBy(v, j) => j <= LastUse(v)
         /\ LastUse(v) # 0 => LastUse(v) \in Ops /\ ReadBy(v, LastUse(v))
<1> DEFINE F == IF sweep = "fold" THEN {j \in Ops : v \in tape[j].operands} ELSE {}
           S == {0} \cup Consumers(tape, v) \cup F
<1>1. n_ops \in Nat /\ Ops = 1..n_ops /\ DOMAIN tape = Ops
  BY TapeAtHand
<1>2. /\ Consumers(tape, v) = {j \in Ops : v \in tape[j].ivars}
      /\ F \subseteq Ops
  BY <1>1 DEF Consumers
<1>3. S \subseteq Nat /\ S # {} /\ \A s \in S : s <= n_ops
  BY <1>1, <1>2
<1>4. Max(S) \in S /\ \A s \in S : s <= Max(S)
  <2> HIDE DEF S
  <2> QED BY <1>1, <1>3, MaxIsGreatest
<1>5. LastUse(v) = Max(S)
  BY DEF LastUse
<1>6. \A j \in Ops : ReadBy(v, j) <=> j \in Consumers(tape, v) \cup F
  BY <1>2 DEF ReadBy
<1>7. \A j \in Ops : ReadBy(v, j) => j <= LastUse(v)
  BY <1>4, <1>5, <1>6
<1>8. LastUse(v) # 0 => LastUse(v) \in Ops /\ ReadBy(v, LastUse(v))
  BY <1>2, <1>4, <1>5, <1>6
<1> QED BY <1>3, <1>4, <1>5, <1>7, <1>8

\* The fold that takes the output at hand is the only one that absorbs it.
LEMMA OfferedIsAlone ==
  ASSUME TypeInv, InBody, NEW f \in Offered
  PROVE  /\ at \in Ops /\ Y(at) \in DOMAIN live \ Dead
         /\ Offered = {f} /\ Absorbers(tape, Y(at)) = {f}
         /\ f \in Ops /\ tape[f].kind = "fold" /\ at < f
         /\ tape[f].mask \in tape[f].ivars
         /\ tape[f].mask = X \/ \E k \in Ops : tape[f].mask = Y(k) /\ k < at
<1>1. at \in Ops /\ IsTape(tape) /\ DOMAIN tape = Ops /\ IsFiniteSet(Ops)
  <2>1. at \in 1..(n_ops + 1) /\ at <= n_ops /\ n_ops \in Nat
    BY TapeAtHand DEF TypeInv, Offered
  <2> QED BY <2>1, TapeAtHand, FS_Interval
<1>2. /\ Y(at) \in DOMAIN live \ Dead
      /\ Offered = Absorbers(tape, Y(at)) /\ Cardinality(Absorbers(tape, Y(at))) = 1
  BY DEF Offered
<1>3. IsFiniteSet(Absorbers(tape, Y(at)))
  <2>1. Absorbers(tape, Y(at)) \subseteq Ops
    BY <1>1 DEF Absorbers
  <2> QED BY <1>1, <2>1, FS_Subset
<1>4. PICK g : Absorbers(tape, Y(at)) = {g}
  BY <1>2, <1>3, FS_Singleton
<1>5. Absorbers(tape, Y(at)) = {f}
  BY <1>2, <1>4
<1> QED BY <1>1, <1>2, <1>5, LoneAbsorber
--------------------------------------------------------------------------------
(***************************************************************************)
(* Where the program stands                                                *)
(***************************************************************************)
\* No step changes the tape, and only a new proof changes which one it is.
LEMMA TapeIsFixed ==
  ASSUME [Next]_vars
  PROVE  /\ tape' = tape /\ n_ops' = n_ops /\ Ops' = Ops
         /\ \A v, j : (v \in tape'[j].ivars) = (v \in tape[j].ivars)
<1>1. tape' = tape
  <2>1. CASE StartProof BY <2>1 DEF StartProof
  <2>2. CASE BeginSweep BY <2>2 DEF BeginSweep
  <2>3. CASE Compute BY <2>3 DEF Compute
  <2>4. CASE Reuse BY <2>4 DEF Reuse
  <2>5. CASE Finalize BY <2>5 DEF Finalize
  <2>6. CASE Auxiliary BY <2>6 DEF Auxiliary
  <2>7. CASE Emit BY <2>7 DEF Emit
  <2>8. CASE Free BY <2>8 DEF Free
  <2>9. CASE EndSweep BY <2>9 DEF EndSweep
  <2>10. CASE Raise BY <2>10 DEF Raise
  <2>11. CASE UNCHANGED vars BY <2>11 DEF vars
  <2> QED BY <2>1, <2>2, <2>3, <2>4, <2>5, <2>6, <2>7, <2>8, <2>9, <2>10, <2>11 DEF Next
<1>2. n_ops' = n_ops
  BY <1>1 DEF n_ops
<1>3. Ops' = Ops
  BY <1>2 DEF Ops
<1> QED BY <1>1, <1>2, <1>3

\* The step that comes after an output has landed.
LEMMA LandMoves ==
  ASSUME NEW out, Land(out)
  PROVE  step' = (IF want_aux THEN "aux" ELSE "emit") /\ live' = Over(Single(Y(at), out), live)
  BY DEF Land

\* The loop goes on with claim or settlement i, or it ends.
LEMMA EnterMoves ==
  ASSUME TypeInv, NEW i \in Nat, Enter(i)
  PROVE  \/ /\ step' \in {"compute", "aux", "emit"} /\ at' = i /\ i <= Groups
            /\ i <= n_ops + 1
            /\ step' = "compute" => i <= n_ops
            /\ step' # "compute" => i > n_ops
            /\ step' = "aux" => want_aux
            /\ step' = "emit" => ~want_aux
         \/ step' = "end" /\ at' = at /\ i > Groups /\ i > n_ops
<1>1. n_ops \in Nat /\ Groups \in {n_ops, n_ops + 1}
  BY TapeAtHand DEF Groups
<1>2. CASE i <= Groups
  BY <1>1, <1>2 DEF Enter
<1>3. CASE ~(i <= Groups)
  BY <1>1, <1>3 DEF Enter
<1> QED BY <1>2, <1>3

\* Types, at the start.
LEMMA TypeInit ==
  ASSUME Init
  PROVE  TypeInv
<1>1. IsTape(tape) /\ Len(tape) \in Nat
  BY TapesAssumption, TapeFacts DEF Init
<1>2. X \in DOMAIN inputs
  BY DEF Init, Single
<1> QED BY <1>1, <1>2 DEF Init, TypeInv, InBody, Running, n_ops

\* Every step keeps the types.
LEMMA TypeStep ==
  ASSUME TypeInv, [Next]_vars
  PROVE  TypeInv'
<1> USE DEF TypeInv, InBody, Running
<1>0. tape' = tape /\ n_ops' = n_ops /\ n_ops \in Nat /\ at \in Nat
  BY TapeIsFixed, TapeAtHand
<1>1. CASE StartProof
  BY <1>0, <1>1 DEF StartProof
<1>2. CASE BeginSweep
  <2>1. UNCHANGED <<tape, sweep, inputs>> /\ Running /\ Enter(1)
    BY <1>2 DEF BeginSweep
  <2> QED BY <1>0, <2>1, EnterMoves DEF want_aux
<1>3. CASE Compute \/ Reuse \/ Finalize
  <2>1. /\ UNCHANGED <<tape, sweep, at, inputs>>
        /\ At("compute") /\ step' = IF want_aux THEN "aux" ELSE "emit"
    BY <1>3, LandMoves DEF Compute, Reuse, Finalize
  <2> QED BY <1>0, <2>1 DEF At, want_aux
<1>4. CASE Auxiliary
  BY <1>0, <1>4 DEF Auxiliary, At
<1>5. CASE Emit
  BY <1>0, <1>5 DEF Emit, At
<1>6. CASE Free
  <2>1. UNCHANGED <<tape, sweep, inputs>> /\ At("free") /\ Enter(at + 1)
    BY <1>6 DEF Free
  <2>2. at + 1 \in Nat /\ at + 1 >= 1
    BY <1>0
  <2> QED BY <1>0, <2>1, <2>2, EnterMoves DEF At, want_aux
<1>7. CASE EndSweep
  <2>1. inputs' = Over(live, inputs)
    BY <1>7 DEF EndSweep
  <2>2. X \in DOMAIN inputs'
    BY <2>1, OverFacts
  <2>3. NextSweep \in {"R2", "R3", "fold", "open", "done"}
    BY <1>7 DEF EndSweep, At, NextSweep
  <2> QED BY <1>0, <1>7, <2>2, <2>3 DEF EndSweep, At
<1>8. CASE Raise
  BY <1>0, <1>8 DEF Raise
<1>9. CASE UNCHANGED vars
  BY <1>0, <1>9 DEF vars, want_aux
<1> QED BY <1>1, <1>2, <1>3, <1>4, <1>5, <1>6, <1>7, <1>8, <1>9 DEF Next
--------------------------------------------------------------------------------
(***************************************************************************)
(* No sweep misses a value                                                 *)
(***************************************************************************)
\* Concatenation puts the elements of two sequences together.
LEMMA ConcatRange ==
  ASSUME NEW S, NEW a \in Seq(S), NEW b \in Seq(S)
  PROVE  a \o b \in Seq(S) /\ Range(a \o b) = Range(a) \cup Range(b)
<1>1. /\ a \o b \in Seq(S) /\ Len(a) \in Nat /\ Len(b) \in Nat
      /\ DOMAIN a = 1..Len(a) /\ DOMAIN b = 1..Len(b)
      /\ DOMAIN (a \o b) = 1..(Len(a) + Len(b))
  OBVIOUS
<1>2. \A n \in 1..Len(a) : n \in DOMAIN (a \o b) /\ (a \o b)[n] = a[n]
  BY <1>1
<1>3. \A n \in 1..Len(b) : n + Len(a) \in DOMAIN (a \o b) /\ (a \o b)[n + Len(a)] = b[n]
  BY <1>1
<1>4. ASSUME NEW n \in DOMAIN (a \o b)
      PROVE  (a \o b)[n] \in Range(a) \cup Range(b)
  <2>1. CASE n \in 1..Len(a)
    BY <1>1, <1>2, <2>1 DEF Range
  <2>2. CASE n \notin 1..Len(a)
    <3>1. n - Len(a) \in 1..Len(b) /\ (n - Len(a)) + Len(a) = n
      BY <1>1, <2>2
    <3>2. (a \o b)[n] = b[n - Len(a)]
      BY <1>3, <3>1
    <3> QED BY <1>1, <3>1, <3>2 DEF Range
  <2> QED BY <2>1, <2>2
<1>5. Range(a \o b) \subseteq Range(a) \cup Range(b)
  BY <1>4 DEF Range
<1>6. Range(a) \subseteq Range(a \o b)
  BY <1>1, <1>2 DEF Range
<1>7. Range(b) \subseteq Range(a \o b)
  BY <1>1, <1>3 DEF Range
<1> QED BY <1>1, <1>5, <1>6, <1>7

\* The rows of a claim in a sweep.
LEMMA RowsAre ==
  ASSUME NEW i, NEW s, NEW v \in Range(RowVars(i, s))
  PROVE  \/ i = 1 /\ v = X
         \/ i <= n_ops /\ v = Y(i)
         \/ ~(i <= n_ops) /\ v = MultVar
         \/ v = W(i)
         \/ s \in {"R2", "fold", "open"} /\ v = Aux(i)
         \/ s \in {"R2", "fold", "open"} /\ Routed(i) /\ v = Pj(i)
         \/ s \in {"R3", "fold", "open"} /\ Routed(i) /\ v = Late(i)
<1> DEFINE S == {X, Y(i), MultVar, W(i), Pj(i), Aux(i), Late(i)}
           x == IF i = 1 THEN <<X>> ELSE <<>>
           y == IF i <= n_ops THEN <<Y(i)>> ELSE <<MultVar>>
           w == IF Routed(i) THEN <<W(i)>> ELSE <<>>
           p == IF Routed(i) THEN <<Pj(i)>> ELSE <<>>
           r == <<Aux(i)>>
           l == IF Routed(i) THEN <<Late(i)>> ELSE <<>>
           xy == x \o y
           one == IF s \in {"R1", "fold", "open"} THEN xy \o w ELSE <<>>
           two == IF s \in {"R2", "fold", "open"} THEN p \o r ELSE <<>>
           three == IF s \in {"R3", "fold", "open"} THEN l ELSE <<>>
           onetwo == one \o two
<1>1. RowVars(i, s) = onetwo \o three
  BY DEF RowVars
<1>2. /\ x \in Seq(S) /\ y \in Seq(S) /\ w \in Seq(S)
      /\ p \in Seq(S) /\ r \in Seq(S) /\ l \in Seq(S)
  <2>1. << >> \in Seq(S) /\ \A e \in S : <<e>> \in Seq(S)
    OBVIOUS
  <2>2. /\ X \in S /\ Y(i) \in S /\ MultVar \in S /\ W(i) \in S
        /\ Pj(i) \in S /\ Aux(i) \in S /\ Late(i) \in S
    OBVIOUS
  <2> HIDE DEF S
  <2> QED BY <2>1, <2>2
<1>3. /\ Range(x) = IF i = 1 THEN {X} ELSE {}
      /\ Range(y) = IF i <= n_ops THEN {Y(i)} ELSE {MultVar}
      /\ Range(w) = IF Routed(i) THEN {W(i)} ELSE {}
      /\ Range(p) = IF Routed(i) THEN {Pj(i)} ELSE {}
      /\ Range(r) = {Aux(i)}
      /\ Range(l) = IF Routed(i) THEN {Late(i)} ELSE {}
      /\ Range(<< >>) = {}
  <2>1. \A e : Range(<<e>>) = {e}
    BY DEF Range
  <2>2. Range(<< >>) = {}
    BY DEF Range
  <2> QED BY <2>1, <2>2
<1> HIDE DEF S, x, y, w, p, r, l
<1>4. xy \in Seq(S) /\ Range(xy) = Range(x) \cup Range(y)
  BY <1>2, ConcatRange
<1> HIDE DEF xy
<1>5. xy \o w \in Seq(S) /\ Range(xy \o w) = Range(x) \cup Range(y) \cup Range(w)
  BY <1>2, <1>4, ConcatRange
<1>6. p \o r \in Seq(S) /\ Range(p \o r) = Range(p) \cup Range(r)
  BY <1>2, ConcatRange
<1>7. /\ one \in Seq(S) /\ two \in Seq(S) /\ three \in Seq(S)
      /\ Range(one) = IF s \in {"R1", "fold", "open"} THEN Range(x) \cup Range(y) \cup Range(w) ELSE {}
      /\ Range(two) = IF s \in {"R2", "fold", "open"} THEN Range(p) \cup Range(r) ELSE {}
      /\ Range(three) = IF s \in {"R3", "fold", "open"} THEN Range(l) ELSE {}
  <2>1. << >> \in Seq(S)
    OBVIOUS
  <2> QED BY <1>2, <1>3, <1>5, <1>6, <2>1
<1> HIDE DEF one, two, three
<1>8. onetwo \in Seq(S) /\ Range(onetwo) = Range(one) \cup Range(two)
  BY <1>7, ConcatRange
<1> HIDE DEF onetwo
<1>9. Range(onetwo \o three) = Range(one) \cup Range(two) \cup Range(three)
  BY <1>7, <1>8, ConcatRange
<1> QED BY <1>1, <1>3, <1>7, <1>9

\* What the loop body reads where it stands is there.
LEMMA NeededIsRead ==
  ASSUME TypeInv, HasWhatIsNeeded
  PROVE  Present
<1> SUFFICES ASSUME InBody, NEW v \in Reads PROVE v \in DOMAIN live
  BY DEF Present, Reads, InBody, TypeInv
<1>0. /\ IsTape(tape) /\ n_ops \in Nat /\ Ops = 1..n_ops /\ DOMAIN tape = Ops
      /\ at \in Nat /\ at \in 1..(n_ops + 1) /\ (at <= n_ops => at \in Ops)
  BY TapeAtHand DEF TypeInv
<1>1. ASSUME at \in Ops, v \in tape[at].ivars
      PROVE  Landed(v) /\ Needed(v)
  <2>1. v = X \/ \E k \in Ops : v = Y(k)
    BY <1>0, <1>1, TapeFacts
  <2>2. \A k \in Ops : v = Y(k) => k < at
    BY <1>0, <1>1, TapeFacts
  <2> QED BY <1>0, <1>1, <2>1, <2>2 DEF Landed, Needed, ReadBy
<1>2. ASSUME at \in Ops, tape[at].kind # "fold", v \in tape[at].ivars
      PROVE  v \in DOMAIN live
  <2>1. v \in DOMAIN live \/ Swallowed(v)
    BY <1>1, <1>2 DEF HasWhatIsNeeded
  <2>2. ~Swallowed(v)
    BY <1>0, <1>2, OnlyConsumerFacts DEF Swallowed
  <2> QED BY <2>1, <2>2
<1>3. CASE step = "free"
  <2>1. PICK f \in Offered \ DOMAIN folds : v = tape[f].mask
    BY <1>3 DEF Reads, InBody
  <2>2. /\ f \in Ops /\ tape[f].kind = "fold" /\ at < f /\ v \in tape[f].ivars
        /\ v = X \/ \E k \in Ops : v = Y(k) /\ k < at
    BY <2>1, OfferedIsAlone
  <2>3. Landed(v) /\ Needed(v)
    BY <1>0, <2>2 DEF Landed, Needed, ReadBy
  <2>4. ~Swallowed(v)
    BY <1>0, <2>1, <2>2, OnlyConsumerFacts DEF Swallowed
  <2> QED BY <2>3, <2>4 DEF HasWhatIsNeeded
<1>4. CASE step = "compute"
  <2>1. at \in Ops
    BY <1>0, <1>4 DEF TypeInv
  <2>2. v \in tape[at].ivars
        /\ (tape[at].kind = "fold" /\ at \in DOMAIN folds => v \notin folds[at].absorbed)
    BY <1>4 DEF Reads, InBody
  <2>3. CASE tape[at].kind = "fold"
    <3>1. v \in DOMAIN live \/ Swallowed(v)
      BY <1>1, <2>1, <2>2 DEF HasWhatIsNeeded
    <3>2. ~Swallowed(v)
      BY <1>0, <2>1, <2>2, <2>3, OnlyConsumerFacts DEF Swallowed
    <3> QED BY <3>1, <3>2
  <2> QED BY <1>2, <2>1, <2>2, <2>3
<1>5. CASE step = "aux"
  <2>1. at <= n_ops /\ (v = Y(at) \/ (tape[at].kind # "fold" /\ v \in tape[at].ivars))
    BY <1>0, <1>5 DEF Reads, InBody
  <2> QED BY <1>0, <1>2, <1>5, <2>1 DEF HasWhatIsNeeded
<1>6. CASE step = "emit"
  <2>1. \/ v \in Range(RowVars(at, sweep)) /\ v[1] \notin {"w", "mult"}
        \/ sweep = "fold" /\ at <= n_ops /\ v \in tape[at].operands \cup {Aux(at)}
    BY <1>6 DEF Reads, InBody
  <2>2. CASE v \in Range(RowVars(at, sweep)) /\ v[1] \notin {"w", "mult"}
    <3>1. \/ at = 1 /\ v = X
          \/ at <= n_ops /\ v = Y(at)
          \/ want_aux /\ v = Aux(at)
          \/ want_aux /\ Routed(at) /\ v = Pj(at)
          \/ have_ch1 /\ Routed(at) /\ v = Late(at)
      BY <1>6, <2>2, RowsAre DEF want_aux, have_ch1, W, MultVar
    <3> QED BY <1>6, <3>1 DEF HasWhatIsNeeded
  <2>3. CASE sweep = "fold" /\ at <= n_ops /\ v \in tape[at].operands
    <3>1. v = X \/ \E k \in Ops : v = Y(k)
      BY <1>0, <2>3, TapeFacts
    <3>2. \A k \in Ops : v = Y(k) => k < at
      BY <1>0, <2>3, TapeFacts
    <3>3. Landed(v) /\ Needed(v)
      BY <1>0, <2>3, <3>1, <3>2 DEF Landed, Needed, ReadBy
    <3>4. ~Swallowed(v)
      BY <1>0, <2>3, OnlyConsumerFacts DEF Swallowed
    <3> QED BY <3>3, <3>4 DEF HasWhatIsNeeded
  <2>4. CASE sweep = "fold" /\ v = Aux(at)
    BY <1>6, <2>4 DEF HasWhatIsNeeded, want_aux
  <2> QED BY <2>1, <2>2, <2>3, <2>4
<1> QED BY <1>3, <1>4, <1>5, <1>6 DEF InBody

\* The readers still to come depend on the sweep and the position only.
LEMMA ReadersStay ==
  ASSUME [Next]_vars, sweep' = sweep
  PROVE  \A v : /\ \A j : ReadBy(v, j)' <=> ReadBy(v, j)
                /\ \A f : OnlyConsumer(tape, v, f)' <=> OnlyConsumer(tape, v, f)
<1>1. tape' = tape
  BY TapeIsFixed
<1> QED BY <1>1 DEF ReadBy, OnlyConsumer, Absorbers, Consumers, Foldable

\* A claim's output lands; the sweep goes on with its rows.
LEMMA HasLand ==
  ASSUME TypeInv, HasWhatIsNeeded, [Next]_vars, At("compute"),
         UNCHANGED <<sweep, at>>,
         NEW out, Land(out),
         \A f \in DOMAIN folds : f \in DOMAIN folds'
                                 /\ folds[f].absorbed \subseteq folds'[f].absorbed
  PROVE  HasWhatIsNeeded'
<1>1. /\ InBody /\ step = "compute" /\ at <= n_ops /\ at \in Nat
      /\ tape' = tape /\ n_ops' = n_ops /\ Ops' = Ops
  BY TapeIsFixed, TapeAtHand DEF At, InBody, TypeInv
<1>2. /\ step' = IF want_aux THEN "aux" ELSE "emit"
      /\ DOMAIN live' = DOMAIN live \cup {Y(at)}
  BY LandMoves DEF Over, Single
<1>3. ASSUME NEW v, Landed(v)', Needed(v)'
      PROVE  v \in DOMAIN live' \/ Swallowed(v)'
  <2>1. Needed(v)
    BY <1>1, <1>3, ReadersStay DEF Needed
  <2>2. v = Y(at) \/ Landed(v)
    BY <1>1, <1>3 DEF Landed
  <2>3. Swallowed(v) => Swallowed(v)'
    BY <1>1, ReadersStay DEF Swallowed
  <2> QED BY <1>1, <1>2, <2>1, <2>2, <2>3 DEF HasWhatIsNeeded
<1>4. want_aux' = want_aux /\ (have_ch1 => want_aux)
  BY <1>1 DEF want_aux, have_ch1
<1>5. have_ch1' = have_ch1
  BY <1>1 DEF have_ch1
<1> QED BY <1>1, <1>2, <1>3, <1>4, <1>5 DEF HasWhatIsNeeded

\* Freeing takes only what nothing later reads, or what the only fold that reads it
\* has absorbed.
LEMMA HasFree ==
  ASSUME TypeInv, HasWhatIsNeeded, [Next]_vars, Free
  PROVE  HasWhatIsNeeded'
<1>0. /\ IsTape(tape) /\ n_ops \in Nat /\ Ops = 1..n_ops /\ at \in Nat
      /\ tape' = tape /\ n_ops' = n_ops /\ Ops' = Ops
  BY TapeIsFixed, TapeAtHand
<1>1. InBody /\ step = "free" /\ at \in 1..(n_ops + 1) /\ sweep' = sweep
  BY DEF Free, At, InBody, TypeInv
<1> DEFINE new(f) == Absorbed(IF f \in DOMAIN folds THEN folds[f] ELSE InitState(f), {Y(at)}, live)
           absorbed == [f \in Offered |-> new(f)]
           freed == IF \E f \in Offered : OnlyConsumer(tape, Y(at), f) THEN {Y(at)} ELSE {}
           gone == Dead \cup freed \cup OwnAux
<1>2. folds' = Over(absorbed, folds) /\ live' = Restrict(live, DOMAIN live \ gone)
  BY DEF Free
<1>3. DOMAIN live' = DOMAIN live \ gone
  BY <1>2 DEF Restrict
<1>4. /\ \A f \in Offered : f \in DOMAIN folds' /\ Y(at) \in folds'[f].absorbed
      /\ \A f \in DOMAIN folds : f \in DOMAIN folds'
                                 /\ folds[f].absorbed \subseteq folds'[f].absorbed
  <2>1. \A f : /\ Y(at) \in new(f).absorbed
               /\ f \in DOMAIN folds => folds[f].absorbed \subseteq new(f).absorbed
    BY DEF Absorbed
  <2>2. DOMAIN absorbed = Offered /\ \A f \in Offered : absorbed[f] = new(f)
    OBVIOUS
  <2> HIDE DEF absorbed, new
  <2> QED BY <1>2, <2>1, <2>2 DEF Over
<1>5. CASE step' # "end"
  <2>1. /\ at' = at + 1 /\ step' \in {"compute", "aux", "emit"}
        /\ step' # "compute" => at + 1 > n_ops
        /\ step' = "emit" => ~want_aux
    BY <1>0, <1>5, EnterMoves DEF Free
  <2>2. ASSUME NEW v, Landed(v)', Needed(v)'
        PROVE  v \in DOMAIN live' \/ Swallowed(v)'
    <3>1. Landed(v)
      BY <1>0, <1>1, <2>1, <2>2 DEF Landed
    <3>2. PICK j \in Ops : j >= at + 1 /\ ReadBy(v, j)
      BY <1>0, <1>1, <2>1, <2>2, ReadersStay DEF Needed
    <3>3. v \in DOMAIN live \/ Swallowed(v)
      BY <1>0, <1>1, <3>1, <3>2 DEF HasWhatIsNeeded, Needed
    <3>4. Swallowed(v) => Swallowed(v)'
      BY <1>1, <1>4, ReadersStay DEF Swallowed
    <3>5. v \notin Dead
      <4>1. LastUse(v) \in Nat /\ j <= LastUse(v) /\ j \in Nat
        BY <1>0, <3>2, LastUseFacts
      <4> QED BY <1>0, <3>2, <4>1 DEF Dead
    <3>6. v \notin OwnAux
      BY <3>1, PhasesDiffer DEF Landed, OwnAux
    <3>7. v \in freed => Swallowed(v)'
      BY <1>1, <1>4, ReadersStay DEF Swallowed
    <3> QED BY <1>3, <3>3, <3>4, <3>5, <3>6, <3>7
  <2>3. /\ at' # 1
        /\ ~(at' <= n_ops' /\ step' # "compute")
        /\ ~(step' = "emit" /\ want_aux') /\ ~(step' = "emit" /\ have_ch1')
    BY <1>0, <1>1, <2>1 DEF want_aux, have_ch1
  <2> QED BY <2>2, <2>3 DEF HasWhatIsNeeded
<1>6. CASE step' = "end"
  <2>1. ~InBody'
    BY <1>6 DEF InBody
  <2> QED BY <2>1 DEF HasWhatIsNeeded
<1> QED BY <1>5, <1>6

\* What a later claim reads stays in memory, or in the fold that alone reads it.
LEMMA HasStep ==
  ASSUME TypeInv, HasWhatIsNeeded, [Next]_vars
  PROVE  HasWhatIsNeeded'
<1>0. /\ IsTape(tape) /\ n_ops \in Nat /\ Ops = 1..n_ops /\ at \in Nat /\ at \in 0..(n_ops + 1)
      /\ tape' = tape /\ n_ops' = n_ops /\ Ops' = Ops
  BY TapeIsFixed, TapeAtHand DEF TypeInv
<1>1. CASE StartProof \/ EndSweep \/ Raise
  <2>1. ~InBody'
    BY <1>1 DEF StartProof, EndSweep, Raise, InBody
  <2> QED BY <2>1 DEF HasWhatIsNeeded
<1>2. CASE BeginSweep
  <2>1. live' = inputs /\ sweep' = sweep /\ X \in DOMAIN inputs /\ Enter(1)
    BY <1>2 DEF BeginSweep, TypeInv
  <2>2. CASE step' = "end"
    BY <2>2 DEF HasWhatIsNeeded, InBody
  <2>3. CASE step' # "end"
    <3>1. /\ at' = 1 /\ step' \in {"compute", "aux", "emit"}
          /\ step' # "compute" => 1 > n_ops
          /\ step' = "emit" => ~want_aux
      BY <2>1, <2>3, EnterMoves
    <3>2. \A v : Landed(v)' => v = X
      BY <1>0, <3>1 DEF Landed
    <3>3. ~(step' = "emit" /\ want_aux') /\ ~(step' = "emit" /\ have_ch1')
      BY <2>1, <3>1 DEF want_aux, have_ch1
    <3>4. ~(at' <= n_ops' /\ step' # "compute")
      BY <1>0, <3>1
    <3> QED BY <2>1, <3>1, <3>2, <3>3, <3>4 DEF HasWhatIsNeeded
  <2> QED BY <2>2, <2>3
<1>3. CASE Compute
  <2>1. PICK out : Land(out)
    BY <1>3 DEF Compute
  <2>2. At("compute") /\ UNCHANGED <<sweep, at, folds>>
    BY <1>3 DEF Compute
  <2> QED BY <2>1, <2>2, HasLand
<1>4. CASE Reuse
  <2>1. PICK out : Land(out)
    BY <1>4 DEF Reuse
  <2>2. At("compute") /\ UNCHANGED <<sweep, at, folds>>
    BY <1>4 DEF Reuse
  <2> QED BY <2>1, <2>2, HasLand
<1>5. CASE Finalize
  <2> DEFINE st == IF at \in DOMAIN folds THEN folds[at] ELSE InitState(at)
             done == Absorbed(st, Foldable(tape, at) \ st.absorbed, live)
  <2>1. /\ Land(Weights(at) + done.y) /\ folds' = Over(Single(at, done), folds)
        /\ At("compute") /\ UNCHANGED <<sweep, at>>
    BY <1>5 DEF Finalize
  <2>2. st.absorbed \subseteq done.absorbed
    BY DEF Absorbed
  <2> HIDE DEF done
  <2>3. \A f \in DOMAIN folds : f \in DOMAIN folds'
                                /\ folds[f].absorbed \subseteq folds'[f].absorbed
    BY <2>1, <2>2 DEF Over, Single
  <2> QED BY <2>1, <2>3, HasLand
<1>6. CASE Auxiliary
  <2>1. /\ At("aux") /\ step' = "emit" /\ UNCHANGED <<sweep, at, folds>>
        /\ DOMAIN live' = {Aux(at)} \cup (IF Routed(at) THEN {Pj(at)} ELSE {})
                          \cup (IF Routed(at) /\ have_ch1 THEN {Late(at)} ELSE {})
                          \cup DOMAIN live
    BY <1>6 DEF Auxiliary, Over
  <2>2. InBody /\ step = "aux"
    BY <2>1 DEF At, InBody
  <2>3. ASSUME NEW v, Landed(v)', Needed(v)'
        PROVE  v \in DOMAIN live' \/ Swallowed(v)'
    <3>1. Landed(v)
      BY <1>0, <2>1, <2>2, <2>3 DEF Landed
    <3>2. Needed(v)
      BY <1>0, <2>1, <2>3, ReadersStay DEF Needed
    <3>3. Swallowed(v) => Swallowed(v)'
      BY <2>1, ReadersStay DEF Swallowed
    <3> QED BY <2>1, <2>2, <3>1, <3>2, <3>3 DEF HasWhatIsNeeded
  <2>4. (Routed(at)' <=> Routed(at)) /\ (have_ch1' <=> have_ch1)
    BY <1>0, <2>1 DEF Routed, have_ch1
  <2>5. /\ at' = 1 => X \in DOMAIN live'
        /\ at' <= n_ops' => Y(at)' \in DOMAIN live'
    BY <1>0, <2>1, <2>2 DEF HasWhatIsNeeded
  <2>6. Aux(at)' \in DOMAIN live'
    BY <2>1
  <2>7. /\ Routed(at)' => Pj(at)' \in DOMAIN live'
        /\ Routed(at)' /\ have_ch1' => Late(at)' \in DOMAIN live'
    BY <2>1, <2>4
  <2> QED BY <2>3, <2>5, <2>6, <2>7 DEF HasWhatIsNeeded
<1>7. CASE Emit
  <2>1. /\ At("emit") /\ step' = "free" /\ UNCHANGED <<sweep, at, folds, live>>
    BY <1>7 DEF Emit
  <2>2. InBody /\ step = "emit"
    BY <2>1 DEF At, InBody
  <2>3. ASSUME NEW v, Landed(v)', Needed(v)'
        PROVE  v \in DOMAIN live' \/ Swallowed(v)'
    <3>1. Landed(v)
      BY <1>0, <2>1, <2>2, <2>3 DEF Landed
    <3>2. Needed(v)
      BY <1>0, <2>1, <2>3, ReadersStay DEF Needed
    <3>3. Swallowed(v) => Swallowed(v)'
      BY <2>1, ReadersStay DEF Swallowed
    <3> QED BY <2>1, <2>2, <3>1, <3>2, <3>3 DEF HasWhatIsNeeded
  <2> QED BY <1>0, <2>1, <2>2, <2>3 DEF HasWhatIsNeeded
<1>8. CASE Free
  BY <1>8, HasFree
<1>9. CASE UNCHANGED vars
  <2>1. UNCHANGED <<sweep, at, step, live, folds>>
    BY <1>9 DEF vars
  <2>2. \A v : (Landed(v)' => Landed(v)) /\ (Needed(v)' => Needed(v))
    BY <1>0, <2>1, ReadersStay DEF Landed, Needed
  <2>3. \A v : Swallowed(v) => Swallowed(v)'
    BY <2>1, ReadersStay DEF Swallowed
  <2>4. (InBody' => InBody) /\ (want_aux' <=> want_aux) /\ (have_ch1' <=> have_ch1)
        /\ (Routed(at)' <=> Routed(at))
    BY <1>0, <2>1 DEF InBody, Running, want_aux, have_ch1, Routed
  <2> QED BY <1>0, <2>1, <2>2, <2>3, <2>4 DEF HasWhatIsNeeded
<1> QED BY <1>1, <1>2, <1>3, <1>4, <1>5, <1>6, <1>7, <1>8, <1>9 DEF Next
--------------------------------------------------------------------------------
(***************************************************************************)
(* No sweep holds a value longer than it is needed                         *)
(***************************************************************************)
\* What is kept to the end of the sweep, and what a claim from here on reads.
Kept(v) == v = X \/ v = Y(n_ops) \/ \E j \in Ops : v \in tape[j].operands
ToCome(v) == Kept(v) \/ \E j \in Ops : j >= at /\ v \in tape[j].ivars

\* The strengthening of LiveIsNeeded, at every step of the loop's body.
HeldInv ==
  /\ \A v \in DOMAIN inputs : Kept(v)
  /\ InBody => \A v \in DOMAIN live :
       \/ ToCome(v)
       \/ at <= n_ops /\ step # "compute" /\ v = Y(at)
       \/ step \in {"emit", "free"} /\ v \in OwnAux
  /\ step = "end" => \A v \in DOMAIN live : Kept(v)
  /\ step = "begin" => live = << >>

\* Before the first proof only the inputs are kept.
LEMMA HeldInit ==
  ASSUME Init
  PROVE  HeldInv
<1>1. \A v \in DOMAIN inputs : v = X
  BY DEF Init, Single
<1> QED BY <1>1 DEF Init, HeldInv, InBody, Kept

\* What freeing leaves is kept to the end of the sweep or read by a later claim.
LEMMA LeftIsNeeded ==
  ASSUME TypeInv, HeldInv, Free, NEW v \in DOMAIN live'
  PROVE  v \in DOMAIN live /\ (Kept(v) \/ \E j \in Ops : j > at /\ v \in tape[j].ivars)
<1>0. /\ n_ops \in Nat /\ Ops = 1..n_ops /\ at \in Nat
      /\ InBody /\ step = "free" /\ at \in 1..(n_ops + 1)
  BY TapeAtHand DEF Free, At, InBody, TypeInv
<1>1. v \in DOMAIN live /\ v \notin Dead /\ v \notin OwnAux
  <2>1. PICK freed : live' = Restrict(live, DOMAIN live \ (Dead \cup freed \cup OwnAux))
    BY DEF Free
  <2> QED BY <2>1 DEF Restrict
<1>2. ASSUME LastUse(v) > at
      PROVE  Kept(v) \/ \E j \in Ops : j > at /\ v \in tape[j].ivars
  <2>1. LastUse(v) \in Nat /\ LastUse(v) \in Ops /\ ReadBy(v, LastUse(v))
    BY <1>0, <1>2, LastUseFacts
  <2> QED BY <1>0, <1>2, <2>1 DEF ReadBy, Kept
<1>3. CASE ToCome(v)
  <2>1. CASE Kept(v)
    BY <1>1, <2>1
  <2>2. CASE \E j \in Ops : j >= at /\ v \in tape[j].ivars
    <3>1. PICK j \in Ops : j >= at /\ v \in tape[j].ivars
      BY <2>2
    <3>2. CASE j > at
      BY <1>1, <3>1, <3>2
    <3>3. CASE j = at
      <4>1. LastUse(v) # at /\ at <= n_ops
        BY <1>0, <1>1, <3>1, <3>3 DEF Dead
      <4>2. LastUse(v) \in Nat /\ at <= LastUse(v)
        BY <1>0, <3>1, <3>3, LastUseFacts DEF ReadBy
      <4> QED BY <1>0, <1>1, <1>2, <4>1, <4>2
    <3> QED BY <1>0, <3>1, <3>2, <3>3
  <2> QED BY <1>3, <2>1, <2>2 DEF ToCome
<1>4. CASE at <= n_ops /\ v = Y(at)
  <2>1. CASE at = n_ops
    BY <1>1, <1>4, <2>1 DEF Kept
  <2>2. CASE at # n_ops
    <3>1. ~(LastUse(v) <= at) /\ LastUse(v) \in Nat
      BY <1>0, <1>1, <1>4, <2>2, LastUseFacts DEF Dead
    <3> QED BY <1>0, <1>1, <1>2, <3>1
  <2> QED BY <2>1, <2>2
<1> QED BY <1>0, <1>1, <1>3, <1>4 DEF HeldInv

\* Nothing stays in memory beyond its last reader.
LEMMA HeldStep ==
  ASSUME TypeInv, HeldInv, [Next]_vars
  PROVE  HeldInv'
<1>0. /\ n_ops \in Nat /\ Ops = 1..n_ops /\ at \in Nat /\ at \in 0..(n_ops + 1)
      /\ tape' = tape /\ n_ops' = n_ops /\ Ops' = Ops
  BY TapeIsFixed, TapeAtHand DEF TypeInv
<1>1. \A v : Kept(v)' <=> Kept(v)
  BY <1>0 DEF Kept
<1>2. at' = at => \A v : ToCome(v)' <=> ToCome(v)
  BY <1>0, <1>1 DEF ToCome
<1>3. sweep' = sweep /\ at' = at => OwnAux' = OwnAux
  BY DEF OwnAux, want_aux, have_ch1
<1>4. CASE StartProof
  BY <1>1, <1>4 DEF StartProof, HeldInv, InBody, TypeInv
<1>5. CASE BeginSweep
  <2>1. live' = inputs /\ inputs' = inputs /\ step' \in {"compute", "aux", "emit", "end"}
    BY <1>5, EnterMoves DEF BeginSweep
  <2>2. \A v \in DOMAIN live' : ToCome(v)' /\ Kept(v)'
    BY <1>1, <2>1 DEF HeldInv, ToCome
  <2> QED BY <1>1, <2>1, <2>2 DEF HeldInv
<1>6. CASE Compute \/ Reuse \/ Finalize
  <2>1. /\ At("compute") /\ UNCHANGED <<sweep, at, inputs>>
        /\ \E out : Land(out)
    BY <1>6 DEF Compute, Reuse, Finalize
  <2>2. /\ step' \in {"aux", "emit"} /\ DOMAIN live' = DOMAIN live \cup {Y(at)}
    BY <2>1 DEF Land, Over, Single
  <2>3. InBody /\ step = "compute" /\ at <= n_ops
    BY <2>1 DEF At, InBody, TypeInv
  <2>4. \A v \in DOMAIN live' : ToCome(v)' \/ (at' <= n_ops' /\ step' # "compute" /\ v = Y(at'))
    BY <1>0, <1>2, <2>1, <2>2, <2>3 DEF HeldInv
  <2> QED BY <1>1, <2>1, <2>2, <2>4 DEF HeldInv
<1>7. CASE Auxiliary
  <2>1. /\ At("aux") /\ step' = "emit" /\ UNCHANGED <<sweep, at, inputs>>
        /\ DOMAIN live' = {Aux(at)} \cup (IF Routed(at) THEN {Pj(at)} ELSE {})
                          \cup (IF Routed(at) /\ have_ch1 THEN {Late(at)} ELSE {})
                          \cup DOMAIN live
    BY <1>7 DEF Auxiliary, Over
  <2>2. InBody /\ step = "aux" /\ want_aux
    BY <2>1 DEF At, InBody, TypeInv
  <2>3. DOMAIN live' \subseteq DOMAIN live \cup OwnAux
    BY <2>1, <2>2 DEF OwnAux
  <2>4. ASSUME NEW v \in DOMAIN live'
        PROVE  \/ ToCome(v)' \/ (at' <= n_ops' /\ step' # "compute" /\ v = Y(at'))
               \/ step' \in {"emit", "free"} /\ v \in OwnAux'
    BY <1>0, <1>2, <1>3, <2>1, <2>2, <2>3 DEF HeldInv
  <2> QED BY <1>1, <2>1, <2>4 DEF HeldInv
<1>8. CASE Emit
  <2>1. At("emit") /\ step' = "free" /\ UNCHANGED <<sweep, at, inputs, live>>
    BY <1>8 DEF Emit
  <2>2. InBody /\ step = "emit"
    BY <2>1 DEF At, InBody
  <2>3. ASSUME NEW v \in DOMAIN live'
        PROVE  \/ ToCome(v)' \/ (at' <= n_ops' /\ step' # "compute" /\ v = Y(at'))
               \/ step' \in {"emit", "free"} /\ v \in OwnAux'
    BY <1>0, <1>2, <1>3, <2>1, <2>2 DEF HeldInv
  <2> QED BY <1>1, <2>1, <2>3 DEF HeldInv
<1>9. CASE Free
  <2>1. /\ \A v \in DOMAIN live' : Kept(v) \/ \E j \in Ops : j > at /\ v \in tape[j].ivars
        /\ inputs' = inputs /\ at + 1 \in Nat /\ Enter(at + 1)
    BY <1>0, <1>9, LeftIsNeeded DEF Free
  <2>2. CASE step' # "end"
    <3>1. at' = at + 1 /\ step' \in {"compute", "aux", "emit"}
      BY <2>1, <2>2, EnterMoves
    <3>2. \A v \in DOMAIN live' : ToCome(v)'
      BY <1>0, <1>1, <2>1, <3>1 DEF ToCome
    <3> QED BY <1>1, <2>1, <3>1, <3>2 DEF HeldInv
  <2>3. CASE step' = "end"
    <3>1. at + 1 > n_ops
      BY <2>1, <2>3, EnterMoves
    <3>2. \A v \in DOMAIN live' : Kept(v)'
      BY <1>0, <1>1, <2>1, <3>1
    <3> QED BY <1>1, <2>1, <2>3, <3>2 DEF HeldInv, InBody
  <2> QED BY <2>2, <2>3
<1>10. CASE EndSweep
  <2>1. /\ step = "end" /\ step' = "begin" /\ live' = << >>
        /\ DOMAIN inputs' = DOMAIN live \cup DOMAIN inputs
    BY <1>10 DEF EndSweep, At, Over
  <2>2. \A v \in DOMAIN inputs' : Kept(v)'
    BY <1>1, <2>1 DEF HeldInv
  <2> QED BY <2>1, <2>2 DEF HeldInv, InBody
<1>11. CASE Raise
  BY <1>1, <1>11 DEF Raise, HeldInv, InBody
<1>12. CASE UNCHANGED vars
  <2>1. UNCHANGED <<sweep, at, step, live, inputs>>
    BY <1>12 DEF vars
  <2>2. InBody' => InBody
    BY <2>1 DEF InBody, Running
  <2> QED BY <1>0, <1>1, <1>2, <1>3, <2>1, <2>2 DEF HeldInv
<1> QED BY <1>4, <1>5, <1>6, <1>7, <1>8, <1>9, <1>10, <1>11, <1>12 DEF Next
--------------------------------------------------------------------------------
(***************************************************************************)
(* The expert shards are walked once                                       *)
(***************************************************************************)
\* A pass over the shards is on record, and the record is of this proof's coin.
WalkInv ==
  /\ DOMAIN pcache \subseteq Ops \X {Rho(proof)}
  /\ walks \in [Ops -> {0, 1}]
  /\ \A i \in Ops : walks[i] = 1 => <<i, Rho(proof)>> \in DOMAIN pcache

\* A claim whose projection is cached is not walked, and one that is walked is cached.
LEMMA WalkOnce ==
  ASSUME TypeInv, WalkInv, Routed(at) \/ UNCHANGED <<pcache, walks>>,
         ProjectOnce \/ UNCHANGED <<pcache, walks>>, UNCHANGED <<tape, proof>>
  PROVE  WalkInv'
<1>1. Ops' = Ops /\ Rho(proof)' = Rho(proof)
  BY DEF Ops, n_ops, Rho
<1>2. CASE UNCHANGED <<pcache, walks>>
  BY <1>1, <1>2 DEF WalkInv
<1>3. CASE Routed(at) /\ ~UNCHANGED <<pcache, walks>>
  <2>1. /\ at \in Ops /\ <<at, Rho(proof)>> \notin DOMAIN pcache
        /\ DOMAIN pcache' = DOMAIN pcache \cup {<<at, Rho(proof)>>}
        /\ walks' = [walks EXCEPT ![at] = @ + 1]
    BY <1>3 DEF ProjectOnce, Routed, Over, Single
  <2>2. walks[at] = 0
    BY <2>1 DEF WalkInv
  <2>3. walks' = [walks EXCEPT ![at] = 1]
    BY <2>1, <2>2 DEF WalkInv
  <2>4. walks' \in [Ops -> {0, 1}]
    BY <2>1, <2>3 DEF WalkInv
  <2>5. DOMAIN pcache' \subseteq Ops \X {Rho(proof)}
    BY <2>1 DEF WalkInv
  <2>6. \A i \in Ops : walks'[i] = 1 => <<i, Rho(proof)>> \in DOMAIN pcache'
    BY <2>1, <2>3 DEF WalkInv
  <2> QED BY <1>1, <2>4, <2>5, <2>6 DEF WalkInv
<1> QED BY <1>2, <1>3

\* Every step keeps the record of the walks true.
LEMMA WalkStep ==
  ASSUME TypeInv, WalkInv, [Next]_vars
  PROVE  WalkInv'
<1>1. CASE StartProof
  <2>1. Ops' = Ops /\ pcache' = << >> /\ walks' = [i \in Ops |-> 0]
    BY <1>1, TapeIsFixed DEF StartProof
  <2> QED BY <2>1 DEF WalkInv
<1>2. CASE BeginSweep \/ Finalize \/ Emit \/ Free \/ EndSweep \/ Raise \/ UNCHANGED vars
  <2>1. UNCHANGED <<tape, proof, pcache, walks>>
    BY <1>2 DEF BeginSweep, Finalize, Emit, Free, EndSweep, Raise, vars
  <2> QED BY <2>1, WalkOnce
<1>3. CASE Compute \/ Reuse \/ Auxiliary
  <2>1. /\ UNCHANGED <<tape, proof>>
        /\ IF Routed(at) THEN ProjectOnce ELSE UNCHANGED <<pcache, walks>>
    BY <1>3 DEF Compute, Reuse, Auxiliary
  <2> QED BY <2>1, WalkOnce
<1> QED BY <1>1, <1>2, <1>3 DEF Next
--------------------------------------------------------------------------------
(***************************************************************************)
(* The witness: computing the tape once, and adding up its values          *)
(***************************************************************************)
\* A value of the tape: its input or the output of one of its claims.
TapeVar(v) == v = X \/ \E k \in Ops : v = Y(k)

\* A claim reads the input and the outputs of earlier claims, finitely many.
LEMMA ReadsAreEarlier ==
  ASSUME TypeInv, NEW i \in Ops
  PROVE  /\ IsFiniteSet(tape[i].ivars) /\ IsFiniteSet(tape[i].operands)
         /\ \A v \in tape[i].ivars \cup tape[i].operands :
              TapeVar(v) /\ v[2] \in 0..(i - 1) /\ v[2] \in 0..n_ops
<1> DEFINE Out == {Y(k) : k \in Ops}
           f == [k \in Ops |-> Y(k)]
<1>1. /\ IsTape(tape) /\ n_ops \in Nat /\ Ops = 1..n_ops /\ DOMAIN tape = Ops /\ Len(tape) = n_ops
  BY TapeAtHand DEF n_ops
<1>2. IsFiniteSet({X} \cup Out)
  <2>1. IsFiniteSet(Ops)
    BY <1>1, FS_Interval
  <2>2. f \in Surjection(Ops, Out)
    BY DEF Surjection
  <2>3. IsFiniteSet(Out)
    BY <2>1, <2>2, FS_Surjection
  <2> HIDE DEF Out
  <2> QED BY <2>3, FS_Singleton, FS_Union
<1>3. tape[i].ivars \subseteq {X} \cup Out /\ tape[i].operands \subseteq {X} \cup Out
  BY <1>1, TapeFacts
<1>4. ASSUME NEW v \in tape[i].ivars \cup tape[i].operands
      PROVE  TapeVar(v) /\ v[2] \in 0..(i - 1) /\ v[2] \in 0..n_ops
  <2>1. CASE v = X
    BY <1>1, <2>1 DEF X, TapeVar
  <2>2. CASE v # X
    <3>1. PICK k \in Ops : v = Y(k)
      BY <1>3, <2>2
    <3>2. k < i
      BY <1>1, <1>4, <3>1, TapeFacts
    <3>3. v[2] = k
      BY <3>1 DEF Y
    <3> QED BY <1>1, <3>1, <3>2, <3>3 DEF TapeVar
  <2> QED BY <2>1, <2>2
<1> HIDE DEF Out
<1> QED BY <1>2, <1>3, <1>4, FS_Subset

\* Computing the tape once is well defined: claim by claim, a function up to k
\* extends to one up to k + 1.
Computes(g, k) ==
  g = [i \in 0..k |-> IF i = 0 THEN 1
                      ELSE Weights(i) + SumOf([v \in tape[i].ivars |-> g[v[2]]], tape[i].ivars)]

\* The output of a claim, from those of the claims it reads.
LEMMA ComputesAt ==
  ASSUME NEW g, NEW k \in Nat, Computes(g, k), NEW i \in 0..k
  PROVE  g[i] = IF i = 0 THEN 1
                ELSE Weights(i) + SumOf([v \in tape[i].ivars |-> g[v[2]]], tape[i].ivars)
<1> DEFINE e(j) == IF j = 0 THEN 1
                   ELSE Weights(j) + SumOf([v \in tape[j].ivars |-> g[v[2]]], tape[j].ivars)
<1>1. g = [j \in 0..k |-> e(j)]
  BY DEF Computes
<1> HIDE DEF e
<1>2. g[i] = e(i)
  BY <1>1
<1> QED BY <1>2 DEF e

\* The recursive definition of the outputs computes them, for every claim of every tape.
LEMMA OutputIs ==
  ASSUME TypeInv
  PROVE  Computes(Output, n_ops)
<1> DEFINE K == {k \in Nat : k <= n_ops => \E g : Computes(g, k)}
<1>0. n_ops \in Nat /\ Ops = 1..n_ops
  BY TapeAtHand
<1>1. 0 \in K
  <2> DEFINE g == [i \in 0..0 |-> 1]
  <2>1. \A i \in 0..0 : i = 0
    OBVIOUS
  <2>2. Computes(g, 0)
    BY <2>1 DEF Computes
  <2> HIDE DEF g
  <2> QED BY <2>2
<1>2. ASSUME NEW k \in Nat, k \in K PROVE k + 1 \in K
  <2> SUFFICES ASSUME k + 1 <= n_ops PROVE \E h : Computes(h, k + 1)
    OBVIOUS
  <2>1. PICK g : Computes(g, k)
    BY <1>0, <1>2
  <2> DEFINE h == [i \in 0..(k + 1) |-> IF i = 0 THEN 1
                     ELSE Weights(i) + SumOf([v \in tape[i].ivars |-> g[v[2]]], tape[i].ivars)]
  <2>2. \A i \in 0..k : h[i] = g[i]
    <3>1. \A i \in 0..k : i \in 0..(k + 1)
      OBVIOUS
    <3> QED BY <2>1, <3>1, ComputesAt
  <2>3. ASSUME NEW i \in 0..(k + 1), i # 0
        PROVE  [v \in tape[i].ivars |-> g[v[2]]] = [v \in tape[i].ivars |-> h[v[2]]]
    <3>1. i \in Ops
      BY <1>0, <2>3
    <3>2. \A v \in tape[i].ivars : v[2] \in 0..(i - 1)
      BY <3>1, ReadsAreEarlier
    <3>3. \A v \in tape[i].ivars : v[2] \in 0..k
      BY <2>3, <3>2
    <3> HIDE DEF h
    <3> QED BY <2>2, <3>3
  <2>4. h = [i \in 0..(k + 1) |-> h[i]]
    OBVIOUS
  <2>5. \A i \in 0..(k + 1) : h[i] =
          IF i = 0 THEN 1
          ELSE Weights(i) + SumOf([v \in tape[i].ivars |-> g[v[2]]], tape[i].ivars)
    OBVIOUS
  <2> HIDE DEF h
  <2>6. \A i \in 0..(k + 1) : h[i] =
          IF i = 0 THEN 1
          ELSE Weights(i) + SumOf([v \in tape[i].ivars |-> h[v[2]]], tape[i].ivars)
    BY <2>3, <2>5
  <2>7. Computes(h, k + 1)
    BY <2>4, <2>6 DEF Computes
  <2> QED BY <2>7
<1> HIDE DEF K
<1>3. Nat \subseteq K
  BY <1>1, <1>2, NatIsLeast
<1>4. PICK g : Computes(g, n_ops)
  BY <1>0, <1>3 DEF K
<1>5. Output = CHOOSE h : Computes(h, n_ops)
  BY DEF Output, Computes
<1> QED BY <1>4, <1>5

\* The input is 1, a claim's output is its weights and the sum of what it reads,
\* and all of them are integers.
LEMMA OutputFacts ==
  ASSUME TypeInv
  PROVE  /\ Output[0] = 1
         /\ \A i \in Ops : Output[i] = Weights(i) + ValueSum(tape[i].ivars)
         /\ \A i \in 0..n_ops : Output[i] \in Int
<1>0. n_ops \in Nat /\ Ops = 1..n_ops
  BY TapeAtHand
<1>1. Output[0] = 1
  <2>1. 0 \in 0..n_ops /\ n_ops \in Nat /\ Computes(Output, n_ops)
    BY <1>0, OutputIs
  <2> QED BY ONLY <2>1, ComputesAt
<1>2. ASSUME NEW i \in Ops PROVE Output[i] = Weights(i) + ValueSum(tape[i].ivars)
  <2>1. i \in 0..n_ops /\ i # 0
    BY <1>0
  <2> QED BY <1>0, <2>1, OutputIs, ComputesAt DEF ValueSum, Value
<1> DEFINE K == {k \in Nat : \A i \in 0..n_ops : i <= k => Output[i] \in Int}
<1>3. 0 \in K
  BY <1>1
<1>4. ASSUME NEW k \in Nat, k \in K PROVE k + 1 \in K
  <2> SUFFICES ASSUME NEW i \in 0..n_ops, i <= k + 1 PROVE Output[i] \in Int
    OBVIOUS
  <2>1. CASE i <= k
    BY <1>4, <2>1
  <2>2. CASE ~(i <= k)
    <3>1. i = k + 1 /\ i \in Ops
      BY <1>0, <2>2
    <3>2. IsFiniteSet(tape[i].ivars) /\ \A v \in tape[i].ivars : v[2] \in 0..n_ops /\ v[2] <= k
      BY <3>1, ReadsAreEarlier
    <3>3. \A v \in tape[i].ivars : [u \in tape[i].ivars |-> Value(u)][v] \in Int
      BY <1>4, <3>2 DEF Value
    <3>4. ValueSum(tape[i].ivars) \in Int
      BY <3>2, <3>3, SumInt DEF ValueSum
    <3>5. Weights(i) \in Int
      BY <3>1 DEF Weights
    <3> QED BY <1>2, <3>1, <3>4, <3>5
  <2> QED BY <2>1, <2>2
<1> HIDE DEF K
<1>5. Nat \subseteq K
  BY <1>3, <1>4, NatIsLeast
<1>6. \A i \in 0..n_ops : Output[i] \in Int
  BY <1>0, <1>5 DEF K
<1> QED BY <1>1, <1>2, <1>6

\* The values of the tape.
LEMMA ValueFacts ==
  ASSUME TypeInv
  PROVE  /\ \A v : TapeVar(v) => Value(v) \in Int
         /\ Value(X) = 1
         /\ \A i \in Ops : Value(Y(i)) = Output[i]
<1>1. X[2] = 0 /\ \A i : Y(i)[2] = i
  BY DEF X, Y
<1>2. n_ops \in Nat /\ Ops = 1..n_ops
  BY TapeAtHand
<1> QED BY <1>1, <1>2, OutputFacts DEF Value, TapeVar

\* Adding up values of the tape, wherever they are kept.
LEMMA SumOfValues ==
  ASSUME TypeInv, NEW S, IsFiniteSet(S), \A v \in S : TapeVar(v),
         NEW f, \A v \in S : f[v] = Value(v)
  PROVE  SumOf(f, S) = ValueSum(S) /\ ValueSum(S) \in Int
<1> DEFINE g == [v \in S |-> Value(v)]
<1>1. \A v \in S : f[v] = g[v] /\ g[v] \in Int
  BY ValueFacts
<1>2. ValueSum(S) = SumOf(g, S)
  BY DEF ValueSum
<1> HIDE DEF g
<1> QED BY <1>1, <1>2, SumSame, SumInt

\* Sums over disjoint sets of values add up.
LEMMA ValuesTogether ==
  ASSUME TypeInv, NEW A, NEW B, IsFiniteSet(A), IsFiniteSet(B), A \cap B = {},
         \A v \in A \cup B : TapeVar(v)
  PROVE  ValueSum(A \cup B) = ValueSum(A) + ValueSum(B)
<1> DEFINE g == [v \in A \cup B |-> Value(v)]
<1>1. \A v \in A \cup B : g[v] = Value(v) /\ g[v] \in Int
  BY ValueFacts
<1>2. ValueSum(A \cup B) = SumOf(g, A \cup B)
  BY DEF ValueSum
<1> HIDE DEF g
<1>3. SumOf(g, A) = ValueSum(A) /\ SumOf(g, B) = ValueSum(B)
  BY <1>1, SumOfValues
<1> QED BY <1>1, <1>2, <1>3, SumUnion

\* The sum of one value.
LEMMA OneValue ==
  ASSUME TypeInv, NEW v, TapeVar(v)
  PROVE  ValueSum({v}) = Value(v) /\ IsFiniteSet({v})
<1> DEFINE g == [u \in {v} |-> Value(u)]
<1>1. IsFiniteSet({v}) /\ IsFiniteSet({}) /\ {v} \ {v} = {}
  BY FS_Singleton, FS_EmptySet
<1>2. g[v] = Value(v) /\ Value(v) \in Int
  BY ValueFacts
<1>3. SumOf(g, {v}) = g[v] + SumOf(g, {v} \ {v})
  <2> HIDE DEF g
  <2> QED BY <1>1, <1>2, SumTake
<1>4. SumOf(g, {}) = 0
  BY <1>1, SumIsPick
<1> HIDE DEF g
<1>5. SumOf(g, {v}) = Value(v)
  BY <1>1, <1>2, <1>3, <1>4
<1>6. \A u \in {v} : g[u] = Value(u)
  BY <1>2
<1> QED BY <1>1, <1>5, <1>6, SumOfValues
--------------------------------------------------------------------------------
\* The rows of a sweep, group by group.
LEMMA RowsUpToIs ==
  ASSUME TypeInv, NEW s, NEW p
  PROVE  /\ RowsUpTo(s, p)[0] = << >>
         /\ \A i \in 1..Groups : RowsUpTo(s, p)[i] = RowsUpTo(s, p)[i - 1] \o ExpectedOf(i, s, p)
<1> DEFINE each == [i \in 1..Groups |-> ExpectedOf(i, s, p)]
<1>1. Groups \in Nat
  BY TapeAtHand DEF Groups
<1>2. RowsUpTo(s, p) = Joined(each, Groups)
  BY DEF RowsUpTo
<1>3. \A i \in 1..Groups : each[i] = ExpectedOf(i, s, p)
  OBVIOUS
<1> HIDE DEF each
<1> QED BY <1>1, <1>2, <1>3, JoinedIs

\* The witness and the rows depend on the tape alone, and it is never changed.
LEMMA WitnessIsFixed ==
  ASSUME tape' = tape
  PROVE  /\ Output' = Output /\ MultCount' = MultCount /\ Groups' = Groups
         /\ \A v : Value(v)' = Value(v) /\ (TapeVar(v)' <=> TapeVar(v))
         /\ \A S : ValueSum(S)' = ValueSum(S)
         /\ \A i : Routed(i)' <=> Routed(i)
         /\ \A i, p : AuxValue(i, p)' = AuxValue(i, p)
         /\ \A s, p : RowsUpTo(s, p)' = RowsUpTo(s, p)
<1>1. Output' = Output
  BY DEF Output, n_ops
<1>2. MultCount' = MultCount
  BY <1>1 DEF MultCount, Ops, n_ops
<1>3. \A i, s, p : ExpectedOf(i, s, p)' = ExpectedOf(i, s, p)
  BY <1>1, <1>2 DEF ExpectedOf, Entries, RowVars, RowValue, AuxValue, ValueSum, Value,
                    n_ops, Ops, Routed
<1>4. Groups' = Groups
  BY DEF Groups, Settled, Ops, n_ops
<1>5. ASSUME NEW s, NEW p PROVE RowsUpTo(s, p)' = RowsUpTo(s, p)
  <2>1. [i \in 1..Groups |-> ExpectedOf(i, s, p)]' = [i \in 1..Groups |-> ExpectedOf(i, s, p)]
    BY <1>3, <1>4
  <2> QED BY <1>4, <2>1 DEF RowsUpTo
<1>6. \A v : Value(v)' = Value(v) /\ (TapeVar(v)' <=> TapeVar(v))
  BY <1>1 DEF Value, TapeVar, Ops, n_ops
<1>7. \A S : ValueSum(S)' = ValueSum(S)
  BY <1>1 DEF ValueSum, Value
<1>8. \A i : Routed(i)' <=> Routed(i)
  BY DEF Routed, Ops, n_ops
<1>9. \A i, p : AuxValue(i, p)' = AuxValue(i, p)
  BY <1>1, <1>2 DEF AuxValue, ValueSum, Value, n_ops, Ops, Routed
<1> QED BY <1>1, <1>2, <1>4, <1>5, <1>6, <1>7, <1>8, <1>9
--------------------------------------------------------------------------------
(***************************************************************************)
(* Every sweep hands on the same witness                                   *)
(***************************************************************************)
\* Wherever a value is kept, it is the one that computing the tape once gives.
ValuesInv ==
  /\ proof \in Nat
  /\ \A v \in DOMAIN live : TapeVar(v) => live[v] = Value(v)
  /\ \A v \in DOMAIN inputs : TapeVar(v) => inputs[v] = Value(v)
  /\ \A i \in DOMAIN cache : i \in Ops /\ tape[i].kind # "fold" /\ cache[i] = Output[i]
  /\ \A i \in Ops : <<i, Rho(proof)>> \in DOMAIN pcache
              => pcache[<<i, Rho(proof)>>] = Project(i, Rho(proof))

\* A fold has added up the values it absorbed, its mask among them, each once.
SumsUp(f, st) ==
  /\ f \in Ops /\ tape[f].kind = "fold"
  /\ tape[f].mask \in st.absorbed /\ st.absorbed \subseteq tape[f].ivars
  /\ st.y = ValueSum(st.absorbed)
  /\ want_aux => st.s = ValueSum(st.absorbed)

FoldInv ==
  InBody =>
    /\ \A f \in DOMAIN folds : /\ SumsUp(f, folds[f])
                               /\ \A k \in Ops : Y(k) \in folds[f].absorbed => k < at
    /\ at <= n_ops /\ step # "compute" /\ tape[at].kind = "fold"
         => at \in DOMAIN folds /\ folds[at].absorbed = tape[at].ivars

\* The lookups of the claims that have landed are counted, each once.
Counted == {i \in Ops : tape[i].looks /\ (i < at \/ (i = at /\ step # "compute"))}
CountInv == InBody => mult = SumOf(Output, Counted)

\* The rows of the later phases are made of this proof's coins.
AuxInv ==
  InBody /\ step = "emit" =>
    /\ want_aux => live[Aux(at)] = AuxValue(at, proof)
    /\ want_aux /\ Routed(at) => live[Pj(at)] = Project(at, Rho(proof))
    /\ have_ch1 /\ Routed(at) => live[Late(at)] = Sigma(proof) + Project(at, Rho(proof))

\* What the sweep has handed on so far, and that the next ones have not begun.
Passed == CASE step = "begin" -> 0
            [] step \in {"compute", "aux", "emit"} -> at - 1
            [] step = "free" -> at
            [] step = "end" -> Groups
Ahead == CASE sweep = "R1" -> {"R2", "R3", "fold", "open"}
           [] sweep = "R2" -> {"R3", "fold", "open"}
           [] sweep = "R3" -> {"fold", "open"}
           [] sweep = "fold" -> {"open"}
           [] OTHER -> {}
RowsInv ==
  /\ DOMAIN rows = {"R1", "R2", "R3", "fold", "open"}
  /\ InBody => at <= Groups
  /\ Running => /\ rows[sweep] = RowsUpTo(sweep, proof)[Passed]
                /\ \A s \in Ahead : rows[s] = << >>

WitnessInv == ValuesInv /\ FoldInv /\ CountInv /\ AuxInv /\ RowsInv

\* The sweeps.
LEMMA SweepNames == Range(Sweeps) = {"R1", "R2", "R3", "fold", "open"}
<1>1. DOMAIN Sweeps = 1..5 /\ Sweeps \in Seq({"R1", "R2", "R3", "fold", "open"})
  BY DEF Sweeps
<1>2. /\ Sweeps[1] = "R1" /\ Sweeps[2] = "R2" /\ Sweeps[3] = "R3"
      /\ Sweeps[4] = "fold" /\ Sweeps[5] = "open"
  BY DEF Sweeps
<1>3. \A i \in 1..5 : i = 1 \/ i = 2 \/ i = 3 \/ i = 4 \/ i = 5
  OBVIOUS
<1>4. Range(Sweeps) = {Sweeps[i] : i \in 1..5}
  BY <1>1 DEF Range
<1> QED BY <1>2, <1>3, <1>4
\* What a claim reads from memory adds up to what it reads on the tape.
LEMMA ReadsAddUp ==
  ASSUME TypeInv, ValuesInv, NEW i \in Ops, NEW S, S \subseteq tape[i].ivars \/ S \subseteq tape[i].operands,
         S \subseteq DOMAIN live
  PROVE  SumOf(live, S) = ValueSum(S) /\ ValueSum(S) \in Int
<1>1. IsFiniteSet(S) /\ \A v \in S : TapeVar(v)
  BY ReadsAreEarlier, FS_Subset
<1>2. \A v \in S : live[v] = Value(v)
  BY <1>1 DEF ValuesInv
<1> QED BY <1>1, <1>2, SumOfValues

\* A fold begins with its mask, and absorbing adds each value once.
LEMMA InitSumsUp ==
  ASSUME TypeInv, ValuesInv, NEW f \in Ops, tape[f].kind = "fold", tape[f].mask \in DOMAIN live
  PROVE  SumsUp(f, InitState(f)) /\ InitState(f).absorbed = {tape[f].mask}
<1>1. tape[f].mask \in tape[f].ivars
  BY TapeAtHand, TapeFacts
<1>2. TapeVar(tape[f].mask)
  BY <1>1, ReadsAreEarlier
<1>3. live[tape[f].mask] = ValueSum({tape[f].mask})
  BY <1>2, OneValue DEF ValuesInv
<1> QED BY <1>1, <1>3 DEF SumsUp, InitState

\* A fold that absorbs further streams is still the sum of what it absorbed.
LEMMA AbsorbedSumsUp ==
  ASSUME TypeInv, ValuesInv, NEW f, NEW st, SumsUp(f, st),
         NEW S, S \subseteq tape[f].ivars, S \subseteq DOMAIN live, S \cap st.absorbed = {}
  PROVE  SumsUp(f, Absorbed(st, S, live)) /\ Absorbed(st, S, live).absorbed = st.absorbed \cup S
<1> DEFINE A == st.absorbed
<1>1. f \in Ops /\ A \subseteq tape[f].ivars
  BY DEF SumsUp
<1>2. SumOf(live, S) = ValueSum(S) /\ ValueSum(S) \in Int
  BY <1>1, ReadsAddUp
<1>3. /\ IsFiniteSet(A) /\ IsFiniteSet(S)
      /\ \A v \in A \cup S : TapeVar(v)
  BY <1>1, ReadsAreEarlier, FS_Subset
<1>4. ValueSum(A \cup S) = ValueSum(A) + ValueSum(S)
  BY <1>3, ValuesTogether
<1> QED BY <1>1, <1>2, <1>4 DEF SumsUp, Absorbed

\* Whichever way a claim's output comes about, from what is in memory, from the
\* cache or from the fold's state, it is the output of the tape computed once.
LEMMA FoldFinishes ==
  ASSUME TypeInv, ValuesInv, FoldInv, Finalize
  PROVE  /\ at \in Ops /\ Land(Output[at])
         /\ DOMAIN folds' = {at} \cup DOMAIN folds
         /\ \A f \in DOMAIN folds : f # at => folds'[f] = folds[f]
         /\ SumsUp(at, folds'[at]) /\ folds'[at].absorbed = tape[at].ivars
<1> DEFINE st == IF at \in DOMAIN folds THEN folds[at] ELSE InitState(at)
           rest == Foldable(tape, at) \ st.absorbed
           done == Absorbed(st, rest, live)
<1>1. /\ Running /\ step = "compute" /\ Present /\ tape[at].kind = "fold"
      /\ folds' = Over(Single(at, done), folds) /\ Land(Weights(at) + done.y)
  BY DEF Finalize, At
<1>2. at \in Ops /\ InBody /\ tape[at].mask \in tape[at].ivars
  <2>1. InBody /\ at \in 1..(n_ops + 1) /\ at <= n_ops
    BY <1>1 DEF TypeInv, InBody
  <2>2. at \in Ops /\ DOMAIN tape = Ops /\ IsTape(tape)
    BY <2>1, TapeAtHand
  <2> QED BY <1>1, <2>1, <2>2, TapeFacts
<1>3. Reads = tape[at].ivars \ (IF at \in DOMAIN folds THEN folds[at].absorbed ELSE {})
  BY <1>1 DEF Reads
<1>4. SumsUp(at, st)
  <2>1. CASE at \in DOMAIN folds
    BY <1>2, <2>1 DEF FoldInv
  <2>2. CASE at \notin DOMAIN folds
    <3>1. tape[at].mask \in DOMAIN live
      BY <1>1, <1>2, <1>3, <2>2 DEF Present
    <3> QED BY <1>1, <1>2, <2>2, <3>1, InitSumsUp
  <2> QED BY <2>1, <2>2
<1>5. /\ rest = tape[at].ivars \ st.absorbed /\ st.absorbed \cup rest = tape[at].ivars
      /\ rest \subseteq DOMAIN live
  <2>1. rest = tape[at].ivars \ st.absorbed
    BY <1>1, <1>4 DEF Foldable, SumsUp
  <2>2. rest \subseteq Reads
    BY <1>3, <2>1
  <2> QED BY <1>1, <1>4, <2>1, <2>2 DEF Present, SumsUp
<1> HIDE DEF st
<1>6. SumsUp(at, done) /\ done.absorbed = tape[at].ivars
  <2>1. rest \subseteq tape[at].ivars /\ rest \cap st.absorbed = {}
    BY <1>5
  <2> HIDE DEF rest
  <2>2. SumsUp(at, st) /\ rest \subseteq DOMAIN live /\ st.absorbed \cup rest = tape[at].ivars
    BY <1>4, <1>5
  <2>3. SumsUp(at, Absorbed(st, rest, live)) /\ Absorbed(st, rest, live).absorbed = st.absorbed \cup rest
    BY ONLY TypeInv, ValuesInv, <2>1, <2>2, AbsorbedSumsUp
  <2> QED BY <2>2, <2>3
<1> HIDE DEF done
<1>7. Weights(at) + done.y = Output[at]
  BY <1>2, <1>6, OutputFacts DEF SumsUp
<1>8. /\ DOMAIN folds' = {at} \cup DOMAIN folds /\ folds'[at] = done
      /\ \A f \in DOMAIN folds : f # at => folds'[f] = folds[f]
  BY <1>1 DEF Over, Single
<1> QED BY <1>1, <1>2, <1>6, <1>7, <1>8

\* Computed, reused or finalized, a claim lands its output.
LEMMA LandsOutput ==
  ASSUME TypeInv, ValuesInv, FoldInv, Compute \/ Reuse \/ Finalize
  PROVE  at \in Ops /\ step = "compute" /\ InBody /\ Land(Output[at])
<1>1. step = "compute" /\ InBody /\ at \in Ops /\ Present
  <2>1. Running /\ step = "compute" /\ Present
    BY DEF Compute, Reuse, Finalize, At
  <2>2. InBody /\ at \in 1..(n_ops + 1) /\ at <= n_ops
    BY <2>1 DEF TypeInv, InBody
  <2> QED BY <2>1, <2>2, TapeAtHand
<1>2. CASE Compute
  <2>1. tape[at].kind # "fold" /\ Land(Weights(at) + SumOf(live, tape[at].ivars))
    BY <1>2 DEF Compute
  <2>2. tape[at].ivars \subseteq DOMAIN live
    BY <1>1, <2>1 DEF Present, Reads, InBody
  <2>3. SumOf(live, tape[at].ivars) = ValueSum(tape[at].ivars)
    BY <1>1, <2>2, ReadsAddUp
  <2> QED BY <1>1, <2>1, <2>3, OutputFacts
<1>3. CASE Reuse
  BY <1>1, <1>3 DEF Reuse, ValuesInv
<1>4. CASE Finalize
  BY <1>1, <1>4, FoldFinishes
<1> QED BY <1>2, <1>3, <1>4

\* A projection that is kept is the one of this proof's coin.
LEMMA ProjectsRight ==
  ASSUME ValuesInv, Routed(at), ProjectOnce
  PROVE  /\ \A i \in Ops : <<i, Rho(proof)>> \in DOMAIN pcache'
                             => pcache'[<<i, Rho(proof)>>] = Project(i, Rho(proof))
         /\ want_aux => pcache'[<<at, Rho(proof)>>] = Project(at, Rho(proof))
<1> DEFINE key == <<at, Rho(proof)>>
<1>1. at \in Ops
  BY DEF Routed
<1>2. CASE want_aux /\ key \notin DOMAIN pcache
  <2>1. pcache' = Over(Single(key, Project(at, Rho(proof))), pcache)
    BY <1>2 DEF ProjectOnce
  <2>2. /\ DOMAIN pcache' = {key} \cup DOMAIN pcache /\ pcache'[key] = Project(at, Rho(proof))
        /\ \A k \in DOMAIN pcache : k # key => pcache'[k] = pcache[k]
    BY <2>1 DEF Over, Single
  <2>3. ASSUME NEW i \in Ops, <<i, Rho(proof)>> \in DOMAIN pcache'
        PROVE  pcache'[<<i, Rho(proof)>>] = Project(i, Rho(proof))
    <3>1. CASE i = at
      BY <2>2, <3>1
    <3>2. CASE i # at
      BY <2>2, <2>3, <3>2 DEF ValuesInv
    <3> QED BY <3>1, <3>2
  <2> QED BY <2>2, <2>3
<1>3. CASE ~(want_aux /\ key \notin DOMAIN pcache)
  <2>1. pcache' = pcache
    BY <1>3 DEF ProjectOnce
  <2> QED BY <1>1, <1>3, <2>1 DEF ValuesInv
<1> QED BY <1>2, <1>3
\* The new output joins the values in memory.
LEMMA LandedValues ==
  ASSUME TypeInv, ValuesInv, at \in Ops, Land(Output[at])
  PROVE  \A v \in DOMAIN live' : TapeVar(v) => live'[v] = Value(v)
<1>1. live' = Over(Single(Y(at), Output[at]), live)
  BY DEF Land
<1>2. /\ DOMAIN live' = {Y(at)} \cup DOMAIN live /\ live'[Y(at)] = Output[at]
      /\ \A v \in DOMAIN live : v # Y(at) => live'[v] = live[v]
  BY <1>1 DEF Over, Single
<1> QED BY <1>2, ValueFacts DEF ValuesInv

\* Memory, the inputs and the caches go on holding the values the tape defines.
LEMMA ValuesStep ==
  ASSUME TypeInv, WitnessInv, WalkInv, [Next]_vars
  PROVE  ValuesInv'
<1> USE DEF WitnessInv
<1>0. /\ tape' = tape /\ Ops' = Ops /\ Output' = Output
      /\ \A v : Value(v)' = Value(v) /\ (TapeVar(v)' <=> TapeVar(v))
  <2>1. tape' = tape /\ Ops' = Ops
    BY TapeIsFixed
  <2> QED BY <2>1, WitnessIsFixed
<1> DEFINE Caches == \A i \in DOMAIN cache : i \in Ops /\ tape[i].kind # "fold" /\ cache[i] = Output[i]
           Projects == \A i \in Ops : <<i, Rho(proof)>> \in DOMAIN pcache
                                        => pcache[<<i, Rho(proof)>>] = Project(i, Rho(proof))
           Right(f) == \A v \in DOMAIN f : TapeVar(v) => f[v] = Value(v)
<1>9. ASSUME proof' \in Nat, Right(live'), Right(inputs'), Caches', Projects'
      PROVE  ValuesInv'
  <2>1. \A v \in DOMAIN live' : TapeVar(v)' => live'[v] = Value(v)'
    BY <1>0, <1>9
  <2>2. \A v \in DOMAIN inputs' : TapeVar(v)' => inputs'[v] = Value(v)'
    BY <1>0, <1>9
  <2> QED BY <1>9, <2>1, <2>2 DEF ValuesInv
<1>10. ASSUME UNCHANGED <<cache, pcache, proof>> PROVE Caches' /\ Projects' /\ proof' \in Nat
  BY <1>0, <1>10 DEF ValuesInv, Rho, Project
<1>1. CASE StartProof
  <2>1. /\ proof' = proof + 1 /\ cache' = << >> /\ pcache' = << >>
        /\ UNCHANGED <<live, inputs>>
    BY <1>1 DEF StartProof
  <2> QED BY <1>9, <2>1 DEF ValuesInv
<1>2. CASE BeginSweep
  <2>1. live' = inputs /\ UNCHANGED <<inputs, cache, pcache, proof>>
    BY <1>2 DEF BeginSweep
  <2>2. Right(live') /\ Right(inputs')
    BY <2>1 DEF ValuesInv
  <2> QED BY <1>9, <1>10, <2>1, <2>2
<1>3. CASE Compute \/ Reuse \/ Finalize
  <2>1. at \in Ops /\ Land(Output[at]) /\ UNCHANGED <<inputs, proof>>
    BY <1>3, LandsOutput DEF Compute, Reuse, Finalize
  <2>2. Right(live') /\ Right(inputs') /\ proof' \in Nat
    BY <2>1, LandedValues DEF ValuesInv
  <2>3. Caches'
    <3>1. CASE Compute
      <4>1. PICK out : Land(out) /\ Keep(out) /\ tape[at].kind # "fold"
        BY <3>1 DEF Compute
      <4>2. out = Output[at]
        <5>1. Over(Single(Y(at), out), live) = Over(Single(Y(at), Output[at]), live)
          BY <2>1, <4>1 DEF Land
        <5>2. \A e : Over(Single(Y(at), e), live)[Y(at)] = e
          BY DEF Over, Single
        <5> QED BY <5>1, <5>2
      <4>3. \/ cache' = cache
            \/ /\ DOMAIN cache' = {at} \cup DOMAIN cache /\ cache'[at] = Output[at]
               /\ \A i \in DOMAIN cache : i # at => cache'[i] = cache[i]
        BY <4>1, <4>2 DEF Keep, Over, Single
      <4> QED BY <1>0, <2>1, <4>1, <4>3 DEF ValuesInv
    <3>2. CASE ~Compute
      <4>1. cache' = cache
        BY <1>3, <3>2 DEF Reuse, Finalize
      <4> QED BY <1>0, <4>1 DEF ValuesInv
    <3> QED BY <3>1, <3>2
  <2>4. Projects'
    <3>1. CASE Routed(at) /\ ProjectOnce
      BY <1>0, <2>1, <3>1, ProjectsRight DEF Rho, Project
    <3>2. CASE pcache' = pcache
      BY <1>0, <2>1, <3>2 DEF ValuesInv, Rho, Project
    <3> QED BY <1>3, <3>1, <3>2 DEF Compute, Reuse, Finalize
  <2> QED BY <1>9, <2>2, <2>3, <2>4
<1>4. CASE Auxiliary
  <2>1. UNCHANGED <<inputs, proof, cache>>
    BY <1>4 DEF Auxiliary
  <2>2. PICK of, g : /\ of \subseteq {Aux(at), Pj(at), Late(at)} /\ DOMAIN g = of
                     /\ live' = Over(g, live)
    <3> DEFINE of == {Aux(at)} \cup (IF Routed(at) THEN {Pj(at)} ELSE {})
                       \cup (IF Routed(at) /\ have_ch1 THEN {Late(at)} ELSE {})
    <3>1. \E g : DOMAIN g = of /\ live' = Over(g, live)
      BY <1>4 DEF Auxiliary
    <3>2. of \subseteq {Aux(at), Pj(at), Late(at)}
      OBVIOUS
    <3> HIDE DEF of
    <3> QED BY <3>1, <3>2
  <2>3. \A v : TapeVar(v) => v \notin of
    BY <2>2, PhasesDiffer DEF TapeVar
  <2>4. \A v \in DOMAIN live' : TapeVar(v) => v \in DOMAIN live /\ live'[v] = live[v]
    BY <2>2, <2>3 DEF Over
  <2>5. Right(live') /\ Right(inputs') /\ proof' \in Nat /\ Caches'
    BY <1>0, <2>1, <2>4 DEF ValuesInv
  <2>6. Projects'
    <3>1. CASE Routed(at) /\ ProjectOnce
      BY <1>0, <2>1, <3>1, ProjectsRight DEF Rho, Project
    <3>2. CASE pcache' = pcache
      BY <1>0, <2>1, <3>2 DEF ValuesInv, Rho, Project
    <3> QED BY <1>4, <3>1, <3>2 DEF Auxiliary
  <2> QED BY <1>9, <2>5, <2>6
<1>5. CASE Emit \/ UNCHANGED vars
  <2>1. UNCHANGED <<live, inputs, proof, cache, pcache>>
    BY <1>5 DEF Emit, vars
  <2>2. Right(live') /\ Right(inputs')
    BY <2>1 DEF ValuesInv
  <2> QED BY <1>9, <1>10, <2>1, <2>2
<1>6. CASE Free
  <2>1. PICK kept : live' = Restrict(live, DOMAIN live \ kept)
    BY <1>6 DEF Free
  <2>2. UNCHANGED <<inputs, proof, cache, pcache>>
    BY <1>6 DEF Free
  <2>3. \A v \in DOMAIN live' : v \in DOMAIN live /\ live'[v] = live[v]
    BY <2>1 DEF Restrict
  <2>4. Right(live') /\ Right(inputs')
    BY <2>2, <2>3 DEF ValuesInv
  <2> QED BY <1>9, <1>10, <2>2, <2>4
<1>7. CASE EndSweep
  <2>1. /\ inputs' = Over(live, inputs) /\ live' = << >> /\ UNCHANGED <<proof, cache, pcache>>
    BY <1>7 DEF EndSweep
  <2>2. Right(inputs')
    BY <2>1 DEF Over, ValuesInv
  <2> QED BY <1>9, <1>10, <2>1, <2>2
<1>8. CASE Raise
  <2>1. /\ live' = << >> /\ cache' = << >> /\ UNCHANGED <<proof, inputs, pcache>>
    BY <1>8 DEF Raise
  <2>2. Right(inputs') /\ Right(live') /\ Caches'
    BY <2>1 DEF ValuesInv
  <2>3. Projects' /\ proof' \in Nat
    BY <1>0, <2>1 DEF ValuesInv, Rho, Project
  <2> QED BY <1>9, <2>2, <2>3
<1> QED BY <1>1, <1>2, <1>3, <1>4, <1>5, <1>6, <1>7, <1>8 DEF Next
\* A fold that takes the output at hand adds it, once, to what it absorbed before.
LEMMA OfferSumsUp ==
  ASSUME TypeInv, ValuesInv, FoldInv, Free, NEW f \in Offered
  PROVE  LET st == Absorbed(IF f \in DOMAIN folds THEN folds[f] ELSE InitState(f), {Y(at)}, live)
         IN SumsUp(f, st) /\ \A k \in Ops : Y(k) \in st.absorbed => k < at + 1
<1> DEFINE st == IF f \in DOMAIN folds THEN folds[f] ELSE InitState(f)
<1>1. InBody /\ step = "free" /\ Running /\ Present
  BY DEF Free, At, InBody
<1>2. /\ at \in Ops /\ Y(at) \in DOMAIN live /\ Absorbers(tape, Y(at)) = {f}
      /\ f \in Ops /\ tape[f].kind = "fold" /\ tape[f].mask \in tape[f].ivars
      /\ tape[f].mask = X \/ \E k \in Ops : tape[f].mask = Y(k) /\ k < at
  BY <1>1, OfferedIsAlone
<1>3. Y(at) \in tape[f].ivars /\ at \in Nat /\ Ops \subseteq Nat
  <2>1. Y(at) \in Foldable(tape, f)
    BY <1>2 DEF Absorbers
  <2> QED BY <1>2, <2>1, TapeAtHand DEF Foldable
<1>4. SumsUp(f, st) /\ \A k \in Ops : Y(k) \in st.absorbed => k < at
  <2>1. CASE f \in DOMAIN folds
    BY <1>1, <2>1 DEF FoldInv
  <2>2. CASE f \notin DOMAIN folds
    <3>1. tape[f].mask \in DOMAIN live
      BY <1>1, <2>2 DEF Present, Reads
    <3>2. SumsUp(f, InitState(f)) /\ InitState(f).absorbed = {tape[f].mask}
      BY <1>2, <3>1, InitSumsUp
    <3> QED BY <1>2, <2>2, <3>2, DistinctVars
  <2> QED BY <2>1, <2>2
<1>5. {Y(at)} \cap st.absorbed = {}
  BY <1>2, <1>3, <1>4
<1> HIDE DEF st
<1>6. SumsUp(f, Absorbed(st, {Y(at)}, live)) /\ Absorbed(st, {Y(at)}, live).absorbed = st.absorbed \cup {Y(at)}
  <2>1. {Y(at)} \subseteq tape[f].ivars /\ {Y(at)} \subseteq DOMAIN live
    BY <1>2, <1>3
  <2> QED BY ONLY TypeInv, ValuesInv, <1>4, <1>5, <2>1, AbsorbedSumsUp
<1>7. \A k \in Ops : Y(k) \in Absorbed(st, {Y(at)}, live).absorbed => k < at + 1
  BY <1>3, <1>4, <1>6, DistinctVars
<1> QED BY <1>6, <1>7 DEF st

\* Folds go on being the sums of what they absorbed.
LEMMA FoldStep ==
  ASSUME TypeInv, WitnessInv, [Next]_vars
  PROVE  FoldInv'
<1> USE DEF WitnessInv
<1>0. /\ tape' = tape /\ Ops' = Ops /\ n_ops' = n_ops /\ n_ops \in Nat /\ Ops = 1..n_ops
      /\ at \in Nat
      /\ \A S : ValueSum(S)' = ValueSum(S)
  BY TapeIsFixed, TapeAtHand, WitnessIsFixed
<1>9. ASSUME sweep' = sweep, NEW f, NEW st, SumsUp(f, st)
      PROVE  /\ f \in Ops' /\ tape'[f].kind = "fold"
             /\ tape'[f].mask \in st.absorbed /\ st.absorbed \subseteq tape'[f].ivars
             /\ st.y = ValueSum(st.absorbed)'
             /\ want_aux' => st.s = ValueSum(st.absorbed)'
  BY <1>0, <1>9 DEF SumsUp, want_aux
<1> DEFINE Sums(f) == /\ f \in Ops /\ tape[f].kind = "fold"
                      /\ tape[f].mask \in folds[f].absorbed /\ folds[f].absorbed \subseteq tape[f].ivars
                      /\ folds[f].y = ValueSum(folds[f].absorbed)
                      /\ want_aux => folds[f].s = ValueSum(folds[f].absorbed)
<1>10. \A f : Sums(f)' => SumsUp(f, folds[f])'
  BY DEF SumsUp
<1>1. CASE StartProof \/ EndSweep \/ Raise
  BY <1>1 DEF StartProof, EndSweep, Raise, FoldInv, InBody
<1>2. CASE BeginSweep
  <2>1. folds' = << >> /\ Enter(1)
    BY <1>2 DEF BeginSweep
  <2>2. DOMAIN folds' = {}
    BY <2>1
  <2>3. step' \in {"aux", "emit", "free"} => at' > n_ops /\ at' \in Nat
    BY <1>0, <2>1, EnterMoves
  <2> QED BY <1>0, <2>2, <2>3 DEF FoldInv, InBody
<1>3. CASE Compute \/ Reuse
  <2>1. UNCHANGED <<folds, sweep, at>> /\ step = "compute" /\ InBody
    BY <1>3, LandsOutput DEF Compute, Reuse
  <2>2. tape[at].kind # "fold"
    BY <1>3 DEF Compute, Reuse, ValuesInv
  <2>3. \A f \in DOMAIN folds' : SumsUp(f, folds[f])'
    <3>1. \A f \in DOMAIN folds : SumsUp(f, folds[f])
      BY <2>1 DEF FoldInv
    <3>2. \A f \in DOMAIN folds' : Sums(f)'
      BY <1>9, <2>1, <3>1
    <3> QED BY <1>10, <3>2
  <2> QED BY <1>0, <2>1, <2>2, <2>3 DEF FoldInv
<1>4. CASE Finalize
  <2>1. UNCHANGED <<sweep, at>> /\ step = "compute" /\ InBody /\ at \in Ops
    BY <1>4, LandsOutput DEF Finalize
  <2>2. /\ DOMAIN folds' = {at} \cup DOMAIN folds
        /\ \A f \in DOMAIN folds : f # at => folds'[f] = folds[f]
        /\ SumsUp(at, folds'[at]) /\ folds'[at].absorbed = tape[at].ivars
    BY <1>4, FoldFinishes
  <2>3. \A f \in DOMAIN folds' : SumsUp(f, folds'[f]) /\ \A k \in Ops : Y(k) \in folds'[f].absorbed => k < at
    <3>1. \A k \in Ops : Y(k) \in tape[at].ivars => k < at
      BY <2>1, TapeAtHand, TapeFacts
    <3> QED BY <2>1, <2>2, <3>1 DEF FoldInv
  <2>4. \A f \in DOMAIN folds' : SumsUp(f, folds[f])'
    <3>1. \A f \in DOMAIN folds' : Sums(f)'
      BY <1>9, <2>1, <2>3
    <3> QED BY <1>10, <3>1
  <2> QED BY <1>0, <2>1, <2>2, <2>3, <2>4 DEF FoldInv
<1>5. CASE Auxiliary \/ Emit
  <2>1. UNCHANGED <<sweep, at, folds>> /\ InBody /\ step \in {"aux", "emit"}
    BY <1>5 DEF Auxiliary, Emit, At, InBody
  <2>2. \A f \in DOMAIN folds : SumsUp(f, folds[f])
    BY <2>1 DEF FoldInv
  <2>3. \A f \in DOMAIN folds' : SumsUp(f, folds[f])'
    <3>1. \A f \in DOMAIN folds' : Sums(f)'
      BY <1>9, <2>1, <2>2
    <3> QED BY <1>10, <3>1
  <2>4. step # "compute"
    BY <2>1
  <2> QED BY <1>0, <2>1, <2>3, <2>4 DEF FoldInv
<1>6. CASE Free
  <2>1. InBody /\ step = "free" /\ sweep' = sweep /\ Enter(at + 1) /\ at + 1 \in Nat
    BY <1>0, <1>6 DEF Free, At, InBody
  <2>2. CASE step' = "end"
    BY <2>2 DEF FoldInv, InBody
  <2>3. CASE step' # "end"
    <3>1. at' = at + 1 /\ (step' # "compute" => ~(at' <= n_ops))
      BY <1>0, <2>1, <2>3, EnterMoves
    <3>2. \A f \in DOMAIN folds' : SumsUp(f, folds'[f]) /\ \A k \in Ops : Y(k) \in folds'[f].absorbed => k < at + 1
      <4> DEFINE taken(f) == Absorbed(IF f \in DOMAIN folds THEN folds[f] ELSE InitState(f), {Y(at)}, live)
      <4>1. folds' = Over([f \in Offered |-> taken(f)], folds)
        BY <1>6 DEF Free
      <4>2. \A f \in Offered : SumsUp(f, taken(f)) /\ \A k \in Ops : Y(k) \in taken(f).absorbed => k < at + 1
        BY <1>6, OfferSumsUp
      <4>3. \A f \in DOMAIN folds : SumsUp(f, folds[f]) /\ \A k \in Ops : Y(k) \in folds[f].absorbed => k < at + 1
        BY <1>0, <2>1 DEF FoldInv
      <4> HIDE DEF taken
      <4>4. /\ DOMAIN folds' = Offered \cup DOMAIN folds
            /\ \A f \in Offered : folds'[f] = taken(f)
            /\ \A f \in DOMAIN folds \ Offered : folds'[f] = folds[f]
        BY <4>1 DEF Over
      <4> QED BY <4>2, <4>3, <4>4
    <3>3. \A f \in DOMAIN folds' : SumsUp(f, folds[f])'
      <4>1. \A f \in DOMAIN folds' : Sums(f)'
        BY <1>9, <2>1, <3>2
      <4> QED BY <1>10, <4>1
    <3> QED BY <1>0, <3>1, <3>2, <3>3 DEF FoldInv
  <2> QED BY <2>2, <2>3
<1>7. CASE UNCHANGED vars
  <2>1. UNCHANGED <<sweep, at, folds, step>> /\ (InBody' <=> InBody)
    BY <1>7 DEF vars, InBody, Running
  <2>2. InBody => \A f \in DOMAIN folds' : SumsUp(f, folds[f])'
    <3>1. InBody => \A f \in DOMAIN folds : SumsUp(f, folds[f])
      BY DEF FoldInv
    <3>2. InBody => \A f \in DOMAIN folds' : Sums(f)'
      BY <1>9, <2>1, <3>1
    <3> QED BY <1>10, <3>2
  <2> QED BY <1>0, <2>1, <2>2 DEF FoldInv
<1> QED BY <1>1, <1>2, <1>3, <1>4, <1>5, <1>6, <1>7 DEF Next
--------------------------------------------------------------------------------
\* Counted claims are finitely many, and count numbers.
LEMMA CountedIsFinite ==
  ASSUME TypeInv, NEW S, S \subseteq Ops
  PROVE  IsFiniteSet(S) /\ \A i \in S : Output[i] \in Int
<1>1. n_ops \in Nat /\ Ops = 1..n_ops
  BY TapeAtHand
<1>2. IsFiniteSet(Ops)
  BY <1>1, FS_Interval
<1>3. IsFiniteSet(S)
  BY <1>2, FS_Subset
<1>4. \A i \in S : i \in 0..n_ops
  BY <1>1
<1> QED BY <1>3, <1>4, OutputFacts

\* The lookup counts go on being those of the claims passed in this sweep.
LEMMA CountStep ==
  ASSUME TypeInv, TypeInv', WitnessInv, [Next]_vars
  PROVE  CountInv'
<1> USE DEF WitnessInv
<1>0. /\ tape' = tape /\ Ops' = Ops /\ n_ops' = n_ops /\ n_ops \in Nat /\ Ops = 1..n_ops
      /\ at \in Nat /\ Output' = Output
  BY TapeIsFixed, TapeAtHand, WitnessIsFixed
<1>1. CASE StartProof \/ EndSweep \/ Raise
  BY <1>1 DEF StartProof, EndSweep, Raise, CountInv, InBody
<1>2. CASE BeginSweep
  <2>1. mult' = 0 /\ Enter(1)
    BY <1>2 DEF BeginSweep
  <2>2. CASE step' = "end"
    BY <2>2 DEF CountInv, InBody
  <2>3. CASE step' # "end"
    <3>1. at' = 1 /\ (step' # "compute" => 1 > n_ops)
      BY <2>1, <2>3, EnterMoves
    <3>2. Counted' = {}
      BY <1>0, <3>1 DEF Counted
    <3>3. SumOf(Output, {}) = 0
      BY FS_EmptySet, SumIsPick
    <3> QED BY <1>0, <2>1, <3>2, <3>3 DEF CountInv
  <2> QED BY <2>2, <2>3
<1>3. CASE Compute \/ Reuse \/ Finalize
  <2>1. at \in Ops /\ step = "compute" /\ InBody /\ Land(Output[at]) /\ at' = at
    BY <1>3, LandsOutput DEF Compute, Reuse, Finalize
  <2>2. /\ mult' = IF tape[at].looks THEN mult + Output[at] ELSE mult
        /\ step' # "compute"
    BY <2>1 DEF Land
  <2>3. Counted' = Counted \cup (IF tape[at].looks THEN {at} ELSE {}) /\ at \notin Counted
    <3>1. \A i \in Ops : ~(i < i)
      BY <1>0
    <3> QED BY <1>0, <2>1, <2>2, <3>1 DEF Counted
  <2>4. mult = SumOf(Output, Counted) /\ mult \in Int /\ Output[at] \in Int
    <3>1. Counted \subseteq Ops
      BY DEF Counted
    <3> QED BY <2>1, <3>1, CountedIsFinite, SumInt DEF CountInv
  <2>5. CASE tape[at].looks
    <3>1. Counted' \subseteq Ops /\ at \in Counted' /\ Counted' \ {at} = Counted
      BY <2>1, <2>3, <2>5 DEF Counted
    <3>2. PICK C : C = Counted'
      OBVIOUS
    <3>3. SumOf(Output, C) = Output[at] + SumOf(Output, C \ {at})
      BY <3>1, <3>2, CountedIsFinite, SumTake
    <3>4. SumOf(Output, C) = Output[at] + mult
      BY <2>4, <3>1, <3>2, <3>3
    <3>5. \A p, q \in Int : p + q = q + p
      OBVIOUS
    <3>6. mult' = SumOf(Output, C)
      BY <2>2, <2>4, <2>5, <3>4, <3>5
    <3> QED BY <1>0, <3>2, <3>6 DEF CountInv
  <2>6. CASE ~tape[at].looks
    <3>1. Counted' = Counted /\ mult' = mult
      BY <2>2, <2>3, <2>6
    <3> QED BY <1>0, <2>4, <3>1 DEF CountInv
  <2> QED BY <2>5, <2>6
<1>4. CASE Auxiliary \/ Emit
  <2>1. UNCHANGED <<at, mult>> /\ InBody /\ step # "compute" /\ step' # "compute"
    BY <1>4 DEF Auxiliary, Emit, At, InBody
  <2>2. Counted' = Counted
    BY <1>0, <2>1 DEF Counted
  <2> QED BY <1>0, <2>1, <2>2 DEF CountInv
<1>5. CASE Free
  <2>1. InBody /\ step = "free" /\ mult' = mult /\ Enter(at + 1) /\ at + 1 \in Nat
    BY <1>0, <1>5 DEF Free, At, InBody
  <2>2. CASE step' = "end"
    BY <2>2 DEF CountInv, InBody
  <2>3. CASE step' # "end"
    <3>1. at' = at + 1 /\ (step' # "compute" => at' > n_ops)
      BY <2>1, <2>3, EnterMoves
    <3>2. Counted' = Counted
      BY <1>0, <2>1, <3>1 DEF Counted
    <3> QED BY <1>0, <2>1, <3>2 DEF CountInv
  <2> QED BY <2>2, <2>3
<1>6. CASE UNCHANGED vars
  <2>1. UNCHANGED <<at, mult, step, sweep>>
    BY <1>6 DEF vars
  <2>2. Counted' = Counted /\ (InBody' <=> InBody)
    BY <1>0, <2>1 DEF Counted, InBody, Running
  <2> QED BY <1>0, <2>1, <2>2 DEF CountInv
<1> QED BY <1>1, <1>2, <1>3, <1>4, <1>5, <1>6 DEF Next
\* The multiplicities, once every claim has landed, are those of the whole tape.
LEMMA AllCounted ==
  ASSUME TypeInv, CountInv, InBody, ~(at <= n_ops), step # "compute"
  PROVE  mult = MultCount /\ mult \in Int
<1>0. n_ops \in Nat /\ Ops = 1..n_ops /\ at \in Nat
  BY TapeAtHand
<1>1. Counted = {i \in Ops : tape[i].looks}
  BY <1>0 DEF Counted
<1>2. Counted \subseteq Ops
  BY <1>1
<1>3. SumOf(Output, Counted) \in Int
  BY <1>2, CountedIsFinite, SumInt
<1> QED BY <1>1, <1>3 DEF CountInv, MultCount

\* AUX_FNS makes the rows of the later phases from the claim's values.
LEMMA AuxMade ==
  ASSUME TypeInv, HasWhatIsNeeded, WitnessInv, Auxiliary
  PROVE  /\ live'[Aux(at)] = AuxValue(at, proof)
         /\ Routed(at) => live'[Pj(at)] = Project(at, Rho(proof))
         /\ have_ch1 /\ Routed(at) => live'[Late(at)] = Sigma(proof) + Project(at, Rho(proof))
<1> USE DEF WitnessInv
<1> DEFINE rho == Rho(proof)
           own == IF at > n_ops THEN mult
                  ELSE live[Y(at)] + IF tape[at].kind = "fold" THEN folds[at].s
                                     ELSE SumOf(live, tape[at].ivars)
           P == IF Routed(at) THEN pcache'[<<at, rho>>] ELSE 0
           of == {Aux(at)} \cup (IF Routed(at) THEN {Pj(at)} ELSE {})
                           \cup (IF Routed(at) /\ have_ch1 THEN {Late(at)} ELSE {})
           made == [v \in of |-> CASE v = Aux(at) -> rho + own + P
                                   [] v = Pj(at) -> P
                                   [] v = Late(at) -> Sigma(proof) + P]
<1>0. /\ n_ops \in Nat /\ Ops = 1..n_ops /\ at \in Nat /\ InBody /\ step = "aux" /\ want_aux /\ Present
      /\ at \in 1..(n_ops + 1)
  BY TapeAtHand DEF Auxiliary, At, InBody, TypeInv
<1>1. live' = Over(made, live)
  BY DEF Auxiliary
<1>2. Routed(at) => P = Project(at, rho)
  <2>1. Routed(at) => ProjectOnce
    BY DEF Auxiliary
  <2> QED BY <1>0, <2>1, ProjectsRight
<1>3. Aux(at) # Pj(at) /\ Aux(at) # Late(at) /\ Pj(at) # Late(at)
  BY DEF Aux, Pj, Late
<1>4. rho + own + P = AuxValue(at, proof)
  <2>1. CASE at > n_ops
    <3>1. ~(at <= n_ops) /\ ~Routed(at) /\ own = mult /\ P = 0
      BY <1>0, <2>1 DEF Routed
    <3>2. mult = MultCount /\ mult \in Int /\ rho \in Int
      BY <1>0, <3>1, AllCounted DEF ValuesInv, Rho
    <3>3. AuxValue(at, proof) = rho + MultCount
      BY <2>1 DEF AuxValue
    <3>4. \A p, q \in Int : p + q + 0 = p + q
      OBVIOUS
    <3> HIDE DEF own, P, rho
    <3> QED BY <3>1, <3>2, <3>3, <3>4
  <2>2. CASE ~(at > n_ops)
    <3>1. at \in Ops /\ at <= n_ops
      BY <1>0, <2>2
    <3>2. live[Y(at)] = Output[at]
      <4>1. Y(at) \in DOMAIN live
        BY <1>0, <3>1 DEF HasWhatIsNeeded
      <4> QED BY <3>1, <4>1, ValueFacts DEF ValuesInv, TapeVar
    <3>3. CASE tape[at].kind = "fold"
      <4>1. folds[at].s = ValueSum(tape[at].ivars)
        BY <1>0, <3>1, <3>3 DEF FoldInv, SumsUp
      <4>2. own = Output[at] + ValueSum(tape[at].ivars)
        BY <2>2, <3>2, <3>3, <4>1
      <4> HIDE DEF own
      <4> QED BY <1>2, <2>2, <4>2 DEF AuxValue
    <3>4. CASE tape[at].kind # "fold"
      <4>1. tape[at].ivars \subseteq DOMAIN live
        BY <1>0, <2>2, <3>4 DEF Present, Reads, InBody
      <4>2. SumOf(live, tape[at].ivars) = ValueSum(tape[at].ivars)
        BY <3>1, <4>1, ReadsAddUp
      <4>3. own = Output[at] + ValueSum(tape[at].ivars)
        BY <2>2, <3>2, <3>4, <4>2
      <4> HIDE DEF own
      <4> QED BY <1>2, <2>2, <4>3 DEF AuxValue
    <3> QED BY <3>3, <3>4
  <2> QED BY <2>1, <2>2
<1> HIDE DEF own, P
<1>5. /\ live'[Aux(at)] = rho + own + P
      /\ Routed(at) => live'[Pj(at)] = P
      /\ Routed(at) /\ have_ch1 => live'[Late(at)] = Sigma(proof) + P
  BY <1>1, <1>3 DEF Over
<1> QED BY <1>2, <1>4, <1>5

\* The auxiliary rows go on being those of the proof at hand.
LEMMA AuxStep ==
  ASSUME TypeInv, HasWhatIsNeeded, WitnessInv, [Next]_vars
  PROVE  AuxInv'
<1>0. /\ tape' = tape /\ at \in Nat /\ at + 1 \in Nat
      /\ \A i, p : AuxValue(i, p)' = AuxValue(i, p)
      /\ \A i : Routed(i)' <=> Routed(i)
  BY TapeIsFixed, TapeAtHand, WitnessIsFixed
<1>1. ASSUME step' = "emit" => ~want_aux' PROVE AuxInv'
  <2>1. have_ch1' => want_aux'
    BY DEF have_ch1, want_aux
  <2> QED BY <1>1, <2>1 DEF AuxInv
<1>2. CASE StartProof \/ EndSweep \/ Raise \/ Emit
  BY <1>1, <1>2 DEF StartProof, EndSweep, Raise, Emit
<1>3. CASE BeginSweep \/ Free
  <2>1. sweep' = sweep /\ (Enter(1) \/ Enter(at + 1))
    BY <1>3 DEF BeginSweep, Free
  <2>2. step' = "emit" => ~want_aux
    BY <1>0, <2>1, EnterMoves
  <2> QED BY <1>1, <2>1, <2>2 DEF want_aux
<1>4. CASE Compute \/ Reuse \/ Finalize
  <2>1. sweep' = sweep /\ step' = IF want_aux THEN "aux" ELSE "emit"
    BY <1>4, LandMoves DEF Compute, Reuse, Finalize
  <2> QED BY <1>1, <2>1 DEF want_aux
<1>5. CASE Auxiliary
  <2>1. UNCHANGED <<sweep, at, proof>>
    BY <1>5 DEF Auxiliary
  <2>2. have_ch1' <=> have_ch1
    BY <2>1 DEF have_ch1
  <2>3. \A i, p : Aux(i)' = Aux(i) /\ Pj(i)' = Pj(i) /\ Late(i)' = Late(i)
                  /\ Project(i, Rho(p))' = Project(i, Rho(p)) /\ Sigma(p)' = Sigma(p)
    OBVIOUS
  <2>4. /\ live'[Aux(at)] = AuxValue(at, proof)
        /\ Routed(at) => live'[Pj(at)] = Project(at, Rho(proof))
        /\ have_ch1 /\ Routed(at) => live'[Late(at)] = Sigma(proof) + Project(at, Rho(proof))
    BY <1>5, AuxMade
  <2> QED BY <1>0, <2>1, <2>2, <2>3, <2>4 DEF AuxInv
<1>6. CASE UNCHANGED vars
  <2>1. UNCHANGED <<sweep, at, proof, step, live>>
    BY <1>6 DEF vars
  <2>2. (have_ch1' <=> have_ch1) /\ (want_aux' <=> want_aux) /\ (InBody' <=> InBody)
    BY <2>1 DEF have_ch1, want_aux, InBody, Running
  <2>3. \A i, p : Aux(i)' = Aux(i) /\ Pj(i)' = Pj(i) /\ Late(i)' = Late(i)
                  /\ Project(i, Rho(p))' = Project(i, Rho(p)) /\ Sigma(p)' = Sigma(p)
    OBVIOUS
  <2> QED BY <1>0, <2>1, <2>2, <2>3 DEF AuxInv, WitnessInv
<1> QED BY <1>2, <1>3, <1>4, <1>5, <1>6 DEF Next
\* A claim's rows, and its quads in the fold sweep, are handed on with the values
\* that computing the tape once gives.
LEMMA EmitsExpected ==
  ASSUME TypeInv, HasWhatIsNeeded, WitnessInv, Emit
  PROVE  /\ InBody /\ step = "emit" /\ at \in 1..(n_ops + 1)
         /\ rows' = [rows EXCEPT ![sweep] = @ \o ExpectedOf(at, sweep, proof)]
<1> USE DEF WitnessInv
<1> DEFINE val == [v \in Range(RowVars(at, sweep)) |->
                    CASE v[1] = "w" -> Weights(v[2])
                      [] v[1] = "mult" -> mult
                      [] OTHER -> live[v]]
           quads == IF sweep = "fold" /\ at <= n_ops
                      THEN SumOf(live, tape[at].operands) + live[Aux(at)] ELSE 0
           right == [v \in Range(RowVars(at, sweep)) |-> RowValue(v, proof)]
           ownquad == IF at <= n_ops THEN ValueSum(tape[at].operands) + AuxValue(at, proof) ELSE 0
<1>0. /\ InBody /\ step = "emit" /\ Running /\ Present /\ at \in 1..(n_ops + 1)
      /\ n_ops \in Nat /\ Ops = 1..n_ops
      /\ rows' = [rows EXCEPT ![sweep] = @ \o Entries(at, sweep, val, quads)]
  BY TapeAtHand DEF Emit, At, InBody, TypeInv
<1>1. Reads = {v \in Range(RowVars(at, sweep)) : v[1] \notin {"w", "mult"}}
              \cup IF sweep = "fold" /\ at <= n_ops THEN tape[at].operands \cup {Aux(at)} ELSE {}
  BY <1>0 DEF Reads
<1>2. \A v \in DOMAIN live : TapeVar(v) => live[v] = Value(v)
  BY DEF ValuesInv
<1>3. ASSUME NEW v \in Range(RowVars(at, sweep))
      PROVE  val[v] = RowValue(v, proof)
  <2>1. v[1] \notin {"w", "mult"} => v \in DOMAIN live /\ val[v] = live[v]
    BY <1>0, <1>1 DEF Present
  <2>2. CASE v = X \/ (at <= n_ops /\ v = Y(at))
    <3>1. TapeVar(v) /\ v[1] \in {"x", "y"}
      BY <1>0, <2>2 DEF TapeVar, X, Y
    <3>2. RowValue(v, proof) = Value(v)
      BY <3>1 DEF RowValue
    <3> QED BY <1>2, <2>1, <3>1, <3>2
  <2>3. CASE ~(at <= n_ops) /\ v = MultVar
    <3>1. v[1] = "mult"
      BY <2>3 DEF MultVar
    <3>2. RowValue(v, proof) = MultCount
      BY <3>1 DEF RowValue
    <3>3. val[v] = mult
      BY <3>1
    <3> QED BY <1>0, <2>3, <3>2, <3>3, AllCounted
  <2>4. CASE v = W(at)
    <3>1. v[1] = "w"
      BY <2>4 DEF W
    <3> QED BY <3>1 DEF RowValue
  <2>5. CASE sweep \in {"R2", "fold", "open"} /\ v = Aux(at)
    <3>1. v[1] = "aux" /\ v[2] = at /\ want_aux
      BY <2>5 DEF Aux, want_aux
    <3>2. live[v] = AuxValue(at, proof)
      BY <1>0, <2>5, <3>1 DEF AuxInv
    <3>3. RowValue(v, proof) = AuxValue(at, proof)
      BY <3>1 DEF RowValue
    <3> QED BY <2>1, <3>1, <3>2, <3>3
  <2>6. CASE sweep \in {"R2", "fold", "open"} /\ Routed(at) /\ v = Pj(at)
    <3>1. v[1] = "p" /\ v[2] = at /\ want_aux
      BY <2>6 DEF Pj, want_aux
    <3>2. live[v] = Project(at, Rho(proof))
      BY <1>0, <2>6, <3>1 DEF AuxInv
    <3>3. RowValue(v, proof) = Project(at, Rho(proof))
      BY <3>1 DEF RowValue
    <3> QED BY <2>1, <3>1, <3>2, <3>3
  <2>7. CASE sweep \in {"R3", "fold", "open"} /\ Routed(at) /\ v = Late(at)
    <3>1. v[1] = "late" /\ v[2] = at /\ have_ch1
      BY <2>7 DEF Late, have_ch1
    <3>2. live[v] = Sigma(proof) + Project(at, Rho(proof))
      BY <1>0, <2>7, <3>1 DEF AuxInv
    <3>3. RowValue(v, proof) = Sigma(proof) + Project(at, Rho(proof))
      BY <3>1 DEF RowValue
    <3> QED BY <2>1, <3>1, <3>2, <3>3
  <2> HIDE DEF val
  <2> QED BY <2>2, <2>3, <2>4, <2>5, <2>6, <2>7, RowsAre
<1>4. val = right
  BY <1>3
<1>5. ASSUME sweep = "fold", at <= n_ops PROVE quads = ownquad
  <2>1. at \in Ops /\ tape[at].operands \subseteq DOMAIN live
    BY <1>0, <1>1, <1>5 DEF Present
  <2>2. SumOf(live, tape[at].operands) = ValueSum(tape[at].operands)
    BY <2>1, ReadsAddUp
  <2>3. live[Aux(at)] = AuxValue(at, proof)
    BY <1>0, <1>5 DEF AuxInv, want_aux
  <2> QED BY <1>5, <2>2, <2>3
<1>6. ExpectedOf(at, sweep, proof) = Entries(at, sweep, right, ownquad)
  BY DEF ExpectedOf
<1> HIDE DEF val, right, quads, ownquad
<1>7. Entries(at, sweep, val, quads) = Entries(at, sweep, right, ownquad)
  BY <1>4, <1>5 DEF Entries
<1> QED BY <1>0, <1>6, <1>7

\* What a sweep has handed on goes on being what the tape defines so far.
LEMMA RowsStep ==
  ASSUME TypeInv, HasWhatIsNeeded, WitnessInv, [Next]_vars
  PROVE  RowsInv'
<1> USE DEF WitnessInv
<1>0. /\ tape' = tape /\ n_ops' = n_ops /\ n_ops \in Nat /\ at \in Nat /\ Ops = 1..n_ops
      /\ Groups' = Groups /\ Groups \in {n_ops, n_ops + 1}
      /\ \A s, p : RowsUpTo(s, p)' = RowsUpTo(s, p)
  BY TapeIsFixed, TapeAtHand, WitnessIsFixed DEF Groups
<1>1. ASSUME UNCHANGED <<sweep, proof, rows>>, Running, at' <= Groups,
             RowsUpTo(sweep, proof)[Passed'] = RowsUpTo(sweep, proof)[Passed]
      PROVE  RowsInv'
  <2>1. Ahead' = Ahead /\ Running'
    BY <1>1 DEF Ahead, Running
  <2>2. RowsUpTo(sweep, proof)' = RowsUpTo(sweep, proof)
    BY <1>0, <1>1
  <2> QED BY <1>0, <1>1, <2>1, <2>2 DEF RowsInv
<1>2. CASE StartProof
  <2>1. /\ sweep' = "R1" /\ step' = "begin"
        /\ rows' = [s \in {"R1", "R2", "R3", "fold", "open"} |-> << >>]
    BY <1>2, SweepNames DEF StartProof
  <2>2. Passed' = 0 /\ Ahead' \subseteq {"R1", "R2", "R3", "fold", "open"} /\ ~InBody'
    BY <2>1 DEF Passed, Ahead, InBody
  <2>3. RowsUpTo(sweep, proof)'[Passed'] = << >>
    BY <1>0, <2>2, RowsUpToIs
  <2>4. \A s \in DOMAIN rows' : rows'[s] = << >>
    BY <2>1
  <2>5. DOMAIN rows' = {"R1", "R2", "R3", "fold", "open"} /\ sweep' \in DOMAIN rows'
    BY <2>1
  <2> QED BY <2>2, <2>3, <2>4, <2>5 DEF RowsInv
<1>3. CASE BeginSweep
  <2>1. UNCHANGED <<sweep, proof, rows>> /\ Running /\ step = "begin" /\ Enter(1)
    BY <1>3 DEF BeginSweep
  <2>2. Passed = 0
    BY <2>1 DEF Passed
  <2>3. Passed' = 0
    <3>1. CASE step' = "end"
      <4>1. Groups = 0
        BY <1>0, <2>1, <3>1, EnterMoves
      <4> QED BY <1>0, <3>1, <4>1 DEF Passed
    <3>2. CASE step' # "end"
      BY <2>1, <3>2, EnterMoves DEF Passed
    <3> QED BY <3>1, <3>2
  <2>4. InBody' => at' <= Groups
    BY <1>0, <2>1, EnterMoves DEF InBody
  <2>5. Ahead' = Ahead /\ Running'
    BY <2>1 DEF Ahead, Running
  <2>6. RowsUpTo(sweep, proof)' = RowsUpTo(sweep, proof)
    BY <1>0, <2>1
  <2> QED BY <1>0, <2>1, <2>2, <2>3, <2>4, <2>5, <2>6 DEF RowsInv
<1>4. CASE Compute \/ Reuse \/ Finalize \/ Auxiliary
  <2>1. /\ UNCHANGED <<sweep, proof, rows, at>> /\ Running
        /\ step \in {"compute", "aux"} /\ step' \in {"aux", "emit"}
    BY <1>4, LandMoves DEF Compute, Reuse, Finalize, Auxiliary, At
  <2>2. Passed' = at - 1 /\ Passed = at - 1 /\ at <= Groups
    BY <2>1 DEF Passed, RowsInv, InBody
  <2> QED BY <1>1, <2>1, <2>2
<1>5. CASE Emit
  <2>1. /\ InBody /\ step = "emit" /\ at \in 1..(n_ops + 1)
        /\ rows' = [rows EXCEPT ![sweep] = @ \o ExpectedOf(at, sweep, proof)]
        /\ UNCHANGED <<sweep, proof, at>> /\ step' = "free"
    BY <1>5, EmitsExpected DEF Emit
  <2>2. Passed = at - 1 /\ Passed' = at /\ at \in 1..Groups /\ Running
    BY <1>0, <2>1 DEF Passed, RowsInv, InBody
  <2>3. sweep \in DOMAIN rows
    BY <2>2 DEF RowsInv, Running, TypeInv
  <2>4. rows'[sweep] = RowsUpTo(sweep, proof)[at]
    BY <2>1, <2>2, <2>3, RowsUpToIs DEF RowsInv
  <2>5. \A s \in Ahead : s # sweep /\ rows'[s] = << >>
    <3>1. \A s \in Ahead : s # sweep /\ s \in DOMAIN rows
      BY DEF Ahead, RowsInv
    <3> QED BY <2>1, <2>2, <3>1 DEF RowsInv
  <2>6. Ahead' = Ahead /\ Running'
    BY <2>1, <2>2 DEF Ahead, Running
  <2>7. RowsUpTo(sweep, proof)' = RowsUpTo(sweep, proof)
    BY <1>0, <2>1
  <2>8. DOMAIN rows' = DOMAIN rows /\ at' <= Groups'
    BY <1>0, <2>1, <2>2
  <2> QED BY <2>1, <2>2, <2>4, <2>5, <2>6, <2>7, <2>8 DEF RowsInv
<1>6. CASE Free
  <2>1. /\ UNCHANGED <<sweep, proof, rows>> /\ Running /\ InBody /\ step = "free"
        /\ Enter(at + 1) /\ at + 1 \in Nat
    BY <1>0, <1>6 DEF Free, At, InBody
  <2>2. Passed = at /\ at <= Groups
    BY <2>1 DEF Passed, RowsInv
  <2>3. Passed' = at /\ at' <= Groups
    <3>1. CASE step' = "end"
      <4>1. at' = at /\ at + 1 > Groups
        BY <2>1, <3>1, EnterMoves
      <4>2. at = Groups
        BY <1>0, <2>2, <4>1
      <4> QED BY <1>0, <3>1, <4>1, <4>2 DEF Passed
    <3>2. CASE step' # "end"
      <4>1. at' = at + 1 /\ at + 1 <= Groups /\ step' \in {"compute", "aux", "emit"}
        BY <2>1, <3>2, EnterMoves
      <4>2. Passed' = at' - 1
        BY <4>1 DEF Passed
      <4> QED BY <1>0, <4>1, <4>2
    <3> QED BY <3>1, <3>2
  <2> QED BY <1>1, <2>1, <2>2, <2>3
<1>7. CASE EndSweep
  <2>1. /\ UNCHANGED <<proof, rows>> /\ sweep' = NextSweep /\ step' = "begin" /\ Running
    BY <1>7 DEF EndSweep, At
  <2>2. Passed' = 0 /\ ~InBody'
    BY <2>1 DEF Passed, InBody
  <2>3. /\ sweep' = "done" \/ sweep' \in Ahead
        /\ Ahead' \subseteq Ahead
    BY <2>1 DEF NextSweep, Ahead, TypeInv, Running
  <2>4. RowsUpTo(sweep, proof)'[Passed'] = << >>
    BY <1>0, <2>2, RowsUpToIs
  <2>5. \A s \in Ahead : rows'[s] = << >>
    BY <2>1 DEF RowsInv
  <2>6. DOMAIN rows' = {"R1", "R2", "R3", "fold", "open"}
    BY <2>1 DEF RowsInv
  <2>7. Running' => rows'[sweep'] = << >>
    BY <2>3, <2>5 DEF Running
  <2> QED BY <2>2, <2>3, <2>4, <2>5, <2>6, <2>7 DEF RowsInv
<1>8. CASE Raise
  <2>1. /\ ~Running' /\ rows' = [s \in {"R1", "R2", "R3", "fold", "open"} |-> << >>]
    BY <1>8, SweepNames DEF Raise, Running
  <2> QED BY <2>1 DEF RowsInv, InBody
<1>9. CASE UNCHANGED vars
  <2>1. UNCHANGED <<sweep, proof, rows, at, step>>
    BY <1>9 DEF vars
  <2>2. /\ Passed' = Passed /\ Ahead' = Ahead /\ (Running' <=> Running) /\ (InBody' <=> InBody)
    BY <1>0, <2>1 DEF Passed, Ahead, Running, InBody
  <2>3. RowsUpTo(sweep, proof)' = RowsUpTo(sweep, proof)
    BY <1>0, <2>1
  <2> QED BY <1>0, <2>1, <2>2, <2>3 DEF RowsInv
<1> QED BY <1>2, <1>3, <1>4, <1>5, <1>6, <1>7, <1>8, <1>9 DEF Next
\* Before the first proof there is no witness.
LEMMA WitnessInit ==
  ASSUME Init
  PROVE  WitnessInv
<1>1. TypeInv
  BY TypeInit
<1>2. /\ ~Running /\ ~InBody /\ proof = 0 /\ live = << >> /\ cache = << >> /\ pcache = << >>
      /\ inputs = Single(X, 1)
      /\ rows = [s \in {"R1", "R2", "R3", "fold", "open"} |-> << >>]
  BY SweepNames DEF Init, Running, InBody
<1>3. DOMAIN inputs = {X} /\ inputs[X] = Value(X)
  BY <1>1, <1>2, ValueFacts DEF Single
<1>4. ValuesInv
  BY <1>2, <1>3 DEF ValuesInv
<1> QED BY <1>2, <1>4 DEF WitnessInv, FoldInv, CountInv, AuxInv, RowsInv
--------------------------------------------------------------------------------
(***************************************************************************)
(* The theorems                                                            *)
(***************************************************************************)
IInv == TypeInv /\ HasWhatIsNeeded /\ HeldInv /\ WalkInv /\ WitnessInv

\* The inductive invariant holds at every step.
LEMMA Invariance == Spec => []IInv
<1>1. Init => IInv
  <2> SUFFICES ASSUME Init PROVE IInv
    OBVIOUS
  <2>1. HasWhatIsNeeded
    BY DEF Init, HasWhatIsNeeded, InBody, Running
  <2>2. WalkInv
    BY DEF Init, WalkInv
  <2> QED BY <2>1, <2>2, TypeInit, HeldInit, WitnessInit DEF IInv
<1>2. IInv /\ [Next]_vars => IInv'
  <2> SUFFICES ASSUME IInv, [Next]_vars PROVE IInv'
    OBVIOUS
  <2>1. TypeInv' /\ HasWhatIsNeeded' /\ HeldInv' /\ WalkInv'
    BY TypeStep, HasStep, HeldStep, WalkStep DEF IInv
  <2>2. ValuesInv' /\ FoldInv' /\ CountInv' /\ AuxInv' /\ RowsInv'
    BY <2>1, ValuesStep, FoldStep, CountStep, AuxStep, RowsStep DEF IInv
  <2> QED BY <2>1, <2>2 DEF IInv, WitnessInv
<1> QED BY <1>1, <1>2, PTL DEF Spec

\* Whatever tape the recorder made, whatever fits the caches and however many
\* proofs of it the process makes or fails to make, the loop over the claims finds
\* in memory every value it reads: last_use, offer and the folds' own states never
\* free one too early.
THEOREM NothingIsMissing == Spec => []NoMissingValue
<1>1. IInv => NoMissingValue
  BY NeededIsRead DEF IInv, NoMissingValue
<1> QED BY Invariance, <1>1, PTL

\* Between two claims a sweep holds nothing that no later claim reads, between two
\* sweeps nothing at all, and no projection outlives its proof.
THEOREM NothingIsHeld == Spec => []LiveIsNeeded
<1>1. IInv => LiveIsNeeded
  <2> SUFFICES ASSUME IInv PROVE LiveIsNeeded
    OBVIOUS
  <2>1. n_ops \in Nat /\ Ops = 1..n_ops
    BY TapeAtHand DEF IInv
  <2>2. ASSUME Running, step = "compute", NEW v \in DOMAIN live \ ({X} \cup {Y(n_ops)})
        PROVE  \/ \E j \in at..n_ops : v \in tape[j].ivars
               \/ \E j \in Ops : v \in tape[j].operands
    <3>1. ToCome(v) /\ at \in 1..(n_ops + 1)
      BY <2>2 DEF IInv, HeldInv, InBody, TypeInv
    <3> QED BY <2>1, <2>2, <3>1 DEF ToCome, Kept
  <2> QED BY <2>2 DEF IInv, HeldInv, WalkInv, LiveIsNeeded
<1> QED BY Invariance, <1>1, PTL

\* A proof walks the shards of a claim at most once for their projection, and
\* another one only under a new coin.
THEOREM ShardsAreWalkedOnce == Spec => []ProjectedOncePerProof
<1>1. IInv => ProjectedOncePerProof
  BY DEF IInv, WalkInv, ProjectedOncePerProof
<1> QED BY Invariance, <1>1, PTL
\* Whatever was cached, folded, freed and computed again, in whichever sweep and
\* after however many proofs that failed: a sweep that ends has handed on each row
\* of its phases once, in the order of the layout, with the value that computing
\* the tape once gives.  So all five sweeps of a proof saw the same witness.
THEOREM SweepsAgree == Spec => []SameWitnessEverySweep
<1>1. IInv => SameWitnessEverySweep
  BY DEF IInv, WitnessInv, RowsInv, SameWitnessEverySweep, ExpectedRows, At, Passed
<1> QED BY Invariance, <1>1, PTL
================================================================================
