--------------------------- MODULE Transcript_proofs ---------------------------
(***************************************************************************)
(* Theorems about the transcript, for every tape, job, old file, policy    *)
(* and number of witness versions.                                         *)
(***************************************************************************)
EXTENDS Transcript, SequenceTheorems, TLAPS

-----------------------------------------------------------------------------
(* The layout of blocks. *)

Names == {"blind", "w", "wnew", "p1", "p2", "p3"}

\* One more name at the end of a sequence of names.
LEMMA Longer ==
  ASSUME NEW s \in Seq(Names), NEW e \in Names
  PROVE  /\ s \o <<e>> \in Seq(Names) /\ Len(s \o <<e>>) = Len(s) + 1
         /\ (s \o <<e>>)[Len(s) + 1] = e /\ \A i \in 1..Len(s) : (s \o <<e>>)[i] = s[i]
         /\ ToSet(s \o <<e>>) = ToSet(s) \union {e}
<1> DEFINE u == s \o <<e>>
<1>1. <<e>> \in Seq(Names) /\ Len(<<e>>) = 1 /\ <<e>>[1] = e
  <2>1. <<e>> \in Seq(Names)
    OBVIOUS
  <2>2. Len(<<e>>) = 1
    OBVIOUS
  <2>3. <<e>>[1] = e
    OBVIOUS
  <2> QED BY <2>1, <2>2, <2>3
<1>2. Len(s) \in Nat /\ DOMAIN s = 1..Len(s)
  BY LenProperties
<1>3. /\ u \in Seq(Names) /\ Len(u) = Len(s) + 1
      /\ \A i \in 1..Len(s) + 1 : u[i] = IF i <= Len(s) THEN s[i] ELSE <<e>>[i - Len(s)]
  BY <1>1, ConcatProperties
<1> HIDE DEF u
<1>4. DOMAIN u = 1..(Len(s) + 1)
  BY <1>3, LenProperties
<1>5. u[Len(s) + 1] = e /\ \A i \in 1..Len(s) : u[i] = s[i]
  <2>1. (Len(s) + 1) - Len(s) = 1 /\ ~(Len(s) + 1 <= Len(s)) /\ Len(s) + 1 \in 1..Len(s) + 1
    BY <1>2
  <2>2. \A i \in 1..Len(s) : i \in 1..Len(s) + 1 /\ i <= Len(s)
    BY <1>2
  <2> QED BY ONLY <1>1, <1>3, <2>1, <2>2
<1>6. 1..(Len(s) + 1) = 1..Len(s) \union {Len(s) + 1}
  BY <1>2
<1>7. ToSet(u) = ToSet(s) \union {e}
  BY <1>2, <1>4, <1>5, <1>6 DEF ToSet
<1> QED BY <1>3, <1>5, <1>7 DEF u

\* The blocks of phase 1 are those in front of "p2", and "p3" is last when there
\* is one: the verifier finds the rounds by place.
LEMMA Layout ==
  ASSUME NEW t
  PROVE  LET r == BlocksR1(t)
             b == Blocks(t)
         IN /\ r \in Seq(Names) /\ b \in Seq(Names) /\ Len(r) \in Nat
            /\ Len(b) = Len(r) + (IF t.p3 THEN 2 ELSE 1)
            /\ \A i \in 1..Len(r) : b[i] = r[i]
            /\ b[Len(r) + 1] = "p2"
            /\ t.p3 => b[Len(r) + 2] = "p3"
            /\ "p2" \notin ToSet(r) /\ "p3" \notin ToSet(r)
            /\ ToSet(b) = ToSet(r) \union {"p2"} \union (IF t.p3 THEN {"p3"} ELSE {})
            /\ "w" \in ToSet(b) <=> t.w
<1> DEFINE r0 == <<"blind">>
           r1 == r0 \o (IF t.w THEN <<"w">> ELSE <<>>)
           r2 == r1 \o (IF t.wnew THEN <<"wnew">> ELSE <<>>)
           r == r2 \o <<"p1">>
           b2 == r \o <<"p2">>
           b == b2 \o (IF t.p3 THEN <<"p3">> ELSE <<>>)
<1>0. \A x \in {"blind", "w", "wnew", "p1", "p2", "p3"} : x \in Names
  BY DEF Names
<1>1. r = BlocksR1(t) /\ b = Blocks(t)
  BY DEF BlocksR1, Blocks
<1>2. r0 \in Seq(Names) /\ ToSet(r0) = {"blind"}
  <2>1. r0 \in Seq(Names)
    BY <1>0
  <2>2. DOMAIN r0 = {1} /\ r0[1] = "blind"
    OBVIOUS
  <2> QED BY <2>1, <2>2 DEF ToSet
<1>3. /\ r1 \in Seq(Names)
      /\ ToSet(r1) = {"blind"} \union (IF t.w THEN {"w"} ELSE {})
  <2> HIDE DEF r0
  <2>1. CASE t.w
    BY <1>0, <1>2, <2>1, Longer
  <2>2. CASE ~t.w
    BY <1>2, <2>2, ConcatEmptySeq
  <2> QED BY <2>1, <2>2
<1> HIDE DEF r0, r1
<1>4. /\ r2 \in Seq(Names)
      /\ ToSet(r2) = ToSet(r1) \union (IF t.wnew THEN {"wnew"} ELSE {})
  <2>1. CASE t.wnew
    BY <1>0, <1>3, <2>1, Longer
  <2>2. CASE ~t.wnew
    BY <1>3, <2>2, ConcatEmptySeq
  <2> QED BY <2>1, <2>2
<1> HIDE DEF r2
<1>5. r \in Seq(Names) /\ ToSet(r) = ToSet(r2) \union {"p1"}
  BY <1>0, <1>4, Longer
<1> HIDE DEF r
<1>6. Len(r) \in Nat
  BY <1>5, LenProperties
<1>7. /\ b2 \in Seq(Names) /\ Len(b2) = Len(r) + 1 /\ b2[Len(r) + 1] = "p2"
      /\ \A i \in 1..Len(r) : b2[i] = r[i]
      /\ ToSet(b2) = ToSet(r) \union {"p2"}
  BY <1>0, <1>5, Longer
<1> HIDE DEF b2
<1>8. /\ b \in Seq(Names) /\ Len(b) = Len(r) + (IF t.p3 THEN 2 ELSE 1)
      /\ \A i \in 1..Len(r) + 1 : b[i] = b2[i]
      /\ t.p3 => b[Len(r) + 2] = "p3"
      /\ ToSet(b) = ToSet(b2) \union (IF t.p3 THEN {"p3"} ELSE {})
  <2>1. CASE t.p3
    <3>1. (Len(r) + 1) + 1 = Len(r) + 2
      BY <1>6
    <3> QED BY <1>0, <1>7, <2>1, <3>1, Longer
  <2>2. CASE ~t.p3
    BY <1>7, <2>2, ConcatEmptySeq
  <2> QED BY <2>1, <2>2
<1> HIDE DEF b
<1>9. \A i \in 1..Len(r) : b[i] = r[i]
  <2>1. \A i \in 1..Len(r) : i \in 1..Len(r) + 1
    BY <1>6
  <2> QED BY <1>7, <1>8, <2>1
<1>10. b[Len(r) + 1] = "p2"
  <2>1. Len(r) + 1 \in 1..Len(r) + 1
    BY <1>6
  <2> QED BY <1>7, <1>8, <2>1
<1>11. "p2" \notin ToSet(r) /\ "p3" \notin ToSet(r)
  BY <1>3, <1>4, <1>5
<1>12. "w" \in ToSet(b) <=> t.w
  BY <1>3, <1>4, <1>5, <1>7, <1>8
<1>13. ToSet(b) = ToSet(r) \union {"p2"} \union (IF t.p3 THEN {"p3"} ELSE {})
  BY <1>7, <1>8
<1> QED BY <1>1, <1>5, <1>6, <1>8, <1>9, <1>10, <1>11, <1>12, <1>13

-----------------------------------------------------------------------------
(***************************************************************************)
(* The inductive invariant: which coins are drawn in each round and what   *)
(* each was hashed of, which blocks are committed, what the bridge and the *)
(* tests were answered with, what the file holds, and the verdict on it.   *)
(***************************************************************************)
Drawn == DOMAIN coins
UpToOp == {"s_op"}
UpToBind == {"s_op", "s_bind"}
UpToComb == {"s_op", "s_bind", "s_comb"}
UpToCol == {"s_op", "s_bind", "s_comb", "s_col"}

RoundInv ==
  /\ coins = [d \in Drawn |-> coins[d]]
  /\ Drawn \in {{}, UpToOp, UpToBind, UpToComb, UpToCol}
  /\ pc \in {"start", "R1"} => Drawn = {}
  /\ pc = "R2" => Drawn = UpToOp
  /\ pc = "R3" => Drawn = UpToBind
  /\ pc = "fold" => Drawn = UpToComb
  /\ pc = "open" => Drawn = UpToCol

RootsInv ==
  DOMAIN roots = (IF "s_op" \in Drawn THEN ToSet(BlocksR1(Tape)) ELSE {})
                 \union (IF "s_bind" \in Drawn THEN {"p2"} ELSE {})
                 \union (IF "s_comb" \in Drawn /\ Tape.p3 THEN {"p3"} ELSE {})

CoinsInv ==
  /\ "s_op" \in Drawn =>
        coins.s_op = fs_s_op(statement_digest(Tape, Blocks(Tape)), BlocksR1(Tape),
                             InOrder(BlocksR1(Tape), roots))
  /\ "s_bind" \in Drawn => coins.s_bind = fs_s_bind(coins.s_op, roots["p2"])
  /\ "s_comb" \in Drawn =>
        coins.s_comb = fs_s_comb(coins.s_bind, IF Tape.p3 THEN roots["p3"]
                                               ELSE EMPTY_COMMIT_ROOT)

TestsInv ==
  "s_col" \in Drawn =>
    \E v \in Versions :
      /\ tests = Tests(InOrder(Blocks(Tape), Witness(v)),
                       coins.s_op, coins.s_bind, coins.s_comb)
      /\ coins.s_col = fs_s_col(coins.s_comb, tests.q_irs, tests.q_lin, tests.p_0)

BridgeInv ==
  IF "s_bind" \in Drawn /\ Tape.bridged
  THEN BridgeFits /\ \E v \in Versions : wc = Bridge(v, coins.s_op, coins.s_bind)
  ELSE wc = NoBridge

FileOf(v) ==
  [digest |-> statement_digest(Tape, Blocks(Tape)),
   claims |-> Tape, blocks |-> Blocks(Tape),
   roots |-> roots, seeds |-> coins, tests |-> tests,
   opened |-> Witness(v), columns |-> coins.s_col, wc |-> wc]

Written == /\ Drawn = UpToCol
           /\ \E v \in Versions : file = FileOf(v) /\ Repro(Witness(v))

FileInv ==
  /\ pc \in {"start", "R1", "R2", "R3", "fold", "open", "failed", "published", "verified"}
  /\ IF pc \in {"published", "verified"} THEN file \in OldFiles \/ Written ELSE file = None
  /\ IF pc = "verified" THEN verdict = Verdict(file, policy) ELSE verdict = None

Inductive == RoundInv /\ RootsInv /\ CoinsInv /\ TestsInv /\ BridgeInv /\ FileInv

-----------------------------------------------------------------------------
(* Each part is preserved by every step. *)

\* The job never changes.
LEMMA JobStays ==
  ASSUME [Next]_vars
  PROVE  job' = job /\ Tape' = Tape
<1>1. job' = job
  BY DEF Next, vars, proof, Start, Fail, R1, R2, R3, Fold, Open, Verify
<1> QED BY <1>1 DEF Tape

\* The steps of a round, and those that leave the proof alone.
LEMMA Steps ==
  ASSUME [Next]_vars
  PROVE  \/ \E v \in Versions : (R1(v) \/ R2(v) \/ R3(v) \/ Fold(v)) /\ pc' # "failed"
         \/ \E v \in Versions : Open(v) /\ pc' # "failed"
         \/ \E pol \in Policies : Verify(pol)
         \/ /\ UNCHANGED <<proof, policy, verdict>>
            /\ \/ pc' = "failed" /\ pc \in {"start", "R2", "R3", "fold", "open"}
               \/ pc = "start" /\ pc' = "R1"
               \/ pc' = pc
<1>1. CASE Start
  BY <1>1 DEF Start, Fail, proof
<1>2. ASSUME NEW v \in Versions, R1(v) \/ R2(v) \/ R3(v) \/ Fold(v) \/ Open(v), pc' = "failed"
      PROVE  UNCHANGED <<proof, policy, verdict>> /\ pc \in {"R2", "R3", "fold", "open"}
  BY <1>2 DEF R1, R2, R3, Fold, Open, Fail, proof
<1>3. CASE UNCHANGED vars
  BY <1>3 DEF vars, proof
<1> QED BY <1>1, <1>2, <1>3 DEF Next

\* What a sweep regenerates depends on the job and the coins alone.
LEMMA SameWitness ==
  ASSUME job' = job, coins' = coins
  PROVE  \A v : Witness(v)' = Witness(v)
  BY DEF Witness, Content, Tape, Commitment

\* A sequence of values in block order depends on the values of its blocks alone.
LEMMA SameOrder ==
  ASSUME NEW bs, NEW f, NEW g, \A b \in ToSet(bs) : f[b] = g[b]
  PROVE  InOrder(bs, f) = InOrder(bs, g)
<1>1. \A i \in DOMAIN bs : f[bs[i]] = g[bs[i]]
  BY DEF ToSet
<1> QED BY <1>1 DEF InOrder

\* Inductive holds at the start ...
LEMMA InductiveInit == Init => Inductive
<1> SUFFICES ASSUME Init PROVE Inductive
  OBVIOUS
<1>1. Drawn = {} /\ DOMAIN roots = {}
  BY DEF Init, Drawn
<1>2. RoundInv /\ RootsInv /\ CoinsInv /\ TestsInv
  BY <1>1 DEF Init, RoundInv, RootsInv, Drawn, CoinsInv, TestsInv
<1>3. BridgeInv
  BY <1>1 DEF Init, BridgeInv
<1>4. FileInv
  BY DEF Init, FileInv
<1> QED BY <1>2, <1>3, <1>4 DEF Inductive

\* R1 draws the first coin of the phase-1 roots.
LEMMA AfterR1 ==
  ASSUME Inductive, NEW v \in Versions, R1(v)
  PROVE  Inductive'
<1>1. job' = job /\ Tape' = Tape
  BY DEF R1, Tape
<1>2. Drawn' = UpToOp /\ pc' = "R2"
  BY DEF R1, Drawn, UpToOp
<1>3. DOMAIN roots' = ToSet(BlocksR1(Tape))
  BY DEF R1
<1>4. coins'.s_op = fs_s_op(statement_digest(Tape, Blocks(Tape)), BlocksR1(Tape),
                            InOrder(BlocksR1(Tape), roots'))
  BY DEF R1
<1>5. RoundInv'
  <2>1. coins' = [d \in DOMAIN coins' |-> coins'[d]]
    BY DEF R1
  <2> QED BY <1>2, <2>1 DEF RoundInv, Drawn
<1>6. RootsInv'
  BY <1>1, <1>2, <1>3 DEF RootsInv, UpToOp
<1>7. CoinsInv'
  BY <1>1, <1>2, <1>4 DEF CoinsInv, UpToOp
<1>8. TestsInv'
  BY <1>2 DEF TestsInv, UpToOp
<1>9. BridgeInv'
  <2>1. Drawn = {} /\ wc' = wc
    BY DEF Inductive, RoundInv, R1
  <2>2. wc = NoBridge
    BY <2>1 DEF Inductive, BridgeInv
  <2> QED BY <1>2, <2>1, <2>2 DEF BridgeInv, UpToOp
<1>10. FileInv'
  BY <1>2 DEF R1, Inductive, FileInv
<1> QED BY <1>5, <1>6, <1>7, <1>8, <1>9, <1>10 DEF Inductive

\* R2 commits phase 2, draws the late coin and answers the bridge.
LEMMA AfterR2 ==
  ASSUME Inductive, NEW v \in Versions, R2(v), pc' # "failed"
  PROVE  Inductive'
<1> DEFINE root == Root(Content("p2", v, coins.s_op, None))
           s_bind == fs_s_bind(coins.s_op, root)
<1>1. job' = job /\ Tape' = Tape
  BY DEF R2, Fail, Tape
<1>2. /\ BridgeFits /\ roots' = With(roots, "p2", root)
      /\ coins' = With(coins, "s_bind", s_bind)
      /\ wc' = IF Tape.bridged THEN Bridge(v, coins.s_op, s_bind) ELSE wc
      /\ pc' = "R3" /\ UNCHANGED <<job, tests, file, policy, verdict>>
  BY DEF R2, Fail
<1> HIDE DEF root, s_bind
<1>3. Drawn = UpToOp /\ pc = "R2"
  BY DEF R2, Inductive, RoundInv
<1>4. /\ Drawn' = UpToBind /\ coins'.s_bind = s_bind /\ coins'.s_op = coins.s_op
      /\ DOMAIN roots' = DOMAIN roots \union {"p2"} /\ roots'["p2"] = root
      /\ \A b \in DOMAIN roots : b # "p2" => roots'[b] = roots[b]
  <2>1. DOMAIN coins' = DOMAIN coins \union {"s_bind"} /\ coins'["s_bind"] = s_bind
    BY <1>2 DEF With
  <2>2. coins'["s_op"] = coins["s_op"]
    BY <1>2, <1>3 DEF Drawn, UpToOp, With
  <2>3. /\ DOMAIN roots' = DOMAIN roots \union {"p2"} /\ roots'["p2"] = root
        /\ \A b \in DOMAIN roots : b # "p2" => roots'[b] = roots[b]
    BY <1>2 DEF With
  <2> QED BY <1>3, <2>1, <2>2, <2>3 DEF Drawn, UpToOp, UpToBind
<1>5. RoundInv'
  <2>1. coins' = [d \in DOMAIN coins' |-> coins'[d]]
    BY <1>2 DEF With
  <2> QED BY <1>2, <1>4, <2>1 DEF RoundInv, Drawn
<1>6. DOMAIN roots = ToSet(BlocksR1(Tape))
  BY <1>3 DEF Inductive, RootsInv, UpToOp
<1>7. RootsInv'
  BY <1>1, <1>4, <1>6 DEF RootsInv, UpToBind
<1>8. CoinsInv'
  <2>1. InOrder(BlocksR1(Tape), roots') = InOrder(BlocksR1(Tape), roots)
    <3>1. \A b \in ToSet(BlocksR1(Tape)) : roots'[b] = roots[b]
      BY <1>4, <1>6, Layout
    <3> QED BY <3>1, SameOrder
  <2>2. coins.s_op = fs_s_op(statement_digest(Tape, Blocks(Tape)), BlocksR1(Tape),
                             InOrder(BlocksR1(Tape), roots))
    BY <1>3 DEF Inductive, CoinsInv, UpToOp
  <2> QED BY <1>1, <1>4, <2>1, <2>2 DEF CoinsInv, UpToBind, s_bind
<1>9. TestsInv'
  BY <1>4 DEF TestsInv, UpToBind
<1>10. BridgeInv'
  <2>2. BridgeFits'
    BY <1>1, <1>2 DEF BridgeFits
  <2>3. CASE Tape.bridged
    <3>1. wc' = Bridge(v, coins'.s_op, coins'.s_bind)
      BY <1>2, <1>4, <2>3
    <3>2. wc' = Bridge(v, coins.s_op, coins.s_bind)'
      BY <3>1, <1>1 DEF Bridge
    <3> QED BY <1>1, <1>4, <2>2, <2>3, <3>2 DEF BridgeInv, UpToBind
  <2>4. CASE ~Tape.bridged
    <3>1. wc' = NoBridge
      BY <1>2, <2>4 DEF Inductive, BridgeInv
    <3> QED BY <1>1, <2>4, <3>1 DEF BridgeInv
  <2> QED BY <2>3, <2>4
<1>11. FileInv'
  BY <1>2, <1>3 DEF Inductive, FileInv
<1> QED BY <1>5, <1>7, <1>8, <1>9, <1>10, <1>11 DEF Inductive

\* R3 commits phase 3, or frames it as empty, and draws the combination coin.
LEMMA AfterR3 ==
  ASSUME Inductive, NEW v \in Versions, R3(v), pc' # "failed"
  PROVE  Inductive'
<1> DEFINE root == IF Tape.p3 THEN Root(Content("p3", v, coins.s_op, coins.s_bind))
                   ELSE EMPTY_COMMIT_ROOT
           s_comb == fs_s_comb(coins.s_bind, root)
<1>1. job' = job /\ Tape' = Tape
  BY DEF R3, Fail, Tape
<1>2. /\ roots' = IF Tape.p3 THEN With(roots, "p3", root) ELSE roots
      /\ coins' = With(coins, "s_comb", s_comb)
      /\ pc' = "fold" /\ UNCHANGED <<job, wc, tests, file, policy, verdict>>
  BY DEF R3, Fail
<1>3. ~Tape.p3 => root = EMPTY_COMMIT_ROOT
  OBVIOUS
<1> HIDE DEF root, s_comb
<1>4. Drawn = UpToBind /\ pc = "R3"
  BY DEF R3, Inductive, RoundInv
<1>5. DOMAIN roots = ToSet(BlocksR1(Tape)) \union {"p2"}
  BY <1>4 DEF Inductive, RootsInv, UpToBind
<1>6. /\ Drawn' = UpToComb /\ coins'.s_comb = s_comb
      /\ coins'.s_op = coins.s_op /\ coins'.s_bind = coins.s_bind
  <2>1. DOMAIN coins' = DOMAIN coins \union {"s_comb"} /\ coins'["s_comb"] = s_comb
    BY <1>2 DEF With
  <2>2. coins'["s_op"] = coins["s_op"] /\ coins'["s_bind"] = coins["s_bind"]
    BY <1>2, <1>4 DEF Drawn, UpToBind, With
  <2> QED BY <1>4, <2>1, <2>2 DEF Drawn, UpToBind, UpToComb
<1>7. /\ DOMAIN roots' = DOMAIN roots \union (IF Tape.p3 THEN {"p3"} ELSE {})
      /\ Tape.p3 => roots'["p3"] = root
      /\ \A b \in DOMAIN roots : b # "p3" => roots'[b] = roots[b]
  <2>1. CASE Tape.p3
    BY <1>2, <2>1 DEF With
  <2>2. CASE ~Tape.p3
    BY <1>2, <2>2
  <2> QED BY <2>1, <2>2
<1>8. RoundInv'
  <2>1. coins' = [d \in DOMAIN coins' |-> coins'[d]]
    BY <1>2 DEF With
  <2> QED BY <1>2, <1>6, <2>1 DEF RoundInv, Drawn
<1>9. RootsInv'
  BY <1>1, <1>5, <1>6, <1>7 DEF RootsInv, UpToComb
<1>10. CoinsInv'
  <2>1. InOrder(BlocksR1(Tape), roots') = InOrder(BlocksR1(Tape), roots) /\ roots'["p2"] = roots["p2"]
    <3>1. \A b \in ToSet(BlocksR1(Tape)) : roots'[b] = roots[b]
      BY <1>5, <1>7, Layout
    <3> QED BY <1>5, <1>7, <3>1, SameOrder
  <2>2. /\ coins.s_op = fs_s_op(statement_digest(Tape, Blocks(Tape)), BlocksR1(Tape),
                                InOrder(BlocksR1(Tape), roots))
        /\ coins.s_bind = fs_s_bind(coins.s_op, roots["p2"])
    BY <1>4 DEF Inductive, CoinsInv, UpToBind
  <2>3. coins'.s_comb = fs_s_comb(coins'.s_bind, IF Tape.p3 THEN roots'["p3"]
                                                 ELSE EMPTY_COMMIT_ROOT)
    BY <1>3, <1>6, <1>7 DEF s_comb
  <2> QED BY <1>1, <1>6, <2>1, <2>2, <2>3 DEF CoinsInv
<1>11. TestsInv'
  BY <1>6 DEF TestsInv, UpToComb
<1>12. BridgeInv'
  <2>1. BridgeInv /\ wc' = wc
    BY <1>2 DEF Inductive
  <2>2. BridgeFits' = BridgeFits
    BY <1>1, <1>2 DEF BridgeFits
  <2>3. ASSUME NEW x \in Versions
        PROVE  Bridge(x, coins.s_op, coins.s_bind)' = Bridge(x, coins.s_op, coins.s_bind)
    BY <1>1, <1>2, <1>6 DEF Bridge
  <2> QED BY <1>1, <1>4, <1>6, <2>1, <2>2, <2>3 DEF BridgeInv, UpToBind, UpToComb
<1>13. FileInv'
  BY <1>2, <1>4 DEF Inductive, FileInv
<1> QED BY <1>8, <1>9, <1>10, <1>11, <1>12, <1>13 DEF Inductive

\* The fold answers the combination coin and draws the columns.
LEMMA AfterFold ==
  ASSUME Inductive, NEW v \in Versions, Fold(v), pc' # "failed"
  PROVE  Inductive'
<1> DEFINE t == Tests(InOrder(Blocks(Tape), Witness(v)), coins.s_op, coins.s_bind, coins.s_comb)
           s_col == fs_s_col(coins.s_comb, t.q_irs, t.q_lin, t.p_0)
<1>1. job' = job /\ Tape' = Tape
  BY DEF Fold, Fail, Tape
<1>2. /\ tests' = t /\ coins' = With(coins, "s_col", s_col)
      /\ pc' = "open" /\ UNCHANGED <<job, roots, wc, file, policy, verdict>>
  BY DEF Fold, Fail
<1> HIDE DEF s_col, t
<1>3. Drawn = UpToComb /\ pc = "fold"
  BY DEF Fold, Inductive, RoundInv
<1>4. /\ Drawn' = UpToCol /\ coins'.s_col = s_col /\ coins'.s_op = coins.s_op
      /\ coins'.s_bind = coins.s_bind /\ coins'.s_comb = coins.s_comb
  <2>1. DOMAIN coins' = DOMAIN coins \union {"s_col"} /\ coins'["s_col"] = s_col
    BY <1>2 DEF With
  <2>2. /\ coins'["s_op"] = coins["s_op"] /\ coins'["s_bind"] = coins["s_bind"]
        /\ coins'["s_comb"] = coins["s_comb"]
    BY <1>2, <1>3 DEF Drawn, UpToComb, With
  <2> QED BY <1>3, <2>1, <2>2 DEF Drawn, UpToComb, UpToCol
<1>5. RoundInv'
  <2>1. coins' = [d \in DOMAIN coins' |-> coins'[d]]
    BY <1>2 DEF With
  <2> QED BY <1>2, <1>4, <2>1 DEF RoundInv, Drawn
<1>6. RootsInv'
  BY <1>1, <1>2, <1>3, <1>4 DEF Inductive, RootsInv, UpToComb, UpToCol
<1>7. CoinsInv'
  BY <1>1, <1>2, <1>3, <1>4 DEF Inductive, CoinsInv, UpToComb, UpToCol
<1>8. TestsInv'
  <2>1. \A x : Witness(x)' = Witness(x)
    BY <1>1, <1>2, <1>4 DEF Witness, Content, Tape, Commitment
  <2>2. tests' = Tests(InOrder(Blocks(Tape'), Witness(v)'),
                       coins'.s_op, coins'.s_bind, coins'.s_comb)
    BY <1>1, <1>2, <1>4, <2>1 DEF t
  <2>3. coins'.s_col = fs_s_col(coins'.s_comb, tests'.q_irs, tests'.q_lin, tests'.p_0)
    BY <1>2, <1>4 DEF s_col
  <2> QED BY <2>2, <2>3 DEF TestsInv
<1>9. BridgeInv'
  <2>1. BridgeInv /\ wc' = wc
    BY <1>2 DEF Inductive
  <2>2. BridgeFits' = BridgeFits
    BY <1>1, <1>2 DEF BridgeFits
  <2>3. ASSUME NEW x \in Versions
        PROVE  Bridge(x, coins.s_op, coins.s_bind)' = Bridge(x, coins.s_op, coins.s_bind)
    BY <1>1, <1>2, <1>4 DEF Bridge
  <2> QED BY <1>1, <1>3, <1>4, <2>1, <2>2, <2>3 DEF BridgeInv, UpToComb, UpToCol
<1>10. FileInv'
  BY <1>2, <1>3 DEF Inductive, FileInv
<1> QED BY <1>5, <1>6, <1>7, <1>8, <1>9, <1>10 DEF Inductive

\* The parts that speak of the proof before its file outlive a step that leaves
\* the proof's parts alone.
LEMMA ProofStands ==
  ASSUME Inductive, job' = job, UNCHANGED <<roots, coins, wc, tests>>
  PROVE  /\ Drawn' = Drawn /\ RootsInv' /\ CoinsInv' /\ TestsInv' /\ BridgeInv'
         /\ \A x : FileOf(x)' = FileOf(x) /\ Witness(x)' = Witness(x)
<1>1. Tape' = Tape /\ Drawn' = Drawn
  BY DEF Tape, Drawn
<1>2. RootsInv' /\ CoinsInv'
  BY <1>1 DEF Inductive, RootsInv, CoinsInv
<1>3. \A x : Witness(x)' = Witness(x)
  BY SameWitness
<1>4. TestsInv'
  BY <1>1, <1>3 DEF Inductive, TestsInv
<1>5. BridgeInv'
  <2>1. BridgeFits' = BridgeFits
    BY <1>1 DEF BridgeFits
  <2>2. ASSUME NEW x \in Versions
        PROVE  Bridge(x, coins.s_op, coins.s_bind)' = Bridge(x, coins.s_op, coins.s_bind)
    BY <1>1 DEF Bridge
  <2> QED BY <1>1, <2>1, <2>2 DEF Inductive, BridgeInv
<1>6. \A x : FileOf(x)' = FileOf(x)
  BY <1>1, <1>3 DEF FileOf
<1> QED BY <1>1, <1>2, <1>3, <1>4, <1>5, <1>6

\* The opening writes the file, when the sweep reproduced what was committed.
LEMMA AfterOpen ==
  ASSUME Inductive, NEW v \in Versions, Open(v), pc' # "failed"
  PROVE  Inductive'
<1>1. /\ pc = "open" /\ pc' = "published" /\ Repro(Witness(v)) /\ file' = FileOf(v)
      /\ UNCHANGED <<job, roots, coins, wc, tests, policy, verdict>>
  BY DEF Open, Fail, FileOf
<1>2. /\ Drawn' = Drawn /\ RootsInv' /\ CoinsInv' /\ TestsInv' /\ BridgeInv'
      /\ \A x : FileOf(x)' = FileOf(x) /\ Witness(x)' = Witness(x)
  BY <1>1, ProofStands
<1>3. Drawn = UpToCol
  BY <1>1 DEF Inductive, RoundInv
<1>4. RoundInv'
  <2>1. coins' = [d \in Drawn' |-> coins'[d]]
    BY <1>1, <1>2 DEF Inductive, RoundInv
  <2> QED BY <1>1, <1>2, <1>3, <2>1 DEF RoundInv
<1>5. Written'
  <2>1. Repro(Witness(v))'
    BY <1>1, <1>2 DEF Repro
  <2> QED BY <1>1, <1>2, <1>3, <2>1 DEF Written
<1>6. FileInv'
  BY <1>1, <1>5 DEF Inductive, FileInv
<1> QED BY <1>2, <1>4, <1>6 DEF Inductive

\* Verifying prints the verdict on the file, and a quiet step changes nothing of it.
LEMMA AfterQuiet ==
  ASSUME Inductive, job' = job, UNCHANGED proof,
         \/ \E pol \in Policies : Verify(pol)
         \/ /\ UNCHANGED <<policy, verdict>>
            /\ \/ pc' = "failed" /\ pc \in {"start", "R2", "R3", "fold", "open"}
               \/ pc = "start" /\ pc' = "R1"
               \/ pc' = pc
  PROVE  Inductive'
<1>1. UNCHANGED <<roots, coins, wc, tests, file>>
  BY DEF proof
<1>2. /\ Drawn' = Drawn /\ RootsInv' /\ CoinsInv' /\ TestsInv' /\ BridgeInv'
      /\ \A x : FileOf(x)' = FileOf(x) /\ Witness(x)' = Witness(x)
  BY <1>1, ProofStands
<1>3. \/ pc = "published" /\ pc' = "verified"
      \/ pc' = "failed"
      \/ pc = "start" /\ pc' = "R1"
      \/ pc' = pc
  BY DEF Verify
<1>4. RoundInv'
  <2>1. coins' = [d \in Drawn' |-> coins'[d]]
    BY <1>1, <1>2 DEF Inductive, RoundInv
  <2> QED BY <1>2, <1>3, <2>1 DEF Inductive, RoundInv
<1>5. Written' = Written
  <2>1. \A x : Repro(Witness(x))' = Repro(Witness(x))
    BY <1>1, <1>2 DEF Repro
  <2> QED BY <1>1, <1>2, <2>1 DEF Written
<1>6. FileInv'
  <2>1. CASE \E pol \in Policies : Verify(pol)
    BY <1>1, <1>5, <2>1 DEF Inductive, FileInv, Verify
  <2>2. CASE /\ UNCHANGED <<policy, verdict>>
             /\ \/ pc' = "failed" /\ pc \in {"start", "R2", "R3", "fold", "open"}
                \/ pc = "start" /\ pc' = "R1"
                \/ pc' = pc
    BY <1>1, <1>5, <2>2 DEF Inductive, FileInv
  <2> QED BY <2>1, <2>2
<1> QED BY <1>2, <1>4, <1>6 DEF Inductive

\* ... every step keeps it ...
LEMMA InductiveStep == Inductive /\ [Next]_vars => Inductive'
<1> SUFFICES ASSUME Inductive, [Next]_vars PROVE Inductive'
  OBVIOUS
<1>1. job' = job
  BY JobStays
<1>2. ASSUME NEW v \in Versions, R1(v) \/ R2(v) \/ R3(v) \/ Fold(v), pc' # "failed"
      PROVE  Inductive'
  BY <1>2, AfterR1, AfterR2, AfterR3, AfterFold
<1>3. ASSUME NEW v \in Versions, Open(v), pc' # "failed"
      PROVE  Inductive'
  BY <1>3, AfterOpen
<1>4. ASSUME NEW pol \in Policies, Verify(pol)
      PROVE  Inductive'
  <2>1. UNCHANGED proof
    BY <1>4 DEF Verify
  <2> QED BY <1>1, <1>4, <2>1, AfterQuiet
<1> QED BY <1>1, <1>2, <1>3, <1>4, Steps, AfterQuiet DEF proof

\* ... and so it always holds.
LEMMA InductiveHolds == Spec => []Inductive
<1> QED BY InductiveInit, InductiveStep, PTL DEF Spec

-----------------------------------------------------------------------------
(* What follows from it. *)

\* Each coin hashes the roots of the rounds before it.
LEMMA BindsCommitments ==
  ASSUME Inductive
  PROVE  CoinsBindCommitments
<1>1. ASSUME "s_op" \in Drawn, NEW b \in ToSet(BlocksR1(Tape))
      PROVE  roots[b] \in OpHashed
  <2>1. coins.s_op[4] = InOrder(BlocksR1(Tape), roots)
    BY <1>1 DEF Inductive, CoinsInv, fs_s_op
  <2>2. PICK i \in DOMAIN BlocksR1(Tape) : BlocksR1(Tape)[i] = b
    BY <1>1 DEF ToSet
  <2>3. i \in DOMAIN InOrder(BlocksR1(Tape), roots) /\ InOrder(BlocksR1(Tape), roots)[i] = roots[b]
    BY <2>2 DEF InOrder
  <2> QED BY <2>1, <2>3 DEF OpHashed, ToSet
<1>2. ASSUME "s_bind" \in Drawn
      PROVE  coins.s_bind[2] = coins.s_op /\ roots["p2"] \in BindHashed
  <2>1. coins.s_bind = <<"s_bind", coins.s_op, roots["p2"]>>
    BY <1>2 DEF Inductive, CoinsInv, fs_s_bind
  <2>2. Len(coins.s_bind) = 3 /\ coins.s_bind[2] = coins.s_op /\ coins.s_bind[3] = roots["p2"]
    BY <2>1
  <2> QED BY <2>2 DEF BindHashed
<1>3. ASSUME "s_comb" \in Drawn
      PROVE  /\ coins.s_comb[2] = coins.s_bind
             /\ \A b \in DOMAIN roots : roots[b] \in CombHashed
  <2> DEFINE root == IF Tape.p3 THEN roots["p3"] ELSE EMPTY_COMMIT_ROOT
  <2>1. coins.s_comb = <<"s_comb", coins.s_bind, root>>
    BY <1>3 DEF Inductive, CoinsInv, fs_s_comb
  <2>2. Len(coins.s_comb) = 3 /\ coins.s_comb[2] = coins.s_bind /\ coins.s_comb[3] = root
    BY <2>1
  <2>3. "s_op" \in Drawn /\ "s_bind" \in Drawn
    BY <1>3 DEF Inductive, RoundInv, UpToOp, UpToBind, UpToComb, UpToCol
  <2>4. ASSUME NEW b \in DOMAIN roots PROVE roots[b] \in CombHashed
    <3>1. \/ b \in ToSet(BlocksR1(Tape))
          \/ b = "p2"
          \/ b = "p3" /\ Tape.p3
      BY <2>4 DEF Inductive, RootsInv
    <3>2. b = "p3" /\ Tape.p3 => roots[b] = coins.s_comb[3]
      BY <2>2
    <3> HIDE DEF root
    <3>3. b = "p3" /\ Tape.p3 => roots[b] \in CombHashed
      BY <2>2, <3>2 DEF CombHashed
    <3>4. OpHashed \subseteq BindHashed /\ BindHashed \subseteq CombHashed
      BY DEF BindHashed, CombHashed
    <3> QED BY <1>1, <1>2, <2>3, <3>1, <3>3, <3>4
  <2> QED BY <2>2, <2>4
<1> QED BY <1>1, <1>2, <1>3 DEF CoinsBindCommitments, Drawn

\* The verdict is accept only when the checks, the policy and the bridge say so.
LEMMA AcceptMeans ==
  ASSUME NEW f, NEW pol, Verdict(f, pol) = "accept"
  PROVE  Checks(f) /\ Policy(f, pol) /\ BridgeLine(f, pol)
  BY DEF Verdict

\* What a policy accepts names the weights, blocks and bridge the policy trusts.
LEMMA Trusted ==
  ASSUME Inductive
  PROVE  AcceptedIsTrusted
<1> SUFFICES ASSUME verdict = "accept" PROVE AcceptedIsTrusted
  BY DEF AcceptedIsTrusted
<1>1. pc = "verified" /\ Verdict(file, policy) = "accept"
  BY NoneAssumption DEF Inductive, FileInv
<1>2. Checks(file) /\ Policy(file, policy) /\ BridgeLine(file, policy)
  BY <1>1, AcceptMeans
<1>3. file.digest # Absent \/ policy.stmt # Absent =>
        policy.stmt = statement_digest(file.claims, file.blocks)
  BY <1>2 DEF Policy, StatementLine
<1>4. policy.root = IF "w" \in ToSet(file.blocks) THEN Root(file.opened["w"]) ELSE Absent
  <2>1. CASE "w" \in ToSet(file.blocks)
    <3>1. policy.root = file.roots["w"]
      BY <1>2, <2>1 DEF Policy, RootLine
    <3>2. IF file.roots["w"] = EMPTY_COMMIT_ROOT THEN file.opened["w"] = NoRows
          ELSE file.roots["w"] = Root(file.opened["w"])
      BY <1>2, <2>1 DEF Checks, MerkleTest
    <3> QED BY <2>1, <3>1, <3>2 DEF Root
  <2>2. CASE "w" \notin ToSet(file.blocks)
    BY <1>2, <2>2 DEF Policy, RootLine
  <2> QED BY <2>1, <2>2
<1>5. policy.identity = IF file.claims.bridged
                        THEN enrollment_identity(Root(file.wc.P[2]), file.claims.layout)
                        ELSE Absent
  <2>1. CASE file.claims.bridged
    <3>1. WcVerify(file, policy)
      BY <1>2, <2>1 DEF BridgeLine, Pinned
    <3> QED BY <2>1, <3>1 DEF WcVerify
  <2>2. CASE ~file.claims.bridged
    BY <1>2, <2>2 DEF BridgeLine, Policy, IdentityLine
  <2> QED BY <2>1, <2>2
<1> QED BY <1>3, <1>4, <1>5 DEF AcceptedIsTrusted

\* The roots a written file holds are those of its rows, of all its blocks.
LEMMA WrittenRoots ==
  ASSUME Inductive, Written
  PROVE  /\ DOMAIN roots = ToSet(Blocks(Tape))
         /\ \A b \in ToSet(Blocks(Tape)) : file.roots[b] = Root(file.opened[b])
<1>1. Drawn = UpToCol
  BY DEF Written
<1>2. DOMAIN roots = ToSet(BlocksR1(Tape)) \union {"p2"} \union (IF Tape.p3 THEN {"p3"} ELSE {})
  BY <1>1 DEF Inductive, RootsInv, UpToCol
<1>3. DOMAIN roots = ToSet(Blocks(Tape))
  BY <1>2, Layout
<1>4. PICK v \in Versions : file = FileOf(v) /\ Repro(Witness(v))
  BY DEF Written
<1>5. file.roots = roots /\ file.opened = Witness(v)
  BY <1>4 DEF FileOf
<1> QED BY <1>3, <1>4, <1>5 DEF Repro

\* The verifier finds the rounds of a written file and draws the prover's coins.
LEMMA SameCoins ==
  ASSUME Inductive, Written
  PROVE  /\ file.blocks[AtP2(file)] = "p2"
         /\ Recomputed(file) = coins
<1> DEFINE t == Tape
           r == BlocksR1(t)
           b == Blocks(t)
<1>1. PICK v \in Versions : file = FileOf(v)
  BY DEF Written
<1>2. /\ file.digest = statement_digest(t, b) /\ file.claims = t /\ file.blocks = b
      /\ file.roots = roots /\ file.tests = tests
  BY <1>1 DEF FileOf
<1>3. /\ r \in Seq(Names) /\ b \in Seq(Names) /\ Len(r) \in Nat
      /\ Len(b) = Len(r) + (IF t.p3 THEN 2 ELSE 1)
      /\ \A i \in 1..Len(r) : b[i] = r[i]
      /\ b[Len(r) + 1] = "p2"
      /\ t.p3 => b[Len(r) + 2] = "p3"
  BY Layout
<1> HIDE DEF r, b, t
<1>4. HasP3(file) <=> t.p3
  <2>1. CASE t.p3
    BY <1>2, <1>3, <2>1 DEF HasP3, Last
  <2>2. CASE ~t.p3
    BY <1>2, <1>3, <2>2 DEF HasP3, Last
  <2> QED BY <2>1, <2>2
<1>5. AtP2(file) = Len(r) + 1
  <2>1. CASE t.p3
    <3>1. Len(b) - 1 = Len(r) + 1
      BY <1>3, <2>1
    <3> QED BY <1>2, <1>4, <2>1, <3>1 DEF AtP2
  <2>2. CASE ~t.p3
    BY <1>2, <1>3, <1>4, <2>2 DEF AtP2
  <2> QED BY <2>1, <2>2
<1>6. SubSeq(file.blocks, 1, AtP2(file) - 1) = r
  <2>1. AtP2(file) - 1 = Len(r)
    BY <1>3, <1>5
  <2>2. \A i \in 1..Len(r) : b[i] \in Names
    BY <1>3
  <2>3. /\ SubSeq(b, 1, Len(r)) \in Seq(Names)
        /\ Len(SubSeq(b, 1, Len(r))) = IF 1 <= Len(r) THEN Len(r) - 1 + 1 ELSE 0
        /\ \A i \in 1..(Len(r) - 1 + 1) : SubSeq(b, 1, Len(r))[i] = b[1 + i - 1]
    BY <1>3, <2>2, SubSeqProperties
  <2>4. Len(SubSeq(b, 1, Len(r))) = Len(r)
    BY <1>3, <2>3
  <2>5. \A i \in 1..Len(r) : SubSeq(b, 1, Len(r))[i] = r[i]
    <3>1. \A i \in 1..Len(r) : i \in 1..(Len(r) - 1 + 1) /\ 1 + i - 1 = i
      BY <1>3
    <3> QED BY <1>3, <2>3, <3>1
  <2>6. SubSeq(b, 1, Len(r)) = r
    BY <1>3, <2>3, <2>4, <2>5, SeqEqual
  <2> QED BY <1>2, <2>1, <2>6
<1>7. file.blocks[AtP2(file)] = "p2"
  BY <1>2, <1>3, <1>5
<1>8. file.digest # Absent
  BY <1>2 DEF statement_digest, Absent
<1>9. Drawn = UpToCol
  BY DEF Written
<1>10. /\ coins.s_op = fs_s_op(statement_digest(t, b), r, InOrder(r, roots))
       /\ coins.s_bind = fs_s_bind(coins.s_op, roots["p2"])
       /\ coins.s_comb = fs_s_comb(coins.s_bind, IF t.p3 THEN roots["p3"] ELSE EMPTY_COMMIT_ROOT)
       /\ coins.s_col = fs_s_col(coins.s_comb, tests.q_irs, tests.q_lin, tests.p_0)
  BY <1>9 DEF Inductive, CoinsInv, TestsInv, UpToCol, t, r, b
<1> DEFINE s_op == fs_s_op(statement_digest(file.claims, file.blocks), r, InOrder(r, file.roots))
           s_bind == fs_s_bind(s_op, file.roots["p2"])
           s_comb == fs_s_comb(s_bind, IF HasP3(file) THEN file.roots["p3"] ELSE EMPTY_COMMIT_ROOT)
           s_col == fs_s_col(s_comb, file.tests.q_irs, file.tests.q_lin, file.tests.p_0)
<1>11. Recomputed(file) = [s_op |-> s_op, s_bind |-> s_bind, s_comb |-> s_comb, s_col |-> s_col]
  BY <1>6, <1>8 DEF Recomputed
<1>12. coins.s_op = s_op
  BY <1>2, <1>10
<1>13. coins.s_bind = s_bind
  BY <1>2, <1>10, <1>12
<1>14. coins.s_comb = s_comb
  BY <1>2, <1>4, <1>10, <1>13
<1>15. coins.s_col = s_col
  BY <1>2, <1>10, <1>14
<1> HIDE DEF s_op, s_bind, s_comb, s_col
<1>16. coins = [s_op |-> s_op, s_bind |-> s_bind, s_comb |-> s_comb, s_col |-> s_col]
  <2>1. coins = [d \in UpToCol |-> coins[d]]
    BY <1>9 DEF Inductive, RoundInv
  <2> QED BY <1>12, <1>13, <1>14, <1>15, <2>1 DEF UpToCol
<1> QED BY <1>7, <1>11, <1>16

\* verify_proof returns a verdict on every file the states can hold.
LEMMA NoPanic ==
  ASSUME Inductive
  PROVE  verdict # "panic"
<1> SUFFICES ASSUME verdict = "panic" PROVE FALSE
  OBVIOUS
<1>1. pc = "verified" /\ Verdict(file, policy) = "panic" /\ (file \in OldFiles \/ Written)
  BY NoneAssumption DEF Inductive, FileInv
<1>2. file \in OldFiles => file.digest = Absent
  BY OldFilesAssumption
<1>3. ~(file.digest # Absent /\ file.blocks[AtP2(file)] # "p2")
  BY <1>1, <1>2, SameCoins
<1> QED BY <1>1, <1>3 DEF Verdict, Refused

\* A root is empty when there are no rows, and only then.
LEMMA EmptyRoot ==
  ASSUME NEW rows
  PROVE  Root(rows) = EMPTY_COMMIT_ROOT <=> rows = NoRows
  BY DEF Root, EMPTY_COMMIT_ROOT

\* The honest prover's file of the first version passes each of its checks.
LEMMA Honest ==
  ASSUME Inductive
  PROVE  HonestIsAccepted
<1> SUFFICES ASSUME pc = "verified", file \notin OldFiles, policy = RightPolicy,
                    file.opened = Witness(1),
                    tests.q_irs[2] = InOrder(Blocks(Tape), Witness(1)),
                    Tape.bridged => /\ job.enrollment.model = job.model
                                    /\ file.wc.P[2] = Experts(job.model, 1)
             PROVE  verdict = "accept"
  BY NoPanic DEF HonestIsAccepted
<1>1. Written /\ verdict = Verdict(file, policy)
  BY DEF Inductive, FileInv
<1>2. file.blocks[AtP2(file)] = "p2" /\ Recomputed(file) = coins
  BY <1>1, SameCoins
<1>3. /\ file.digest = statement_digest(Tape, Blocks(Tape)) /\ file.claims = Tape
      /\ file.blocks = Blocks(Tape) /\ file.roots = roots /\ file.seeds = coins
      /\ file.tests = tests /\ file.columns = coins.s_col /\ file.wc = wc
  <2>1. PICK v \in Versions : file = FileOf(v)
    BY <1>1 DEF Written
  <2> QED BY <2>1 DEF FileOf
<1>4. Drawn = UpToCol
  BY <1>1 DEF Written
<1>5. file.digest # Absent
  BY <1>3 DEF statement_digest, Absent
<1>6. PICK v \in Versions :
        tests = Tests(InOrder(Blocks(Tape), Witness(v)), coins.s_op, coins.s_bind, coins.s_comb)
  BY <1>4 DEF Inductive, TestsInv, UpToCol
<1>7. tests = Tests(InOrder(Blocks(Tape), Witness(1)), coins.s_op, coins.s_bind, coins.s_comb)
  <2>1. tests.q_irs[2] = InOrder(Blocks(Tape), Witness(v))
    BY <1>6 DEF Tests, q_irs
  <2> QED BY <1>6, <2>1
<1>8. ASSUME NEW b \in ToSet(Blocks(Tape)) PROVE file.roots[b] = Root(file.opened[b])
  BY <1>1, <1>8, WrittenRoots
<1>9. Checks(file)
  <2>1. OpenedColumns(file)
    BY <1>2, <1>3 DEF OpenedColumns
  <2>2. MerkleTest(file)
    BY <1>3, <1>8, EmptyRoot DEF MerkleTest
  <2>3. Joint(file) = InOrder(Blocks(Tape), Witness(1))
    BY <1>3 DEF Joint
  <2>4. IrsTest(file) /\ LinearTests(file) /\ QuadraticTests(file)
    BY <1>2, <1>3, <1>7, <2>3 DEF IrsTest, LinearTests, QuadraticTests, Tests
  <2> QED BY <2>1, <2>2, <2>4 DEF Checks
<1>10. policy.stmt = statement_digest(Tape, Blocks(Tape))
  BY DEF RightPolicy
<1>11. StatementLine(file, policy)
  BY <1>3, <1>5, <1>10 DEF StatementLine
<1>12. RootLine(file, policy)
  <2>1. "w" \in ToSet(Blocks(Tape)) <=> Tape.w
    BY Layout
  <2>2. CASE Tape.w
    <3>1. file.roots["w"] = Root(Witness(1)["w"])
      BY <1>8, <2>1, <2>2
    <3>2. Witness(1)["w"] = Content("w", 1, coins.s_op, coins.s_bind)
      BY <2>1, <2>2 DEF Witness
    <3>3. Content("w", 1, coins.s_op, coins.s_bind)
            = Weights(job.model, IF Commitment = None THEN DefaultSeed ELSE Commitment.seed, 1)
      BY DEF Content
    <3>4. policy.root = Root(Weights(job.model, IF Commitment = None THEN DefaultSeed
                                                ELSE Commitment.seed, 1))
      BY <2>2 DEF RightPolicy, Enrolled
    <3> QED BY <1>3, <2>1, <2>2, <3>1, <3>2, <3>3, <3>4 DEF RootLine
  <2>3. CASE ~Tape.w
    BY <1>3, <2>1, <2>3 DEF RootLine, RightPolicy
  <2> QED BY <2>2, <2>3
<1>13. CASE Tape.bridged
  <2>1. PICK x \in Versions : wc = Bridge(x, coins.s_op, coins.s_bind)
    BY <1>4, <1>13 DEF Inductive, BridgeInv, UpToCol
  <2> DEFINE root == Root(Experts(job.model, 1))
             P == Projection(Experts(job.model, x), coins.s_op)
             pi == <<"pi", job.enrollment.model, coins.s_op>>
  <2>2. /\ wc.root = root /\ wc.P = P /\ wc.pi = pi
        /\ wc.eta = <<"eta", hosted_s_late(coins.s_bind, root, P, pi)>>
    BY <1>13, <2>1 DEF Bridge
  <2>3. policy.identity = enrollment_identity(root, Tape.layout)
    BY <1>13 DEF RightPolicy
  <2>4. wc.P[2] = Experts(job.model, 1) /\ wc.P[3] = coins.s_op
    BY <1>3, <1>13, <2>2 DEF Projection
  <2>5. WcVerify(file, policy)
    <3>1. policy.identity = enrollment_identity(wc.root, Tape.layout)
      BY <2>2, <2>3
    <3>2. wc.eta = <<"eta", hosted_s_late(coins.s_bind, wc.root, wc.P, wc.pi)>>
      BY <2>2
    <3>3. wc.root = Root(wc.P[2])
      BY <2>2, <2>4
    <3> QED BY <1>2, <1>3, <2>4, <3>1, <3>2, <3>3 DEF WcVerify
  <2>6. policy.identity # Absent /\ file.wc # NoBridge
    <3>1. policy.identity # Absent
      BY <2>3 DEF enrollment_identity, Absent
    <3>2. wc.root # Absent
      BY <2>2 DEF Root, EMPTY_COMMIT_ROOT, Absent
    <3> QED BY <1>3, <3>1, <3>2 DEF NoBridge
  <2>7. Pinned(file, policy)
    BY <1>5, <2>5, <2>6 DEF Pinned
  <2>8. ~Refused(file, policy)
    BY <1>3, <1>5, <1>10, <2>7 DEF Refused
  <2>9. Policy(file, policy) /\ BridgeLine(file, policy)
    BY <1>2, <1>3, <1>11, <1>12, <1>13, <2>6, <2>7 DEF Policy, IdentityLine, BridgeLine
  <2> QED BY <1>1, <1>2, <1>9, <2>7, <2>8, <2>9 DEF Verdict
<1>14. CASE ~Tape.bridged
  <2>1. wc = NoBridge
    BY <1>14 DEF Inductive, BridgeInv
  <2>2. policy.identity = Absent
    BY <1>14 DEF RightPolicy
  <2>3. Policy(file, policy) /\ BridgeLine(file, policy)
    BY <1>2, <1>3, <1>11, <1>12, <1>14, <2>1, <2>2 DEF Policy, IdentityLine, BridgeLine
  <2>4. ~Refused(file, policy)
    BY <1>3, <1>5, <1>10, <1>14 DEF Refused
  <2> QED BY <1>1, <1>2, <1>3, <1>9, <1>14, <2>3, <2>4 DEF Verdict
<1> QED BY <1>13, <1>14

-----------------------------------------------------------------------------
(* The theorems. *)

\* In every reachable state each coin drawn has been hashed of every root that
\* was committed before it, whatever the tape, the commitment and the sweeps
\* (the rounds of prove_streaming, fs.rs).
THEOREM CoinsAreBound == Spec => []CoinsBindCommitments
<1>1. Inductive => CoinsBindCommitments
  BY BindsCommitments
<1> QED BY <1>1, InductiveHolds, PTL

\* Prover and verifier agree on every layout of blocks, on all of the coins and
\* on the bridge: under the right policy an honest proof is accepted, and no
\* file a prover wrote makes the verifier panic, whatever the policy.
THEOREM HonestAreAccepted == Spec => []HonestIsAccepted
<1>1. Inductive => HonestIsAccepted
  BY Honest
<1> QED BY <1>1, InductiveHolds, PTL

\* What is accepted is a proof of the caller's statement, of the trusted root's
\* weights and of the trusted enrollment's projections.
THEOREM AcceptedAreTrusted == Spec => []AcceptedIsTrusted
<1>1. Inductive => AcceptedIsTrusted
  BY Trusted
<1> QED BY <1>1, InductiveHolds, PTL
=============================================================================
