------------------------------ MODULE Transcript ------------------------------
(***************************************************************************)
(* One proof from its tape to the verdict: the rounds of the streaming     *)
(* prover with the coin drawn after each, the proof file, and verify_proof *)
(* with the policy its caller supplies.                                    *)
(*                                                                         *)
(* A hash is the term it is taken of, so two hashes are equal when and     *)
(* only when everything hashed is.  All terms are tuples that begin with   *)
(* their kind.  What a sweep regenerates is a version of the witness: in a *)
(* healthy process it is always the first, and a cache or a compute        *)
(* function that misbehaves makes it another one.                          *)
(***************************************************************************)
EXTENDS Naturals, Sequences, FiniteSets, SequencesExt

CONSTANTS
    Jobs,        \* what prove_streaming is called with
    OldFiles,    \* files of the prover that predates the transcript
    RootPolicies, StatementPolicies, IdentityPolicies,
                 \* trusted values a caller may supply, Absent for "-"
    Versions,    \* versions of the witness a sweep may regenerate, with 1
    None

ASSUME VersionsAssumption == 1 \in Versions
ASSUME NoneAssumption == None \notin {"accept", "reject", "panic"}

DefaultSeed == "MASTER_SEED"

\* A slot of a proof file or a policy that is left out.
Absent == <<"absent">>
NoBridge == [root |-> Absent, P |-> Absent, pi |-> Absent, eta |-> Absent]

\* f with the value e at d
With(f, d, e) == [x \in DOMAIN f \union {d} |-> IF x = d THEN e ELSE f[x]]

(***************************************************************************)
(* A job is a record of                                                    *)
(*   tape        [w, wnew, p2, p3, bridged : BOOLEAN,                      *)
(*                quads : blocks with a quadratic constraint on their rows,*)
(*                rows : rows of the weight block,                         *)
(*                layout : rows of the bridged claims, in claim order]     *)
(*   model       the weights the tape loads                                *)
(*   wc          a weight commitment [model, seed, rows] or None           *)
(*   wnew_seed   the refresh seed or None                                  *)
(*   enrollment  the bridge's [model, layout] or None                      *)
(***************************************************************************)
VARIABLES
    job,       \* the call
    pc,        \* the round the prover is in, and later the file's state
    roots,     \* block -> committed root
    coins,     \* name -> coin
    wc,        \* the bridge's section of the proof, or NoBridge
    tests,     \* the test polynomials, or None
    file,      \* the proof file, or None
    policy,    \* what the caller of verify_proof supplied
    verdict    \* what verify_proof printed, or None

vars == <<job, pc, roots, coins, wc, tests, file, policy, verdict>>
proof == <<roots, coins, wc, tests, file>>

-----------------------------------------------------------------------------
(* The transcript: protocol.py and its mirror fs.rs. *)

EMPTY_COMMIT_ROOT == <<"zeros">>

statement_digest(claims, blocks) == <<"statement", claims, blocks>>
fs_s_op(stmt, blocks, rs) == <<"s_op", stmt, blocks, rs>>
LateUnbound(s_op, root_p2) == <<"s_bind", s_op>>    \* faulty variant: no R2 root
fs_s_bind(s_op, root_p2) == <<"s_bind", s_op, root_p2>>
fs_s_comb(s_bind, root_p3) == <<"s_comb", s_bind, root_p3>>
fs_s_col(s_comb, irs, lin, quad) == <<"s_col", s_comb, irs, lin, quad>>
hosted_s_late(s_bind, root, P, pi) == <<"late", s_bind, root, P, pi>>
enrollment_identity(root, layout) == <<"identity", root, layout>>

\* The row blocks of phase 1, and all of a tape, in the order in which they are
\* opened.
BlocksR1(t) == <<"blind">> \o (IF t.w THEN <<"w">> ELSE <<>>)
                           \o (IF t.wnew THEN <<"wnew">> ELSE <<>>) \o <<"p1">>
Blocks(t) == BlocksR1(t) \o <<"p2">> \o (IF t.p3 THEN <<"p3">> ELSE <<>>)

-----------------------------------------------------------------------------
(* What the blocks hold. *)

Tape == job.tape
Commitment == IF Tape.w THEN job.wc ELSE None

\* commit_weights: the rows of a model under a seed, in any tape.
Weights(model, seed, v) == <<"weights", model, seed, v>>
NoRows == <<"no rows">>

\* The rows of block b as a sweep regenerates them in version v, under the
\* coins op and late: the auxiliaries of phase 2 and 3 depend on them.
Content(b, v, op, late) ==
    CASE b = "blind" -> <<"blind">>
      [] b = "w" -> Weights(job.model,
                            IF Commitment = None THEN DefaultSeed
                            ELSE Commitment.seed, v)
      [] b = "wnew" -> Weights(job.model, job.wnew_seed, v)
      [] b = "p1" -> <<"p1", Tape, v>>
      [] b = "p2" -> IF Tape.p2 THEN <<"p2", Tape, op, v>> ELSE NoRows
      [] b = "p3" -> <<"p3", Tape, op, late, v>>

Root(rows) == IF rows = NoRows THEN EMPTY_COMMIT_ROOT ELSE <<"root", rows>>
Enrolled(h) == Root(Weights(h.model, h.seed, 1))

\* The bridge: expert weights, their enrolled root and their projection by rho.
Experts(model, v) == <<"experts", model, v>>
Projection(experts, s_op) == <<"P", experts, s_op>>

\* The test polynomials of the rows of all blocks, in block order: a combination
\* of the rows, of the linear and of the quadratic constraints on them.
q_irs(rows, s_comb) == <<"q_irs", rows, s_comb>>
q_lin(rows, s_op, s_bind, s_comb) == <<"q_lin", rows, s_op, s_bind, s_comb>>
p_0(rows, s_op, s_comb) == <<"p_0", rows, s_op, s_comb>>

Tests(rows, s_op, s_bind, s_comb) ==
    [q_irs |-> q_irs(rows, s_comb), q_lin |-> q_lin(rows, s_op, s_bind, s_comb),
     p_0 |-> p_0(rows, s_op, s_comb)]

\* The values of a function on blocks as a sequence in block order.
InOrder(bs, f) == [i \in DOMAIN bs |-> f[bs[i]]]

\* What the prover that predates the transcript left: files without a digest.
ASSUME OldFilesAssumption == \A f \in OldFiles : f.digest = Absent

-----------------------------------------------------------------------------
(* The prover. *)

Init ==
    /\ job \in Jobs
    /\ roots = <<>> /\ coins = <<>>
    /\ wc = NoBridge /\ tests = None
    /\ policy = None /\ verdict = None
    /\ \/ pc = "start" /\ file = None
       \/ pc = "published" /\ file \in OldFiles

Fail == pc' = "failed" /\ UNCHANGED <<job, proof, policy, verdict>>

\* The assertions before the first sweep: a handle of other weights' shape, a
\* linking tape without the refresh seed.
Unfit == \/ Commitment # None /\ Commitment.rows # Tape.rows
         \/ Tape.wnew /\ job.wnew_seed = None

Start ==
    /\ pc = "start"
    /\ IF Unfit THEN Fail
       ELSE pc' = "R1" /\ UNCHANGED <<job, proof, policy, verdict>>

\* Phase 1 is committed; a referenced weight block lends its root.
R1(v) ==
    /\ pc = "R1"
    /\ LET bs == BlocksR1(Tape)
           rs == [b \in ToSet(bs) |->
                     IF b = "w" /\ Commitment # None
                     THEN Enrolled(Commitment)
                     ELSE Root(Content(b, v, None, None))]
       IN /\ roots' = rs
          /\ coins' = [s_op |-> fs_s_op(statement_digest(Tape, Blocks(Tape)),
                                        bs, InOrder(bs, rs))]
    /\ pc' = "R2"
    /\ UNCHANGED <<job, wc, tests, file, policy, verdict>>

\* The bridge needs an enrollment of the tape's claims, in their order, and an
\* enrollment needs claims to bridge.
BridgeFits == IF job.enrollment = None THEN ~Tape.bridged
              ELSE Tape.bridged /\ job.enrollment.layout = Tape.layout

\* The projections are the ones the R2 sweep computed from the tape's weights.
Bridge(v, s_op, s_bind) ==
    LET root == Root(Experts(job.enrollment.model, 1))
        P == Projection(Experts(job.model, v), s_op)
        pi == <<"pi", job.enrollment.model, s_op>>
    IN [root |-> root, P |-> P, pi |-> pi,
        eta |-> <<"eta", hosted_s_late(s_bind, root, P, pi)>>]

\* Phase 2 is committed, the late coin drawn, and the bridge answered with it.
R2(v) ==
    /\ pc = "R2"
    /\ LET root == Root(Content("p2", v, coins.s_op, None))
           s_bind == fs_s_bind(coins.s_op, root)
       IN IF ~BridgeFits THEN Fail
          ELSE /\ roots' = With(roots, "p2", root)
               /\ coins' = With(coins, "s_bind", s_bind)
               /\ wc' = IF Tape.bridged THEN Bridge(v, coins.s_op, s_bind) ELSE wc
               /\ pc' = "R3"
               /\ UNCHANGED <<job, tests, file, policy, verdict>>

\* Rows padded under another seed than the proof's must not be in a quad.
QuadsMisplaced ==
    \/ Commitment # None /\ Commitment.seed # DefaultSeed /\ "w" \in Tape.quads
    \/ Tape.wnew /\ "wnew" \in Tape.quads

\* Phase 3 is committed or framed as empty, and the constraints are compiled.
R3(v) ==
    /\ pc = "R3"
    /\ LET root == IF Tape.p3
                   THEN Root(Content("p3", v, coins.s_op, coins.s_bind))
                   ELSE EMPTY_COMMIT_ROOT
       IN IF QuadsMisplaced THEN Fail
          ELSE /\ roots' = IF Tape.p3 THEN With(roots, "p3", root) ELSE roots
               /\ coins' = With(coins, "s_comb", fs_s_comb(coins.s_bind, root))
               /\ pc' = "fold"
               /\ UNCHANGED <<job, wc, tests, file, policy, verdict>>

\* What one sweep regenerates of all blocks once all coins are drawn.
Witness(v) == [b \in ToSet(Blocks(Tape)) |->
                  Content(b, v, coins.s_op, coins.s_bind)]

\* The test polynomials, the columns, and the ledger's word on them.
Fold(v) ==
    /\ pc = "fold"
    /\ \/ Commitment # None /\ Fail        \* check_openings: out of budget
       \/ LET t == Tests(InOrder(Blocks(Tape), Witness(v)),
                         coins.s_op, coins.s_bind, coins.s_comb)
          IN /\ tests' = t
             /\ coins' = With(coins, "s_col", fs_s_col(coins.s_comb, t.q_irs, t.q_lin, t.p_0))
             /\ pc' = "open"
             /\ UNCHANGED <<job, roots, wc, file, policy, verdict>>

\* The self-check: the opened rows hash to the leaves that were committed.
Repro(opened) == \A b \in DOMAIN roots : Root(opened[b]) = roots[b]

Open(v) ==
    /\ pc = "open"
    /\ IF ~Repro(Witness(v)) THEN Fail
       ELSE /\ file' = [digest |-> statement_digest(Tape, Blocks(Tape)),
                        claims |-> Tape, blocks |-> Blocks(Tape),
                        roots |-> roots, seeds |-> coins, tests |-> tests,
                        opened |-> Witness(v), columns |-> coins.s_col, wc |-> wc]
            /\ pc' = "published"
            /\ UNCHANGED <<job, roots, coins, wc, tests, policy, verdict>>

-----------------------------------------------------------------------------
(* verify_proof, with the policy pol of its caller. *)

\* The round of each block follows from its place: p3 is last if it is there,
\* p2 comes before it, and the blocks in front of p2 are those of R1.
HasP3(f) == Last(f.blocks) = "p3"
AtP2Last(f) == Len(f.blocks)  \* faulty variant: phase 3 is forgotten
AtP2(f) == IF HasP3(f) THEN Len(f.blocks) - 1 ELSE Len(f.blocks)

\* The coins the verifier uses: its own, or those of an old file.
Recomputed(f) ==
    IF f.digest = Absent THEN f.seeds
    ELSE LET bs == SubSeq(f.blocks, 1, AtP2(f) - 1)
             s_op == fs_s_op(statement_digest(f.claims, f.blocks),
                             bs, InOrder(bs, f.roots))
             s_bind == fs_s_bind(s_op, f.roots["p2"])
             s_comb == fs_s_comb(s_bind, IF HasP3(f) THEN f.roots["p3"]
                                         ELSE EMPTY_COMMIT_ROOT)
         IN [s_op |-> s_op, s_bind |-> s_bind, s_comb |-> s_comb,
             s_col |-> fs_s_col(s_comb, f.tests.q_irs, f.tests.q_lin, f.tests.p_0)]

\* The policy table. An old file has no digest and is checked without one.
StatementLine(f, pol) ==
    IF f.digest = Absent THEN pol.stmt = Absent
    ELSE /\ f.digest = statement_digest(f.claims, f.blocks)
         /\ pol.stmt = statement_digest(f.claims, f.blocks)
RootLineIfGiven(f, pol) ==    \* faulty variant: no policy, no check
    pol.root = Absent \/ ("w" \in ToSet(f.blocks) /\ pol.root = f.roots["w"])
RootLine(f, pol) ==
    IF "w" \in ToSet(f.blocks) THEN pol.root = f.roots["w"] ELSE pol.root = Absent
IdentityLine(f, pol) == (f.wc = NoBridge) = (pol.identity = Absent)
Policy(f, pol) ==
    /\ StatementLine(f, pol)
    /\ f.seeds = Recomputed(f)
    /\ RootLine(f, pol)
    /\ IdentityLine(f, pol)

\* wc_verify: the bridge's materials under the trusted identity.
WcVerify(f, pol) ==
    LET c == Recomputed(f)
    IN /\ pol.identity = enrollment_identity(f.wc.root, f.claims.layout)
       /\ f.wc.eta = <<"eta", hosted_s_late(c.s_bind, f.wc.root, f.wc.P, f.wc.pi)>>
       /\ f.wc.root = Root(f.wc.P[2])
       /\ f.wc.P[3] = c.s_op

\* The projections the compile takes as public pins of the bridged claims.
Pinned(f, pol) == /\ f.wc # NoBridge /\ pol.identity # Absent
                  /\ f.digest # Absent
                  /\ WcVerify(f, pol)
BridgeLine(f, pol) == IF f.claims.bridged THEN Pinned(f, pol) ELSE f.wc = NoBridge

\* The table is printed and the proof refused before the compile.
Refused(f, pol) ==
    \/ IF f.digest = Absent THEN pol.stmt # Absent
       ELSE pol.stmt # statement_digest(f.claims, f.blocks)
    \/ f.claims.bridged /\ ~Pinned(f, pol)

\* The six tests of verify_bound on the opened columns.
OpenedColumns(f) == f.columns = Recomputed(f).s_col
MerkleTest(f) ==
    \A b \in ToSet(f.blocks) :
        IF f.roots[b] = EMPTY_COMMIT_ROOT THEN f.opened[b] = NoRows
        ELSE f.roots[b] = Root(f.opened[b])
Joint(f) == InOrder(f.blocks, f.opened)
IrsTest(f) == f.tests.q_irs = q_irs(Joint(f), Recomputed(f).s_comb)
LinearTests(f) ==
    LET c == Recomputed(f)
    IN f.tests.q_lin = q_lin(Joint(f), c.s_op, c.s_bind, c.s_comb)
QuadraticTests(f) ==
    LET c == Recomputed(f) IN f.tests.p_0 = p_0(Joint(f), c.s_op, c.s_comb)
Checks(f) == /\ OpenedColumns(f) /\ MerkleTest(f)
             /\ IrsTest(f) /\ LinearTests(f) /\ QuadraticTests(f)

\* What the binary prints; it aborts where it indexes what is not there.
Verdict(f, pol) ==
    IF f.digest # Absent /\ f.blocks[AtP2(f)] # "p2" THEN "panic"
    ELSE IF Refused(f, pol) THEN "reject"
    ELSE IF f.claims.bridged /\ ~Pinned(f, pol) THEN "panic"
    ELSE IF Checks(f) /\ Policy(f, pol) /\ BridgeLine(f, pol) THEN "accept"
    ELSE "reject"

Verify(pol) ==
    /\ pc = "published"
    /\ policy' = pol
    /\ verdict' = Verdict(file, pol)
    /\ pc' = "verified"
    /\ UNCHANGED <<job, proof>>

Policies == [root : RootPolicies, stmt : StatementPolicies,
             identity : IdentityPolicies]

Next ==
    \/ Start
    \/ \E v \in Versions : R1(v) \/ R2(v) \/ R3(v) \/ Fold(v) \/ Open(v)
    \/ \E pol \in Policies : Verify(pol)

Spec == Init /\ [][Next]_vars

-----------------------------------------------------------------------------
(* Properties. *)

\* No coin exists before the messages it tests: each one has been hashed of
\* every root committed up to its round, the late coin in particular of the
\* phase-2 root, so that nothing can be chosen after its challenge is known.
OpHashed == ToSet(coins.s_op[4])
BindHashed == OpHashed \union {coins.s_bind[i] : i \in 3..Len(coins.s_bind)}
CombHashed == BindHashed \union {coins.s_comb[i] : i \in 3..Len(coins.s_comb)}
CoinsBindCommitments ==
    /\ "s_op" \in DOMAIN coins =>
          \A b \in ToSet(BlocksR1(Tape)) : roots[b] \in OpHashed
    /\ "s_bind" \in DOMAIN coins =>
          coins.s_bind[2] = coins.s_op /\ roots["p2"] \in BindHashed
    /\ "s_comb" \in DOMAIN coins =>
          coins.s_comb[2] = coins.s_bind
          /\ \A b \in DOMAIN roots : roots[b] \in CombHashed

\* The right policy of a job: the admission's statement digest, the enrolled
\* root of the model, and the identity of its bridge's enrollment.
RightPolicy ==
    [stmt |-> statement_digest(Tape, Blocks(Tape)),
     root |-> IF ~Tape.w THEN Absent
              ELSE Enrolled([model |-> job.model,
                             seed |-> IF Commitment = None THEN DefaultSeed
                                      ELSE Commitment.seed]),
     identity |-> IF ~Tape.bridged THEN Absent
                  ELSE enrollment_identity(Root(Experts(job.model, 1)), Tape.layout)]

\* Prover and verifier agree on every layout of blocks: a proof whose last two
\* sweeps, fold and opening, regenerated the witness, and whose projections are
\* of the enrolled weights, is accepted under the right policy.  The three sweeps
\* that committed need no hypothesis: when one of them drifted, in whichever
\* block, the self-check fails closed and no file fails hours later for it.  A
\* file a prover wrote is answered with a verdict, whatever the policy: what the
\* compile would miss is refused before it.
HonestIsAccepted ==
  /\ verdict # "panic"
  /\ (/\ pc = "verified" /\ file \notin OldFiles
      /\ policy = RightPolicy
      /\ file.opened = Witness(1)
      /\ tests.q_irs[2] = InOrder(Blocks(Tape), Witness(1))
      /\ Tape.bridged => /\ job.enrollment.model = job.model
                         /\ file.wc.P[2] = Experts(job.model, 1))
       => verdict = "accept"

\* An accepted proof is one of the caller's statement, its weight rows are
\* those of the trusted root and its projections those of the trusted
\* enrollment; no slot can be left out for a proof that has something to bind.
AcceptedIsTrusted ==
    verdict = "accept" =>
        /\ file.digest # Absent \/ policy.stmt # Absent =>
              policy.stmt = statement_digest(file.claims, file.blocks)
        /\ policy.root = IF "w" \in ToSet(file.blocks)
                         THEN Root(file.opened["w"]) ELSE Absent
        /\ policy.identity = IF file.claims.bridged
                             THEN enrollment_identity(Root(file.wc.P[2]),
                                                      file.claims.layout)
                             ELSE Absent
=============================================================================
