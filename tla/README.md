# VerInf: a TLA+ development

VerInf proves that a large language model produced given tokens, with a
hash-based argument system (Ligero over the Goldilocks field) whose prover
regenerates its witness sweep by sweep because the witness never fits memory.
A proof takes hours; most of what can go wrong in it shows only at the end, at
full size, or after several proofs.  This directory keeps the specifications of
the parts where that matters, the TLC runs that check them on small instances,
and the TLAPS proofs of the results that hold for all of them.

## 1. The system

| part | source | state it keeps | operations | here |
|---|---|---|---|---|
| Tape, claims and witness | `prover/tape.py`, `claims.py`, `*_claim.py`, `compute_fns.py` | recorded claims, variables, inputs, lookup counts | record an operation, compute its wires, count lookups, fill auxiliary rows, settle tables | partly |
| Row layout and packets | `prover/core.py` (`_layout`, `_claim_var_groups`, `_StreamingPackets`), `packets.py` | row of every variable, bands, quads | lay out, compile per claim, index bands, fold a chunk | modelled |
| Streaming prover | `prover/core.py` (`_prove_streaming_body`, `_stream_sweep`), `compute_fns.FoldRunner`, `routed_projected.py` | live values, lookup counts, fold states, caches, accumulators | five sweeps: commit R1, R2, R3, fold, open | partly |
| Transcript | `prover/protocol.py`, `verifier/src/fs.rs` | seeds chained by hash | derive s_op, s_bind, s_comb, s_col; recompute | modelled |
| Argument | `prover/core.py` (`prove_streaming`), `verifier/src/verify.rs` | codewords, trees, test polynomials, opened columns | commit, respond, open, check | modelled |
| Encoding, Merkle and field kernels | `prover/kernels`, `cuda_primitives.py` | device memory | field words, NTT, encoding, hashing | partly |
| Verifier's compile | `verifier/src/handlers.rs`, `compile.rs` | families of linear terms, quads | a handler per claim, expanders, settlement | partly |
| Final verification | `verifier/src/bin/verify_proof.rs` | parsed proof, recomputed seeds, policy | assemble blocks, apply the policy, verdict | partly |
| Weight commitment and ledger | `prover/core.py` (`WeightCommitment`) | root, tree, seed, opened columns; a file | enroll, load, budget check, book, save | modelled |
| Weight split | `prover/shard_plan.py`, `shard_worker.py`, `core.ColumnSink` | runs of variables per device, partial folds, column buffers | validate, fold a run, merge, open a run, finish | modelled |
| Weight-commitment bridge | `prover/wc_bridge.py` and its twins | enrollment tree, masks, projections, mask-point ledger | enroll, project, open, check | partly |
| Proof output | `prover/proof_dump.py` | `<path>.part`, the proof file, the mask-point record | reserve, write, fsync, publish | partly |
| Production driver | `demo/demo_maverick_full.py` | flock, the parts above | enroll, prove, audit | partly |
| Sampled audit | `prover/sampled_local_proofs.py`, `sampled_claim_runtime.py`, `layergkr/sampled_audit.py` | committed blocks, windows, ticket, verdict | commit, sample, answer, verify | partly |
| LayerGKR | `layergkr/` | layers, transcripts | sumcheck, LogUp, relations | partly |
| Profiler and splitter | `profiler/` | cost model, DAG, partition | predict, partition, split weights | partly |
| Admission | `prover/admission.py` | a measured report | check configuration, machine, manifest, caps | no |
| Loader, quantized weights | `prover/loader.py`, `kquant_cuda.py` | mapped files | decode | no |
| Token binding, other drivers | `prover/token_binding.py`, `demo/` | none | pack tokens; build a tape and prove it | no |

How they interact.  The driver takes the ledger's lock, builds a tape, passes
admission, reserves the output, and calls `tape.prove`; the streaming prover
walks the tape once per round, asks the transcript for a coin after each
commitment, asks the ledger before it extracts a weight column, and hands
sub-runs of the weight block to the weight split; the driver then books and
saves the ledger and only then writes the proof, which the Rust verifier reads.

What is hard about them:

* several driver processes, one commitment file and one output file, kills and
  power losses at any step (ledger, output);
* state that outlives a round, a proof or a failure: lookup counts, caches,
  projections, module globals (streaming prover);
* freeing: a value must live until its last reader, whichever of four kinds of
  reader that is, and no longer (streaming prover, folds);
* order: no challenge may exist before the message it follows, and both sides
  must see the same messages framed the same way (transcript);
* partial results merged by position (weight split, column buffers, bands);
* limits: padding budget, mask points, memory budgets, deadlines.

The properties that make each part correct are listed with its module below;
`PROJECT.json` lists the single hazards, each at its line.

## 2. Plan

Done, in this order: the opening ledger and its abstract budget; the output file;
the tape and the streaming prover; the weight split and, later, its planner; the
transcript; the window audit and the audit session it implements; every claim with
its compile on both sides, the row layout and the linear fold; the encoding, the
trees and the six tests; the bridge; every claim's computation, its lookups and its
auxiliary rows; the local proofs of the audit.  Proofs: `OpeningLedger`,
`ProofOutput`, `StreamingProver`, `Transcript`, `WindowAudit` and `WeightSplit` have
every safety property of their own that a run checks proved; of the argument, the
layout with its sweep (`EachRowOnce`) and the commitment with its openings
(`LeavesAreColumns`).

Left, in this order:

1. Whether a band index and a chunked fold are exact for any bands with distinct keys
   (`FoldIsExact` without the aliased claim), on top of `RowsOnce`.
2. The prove and verify session of `layergkr/sampled_audit.py` with its timeout.
3. The bridge's standalone coins and its enrollment ledger.
4. The partitioner (`profiler/partition.py`) against an exhaustive one.
5. The other parts of LayerGKR, if it becomes more than an experiment.

## 3. The modules

Every module opens with a comment that names the code it stands for.  Actions
bear the names of the functions they model; a definition called a *faulty
variant* is a bug a change of the code could introduce, kept next to the
definition it would replace, and used only to confirm that a property notices.

### PadBudget and OpeningLedger

`PadBudget` is the promise: the columns of an enrollment root that were ever
revealed grow by one admitted proof at a time, and an admitted proof keeps them
within half of the padding (`check_openings`, `OPENING_BUDGET_FRACTION`).
`OpeningLedger` is how it is kept.

| state | code |
|---|---|
| `pc`, `want`, `Q` | where a driver's `main()` is, `--expected-weight-root`, the columns of its proof |
| `wc` | its `WeightCommitment`: root and opened columns |
| `lock` | holders of the flock on `<path>.lock` |
| `file`, `survives` | what the path shows; what it may show after a power loss |
| `part`, `fd` | `<path>.part`, and which inode a driver's descriptor writes to |
| `released`, `enrolled` | history: columns that reached a proof file; roots drawn |

A proving driver runs `StartProving`, `Load`, `Prove`, `OpenPart`, `WritePart`,
`FsyncPart`, `Replace`, `SyncDir`, `Dump`; an enrolling one starts with
`StartEnrolling` and goes through the same save.  An enrollment takes no lock, as
in the code, so its save may share the `.part` inode of another driver's; `fd`
follows that inode through renames.  `Die` and `PowerLoss` may happen at any step.

A mixture of two writers' bytes is a file that does not load.  This is right for
the sizes the code uses: the ledger follows the tree in the file, the root is
recomputed when the tree is read, and no flush boundary of the buffered writer
falls between the two for any `N_LIG` from 2^4 to 2^21.

### ProofOutput

`reserve_output`, `dump_proof` and the except clauses of the driver, for drivers
that name one output path.  `path`, `survives` and `part` are the file system as
above; `part.owner` says who created the reservation and `part.left` at which step
that driver ended, if the `.part` stayed on disk (history, which no step of a driver
reads).  Of the steps after the creation most are in a try that unlinks the `.part`;
the directory sync of `reserve_output` and the ledger and mask record between the
proof and `dump_proof` (`demo_maverick_full.py:696-716`) are not: `ExitLeaving` leaves
it there, like a kill, and every later driver is refused until `RemoveStalePart`.  `masks` is
`<path>.wc-ledger.json`, the record of the bridge's mask points, which is rewritten
in place and without fsync before the document is written, so that a kill or a
power loss may leave it torn.  `LedgerOf` says which drivers exclude each other,
because the flock is next to the weight commitment.  `RemoveStalePart` and
`TakeProof` are the operator between runs; they are external, and the operator does
not remove a live driver's reservation.

### Tape

A recorded tape and what `FoldRunner.__init__` works out from it.  The streaming
prover and the window audit are two engines over it.  `IsTape` is what the
recorder produces: claims read what earlier ones wrote, and the mask of a fold
lands before any stream that this fold alone absorbs.  A claim that only a fold
reads is not an operand of another claim's quadratic constraint; no recorder in
the repository makes one.  A tensor is an integer made of what was read to
compute it, so that a missing, doubled or stale read changes it.

### StreamingProver

| state | code |
|---|---|
| `sweep`, `at`, `step` | the call of `_stream_sweep`, the group in its loop, the place in the body |
| `live`, `inputs` | `live`, `tape.inputs` (updated with what is left at the end of a sweep) |
| `mult` | the multiplicity tensors that a lookup table keeps across sweeps |
| `folds` | `FoldRunner.states` |
| `fits`, `cache` | what the memory budgets admit; `witness_cache` and `routed_cache` |
| `pcache`, `walks` | `routed_projected._P_CACHE`; passes over the shards made for it |
| `rows` | what each sweep hands to its accumulators, in order |

`Compute`, `Reuse` and `Finalize` are the three ways a claim's outputs come
about; `Auxiliary`, `Emit` and `Free` are the rest of the loop body.  `Raise` is an
exception anywhere: local state goes, the tape's tensors and module globals stay,
and the process may prove again.

Simplifications.  Whether a commitment is referenced in R1 only skips the hashing
of the weight rows, and is left to `Transcript`.  The variant of a fold with
separately committed outputs is not modelled.  Device placement and spilling
change where a value is and not which.

### WeightSplit, SplitPlanner and PlannedSplit

The plan is scanned (`CheckShape`, `Scan`, `EndScan`, `CheckDevices`) before any
row is touched, as `validated` and `validate_runs` do; then, per stage, the
coordinator sweeps its own variables (`SweepClaim`, `FoldChunk`, `OpenChunk`) and
the workers stream their runs.  `queue` holds the passes still to make, `row` the
place in the first, `sum` and `part` the accumulators, `sink` the `ColumnSink`.
Sums of field elements are bags of `[at, data, pad]` terms, since they are exact
and commute: a row folded under another row's coin or another seed is another
term.  Ill-typed plans are left out; the schema of the plan file is not a question
of state.  A claim's weight variables are consecutive in the layout
(`ClaimsAssumption`), which `_layout` guarantees.

`SplitPlanner` is `profiler/weightsplit.py`: the packed block, the cut of each stage,
the storage times, the candidate plans and the choice among them.  Times and bytes
are integers in units that make every rate one (so the rounding of floats is left
out).  `PlannedSplit` puts them together: a plan is given by hand, or a question is
`Asked`, and then turned down (`TurnDown`) or answered (`Evaluate`); the plan of an
answer about the prover's own block is handed to `WeightSplit`, which executes it.

### Transcript

Prover (`Start`, `R1`, `R2`, `R3`, `Fold`, `Open`), proof file and `verify_proof`
(`Verify`).  A hash is the term it is taken of.  Each prover step is given a version
of the witness: a healthy process always regenerates the first, and a sweep that
drifts regenerates another.  The polynomial tests and the Merkle paths are
equalities of what they compare, so the model shows what each test *covers* and
not why a random test is sound; the tests themselves are in `Argument`.  Of the
bridge only the path with lazy enrollment has its slot here.  Files are those an
honest prover writes (any drift included) or the ones of the prover before the
transcript; parsing is left out.  The phase-1 block is never empty.

The self-check of `Open` compares the opened rows with the commitments of R1 to R3, so
a drift of one of these sweeps fails there; a drift of `Fold`, or of the R2 sweep's
projections, meets no check of the prover and is refused by the verifier.
`HonestIsAccepted` says that these are the only two: its hypotheses are about them alone.

### AuditParams, AuditSession and WindowAudit

`AuditParams` holds the arithmetic of the sample.  `AuditSession` is what an audit
promises, read off `prove` and `VerifierSession` of `layergkr/sampled_audit.py`:
window by window the blocks are committed, then a sample is drawn from the window
just committed and from nothing else, a wire keeps the value it was first committed
with, C0 lists the wires in manifest order, and every window is reached.  `WindowAudit`
is the production adapter of that session and walks a tape once
(`Compute`, `Release`: `Tape.run_engine_pass`) and between the two runs the observer
(`Observe`, `Commit`, `Check`; `Finish` for the last, short window).

| state | code |
|---|---|
| `live`, `folds`, `input_data` | the engine's values, folds, and the inputs fetched for the claim at hand |
| `bytes` | what the loader of a lazily committed input returns |
| `window_values`, `window_blocks` | the window's wires and claims |
| `fold_values` | host copies of streams, kept until their last fold was in a window |
| `pending_digests`, `wire_digests`, `wire_order` | digests launched; fixed; their order in C0 |
| `commitments`, `padded`, `rs_row_cursor` | per-claim commitments; rows encoded and with what |
| `used`, `wrong`, `selected`, `failures` | history of the computation; the verdict |

A digest is the value it is of.  A selected claim is checked by recomputation: the
code does that for some claim kinds, and its local proofs stand for the same
relation (what they check of it is the subject of `AuditProofs`).  A wire takes one row; the openings of committed rows succeed; weights
have a constant reference; the hard timeout is not modelled; tensors are not
modified in place.

That an input loaded again in a later window keeps its first digest is a gap the
code declares (`PROTOTYPE_UNCHECKED`); the model contains it and `CheckedIsBound`
excepts exactly it.

### Claims: Field, Packets, ClaimVars, Claims, RoutingClaims

`Field` is arithmetic modulo a prime `P`.  A claim is a record; `ClaimVars` has what
both sides know of it: its variables with their lengths and blocks, its tables and
its challenge vectors.  `Claims` and `RoutingClaims` compile each of them as the
prover does (`*_compile`): linear bands, quadratic families, the number of
constraint ids and the right sides; `RoutingClaims` ends with the dispatch over all
claims and the settlement of tables.  `Packets` is `packets.py` and the kernels that
evaluate a band: what terms slot `f` of a variable has, in the descriptor form and
in the form of its own kernel.  Vectors are functions from 0.

### The verifier's compile: Expanders, ClaimHandlers

Written from `compile.rs` and `handlers.rs` and not from the prover's compile, so
that a difference between the two is one in the code.  An expander emits its terms
one by one (`Emit`) and as homogeneous runs (`ForRuns`), both modelled.  `Accepts`
says whether a handler's assertions hold; `compile_op` is the dispatch.

### LinearFold

From the claims of a tape to the linear test, on both sides.

| state | code |
|---|---|
| `tape`, `row_start`, `groups`, `cut` | the claims with their settlements, `_layout`, `_claim_var_groups`, the chunk sizes |
| `pc`, `ci`, `cur` | the phase, the claim at hand, the next constraint id |
| `bands`, `quadsP`, `rhsP` | `_StreamingPackets` |
| `queue`, `landed`, `fold` | rows still to stream, which variables landed where, q_lin's accumulator |
| `families`, `quadsV`, `rhsV`, `test` | what the verifier compiled and folds the columns through |

`IndexClaim`, `StartSweep`, `Update`, `NextClaim` are the prover;
`CompileClaim`, `Panic`, `StartTest`, `TestFamily`, `EndTest` the verifier.  A fold is
kept as the matrix it multiplies the rows by, so an equal fold is one with equal
coefficients and not one that agrees at a challenge.

The two compiles are parameters of the module (`Compile`, `Handle`, with `Asserts` and
`WithSettlements`): `Claims` and `RoutingClaims` have the prover's, `ClaimHandlers` the
verifier's, and the runs hand these over.  What is proved of the fold holds whatever claims
compile to.

The two walks over the claims are two definitions: `_layout` counts, for each variable,
the rows of those that the walk meets before it in its block and the blocks before
(`Spots`, `Lower`, `RowCount`); `_claim_var_groups` picks the variables each claim is the
first to mention (`News`, `Chosen`), and `Stream` emits a group block by block.  That they
meet is `EachRowOnce`.  Two assumptions on the constants: a variable's name is that of
one variable in one block, and a tape is not empty once it has its settlements
(`TapesAssumption`); a chunk and an inner chunk have a row (`CutsAssumption`).

### Argument: Ligero, Merkle, Argument

`Ligero` has the Goldilocks word arithmetic at a smaller word, the transforms with
their two-pass form, and the encoding.  `Merkle` has the column hash (chunk by
chunk, with BLAKE3's merge stack), the tree and its openings on both sides; the
compression is a free term.  `Argument` extends `LinearFold` with `witness`, `codes`,
`arts` (trees), `proof` and `checks`; `Commit`, `Respond`, `Open` and `Check` are the four
phases, and `Check` runs the six checks of `verify.rs`.  Challenges, pads and blinding
are fixed functions of what they are derived from: whether a coin comes after what
it must bind is a matter of `Transcript`.  A coin opens columns the code has
(`QueriesAssumption`).

### Bridge

| state | code |
|---|---|
| `bjob`, `bpc` | weights read by the auditor, enrolled, and read by the claims; the phase |
| `enr` | the enrollment: levels, root, layout |
| `r2`, `late` | the projections, the late coin and its points |
| `wcfile` | the proof's section, possibly altered on the way |
| `verdicts` | of the Python and the Rust verifier, and the pins handed on |

`Enroll` streams the blocks of a width; `BridgeR2` projects, `BridgeR3` opens the
late points after the drift check, `BridgeVerify` is both verifiers.  It runs beside
the argument in the same run: a behaviour is a tape or a bridge job, and the pins
are free.  The standalone form (`prove_bridge`) and the eager enrollment are left out.

### Witness: Compute, AuxRows, TapeOps, Witness

`TapeOps` is what a call on the tape records, with the tables it shares and the
range claims it adds; `Compute` the function each claim computes; `AuxRows` its
lookups and the rows filled once the coins are known.

| state | code |
|---|---|
| `case`, `input`, `who` | the tape, its inputs, and who fills the rows |
| `pc`, `turn` | the phase, the claim at hand |
| `live`, `mult` | the honest witness, the multiplicities of each table |
| `cellsOf`, `asg` | what the search has still to fill, and has filled |
| `proof`, `accepted` | a selected claim's message and the audit's verdict |

`_process_claim`, `Coins`, `Aux_`, `Settle` are the honest prover.  `Fill` searches, value by
value, through *every* assignment of a claim's own rows that its constraints admit:
with `who = "any"` the compiled constraints, with `who = "audited"` what the one-pass
audit checks.  `_flush_window`, `Answer`, `Deliver` (the network, external) and `_check` are the proof
of a selected claim, by a prover that may hold another wire and by a channel that
may change the message.

`AuditProofs` has the residuals, ranges and lookups of each family of local proof, the
message and its check, `Sumcheck` the sumcheck with its masked form and the product trees.  The labels of the coins and the order of the gammas are
abstracted to one index each.

Known limits of these modules.  The rescaling of an rmsnorm's input splits the
unsigned representative (`compute_fns.py:417-433`); only tests use it, and the run
gives it non-negative inputs, where the two readings agree.  A gate bracket whose
selected scores are all zero divides by zero (`topk_routing.py:347`); the inputs
avoid it.  Top-k, slots, bracket and split claims have no local proof and stop an
audit; the local relation of a causal softmax leaves the masked `z` out, so that one
is not among the audited cases.  The order of the variables of one claim is not
modelled.

## 4. The runs

| run | question | bounds, and why they are enough |
|---|---|---|
| `opening_ledger` | Does any order of loads, saves, publications, kills and power losses lose a released column or overspend the padding? | Two drivers, two roots, four columns, proofs of two, a budget of three: a second proof fits only if it shares a column, so both outcomes of `check_openings` occur with a non-empty ledger. Two roots allow a re-enrollment over a used commitment. |
| `proof_output` | With one commitment between them, do drivers keep their reservations, publish only whole and recorded proofs, once, and come to an end? | Three drivers, so that a third may meddle while two hand over; three proofs, so that one may follow a failed and a published one. |
| `proof_output_ledgers` | The same for drivers of different commitments. | Two drivers, two proofs. **Violated.** |
| `streaming_prover` | Do all sweeps regenerate the same rows, whatever was cached, folded and freed? | Four claims: a mask, a stream and two folds that share it is the smallest tape in which a fold must not absorb on landing. All sets of cached outputs; two proofs with an exception anywhere, so that all leftovers are met. |
| `weight_split` | Exactly which plans are executed, is a split proof the unsplit one, and is the planner's plan the best one? | Three variables of 1, 3 and 2 rows, chunks of two, claims with two, no and one weight variable, so that chunks cross the borders of variables and runs and the last is short; all lists of up to two runs over three devices, in and out of range, and all three-run lists in shape. Questions of one to four devices with every kind of memory, disk and overlap. |
| `transcript` | Do prover and verifier agree on every layout, and is what is accepted trusted? | Every combination of weight, linking and late blocks and of misplaced quads, two models, two seeds, two versions of the witness, every policy. |
| `window_audit` | Is the audit complete, sound on its sample, bounded in memory, and an audit session that ends? | Five claims and windows of one to four, so that a stream is absorbed one, two and three windows after its own and the last window is short; one wrong claim, one change of the input. |
| `linear_fold` | Do both sides compile, encode, hash and test the same constraints, and do the tests and the bridge decide what they are about? | Ten tapes that hold every claim and variant; chunks of (1,1), (3,2) and (8,8) rows cut them everywhere. P = 241 = 2^8 - 2^4 + 1 has the shape of Goldilocks for words of 4 bits; 4 slots, 8 evaluation points, 16 columns. The hash chunk is 2 rows for 128, p_0's chunk 3 for 256, a transform's side 4 for 256, so that each is crossed. Two bridge geometries and 19 alterations. |
| `linear_alias` | `FoldIsExact` for a claim that reads one variable twice. | One addition. **Violated.** |
| `witness` | Are honest rows accepted, and do the constraints (the compiled ones, and those the audit checks) pin the meaning? | P = 769. Fifteen claims searched through all rows, ten through all rows the audit accepts; four short tapes for the honest prover. One input per case is selected for a local proof, three challenges, two cells of each wire altered: a lucky challenge has a chance of about P^-3. |
| `witness_cache` | `Complete` for two softmaxes that differ only in `round_up`. | **Violated.** |
| `local_audit` | `AuditPinned` for a SiLU. | **Violated.** |

What each property says is in the comment on it.  In short:

* ledger: `BookedBeforeReleased`, `LedgerIsFresh`, `ImplementsPadBudget`: leakage is
  booked before it happens and stays in the budget;
* output: `OwnReservation`, `PublishedIsRecorded`, `NeverReplaced`: a proof file is what
  it seems; `ReservationConcludes`: a driver that runs on gives its flock back, and its
  reservation stays on disk for no cause but a kill, a power loss or an error in one of
  four steps;
* sweeps: `NoMissingValue`, `SameWitnessEverySweep`, `ProjectedOncePerProof`,
  `LiveIsNeeded`: the sweeps agree, in bounded memory and time;
* split: `AcceptedTiles`, `RefusedForCause`: validation is exact; `FoldedOnce`,
  `OpenedInPlace`: it is sufficient; `PlannedIsBest`: the planner's answer is the best of
  all divisions;
* transcript: `CoinsBindCommitments`, `HonestIsAccepted`, `AcceptedIsTrusted`: coins come
  after what they test, verdicts mean what they say, and a drift of a committing sweep is
  stopped before there is a file;
* audit: `NeverRaises`, `VerdictIsRight`, `CheckedIsBound`, `C0IsTheWitness`, `RetainedIsNeeded`,
  `PaddedOnce`, `ImplementsSession`;
* constraints: `EachRowOnce`, `FoldIsExact`, `RunsAreTerms`, `SameConstraints`: nothing is
  lost between a claim and the test, on either side; `EncodingsAgree`, `LeavesAreColumns`,
  `TestsDecide`, `BridgeDecides`: the two ways of encoding and of hashing agree, and the
  checks accept exactly the relation;
* witness: `Complete`, `Pinned`, `AuditAccepts`, `AuditPinned`, `ProofsAreBound`.

**The findings.**  Four runs refute a sentence of the repository; `PROJECT.json` quotes
each.

* `proof_output_ledgers`: "a proof already at `path` ... is never silently replaced"
  (`prover/proof_dump.py:194`).  The path is tested first, the `.part` created later, and
  the rename hours later replaces what is there.  Drivers with different commitments
  do not exclude each other, so between the test and the creation another driver can
  publish and free the `.part` name.  With one commitment the flock prevents it, which
  `proof_output` confirms and `ProofsAreNotReplaced` proves.
* `linear_alias`: a claim that reads a variable twice (`tape.add(x, x)`) emits two
  templates with one key of the band index, and one is dropped
  (`prover/core.py:2110`); the honest proof is rejected.
* `witness_cache`: `tape.softmax` names its tables without `round_up`
  (`prover/tape.py:1147`), so the second of two kinds is checked against the first
  one's table; the honest proof is rejected.
* `local_audit`: the local proof of a SiLU leaves out two of the relations its comment
  promises (`prover/sampled_local_proofs.py:1391`).

**Deadlock** is checked in the ledger and output runs.  The systems of the others
end: a process makes a bounded number of proofs, a plan is executed once, a file
verified once, a tape audited, folded or filled once.  That they do not stop early for
want of a value is what `NoMissingValue`, `NeverRaises`, `FoldedOnce`, `ImplementsSession` and
`TestsDecide` state.

**Fairness.**  Two properties need it.  `ReservationConcludes` assumes weak fairness of each driver's
own steps: a driver is a straight-line program, nothing in it waits once the flock is
held, and a kill or a power loss is not assumed.  The liveness half of
`ImplementsSession` (every window is reached) assumes weak fairness of the one loop of
the engine pass with its observer, which never waits.  Nothing is assumed of the
operator, of `Die`, of `PowerLoss` or of the loader.  All other properties are safety.

**Symmetry** is used in `opening_ledger` only, over drivers and columns, which no
definition tells apart.

## 5. The proofs

All theorems hold for every value of the constants that the named assumptions allow.
Every tape, plan, job or policy a run enumerates is a member of a constant here, so a
theorem speaks of all of them, of any length.

`OpeningLedger_proofs`, from `LedgerAssumption` (finitely many columns, natural
numbers, an unreadable file has no root):

* `TypeCorrect`, `BookedFirst`, `FreshLedger`, `Refinement`.
* `BookedBeforeReleased` is not inductive: it speaks of the contents of the path,
  while a release is justified by what the releasing driver saved and may have been
  overtaken.  `IInv` adds that no content of the `.part` forgets a released column
  either; that a root not yet drawn appears nowhere; which steps hold the lock; what
  a prover knows at each step (its handle covers its root; after the save nothing of
  its root on disk lags behind its handle); and that an enroller's root is its own
  until its handle is written.  The lock makes two provers' knowledge compatible,
  fresh roots make enrollers harmless.  `Refinement` follows: at `Dump`,
  `released` is a subset of the handle whose admission `ProverKnows` remembers.

`ProofOutput_proofs`, from `OutputAssumption` and, as a hypothesis of the first three
theorems, `SharedCommitment`: all drivers of the path name one weight commitment.  The
finding shows that the hypothesis is needed.

* `ReservationIsOwn`, `PublishedWholeAndRecorded`, `ProofsAreNotReplaced`.
* None of the three is inductive: that the rename replaces nothing is decided when the
  driver tests the path, hours before.  `IInv` says that one driver at a time is past
  its flock (`OneAtWork`), that from its test to its rename it finds the path empty
  (`PathStaysFree`), that the inode it reserved holds its document and its mask points
  are spent by the time it writes (`DocumentInPart`), and that a power loss leaves what
  the path shows or nothing (`SurvivesIsPath`).  Each step of a driver is a lemma of
  what it does while it works alone; the others are idle.
* `ReservationsLeftForCause`: the safety part of `ReservationConcludes`, for drivers of any
  commitments: a `.part` on disk has its driver at work, or the cause it was left for.
  `LeftForCause` is inductive with the types: only `ExitLeaving` and a power loss take a
  reservation from its driver without taking it from the disk.

`Tape_proofs` holds what both engines over a tape need: that a sum over a finite set
(`SumOf`) takes one element off, splits over disjoint sets and depends on its values
only, and what `IsTape` says of readers and absorbers.  The sums are folds; facts about
them are proved by the least counterexample in the natural numbers (`LeastElement`),
which needs no induction theorem.

`StreamingProver_proofs`, from `TapesAssumption` (tapes are tapes):

* `NothingIsMissing`, `NothingIsHeld`, `ShardsAreWalkedOnce`, `SweepsAgree`.
* `IInv` has five parts.  `HasWhatIsNeeded`: what a later claim, fold or row of the sweep
  reads is live, or in a fold's state, or still to be computed.  `HeldInv`: conversely,
  what is live is needed.  `WalkInv`: a cached projection is one of this proof, and a
  missing one has not been walked for.  `WitnessInv`: every live value is the one the tape
  defines, a fold's state the sum of exactly the streams offered so far, the
  multiplicities the sum of the counts so far, the caches hold outputs of the tape, and
  the rows handed on are those of the claims passed.  It is the part that a freeing rule,
  a stale cache or a doubled count would break; `SweepsAgree` is its value at the end of
  a sweep.  A failure at any point keeps all five, since what it leaves behind (inputs,
  counts, caches) is either right or reset.

`WeightSplit_proofs`, from the assumptions of `WeightSplit` and, for `PlannedSplit`, from
`PlannerAssumption` (what `evaluate` returns is a list of runs; TLC evaluates it for the
questions of the run):

* `OnlyTilingPlansRun` and `NoGoodPlanIsRefused`: validation is exact, for any number
  of variables and any lists of runs.
* `IInv`: the runs scanned so far own each variable below `pos` exactly once and none
  from `pos` on.  A run that does not start at `pos` therefore shows a second owner
  or, since runs come in order, a variable without one.
* `EveryRowFoldedOnce` and `RowsOpenInPlace`: what a validated plan folds and opens is
  the enrolled block, row by row, for variables of any sizes, any claims and any
  chunk size; the two assertions of `ColumnSink` never stop it.
* `PlannedSplitHolds`: the four properties of `PlannedSpec`, the specification the run
  checks.  Nothing more is asked of the planner than a list: the validation stands
  between its answer and the first row (`AtDeskStep`).
* `ExecInv` follows the passes.  `Streamed` are the rows of the variables whose passes
  have started (`Taken`) without those the pass at hand has still to stream
  (`Pending`).  `Where`: there is at most one pass, and it is over consecutive
  variables; this rests on the coordinator having at most one run, so that its part of
  a claim's group is an interval however the cut falls.  `FoldInv`: the sums of the
  coordinator and of the worker at work split `Streamed` between them.  `OpenInv`: the
  sink holds exactly `Streamed`, each row at its place, its count is their number and
  its ranges are disjoint and cover them.  A new pass is disjoint from `Taken` because
  the plan tiles and a variable is one claim's; at the end of a stage `Taken` is
  everything because the plan tiles.  `AllCovered` shows that the sorted walk of
  `finish` then meets no gap.  The lemmas before it say what the layout, a packed pass,
  a chunk and the row runs are (`RowStartIs`, `PackedIs`, `ChunkIs`, `OneRowRun`); the
  two recursive functions among them are unfolded by the least counterexample.

`Transcript_proofs`, from `VersionsAssumption`, `NoneAssumption` (the absent verdict is not
a verdict) and `OldFilesAssumption` (files of the old prover have no statement digest):

* `CoinsAreBound`, `HonestAreAccepted`, `AcceptedAreTrusted`: all
  properties of the run, for every layout of blocks, every model, seed, version of the
  witness and policy.
* `Inductive` says per round which roots and coins the prover holds (`RoundInv`), that
  the roots are those of the rows of some version (`RootsInv`), that each coin is the
  hash of the one before and of every root committed by then (`CoinsInv`), that the tests
  were computed of one version (`TestsInv`), that the bridge's slots are those of the
  enrollment and the late coin (`BridgeInv`), and what a file is (`FileInv`).  There is one
  lemma per round (`AfterR1` ... `AfterOpen`).  `HonestAreAccepted` then unfolds
  `verify_proof` on such a file: the blocks it assembles are the prover's (`Layout`), so
  its coins are (`SameCoins`), so every line of the policy table and every test passes;
  `NoPanic` is the same for a proof of any prover.

`WindowAudit_proofs`, from `AuditAssumption`:

* `SampleCountPromise`: for all parameters and window lengths the sample is at least
  the promised share, is at most the window, and is the least such number.
* `RowsArePaddedOnce`, `ValuesAreThere`, `OnlyNeededIsKept`, `ChecksAreBound`,
  `WitnessIsCommitted`, `VerdictsAreRight`: all invariants of the run.
* `AuditIsSession`: the safety half of the refinement of `AuditSession`, under the
  mapping of `WindowAudit` (the manifest is read off the tape, `committed` counts the
  blocks flushed).  `Commit` is the session's commit, `Check` its sample, all else
  stutters.
* `Inductive` is layered.  `ResidentInv`: where the pass stands, what the window holds,
  and that each value asked for later is with the engine, in the window or among the
  host copies of streams.  `UsedInv`, `LiveInv`, `KeptInv`: each of those is the value the
  claim wrote, whatever was computed wrongly, with the loader's input apart, which `XInv`
  follows through a change of its bytes.  `VerdictInv`: the failures so far are the
  selected claims that err.  `OrderInv`: C0 so far, with the digests still pending, is
  the order of first mention.  For the refinement, that what is committed stays.

`Argument_proofs`, for every tape, code and chunk size, from `ChunkRowsAssumption` (a
BLAKE3 chunk has rows), `TapesAssumption`, `CutsAssumption`, `LigeroConfig` (the code has
columns) and `QueriesAssumption`:

* `PathsOpenOneLeaf`: for any number of leaves a path opens its own leaf, fits no other
  index, and no other leaf opens at its index.  `LeavesAreColumns` checks this of the trees
  of a run.  The widths of `merkle_build_blake3` halve as `merkle_verify` computes them from
  the index alone (`LevelWidths`); two indices with the same sides at every level are the
  same (`OnePlace`); equal parents have equal children, since a digest is a free term (`SameNode`).
* `StreamedDigestIsLeaf`: whatever the pieces a column arrives in, the accumulator's digest
  is `merkle_leaf` of the whole column.  After r rows the accumulator is a function of r
  (`AccAt`): all chunks but the last are with the device, the last one, full or partial,
  waits (`UpdateIs`).  The device's stack after c chunks holds one complete subtree
  per bit of c (`FedStack`, `EagerIs`: as many merges as c has trailing zeros), and
  merging them from the right is the recursion that splits off the largest power of two
  (`LowIs`, `OneLaunch`), with the root flag on the last merge alone.  These are
  inductions over numbers; the recursive functions are unfolded by the least
  counterexample, so no induction theorem of the library is needed.
* `RowsOnce`: `EachRowOnce`, in every state of the linear fold.  The layout makes the
  variables of one claim in one block adjacent (`CellIs`, `CellAdjoins`: a variable starts
  where the one the walk meets before it ends), cells of different claims or blocks
  have no row in common (`CellsApart`), and the pieces of an emission tile its cell
  whatever the chunk sizes (`PhaseTiles`), runs of weights included (`OneRun`).  So the queue
  of a claim brings that claim's rows, each in one piece (`StreamParts`).  The property
  says nothing of the states in the middle of the sweep; `SweepInv` does: what has landed
  is the rows of the claims so far less those still queued, each the layout's own and
  alone (`LandedRight`, `Sweeping`).
* `ColumnsOpen`: `LeavesAreColumns`, in every state of the argument.  The pieces that arrive
  for a block are its rows in ascending order, although they come claim by claim and in
  chunks (`ArrivalsAre`), so by `StreamedDigestIsLeaf` leaf j is the hash of column j as
  `ColumnSink` reads it (`LeafIsColumn`), and by `PathsOpenOneLeaf` its path opens there and
  nowhere else.  `LeavesInv` carries this from the commitment to the verdict: the layout
  stays, the trees are those of the codewords (`Committed`), the proof shows their columns
  and paths (`Shown`).

Only model-checked, and why:

* liveness: `ReservationConcludes` and the second half of `ImplementsSession`;
* `PlannedIsBest`: a minimum over all divisions, built with recursive operators;
* the other properties of the run `linear_fold`: `SameConstraints` compares two compiles of
  every claim, written apart; `EncodingsAgree` and `TestsDecide` rest on transforms and
  polynomials over the field, which are inductions over data; `FoldIsExact`, which is false
  of an aliased claim (section 4), folds matrices by the community modules' folds and sorts
  with `SortSeq`, whose definitions the provers do not expand; `BridgeDecides` likewise;
* the properties of the run `witness`: what a claim computes, looks up and fills in is data.

## 6. Not modelled

* The soundness of random tests: a probability, not a state.  The models have free
  coins and hashes instead, and `Pinned` reads a lookup as the membership it proves.
* The parse of proof files and claim sets (`claim.rs`), and `MaskedCombine`, which has a
  handler and no claim.
* The runtime assertions of the softmax and RMS-norm computes: an input that would leave
  a window raises in the code and is no input of the run.
* CUDA threads, the fused kernels and the residence of values on devices: each kernel is
  one function of its input.
* The sampled audit's hard timeout and the messages of its session; the wires a claim
  modifies in place.
* Loader and quantized weights: arithmetic and input without state.
* Admission: a sequence of comparisons; what it binds appears in `Transcript`.
* LayerGKR beyond the sumcheck, the profiler beyond the weight splitter, token binding,
  the other drivers: beside the production path.

## 7. Running

`tlc -workers 2 -config <cfg> <module>.tla` per run (`PROJECT.json` lists them; each takes
between seconds and about two minutes), `tlapm <X>_proofs.tla` per proof module (up
to about four minutes from nothing, `Argument_proofs` eight).
