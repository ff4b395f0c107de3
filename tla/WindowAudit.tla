------------------------------ MODULE WindowAudit ------------------------------
(***************************************************************************)
(* The sampled audit of a running tape (ClaimWindowAudit of                *)
(* prover/sampled_claim_runtime.py), as observer of the one engine pass    *)
(* Tape.run_engine_pass makes with free_intermediates.                     *)
(*                                                                         *)
(* After each claim, while its values are still in memory, the observer    *)
(* fixes a digest of every wire it sees for the first time and keeps the   *)
(* values of the wires of the current window.  When a window is full it    *)
(* commits the window, draws a sample of its claims, checks those on the   *)
(* values kept, and lets the window go.  The engine meanwhile frees what   *)
(* no claim reads any more, and a fold swallows its streams as they land,  *)
(* often many windows before the fold itself can be sampled.               *)
(*                                                                         *)
(* Two things may go wrong outside: a claim is computed wrongly, and the   *)
(* loader of the tape's input returns other bytes than before.             *)
(***************************************************************************)
EXTENDS Tape, SequencesExt, AuditParams

CONSTANTS
  Tapes,      (* the tapes to audit; see IsTape                            *)
  Params,     (* the audit parameters: AuditParams, and whether to bind    *)
              (* windows by Reed-Solomon rows (enable_rs_binding)          *)
  MaxWrong    (* bound on the claims the engine computes wrongly           *)

ASSUME AuditAssumption ==
  /\ \A t \in Tapes : IsTape(t) /\ t # << >>
  /\ \A p \in Params : IsParams(p) /\ p.rs \in BOOLEAN
  /\ MaxWrong \in Nat

VARIABLES
  tape,           (* tape._deferred                                        *)
  params,         (* self.params and enable_rs_binding                     *)
  at,             (* the claim the pass is at; beyond the last in finish   *)
  step,           (* where in the pass or the flush                        *)
  live,           (* the engine's values; X is a loader, called on demand  *)
  folds,          (* FoldRunner.states: the values a fold has absorbed     *)
  bytes,          (* what the loader of X returns when called              *)
  input_data,     (* what the claim at hand was computed from, if fetched  *)
  used,           (* history: what each claim read and what it wrote       *)
  wrong,          (* history: the claims computed wrongly                  *)
  window_values, window_blocks, fold_values,
  pending_digests, wire_digests, wire_order,
  commitments,    (* block_commitments, by claim                           *)
  padded,         (* RS rows so far, with what was encoded in each         *)
  rs_row_cursor,
  selected, failures

engine == <<live, folds, input_data, used, wrong>>
window == <<window_values, window_blocks, fold_values>>
digests == <<pending_digests, wire_digests, wire_order>>
bound == <<commitments, padded, rs_row_cursor>>
verdict == <<selected, failures>>
vars == <<tape, params, at, step, engine, bytes, window, digests, bound, verdict>>

n == Len(tape)
Steps == {"compute", "observe", "commit", "check", "release", "finish", "done"}
FirstBytes == 1
OtherBytes == 50
Slip == 1000
--------------------------------------------------------------------------------
(***************************************************************************)
(* The engine pass                                                         *)
(***************************************************************************)
Init ==
  /\ tape \in Tapes
  /\ params \in Params
  /\ at = 1
  /\ step = "compute"
  /\ live = [v \in {X} |-> 0]
  /\ folds = << >>
  /\ bytes = FirstBytes
  /\ input_data = << >>
  /\ used = << >>
  /\ wrong = {}
  /\ window_values = << >> /\ window_blocks = << >> /\ fold_values = << >>
  /\ pending_digests = << >> /\ wire_digests = << >> /\ wire_order = << >>
  /\ commitments = << >> /\ padded = << >> /\ rs_row_cursor = 0
  /\ selected = {} /\ failures = {}

\* fetch: a lazily committed input is loaded anew whenever it is read
Load(v) == IF v = X THEN bytes ELSE live[v]
Loaded(S) == [v \in S |-> Load(v)]

\* The fold claim's state: its mask, then what it has absorbed
FoldState(f) == IF f \in DOMAIN folds THEN folds[f] ELSE Loaded({tape[f].mask})

\* What the compute function of the claim at hand reads from `live`
Reads ==
  IF tape[at].kind = "fold" /\ at \in DOMAIN folds
    THEN tape[at].ivars \ DOMAIN folds[at] ELSE tape[at].ivars

Correct(i, ins) == Weights(i) + SumOf(ins, tape[i].ivars)

\* COMPUTE_FNS or FoldRunner.finalize, which may err.  Only a claim that does
\* not stream its inputs has them fetched into input_data.
Compute ==
  /\ step = "compute"
  /\ Reads \subseteq DOMAIN live
  /\ \E errs \in BOOLEAN :
       LET ins == IF tape[at].kind = "fold" THEN Over(FoldState(at), Loaded(Reads \ DOMAIN FoldState(at)))
                  ELSE Loaded(tape[at].ivars)
           out == Correct(at, ins) + IF errs THEN Slip ELSE 0
       IN /\ errs => Cardinality(wrong) < MaxWrong
          /\ wrong' = IF errs THEN wrong \cup {at} ELSE wrong
          /\ used' = Over([i \in {at} |-> [ins |-> ins, out |-> out]], used)
          /\ live' = Over([v \in {Y(at)} |-> out], live)
          /\ folds' = IF tape[at].kind = "fold" THEN Over([i \in {at} |-> ins], folds) ELSE folds
          /\ input_data' = IF tape[at].kind = "plain" THEN ins ELSE << >>
  /\ step' = "observe"
  /\ UNCHANGED <<tape, params, at, bytes, window, digests, bound, verdict>>

\* The pass keeps the last claim's output for its caller.
LastUse(v) == Max({0} \cup Consumers(tape, v))
Dead == {v \in tape[at].ivars : LastUse(v) = at}
        \cup IF at # n /\ Consumers(tape, Y(at)) = {} THEN {Y(at)} ELSE {}

\* Once the observer is done: the new output is offered to the one fold that
\* absorbs it, if there is exactly one, and what nothing reads later is freed.
Release ==
  /\ step = "release"
  /\ LET offered == {f \in Absorbers(tape, Y(at)) : Cardinality(Absorbers(tape, Y(at))) = 1}
         freed == {Y(at) : f \in {f \in offered : OnlyConsumer(tape, Y(at), f)}}
     IN /\ \A f \in offered : f \notin DOMAIN folds => tape[f].mask \in DOMAIN live
        /\ folds' = Over([f \in offered |-> Over(FoldState(f), Loaded({Y(at)}))], folds)
        /\ live' = Restrict(live, DOMAIN live \ (freed \cup Dead))
  /\ input_data' = << >>
  /\ at' = at + 1
  /\ step' = IF at < n THEN "compute" ELSE "finish"
  /\ UNCHANGED <<tape, params, bytes, used, wrong, window, digests, bound, verdict>>

\* The file behind the loader changes.
Drift ==
  /\ step # "done"
  /\ bytes = FirstBytes
  /\ bytes' = OtherBytes
  /\ UNCHANGED <<tape, params, at, step, engine, window, digests, bound, verdict>>
--------------------------------------------------------------------------------
(***************************************************************************)
(* The observer                                                            *)
(***************************************************************************)
\* _claim_vars in phase 1, without the persistent weights, whose reference is
\* the model's root
Wires(i) == tape[i].ivars \cup {Y(i)}
\* The wires of a set in the order of the tape
Nth(S, k) == CHOOSE v \in S : Cardinality({u \in S : u[2] <= v[2]}) = k

Pending == {pending_digests[k][1] : k \in DOMAIN pending_digests}

\* Faulty variant of Digested: a wire of an earlier window is digested again.
DigestedHere == Pending

Digested == DOMAIN wire_digests \cup Pending

\* fold_last_use: the last fold claim that absorbs v
FoldWires == UNION {Foldable(tape, f) : f \in 1..n}
fold_last_use(v) == Max(Absorbers(tape, v))

\* _wire_ref asks the engine for a wire it has not seen, and for one it has seen
\* but keeps neither for this window nor for a fold.
Asked == {v \in Wires(at) \ DOMAIN window_values : v \notin Digested \/ v \notin DOMAIN fold_values}
Resident(v) == v \in DOMAIN input_data \cup DOMAIN live

\* Faulty variant of ValueOf: the loader is asked before what the claim fetched.
ValueLive(v) == IF v \in DOMAIN live THEN Load(v) ELSE input_data[v]

ValueOf(v) == IF v \in DOMAIN input_data THEN input_data[v] ELSE Load(v)

\* Faulty variant of Kept: a wire seen again replaces what the window holds.
KeptLatest ==
  [v \in Wires(at) |-> IF v \in Asked \/ Resident(v) THEN ValueOf(v) ELSE fold_values[v]]

\* What the window holds of the claim's wires that it did not hold before
Kept ==
  [v \in Wires(at) \ DOMAIN window_values |->
     IF v \in Asked THEN ValueOf(v) ELSE fold_values[v]]

\* Streams of a fold are copied when first seen.
Retained(values) ==
  Over([v \in (Wires(at) \cap FoldWires) \ DOMAIN fold_values |-> values[v]], fold_values)

\* __call__, up to the flush
Observe ==
  /\ step = "observe"
  /\ \A v \in Asked : Resident(v)
  /\ window_values' = Over(Kept, window_values)
  /\ pending_digests' = pending_digests
       \o [k \in 1..Cardinality(Wires(at) \ Digested) |->
             LET v == Nth(Wires(at) \ Digested, k) IN <<v, ValueOf(v)>>]
  /\ fold_values' = Retained(window_values')
  /\ window_blocks' = Append(window_blocks, at)
  /\ step' = IF Len(window_blocks') = params.window_size THEN "commit" ELSE "release"
  /\ UNCHANGED <<tape, params, at, engine, bytes, wire_digests, wire_order, bound, verdict>>

\* Faulty variant of NextRow: the last row of a window is the first of the next.
NextRowShort(rows) == rs_row_cursor + rows - 1

NextRow(rows) == rs_row_cursor + rows

\* _rs_window_commit: every value the window holds, in rows of their own
RsCommit ==
  IF params.rs
    THEN LET rows == Cardinality(DOMAIN window_values)
             message(k) == LET v == Nth(DOMAIN window_values, k)
                           IN <<Head(window_blocks), v, window_values[v]>>
             here == (rs_row_cursor + 1)..(rs_row_cursor + rows)
             new == [r \in here |->
               {message(r - rs_row_cursor)} \cup IF r \in DOMAIN padded THEN padded[r] ELSE {}]
         IN /\ padded' = Over(new, padded)
            /\ rs_row_cursor' = NextRow(rows)
    ELSE UNCHANGED <<padded, rs_row_cursor>>

\* _finalize_pending_digests: in the order of the first sight
FinalOrder == wire_order \o [k \in DOMAIN pending_digests |-> pending_digests[k][1]]

\* _flush_window, up to the sample: the digests of the window's new wires, its
\* rows, and a commitment per block to the digests of its wires.
Commit ==
  /\ step = "commit"
  /\ wire_digests' =
       Over([v \in Pending |-> (CHOOSE p \in Range(pending_digests) : p[1] = v)[2]],
            wire_digests)
  /\ wire_order' = FinalOrder
  /\ pending_digests' = << >>
  /\ RsCommit
  /\ commitments' = Over([b \in Range(window_blocks) |-> Restrict(wire_digests', Wires(b))], commitments)
  /\ step' = "check"
  /\ UNCHANGED <<tape, params, at, engine, bytes, window, verdict>>

\* Faulty variant of Holds: a fold takes the way of the claims without outputs.
HoldsOrFold(b) == tape[b].kind = "fold" \/ window_values[Y(b)] = Correct(b, window_values)

\* _check: the claim's relation between the values the window holds
Holds(b) == window_values[Y(b)] = Correct(b, window_values)

\* Faulty variant of StillFolded: a stream is released with its own window.
StillFoldedHere == {}

\* Faulty variant of StillFolded: no stream is released.
StillFoldedAll == DOMAIN fold_values

\* A stream is kept until the last fold that absorbs it has been in a window.
StillFolded == {v \in DOMAIN fold_values : fold_last_use(v) > Last(window_blocks)}

\* The rest of _flush_window: the verifier's secret sample of the committed
\* window, the checks, the openings, and the release of the window.
Check ==
  /\ step = "check"
  /\ \E S \in kSubset(sample_count(params, Len(window_blocks)), Range(window_blocks)) :
       /\ selected' = selected \cup S
       /\ failures' = failures \cup {b \in S : ~Holds(b)}
  /\ fold_values' = Restrict(fold_values, StillFolded)
  /\ window_values' = << >>
  /\ window_blocks' = << >>
  /\ step' = IF at <= n THEN "release" ELSE "done"
  /\ UNCHANGED <<tape, params, at, engine, bytes, digests, bound>>

\* finish: the last window may be short
Finish ==
  /\ step = "finish"
  /\ step' = IF window_blocks = << >> THEN "done" ELSE "commit"
  /\ UNCHANGED <<tape, params, at, engine, bytes, window, digests, bound, verdict>>

Next ==
  \/ Compute \/ Observe \/ Commit \/ Check \/ Release \/ Finish
  \/ Drift

Spec == Init /\ [][Next]_vars

\* The pass and its observer are one loop, which never waits; the file may or may
\* not change.
FairSpec == Spec /\ WF_vars(Compute \/ Observe \/ Commit \/ Check \/ Release \/ Finish)
--------------------------------------------------------------------------------
(***************************************************************************)
(* Properties                                                              *)
(***************************************************************************)
WindowOf(b) == (b - 1) \div params.window_size
Blocks(w) == {b \in 1..n : WindowOf(b) = w}
Flushed == DOMAIN commitments \ Range(window_blocks)

\* Over no tape does the audit or the engine under it ask for a value that has
\* been freed or swallowed by a fold ("phase-1 value is not resident", KeyError):
\* hours of forward pass would be lost.
NeverRaises ==
  /\ step = "compute" => Reads \subseteq DOMAIN live
  /\ step = "observe" => \A v \in Asked : Resident(v)
  /\ step = "check" => \A b \in Range(window_blocks) : Wires(b) \subseteq DOMAIN window_values
  /\ step = "release" =>
       \A f \in Absorbers(tape, Y(at)) \ DOMAIN folds :
         Absorbers(tape, Y(at)) = {f} => tape[f].mask \in DOMAIN live

\* While its loader keeps returning the same bytes the audit blames exactly the
\* sampled claims that were computed wrongly, folds with streams of long ago
\* included; and it never accepts a sampled claim that is wrong, or that was
\* computed from another version of the input than the rest of its window saw.
Fetched(b) == tape[b].kind = "plain" /\ X \in tape[b].ivars
VerdictIsRight ==
  step = "done" =>
    /\ bytes = FirstBytes => failures = selected \cap wrong
    /\ failures = {} =>
         /\ selected \cap wrong = {}
         /\ \A b \in selected, c \in 1..n :
              /\ WindowOf(b) = WindowOf(c) /\ Fetched(b)
              /\ c = Min({d \in Blocks(WindowOf(b)) : X \in tape[d].ivars}) /\ Fetched(c)
              => used[b].ins[X] = used[c].ins[X]

\* When a window is checked, the values it is checked on are those its blocks'
\* commitments bind, of streams and of values of earlier windows too.  The
\* exception the code declares (PROTOTYPE_UNCHECKED): an input that is loaded
\* again in a later window keeps its first digest.
CheckedIsBound ==
  step = "check" =>
    \A b \in Range(window_blocks) : \A v \in Wires(b) :
      \/ window_values[v] = commitments[b][v]
      \/ /\ v = X /\ bytes = OtherBytes
         /\ Min(Consumers(tape, X)) < Head(window_blocks)

\* C0 is a function of the tape alone (test_c0_is_independent_of_window_batching):
\* every wire once, in the order the claims mention it, with the value it had then.
Mentioned(i) ==
  (IF X \in tape[i].ivars /\ \A j \in 1..(i-1) : X \notin tape[j].ivars THEN <<X>> ELSE << >>)
    \o <<Y(i)>>
ExpectedOrder == Joined([i \in 1..n |-> Mentioned(i)], n)[n]
C0IsTheWitness ==
  /\ step = "done" => wire_order = ExpectedOrder
  /\ \A i \in 1..n : Y(i) \in DOMAIN wire_digests => wire_digests[Y(i)] = used[i].out
  /\ X \in DOMAIN wire_digests =>
       LET c == Min(Consumers(tape, X)) IN Fetched(c) => wire_digests[X] = used[c].ins[X]

\* Host memory: between claims the audit keeps the wires of the window, and of
\* earlier windows only the streams a fold is still to absorb; nothing at the end.
RetainedIsNeeded ==
  /\ step = "compute" =>
       LET here == UNION {Wires(b) : b \in Range(window_blocks)}
       IN /\ DOMAIN window_values = here
          /\ \A v \in DOMAIN fold_values \ here : fold_last_use(v) >= at - Len(window_blocks)
  /\ step = "done" => window_values = << >> /\ fold_values = << >>

\* Zero knowledge of the openings: no row of the audit's encoding, and so no
\* padding, is used for two messages, in whichever windows a wire comes up.
PaddedOnce == \A r \in DOMAIN padded : Cardinality(padded[r]) = 1

\* Between the windows' commitments and their samples the audit is the session
\* layergkr/sampled_audit.py defines: a window's wires are bound before its sample
\* is drawn and never again, C0 keeps the manifest's order, exactly the promised
\* share of every window, a short last one included, is checked, and every window
\* is reached.
Manifest == [b \in 1..n |-> [k \in 1..Cardinality(Wires(b)) |-> Nth(Wires(b), k)]]
Phase ==
  IF step = "check" THEN "sample" ELSE IF DOMAIN commitments = 1..n THEN "done" ELSE "commit"
Session == INSTANCE AuditSession WITH
  statement <- [params |-> params, wires |-> Manifest],
  committed <- Cardinality(DOMAIN commitments),
  c0 <- wire_digests,
  phase <- Phase
ImplementsSession == Session!Spec
================================================================================
