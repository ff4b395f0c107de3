----------------------------- MODULE WeightSplit -----------------------------
(***************************************************************************)
(* The weight split: a shard plan cuts the W block of enrolled weights     *)
(* into runs of whole variables, one run per device and stage.  The plan   *)
(* is validated before any row is touched; then, in the fold stage and     *)
(* again in the open stage, the coordinator (device 0) streams its own     *)
(* variables claim by claim inside its sweep, and the workers stream their *)
(* runs after it.  Folds are summed, opened rows land in one ColumnSink.   *)
(*                                                                         *)
(* Weight variables are numbered 0..N-1 in layout order.  A row of a       *)
(* variable v is <<v, k>>; a pad is <<seed, index>>.  A field sum is the   *)
(* bag of its terms, because the sums are exact and commute.               *)
(***************************************************************************)
EXTENDS Integers, Sequences, FiniteSets, Bags, SequencesExt, FiniteSetsExt

CONSTANTS
    RowsOf,          \* RowsOf[v]: rows of weight variable v, v \in 0..N-1
    N,               \* number of weight variables of the layout
    Base,            \* NUM_BLINDING_ROWS: absolute row of the W block
    Claims,          \* per claim of the tape, in order, its own weight
                     \* variables as <<first, last + 1>>
    ChunkRows,       \* rows encoded at a time
    Plans,           \* the shard plans handed to the prover
    Away             \* device specifications that are not the coordinator's

ASSUME NAssumption == N \in Nat
ASSUME RowsAssumption == RowsOf \in [0..(N - 1) -> Nat \ {0}]
ASSUME ChunkAssumption == Base \in Nat /\ ChunkRows \in Nat \ {0}

\* The plan's lists name a device, the first variable and one past the last.
Runs == Int \X Int \X Int
ASSUME PlansAssumption ==
    \A p \in Plans :
        /\ p = [fold |-> p.fold, open |-> p.open, devices |-> p.devices]
        /\ p.fold \in Seq(Runs) /\ p.open \in Seq(Runs)

\* Each claim's own weight variables are consecutive in layout order: the
\* layout numbers them in the order in which the claims mention them first.
ASSUME ClaimsAssumption ==
    /\ Claims \in Seq(Nat \X Nat)
    /\ \A v \in 0..(N - 1) :
           Cardinality({c \in DOMAIN Claims :
                           Claims[c][1] <= v /\ v < Claims[c][2]}) = 1

VARIABLES
    plan,     \* the shard plan: runs per stage and a map of devices
    pc,       \* where _prove_streaming_body is
    stage,    \* the stage being validated or executed
    left,     \* the stage's runs not yet scanned, or not yet worked off
    pos,      \* validate_runs' pos: the first variable not yet owned
    claim,    \* claims the coordinator's sweep has passed
    queue,    \* lists of variables still to be streamed, one pass each
    row,      \* rows of the first of them already streamed
    sum,      \* the coordinator's test accumulators
    part,     \* the accumulators of the worker that is running
    sink      \* the W block's ColumnSink

vars == <<plan, pc, stage, left, pos, claim, queue, row, sum, part, sink>>
work == <<claim, queue, row, sum, part, sink>>

Stages == {"fold", "open"}
Dev(r) == r[1]
Lo(r) == r[2]
Hi(r) == r[3]
Run(i) == plan[stage][i]

-----------------------------------------------------------------------------
(* The layout of the W block and the pass over a list of its variables. *)

\* The members of a finite set of numbers, the least first.
Ascending(S) ==
    [k \in 1..Cardinality(S) |->
        CHOOSE v \in S : Cardinality({u \in S : u < v}) = k - 1]

RowStart[v \in 0..N] ==
    IF v = 0 THEN Base ELSE RowStart[v - 1] + RowsOf[v - 1]
NRows == RowStart[N] - Base

\* _iter_message_chunks: the rows of the list as one contiguous sequence.
Packed(vs) ==
    FlattenSeq([i \in 1..Len(vs) |-> [k \in 1..RowsOf[vs[i]] |-> <<vs[i], k>>]])

\* w_pad and _pad_for: the commitment's seed at the block's logical offset.
Pad(first) == <<"commitment", Base + (first - Base)>>

StartOfClaim(vs) ==          \* faulty variant: the row of the claim's group
    IF pc = "sweep" THEN RowStart[Claims[claim][1]] ELSE RowStart[vs[1]]
\* The pass starts at the true row of its first variable.
Start(vs) == RowStart[vs[1]]

\* The rows of the next chunk, each with its absolute row and its pad.
NextChunk ==
    LET vs == Head(queue)
        rows == Packed(vs)
        n == Min({ChunkRows, Len(rows) - row})
    IN [k \in 1..n |->
          [at |-> Start(vs) + row + k - 1,
           data |-> rows[row + k],
           pad |-> [Pad(Start(vs)) EXCEPT ![2] = @ + row + k - 1]]]

\* _row_contiguous_runs
RowRuns(vs) ==
    LET Follows(i) == RowStart[vs[i]] = RowStart[vs[i - 1]] + RowsOf[vs[i - 1]]
        heads == {i \in 1..Len(vs) : i = 1 \/ ~Follows(i)}
        order == Ascending(heads)
        End(h) == IF h = Len(order) THEN Len(vs) ELSE order[h + 1] - 1
    IN [h \in 1..Len(order) |-> SubSeq(vs, order[h], End(h))]

\* The variables of the interval [lo, hi) in layout order.
Interval(lo, hi) == [i \in 1..(hi - lo) |-> lo + i - 1]

-----------------------------------------------------------------------------
(* The plan. *)

\* validated: -1 stands for the number of variables.
Filled(rs) == [i \in DOMAIN rs |->
                  IF Hi(rs[i]) = -1 THEN <<Dev(rs[i]), Lo(rs[i]), N>> ELSE rs[i]]

WellShaped(rs) ==
    /\ \A i \in DOMAIN rs : /\ Dev(rs[i]) >= 0
                            /\ 0 <= Lo(rs[i])
                            /\ Lo(rs[i]) <= Hi(rs[i])
                            /\ Hi(rs[i]) <= N
    /\ \A i, j \in DOMAIN rs : Dev(rs[i]) = Dev(rs[j]) => i = j

IsNextListed(i) == \A j \in left : i <= j   \* faulty variant: unsorted
\* The runs are scanned in the order of their bounds.
IsNext(i) ==
    \A j \in left : \/ Lo(Run(i)) < Lo(Run(j))
                    \/ /\ Lo(Run(i)) = Lo(Run(j))
                       /\ Hi(Run(i)) <= Hi(Run(j))

CutGapOnly(r) == Lo(r) > pos      \* faulty variant: overlaps go through
Cut(r) == Lo(r) # pos

\* A device map may not name a device that has no run, not even an empty one.
Used == UNION {{Dev(plan[s][i]) : i \in DOMAIN plan[s]} : s \in Stages}
Stray == DOMAIN plan.devices \ Used

\* worker_runs: the non-empty runs of every device but the coordinator.
Workers(s) == {i \in DOMAIN plan[s] : /\ Dev(plan[s][i]) # 0
                                      /\ Hi(plan[s][i]) > Lo(plan[s][i])}

\* validate_device: a worker runs where the coordinator runs.
Elsewhere ==
    \E s \in Stages : \E i \in Workers(s) :
        LET d == Dev(plan[s][i])
        IN d \in DOMAIN plan.devices /\ plan.devices[d] \in Away

OwnedByAll(s) == 0..(N - 1)      \* faulty variant: no filter
\* owned_ids(0, stage): what the coordinator's sweep keeps of a weight group.
Owned(s) == {v \in 0..(N - 1) : \E i \in DOMAIN plan[s] :
                /\ Dev(plan[s][i]) = 0
                /\ Lo(plan[s][i]) <= v
                /\ v < Hi(plan[s][i])}

-----------------------------------------------------------------------------
(* Validation, before any row is touched. *)

Unwritten == [at |-> -1, data |-> <<0, 0>>, pad |-> <<"uninitialised", 0>>]
EmptySink == [rows |-> [k \in 0..(NRows - 1) |-> Unwritten],
              filled |-> 0, ranges |-> <<>>]

Init ==
    /\ plan \in Plans
    /\ pc = "shape" /\ stage = "fold"
    /\ left = {} /\ pos = 0
    /\ claim = 0 /\ queue = <<>> /\ row = 0
    /\ sum = EmptyBag /\ part = EmptyBag
    /\ sink = EmptySink

Refuse == pc' = "refused" /\ UNCHANGED <<plan, stage, left, pos, work>>

\* validated's fill and the first loop of validate_runs.
CheckShape ==
    /\ pc = "shape"
    /\ LET rs == Filled(plan[stage])
       IN \/ ~WellShaped(rs) /\ Refuse
          \/ /\ WellShaped(rs)
             /\ plan' = [plan EXCEPT ![stage] = rs]
             /\ pc' = "scan"
             /\ left' = DOMAIN rs
             /\ pos' = 0
             /\ UNCHANGED <<stage, work>>

\* One round of the second loop of validate_runs.
Scan(i) ==
    /\ pc = "scan" /\ i \in left /\ IsNext(i)
    /\ LET r == Run(i)
       IN \/ Hi(r) # Lo(r) /\ Cut(r) /\ Refuse
          \/ /\ Hi(r) = Lo(r) \/ ~Cut(r)
             /\ left' = left \ {i}
             /\ pos' = IF Hi(r) = Lo(r) THEN pos ELSE Hi(r)
             /\ UNCHANGED <<plan, pc, stage, work>>

EndScan ==
    /\ pc = "scan" /\ left = {}
    /\ \/ pos # N /\ Refuse
       \/ /\ pos = N
          /\ IF stage = "fold"
             THEN stage' = "open" /\ pc' = "shape"
             ELSE stage' = "fold" /\ pc' = "devices"
          /\ UNCHANGED <<plan, left, pos, work>>

CheckDevices ==
    /\ pc = "devices"
    /\ \/ (Stray # {} \/ Elsewhere) /\ Refuse
       \/ /\ Stray = {} /\ ~Elsewhere
          /\ pc' = "sweep"
          /\ UNCHANGED <<plan, stage, left, pos, work>>

-----------------------------------------------------------------------------
(* Execution: the sweep of the coordinator, then the workers, per stage. *)

Idle == queue = <<>>

\* The sweep comes to the next claim and emits what it owns of its weights.
SweepClaim ==
    /\ pc = "sweep" /\ Idle /\ claim < Len(Claims)
    /\ LET group == Claims[claim + 1][1]..(Claims[claim + 1][2] - 1)
       IN queue' = RowRuns(Ascending(group \cap Owned(stage)))
    /\ claim' = claim + 1
    /\ UNCHANGED <<plan, pc, stage, left, pos, row, sum, part, sink>>

EndSweep ==
    /\ pc = "sweep" /\ Idle /\ claim = Len(Claims)
    /\ pc' = "workers"
    /\ left' = Workers(stage)
    /\ UNCHANGED <<plan, stage, pos, work>>

\* fold_run and open_run stream the whole run as one pass.
StartWorker(i) ==
    /\ pc = "workers" /\ i \in left /\ IsNext(i)
    /\ pc' = "worker"
    /\ left' = left \ {i}
    /\ queue' = <<Interval(Lo(Run(i)), Hi(Run(i)))>>
    /\ part' = EmptyBag
    /\ UNCHANGED <<plan, stage, pos, claim, row, sum, sink>>

\* Past the chunk: the pass goes on or the next one starts.
Advance(n) ==
    IF row + n < Len(Packed(Head(queue)))
    THEN row' = row + n /\ queue' = queue
    ELSE row' = 0 /\ queue' = Tail(queue)

Terms(chunk) == SetToBag({chunk[k] : k \in DOMAIN chunk})

FoldChunk ==
    /\ pc \in {"sweep", "worker"} /\ ~Idle /\ stage = "fold"
    /\ IF pc = "sweep"
       THEN sum' = sum (+) Terms(NextChunk) /\ part' = part
       ELSE part' = part (+) Terms(NextChunk) /\ sum' = sum
    /\ Advance(Len(NextChunk))
    /\ UNCHANGED <<plan, pc, stage, left, pos, claim, sink>>

\* ColumnSink.write
OpenChunk ==
    /\ pc \in {"sweep", "worker"} /\ ~Idle /\ stage = "open"
    /\ LET lo == NextChunk[1].at - Base
           hi == lo + Len(NextChunk)
       IN IF 0 <= lo /\ hi <= NRows
          THEN /\ sink' = [rows |-> [k \in DOMAIN sink.rows |->
                                        IF lo <= k /\ k < hi
                                        THEN NextChunk[k - lo + 1]
                                        ELSE sink.rows[k]],
                           filled |-> sink.filled + (hi - lo),
                           ranges |-> Append(sink.ranges, <<lo, hi>>)]
               /\ pc' = pc
               /\ Advance(hi - lo)
          ELSE pc' = "failed" /\ UNCHANGED <<sink, row, queue>>
    /\ UNCHANGED <<plan, stage, left, pos, claim, sum, part>>

\* The coordinator merges a worker's partial sums; an open worker has none.
EndWorker ==
    /\ pc = "worker" /\ Idle
    /\ pc' = "workers"
    /\ sum' = IF stage = "fold" THEN sum (+) part ELSE sum
    /\ UNCHANGED <<plan, stage, left, pos, claim, queue, row, part, sink>>

\* After the last fold worker: challenged columns and the opening sweep.
EndFold ==
    /\ pc = "workers" /\ left = {} /\ stage = "fold"
    /\ stage' = "open" /\ pc' = "sweep" /\ claim' = 0
    /\ UNCHANGED <<plan, left, pos, queue, row, sum, part, sink>>

\* ColumnSink.finish: walking the written ranges in order, each starts where
\* the one before ended, the first at 0 and the last one ending at NRows.
Precedes(i, j) ==
    LET a == sink.ranges[i]
        b == sink.ranges[j]
    IN \/ a[1] < b[1]
       \/ a[1] = b[1] /\ a[2] < b[2]
       \/ a = b /\ i < j
PosAfter(walked) ==
    IF walked = {} THEN 0
    ELSE LET last == CHOOSE i \in walked : \A k \in walked : k = i \/ Precedes(k, i)
         IN sink.ranges[last][2]
Covered ==
    LET all == DOMAIN sink.ranges
    IN /\ sink.filled = NRows
       /\ \A j \in all : sink.ranges[j][1] = PosAfter({i \in all : Precedes(i, j)})
       /\ PosAfter(all) = NRows

Finish ==
    /\ pc = "workers" /\ left = {} /\ stage = "open"
    /\ pc' = IF Covered THEN "done" ELSE "failed"
    /\ UNCHANGED <<plan, stage, left, pos, work>>

Next ==
    \/ CheckShape
    \/ \E i \in left : Scan(i)
    \/ EndScan
    \/ CheckDevices
    \/ SweepClaim \/ EndSweep
    \/ \E i \in left : StartWorker(i)
    \/ FoldChunk \/ OpenChunk
    \/ EndWorker
    \/ EndFold
    \/ Finish

Spec == Init /\ [][Next]_vars
-----------------------------------------------------------------------------
(* Properties. *)

Terminal == {"done", "refused", "failed"}
Accepted == pc \in {"sweep", "workers", "worker", "done", "failed"}

\* The row the enrollment hashed at absolute row r: commit_weights streams all
\* weight variables as one pass from Base, padded by absolute row.
EnrolledRow(r) == [at |-> r,
                   data |-> Packed(Interval(0, N))[r - Base + 1],
                   pad |-> <<"commitment", r>>]

\* Exactly one run of the stage owns each weight variable.
Owners(rs, v) == {i \in DOMAIN rs : Lo(rs[i]) <= v /\ v < Hi(rs[i])}
Tiles(rs) == \A v \in 0..(N - 1) : \E i \in DOMAIN rs : Owners(rs, v) = {i}

\* A plan that is executed gives every weight variable to exactly one run in
\* each stage, whatever the order of the runs, empty runs and the -1 sentinel:
\* "Validation rejects gaps, overlaps, out-of-range or non-monotone runs".
AcceptedTiles ==
    Accepted => \A s \in Stages : WellShaped(plan[s]) /\ Tiles(plan[s])

\* Validation is no stricter than that: a refused plan has a run out of shape,
\* a variable without exactly one owner, or a device map that is wrong.
RefusedForCause ==
    pc = "refused" =>
        \/ ~WellShaped(Filled(plan[stage]))
        \/ ~Tiles(Filled(plan[stage]))
        \/ Stray # {}
        \/ Elsewhere

\* The test polynomials of a split proof are those of an unsplit one: after
\* the fold stage each enrolled row has been folded exactly once, under the
\* coin of its own row, with the data and the pad the enrollment committed.
FoldedOnce ==
    (pc = "done" \/ (Accepted /\ stage = "open")) =>
        sum = SetToBag({EnrolledRow(r) : r \in Base..(Base + NRows - 1)})

\* What the sink holds at a row is the enrolled row at any time, whichever
\* device wrote it and however the cut fell, and in the end it holds them all;
\* its own assertions on overflow and coverage stop no validated plan.
OpenedInPlace ==
    /\ pc # "failed"
    /\ \A k \in DOMAIN sink.rows :
        \/ sink.rows[k] = EnrolledRow(Base + k)
        \/ (sink.rows[k] = Unwritten /\ pc # "done")
=============================================================================
