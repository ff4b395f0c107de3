---------------------------- MODULE SplitPlanner ----------------------------
(***************************************************************************)
(* The planner of the weight split (profiler/weightsplit.py): given the      *)
(* enrolled block, the machine and a number of devices, which device owns    *)
(* which run of weight variables in the fold stage and in the open stage.    *)
(*                                                                         *)
(* A question is a record:                                                  *)
(*   vars      per persistent variable: length, packed (bytes or Unknown),   *)
(*             quant (a type or NoName), source (a shared one or NoName)      *)
(*   fresh     W, cids and Q of the coordinator's own work                   *)
(*   n         devices, the coordinator first                                *)
(*   resident  whether a device holds its packed share in memory             *)
(*   mem       bytes it has for it, or Unknown                               *)
(*   disk      time per byte read, or Unknown;  shared: one volume for all;   *)
(*   overlap   whether reading hides behind computing                        *)
(*   static    one plan for both stages                                     *)
(*   x         the coordinator's share per stage, in percent, or Unknown     *)
(*   flat      bytes per parameter for all variables, or Unknown             *)
(* A run is <<lo, hi>>: the variables lo .. hi - 1.  A plan is a run of each   *)
(* device.  Times and bytes are in units that make every rate an integer,     *)
(* which leaves the rounding of floats out.                                  *)
(***************************************************************************)
EXTENDS Integers, Sequences, FiniteSets, FiniteSetsExt, SequencesExt

CONSTANT SLOTS          \* ELL: slots of a row
ASSUME SlotsAssumption == SLOTS \in Nat \ {0}

Unknown == -1
NoName == "none"

\* A of the profile, times nine; B and C are one of these units.
A == 18
ENCODE == (4 * A) \div 9
Rate == [fold |-> A, open |-> A \div 2]

\* In units of 1/128 byte.
QUANT_BYTES_PER_PARAM ==
  [Q4_K |-> 72, Q5_K |-> 88, Q6_K |-> 105, Q8_0 |-> 136, F16 |-> 256, BF16 |-> 256, F32 |-> 512]
DEFAULT_QUANT == "Q4_K"

LOCAL Sum(f) == FoldFunction(+, 0, f)
LOCAL Tabulated(f) == f @@ [e \in {} |-> 0]      \* computed once
LOCAL Total(S, size(_)) == FoldSet(LAMBDA s, acc : acc + size(s), 0, S)

---------------------------------------------------------------------------
(* The enrolled block.                                                      *)
packed_bytes_of(v, flat) ==
  IF flat # Unknown THEN v.length * flat
  ELSE IF v.packed # Unknown THEN v.packed
  ELSE v.length * QUANT_BYTES_PER_PARAM[IF v.quant = NoName THEN DEFAULT_QUANT ELSE v.quant]
SharesSource(job, u, v) ==
  job.flat = Unknown /\ job.vars[u].source # NoName /\ job.vars[u].source = job.vars[v].source
BadProvenance(job) ==
  \/ job.vars = <<>>
  \/ \E v \in DOMAIN job.vars :
       \/ job.flat = Unknown /\ job.vars[v].packed < Unknown
       \/ job.flat = Unknown /\ job.vars[v].packed = Unknown
          /\ job.vars[v].quant \notin DOMAIN QUANT_BYTES_PER_PARAM \cup {NoName}
       \/ SharesSource(job, v, v) /\ job.vars[v].packed = Unknown
       \/ \E u \in DOMAIN job.vars : SharesSource(job, u, v) /\ job.vars[u].packed # job.vars[v].packed

LOCAL Cumulated(sizes) ==
  LET cum[k \in 0 .. Len(sizes)] == IF k = 0 THEN 0 ELSE cum[k - 1] + sizes[k]
  IN  Tabulated(cum)
_Block(job) ==
  LET mates(u) == {v - 1 : v \in {v \in DOMAIN job.vars : SharesSource(job, u, v)}}
  IN  [n |-> Len(job.vars),
       phys |-> Cumulated([v \in DOMAIN job.vars |-> SLOTS * ((job.vars[v].length + SLOTS - 1) \div SLOTS)]),
       read |-> Cumulated([v \in DOMAIN job.vars |-> packed_bytes_of(job.vars[v], job.flat)]),
       shared |-> {[at |-> mates(u), size |-> job.vars[u].packed] :
                     u \in {u \in DOMAIN job.vars : Cardinality(mates(u)) > 1}}]
Slots(blk, run) == blk.phys[run[2]] - blk.phys[run[1]]
stream_bytes(blk, run) == blk.read[run[2]] - blk.read[run[1]]
LOCAL Uses(s, run) == {v \in s.at : run[1] <= v /\ v < run[2]}
\* A device holds a shared source once.
Bytes(blk, run) ==
  stream_bytes(blk, run)
    - Total({s \in blk.shared : Uses(s, run) # {}}, LAMBDA s : s.size * (Cardinality(Uses(s, run)) - 1))
union_bytes(blk, a, b) ==
  IF a[2] <= a[1] THEN Bytes(blk, b)
  ELSE IF b[2] <= b[1] THEN Bytes(blk, a)
  ELSE IF a[2] < b[1] \/ b[2] < a[1]
  THEN Bytes(blk, a) + Bytes(blk, b)
         - Total({s \in blk.shared : Uses(s, a) # {} /\ Uses(s, b) # {}}, LAMBDA s : s.size)
  ELSE Bytes(blk, <<Min({a[1], b[1]}), Max({a[2], b[2]})>>)

---------------------------------------------------------------------------
(* The cuts.  A cost is a table over runs that grows with them; so do bytes. *)
Spans(blk) == {r \in (0 .. blk.n) \X (0 .. blk.n) : r[1] <= r[2]}
NoPlan == <<>>
NoCap == -1
Fits(blk, run, cap) == cap = NoCap \/ Bytes(blk, run) <= cap

\* The point of lo .. hi from which on the set is reached, if it ever is.
LOCAL Bisect(reached, lo, hi) ==
  LET from[ab \in (lo .. hi) \X (lo .. hi)] ==
        LET mid == (ab[1] + ab[2]) \div 2
        IN  IF ab[1] >= ab[2] THEN ab[1]
            ELSE from[IF mid \in reached THEN <<ab[1], mid>> ELSE <<mid + 1, ab[2]>>]
  IN  from[<<lo, hi>>]

\* Each run as long as the bound allows; the workers left over are idle.
_greedy_runs(blk, cost, lo, k, bound, cap) ==
  LET Allowed(run) == cost[run] <= bound /\ Fits(blk, run, cap)
      Longest(start) ==
        Bisect({e \in start .. blk.n : e = blk.n \/ ~Allowed(<<start, e + 1>>)}, start, blk.n)
      cut[d \in 0 .. k] == IF d = 0 THEN lo ELSE Longest(cut[d - 1])
  IN  IF cut[k] = blk.n THEN [d \in 1 .. k |-> <<cut[d - 1], cut[d]>>] ELSE NoPlan
Worst(cost, runs) == Max({cost[runs[d]] : d \in DOMAIN runs})
\* The least bound to which a greedy division exists.
_minmax_partition(blk, cost, lo, k, cap) ==
  LET kept == {t \in {cost[r] : r \in Spans(blk)} : _greedy_runs(blk, cost, lo, k, t, cap) # NoPlan}
  IN  IF kept = {} THEN NoPlan ELSE _greedy_runs(blk, cost, lo, k, Min(kept), cap)

\* A mutant: the crossing itself is the cut, the one before it is not tried.
CrossingOnly(at) == {at}
Around(at) == {at - 1, at, at + 1}
\* rest: the workers' runs behind each cut.  The coordinator's time grows with
\* the cut and theirs falls.
CoordinatorCut(coord, worker, rest, c_lo, c_hi) ==
  LET Theirs(c) == Worst(worker, rest[c])
      crossed == {c \in c_lo .. c_hi : rest[c] = NoPlan \/ coord[<<0, c>>] >= Theirs(c)}
      Time(c) == Max({coord[<<0, c>>], Theirs(c)})
      FirstOfBest(cuts) == IF cuts = {} THEN Unknown ELSE Min({c \in cuts : \A d \in cuts : Time(c) <= Time(d)})
  IN  IF c_lo > c_hi THEN Unknown
      ELSE FirstOfBest({c \in Around(Bisect(crossed, c_lo, c_hi)) \cap c_lo .. c_hi : rest[c] # NoPlan})
_solve_stage(blk, n, coord, worker, cap) ==
  LET free == [r \in Spans(blk) |-> 0]
      c_hi == Max({0} \cup {c \in 0 .. blk.n : Fits(blk, <<0, c>>, cap)})
      c_lo == IF cap = NoCap THEN 0
              ELSE Bisect({c \in 0 .. blk.n : _greedy_runs(blk, free, c, n - 1, 0, cap) # NoPlan}, 0, blk.n)
      PlanOf(rest, c0) == IF c0 = Unknown THEN NoPlan ELSE <<<<0, c0>>>> \o rest[c0]
      Cut(rest) == PlanOf(rest, CoordinatorCut(coord, worker, rest, c_lo, c_hi))
  IN  IF n = 1 THEN <<<<0, blk.n>>>>
      ELSE Cut(Tabulated([c \in 0 .. blk.n |-> _minmax_partition(blk, worker, c, n - 1, cap)]))

\* The boundary nearest to the share num/den, the later one when between.
cut_at_fraction(blk, num, den, lo) ==
  LET Gap(j) == den * blk.phys[j] - num * blk.phys[blk.n]
      at == {j \in lo .. blk.n : Gap(j) >= 0}
      j0 == Min(at)
  IN  IF at = {} THEN blk.n ELSE IF lo < j0 /\ -Gap(j0 - 1) < Gap(j0) THEN j0 - 1 ELSE j0
_explicit_plan(blk, n, x) ==
  LET cut[d \in 0 .. n] ==
        CASE d = 0 -> 0
          [] d = n -> blk.n
          [] d = 1 -> cut_at_fraction(blk, x, 100, 0)
          [] OTHER -> cut_at_fraction(blk, x * (n - 1) + (d - 1) * (100 - x), 100 * (n - 1), cut[d - 1])
  IN  IF n = 1 THEN <<<<0, blk.n>>>> ELSE [d \in 1 .. n |-> <<cut[d - 1], cut[d]>>]

---------------------------------------------------------------------------
(* What a plan costs.                                                        *)
StageNames == {"fold", "open"}
stages(job) ==
  [commit |-> ENCODE * job.fresh.W,
   fold |-> (A - ENCODE) * job.fresh.W + job.fresh.cids + job.fresh.Q,
   open |-> Rate["open"] * job.fresh.W]
dev_time(job, comp, byt) ==
  IF job.resident THEN comp ELSE IF job.overlap THEN Max({comp, byt * job.disk}) ELSE comp + byt * job.disk
pass_bytes(job, blk, run) == IF job.resident THEN Bytes(blk, run) ELSE stream_bytes(blk, run)
worker_cost(job, blk, s) ==
  Tabulated([r \in Spans(blk) |-> dev_time(job, Rate[s] * Slots(blk, r), pass_bytes(job, blk, r))])
coord_cost(job, blk, s) ==
  Tabulated([r \in Spans(blk) |->
    dev_time(job, stages(job)[s] + Rate[s] * Slots(blk, r), pass_bytes(job, blk, r))])
Cap(job) == IF job.resident THEN job.mem ELSE NoCap

\* One volume delivers the bytes of all devices, whatever the division.
stage_time(job, blk, s, split) ==
  LET io == Sum([d \in DOMAIN split |-> pass_bytes(job, blk, split[d])]) * job.disk
      dev == Max({coord_cost(job, blk, s)[split[1]]}
                 \cup {worker_cost(job, blk, s)[split[d]] : d \in 2 .. Len(split)})
  IN  IF ~job.resident /\ job.shared THEN Max({dev, io}) ELSE dev
assess(job, blk, split, mode) ==
  LET hold == [d \in 1 .. job.n |-> union_bytes(blk, split.fold[d], split.open[d])]
  IN  [plan |-> split, mode |-> mode, hold |-> Max({hold[d] : d \in 1 .. job.n}),
       feasible |-> Cap(job) = NoCap \/ \A d \in 1 .. job.n : hold[d] <= Cap(job),
       wall |-> stages(job).commit + stage_time(job, blk, "fold", split.fold)
                                   + stage_time(job, blk, "open", split.open)]

---------------------------------------------------------------------------
(* evaluate: the candidates, and the best of them.                           *)
Unavailable(job) == IF job.resident THEN job.mem = Unknown ELSE job.disk = Unknown
LOCAL Both(split) == [fold |-> split, open |-> split]
LOCAL Solved(job, blk, names, cap) ==
  LET coord == [s \in names |-> coord_cost(job, blk, s)]
      worker == [s \in names |-> worker_cost(job, blk, s)]
      Added(cost) == Tabulated([r \in Spans(blk) |-> Sum([s \in names |-> cost[s][r]])])
  IN  _solve_stage(blk, job.n, Added(Tabulated(coord)), Added(Tabulated(worker)), cap)
LOCAL Listed(S) == SetToSeq(S)

Independent(job, blk) ==
  <<assess(job, blk, [s \in StageNames |-> Solved(job, blk, {s}, NoCap)], "independent")>>
\* Two devices: every pair of cuts within the box holds, each stage is
\* enumerated in it.
CappedExact(job, blk) ==
  LET c_max == Max({0} \cup {c \in 0 .. blk.n : Fits(blk, <<0, c>>, Cap(job))})
      c_min == Min({blk.n} \cup {c \in 0 .. blk.n : Fits(blk, <<c, blk.n>>, Cap(job))})
      Time(s, c) == Max({coord_cost(job, blk, s)[<<0, c>>], worker_cost(job, blk, s)[<<c, blk.n>>]})
      Best(s) == CHOOSE c \in c_min .. c_max : \A d \in c_min .. c_max : Time(s, c) <= Time(s, d)
  IN  IF c_min > c_max THEN <<>>
      ELSE <<assess(job, blk, [s \in StageNames |-> <<<<0, Best(s)>>, <<Best(s), blk.n>>>>], "capped-exact")>>
\* One plan for both stages: enumerated for two devices, else three solves of
\* other objectives, of which the best is taken.
Tied(job, blk) ==
  IF job.n = 2
  THEN LET all == {assess(job, blk, Both(<<<<0, c>>, <<c, blk.n>>>>), IF job.static THEN "static-exact" ELSE "tied-exact") :
                     c \in 0 .. blk.n}
           held == {r \in all : r.feasible}
       IN  IF held = {} THEN <<>> ELSE <<CHOOSE r \in held : \A q \in held : r.wall <= q.wall>>
  ELSE LET plans == {Solved(job, blk, names, Cap(job)) : names \in {StageNames, {"fold"}, {"open"}}} \ {NoPlan}
       IN  Listed({assess(job, blk, Both(p), IF job.static THEN "static-heuristic" ELSE "tied-heuristic") : p \in plans})
MinHold(job, blk) ==
  LET bytes == Tabulated([r \in Spans(blk) |-> Bytes(blk, r)])
  IN  <<assess(job, blk, Both(_solve_stage(blk, job.n, bytes, bytes, NoCap)), "min-hold")>>
LOCAL Better(p, q) ==
  IF p.feasible # q.feasible THEN p.feasible
  ELSE IF ~p.feasible /\ p.hold # q.hold THEN p.hold < q.hold
  ELSE p.wall < q.wall
\* One family after the other, until something fits.
Family(job, blk, k) ==
  CASE k = 1 -> IF job.static THEN <<>> ELSE Independent(job, blk)
    [] k = 2 -> IF job.static \/ job.n # 2 THEN <<>> ELSE CappedExact(job, blk)
    [] k = 3 -> Tied(job, blk)
    [] OTHER -> IF Cap(job) = NoCap THEN <<>> ELSE MinHold(job, blk)
Candidates(job, blk) ==
  FoldLeft(LAMBDA found, k : IF \E i \in DOMAIN found : found[i].feasible THEN found ELSE found \o Family(job, blk, k),
           <<>>, <<1, 2, 3, 4>>)
LOCAL BestOf(cands) ==
  cands[CHOOSE i \in DOMAIN cands : \A j \in DOMAIN cands :
          ~Better(cands[j], cands[i]) /\ (Better(cands[i], cands[j]) \/ i <= j)]
LOCAL Named(best) == IF best.feasible THEN best ELSE [best EXCEPT !.mode = "least-infeasible"]
\* A share of the coordinator given by hand replaces the solution of its stage.
Explicit(job, blk) ==
  assess(job, blk, [s \in StageNames |-> IF job.x[s] # Unknown THEN _explicit_plan(blk, job.n, job.x[s])
                                         ELSE Solved(job, blk, {s}, NoCap)], "explicit")
evaluate(job) ==
  LET blk == _Block(job)
  IN  IF job.n = 1 THEN assess(job, blk, Both(<<<<0, blk.n>>>>), "single")
      ELSE IF \E s \in StageNames : job.x[s] # Unknown THEN Explicit(job, blk)
      ELSE Named(BestOf(Candidates(job, blk)))
\* _intervals: the runs as the prover takes them, devices from 0.
_intervals(split) == [d \in DOMAIN split |-> <<d - 1, split[d][1], split[d][2]>>]
=============================================================================
