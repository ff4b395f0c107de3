-------------------------- MODULE WeightSplit_proofs --------------------------
(***************************************************************************)
(* Proofs about shard plans, for any number of weight variables of any     *)
(* sizes, any lists of runs and any chunk size.                            *)
(*                                                                         *)
(* A plan is executed exactly when it gives every variable to one run in   *)
(* each stage.  The argument follows the scan.  The runs scanned so far    *)
(* own each variable below pos exactly once and none from pos on.  A run   *)
(* that does not start at pos therefore shows a second owner (it starts    *)
(* below) or, because the runs are scanned in order, a variable without    *)
(* one (it starts above).                                                  *)
(*                                                                         *)
(* Then the execution streams every row of the block once per stage.  The  *)
(* argument follows the passes: at any time the rows streamed are those of *)
(* the variables whose passes have started, without what the pass at hand  *)
(* has still to stream; the sums of the fold stage are the sums over them, *)
(* and the sink of the open stage holds them, each at its place.           *)
(***************************************************************************)
EXTENDS PlannedSplit, FiniteSetTheorems, TLAPS
T == INSTANCE Tape_proofs

Validating == pc \in {"shape", "scan"}

IsPlan(p) ==
  /\ p = [fold |-> p.fold, open |-> p.open, devices |-> p.devices]
  /\ p.fold \in Seq(Runs)
  /\ p.open \in Seq(Runs)

\* The runs of the stage that the scan has passed and that own v.
ScannedOwners(v) ==
  {i \in DOMAIN plan[stage] \ left : Lo(Run(i)) <= v /\ v < Hi(Run(i))}

ScanInv ==
  /\ WellShaped(plan[stage])
  /\ left \subseteq DOMAIN plan[stage]
  /\ pos \in 0..N
  /\ \A v \in 0..(N - 1) :
       /\ v < pos => \E i \in DOMAIN plan[stage] : ScannedOwners(v) = {i}
       /\ pos <= v => ScannedOwners(v) = {}

Good(s) == WellShaped(plan[s]) /\ Tiles(plan[s])

IInv ==
  /\ IsPlan(plan)
  /\ stage \in Stages
  /\ pc = "scan" => ScanInv
  /\ Validating /\ stage = "open" => Good("fold")
  /\ pc = "devices" \/ Accepted => Good("fold") /\ Good("open")
  /\ RefusedForCause
-------------------------------------------------------------------------------

\* Filling the -1 sentinel leaves a list of runs a list of runs.
LEMMA FilledType ==
  ASSUME NEW rs \in Seq(Runs)
  PROVE  Filled(rs) \in Seq(Runs)
<1>1. ASSUME NEW i \in DOMAIN rs
      PROVE  Filled(rs)[i] \in Runs
  BY <1>1, NAssumption DEF Filled, Runs, Dev, Lo, Hi
<1>2. DOMAIN Filled(rs) = 1..Len(rs) /\ Len(rs) \in Nat
  BY DEF Filled
<1>3. Filled(rs) \in [1..Len(rs) -> Runs]
  BY <1>1, <1>2 DEF Filled
<1> QED
  BY <1>2, <1>3

\* A list of runs in shape has no sentinel left.
LEMMA FilledOnce ==
  ASSUME NEW rs \in Seq(Runs), WellShaped(rs)
  PROVE  Filled(rs) = rs
<1>1. ASSUME NEW i \in DOMAIN rs
      PROVE  Hi(rs[i]) # -1
  BY <1>1 DEF WellShaped, Runs, Dev, Lo, Hi
<1> QED
  BY <1>1 DEF Filled

\* The bounds of a run of a list in shape are integers in range.
LEMMA RunBounds ==
  ASSUME NEW rs \in Seq(Runs), WellShaped(rs), NEW i \in DOMAIN rs
  PROVE  /\ Lo(rs[i]) \in 0..N
         /\ Hi(rs[i]) \in 0..N
         /\ Lo(rs[i]) <= Hi(rs[i])
BY NAssumption DEF WellShaped, Runs, Dev, Lo, Hi

\* The runs of either stage are a list of runs.
LEMMA StageRuns ==
  ASSUME IsPlan(plan), NEW s \in Stages
  PROVE  plan[s] \in Seq(Runs)
BY DEF IsPlan, Stages
-------------------------------------------------------------------------------

\* The validation accepts nothing before it has begun.
LEMMA InitIInv == Init => IInv
BY PlansAssumption DEF Init, IInv, IsPlan, Stages, Validating, Accepted, RefusedForCause

\* Filling and checking the shape of a stage's runs starts the scan.
LEMMA ShapeStep ==
  ASSUME IInv, CheckShape
  PROVE  IInv'
<1> DEFINE rs == Filled(plan[stage])
<1>1. plan[stage] \in Seq(Runs) /\ rs \in Seq(Runs)
  BY StageRuns, FilledType DEF IInv
<1>2. CASE ~WellShaped(rs) /\ Refuse
  BY <1>2 DEF IInv, CheckShape, Refuse, Validating, Accepted, RefusedForCause, IsPlan
<1>3. CASE /\ WellShaped(rs)
           /\ plan' = [plan EXCEPT ![stage] = rs]
           /\ pc' = "scan" /\ left' = DOMAIN rs /\ pos' = 0
           /\ UNCHANGED <<stage, work>>
  <2>1. /\ plan'[stage] = rs
        /\ \A s \in Stages : s # stage => plan'[s] = plan[s]
        /\ IsPlan(plan')
    BY <1>1, <1>3 DEF IInv, IsPlan, Stages
  <2>2. ScanInv'
    <3>1. left' \subseteq DOMAIN plan'[stage'] /\ pos' \in 0..N
      BY <1>3, <2>1, NAssumption
    <3>2. ASSUME NEW v \in 0..(N - 1)
          PROVE  ScannedOwners(v)' = {}
      BY <1>3, <2>1 DEF ScannedOwners
    <3>3. \A v \in 0..(N - 1) : ~(v < pos')
      BY <1>3, NAssumption
    <3> QED
      BY <1>3, <2>1, <3>1, <3>2, <3>3 DEF ScanInv, WellShaped
  <2>3. stage = "open" => Good("fold")'
    BY <1>3, <2>1 DEF IInv, CheckShape, Validating, Good, Stages, WellShaped, Tiles, Owners
  <2> QED
    BY <1>3, <2>1, <2>2, <2>3 DEF IInv, Validating, Accepted, RefusedForCause
<1> QED
  BY <1>2, <1>3 DEF CheckShape

\* A run that does not start at pos leaves a variable without exactly one owner.
LEMMA BadCut ==
  ASSUME IInv, pc = "scan", NEW i \in left, IsNext(i),
         Hi(Run(i)) # Lo(Run(i)), Cut(Run(i))
  PROVE  ~Tiles(plan[stage])
<1> DEFINE rs == plan[stage]
           r == Run(i)
<1>1. rs \in Seq(Runs) /\ ScanInv /\ WellShaped(rs) /\ i \in DOMAIN rs
  BY StageRuns DEF IInv, ScanInv
<1>2. Lo(r) \in 0..N /\ Hi(r) \in 0..N /\ Lo(r) < Hi(r) /\ pos \in 0..N
  BY <1>1, RunBounds DEF Run, ScanInv
<1>3. CASE Lo(r) < pos
  <2>1. Lo(r) \in 0..(N - 1) /\ i \in Owners(rs, Lo(r))
    BY <1>1, <1>2, NAssumption DEF Owners, Run
  <2>2. PICK j \in DOMAIN rs : ScannedOwners(Lo(r)) = {j}
    BY <1>1, <1>3, <2>1 DEF ScanInv
  <2>3. j \in Owners(rs, Lo(r)) /\ j # i
    BY <2>2 DEF ScannedOwners, Owners, Run
  <2> QED
    BY <2>1, <2>3 DEF Tiles
<1>4. CASE pos < Lo(r)
  <2>1. pos \in 0..(N - 1)
    BY <1>2, <1>4, NAssumption
  <2>2. ASSUME NEW j \in Owners(rs, pos)
        PROVE  FALSE
    <3>1. j \in DOMAIN rs /\ Lo(rs[j]) <= pos /\ pos < Hi(rs[j])
      BY <2>2 DEF Owners
    <3>2. j \in left
      BY <1>1, <2>1, <3>1, <1>2 DEF ScanInv, ScannedOwners, Run
    <3>3. Lo(r) <= Lo(rs[j])
      BY <1>1, <1>2, <3>1, <3>2, RunBounds DEF IsNext, Run
    <3> QED
      BY <1>1, <1>2, <1>4, <3>1, <3>3, RunBounds
  <2> QED
    BY <2>1, <2>2 DEF Tiles
<1> QED
  BY <1>2, <1>3, <1>4 DEF Cut

\* A run that is scanned extends the owned variables by its own.
LEMMA GoodCut ==
  ASSUME IInv, pc = "scan", NEW i \in left,
         Hi(Run(i)) = Lo(Run(i)) \/ ~Cut(Run(i)),
         left' = left \ {i},
         pos' = IF Hi(Run(i)) = Lo(Run(i)) THEN pos ELSE Hi(Run(i)),
         UNCHANGED <<plan, pc, stage>>
  PROVE  ScanInv'
<1> DEFINE rs == plan[stage]
           r == Run(i)
<1>1. rs \in Seq(Runs) /\ ScanInv /\ WellShaped(rs) /\ i \in DOMAIN rs
  BY StageRuns DEF IInv, ScanInv
<1>2. Lo(r) \in 0..N /\ Hi(r) \in 0..N /\ Lo(r) <= Hi(r) /\ pos \in 0..N
  BY <1>1, RunBounds DEF Run, ScanInv
<1>3. pos' \in 0..N /\ left' \subseteq DOMAIN rs
  BY <1>1, <1>2 DEF ScanInv
<1>4. ASSUME NEW v \in 0..(N - 1)
      PROVE  ScannedOwners(v)' = IF Lo(r) <= v /\ v < Hi(r)
                                 THEN ScannedOwners(v) \cup {i}
                                 ELSE ScannedOwners(v)
  BY <1>1 DEF ScannedOwners, Run
<1>5. ASSUME NEW v \in 0..(N - 1)
      PROVE  /\ v < pos' => \E j \in DOMAIN rs : ScannedOwners(v)' = {j}
             /\ pos' <= v => ScannedOwners(v)' = {}
  <2>1. CASE Hi(r) = Lo(r)
    <3>1. ScannedOwners(v)' = ScannedOwners(v) /\ pos' = pos
      BY <1>2, <1>4, <2>1
    <3> QED
      BY <1>1, <3>1 DEF ScanInv
  <2>2. CASE Hi(r) # Lo(r)
    <3>1. Lo(r) = pos /\ pos' = Hi(r)
      BY <2>2 DEF Cut
    <3>2. CASE v < pos
      <4>1. ScannedOwners(v)' = ScannedOwners(v)
        BY <1>2, <1>4, <3>1, <3>2
      <4> QED
        BY <1>1, <1>2, <3>1, <3>2, <4>1 DEF ScanInv
    <3>3. CASE pos <= v /\ v < Hi(r)
      <4>1. ScannedOwners(v)' = {i}
        BY <1>1, <1>2, <1>4, <3>1, <3>3 DEF ScanInv
      <4> QED
        BY <1>1, <1>2, <3>1, <3>3, <4>1
    <3>4. CASE Hi(r) <= v
      <4>1. ScannedOwners(v)' = {}
        BY <1>1, <1>2, <1>4, <3>1, <3>4 DEF ScanInv
      <4> QED
        BY <1>2, <3>1, <3>4, <4>1
    <3> QED
      BY <1>2, <3>1, <3>2, <3>3, <3>4
  <2> QED
    BY <2>1, <2>2
<1> QED
  BY <1>1, <1>3, <1>5 DEF ScanInv, WellShaped

\* One round of the scan refuses for cause or extends the owned variables.
LEMMA ScanStep ==
  ASSUME IInv, NEW i \in left, Scan(i)
  PROVE  IInv'
<1>1. pc = "scan" /\ IsNext(i)
  BY DEF Scan
<1>2. CASE Hi(Run(i)) # Lo(Run(i)) /\ Cut(Run(i)) /\ Refuse
  <2>1. ~Tiles(plan[stage])
    BY <1>1, <1>2, BadCut
  <2>2. Filled(plan[stage]) = plan[stage]
    BY <1>1, StageRuns, FilledOnce DEF IInv, ScanInv
  <2>3. UNCHANGED <<plan, stage>> /\ pc' = "refused"
    BY <1>2 DEF Refuse
  <2>4. RefusedForCause'
    <3>1. ~Tiles(Filled(plan[stage]))
      BY <2>1, <2>2
    <3>2. Filled(plan[stage])' = Filled(plan[stage])
      BY <2>3 DEF Filled
    <3>3. Tiles(Filled(plan[stage]))' = Tiles(Filled(plan[stage]))
      BY <3>2 DEF Tiles, Owners
    <3> QED
      BY <3>1, <3>3 DEF RefusedForCause
  <2> QED
    BY <2>3, <2>4 DEF IInv, IsPlan, Validating, Accepted
<1>3. CASE /\ Hi(Run(i)) = Lo(Run(i)) \/ ~Cut(Run(i))
           /\ left' = left \ {i}
           /\ pos' = IF Hi(Run(i)) = Lo(Run(i)) THEN pos ELSE Hi(Run(i))
           /\ UNCHANGED <<plan, pc, stage, work>>
  <2>1. ScanInv'
    BY <1>1, <1>3, GoodCut
  <2> QED
    BY <1>1, <1>3, <2>1
    DEF IInv, IsPlan, Validating, Accepted, Good, WellShaped, Tiles, Owners,
        RefusedForCause
<1> QED
  BY <1>2, <1>3 DEF Scan

\* A scan that has passed all runs has tiled the variables below pos.
LEMMA EndScanStep ==
  ASSUME IInv, EndScan
  PROVE  IInv'
<1> DEFINE rs == plan[stage]
<1>1. /\ pc = "scan" /\ left = {} /\ ScanInv
      /\ rs \in Seq(Runs) /\ WellShaped(rs)
  BY StageRuns DEF EndScan, IInv, ScanInv
<1>2. \A v \in 0..(N - 1) : ScannedOwners(v) = Owners(rs, v)
  BY <1>1 DEF ScannedOwners, Owners, Run
<1>3. CASE pos # N /\ Refuse
  <2>1. pos \in 0..(N - 1)
    BY <1>1, <1>3, NAssumption DEF ScanInv
  <2>2. Owners(rs, pos) = {}
    BY <1>1, <1>2, <2>1 DEF ScanInv
  <2>3. ~Tiles(rs)
    BY <2>1, <2>2 DEF Tiles
  <2>4. Filled(rs) = rs
    BY <1>1, FilledOnce
  <2>5. UNCHANGED <<plan, stage>> /\ pc' = "refused"
    BY <1>3 DEF Refuse
  <2>6. RefusedForCause'
    <3>1. ~Tiles(Filled(plan[stage]))
      BY <2>3, <2>4
    <3>2. Filled(plan[stage])' = Filled(plan[stage])
      BY <2>5 DEF Filled
    <3>3. Tiles(Filled(plan[stage]))' = Tiles(Filled(plan[stage]))
      BY <3>2 DEF Tiles, Owners
    <3> QED
      BY <3>1, <3>3 DEF RefusedForCause
  <2> QED
    BY <2>5, <2>6 DEF IInv, IsPlan, Validating, Accepted
<1>4. CASE /\ pos = N
           /\ IF stage = "fold"
              THEN stage' = "open" /\ pc' = "shape"
              ELSE stage' = "fold" /\ pc' = "devices"
           /\ UNCHANGED <<plan, left, pos, work>>
  <2>1. \A v \in 0..(N - 1) : v < pos
    BY <1>4, NAssumption
  <2>2. Tiles(rs)
    BY <1>1, <1>2, <2>1 DEF ScanInv, Tiles
  <2>3. Good(stage)
    BY <1>1, <2>2 DEF Good
  <2>4. /\ stage = "open" => Good("fold") /\ Good("open")
        /\ stage = "fold" => Good("fold")
    BY <1>1, <2>3 DEF IInv, Validating
  <2>5. \A s \in Stages : Good(s)' = Good(s)
    BY <1>4 DEF Good, WellShaped, Tiles, Owners
  <2> QED
    BY <1>4, <2>4, <2>5 DEF IInv, IsPlan, Stages, Validating, Accepted, RefusedForCause
<1> QED
  BY <1>3, <1>4 DEF EndScan

\* The device map is checked last; both stages are good by then.
LEMMA DevicesStep ==
  ASSUME IInv, CheckDevices
  PROVE  IInv'
<1>1. pc = "devices" /\ UNCHANGED <<plan, stage>>
  BY DEF CheckDevices, Refuse
<1>2. CASE (Stray # {} \/ Elsewhere) /\ pc' = "refused"
  <2>1. RefusedForCause'
    BY <1>1, <1>2 DEF RefusedForCause, Stray, Used, Elsewhere, Workers
  <2> QED
    BY <1>1, <1>2, <2>1 DEF IInv, IsPlan, Validating, Accepted
<1>3. CASE pc' = "sweep"
  BY <1>1, <1>3
  DEF IInv, IsPlan, Validating, Accepted, Good, WellShaped, Tiles, Owners, RefusedForCause
<1> QED
  BY <1>2, <1>3 DEF CheckDevices, Refuse

Execute ==
  \/ SweepClaim \/ EndSweep \/ FoldChunk \/ OpenChunk \/ EndWorker \/ EndFold \/ Finish
  \/ \E i \in left : StartWorker(i)

\* Execution begins only when the validation has ended, and leaves the plan.
LEMMA ExecuteStep ==
  ASSUME IInv, Execute
  PROVE  IInv'
<1>1. Accepted /\ Accepted' /\ ~Validating' /\ pc' # "devices" /\ pc' # "refused"
  BY DEF Execute, SweepClaim, EndSweep, FoldChunk, OpenChunk, EndWorker, EndFold,
         Finish, StartWorker, Accepted, Validating
<1>2. plan' = plan /\ stage' \in Stages
  BY DEF IInv, Stages, Execute, SweepClaim, EndSweep, FoldChunk, OpenChunk,
         EndWorker, EndFold, Finish, StartWorker
<1>3. Good("fold")' /\ Good("open")'
  BY <1>1, <1>2 DEF IInv, Good, WellShaped, Tiles, Owners
<1> QED
  BY <1>1, <1>2, <1>3 DEF IInv, IsPlan, Validating, RefusedForCause

\* Every step of the prover preserves the invariant.
LEMMA NextIInv ==
  ASSUME IInv, [Next]_vars
  PROVE  IInv'
<1>1. CASE CheckShape
  BY <1>1, ShapeStep
<1>2. CASE \E i \in left : Scan(i)
  BY <1>2, ScanStep
<1>3. CASE EndScan
  BY <1>3, EndScanStep
<1>4. CASE CheckDevices
  BY <1>4, DevicesStep
<1>5. CASE Execute
  BY <1>5, ExecuteStep
<1>6. CASE UNCHANGED vars
  <2>1. UNCHANGED <<plan, pc, stage, left, pos>>
    BY <1>6 DEF vars
  <2>2. \A v : ScannedOwners(v)' = ScannedOwners(v)
    BY <2>1 DEF ScannedOwners, Run
  <2>3. ScanInv' = ScanInv
    BY <2>1, <2>2 DEF ScanInv, WellShaped
  <2>4. RefusedForCause' = RefusedForCause
    BY <2>1 DEF RefusedForCause, Stray, Used, Elsewhere, Workers, Tiles, Owners,
                Filled, WellShaped
  <2>5. \A s \in Stages : Good(s)' = Good(s)
    BY <2>1 DEF Good, WellShaped, Tiles, Owners
  <2> QED
    BY <2>1, <2>3, <2>4, <2>5 DEF IInv, IsPlan, Stages, Validating, Accepted
<1> QED
  BY <1>1, <1>2, <1>3, <1>4, <1>5, <1>6 DEF Next, Execute

\* A plan that is executed gives every weight variable to exactly one run in
\* each stage (validate_runs), for every list of runs.
THEOREM OnlyTilingPlansRun == Spec => []AcceptedTiles
<1>1. IInv => AcceptedTiles
  BY DEF IInv, AcceptedTiles, Good, Stages
<1> QED
  BY <1>1, InitIInv, NextIInv, PTL DEF Spec

\* No plan that tiles the variables and names the right devices is refused.
THEOREM NoGoodPlanIsRefused == Spec => []RefusedForCause
<1>1. IInv => RefusedForCause
  BY DEF IInv
<1> QED
  BY <1>1, InitIInv, NextIInv, PTL DEF Spec
-------------------------------------------------------------------------------
(* The rows of the weight block. *)

\* Each variable's rows begin where those of the one before end.
LEMMA RowStartIs ==
  /\ RowStart[0] = Base
  /\ \A v \in 0..(N - 1) : RowStart[v + 1] = RowStart[v] + RowsOf[v]
<1> DEFINE Starts(g, k) == g = [v \in 0..k |-> IF v = 0 THEN Base ELSE g[v - 1] + RowsOf[v - 1]]
           K == {k \in Nat : \E g : Starts(g, k)}
<1>1. 0 \in K
  <2> DEFINE g == [v \in 0..0 |-> Base]
  <2>1. \A v \in 0..0 : v = 0
    OBVIOUS
  <2>2. Starts(g, 0)
    BY <2>1
  <2> HIDE DEF g
  <2> QED BY <2>2
<1>2. ASSUME NEW g, NEW k \in Nat, Starts(g, k), NEW v \in 0..k
      PROVE  g[v] = IF v = 0 THEN Base ELSE g[v - 1] + RowsOf[v - 1]
  <2> DEFINE e(j) == IF j = 0 THEN Base ELSE g[j - 1] + RowsOf[j - 1]
  <2>1. g = [j \in 0..k |-> e(j)]
    BY <1>2
  <2> HIDE DEF e, Starts
  <2>2. g[v] = e(v)
    BY <2>1
  <2> QED BY <2>2 DEF e
<1>3. ASSUME NEW k \in Nat, k \in K PROVE k + 1 \in K
  <2>1. PICK g : Starts(g, k)
    BY <1>3
  <2> DEFINE h == [v \in 0..(k + 1) |-> IF v = 0 THEN Base ELSE g[v - 1] + RowsOf[v - 1]]
  <2> HIDE DEF Starts
  <2>2. \A v \in 0..k : h[v] = g[v]
    <3>1. \A v \in 0..k : v \in 0..(k + 1)
      OBVIOUS
    <3> QED BY <1>2, <2>1, <3>1
  <2>3. \A v \in 0..(k + 1) : v # 0 => v - 1 \in 0..k
    OBVIOUS
  <2>4. h = [v \in 0..(k + 1) |-> h[v]]
    OBVIOUS
  <2>5. \A v \in 0..(k + 1) : h[v] = IF v = 0 THEN Base ELSE g[v - 1] + RowsOf[v - 1]
    OBVIOUS
  <2> HIDE DEF h
  <2>6. \A v \in 0..(k + 1) : h[v] = IF v = 0 THEN Base ELSE h[v - 1] + RowsOf[v - 1]
    BY <2>2, <2>3, <2>5
  <2>7. Starts(h, k + 1)
    BY <2>4, <2>6 DEF Starts
  <2> QED BY <2>7
<1>4. RowStart = CHOOSE g : Starts(g, N)
  BY DEF RowStart
<1> HIDE DEF K, Starts
<1>5. Nat \subseteq K
  BY <1>1, <1>3, T!NatIsLeast
<1>6. PICK g : Starts(g, N)
  BY <1>5, NAssumption DEF K
<1>7. Starts(RowStart, N)
  BY <1>4, <1>6
<1>8. /\ 0 \in 0..N
      /\ \A v \in 0..(N - 1) : v + 1 \in 0..N /\ v + 1 # 0 /\ (v + 1) - 1 = v
  BY NAssumption
<1>9. RowStart[0] = Base
  BY <1>2, <1>7, <1>8, NAssumption
<1> QED BY <1>2, <1>7, <1>8, <1>9, NAssumption

\* The variables follow one another without a gap, each with a row or more.
LEMMA RowStartNat == \A v \in 0..N : RowStart[v] \in Nat /\ Base <= RowStart[v]
<1> DEFINE K == {k \in Nat : k <= N => RowStart[k] \in Nat /\ Base <= RowStart[k]}
<1>1. 0 \in K
  BY RowStartIs, ChunkAssumption
<1>2. ASSUME NEW k \in Nat, k \in K PROVE k + 1 \in K
  <2> SUFFICES ASSUME k + 1 <= N PROVE RowStart[k + 1] \in Nat /\ Base <= RowStart[k + 1]
    OBVIOUS
  <2>1. k \in 0..(N - 1) /\ k <= N
    BY NAssumption
  <2> QED BY <1>2, <2>1, RowStartIs, RowsAssumption, ChunkAssumption
<1> HIDE DEF K
<1>3. Nat \subseteq K
  BY <1>1, <1>2, T!NatIsLeast
<1> QED BY <1>3, NAssumption DEF K

\* The next variable begins where one ends, and later ones begin no earlier.
LEMMA RowsFollow ==
  /\ \A v \in 0..(N - 1) : /\ v \in 0..N /\ v + 1 \in 0..N
                           /\ RowsOf[v] \in Nat \ {0}
                           /\ RowStart[v + 1] = RowStart[v] + RowsOf[v]
  /\ \A u \in 0..(N - 1), v \in 0..N : u < v => RowStart[u + 1] <= RowStart[v]
<1>1. \A v \in 0..(N - 1) : /\ RowsOf[v] \in Nat \ {0} /\ v \in 0..N /\ v + 1 \in 0..N
                            /\ RowStart[v + 1] = RowStart[v] + RowsOf[v]
  BY RowsAssumption, RowStartIs, NAssumption
<1> DEFINE K == {k \in Nat : k <= N => \A u \in 0..(N - 1) : u < k => RowStart[u + 1] <= RowStart[k]}
<1>2. 0 \in K
  OBVIOUS
<1>3. ASSUME NEW k \in Nat, k \in K PROVE k + 1 \in K
  <2> SUFFICES ASSUME k + 1 <= N, NEW u \in 0..(N - 1), u < k + 1
               PROVE  RowStart[u + 1] <= RowStart[k + 1]
    OBVIOUS
  <2>1. k \in 0..(N - 1) /\ k \in 0..N /\ k + 1 \in 0..N
    BY NAssumption
  <2>2. /\ RowStart[k + 1] = RowStart[k] + RowsOf[k] /\ RowsOf[k] \in Nat
        /\ RowStart[k] \in Nat /\ RowStart[k + 1] \in Nat /\ RowStart[u + 1] \in Nat
    BY <1>1, <2>1, RowStartNat
  <2>3. CASE u = k
    BY <2>2, <2>3
  <2>4. CASE u # k
    <3>1. u < k
      BY <2>4, NAssumption
    <3>2. RowStart[u + 1] <= RowStart[k]
      BY <1>3, <2>1, <3>1
    <3> QED BY <2>2, <3>2
  <2> QED BY <2>3, <2>4
<1> HIDE DEF K
<1>4. Nat \subseteq K
  BY <1>2, <1>3, T!NatIsLeast
<1>5. \A u \in 0..(N - 1), v \in 0..N : u < v => RowStart[u + 1] <= RowStart[v]
  BY <1>4, NAssumption DEF K
<1> QED BY <1>1, <1>5

\* So they are in order, whichever two one compares.
LEMMA RowsAscend ==
  \A u, v \in 0..N : u <= v => RowStart[u] <= RowStart[v]
<1> SUFFICES ASSUME NEW u \in 0..N, NEW v \in 0..N, u <= v PROVE RowStart[u] <= RowStart[v]
  OBVIOUS
<1>1. RowStart[u] \in Nat /\ RowStart[v] \in Nat
  BY RowStartNat
<1>2. CASE u = v
  BY <1>1, <1>2
<1>3. CASE u # v
  <2>1. u < v /\ u \in 0..(N - 1)
    BY <1>3, NAssumption
  <2>2. RowStart[u + 1] = RowStart[u] + RowsOf[u] /\ RowsOf[u] \in Nat /\ RowStart[u + 1] <= RowStart[v]
    BY <2>1, RowsFollow
  <2> QED BY <1>1, <2>2
<1> QED BY <1>2, <1>3

\* The rows of the block, and the variable each belongs to.
Block == Base..(RowStart[N] - 1)
VarOf(r) == CHOOSE v \in 0..(N - 1) : RowStart[v] <= r /\ r < RowStart[v + 1]
Row(r) == <<VarOf(r), r - RowStart[VarOf(r)] + 1>>

\* The variable whose rows a row is among is the one it belongs to.
LEMMA VarIs ==
  ASSUME NEW v \in 0..(N - 1), NEW r \in Nat, RowStart[v] <= r, r < RowStart[v + 1]
  PROVE  VarOf(r) = v
<1>1. ASSUME NEW u \in 0..(N - 1), RowStart[u] <= r, r < RowStart[u + 1] PROVE u = v
  <2>1. /\ RowStart[u] \in Nat /\ RowStart[v] \in Nat
        /\ RowStart[u + 1] \in Nat /\ RowStart[v + 1] \in Nat
    BY RowStartNat, RowsFollow
  <2>2. u < v => RowStart[u + 1] <= RowStart[v]
    BY RowsFollow
  <2>3. v < u => RowStart[v + 1] <= RowStart[u]
    BY RowsFollow
  <2> QED BY <1>1, <2>1, <2>2, <2>3, NAssumption
<1> QED BY <1>1 DEF VarOf

\* Every row of the block belongs to a variable.
LEMMA EachRowHasOne ==
  ASSUME NEW r \in Block
  PROVE  /\ r \in Nat /\ VarOf(r) \in 0..(N - 1)
         /\ RowStart[VarOf(r)] <= r /\ r < RowStart[VarOf(r) + 1]
<1>1. r \in Nat /\ Base <= r /\ r < RowStart[N] /\ RowStart[N] \in Nat
  BY RowStartNat, ChunkAssumption, NAssumption DEF Block
<1> DEFINE After == {v \in 0..N : r < RowStart[v]}
<1>2. PICK m \in After : \A k \in After : m <= k
  <2>1. N \in After /\ After \subseteq Nat
    BY <1>1, NAssumption
  <2> HIDE DEF After
  <2> QED BY <2>1, T!LeastElement
<1>3. m \in 0..N /\ r < RowStart[m] /\ m # 0
  <2>1. m \in After /\ Base \in Nat
    BY <1>2, ChunkAssumption
  <2> QED BY <1>1, <2>1, RowStartIs
<1>4. m - 1 \in 0..(N - 1) /\ m - 1 \in 0..N /\ ~(m <= m - 1) /\ (m - 1) + 1 = m
  BY <1>3, NAssumption
<1>5. ~(r < RowStart[m - 1]) /\ RowStart[m - 1] \in Nat
  BY <1>2, <1>4, RowStartNat
<1>6. RowStart[m - 1] <= r /\ r < RowStart[(m - 1) + 1]
  BY <1>1, <1>3, <1>4, <1>5
<1> QED BY <1>1, <1>4, <1>6 DEF VarOf

-------------------------------------------------------------------------------
(* A pass over consecutive variables. *)

\* FlattenSeq is the shared Flattened.
LEMMA Flattens ==
  ASSUME NEW s, NEW n \in Nat \ {0}, Len(s) = n
  PROVE  FlattenSeq(s) = T!Flattened(s, n)[n]
BY DEF FlattenSeq, T!Flattened

\* What a pass over the variables a..b-1 packs are their rows in layout order.
LEMMA PackedIs ==
  ASSUME NEW a \in 0..N, NEW b \in 0..N, a < b
  PROVE  /\ Len(Packed(Interval(a, b))) = RowStart[b] - RowStart[a]
         /\ \A k \in 1..(RowStart[b] - RowStart[a]) :
              Packed(Interval(a, b))[k] = Row(RowStart[a] + k - 1)
<1> DEFINE vs == Interval(a, b)
           n == b - a
           s == [i \in 1..Len(vs) |-> [k \in 1..RowsOf[vs[i]] |-> <<vs[i], k>>]]
           S == Nat \X Nat
<1>1. n \in Nat \ {0}
  BY NAssumption
<1>2. Len(vs) = n /\ \A i \in 1..n : vs[i] = a + i - 1
  BY <1>1, NAssumption DEF Interval
<1>3. \A i \in 1..n : s[i] = [k \in 1..RowsOf[a + i - 1] |-> <<a + i - 1, k>>]
  BY <1>1, <1>2
<1>14. Len(s) = n
  BY <1>1, <1>2
<1>4. Packed(vs) = FlattenSeq(s)
  BY DEF Packed
<1> HIDE DEF vs, s, n
<1> DEFINE f == T!Flattened(s, n)
<1>5. /\ FlattenSeq(s) = f[n] /\ f[1] = s[1]
      /\ \A i \in 1..(n - 1) : f[i + 1] = f[i] \o s[i + 1]
  BY <1>1, <1>14, Flattens, T!FlattenedIs
<1> HIDE DEF f
<1>6. \A i \in 1..n : /\ a + i - 1 \in 0..(N - 1) /\ a + i \in 0..N /\ (a + i - 1) + 1 = a + i
                      /\ a + i - 1 \in Nat
  BY NAssumption DEF n
<1>7. ASSUME NEW i \in 1..n
      PROVE  /\ s[i] \in Seq(S)
             /\ Len(s[i]) = RowStart[a + i] - RowStart[a + i - 1]
             /\ \A k \in 1..Len(s[i]) : s[i][k] = Row(RowStart[a + i - 1] + k - 1)
  <2> DEFINE v == a + i - 1
  <2>1. v \in 0..(N - 1) /\ v + 1 = a + i /\ v \in Nat
    BY <1>6
  <2>2. /\ RowsOf[v] \in Nat \ {0} /\ RowStart[v + 1] = RowStart[v] + RowsOf[v]
        /\ RowStart[v] \in Nat /\ RowStart[v + 1] \in Nat
    BY <2>1, RowsFollow, RowStartNat
  <2>3. s[i] = [k \in 1..RowsOf[v] |-> <<v, k>>]
    BY <1>3
  <2> HIDE DEF v
  <2>4. s[i] \in Seq(S) /\ Len(s[i]) = RowsOf[v] /\ \A k \in 1..RowsOf[v] : s[i][k] = <<v, k>>
    <3>1. \A k \in 1..RowsOf[v] : <<v, k>> \in S
      BY <2>1, <2>2
    <3>2. s[i] \in [1..RowsOf[v] -> S]
      BY <2>3, <3>1
    <3>3. s[i] \in Seq(S) /\ Len(s[i]) = RowsOf[v]
      BY <2>2, <3>2
    <3> QED BY <2>3, <3>3
  <2>5. ASSUME NEW k \in 1..RowsOf[v] PROVE Row(RowStart[v] + k - 1) = <<v, k>>
    <3> DEFINE r == RowStart[v] + k - 1
    <3>1. r \in Nat /\ RowStart[v] <= r /\ r < RowStart[v + 1] /\ r - RowStart[v] + 1 = k
      BY <2>2
    <3> HIDE DEF r
    <3>2. VarOf(r) = v
      BY <2>1, <3>1, VarIs
    <3> QED BY <3>1, <3>2 DEF Row, r
  <2>6. Len(s[i]) = RowStart[v + 1] - RowStart[v]
    BY <2>2, <2>4
  <2>7. \A k \in 1..Len(s[i]) : s[i][k] = Row(RowStart[v] + k - 1)
    BY <2>4, <2>5
  <2> QED BY <2>1, <2>4, <2>6, <2>7 DEF v
<1> DEFINE Good_(i) == /\ f[i] \in Seq(S) /\ Len(f[i]) = RowStart[a + i] - RowStart[a]
                       /\ \A k \in 1..Len(f[i]) : f[i][k] = Row(RowStart[a] + k - 1)
           K == {i \in Nat : i + 1 <= n => Good_(i + 1)}
<1>8. 0 \in K
  <2>1. 1 \in 1..n /\ a + 1 - 1 = a
    BY <1>1
  <2>2. Good_(1)
    BY <1>5, <1>7, <2>1
  <2> QED BY <2>2
<1>9. ASSUME NEW k \in Nat, k \in K PROVE k + 1 \in K
  <2> SUFFICES ASSUME (k + 1) + 1 <= n PROVE Good_((k + 1) + 1)
    OBVIOUS
  <2> DEFINE i == k + 1
  <2>1. i \in 1..(n - 1) /\ i \in 1..n /\ i + 1 \in 1..n /\ i <= n /\ i = k + 1
    BY <1>1
  <2>2. Good_(i)
    BY <1>9, <2>1
  <2>3. f[i + 1] = f[i] \o s[i + 1]
    BY <1>5, <2>1
  <2>4. /\ s[i + 1] \in Seq(S)
        /\ Len(s[i + 1]) = RowStart[a + i + 1] - RowStart[a + i]
        /\ \A j \in 1..Len(s[i + 1]) : s[i + 1][j] = Row(RowStart[a + i] + j - 1)
    <3>1. a + (i + 1) = a + i + 1 /\ a + (i + 1) - 1 = a + i
      BY <2>1, NAssumption
    <3> QED BY <1>7, <2>1, <3>1
  <2> DEFINE l == Len(f[i])
             m == Len(s[i + 1])
  <2>5. /\ RowStart[a] \in Nat /\ RowStart[a + i] \in Nat /\ RowStart[a + i + 1] \in Nat
        /\ l \in Nat /\ m \in Nat
    <3>1. a + i + 1 = a + (i + 1)
      BY <2>1, NAssumption
    <3>2. RowStart[a] \in Nat /\ RowStart[a + i] \in Nat /\ RowStart[a + i + 1] \in Nat
      BY <1>6, <2>1, <3>1, RowStartNat
    <3>3. l \in Nat
      BY <2>2
    <3>4. m \in Nat
      BY <2>4
    <3> QED BY ONLY <3>2, <3>3, <3>4 DEF l, m
  <2>6. /\ f[i + 1] \in Seq(S) /\ Len(f[i + 1]) = l + m
        /\ \A j \in 1..l : f[i + 1][j] = f[i][j]
        /\ \A j \in 1..m : f[i + 1][l + j] = s[i + 1][j]
    <3> DEFINE u == f[i]
               t == s[i + 1]
    <3>1. u \in Seq(S) /\ t \in Seq(S) /\ f[i + 1] = u \o t
      BY <2>2, <2>3, <2>4
    <3> HIDE DEF S, u, t
    <3>2. /\ u \o t \in Seq(S) /\ Len(u \o t) = Len(u) + Len(t)
          /\ \A j \in 1..Len(u) : (u \o t)[j] = u[j]
          /\ \A j \in 1..Len(t) : (u \o t)[Len(u) + j] = t[j]
      BY <3>1
    <3> QED BY <3>1, <3>2 DEF u, t
  <2>7. l = RowStart[a + i] - RowStart[a] /\ m = RowStart[a + i + 1] - RowStart[a + i]
    <3>1. l = RowStart[a + i] - RowStart[a]
      BY ONLY <2>2
    <3>2. m = RowStart[a + i + 1] - RowStart[a + i]
      BY ONLY <2>4
    <3> QED BY ONLY <3>1, <3>2
  <2> HIDE DEF l, m
  <2>8. l + m = RowStart[a + i + 1] - RowStart[a]
    BY ONLY <2>5, <2>7
  <2>9. ASSUME NEW j \in 1..(l + m) PROVE f[i + 1][j] = Row(RowStart[a] + j - 1)
    <3>1. CASE j <= l
      BY <2>2, <2>5, <2>6, <3>1 DEF l
    <3>2. CASE ~(j <= l)
      <4>1. j - l \in 1..m /\ l + (j - l) = j
        BY <2>5, <3>2
      <4>2. RowStart[a + i] + (j - l) - 1 = RowStart[a] + j - 1
        BY <2>5, <2>7, <4>1
      <4>3. f[i + 1][j] = s[i + 1][j - l]
        BY <2>6, <4>1
      <4>4. s[i + 1][j - l] = Row(RowStart[a + i] + (j - l) - 1)
        BY <2>4, <4>1 DEF m
      <4> QED BY <4>2, <4>3, <4>4
    <3> QED BY <3>1, <3>2
  <2>10. a + i + 1 = a + (i + 1)
    BY <2>1, NAssumption
  <2> QED BY <2>6, <2>8, <2>9, <2>10
<1> HIDE DEF K
<1>10. Nat \subseteq K
  BY <1>8, <1>9, T!NatIsLeast
<1>11. n - 1 \in K /\ (n - 1) + 1 = n
  BY <1>1, <1>10
<1>12. Good_(n)
  BY <1>1, <1>11 DEF K
<1>13. a + n = b
  BY NAssumption DEF n
<1> QED BY <1>4, <1>5, <1>12, <1>13 DEF vs

\* The block has its rows from Base on, and the enrollment hashed Row(r) at r.
LEMMA EnrolledIs ==
  /\ NRows \in Nat /\ Base \in Nat /\ RowStart[N] = Base + NRows
  /\ Block = Base..(Base + NRows - 1)
  /\ \A r \in Block : EnrolledRow(r) = [at |-> r, data |-> Row(r), pad |-> <<"commitment", r>>]
<1>1. /\ RowStart[N] \in Nat /\ Base <= RowStart[N] /\ RowStart[0] = Base /\ Base \in Nat
      /\ 0 \in 0..N /\ N \in 0..N
  BY RowStartNat, RowStartIs, NAssumption, ChunkAssumption
<1>2. NRows \in Nat /\ RowStart[N] = Base + NRows
  BY <1>1 DEF NRows
<1>3. Block = Base..(Base + NRows - 1)
  <2>1. RowStart[N] - 1 = Base + NRows - 1
    BY <1>1, <1>2
  <2> QED BY <2>1 DEF Block
<1>4. ASSUME NEW r \in Block PROVE Packed(Interval(0, N))[r - Base + 1] = Row(r)
  <2>1. r \in Nat /\ Base <= r /\ r < RowStart[N]
    BY <1>1, <1>2, <1>3, <1>4
  <2>2. N # 0
    BY <1>1, <2>1
  <2>3. 0 < N
    BY <2>2, NAssumption
  <2> DEFINE k == r - Base + 1
  <2>4. k \in 1..(RowStart[N] - RowStart[0]) /\ RowStart[0] + k - 1 = r
    BY <1>1, <2>1
  <2> HIDE DEF k
  <2>5. Packed(Interval(0, N))[k] = Row(RowStart[0] + k - 1)
    BY <1>1, <2>3, <2>4, PackedIs
  <2> QED BY <2>4, <2>5 DEF k
<1> QED BY <1>1, <1>2, <1>3, <1>4 DEF EnrolledRow

\* The next chunk of a pass over the variables a..b-1: the rows from where the
\* pass stands, as enrolled, at least one and at most what the pass has left.
ChunkSize(a, b) ==
  IF ChunkRows < RowStart[b] - RowStart[a] - row THEN ChunkRows ELSE RowStart[b] - RowStart[a] - row

\* A chunk of a pass is that many of its rows, each as enrolled.
LEMMA ChunkIs ==
  ASSUME NEW a \in 0..N, NEW b \in 0..N, a < b, queue = <<Interval(a, b)>>,
         row \in 0..(RowStart[b] - RowStart[a] - 1)
  PROVE  /\ ChunkSize(a, b) \in Nat \ {0} /\ row + ChunkSize(a, b) <= RowStart[b] - RowStart[a]
         /\ Len(NextChunk) = ChunkSize(a, b)
         /\ NextChunk = [k \in 1..ChunkSize(a, b) |-> EnrolledRow(RowStart[a] + row + k - 1)]
         /\ Len(Packed(Head(queue))) = RowStart[b] - RowStart[a]
<1> DEFINE vs == Interval(a, b)
           l == RowStart[b] - RowStart[a]
           n == ChunkSize(a, b)
<1>1. /\ RowStart[a] \in Nat /\ RowStart[b] \in Nat /\ Base \in Nat /\ ChunkRows \in Nat \ {0}
      /\ RowStart[b] <= RowStart[N] /\ Base <= RowStart[a] /\ RowStart[N] \in Nat
  BY RowStartNat, RowsAscend, ChunkAssumption, NAssumption
<1>2. l \in Int /\ row \in Nat /\ row < l
  BY <1>1
<1>3. n = IF ChunkRows < l - row THEN ChunkRows ELSE l - row
  BY DEF ChunkSize
<1>4. Len(Packed(vs)) = l /\ \A k \in 1..l : Packed(vs)[k] = Row(RowStart[a] + k - 1)
  BY PackedIs
<1>5. vs[1] = a /\ Head(queue) = vs
  BY NAssumption DEF Interval
<1> HIDE DEF vs, l, n
<1>6. n \in Nat \ {0} /\ row + n <= l
  BY <1>1, <1>2, <1>3
<1>7. Min({ChunkRows, l - row}) = n
  BY <1>1, <1>2, <1>3 DEF Min
<1>8. Start(vs) = RowStart[a]
  BY <1>5 DEF Start
<1>9. ASSUME NEW k \in 1..n
      PROVE  [at |-> Start(vs) + row + k - 1, data |-> Packed(vs)[row + k],
              pad |-> [Pad(Start(vs)) EXCEPT ![2] = @ + row + k - 1]]
             = EnrolledRow(RowStart[a] + row + k - 1)
  <2> DEFINE r == RowStart[a] + row + k - 1
  <2>1. row + k \in 1..l /\ RowStart[a] + (row + k) - 1 = r
    BY <1>1, <1>2, <1>6
  <2>2. r \in Nat /\ Base <= r /\ r < RowStart[N]
    BY <1>1, <1>2, <1>6 DEF l
  <2>3. r \in Block
    BY <1>1, <2>2 DEF Block
  <2>4. Packed(vs)[row + k] = Row(r)
    BY <1>4, <2>1
  <2>5. [Pad(RowStart[a]) EXCEPT ![2] = @ + row + k - 1] = <<"commitment", r>>
    BY <1>1, <1>2 DEF Pad
  <2> HIDE DEF r
  <2>6. EnrolledRow(r) = [at |-> r, data |-> Row(r), pad |-> <<"commitment", r>>]
    BY <2>3, EnrolledIs
  <2> QED BY <1>8, <2>4, <2>5, <2>6 DEF r
<1>10. NextChunk = [k \in 1..n |->
          [at |-> Start(vs) + row + k - 1, data |-> Packed(vs)[row + k],
           pad |-> [Pad(Start(vs)) EXCEPT ![2] = @ + row + k - 1]]]
  BY <1>4, <1>5, <1>7 DEF NextChunk
<1>11. NextChunk = [k \in 1..n |-> EnrolledRow(RowStart[a] + row + k - 1)]
  BY <1>9, <1>10
<1>12. Len(NextChunk) = n
  BY <1>6, <1>11
<1> QED BY <1>4, <1>5, <1>6, <1>11, <1>12 DEF n, l

\* An interval in order is the interval.
LEMMA AscendingInterval ==
  ASSUME NEW a \in Nat, NEW b \in Nat
  PROVE  Ascending(a..(b - 1)) = Interval(a, b)
<1> DEFINE S == a..(b - 1)
<1>1. IsFiniteSet(S) /\ Cardinality(S) = IF a > b - 1 THEN 0 ELSE b - 1 - a + 1
  BY FS_Interval
<1>2. 1..Cardinality(S) = 1..(b - a)
  BY <1>1
<1>3. ASSUME NEW k \in 1..(b - a)
      PROVE  (CHOOSE v \in S : Cardinality({u \in S : u < v}) = k - 1) = a + k - 1
  <2>1. ASSUME NEW v \in S PROVE Cardinality({u \in S : u < v}) = v - a
    <3>1. {u \in S : u < v} = a..(v - 1)
      OBVIOUS
    <3>2. Cardinality(a..(v - 1)) = IF a > v - 1 THEN 0 ELSE v - 1 - a + 1
      BY FS_Interval
    <3>3. v \in Nat /\ a <= v
      OBVIOUS
    <3>4. (IF a > v - 1 THEN 0 ELSE v - 1 - a + 1) = v - a
      BY <3>3
    <3> QED BY <3>1, <3>2, <3>4
  <2>2. a + k - 1 \in S
    OBVIOUS
  <2>3. \A v \in S : v - a = k - 1 <=> v = a + k - 1
    OBVIOUS
  <2> HIDE DEF S
  <2> QED BY <2>1, <2>2, <2>3
<1> QED BY <1>2, <1>3 DEF Ascending, Interval

\* Consecutive variables make one run of rows.
LEMMA OneRowRun ==
  ASSUME NEW a \in 0..N, NEW b \in 0..N
  PROVE  RowRuns(Interval(a, b)) = IF a < b THEN <<Interval(a, b)>> ELSE << >>
<1> DEFINE vs == Interval(a, b)
           Follows(i) == RowStart[vs[i]] = RowStart[vs[i - 1]] + RowsOf[vs[i - 1]]
           heads == {i \in 1..Len(vs) : i = 1 \/ ~Follows(i)}
           order == Ascending(heads)
           End(h) == IF h = Len(order) THEN Len(vs) ELSE order[h + 1] - 1
<1>1. RowRuns(vs) = [h \in 1..Len(order) |-> SubSeq(vs, order[h], End(h))]
  BY DEF RowRuns
<1>2. /\ Len(vs) = IF a < b THEN b - a ELSE 0
      /\ \A i \in 1..(b - a) : vs[i] = a + i - 1
      /\ vs \in Seq(Nat)
  <2>1. Interval(a, b) = [i \in 1..(b - a) |-> a + i - 1]
    BY DEF Interval
  <2>2. \A i \in 1..(b - a) : a + i - 1 \in Nat
    BY NAssumption
  <2>3. CASE a < b
    <3>1. b - a \in Nat
      BY <2>3, NAssumption
    <3> QED BY <2>1, <2>2, <2>3, <3>1
  <2>4. CASE ~(a < b)
    <3>1. 1..(b - a) = {}
      BY <2>4, NAssumption
    <3>2. vs = << >>
      BY <2>1, <3>1
    <3> QED BY <2>4, <3>1, <3>2
  <2> QED BY <2>3, <2>4
<1> HIDE DEF vs
<1>3. ASSUME NEW i \in 1..(b - a), i # 1 PROVE Follows(i)
  <2>1. /\ i - 1 \in 1..(b - a) /\ a + i - 2 \in 0..(N - 1)
        /\ vs[i] = (a + i - 2) + 1 /\ vs[i - 1] = a + i - 2
    BY <1>2, <1>3, NAssumption
  <2> QED BY <2>1, RowsFollow
<1> HIDE DEF Follows
<1>4. CASE a < b
  <2>1. 1 \in 1..Len(vs) /\ Len(vs) = b - a /\ Len(vs) \in Nat
    BY <1>2, <1>4, NAssumption
  <2>2. heads = 1..(2 - 1)
    BY <1>3, <2>1
  <2>3. order = Interval(1, 2)
    BY <2>2, AscendingInterval
  <2>4. order = <<1>>
    BY <2>3 DEF Interval
  <2> HIDE DEF order
  <2>5. Len(order) = 1 /\ order[1] = 1 /\ End(1) = Len(vs)
    BY <2>4
  <2>6. SubSeq(vs, 1, Len(vs)) = vs
    BY <1>2, <2>1
  <2>7. RowRuns(vs) = <<vs>>
    BY <1>1, <2>5, <2>6
  <2> QED BY <1>4, <2>7 DEF vs
<1>5. CASE ~(a < b)
  <2>1. Len(vs) = 0
    BY <1>2, <1>5
  <2>2. heads = 1..(1 - 1)
    BY <2>1
  <2>3. order = Interval(1, 1)
    BY <2>2, AscendingInterval
  <2>4. order = << >>
    BY <2>3 DEF Interval
  <2> HIDE DEF order
  <2>5. Len(order) = 0
    BY <2>4
  <2>6. RowRuns(vs) = << >>
    BY <1>1, <2>5
  <2> QED BY <1>5, <2>6 DEF vs
<1> QED BY <1>4, <1>5

\* Bags of different terms add up to the bag of all of them.
LEMMA BagsTogether ==
  ASSUME NEW S, NEW U, S \cap U = {}
  PROVE  SetToBag(S) (+) SetToBag(U) = SetToBag(S \cup U)
BY DEF SetToBag, (+)

-------------------------------------------------------------------------------
(* The rows streamed so far. *)

\* The rows of a set of variables.
RowsIn(S) == {r \in Block : VarOf(r) \in S}

\* The variables of the claims the sweep has come to, and those of the runs in S.
Claimed(c) ==
  {v \in 0..(N - 1) : \E d \in 1..c : Claims[d][1] <= v /\ v < Claims[d][2]}
Ran(S) == {v \in 0..(N - 1) : \E i \in S : Lo(Run(i)) <= v /\ v < Hi(Run(i))}

\* The variables whose passes the stage has started, the rows the pass at hand
\* has still to stream, and the rows streamed so far.
Taken ==
  IF pc = "sweep" THEN Owned(stage) \cap Claimed(claim)
  ELSE Owned(stage) \cup Ran(Workers(stage) \ left)
PendingOf(passes, done) ==
  IF passes = << >> THEN {}
  ELSE LET first == Head(passes)[1]
           past == first + Len(Head(passes))
       IN {r \in Block : RowStart[first] + done <= r /\ r < RowStart[past]}
Pending == PendingOf(queue, row)
Streamed == RowsIn(Taken) \ Pending

\* A pass is over consecutive variables, and there is at most one at a time.
OnePass(a, b) ==
  /\ a < b /\ queue = <<Interval(a, b)>>
  /\ row \in 0..(RowStart[b] - RowStart[a] - 1)
  /\ a..(b - 1) \subseteq Taken
InOnePass == (queue = << >> /\ row = 0) \/ \E a, b \in 0..N : OnePass(a, b)

Enrolled(S) == {EnrolledRow(r) : r \in S}
Folded(S) == SetToBag(Enrolled(S))

\* The rows of consecutive variables are consecutive.
LEMMA RowsInInterval ==
  ASSUME NEW a \in 0..N, NEW b \in 0..N, a < b
  PROVE  RowsIn(a..(b - 1)) = RowStart[a]..(RowStart[b] - 1)
<1>1. /\ RowStart[a] \in Nat /\ RowStart[b] \in Nat /\ RowStart[N] \in Nat /\ Base \in Nat
      /\ Base <= RowStart[a] /\ RowStart[b] <= RowStart[N]
  BY RowStartNat, RowsAscend, ChunkAssumption, NAssumption
<1>2. ASSUME NEW r \in Block
      PROVE  VarOf(r) \in a..(b - 1) <=> RowStart[a] <= r /\ r < RowStart[b]
  <2> DEFINE v == VarOf(r)
  <2>1. r \in Nat /\ v \in 0..(N - 1) /\ RowStart[v] <= r /\ r < RowStart[v + 1]
    BY EachRowHasOne
  <2>7. VarOf(r) = v
    OBVIOUS
  <2> HIDE DEF v
  <2>2. v \in 0..N /\ v + 1 \in 0..N /\ RowStart[v] \in Nat /\ RowStart[v + 1] \in Nat
    BY <2>1, RowsFollow, RowStartNat
  <2>3. /\ a <= v => RowStart[a] <= RowStart[v]
        /\ v + 1 <= b => RowStart[v + 1] <= RowStart[b]
        /\ v + 1 <= a => RowStart[v + 1] <= RowStart[a]
        /\ b <= v => RowStart[b] <= RowStart[v]
    BY <2>2, RowsAscend
  <2>4. CASE v \in a..(b - 1)
    BY <1>1, <2>1, <2>2, <2>3, <2>4, <2>7
  <2>5. CASE v < a
    BY <1>1, <2>1, <2>2, <2>3, <2>5, <2>7
  <2>6. CASE b <= v
    BY <1>1, <2>1, <2>2, <2>3, <2>6, <2>7
  <2> QED BY <2>1, <2>4, <2>5, <2>6
<1>3. \A r : r \in Block <=> r \in Nat /\ Base <= r /\ r < RowStart[N]
  BY <1>1 DEF Block
<1>4. \A r \in RowStart[a]..(RowStart[b] - 1) :
         r \in Block /\ RowStart[a] <= r /\ r < RowStart[b]
  BY <1>1, <1>3
<1>5. \A r \in Block : RowStart[a] <= r /\ r < RowStart[b] => r \in RowStart[a]..(RowStart[b] - 1)
  BY <1>1, <1>3
<1> QED BY <1>2, <1>4, <1>5 DEF RowsIn

\* What a pass has still to stream runs from where it stands to its end.
LEMMA PendingIs ==
  ASSUME NEW a \in 0..N, NEW b \in 0..N, a < b, NEW done \in Nat
  PROVE  PendingOf(<<Interval(a, b)>>, done) = (RowStart[a] + done)..(RowStart[b] - 1)
<1>1. /\ RowStart[a] \in Nat /\ RowStart[b] \in Nat /\ RowStart[N] \in Nat /\ Base \in Nat
      /\ Base <= RowStart[a] /\ RowStart[b] <= RowStart[N]
  BY RowStartNat, RowsAscend, ChunkAssumption, NAssumption
<1>2. <<Interval(a, b)>> # << >> /\ Head(<<Interval(a, b)>>) = Interval(a, b)
  OBVIOUS
<1>3. Interval(a, b)[1] = a /\ Len(Interval(a, b)) = b - a /\ a + (b - a) = b
  <2>1. b - a \in Nat \ {0}
    BY NAssumption
  <2> QED BY <2>1, NAssumption DEF Interval
<1>4. PendingOf(<<Interval(a, b)>>, done)
        = {r \in Block : RowStart[a] + done <= r /\ r < RowStart[b]}
  BY <1>2, <1>3 DEF PendingOf
<1>5. \A r : r \in Block <=> r \in Nat /\ Base <= r /\ r < RowStart[N]
  BY <1>1 DEF Block
<1>6. ASSUME NEW r
      PROVE  (r \in Block /\ RowStart[a] + done <= r /\ r < RowStart[b])
               <=> r \in (RowStart[a] + done)..(RowStart[b] - 1)
  BY <1>1, <1>5
<1> QED BY <1>4, <1>6

\* The next chunk streams rows of the pass that were not streamed before, and
\* leaves the pass with the others, or ends it.
ChunkRowsOf(a, b) == (RowStart[a] + row)..(RowStart[a] + row + ChunkSize(a, b) - 1)

\* After a chunk exactly its rows have been streamed besides those before.
LEMMA ChunkMoves ==
  ASSUME NEW a \in 0..N, NEW b \in 0..N, OnePass(a, b), Advance(ChunkSize(a, b)),
         Taken' = Taken
  PROVE  /\ InOnePass'
         /\ Streamed' = Streamed \cup ChunkRowsOf(a, b)
         /\ Streamed \cap ChunkRowsOf(a, b) = {}
         /\ ChunkRowsOf(a, b) \subseteq Block
<1> DEFINE n == ChunkSize(a, b)
           C == ChunkRowsOf(a, b)
           l == RowStart[b] - RowStart[a]
<1>1. /\ RowStart[a] \in Nat /\ RowStart[b] \in Nat /\ a < b /\ queue = <<Interval(a, b)>>
      /\ row \in 0..(l - 1) /\ row \in Nat
  BY RowStartNat DEF OnePass
<1>2. n \in Nat \ {0} /\ row + n <= l /\ Len(Packed(Head(queue))) = l
  BY <1>1, ChunkIs
<1>3. Pending = (RowStart[a] + row)..(RowStart[b] - 1)
  BY <1>1, PendingIs DEF Pending
<1>4. RowsIn(a..(b - 1)) = RowStart[a]..(RowStart[b] - 1)
  BY <1>1, RowsInInterval
<1>5. RowsIn(a..(b - 1)) \subseteq RowsIn(Taken) /\ RowsIn(Taken) \subseteq Block
  BY DEF RowsIn, OnePass
<1>6. RowsIn(Taken)' = RowsIn(Taken)
  BY DEF RowsIn
<1> DEFINE from == RowStart[a]
           past == RowStart[b]
<1>7. from \in Nat /\ past \in Nat /\ l = past - from /\ C = (from + row)..(from + row + n - 1)
  BY <1>1 DEF ChunkRowsOf
<1> HIDE DEF from, past, n, C
<1>8. C \subseteq from..(past - 1) /\ C \subseteq (from + row)..(past - 1)
  BY <1>1, <1>2, <1>7
<1>9. InOnePass' /\ Pending' = Pending \ C
  <2>1. CASE row + n < l
    <3>1. row' = row + n /\ queue' = queue
      BY <1>2, <2>1 DEF Advance, n
    <3>2. row' \in Nat /\ row' \in 0..(l - 1) /\ queue' = <<Interval(a, b)>>
      BY <1>1, <1>2, <1>7, <2>1, <3>1
    <3>3. Pending' = (RowStart[a] + row')..(RowStart[b] - 1)
      BY <1>1, <3>2, PendingIs DEF Pending
    <3>4. (from + row')..(past - 1) = ((from + row)..(past - 1)) \ C
      BY <1>1, <1>2, <1>7, <3>1
    <3>5. OnePass(a, b)'
      BY <1>1, <3>2 DEF OnePass
    <3> QED BY <1>3, <3>3, <3>4, <3>5 DEF InOnePass, from, past
  <2>2. CASE ~(row + n < l)
    <3>1. row' = 0 /\ queue' = << >>
      BY <1>1, <1>2, <2>2 DEF Advance, n
    <3>2. row + n = l
      BY <1>1, <1>2, <1>7, <2>2
    <3>3. C = (from + row)..(past - 1)
      BY <1>1, <1>2, <1>7, <3>2
    <3> QED BY <1>3, <3>1, <3>3 DEF InOnePass, Pending, PendingOf, from, past
  <2> QED BY <2>1, <2>2
<1>10. C \subseteq Pending /\ C \subseteq RowsIn(Taken)
  BY <1>3, <1>4, <1>5, <1>8 DEF from, past
<1> QED BY <1>5, <1>6, <1>9, <1>10 DEF Streamed, C

\* What it carries are those rows as enrolled.
LEMMA ChunkTerms ==
  ASSUME NEW a \in 0..N, NEW b \in 0..N, OnePass(a, b)
  PROVE  /\ Terms(NextChunk) = Folded(ChunkRowsOf(a, b))
         /\ Len(NextChunk) = ChunkSize(a, b)
<1> DEFINE n == ChunkSize(a, b)
           c == RowStart[a] + row
<1>1. RowStart[a] \in Nat /\ a < b /\ queue = <<Interval(a, b)>> /\ row \in 0..(RowStart[b] - RowStart[a] - 1)
  BY RowStartNat DEF OnePass
<1>2. /\ n \in Nat \ {0} /\ Len(NextChunk) = n
      /\ NextChunk = [k \in 1..n |-> EnrolledRow(RowStart[a] + row + k - 1)]
  BY <1>1, ChunkIs
<1>3. c \in Nat /\ ChunkRowsOf(a, b) = c..(c + n - 1)
  BY <1>1 DEF ChunkRowsOf
<1> HIDE DEF n
<1>4. {NextChunk[k] : k \in DOMAIN NextChunk} = Enrolled(c..(c + n - 1))
  <2>1. \A k \in 1..n : c + k - 1 \in c..(c + n - 1) /\ NextChunk[k] = EnrolledRow(c + k - 1)
    BY <1>2, <1>3
  <2>2. \A r \in c..(c + n - 1) : (r - c + 1) \in 1..n /\ c + (r - c + 1) - 1 = r
    BY <1>2, <1>3
  <2>3. DOMAIN NextChunk = 1..n
    BY <1>2
  <2> HIDE DEF c
  <2>4. \A r \in c..(c + n - 1) : \E k \in 1..n : NextChunk[k] = EnrolledRow(r)
    BY <2>1, <2>2
  <2> QED BY <2>1, <2>3, <2>4 DEF Enrolled
<1> QED BY <1>2, <1>3, <1>4 DEF Terms, Folded, n

\* Sums over different rows add up to the sum over all of them.
LEMMA FoldedTogether ==
  ASSUME NEW S, NEW U, S \subseteq Block, U \subseteq Block, S \cap U = {}
  PROVE  Folded(S) (+) Folded(U) = Folded(S \cup U)
<1>1. ASSUME NEW r \in Block, NEW q \in Block, EnrolledRow(r) = EnrolledRow(q) PROVE r = q
  <2>1. EnrolledRow(r).at = r /\ EnrolledRow(q).at = q
    BY DEF EnrolledRow
  <2> QED BY <1>1, <2>1
<1>2. Enrolled(S) \cap Enrolled(U) = {}
  BY <1>1 DEF Enrolled
<1>3. Enrolled(S) \cup Enrolled(U) = Enrolled(S \cup U)
  BY DEF Enrolled
<1> QED BY <1>2, <1>3, BagsTogether DEF Folded

\* A pass over variables not taken before streams nothing yet.
LEMMA PassStarts ==
  ASSUME NEW a \in 0..N, NEW b \in 0..N, queue = << >>, row = 0, row' = 0,
         queue' = IF a < b THEN <<Interval(a, b)>> ELSE << >>,
         Taken' = Taken \cup a..(b - 1), Taken \cap a..(b - 1) = {}
  PROVE  InOnePass' /\ Streamed' = Streamed
<1>1. RowStart[a] \in Nat /\ RowStart[b] \in Nat
  BY RowStartNat
<1>2. Pending = {}
  BY DEF Pending, PendingOf
<1>3. CASE a < b
  <2>1. queue' = <<Interval(a, b)>> /\ row' \in Nat
    BY <1>3
  <2>2. Pending' = (RowStart[a] + row')..(RowStart[b] - 1)
    BY <1>3, <2>1, PendingIs DEF Pending
  <2>3. Pending' = RowsIn(a..(b - 1))
    BY <1>1, <1>3, <2>2, RowsInInterval
  <2>4. RowsIn(Taken') = RowsIn(Taken) \cup RowsIn(a..(b - 1)) /\ RowsIn(Taken) \cap RowsIn(a..(b - 1)) = {}
    BY DEF RowsIn
  <2>5. Streamed' = RowsIn(Taken') \ Pending'
    BY DEF Streamed, RowsIn
  <2>6. RowStart[a] < RowStart[b]
    <3>1. a \in 0..(N - 1) /\ a + 1 <= b /\ a + 1 \in 0..N
      BY <1>3, NAssumption
    <3>2. RowStart[a + 1] = RowStart[a] + RowsOf[a] /\ RowsOf[a] \in Nat \ {0} /\ RowStart[a + 1] <= RowStart[b]
      BY <3>1, RowsFollow, RowsAscend
    <3> QED BY <1>1, <3>2
  <2>7. OnePass(a, b)'
    BY <1>1, <1>3, <2>1, <2>6 DEF OnePass
  <2> QED BY <1>2, <2>3, <2>4, <2>5, <2>7 DEF Streamed, InOnePass
<1>4. CASE ~(a < b)
  <2>1. a..(b - 1) = {}
    BY <1>4, NAssumption
  <2>2. Taken' = Taken /\ queue' = << >>
    BY <1>4, <2>1
  <2> QED BY <1>2, <2>2 DEF Streamed, RowsIn, Pending, PendingOf, InOnePass
<1> QED BY <1>3, <1>4

-------------------------------------------------------------------------------
(* How the steps of the execution move them. *)

Executing == pc \in {"sweep", "workers", "worker", "done"}

\* Before the prover has a plan, or when it gets none.
AtDesk == {"desk", "unavailable", "planned"}

\* Where the execution is: nothing is under way before it, at most one pass in
\* it, and a stage ends with its runs worked off.
Where ==
  /\ Executing \/ pc \in {"shape", "scan", "devices", "refused"} \cup AtDesk
  /\ pc = "devices" => stage = "fold"
  /\ ~Executing => /\ claim = 0 /\ queue = << >> /\ row = 0
                   /\ sum = EmptyBag /\ sink = EmptySink
  /\ Executing => claim \in 0..Len(Claims) /\ InOnePass
  /\ pc \in {"workers", "worker"} => left \subseteq Workers(stage)
  /\ pc \in {"workers", "done"} => queue = << >>
  /\ pc = "done" => stage = "open" /\ left = {}

\* Each weight variable is one claim's.
LEMMA OneClaim ==
  ASSUME NEW v \in 0..(N - 1)
  PROVE  \E c \in DOMAIN Claims : \A d \in DOMAIN Claims :
           (Claims[d][1] <= v /\ v < Claims[d][2]) <=> d = c
<1> DEFINE S == {c \in DOMAIN Claims : Claims[c][1] <= v /\ v < Claims[c][2]}
<1>1. Cardinality(S) = 1
  BY ClaimsAssumption
<1>2. IsFiniteSet(S)
  <2>1. Len(Claims) \in Nat /\ DOMAIN Claims = 1..Len(Claims)
    BY ClaimsAssumption
  <2>2. IsFiniteSet(1..Len(Claims))
    BY <2>1, FS_Interval
  <2> QED BY <2>1, <2>2, FS_Subset
<1>3. PICK c : S = {c}
  BY <1>1, <1>2, FS_Singleton
<1> QED BY <1>3

\* The coordinator's own variables are consecutive: it has at most one run.
LEMMA OwnedInterval ==
  ASSUME IInv, Accepted
  PROVE  \E lo, hi \in 0..N : Owned(stage) = lo..(hi - 1)
<1>1. plan[stage] \in Seq(Runs) /\ WellShaped(plan[stage])
  BY StageRuns DEF IInv, Good, Stages
<1>2. CASE \E i \in DOMAIN plan[stage] : Dev(plan[stage][i]) = 0
  <2>1. PICK i \in DOMAIN plan[stage] : Dev(plan[stage][i]) = 0
    BY <1>2
  <2>2. \A j \in DOMAIN plan[stage] : Dev(plan[stage][j]) = 0 <=> j = i
    BY <1>1, <2>1 DEF WellShaped
  <2>3. Lo(plan[stage][i]) \in 0..N /\ Hi(plan[stage][i]) \in 0..N
    BY <1>1, RunBounds
  <2> DEFINE lo == Lo(plan[stage][i])
             hi == Hi(plan[stage][i])
  <2>4. Owned(stage) = {v \in 0..(N - 1) : lo <= v /\ v < hi}
    BY <2>2 DEF Owned
  <2> HIDE DEF lo, hi
  <2>5. lo \in 0..N /\ hi \in 0..N
    BY <2>3 DEF lo, hi
  <2>6. \A v : (v \in 0..(N - 1) /\ lo <= v /\ v < hi) <=> v \in lo..(hi - 1)
    BY <2>5, NAssumption
  <2>7. Owned(stage) = lo..(hi - 1)
    BY <2>4, <2>6
  <2> QED BY <2>5, <2>7
<1>3. CASE ~\E i \in DOMAIN plan[stage] : Dev(plan[stage][i]) = 0
  <2>1. Owned(stage) = {}
    BY <1>3 DEF Owned
  <2>2. 0..(0 - 1) = {} /\ 0 \in 0..N
    BY NAssumption
  <2> QED BY <2>1, <2>2
<1> QED BY <1>2, <1>3

\* So are those of a claim that it owns.
LEMMA GroupInterval ==
  ASSUME IInv, Accepted, NEW c \in DOMAIN Claims
  PROVE  \E a, b \in 0..N :
           (Claims[c][1]..(Claims[c][2] - 1)) \cap Owned(stage) = a..(b - 1)
<1>1. PICK lo \in 0..N, hi \in 0..N : Owned(stage) = lo..(hi - 1)
  BY OwnedInterval
<1> DEFINE p == Claims[c][1]
           q == Claims[c][2]
<1>2. p \in Nat /\ q \in Nat
  <2>1. Claims[c] \in Nat \X Nat
    BY ClaimsAssumption
  <2> QED BY <2>1
<1> HIDE DEF p, q
<1> DEFINE a == IF lo < p THEN p ELSE lo
           b == IF q < hi THEN q ELSE hi
<1>3. (p..(q - 1)) \cap (lo..(hi - 1)) = a..(b - 1)
  BY <1>2, NAssumption
<1>4. CASE a < b
  <2>1. a \in 0..N /\ b \in 0..N
    BY <1>2, <1>4, NAssumption
  <2> QED BY <1>1, <1>3, <2>1 DEF p, q
<1>5. CASE ~(a < b)
  <2>1. a..(b - 1) = 0..(0 - 1) /\ 0 \in 0..N
    BY <1>2, <1>5, NAssumption
  <2> QED BY <1>1, <1>3, <2>1 DEF p, q
<1> QED BY <1>4, <1>5

\* The next claim's pass is over variables no earlier claim had.
LEMMA SweepStep ==
  ASSUME IInv, Where, SweepClaim
  PROVE  Where' /\ Streamed' = Streamed
<1>1. /\ pc = "sweep" /\ queue = << >> /\ claim < Len(Claims) /\ claim \in 0..Len(Claims)
      /\ Accepted /\ Len(Claims) \in Nat /\ DOMAIN Claims = 1..Len(Claims)
  BY ClaimsAssumption DEF SweepClaim, Idle, Where, Executing, Accepted
<1>2. claim + 1 \in DOMAIN Claims
  BY <1>1
<1> DEFINE group == Claims[claim + 1][1]..(Claims[claim + 1][2] - 1)
<1>3. PICK a \in 0..N, b \in 0..N : group \cap Owned(stage) = a..(b - 1)
  BY <1>1, <1>2, GroupInterval
<1>4. queue' = IF a < b THEN <<Interval(a, b)>> ELSE << >>
  <2>1. a \in Nat /\ b \in Nat
    BY NAssumption
  <2>2. Ascending(a..(b - 1)) = Interval(a, b)
    BY <2>1, AscendingInterval
  <2> QED BY <1>3, <2>2, OneRowRun DEF SweepClaim
<1>5. row = 0 /\ row' = 0
  BY <1>1 DEF Where, Executing, InOnePass, OnePass, SweepClaim
<1>6. UNCHANGED <<plan, pc, stage, left, pos, row, sum, part, sink>> /\ claim' = claim + 1
  BY DEF SweepClaim
<1>7. Owned(stage)' = Owned(stage)
  BY <1>6 DEF Owned
<1>8. \A d \in DOMAIN Claims : Claims[d][1] \in Nat /\ Claims[d][2] \in Nat
  <2>1. \A d \in DOMAIN Claims : Claims[d] \in Nat \X Nat
    BY ClaimsAssumption
  <2> QED BY <2>1
<1>9. ASSUME NEW v \in 0..(N - 1)
      PROVE  /\ v \in Claimed(claim + 1) <=> (v \in Claimed(claim) \/ v \in group)
             /\ ~(v \in Claimed(claim) /\ v \in group)
  <2>1. v \in group <=> Claims[claim + 1][1] <= v /\ v < Claims[claim + 1][2]
    BY <1>2, <1>8, NAssumption
  <2>2. \A d : d \in 1..(claim + 1) <=> (d \in 1..claim \/ d = claim + 1)
    BY <1>1
  <2>3. \A d \in 1..claim : d \in DOMAIN Claims /\ d # claim + 1
    BY <1>1
  <2>4. PICK c \in DOMAIN Claims : \A d \in DOMAIN Claims :
           (Claims[d][1] <= v /\ v < Claims[d][2]) <=> d = c
    BY OneClaim
  <2> HIDE DEF group
  <2>5. v \in Claimed(claim + 1) <=> (v \in Claimed(claim) \/ v \in group)
    BY <2>1, <2>2 DEF Claimed
  <2>6. ~(v \in Claimed(claim) /\ v \in group)
    BY <1>2, <2>1, <2>3, <2>4 DEF Claimed
  <2> QED BY <2>5, <2>6
<1> HIDE DEF group
<1>10. Owned(stage) \subseteq 0..(N - 1)
  BY DEF Owned
<1>11. Taken = Owned(stage) \cap Claimed(claim) /\ Taken' = Owned(stage) \cap Claimed(claim + 1)
  BY <1>1, <1>6, <1>7 DEF Taken, Claimed
<1>12. Taken' = Taken \cup a..(b - 1) /\ Taken \cap a..(b - 1) = {}
  BY <1>3, <1>9, <1>10, <1>11
<1>13. InOnePass' /\ Streamed' = Streamed
  BY <1>1, <1>4, <1>5, <1>12, PassStarts
<1> QED BY <1>1, <1>2, <1>6, <1>13 DEF Where, Executing

\* At the end of the sweep every variable the coordinator owns was taken.
LEMMA EndSweepStep ==
  ASSUME IInv, Where, EndSweep
  PROVE  Where' /\ Streamed' = Streamed
<1>1. /\ pc = "sweep" /\ queue = << >> /\ claim = Len(Claims) /\ pc' = "workers"
      /\ left' = Workers(stage) /\ UNCHANGED <<plan, stage, pos, claim, queue, row, sum, part, sink>>
  BY DEF EndSweep, Idle, work
<1>2. Owned(stage)' = Owned(stage) /\ Workers(stage)' = Workers(stage)
  BY <1>1 DEF Owned, Workers
<1>3. Owned(stage) \subseteq Claimed(claim)
  <2>1. ASSUME NEW v \in 0..(N - 1) PROVE v \in Claimed(claim)
    <3>1. DOMAIN Claims = 1..claim
      BY <1>1, ClaimsAssumption
    <3> QED BY <3>1, OneClaim DEF Claimed
  <2> QED BY <2>1 DEF Owned
<1>4. Taken' = Taken
  BY <1>1, <1>2, <1>3 DEF Taken, Ran
<1>5. Streamed' = Streamed
  BY <1>1, <1>4 DEF Streamed, RowsIn, Pending, PendingOf
<1>6. row = 0 /\ claim \in 0..Len(Claims)
  BY <1>1 DEF Where, Executing, InOnePass, OnePass
<1> QED BY <1>1, <1>2, <1>5, <1>6 DEF Where, Executing, InOnePass

\* A worker's run is of variables no other run of the stage has.
LEMMA StartStep ==
  ASSUME IInv, Where, NEW i \in left, StartWorker(i)
  PROVE  Where' /\ Streamed' = Streamed
<1>1. /\ pc = "workers" /\ pc' = "worker" /\ left' = left \ {i}
      /\ queue' = <<Interval(Lo(Run(i)), Hi(Run(i)))>>
      /\ UNCHANGED <<plan, stage, pos, claim, row, sum, sink>>
  BY DEF StartWorker
<1>2. /\ queue = << >> /\ row = 0 /\ left \subseteq Workers(stage) /\ claim \in 0..Len(Claims)
  BY <1>1 DEF Where, Executing, InOnePass, OnePass
<1>3. plan[stage] \in Seq(Runs) /\ WellShaped(plan[stage]) /\ Tiles(plan[stage])
  BY <1>1, StageRuns DEF IInv, Good, Stages, Accepted
<1>4. i \in DOMAIN plan[stage] /\ Dev(Run(i)) # 0 /\ Lo(Run(i)) < Hi(Run(i))
  <2>1. i \in DOMAIN plan[stage] /\ Dev(Run(i)) # 0 /\ Hi(Run(i)) > Lo(Run(i))
    BY <1>2 DEF Workers, Run
  <2>2. Lo(Run(i)) \in 0..N /\ Hi(Run(i)) \in 0..N
    BY <1>3, <2>1, RunBounds DEF Run
  <2> QED BY <2>1, <2>2
<1> DEFINE a == Lo(Run(i))
           b == Hi(Run(i))
<1>5. a \in 0..N /\ b \in 0..N
  BY <1>3, <1>4, RunBounds DEF Run
<1>6. Owned(stage)' = Owned(stage) /\ Workers(stage)' = Workers(stage) /\ \A j : Run(j)' = Run(j)
  BY <1>1 DEF Owned, Workers, Run
<1>7. Taken' = Owned(stage) \cup Ran((Workers(stage) \ left) \cup {i})
  <2>1. Workers(stage) \ left' = (Workers(stage) \ left) \cup {i}
    BY <1>1, <1>2
  <2> QED BY <1>1, <1>6, <2>1 DEF Taken, Ran
<1>8. Taken = Owned(stage) \cup Ran(Workers(stage) \ left)
  BY <1>1 DEF Taken
<1>9. ASSUME NEW v \in 0..(N - 1)
      PROVE  \A j, k \in DOMAIN plan[stage] :
               Lo(Run(j)) <= v /\ v < Hi(Run(j)) /\ Lo(Run(k)) <= v /\ v < Hi(Run(k)) => j = k
  BY <1>3 DEF Tiles, Owners, Run
<1>10. \A v : v \in a..(b - 1) <=> v \in 0..(N - 1) /\ Lo(Run(i)) <= v /\ v < Hi(Run(i))
  <2>1. a = Lo(Run(i)) /\ b = Hi(Run(i))
    OBVIOUS
  <2> HIDE DEF a, b
  <2>2. \A v : v \in a..(b - 1) <=> v \in 0..(N - 1) /\ a <= v /\ v < b
    BY <1>5, NAssumption
  <2> QED BY <2>1, <2>2
<1> HIDE DEF a, b
<1>11. Taken' = Taken \cup a..(b - 1)
  BY <1>7, <1>8, <1>10 DEF Ran
<1>12. Taken \cap a..(b - 1) = {}
  <2>1. \A j \in Workers(stage) \ left : j \in DOMAIN plan[stage] /\ j # i
    BY DEF Workers
  <2>2. Ran(Workers(stage) \ left) \cap a..(b - 1) = {}
    BY <1>4, <1>9, <1>10, <2>1 DEF Ran
  <2>3. Owned(stage) \cap a..(b - 1) = {}
    BY <1>4, <1>9, <1>10 DEF Owned, Run
  <2> QED BY <1>8, <2>2, <2>3
<1>13. row' = 0 /\ queue' = IF a < b THEN <<Interval(a, b)>> ELSE << >>
  BY <1>1, <1>2, <1>4 DEF a, b
<1>14. InOnePass' /\ Streamed' = Streamed
  BY <1>2, <1>5, <1>11, <1>12, <1>13, PassStarts
<1> QED BY <1>1, <1>2, <1>6, <1>14 DEF Where, Executing

\* A worker that is done leaves the rows streamed as they are.
LEMMA EndWorkerStep ==
  ASSUME IInv, Where, EndWorker
  PROVE  Where' /\ Streamed' = Streamed
<1>1. /\ pc = "worker" /\ pc' = "workers" /\ queue = << >>
      /\ UNCHANGED <<plan, stage, left, pos, claim, queue, row, part, sink>>
  BY DEF EndWorker, Idle
<1>2. Owned(stage)' = Owned(stage) /\ Workers(stage)' = Workers(stage) /\ \A j : Run(j)' = Run(j)
  BY <1>1 DEF Owned, Workers, Run
<1>3. Taken' = Taken
  BY <1>1, <1>2 DEF Taken, Ran
<1>4. Streamed' = Streamed
  BY <1>1, <1>3 DEF Streamed, RowsIn, Pending, PendingOf
<1>5. row = 0 /\ claim \in 0..Len(Claims) /\ left \subseteq Workers(stage)
  BY <1>1 DEF Where, Executing, InOnePass, OnePass
<1> QED BY <1>1, <1>2, <1>4, <1>5 DEF Where, Executing, InOnePass

\* When a stage's runs are worked off, every row of the block was streamed.
LEMMA StageEnds ==
  ASSUME IInv, Where, pc \in {"workers", "done"}, left = {}
  PROVE  Streamed = Block
<1>1. queue = << >> /\ Tiles(plan[stage]) /\ WellShaped(plan[stage]) /\ plan[stage] \in Seq(Runs)
  BY StageRuns DEF Where, IInv, Good, Accepted, Stages
<1>2. ASSUME NEW v \in 0..(N - 1) PROVE v \in Taken
  <2>1. PICK i \in DOMAIN plan[stage] : Owners(plan[stage], v) = {i}
    BY <1>1 DEF Tiles
  <2>2. Lo(Run(i)) <= v /\ v < Hi(Run(i)) /\ Lo(Run(i)) \in 0..N /\ Hi(Run(i)) \in 0..N
    BY <1>1, <2>1, RunBounds DEF Owners, Run
  <2>3. CASE Dev(Run(i)) = 0
    BY <2>2, <2>3 DEF Taken, Owned, Run
  <2>4. CASE Dev(Run(i)) # 0
    <3>1. Hi(Run(i)) > Lo(Run(i))
      BY <2>2, NAssumption
    <3>2. i \in Workers(stage) \ left
      BY <2>4, <3>1 DEF Workers, Run
    <3> QED BY <2>2, <3>2 DEF Taken, Ran
  <2> QED BY <2>3, <2>4
<1>3. RowsIn(Taken) = Block
  BY <1>2, EachRowHasOne DEF RowsIn
<1> QED BY <1>1, <1>3 DEF Streamed, Pending, PendingOf

\* The opening sweep begins when all rows were folded, with none opened.
LEMMA EndFoldStep ==
  ASSUME IInv, Where, EndFold
  PROVE  Where' /\ Streamed = Block /\ Streamed' = {}
<1>1. /\ pc = "workers" /\ left = {} /\ stage = "fold" /\ stage' = "open" /\ pc' = "sweep"
      /\ claim' = 0 /\ UNCHANGED <<plan, left, pos, queue, row, sum, part, sink>>
  BY DEF EndFold
<1>2. queue = << >> /\ row = 0 /\ queue' = << >> /\ row' = 0
  BY <1>1 DEF Where, Executing, InOnePass, OnePass
<1>3. Streamed = Block
  BY <1>1, StageEnds
<1>4. Streamed' = {}
  <2>1. Claimed(0) = {}
    BY DEF Claimed
  <2>2. Taken' = {}
    BY <1>1, <2>1 DEF Taken, Claimed
  <2> QED BY <2>2 DEF Streamed, RowsIn
<1>5. claim' \in 0..Len(Claims)
  BY <1>1, ClaimsAssumption
<1> QED BY <1>1, <1>2, <1>3, <1>4, <1>5 DEF Where, Executing, InOnePass

\* So does the folding sweep, after the validation.
LEMMA BeginStep ==
  ASSUME Where, CheckDevices
  PROVE  /\ Where' /\ UNCHANGED <<stage, sum, sink>> /\ ~Executing /\ stage = "fold"
         /\ Executing' => pc' = "sweep" /\ Streamed' = {}
<1>1. /\ pc = "devices" /\ UNCHANGED <<plan, stage, left, pos, claim, queue, row, sum, part, sink>>
      /\ pc' \in {"sweep", "refused"}
  BY DEF CheckDevices, Refuse, work
<1>2. stage = "fold" /\ claim = 0 /\ queue = << >> /\ row = 0 /\ sum = EmptyBag /\ sink = EmptySink
  BY <1>1 DEF Where, Executing
<1>3. pc' = "sweep" => Streamed' = {}
  <2>1. Claimed(0) = {}
    BY DEF Claimed
  <2>2. pc' = "sweep" => Taken' = {}
    BY <1>1, <1>2, <2>1 DEF Taken, Claimed
  <2> QED BY <2>2 DEF Streamed, RowsIn
<1>4. claim' \in 0..Len(Claims)
  BY <1>1, <1>2, ClaimsAssumption
<1> QED BY <1>1, <1>2, <1>3, <1>4 DEF Where, Executing, InOnePass

\* The validation streams nothing.
LEMMA CheckStep ==
  ASSUME Where, CheckShape \/ EndScan \/ \E i \in left : Scan(i)
  PROVE  Where' /\ ~Executing' /\ ~Executing
<1>1. /\ pc \in {"shape", "scan"} /\ UNCHANGED <<claim, queue, row, sum, part, sink>>
      /\ pc' \in {"shape", "scan", "devices", "refused"} /\ (pc' = "devices" => stage' = "fold")
  BY DEF CheckShape, EndScan, Scan, Refuse, work
<1>2. claim = 0 /\ queue = << >> /\ row = 0 /\ sum = EmptyBag /\ sink = EmptySink
  BY <1>1 DEF Where, Executing
<1> QED BY <1>1, <1>2 DEF Where, Executing, EmptySink

\* A chunk is the next rows of the pass at hand.
LEMMA ChunkStep ==
  ASSUME Where, pc \in {"sweep", "worker"}, queue # << >>,
         UNCHANGED <<plan, pc, stage, left, claim>>
  PROVE  /\ \E a, b \in 0..N : OnePass(a, b)
         /\ Taken' = Taken
         /\ InOnePass' => Where'
<1>1. \E a, b \in 0..N : OnePass(a, b)
  BY DEF Where, Executing, InOnePass
<1>2. Owned(stage)' = Owned(stage) /\ Workers(stage)' = Workers(stage) /\ \A j : Run(j)' = Run(j)
  BY DEF Owned, Workers, Run
<1>3. Taken' = Taken
  BY <1>2 DEF Taken, Ran, Claimed
<1>4. InOnePass' => Where'
  BY <1>2 DEF Where, Executing
<1> QED BY <1>1, <1>3, <1>4

-------------------------------------------------------------------------------
(* The sums and the sink. *)

\* Each row streamed is in the sums once, and no other is.
FoldInv ==
  Executing /\ stage = "fold" =>
    /\ sink = EmptySink
    /\ IF pc = "worker"
       THEN \E S, U \in SUBSET Block : /\ S \cap U = {} /\ S \cup U = Streamed
                                       /\ sum = Folded(S) /\ part = Folded(U)
       ELSE sum = Folded(Streamed)

\* The sink holds each row streamed in its place, and its ranges are those rows.
RangesOf(rs, S) ==
  /\ rs \in Seq(Nat \X Nat)
  /\ \A i \in DOMAIN rs : rs[i][1] < rs[i][2] /\ rs[i][2] <= NRows
  /\ \A i, j \in DOMAIN rs : i # j => rs[i][2] <= rs[j][1] \/ rs[j][2] <= rs[i][1]
  /\ \A k \in 0..(NRows - 1) :
       (Base + k \in S) <=> \E i \in DOMAIN rs : rs[i][1] <= k /\ k < rs[i][2]
SinkOf(snk, S) ==
  /\ snk.rows = [k \in 0..(NRows - 1) |->
                   IF Base + k \in S THEN EnrolledRow(Base + k) ELSE Unwritten]
  /\ snk.filled = Cardinality(S)
  /\ RangesOf(snk.ranges, S)
OpenInv == Executing /\ stage = "open" => sum = Folded(Block) /\ SinkOf(sink, Streamed)

\* What was streamed are rows of the block.
LEMMA StreamedRows == Streamed \subseteq Block
BY DEF Streamed, RowsIn

\* A chunk in the fold stage adds its rows to the sum it belongs to.
LEMMA FoldChunkStep ==
  ASSUME IInv, Where, FoldInv, FoldChunk
  PROVE  Where' /\ FoldInv' /\ OpenInv'
<1>1. /\ pc \in {"sweep", "worker"} /\ queue # << >> /\ stage = "fold" /\ Executing
      /\ UNCHANGED <<plan, pc, stage, left, pos, claim, sink>>
  BY DEF FoldChunk, Idle, Executing
<1>2. PICK a \in 0..N, b \in 0..N : OnePass(a, b)
  BY <1>1, ChunkStep
<1>3. Taken' = Taken /\ (InOnePass' => Where')
  BY <1>1, ChunkStep
<1> DEFINE C == ChunkRowsOf(a, b)
<1>4. Terms(NextChunk) = Folded(C) /\ Len(NextChunk) = ChunkSize(a, b)
  BY <1>2, ChunkTerms
<1>5. Advance(ChunkSize(a, b))
  BY <1>4 DEF FoldChunk
<1>6. InOnePass' /\ Streamed' = Streamed \cup C /\ Streamed \cap C = {} /\ C \subseteq Block
  BY <1>2, <1>3, <1>5, ChunkMoves
<1> HIDE DEF C
<1>7. CASE pc = "sweep"
  <2>1. sum = Folded(Streamed) /\ sum' = sum (+) Folded(C) /\ pc' = "sweep" /\ sink = EmptySink
    BY <1>1, <1>4, <1>7 DEF FoldInv, FoldChunk
  <2>2. sum' = Folded(Streamed')
    BY <1>6, <2>1, FoldedTogether, StreamedRows
  <2>3. FoldInv' /\ OpenInv'
    BY <1>1, <2>1, <2>2 DEF FoldInv, OpenInv, EmptySink
  <2> QED BY <1>3, <1>6, <2>3
<1>8. CASE pc = "worker"
  <2>1. PICK S \in SUBSET Block, U \in SUBSET Block :
          S \cap U = {} /\ S \cup U = Streamed /\ sum = Folded(S) /\ part = Folded(U)
    BY <1>1, <1>8 DEF FoldInv
  <2>2. part' = part (+) Folded(C) /\ sum' = sum /\ pc' = "worker" /\ sink = EmptySink
    BY <1>1, <1>4, <1>8 DEF FoldInv, FoldChunk
  <2>3. U \cap C = {} /\ S \cap (U \cup C) = {} /\ S \cup (U \cup C) = Streamed' /\ U \cup C \in SUBSET Block
    BY <1>6, <2>1
  <2>4. part' = Folded(U \cup C)
    BY <1>6, <2>1, <2>2, <2>3, FoldedTogether
  <2>5. \E S1, U1 \in SUBSET Block : /\ S1 \cap U1 = {} /\ S1 \cup U1 = Streamed'
                                     /\ sum' = Folded(S1) /\ part' = Folded(U1)
    BY <2>1, <2>2, <2>3, <2>4
  <2>6. FoldInv' /\ OpenInv'
    BY <1>1, <2>2, <2>5 DEF FoldInv, OpenInv, EmptySink, Folded, Enrolled, EnrolledRow, Block
  <2> QED BY <1>3, <1>6, <2>6
<1> QED BY <1>1, <1>7, <1>8

\* A written range goes with the rows it holds.
LEMMA RangeAppended ==
  ASSUME NEW rs, NEW S, S \subseteq Block, RangesOf(rs, S),
         NEW lo \in Nat, NEW hi \in Nat, lo < hi, hi <= NRows,
         NEW C, C = (Base + lo)..(Base + hi - 1), S \cap C = {}
  PROVE  RangesOf(Append(rs, <<lo, hi>>), S \cup C)
<1> DEFINE n == Len(rs)
           ts == Append(rs, <<lo, hi>>)
<1>1. NRows \in Nat /\ Base \in Nat
  BY EnrolledIs
<1>2. /\ rs \in Seq(Nat \X Nat) /\ n \in Nat /\ DOMAIN rs = 1..n
      /\ \A i \in 1..n : rs[i][1] < rs[i][2] /\ rs[i][2] <= NRows /\ rs[i][1] \in Nat /\ rs[i][2] \in Nat
  BY DEF RangesOf
<1>3. /\ ts \in Seq(Nat \X Nat) /\ DOMAIN ts = 1..(n + 1)
      /\ \A i \in 1..n : ts[i] = rs[i]
      /\ ts[n + 1] = <<lo, hi>>
  BY <1>2
<1>4. \A i \in 1..(n + 1) : i \in 1..n \/ i = n + 1
  BY <1>2
<1>5. ts[n + 1][1] = lo /\ ts[n + 1][2] = hi
  BY <1>3
<1> HIDE DEF n, ts
<1>6. \A k \in 0..(NRows - 1) : (Base + k \in C) <=> lo <= k /\ k < hi
  BY <1>1
<1>7. ASSUME NEW i \in 1..n PROVE rs[i][2] <= lo \/ hi <= rs[i][1]
  <2> SUFFICES ASSUME ~(rs[i][2] <= lo), ~(hi <= rs[i][1]) PROVE FALSE
    BY <1>2
  <2> DEFINE k == IF rs[i][1] <= lo THEN lo ELSE rs[i][1]
  <2>1. k \in 0..(NRows - 1) /\ rs[i][1] <= k /\ k < rs[i][2] /\ lo <= k /\ k < hi
    BY <1>1, <1>2
  <2> HIDE DEF k
  <2>2. Base + k \in S
    BY <1>2, <2>1 DEF RangesOf
  <2>3. Base + k \in C
    BY <1>6, <2>1
  <2> QED BY <2>2, <2>3
<1>8. \A i \in 1..(n + 1) : ts[i][1] < ts[i][2] /\ ts[i][2] <= NRows
  BY <1>2, <1>3, <1>4, <1>5
<1>9. \A i, j \in 1..(n + 1) : i # j => ts[i][2] <= ts[j][1] \/ ts[j][2] <= ts[i][1]
  <2>1. \A i, j \in 1..n : i # j => rs[i][2] <= rs[j][1] \/ rs[j][2] <= rs[i][1]
    BY <1>2 DEF RangesOf
  <2> QED BY <1>3, <1>4, <1>5, <1>7, <2>1
<1>10. ASSUME NEW k \in 0..(NRows - 1)
       PROVE  (Base + k \in S \cup C) <=> \E i \in 1..(n + 1) : ts[i][1] <= k /\ k < ts[i][2]
  <2>1. (Base + k \in S) <=> \E i \in 1..n : rs[i][1] <= k /\ k < rs[i][2]
    BY <1>2 DEF RangesOf
  <2>2. n + 1 \in 1..(n + 1) /\ \A i \in 1..n : i \in 1..(n + 1)
    BY <1>2
  <2> QED BY <1>3, <1>4, <1>5, <1>6, <2>1, <2>2
<1> QED BY <1>3, <1>8, <1>9, <1>10 DEF RangesOf, ts

\* A chunk in the open stage goes to its place in the sink.
LEMMA OpenChunkStep ==
  ASSUME IInv, Where, OpenInv, OpenChunk
  PROVE  Where' /\ FoldInv' /\ OpenInv'
<1>1. /\ pc \in {"sweep", "worker"} /\ queue # << >> /\ stage = "open" /\ Executing
      /\ sum = Folded(Block) /\ SinkOf(sink, Streamed)
      /\ UNCHANGED <<plan, stage, left, pos, claim, sum, part>>
  BY DEF OpenChunk, Idle, Executing, OpenInv
<1>2. PICK a \in 0..N, b \in 0..N : OnePass(a, b)
  BY <1>1 DEF Where, InOnePass
<1> DEFINE n == ChunkSize(a, b)
           c == RowStart[a] + row
           lo == c - Base
           hi == lo + n
           C == ChunkRowsOf(a, b)
<1>3. /\ RowStart[a] \in Nat /\ RowStart[b] \in Nat /\ RowStart[b] <= RowStart[N] /\ Base <= RowStart[a]
      /\ a < b /\ queue = <<Interval(a, b)>> /\ row \in 0..(RowStart[b] - RowStart[a] - 1)
      /\ RowStart[N] = Base + NRows /\ NRows \in Nat /\ Base \in Nat
  BY <1>2, RowStartNat, RowsAscend, EnrolledIs, NAssumption DEF OnePass
<1>4. /\ n \in Nat \ {0} /\ row + n <= RowStart[b] - RowStart[a] /\ Len(NextChunk) = n
      /\ NextChunk = [k \in 1..n |-> EnrolledRow(c + k - 1)]
  BY <1>3, ChunkIs
<1> HIDE DEF n
<1>5. c \in Nat /\ lo \in Nat /\ hi \in Nat /\ lo < hi /\ hi <= NRows /\ C = (Base + lo)..(Base + hi - 1)
      /\ Base + lo = c
  <2>1. c \in Nat /\ lo \in Nat /\ Base + lo = c
    BY <1>3
  <2>2. hi \in Nat /\ lo < hi /\ hi <= NRows
    <3>1. n \in Nat \ {0} /\ row + n <= RowStart[b] - RowStart[a]
      BY <1>4
    <3> QED BY <1>3, <3>1
  <2>3. C = c..(c + n - 1)
    BY DEF ChunkRowsOf, n
  <2> HIDE DEF c
  <2>4. Base + hi - 1 = c + n - 1
    BY <1>3, <1>4, <2>1
  <2> HIDE DEF lo, hi, C
  <2> QED BY <2>1, <2>2, <2>3, <2>4
<1>6. NextChunk[1].at = c
  BY <1>3, <1>4 DEF EnrolledRow
<1> HIDE DEF c
<1>7. /\ sink' = [rows |-> [k \in DOMAIN sink.rows |->
                              IF lo <= k /\ k < hi THEN NextChunk[k - lo + 1] ELSE sink.rows[k]],
                  filled |-> sink.filled + (hi - lo),
                  ranges |-> Append(sink.ranges, <<lo, hi>>)]
      /\ pc' = pc /\ Advance(hi - lo)
  <2>1. NextChunk[1].at - Base = lo /\ lo + Len(NextChunk) = hi
    BY <1>4, <1>6
  <2>2. 0 <= lo
    BY <1>5
  <2> HIDE DEF lo, hi
  <2> QED BY <1>5, <2>1, <2>2 DEF OpenChunk
<1>8. hi - lo = n
  BY <1>4, <1>5
<1> HIDE DEF lo, hi, C
<1>9. Advance(n)
  BY <1>7, <1>8
<1>10. Taken' = Taken /\ (InOnePass' => Where')
  BY <1>1, <1>7, ChunkStep
<1>11. InOnePass' /\ Streamed' = Streamed \cup C /\ Streamed \cap C = {} /\ C \subseteq Block
  BY <1>2, <1>9, <1>10, ChunkMoves DEF n, C
<1>12. sink'.rows = [k \in 0..(NRows - 1) |->
                       IF Base + k \in Streamed' THEN EnrolledRow(Base + k) ELSE Unwritten]
  <2>1. /\ DOMAIN sink.rows = 0..(NRows - 1)
        /\ \A k \in 0..(NRows - 1) :
             sink.rows[k] = IF Base + k \in Streamed THEN EnrolledRow(Base + k) ELSE Unwritten
    BY <1>1 DEF SinkOf
  <2>2. ASSUME NEW k \in 0..(NRows - 1)
        PROVE  (IF lo <= k /\ k < hi THEN NextChunk[k - lo + 1] ELSE sink.rows[k])
               = IF Base + k \in Streamed' THEN EnrolledRow(Base + k) ELSE Unwritten
    <3>1. (Base + k \in C) <=> lo <= k /\ k < hi
      BY <1>3, <1>5
    <3>2. CASE lo <= k /\ k < hi
      <4>1. k - lo + 1 \in 1..n /\ c + (k - lo + 1) - 1 = Base + k
        BY <1>3, <1>4, <1>5, <1>8, <3>2
      <4>2. NextChunk[k - lo + 1] = EnrolledRow(Base + k)
        BY <1>4, <4>1
      <4> QED BY <1>11, <3>1, <3>2, <4>2
    <3>3. CASE ~(lo <= k /\ k < hi)
      BY <1>11, <2>1, <3>1, <3>3
    <3> QED BY <3>2, <3>3
  <2>3. sink'.rows = [k \in DOMAIN sink.rows |->
                        IF lo <= k /\ k < hi THEN NextChunk[k - lo + 1] ELSE sink.rows[k]]
    BY <1>7
  <2> QED BY <2>1, <2>2, <2>3
<1>13. sink'.filled = Cardinality(Streamed')
  <2>1. IsFiniteSet(Block) /\ IsFiniteSet(C) /\ Cardinality(C) = n
    <3>1. Block = Base..(Base + NRows - 1)
      BY EnrolledIs
    <3>2. IsFiniteSet(Base..(Base + NRows - 1))
      BY <1>3, FS_Interval
    <3>3. IsFiniteSet((Base + lo)..(Base + hi - 1))
          /\ Cardinality((Base + lo)..(Base + hi - 1))
               = IF Base + lo > Base + hi - 1 THEN 0 ELSE Base + hi - 1 - (Base + lo) + 1
      BY <1>3, <1>5, FS_Interval
    <3> QED BY <1>3, <1>4, <1>5, <1>8, <3>1, <3>2, <3>3
  <2>2. IsFiniteSet(Streamed)
    BY <2>1, StreamedRows, FS_Subset
  <2>3. Cardinality(Streamed \cup C) = Cardinality(Streamed) + Cardinality(C) - Cardinality(Streamed \cap C)
    BY <2>1, <2>2, FS_Union
  <2>4. Cardinality(Streamed \cap C) = 0
    BY <1>11, FS_EmptySet
  <2>5. Cardinality(Streamed) \in Nat
    BY <2>2, FS_CardinalityType
  <2> QED BY <1>1, <1>4, <1>7, <1>8, <1>11, <2>1, <2>3, <2>4, <2>5 DEF SinkOf
<1>14. RangesOf(sink.ranges, Streamed)
  BY <1>1 DEF SinkOf
<1>15. RangesOf(Append(sink.ranges, <<lo, hi>>), Streamed \cup C)
  BY <1>5, <1>11, <1>14, StreamedRows, RangeAppended
<1>16. SinkOf(sink', Streamed')
  <2>1. sink'.ranges = Append(sink.ranges, <<lo, hi>>)
    BY <1>7
  <2> QED BY <1>11, <1>12, <1>13, <1>15, <2>1 DEF SinkOf
<1>17. FoldInv' /\ OpenInv'
  BY <1>1, <1>16 DEF FoldInv, OpenInv, Folded, Enrolled, EnrolledRow, Block
<1> QED BY <1>10, <1>11, <1>17

\* The inductive invariant of the execution, next to that of the validation.
ExecInv == Where /\ FoldInv /\ OpenInv

\* The greatest of the ranges walked is the one the walk has come to.
LEMMA WalkEnds ==
  ASSUME NEW W \in SUBSET (DOMAIN sink.ranges), NEW i \in W,
         \A k \in W : k # i => Precedes(k, i) /\ ~Precedes(i, k)
  PROVE  PosAfter(W) = sink.ranges[i][2]
<1>1. (CHOOSE m \in W : \A k \in W : k = m \/ Precedes(k, m)) = i
  <2>1. \A k \in W : k = i \/ Precedes(k, i)
    OBVIOUS
  <2>2. \A m \in W : (\A k \in W : k = m \/ Precedes(k, m)) => m = i
    OBVIOUS
  <2> QED BY <2>1, <2>2
<1> QED BY <1>1 DEF PosAfter

\* Ranges that hold every row once leave no gap for finish to find.
LEMMA AllCovered ==
  ASSUME SinkOf(sink, Block)
  PROVE  Covered
<1> DEFINE rs == sink.ranges
           all == DOMAIN rs
<1>1. /\ NRows \in Nat /\ Base \in Nat /\ Block = Base..(Base + NRows - 1)
      /\ RangesOf(rs, Block)
  BY EnrolledIs DEF SinkOf
<1>2. sink.filled = NRows
  <2>1. Cardinality(Base..(Base + NRows - 1))
          = IF Base > Base + NRows - 1 THEN 0 ELSE Base + NRows - 1 - Base + 1
    BY <1>1, FS_Interval
  <2>2. sink.filled = Cardinality(Base..(Base + NRows - 1))
    BY <1>1 DEF SinkOf
  <2>3. (IF Base > Base + NRows - 1 THEN 0 ELSE Base + NRows - 1 - Base + 1) = NRows
    BY <1>1
  <2> QED BY <2>1, <2>2, <2>3
<1>3. /\ all = 1..Len(rs) /\ Len(rs) \in Nat
      /\ \A i \in all : /\ rs[i][1] \in Nat /\ rs[i][2] \in Nat
                        /\ rs[i][1] < rs[i][2] /\ rs[i][2] <= NRows
      /\ \A i, j \in all : i # j => rs[i][2] <= rs[j][1] \/ rs[j][2] <= rs[i][1]
  BY <1>1 DEF RangesOf
<1>4. ASSUME NEW k \in 0..(NRows - 1) PROVE \E i \in all : rs[i][1] <= k /\ k < rs[i][2]
  <2>1. Base + k \in Block
    BY <1>1
  <2> QED BY <1>1, <2>1 DEF RangesOf
<1>5. ASSUME NEW i \in all, NEW j \in all PROVE Precedes(i, j) <=> rs[i][2] <= rs[j][1]
  <2>1. CASE i = j
    <3>1. ~Precedes(i, i)
      BY <1>3 DEF Precedes
    <3> QED BY <1>3, <2>1, <3>1
  <2>2. CASE i # j
    <3>1. rs[i][2] <= rs[j][1] \/ rs[j][2] <= rs[i][1]
      BY <1>3, <2>2
    <3>2. /\ rs[i][1] \in Nat /\ rs[i][2] \in Nat /\ rs[i][1] < rs[i][2]
          /\ rs[j][1] \in Nat /\ rs[j][2] \in Nat /\ rs[j][1] < rs[j][2]
      BY <1>3
    <3>3. rs[i] = rs[j] => rs[i][1] = rs[j][1]
      OBVIOUS
    <3>4. Precedes(i, j) <=> \/ rs[i][1] < rs[j][1]
                             \/ rs[i][1] = rs[j][1] /\ rs[i][2] < rs[j][2]
                             \/ rs[i] = rs[j] /\ i < j
      BY DEF Precedes
    <3> QED BY ONLY <3>1, <3>2, <3>3, <3>4
  <2> QED BY <2>1, <2>2
<1> HIDE DEF rs, all
<1>6. ASSUME NEW W \in SUBSET all, NEW i \in W, \A k \in W : rs[k][2] <= rs[i][2]
      PROVE  PosAfter(W) = rs[i][2]
  <2>1. ASSUME NEW k \in W, k # i PROVE Precedes(k, i) /\ ~Precedes(i, k)
    <3>1. k \in all /\ i \in all /\ rs[k][2] <= rs[i][2]
      BY <1>6
    <3>2. rs[k][2] <= rs[i][1] \/ rs[i][2] <= rs[k][1]
      BY <1>3, <2>1, <3>1
    <3>3. rs[k][2] <= rs[i][1] /\ ~(rs[i][2] <= rs[k][1])
      BY <1>3, <3>1, <3>2
    <3> QED BY <1>5, <3>1, <3>3
  <2> QED BY <2>1, WalkEnds DEF rs, all
<1>7. ASSUME NEW j \in all
      PROVE  rs[j][1] = PosAfter({i \in all : Precedes(i, j)})
  <2> DEFINE W == {i \in all : Precedes(i, j)}
  <2>1. \A i \in all : i \in W <=> rs[i][2] <= rs[j][1]
    BY <1>5
  <2>2. W \in SUBSET all
    OBVIOUS
  <2>3. rs[j][1] \in Nat /\ rs[j][1] < rs[j][2] /\ rs[j][2] <= NRows /\ rs[j][2] \in Nat
    BY <1>3
  <2> HIDE DEF W
  <2>4. CASE rs[j][1] = 0
    <3>1. W = {}
      BY <1>3, <2>1, <2>2, <2>4
    <3> QED BY <2>4, <3>1 DEF PosAfter, W
  <2>5. CASE rs[j][1] # 0
    <3>1. rs[j][1] - 1 \in 0..(NRows - 1)
      BY <1>1, <2>3, <2>5
    <3>2. PICK i \in all : rs[i][1] <= rs[j][1] - 1 /\ rs[j][1] - 1 < rs[i][2]
      BY <1>4, <3>1
    <3>3. i # j
      BY <2>3, <3>2
    <3>4. rs[i][2] <= rs[j][1] \/ rs[j][2] <= rs[i][1]
      BY <1>3, <3>3
    <3>5. rs[i][2] = rs[j][1]
      BY <1>3, <2>3, <3>2, <3>4
    <3>6. i \in W /\ \A k \in W : rs[k][2] <= rs[i][2]
      BY <2>1, <2>2, <2>3, <3>5
    <3>7. PosAfter(W) = rs[i][2]
      BY <1>6, <2>2, <3>6
    <3> QED BY <3>5, <3>7 DEF W
  <2> QED BY <2>4, <2>5
<1>8. PosAfter(all) = NRows
  <2>1. CASE NRows = 0
    <3>1. all = {}
      BY <1>3, <2>1
    <3> QED BY <2>1, <3>1 DEF PosAfter
  <2>2. CASE NRows # 0
    <3>1. NRows - 1 \in 0..(NRows - 1)
      BY <1>1, <2>2
    <3>2. PICK i \in all : rs[i][1] <= NRows - 1 /\ NRows - 1 < rs[i][2]
      BY <1>4, <3>1
    <3>3. rs[i][2] = NRows
      BY <1>1, <1>3, <3>2
    <3>4. \A k \in all : rs[k][2] <= rs[i][2]
      BY <1>3, <3>3
    <3>5. all \in SUBSET all
      OBVIOUS
    <3> QED BY <1>6, <3>3, <3>4, <3>5
  <2> QED BY <2>1, <2>2
<1> QED BY <1>2, <1>7, <1>8 DEF Covered, rs, all

\* Nothing is streamed, summed or written before the execution begins.
LEMMA InitExecInv == Init => ExecInv
<1> SUFFICES ASSUME Init PROVE ExecInv
  OBVIOUS
<1>1. ~Executing
  BY DEF Init, Executing
<1> QED BY <1>1 DEF Init, ExecInv, Where, FoldInv, OpenInv, Executing, AtDesk

\* The sum over no row is the empty one.
LEMMA EmptySums == Folded({}) = EmptyBag
<1>1. Enrolled({}) = {}
  BY DEF Enrolled
<1> QED BY <1>1 DEF Folded, EmptyBag

\* A sink in which nothing was written holds no row.
LEMMA EmptySinkHolds == SinkOf(EmptySink, {})
<1>1. Cardinality({}) = 0
  BY FS_EmptySet
<1>2. RangesOf(<< >>, {})
  BY DEF RangesOf
<1> QED BY <1>1, <1>2 DEF SinkOf, EmptySink

\* A step that streams no row and keeps sums and sink keeps what they hold.
LEMMA QuietStep ==
  ASSUME ExecInv, Executing, Executing', Streamed' = Streamed,
         pc # "worker", pc' # "worker", UNCHANGED <<stage, sum, sink>>
  PROVE  FoldInv' /\ OpenInv'
BY DEF ExecInv, FoldInv, OpenInv, Folded, Enrolled, EnrolledRow, Block, EmptySink

\* Every step of the execution preserves the invariant.
LEMMA NextExecInv ==
  ASSUME IInv, ExecInv, [Next]_vars
  PROVE  ExecInv'
<1>1. CASE CheckShape \/ EndScan \/ \E i \in left : Scan(i)
  <2>1. Where' /\ ~Executing'
    BY <1>1, CheckStep DEF ExecInv
  <2> QED BY <2>1 DEF ExecInv, FoldInv, OpenInv
<1>2. CASE CheckDevices
  <2>1. /\ Where' /\ UNCHANGED <<stage, sum, sink>> /\ ~Executing /\ stage = "fold"
        /\ Executing' => pc' = "sweep" /\ Streamed' = {}
    BY <1>2, BeginStep DEF ExecInv
  <2>2. sum = EmptyBag /\ sink = EmptySink
    BY <2>1 DEF ExecInv, Where
  <2>3. FoldInv'
    BY <2>1, <2>2, EmptySums DEF FoldInv, EmptySink
  <2>4. OpenInv'
    BY <2>1 DEF OpenInv
  <2> QED BY <2>1, <2>3, <2>4 DEF ExecInv
<1>3. CASE SweepClaim
  <2>1. Where' /\ Streamed' = Streamed
    BY <1>3, SweepStep DEF ExecInv
  <2>2. Executing /\ Executing' /\ pc # "worker" /\ pc' # "worker" /\ UNCHANGED <<stage, sum, sink>>
    BY <1>3 DEF SweepClaim, Executing
  <2> QED BY <2>1, <2>2, QuietStep DEF ExecInv
<1>4. CASE EndSweep
  <2>1. Where' /\ Streamed' = Streamed
    BY <1>4, EndSweepStep DEF ExecInv
  <2>2. Executing /\ Executing' /\ pc # "worker" /\ pc' # "worker" /\ UNCHANGED <<stage, sum, sink>>
    BY <1>4 DEF EndSweep, Executing, work
  <2> QED BY <2>1, <2>2, QuietStep DEF ExecInv
<1>5. CASE \E i \in left : StartWorker(i)
  <2>1. PICK i \in left : StartWorker(i)
    BY <1>5
  <2>2. Where' /\ Streamed' = Streamed
    BY <2>1, StartStep DEF ExecInv
  <2>3. /\ Executing /\ Executing' /\ pc = "workers" /\ pc' = "worker"
        /\ part' = EmptyBag /\ UNCHANGED <<stage, sum, sink>>
    BY <2>1 DEF StartWorker, Executing
  <2>4. ASSUME stage = "fold" PROVE FoldInv'
    <3>1. sum = Folded(Streamed) /\ sink = EmptySink
      BY <2>3, <2>4 DEF ExecInv, FoldInv
    <3>2. Streamed \cap {} = {} /\ Streamed \cup {} = Streamed' /\ sum' = Folded(Streamed) /\ part' = Folded({})
      BY <2>2, <2>3, <3>1, EmptySums
    <3>3. \E S, U \in SUBSET Block : /\ S \cap U = {} /\ S \cup U = Streamed'
                                     /\ sum' = Folded(S) /\ part' = Folded(U)
      BY <3>2, StreamedRows
    <3> QED BY <2>3, <3>1, <3>3 DEF FoldInv, EmptySink, Folded, Enrolled, EnrolledRow, Block
  <2>5. FoldInv'
    BY <2>3, <2>4 DEF FoldInv
  <2>6. OpenInv'
    BY <2>2, <2>3 DEF ExecInv, OpenInv, Folded, Enrolled, EnrolledRow, Block
  <2> QED BY <2>2, <2>5, <2>6 DEF ExecInv
<1>6. CASE FoldChunk
  BY <1>6, FoldChunkStep DEF ExecInv
<1>7. CASE OpenChunk
  BY <1>7, OpenChunkStep DEF ExecInv
<1>8. CASE EndWorker
  <2>1. Where' /\ Streamed' = Streamed
    BY <1>8, EndWorkerStep DEF ExecInv
  <2>2. /\ Executing /\ Executing' /\ pc = "worker" /\ pc' = "workers"
        /\ sum' = IF stage = "fold" THEN sum (+) part ELSE sum
        /\ UNCHANGED <<stage, sink>>
    BY <1>8 DEF EndWorker, Executing
  <2>3. ASSUME stage = "fold" PROVE FoldInv'
    <3>1. PICK S \in SUBSET Block, U \in SUBSET Block :
            S \cap U = {} /\ S \cup U = Streamed /\ sum = Folded(S) /\ part = Folded(U)
      BY <2>2, <2>3 DEF ExecInv, FoldInv
    <3>2. sum' = Folded(Streamed')
      BY <2>1, <2>2, <2>3, <3>1, FoldedTogether
    <3>3. sink = EmptySink
      BY <2>2, <2>3 DEF ExecInv, FoldInv
    <3> QED BY <2>2, <3>2, <3>3 DEF FoldInv, EmptySink
  <2>4. FoldInv'
    BY <2>2, <2>3 DEF FoldInv
  <2>5. OpenInv'
    BY <2>1, <2>2 DEF ExecInv, OpenInv, Folded, Enrolled, EnrolledRow, Block
  <2> QED BY <2>1, <2>4, <2>5 DEF ExecInv
<1>9. CASE EndFold
  <2>1. Where' /\ Streamed = Block /\ Streamed' = {}
    BY <1>9, EndFoldStep DEF ExecInv
  <2>2. /\ pc = "workers" /\ pc' = "sweep" /\ stage = "fold" /\ stage' = "open" /\ Executing
        /\ UNCHANGED <<sum, sink>>
    BY <1>9 DEF EndFold, Executing
  <2>3. sum = Folded(Block) /\ sink = EmptySink
    BY <2>1, <2>2 DEF ExecInv, FoldInv
  <2>4. sum' = Folded(Block) /\ SinkOf(sink', Streamed')
    BY <2>1, <2>2, <2>3, EmptySinkHolds
  <2>5. OpenInv'
    BY <2>4 DEF OpenInv, Folded, Enrolled, EnrolledRow, Block
  <2> QED BY <2>1, <2>2, <2>5 DEF ExecInv, FoldInv
<1>10. CASE Finish
  <2>1. /\ pc = "workers" /\ left = {} /\ stage = "open" /\ Executing
        /\ pc' = IF Covered THEN "done" ELSE "failed"
        /\ UNCHANGED <<plan, stage, left, pos, claim, queue, row, sum, part, sink>>
    BY <1>10 DEF Finish, work, Executing
  <2>2. Streamed = Block /\ queue = << >> /\ claim \in 0..Len(Claims) /\ row = 0
    BY <2>1, StageEnds DEF ExecInv, Where, InOnePass, OnePass
  <2>3. Covered /\ pc' = "done"
    BY <2>1, <2>2, AllCovered DEF ExecInv, OpenInv
  <2>4. Owned(stage)' = Owned(stage) /\ Workers(stage)' = Workers(stage) /\ \A j : Run(j)' = Run(j)
    BY <2>1 DEF Owned, Workers, Run
  <2>5. Taken' = Taken
    BY <2>1, <2>3, <2>4 DEF Taken, Ran
  <2>6. Streamed' = Streamed
    BY <2>1, <2>5 DEF Streamed, RowsIn, Pending, PendingOf
  <2>7. Where' /\ Executing'
    BY <2>1, <2>2, <2>3 DEF Where, Executing, InOnePass
  <2>8. FoldInv' /\ OpenInv'
    BY <2>1, <2>3, <2>6, <2>7, QuietStep
  <2> QED BY <2>7, <2>8 DEF ExecInv
<1>11. CASE UNCHANGED vars
  <2>1. UNCHANGED <<plan, pc, stage, left, claim, queue, row, sum, part, sink>>
    BY <1>11 DEF vars
  <2>2. Owned(stage)' = Owned(stage) /\ Workers(stage)' = Workers(stage) /\ \A j : Run(j)' = Run(j)
    BY <2>1 DEF Owned, Workers, Run
  <2>3. Taken' = Taken
    BY <2>1, <2>2 DEF Taken, Ran, Claimed
  <2>4. Streamed' = Streamed /\ InOnePass' = InOnePass
    BY <2>1, <2>3 DEF Streamed, RowsIn, Pending, InOnePass, OnePass
  <2>5. Where'
    BY <2>1, <2>2, <2>4 DEF ExecInv, Where, Executing
  <2>6. FoldInv'
    BY <2>1, <2>4 DEF ExecInv, FoldInv, Executing
  <2>7. OpenInv'
    BY <2>1, <2>4 DEF ExecInv, OpenInv, Executing
  <2> QED BY <2>5, <2>6, <2>7 DEF ExecInv
<1> QED BY <1>1, <1>2, <1>3, <1>4, <1>5, <1>6, <1>7, <1>8, <1>9, <1>10, <1>11 DEF Next

\* After the fold stage the sums hold each row of the block once.
LEMMA ExecFolds == ExecInv => FoldedOnce
<1> SUFFICES ASSUME ExecInv, pc = "done" \/ (Accepted /\ stage = "open")
             PROVE  sum = Folded(Block)
  BY EnrolledIs DEF FoldedOnce, Folded, Enrolled
<1>1. Executing /\ stage = "open"
  BY DEF ExecInv, Where, Executing, Accepted, AtDesk
<1> QED BY <1>1 DEF ExecInv, OpenInv

\* The sink holds enrolled rows only, and in the end all of them.
LEMMA ExecOpens == IInv /\ ExecInv => OpenedInPlace
<1> SUFFICES ASSUME IInv, ExecInv PROVE OpenedInPlace
  OBVIOUS
<1>1. pc # "failed"
  BY DEF ExecInv, Where, Executing, AtDesk
<1>2. CASE ~(Executing /\ stage = "open")
  <2>1. sink = EmptySink /\ pc # "done"
    BY <1>2 DEF ExecInv, Where, FoldInv, IInv, Stages, Executing
  <2> QED BY <1>1, <2>1 DEF OpenedInPlace, EmptySink
<1>3. CASE Executing /\ stage = "open"
  <2>1. sink.rows = [k \in 0..(NRows - 1) |->
                       IF Base + k \in Streamed THEN EnrolledRow(Base + k) ELSE Unwritten]
    BY <1>3 DEF ExecInv, OpenInv, SinkOf
  <2>2. pc = "done" => Streamed = Block
    BY StageEnds DEF ExecInv, Where
  <2>3. \A k \in 0..(NRows - 1) : Base + k \in Block
    BY EnrolledIs
  <2> QED BY <1>1, <2>1, <2>2, <2>3 DEF OpenedInPlace
<1> QED BY <1>2, <1>3

\* When the fold stage is over, each enrolled row of the weight block has been
\* folded exactly once, with its data, its pad and the coin of its own row,
\* whatever the plan's cut, the order of its runs and the size of the chunks
\* (fold_run and the coordinator's sweep in _prove_streaming_body).
THEOREM EveryRowFoldedOnce == Spec => []FoldedOnce
<1>1. Init => IInv /\ ExecInv
  BY InitIInv, InitExecInv
<1>2. IInv /\ ExecInv /\ [Next]_vars => (IInv /\ ExecInv)'
  BY NextIInv, NextExecInv
<1> QED BY <1>1, <1>2, ExecFolds, PTL DEF Spec

\* Every row the ColumnSink holds is the enrolled row of that place, in the end
\* it holds them all, and neither its overflow assertion nor finish's coverage
\* assertion stops a validated plan.
THEOREM RowsOpenInPlace == Spec => []OpenedInPlace
<1>1. Init => IInv /\ ExecInv
  BY InitIInv, InitExecInv
<1>2. IInv /\ ExecInv /\ [Next]_vars => (IInv /\ ExecInv)'
  BY NextIInv, NextExecInv
<1> QED BY <1>1, <1>2, ExecOpens, PTL DEF Spec
-------------------------------------------------------------------------------
(* The planner and the prover together. *)

\* Of the planner the argument takes one thing: that it hands over lists of runs.
LEMMA PlannedStart == PlannedInit => IInv /\ ExecInv
<1>1. CASE ByHand
  BY <1>1, InitIInv, InitExecInv DEF ByHand
<1>2. CASE Asked
  <2>1. IsPlan(NoSplit)
    BY DEF IsPlan, NoSplit
  <2>2. IInv
    BY <1>2, <2>1 DEF Asked, IInv, Stages, Validating, Accepted, RefusedForCause
  <2>3. ExecInv
    BY <1>2 DEF Asked, ExecInv, Where, FoldInv, OpenInv, Executing, AtDesk
  <2> QED BY <2>2, <2>3
<1> QED BY <1>1, <1>2 DEF PlannedInit

\* Before the validation every list of runs is as good as any other.
LEMMA AtDeskStep ==
  ASSUME IInv, ExecInv, pc = "desk", IsPlan(plan'),
         pc' \in {"shape", "unavailable", "planned"}, UNCHANGED <<stage, left, pos, work>>,
         pc' = "shape" => stage = "fold"
  PROVE  IInv' /\ ExecInv'
<1>1. IInv'
  BY DEF IInv, Stages, Validating, Accepted, RefusedForCause
<1>2. ExecInv'
  BY DEF work, ExecInv, Where, FoldInv, OpenInv, Executing, AtDesk, EmptySink
<1> QED BY <1>1, <1>2

\* A step of the planned split keeps all of this: the answer of the planner is
\* a list of runs, and the rest are steps of the split.
LEMMA PlannedStep ==
  ASSUME IInv, ExecInv, pc = "desk" => stage = "fold", [PlannedNext]_<<vars, desk>>
  PROVE  IInv' /\ ExecInv' /\ (pc' = "desk" => stage' = "fold")
<1>1. CASE TurnDown
  <2>1. IsPlan(plan') /\ pc = "desk" /\ pc' = "unavailable" /\ UNCHANGED <<stage, left, pos, work>>
    BY <1>1 DEF TurnDown, IInv
  <2> QED BY <2>1, AtDeskStep
<1>2. CASE Evaluate
  <2>1. PICK ev \in {Answers[question]} :
          IF OwnBlock
          THEN /\ plan' = [fold |-> _intervals(ev.plan.fold), open |-> _intervals(ev.plan.open), devices |-> <<>>]
               /\ pc' = "shape"
          ELSE plan' = plan /\ pc' = "planned"
    BY <1>2 DEF Evaluate
  <2>2. pc = "desk" /\ question \in Sound /\ UNCHANGED <<stage, left, pos, work>>
    BY <1>2 DEF Evaluate
  <2>3. CASE OwnBlock
    <3>1. _intervals(ev.plan["fold"]) \in Seq(Runs) /\ _intervals(ev.plan["open"]) \in Seq(Runs)
      BY <2>1, <2>2, PlannerAssumption DEF Stages
    <3>2. _intervals(ev.plan.fold) \in Seq(Runs) /\ _intervals(ev.plan.open) \in Seq(Runs)
      BY <3>1
    <3>3. IsPlan(plan') /\ pc' = "shape"
      BY <2>1, <2>3, <3>2 DEF IsPlan
    <3> QED BY <2>2, <3>3, AtDeskStep
  <2>4. CASE ~OwnBlock
    <3>1. IsPlan(plan') /\ pc' = "planned"
      BY <2>1, <2>4 DEF IInv
    <3> QED BY <2>2, <3>1, AtDeskStep
  <2> QED BY <2>3, <2>4
<1>3. CASE Next \/ UNCHANGED vars
  <2>1. IInv' /\ ExecInv'
    BY <1>3, NextIInv, NextExecInv
  <2>2. pc' = "desk" => pc = "desk" /\ stage' = stage
    BY <1>3 DEF vars, Next, Refuse, CheckShape, Scan, EndScan, CheckDevices, SweepClaim, EndSweep,
                StartWorker, FoldChunk, OpenChunk, EndWorker, EndFold, Finish
  <2> QED BY <2>1, <2>2
<1> QED BY <1>1, <1>2, <1>3 DEF PlannedNext

\* The four properties hold as well when the plan comes from the planner: the
\* prover checks whatever evaluate returns as it checks a list given by hand
\* (shard_plan of _prove_streaming_body).
THEOREM PlannedSplitHolds ==
  PlannedSpec => [](AcceptedTiles /\ RefusedForCause /\ FoldedOnce /\ OpenedInPlace)
<1>1. PlannedInit => IInv /\ ExecInv /\ (pc = "desk" => stage = "fold")
  BY PlannedStart DEF PlannedInit, ByHand, Asked, Init
<1>2. IInv /\ ExecInv /\ (pc = "desk" => stage = "fold") /\ [PlannedNext]_<<vars, desk>>
        => (IInv /\ ExecInv /\ (pc = "desk" => stage = "fold"))'
  BY PlannedStep
<1>3. IInv /\ ExecInv => AcceptedTiles /\ RefusedForCause /\ FoldedOnce /\ OpenedInPlace
  BY ExecFolds, ExecOpens DEF IInv, AcceptedTiles, Good, Stages
<1> QED BY <1>1, <1>2, <1>3, PTL DEF PlannedSpec
===============================================================================
