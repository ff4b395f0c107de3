---------------------------- MODULE PlannedSplit ----------------------------
(***************************************************************************)
(* The planner and the prover's split together.  A proof starts from a plan   *)
(* given by hand, or from a question put to the planner: the question it has  *)
(* no machine data or no sound sizes for is turned down; the plan of a        *)
(* question about the prover's own block is handed over, device by device, as *)
(* the lists the prover takes.                                               *)
(***************************************************************************)
EXTENDS WeightSplit, SplitPlanner

CONSTANTS
    Questions,       \* the questions put to the planner
    Slots_           \* slots of each variable of the prover's own block

VARIABLES
    question,        \* the question asked, or NotAsked
    answer           \* what evaluate returned, or NotAsked

desk == <<question, answer>>
NotAsked == <<>>
NoSplit == [fold |-> <<>>, open |-> <<>>, devices |-> <<>>]

ByHand == Init /\ question = NotAsked /\ answer = NotAsked
Asked ==
    /\ question \in Questions /\ answer = NotAsked
    /\ plan = NoSplit /\ pc = "desk" /\ stage = "fold"
    /\ left = {} /\ pos = 0
    /\ claim = 0 /\ queue = <<>> /\ row = 0
    /\ sum = EmptyBag /\ part = EmptyBag
    /\ sink = EmptySink
PlannedInit == ByHand \/ Asked

Sound == {q \in Questions : ~BadProvenance(q) /\ ~Unavailable(q)}
\* What evaluate returns for each.
Answers == [q \in Sound |-> evaluate(q)] @@ [q \in {} |-> NotAsked]

TurnDown ==
    /\ pc = "desk" /\ question \notin Sound
    /\ pc' = "unavailable"
    /\ UNCHANGED <<plan, stage, left, pos, work, desk>>

\* What it returns has the form of a plan; whether it is a good one, the prover
\* finds out itself.
ASSUME PlannerAssumption ==
    \A q \in Sound : \A s \in Stages : _intervals(Answers[q].plan[s]) \in Seq(Runs)

OwnBlock == [v \in DOMAIN question.vars |-> question.vars[v].length] = Slots_
Evaluate ==
    /\ pc = "desk" /\ question \in Sound
    /\ \E ev \in {Answers[question]} :
          /\ answer' = ev
          /\ IF OwnBlock
             THEN /\ plan' = [fold |-> _intervals(ev.plan.fold), open |-> _intervals(ev.plan.open), devices |-> <<>>]
                  /\ pc' = "shape"
             ELSE plan' = plan /\ pc' = "planned"
    /\ UNCHANGED <<stage, left, pos, work, question>>

PlannedNext == TurnDown \/ Evaluate \/ (Next /\ UNCHANGED desk)
PlannedSpec == PlannedInit /\ [][PlannedNext]_<<vars, desk>>

---------------------------------------------------------------------------
(* What the planner promises, against every plan there is.                  *)
Holders(job) == 1 .. job.n
\* All plans of whole variables: where each device's run ends.
AllPlans(job) ==
    LET last == Len(job.vars)
        cuts == {c \in [Holders(job) -> 0 .. last] :
                    c[job.n] = last /\ \A d \in Holders(job) \ {1} : c[d - 1] <= c[d]}
    IN {[d \in Holders(job) |-> <<IF d = 1 THEN 0 ELSE c[d - 1], c[d]>>] : c \in cuts}
\* The bytes a device holds: each source it needs in either stage, once.
Sizes(job, S) == FoldSet(LAMBDA v, acc : acc + packed_bytes_of(job.vars[v], job.flat), 0, S)
Held(job, pf, po, d) ==
    LET uses == {v \in DOMAIN job.vars : \E r \in {pf[d], po[d]} : r[1] < v /\ v <= r[2]}
    IN Sizes(job, {v \in uses : \A u \in uses : SharesSource(job, u, v) => v <= u})
Peak(job, pf, po) == Max({Held(job, pf, po, d) : d \in Holders(job)})
\* A device's time in a stage, and the stage's.
Works(job, s, p, d) ==
    LET run == {v \in DOMAIN job.vars : p[d][1] < v /\ v <= p[d][2]}
        rows == FoldSet(LAMBDA v, acc : acc + SLOTS * ((job.vars[v].length + SLOTS - 1) \div SLOTS), 0, run)
        own == IF d = 1 THEN stages(job)[s] ELSE 0
        comp == own + Rate[s] * rows
        read == Sizes(job, run) * job.disk
    IN IF job.resident THEN comp ELSE IF job.overlap THEN Max({comp, read}) ELSE comp + read
Lasts(job, s, p) ==
    LET all == {Works(job, s, p, d) : d \in Holders(job)}
        volume == IF ~job.resident /\ job.shared THEN {Sizes(job, DOMAIN job.vars) * job.disk} ELSE {}
    IN Max(all \cup volume)
Wall(job, pf, po) == stages(job).commit + Lasts(job, "fold", pf) + Lasts(job, "open", po)
Holds(job, pf, po) == job.resident => Peak(job, pf, po) <= job.mem
ByShare(job) == job.n > 1 /\ \E s \in StageNames : job.x[s] # Unknown

\* The planner's answer is what it says it is, against every division of whole
\* variables over the devices: wall, hold and feasibility are those of the two
\* plans; it calls a question infeasible only when no one division fits both
\* stages, and then names one of least hold; a plan that is solved for each
\* stage on its own, inside the cap's box, or enumerated as one cut, is the
\* fastest of its kind: "Cuts are solved EXACTLY over variable boundaries".
PlannedIsBest ==
    answer # NotAsked =>
        LET pf == answer.plan.fold
            po == answer.plan.open
            plans == AllPlans(question)
        IN /\ pf \in plans /\ po \in plans
           /\ answer.wall = Wall(question, pf, po)
           /\ question.resident => answer.hold = Peak(question, pf, po)
           /\ answer.feasible = Holds(question, pf, po)
           /\ answer.mode \in {"independent", "capped-exact"} =>
                \A s \in StageNames : \A p \in plans :
                    LET q == IF s = "fold" THEN pf ELSE po
                    IN \/ Lasts(question, s, q) <= Lasts(question, s, p)
                       \/ question.resident /\ ~Holds(question, p, p)
           /\ answer.mode = "capped-exact" =>
                \A p, q \in plans : Holds(question, p, q) => answer.wall <= Wall(question, p, q)
           /\ answer.mode = "static-exact" =>
                pf = po /\ \A p \in plans : Holds(question, p, p) => answer.wall <= Wall(question, p, p)
           /\ ~answer.feasible /\ ~ByShare(question) =>
                /\ \A p \in plans : ~Holds(question, p, p)
                /\ \A p \in plans : answer.hold <= Peak(question, p, p)
=============================================================================
