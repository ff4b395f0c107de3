----------------------------- MODULE MCTranscript -----------------------------
(* Transcript for TLC: every combination of weight blocks, late blocks and     *)
(* misplaced quadratic constraints, with commitments and enrollments of the    *)
(* tape's model and of another one.                                            *)
EXTENDS Transcript

CONSTANTS m1, m2

Seeds == {DefaultSeed, "fresh"}
Layouts == {"order", "other order"}

IsTape(t) == /\ t.wnew => t.w
             /\ t.p3 => t.p2
             /\ t.bridged => t.p3
             /\ t.quads \subseteq {b \in {"w", "wnew"} : t[b]}

SmallTapes ==
  {t \in [w : BOOLEAN, wnew : BOOLEAN, p2 : BOOLEAN, p3 : BOOLEAN, bridged : BOOLEAN,
          quads : {{}, {"w"}, {"wnew"}}, rows : {1}, layout : {"order"}] : IsTape(t)}

Commitments == [model : {m1, m2}, seed : Seeds, rows : {1}]
Handles(t) == IF t.w THEN {None, [model |-> m1, seed |-> "fresh", rows |-> 2]} \cup Commitments
              ELSE {None, [model |-> m1, seed |-> "fresh", rows |-> 1]}
Enrollments(t) == {None} \cup [model : {m1, m2}, layout : Layouts]

SmallJobs == UNION {[tape : {t}, model : {m1}, wc : Handles(t),
                     wnew_seed : IF t.wnew THEN {None, "fresh"} ELSE {None},
                     enrollment : Enrollments(t)] : t \in SmallTapes}

OldClaims == [w |-> FALSE, wnew |-> FALSE, p2 |-> TRUE, p3 |-> FALSE, bridged |-> FALSE,
              quads |-> {}, rows |-> 1, layout |-> "order"]

\* The prover that predates the transcript: two blocks and coins of one base seed.
OldRows == [b \in {"p1", "p2"} |-> <<b, "old rows">>]
Coin(i) == <<"base", i>>
SmallOldFiles ==
  {[digest |-> Absent, claims |-> OldClaims, blocks |-> <<"p1", "p2">>,
    roots |-> [b \in {"p1", "p2"} |-> Root(OldRows[b])],
    seeds |-> [s_op |-> Coin(1), s_bind |-> Absent, s_comb |-> Coin(2), s_col |-> Coin(3)],
    tests |-> Tests(InOrder(<<"p1", "p2">>, OldRows), Coin(1), Absent, Coin(2)),
    opened |-> OldRows, columns |-> Coin(3), wc |-> NoBridge]}

AnyRoot == {Absent} \cup {Root(Weights(m, s, 1)) : m \in {m1, m2}, s \in Seeds}
AnyStatement == {Absent} \cup {statement_digest(t, Blocks(t)) : t \in SmallTapes}
AnyIdentity == {Absent} \cup {enrollment_identity(Root(Experts(m, 1)), "order") : m \in {m1, m2}}
TwoVersions == {1, 2}
===============================================================================
