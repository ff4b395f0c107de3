---------------------------- MODULE MCWeightSplit ----------------------------
(* Three weight variables of 1, 3 and 2 rows, the first two of one claim, and *)
(* chunks of two rows, so that chunks cross the borders of variables and of   *)
(* runs.  Fold plans: every list of up to two runs of three devices, and      *)
(* every list of three runs in shape.  Questions to the planner: the prover's *)
(* block and one of five variables with a shared source, one to four devices, *)
(* held in memory or read from one volume or several.                         *)
EXTENDS PlannedSplit

MCRowsOf == [v \in 0..2 |-> <<1, 3, 2>>[v + 1]]
MCClaims == <<<<0, 2>>, <<2, 2>>, <<2, 3>>>>

AnyRuns == (-1..2) \X (0..3) \X (-1..4)
Pairs == {p \in (0..3) \X (0..3) : p[1] <= p[2]}
\* Listed backwards, so that the runs of a good plan are out of order.
ThreeRuns == {<<<<2, q[1], q[2]>>, <<1, p[1], p[2]>>, <<0, o[1], o[2]>>>> :
                 o, p, q \in Pairs}
FoldRuns == {<<>>} \union {<<a>> : a \in AnyRuns} \union
            {<<a, b>> : a \in {x \in AnyRuns : x[1] < 2}, b \in AnyRuns} \union
            ThreeRuns
OpenRuns == {<<<<0, 0, 1>>, <<1, 1, -1>>>>,
             <<<<2, 0, 2>>, <<0, 2, 3>>>>,
             <<<<1, 0, 3>>>>,
             <<<<0, 0, 2>>, <<1, 2, 2>>, <<2, 1, 3>>>>}
Devices == {<<>>, 1 :> "same", 1 :> "other" @@ 2 :> "same"}

\* A plan of lists of pairs may leave the open stage to the fold's cut.
MCPlans == {[fold |-> f, open |-> o, devices |-> d] :
               f \in FoldRuns, o \in OpenRuns, d \in Devices}
           \union {[fold |-> f, open |-> f, devices |-> <<>>] : f \in ThreeRuns}
MCAway == {"other"}

Weight(l, p, s) == [length |-> l, packed |-> p, quant |-> NoName, source |-> s]
MCSlots_ == <<2, 5, 4>>
MCVars == {<<Weight(2, 3, NoName), Weight(5, 1, NoName), Weight(4, 4, NoName)>>,
           <<Weight(2, 3, "e"), Weight(5, 1, NoName), Weight(4, 3, "e")>>,
           <<Weight(3, 4, "e"), Weight(2, 2, NoName), Weight(7, 5, NoName), Weight(1, 4, "e"), Weight(4, 1, NoName)>>,
           <<Weight(2, 6, NoName), Weight(7, 1, NoName), Weight(2, 5, NoName), Weight(6, 2, NoName), Weight(4, 6, NoName)>>}
None == [fold |-> Unknown, open |-> Unknown]
Ask(vs, w, n, x, st) ==
  [vars |-> vs, fresh |-> [W |-> w, cids |-> 2, Q |-> 1], n |-> n, x |-> x, static |-> st, flat |-> Unknown,
   resident |-> FALSE, mem |-> Unknown, disk |-> Unknown, shared |-> FALSE, overlap |-> FALSE]
Shares == {None, [fold |-> 30, open |-> 60], [fold |-> 50, open |-> Unknown], [fold |-> Unknown, open |-> 0]}
InMemory ==
  {[Ask(vs, w, n, None, st) EXCEPT !.resident = TRUE, !.mem = m] :
     vs \in MCVars, w \in {0, 3, 6}, n \in 2..3, st \in BOOLEAN, m \in 3..14}
OnDisk ==
  {[Ask(vs, w, n, x, st) EXCEPT !.disk = d, !.shared = sh, !.overlap = ov] :
     vs \in MCVars, w \in {0, 3}, n \in 2..3, x \in Shares, st \in BOOLEAN, d \in {5, 40}, sh, ov \in BOOLEAN}
Alone ==
  {[Ask(vs, 3, 1, x, FALSE) EXCEPT !.resident = r, !.mem = 7, !.disk = 5] :
     vs \in MCVars, x \in Shares, r \in BOOLEAN}
Odd ==
  LET one == Weight(2, Unknown, NoName)
      blocks == {<<>>, <<one, [one EXCEPT !.quant = "Q8_0"]>>, <<[one EXCEPT !.quant = "IQ1"]>>,
               <<[one EXCEPT !.source = "e"]>>, <<Weight(2, -2, NoName)>>,
               <<Weight(1, 3, "e"), Weight(1, 4, "e")>>}
  IN {[Ask(vs, 1, 2, None, FALSE) EXCEPT !.disk = 5, !.flat = f] : vs \in blocks, f \in {Unknown, 3}}
     \cup {Ask(vs, 1, 4, [fold |-> 40, open |-> 40], FALSE) : vs \in MCVars}
     \cup {[Ask(vs, 1, 4, [fold |-> 40, open |-> 40], FALSE) EXCEPT !.resident = TRUE, !.mem = m] :
             vs \in MCVars, m \in {Unknown, 6}}
MCQuestions == InMemory \cup OnDisk \cup Alone \cup Odd
=============================================================================
