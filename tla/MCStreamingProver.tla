--------------------------- MODULE MCStreamingProver ---------------------------
(* StreamingProver for TLC, on tapes of four claims.  The first computes from *)
(* the tape's input; the second, a stream for the folds, is routed or not and *)
(* counts lookups or not; the last two compute, are routed, or fold what came *)
(* before them, alone or sharing a stream, under the first or a later claim    *)
(* as the mask; the quads of the last may have an operand it does not read.   *)
EXTENDS StreamingProver

Plain(reads) == [kind |-> "plain", ivars |-> reads, mask |-> X, looks |-> FALSE, operands |-> {}]
RoutedOf(reads) == [Plain(reads) EXCEPT !.kind = "routed"]
FoldOf(streams) == [Plain({Y(1)} \cup streams) EXCEPT !.kind = "fold", !.mask = Y(1)]
Looking(c) == [c EXCEPT !.looks = TRUE]

Seconds == {Looking(Plain({X, Y(1)})), RoutedOf({Y(1)}), Looking(RoutedOf({X, Y(1)}))}
Thirds == {Looking(Plain({Y(2)})), Plain({Y(1)}), FoldOf({Y(2)}), RoutedOf({Y(2)})}
Fourths == {Plain({Y(3)}), Plain({Y(2), Y(3)}), RoutedOf({Y(1), Y(3)}),
            FoldOf({Y(2)}), FoldOf({Y(2), Y(3)}),
            [FoldOf({Y(2)}) EXCEPT !.ivars = {Y(2), Y(3)}, !.mask = Y(3)]}

AnyBudget == SUBSET (1..4)

SmallTapes ==
  {t \in {<<Plain({X}), b, c, [d EXCEPT !.operands = S]>> :
            b \in Seconds, c \in Thirds, d \in Fourths, S \in {{}, {Y(1)}, {Y(2)}}} :
     IsTape(t)}
================================================================================
