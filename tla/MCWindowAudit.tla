----------------------------- MODULE MCWindowAudit -----------------------------
(* WindowAudit for TLC, on tapes of five claims: the first computes from the  *)
(* input and is the mask of the folds, the second and third are streams or    *)
(* read the input again, the fourth and fifth fold streams, alone or sharing  *)
(* one, or read one beside a fold, or are streamed.                           *)
EXTENDS WindowAudit

Plain(reads) == [kind |-> "plain", ivars |-> reads, mask |-> X, looks |-> FALSE, operands |-> {}]
RoutedOf(reads) == [Plain(reads) EXCEPT !.kind = "routed"]
FoldOf(streams) == [Plain({Y(1)} \cup streams) EXCEPT !.kind = "fold", !.mask = Y(1)]

Streams == {Plain({Y(1)}), Plain({X}), RoutedOf({Y(1)})}
Fourths == {FoldOf({Y(2)}), FoldOf({Y(2), Y(3)}), Plain({X, Y(3)})}
Fifths == {FoldOf({Y(2)}), FoldOf({Y(3)}), Plain({Y(2), Y(4)}), Plain({X, Y(3)}),
           [FoldOf({Y(2)}) EXCEPT !.ivars = {Y(2), Y(4)}, !.mask = Y(4)]}

SmallTapes == {t \in {<<Plain({X}), b, c, d, e>> :
                        b \in Streams, c \in Streams, d \in Fourths, e \in Fifths} : IsTape(t)}

AuditBy(w, k, rs) == [window_size |-> w, sample_per_window |-> k, rs |-> rs]
SmallParams ==
  {AuditBy(1, 1, FALSE), AuditBy(2, 1, TRUE), AuditBy(3, 2, FALSE), AuditBy(3, 2, TRUE),
   AuditBy(4, 3, TRUE)}
================================================================================
