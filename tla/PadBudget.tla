------------------------------- MODULE PadBudget -------------------------------
(***************************************************************************)
(* What the opening ledger promises about one enrolled weight matrix.      *)
(*                                                                         *)
(* Every proof that references an enrollment root reveals T_QUERIES        *)
(* columns of the same rows under the same random padding.  Each row has   *)
(* Slack = K_DEG - ELL pad coefficients, and the code is willing to spend  *)
(* half of them.  The promise is about the columns of a root that were     *)
(* ever revealed, by any process and across any crash: there are never     *)
(* more of them than the budget.                                           *)
(***************************************************************************)
EXTENDS Integers, FiniteSets

CONSTANTS
  Roots,      (* enrollment roots: every enrollment draws a fresh seed     *)
  Columns,    (* column indices 0 .. N_LIG-1 of the encoded matrix         *)
  T_QUERIES,  (* columns a proof opens                                     *)
  Slack       (* K_DEG - ELL, the random pad coefficients of a row         *)

VARIABLE released   (* released[r]: the columns of root r ever revealed    *)

\* int((K_DEG - ELL) * OPENING_BUDGET_FRACTION), the fraction being 0.5
Budget == Slack \div 2

\* A configuration without usable slack is not zero knowledge to begin with
\* and the ledger stands down.
Rationed == Slack > T_QUERIES

\* after = len(set(self.opened_columns) | set(new_columns)); refuse past budget
Fits(opened, q) == Rationed => Cardinality(opened \cup q) <= Budget

Init == released = [r \in Roots |-> {}]

Reveal(r, q) == /\ Fits(released[r], q)
                /\ released' = [released EXCEPT ![r] = @ \cup q]

Next == \E r \in Roots, q \in SUBSET Columns : Reveal(r, q)

Spec == Init /\ [][Next]_released
================================================================================
