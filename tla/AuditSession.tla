------------------------------ MODULE AuditSession ------------------------------
(***************************************************************************)
(* What a sampled audit promises: prove and VerifierSession of             *)
(* layergkr/sampled_audit.py.  The statement fixes the blocks of a         *)
(* computation and the wires each one names.  Window by window the prover  *)
(* commits to the blocks, and only then learns which of them the verifier  *)
(* checks; a wire keeps the value it was first committed with, and C0      *)
(* lists the wires in the order of the public manifest.                    *)
(*                                                                         *)
(* "a production adapter may yield blocks from the real forward pass and   *)
(* retain only the current 49": module WindowAudit is that adapter.        *)
(***************************************************************************)
EXTENDS AuditParams, SequencesExt

VARIABLES
  statement,  (* the public manifest: parameters, and the wires each block *)
              (* names, in manifest order                                  *)
  committed,  (* block_coms: the blocks 1..committed are committed         *)
  c0,         (* registry: the value each committed wire was bound to      *)
  wire_order, (* the order of the wires in C0                              *)
  selected,   (* the blocks the verifier chose so far                      *)
  failures,   (* the chosen blocks whose local argument fails              *)
  phase       (* "commit" a window, "sample" it, or "done"                 *)

session == <<statement, committed, c0, wire_order, selected, failures, phase>>

total == Len(statement.wires)
Window == (committed + 1)..Min({committed + statement.params.window_size, total})
WiresOf(B) == UNION {Range(statement.wires[b]) : b \in B}

\* Some block mentions u, and none up to there, nor that one earlier, mentions v.
MentionedBefore(u, v) ==
  \E b \in 1..total : \E p \in DOMAIN statement.wires[b] :
    /\ statement.wires[b][p] = u
    /\ \A c \in 1..b : \A r \in DOMAIN statement.wires[c] :
         statement.wires[c][r] = v => c = b /\ p < r

\* The order lists the wires of the first k blocks, each once, as the manifest
\* mentions them first.
InManifestOrder(order, k) ==
  /\ Range(order) = WiresOf(1..k)
  /\ \A i, j \in DOMAIN order : i < j => MentionedBefore(order[i], order[j])

Init ==
  /\ IsParams(statement.params)
  /\ committed = 0
  /\ c0 = << >>
  /\ wire_order = << >>
  /\ selected = {} /\ failures = {}
  /\ phase = "commit"

\* The next window: its new wires are bound, and the old ones stay as they are.
CommitWindow ==
  /\ phase = "commit"
  /\ committed < total
  /\ committed' = committed + Cardinality(Window)
  /\ DOMAIN c0' = WiresOf(1..committed')
  /\ \A v \in DOMAIN c0 : c0'[v] = c0[v]
  /\ InManifestOrder(wire_order', committed')
  /\ phase' = "sample"
  /\ UNCHANGED <<statement, selected, failures>>

\* The blocks of the window that was committed last
Committed == {b \in 1..committed : (b - 1) \div statement.params.window_size
                                   = (committed - 1) \div statement.params.window_size}

\* The verifier's sample of the committed window, and its local arguments.
SampleWindow ==
  /\ phase = "sample"
  /\ \E S \in kSubset(sample_count(statement.params, Cardinality(Committed)), Committed) :
       /\ selected' = selected \cup S
       /\ failures \subseteq failures' /\ failures' \subseteq failures \cup S
  /\ phase' = IF committed = total THEN "done" ELSE "commit"
  /\ UNCHANGED <<statement, committed, c0, wire_order>>

\* Every window is committed and sampled in the end.
Audited == <>(phase = "done")

Safety == Init /\ [][CommitWindow \/ SampleWindow]_session
Spec == Safety /\ Audited
================================================================================
