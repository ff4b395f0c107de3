----------------------------- MODULE MCProofOutput -----------------------------
(* ProofOutput for TLC: drivers that all write to one path, either with one  *)
(* weight commitment between them or each with its own.                      *)
EXTENDS ProofOutput

OneLedger == [d \in Drivers |-> "wc"]
OwnLedgers == [d \in Drivers |-> d]
================================================================================
