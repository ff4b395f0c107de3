------------------------------- MODULE AuditParams -------------------------------
(***************************************************************************)
(* AuditParams of layergkr/sampled_audit.py: how many blocks of a window   *)
(* the sampled audit checks.  A parameter is a record [window_size,        *)
(* sample_per_window]; the last window of a tape may be shorter.           *)
(***************************************************************************)
EXTENDS Integers

\* AuditParams.validate
IsParams(p) ==
  /\ p.window_size \in Nat \ {0}
  /\ p.sample_per_window \in 1..p.window_size

\* math.ceil(a / b)
CeilDiv(a, b) == (a + b - 1) \div b

\* Faulty variant of sample_count: the tail is rounded down.
sample_count_floor(p, len) == (p.sample_per_window * len) \div p.window_size

\* The proportion of a full window, rounded up, and never more than there are.
sample_count(p, len) ==
  LET proportional == CeilDiv(p.sample_per_window * len, p.window_size)
  IN IF proportional <= len THEN proportional ELSE len

\* All windows of a tape of `total` blocks together
selected_blocks(p, total) ==
  LET full == total \div p.window_size
      tail == total % p.window_size
  IN full * p.sample_per_window + IF tail > 0 THEN sample_count(p, tail) ELSE 0
================================================================================
