--------------------------- MODULE WindowAudit_proofs ---------------------------
(***************************************************************************)
(* Proofs about the sampled audit, for all tapes, window sizes, faults and *)
(* samples: what the sample of a window promises; that no row of the       *)
(* audit's encoding is padded twice; that no value is asked for which is   *)
(* gone and none is kept too long; that the checks are made on what was    *)
(* committed; that C0 is the witness; and that the verdict is right.       *)
(* The audit is the session that AuditSession states, and no run of it     *)
(* leaves the session's steps.                                             *)
(*                                                                         *)
(* None of these is inductive.  PaddedOnce needs that every row used lies  *)
(* below the cursor (IInv).  The others need to know, at every step, which *)
(* claims the window holds (WindowInv), which values the engine still has  *)
(* (EngineInv: whatever a later claim reads is in memory, or in the fold   *)
(* that alone reads it), which wires the observer holds (HeldInv,          *)
(* FoldKept), that all of them are what their claims wrote (UsedInv,       *)
(* LiveInv, KeptInv) and that the input, which its loader may return       *)
(* differently later, is the one the first reader in the window was given  *)
(* (XInv).  VerdictInv carries what the samples found past the release of  *)
(* their windows, and OrderInv the order of the digests past the windows'  *)
(* bounds.  The refinement adds which blocks have a commitment             *)
(* (CommittedInv).                                                         *)
(***************************************************************************)
EXTENDS WindowAudit, Tape_proofs, SequenceTheorems

--------------------------------------------------------------------------------
(***************************************************************************)
(* AuditParams                                                             *)
(***************************************************************************)
\* Division, as the two bounds that define it.
LEMMA CeilDivBounds ==
  ASSUME NEW a \in Nat \ {0}, NEW b \in Nat \ {0}
  PROVE  /\ CeilDiv(a, b) \in Nat \ {0}
         /\ a <= CeilDiv(a, b) * b
         /\ (CeilDiv(a, b) - 1) * b < a
<1> DEFINE q == (a + b - 1) \div b
<1> DEFINE r == (a + b - 1) % b
<1>1. q \in Int /\ r \in 0..(b - 1) /\ a + b - 1 = b * q + r
  BY Z3
<1>2. a <= q * b /\ (q - 1) * b < a
  BY <1>1, Z3
<1>3. q # 0 /\ ~(q < 0)
  BY <1>1, <1>2, Z3
<1> QED
  BY <1>1, <1>2, <1>3 DEF CeilDiv

\* "Proportional tail rounding keeps its per-block probability >= 5/49": for all
\* valid parameters and every length a window can have, sample_count picks a
\* number of blocks that is there to pick, is at least the window's share, and
\* would fall short of it if it were one less.
THEOREM SampleCountPromise ==
  ASSUME NEW p, IsParams(p), NEW len \in 1..p.window_size
  PROVE  /\ sample_count(p, len) \in 1..len
         /\ sample_count(p, len) * p.window_size >= p.sample_per_window * len
         /\ (sample_count(p, len) - 1) * p.window_size < p.sample_per_window * len
<1> DEFINE w == p.window_size
<1> DEFINE k == p.sample_per_window
<1> DEFINE c == CeilDiv(k * len, w)
<1>1. w \in Nat \ {0} /\ k \in Nat \ {0} /\ k <= w /\ len \in Nat \ {0} /\ len <= w
  BY DEF IsParams
<1> HIDE DEF w, k
<1>2. k * len \in Nat \ {0}
  BY <1>1, Z3
<1>3. /\ c \in Nat \ {0}
      /\ k * len <= c * w
      /\ (c - 1) * w < k * len
  BY <1>1, <1>2, CeilDivBounds
<1>4. k * len <= len * w
  BY <1>1, Z3
<1> HIDE DEF c
<1>5. CASE c <= len
  <2>1. sample_count(p, len) = c
    BY <1>5 DEF sample_count, c, k, w
  <2> QED
    BY <2>1, <1>1, <1>3, <1>5 DEF k, w
<1>6. CASE ~(c <= len)
  <2>1. sample_count(p, len) = len
    BY <1>6 DEF sample_count, c, k, w
  <2>2. (len - 1) * w <= (c - 1) * w
    BY <1>1, <1>3, <1>6, Z3
  <2>3. (len - 1) * w < k * len
    <3>1. (len - 1) * w \in Int /\ (c - 1) * w \in Int /\ k * len \in Int
      BY <1>1, <1>3
    <3> QED
      BY <3>1, <2>2, <1>3
  <2> QED
    BY <2>1, <2>3, <1>1, <1>4 DEF k, w
<1> QED
  BY <1>5, <1>6
--------------------------------------------------------------------------------
(***************************************************************************)
(* Rows                                                                    *)
(***************************************************************************)
InPass ==
  /\ tape \in Tapes
  /\ n \in Nat
  /\ step \in Steps
  /\ step \in {"compute", "observe", "release"} => at \in 1..n
  /\ at \in 1..(n + 1)

RowsBelowCursor ==
  /\ rs_row_cursor \in Nat
  /\ DOMAIN padded \subseteq 1..rs_row_cursor
  /\ \A r \in DOMAIN padded : \E m : padded[r] = {m}

IInv == InPass /\ RowsBelowCursor /\ IsFiniteSet(DOMAIN window_values)

\* A claim has finitely many wires.
LEMMA FiniteWires ==
  ASSUME InPass, at \in 1..n
  PROVE  IsFiniteSet(Wires(at))
<1> DEFINE outputs == {Y(j) : j \in 1..n}
<1>1. n \in Nat /\ tape[at] \in Claim(n)
  BY AuditAssumption DEF InPass, IsTape, n
<1>2. IsFiniteSet(outputs)
  <2> DEFINE f == [j \in 1..n |-> Y(j)]
  <2>1. f \in Surjection(1..n, outputs)
    BY DEF Surjection
  <2> QED
    BY <1>1, <2>1, FS_Interval, FS_Surjection
<1>3. IsFiniteSet({X} \cup outputs)
  BY <1>2, FS_AddElement, FS_Singleton, FS_Union
<1>4. tape[at].ivars \in SUBSET ({X} \cup outputs)
  BY <1>1 DEF Claim
<1>5. IsFiniteSet(tape[at].ivars)
  BY <1>3, <1>4, FS_Subset
<1> QED
  BY <1>5, FS_AddElement DEF Wires

\* What a window adds to the rows is new, and the cursor moves past it.
LEMMA RsCommitKeepsRows ==
  ASSUME RowsBelowCursor, IsFiniteSet(DOMAIN window_values), RsCommit
  PROVE  RowsBelowCursor'
<1>1. CASE ~params.rs
  BY <1>1 DEF RsCommit, RowsBelowCursor
<1>2. CASE params.rs
  <2> DEFINE rows == Cardinality(DOMAIN window_values)
  <2> DEFINE message(k) == LET v == Nth(DOMAIN window_values, k)
                           IN <<Head(window_blocks), v, window_values[v]>>
  <2> DEFINE here == (rs_row_cursor + 1)..(rs_row_cursor + rows)
  <2> DEFINE new == [r \in here |->
        {message(r - rs_row_cursor)} \cup IF r \in DOMAIN padded THEN padded[r] ELSE {}]
  <2>1. padded' = Over(new, padded) /\ rs_row_cursor' = rs_row_cursor + rows
    BY <1>2 DEF RsCommit, NextRow
  <2>2. rows \in Nat
    BY FS_CardinalityType
  <2> HIDE DEF rows, message
  <2>4. here \cap DOMAIN padded = {}
    BY <2>2 DEF RowsBelowCursor
  <2>5. \A r \in here : new[r] = {message(r - rs_row_cursor)}
    BY <2>4
  <2>6. DOMAIN new = here
    OBVIOUS
  <2> HIDE DEF new, here
  <2>7. /\ DOMAIN padded' = here \cup DOMAIN padded
        /\ \A r \in here : padded'[r] = new[r]
        /\ \A r \in DOMAIN padded \ here : padded'[r] = padded[r]
    BY <2>1, <2>6 DEF Over
  <2>8. rs_row_cursor' \in Nat /\ DOMAIN padded' \subseteq 1..rs_row_cursor'
    <3> DEFINE added == rows
    <3>1. added \in Nat /\ rs_row_cursor' = rs_row_cursor + added
      BY <2>1, <2>2
    <3>2. here \subseteq (rs_row_cursor + 1)..(rs_row_cursor + added)
      BY DEF here
    <3>3. DOMAIN padded' = here \cup DOMAIN padded
      BY <2>7
    <3>4. rs_row_cursor \in Nat /\ DOMAIN padded \subseteq 1..rs_row_cursor
      BY DEF RowsBelowCursor
    <3> HIDE DEF added
    <3>5. rs_row_cursor' \in Nat /\ rs_row_cursor <= rs_row_cursor'
      BY <3>1, <3>4
    <3>6. here \subseteq 1..rs_row_cursor'
      BY <3>1, <3>2, <3>4
    <3>7. DOMAIN padded \subseteq 1..rs_row_cursor'
      <4> SUFFICES ASSUME NEW r \in 1..rs_row_cursor PROVE r \in 1..rs_row_cursor'
        BY <3>4
      <4> QED
        BY <3>4, <3>5
    <3> QED
      BY <3>3, <3>5, <3>6, <3>7
  <2>9. \A r \in DOMAIN padded' : \E m : padded'[r] = {m}
    BY <2>5, <2>7 DEF RowsBelowCursor
  <2> QED
    BY <2>8, <2>9 DEF RowsBelowCursor
<1> QED
  BY <1>1, <1>2

\* No row is used at the start.
LEMMA IInvInit == Init => IInv
<1> SUFFICES ASSUME Init PROVE IInv
  OBVIOUS
<1>1. InPass
  <2>1. Len(tape) \in Nat /\ tape # << >>
    BY AuditAssumption DEF Init, IsTape
  <2>2. n \in Nat /\ 1 \in 1..n
    BY <2>1, AuditAssumption DEF Init, IsTape, n
  <2> QED
    BY <2>2 DEF Init, InPass, Steps
<1>2. RowsBelowCursor
  BY DEF Init, RowsBelowCursor
<1>3. IsFiniteSet(DOMAIN window_values)
  BY FS_EmptySet DEF Init
<1> QED
  BY <1>1, <1>2, <1>3 DEF IInv

\* A window's rows begin where the rows used so far end.
LEMMA IInvStep == IInv /\ [Next]_vars => IInv'
<1> SUFFICES ASSUME IInv, [Next]_vars PROVE IInv'
  OBVIOUS
<1> USE DEF IInv
<1>1. CASE Compute
  <2>1. InPass'
    BY <1>1 DEF Compute, InPass, Steps, n
  <2> QED
    BY <1>1, <2>1 DEF Compute, RowsBelowCursor, window, bound
<1>2. CASE Observe
  <2>1. InPass'
    BY <1>2 DEF Observe, InPass, Steps, n
  <2>2. IsFiniteSet(DOMAIN window_values')
    <3>1. IsFiniteSet(Wires(at))
      BY <1>2, FiniteWires DEF Observe, InPass
    <3>2. IsFiniteSet(DOMAIN Kept)
      BY <3>1, FS_Subset DEF Kept
    <3>3. DOMAIN window_values' = DOMAIN Kept \cup DOMAIN window_values
      BY <1>2 DEF Observe, Over
    <3> QED
      BY <3>2, <3>3, FS_Union
  <2> QED
    BY <1>2, <2>1, <2>2 DEF Observe, RowsBelowCursor, bound
<1>3. CASE Commit
  <2>1. InPass'
    BY <1>3 DEF Commit, InPass, Steps, n
  <2>2. RowsBelowCursor'
    BY <1>3, RsCommitKeepsRows DEF Commit
  <2> QED
    BY <1>3, <2>1, <2>2 DEF Commit, window
<1>4. CASE Check
  <2>1. InPass'
    BY <1>4 DEF Check, InPass, Steps, n
  <2>2. IsFiniteSet(DOMAIN window_values')
    BY <1>4, FS_EmptySet DEF Check
  <2> QED
    BY <1>4, <2>1, <2>2 DEF Check, RowsBelowCursor, bound
<1>5. CASE Release
  <2>1. InPass'
    BY <1>5 DEF Release, InPass, Steps, n
  <2> QED
    BY <1>5, <2>1 DEF Release, RowsBelowCursor, window, bound
<1>6. CASE Finish
  <2>1. InPass'
    BY <1>6 DEF Finish, InPass, Steps, n
  <2> QED
    BY <1>6, <2>1 DEF Finish, RowsBelowCursor, window, bound
<1>7. CASE Drift
  BY <1>7 DEF Drift, InPass, RowsBelowCursor, window, bound, n
<1>8. CASE UNCHANGED vars
  BY <1>8 DEF vars, InPass, RowsBelowCursor, window, bound, n
<1> QED
  BY <1>1, <1>2, <1>3, <1>4, <1>5, <1>6, <1>7, <1>8 DEF Next

\* For every tape, every window size and whatever goes wrong around it, no row of
\* the audit's encoding carries two messages under one padding.
THEOREM RowsArePaddedOnce == Spec => []PaddedOnce
<1>1. IInv => PaddedOnce
  <2> SUFFICES ASSUME IInv, NEW r \in DOMAIN padded PROVE Cardinality(padded[r]) = 1
    BY DEF PaddedOnce
  <2>1. PICK m : padded[r] = {m}
    BY DEF IInv, RowsBelowCursor
  <2> QED
    BY <2>1, FS_Singleton
<1> QED
  BY <1>1, IInvInit, IInvStep, PTL DEF Spec
--------------------------------------------------------------------------------
(***************************************************************************)
(* Where the pass and its observer stand                                   *)
(***************************************************************************)
\* How many claims the observer has seen, and how many of them lie in windows
\* that were let go.
Seen == IF step \in {"compute", "observe"} THEN at - 1 ELSE IF at <= n THEN at ELSE n
First == Seen - Len(window_blocks)

\* The wires of the claims after a, up to b.
Wired(a, b) == UNION {Wires(i) : i \in (a + 1)..b}

\* The window holds the last claims seen, in their order, and is never overfull.
WindowInv ==
  /\ window_blocks \in Seq(1..n)
  /\ First \in Nat
  /\ \A k \in 1..Len(window_blocks) : window_blocks[k] = First + k
  /\ step \notin {"commit", "check"} => Len(window_blocks) < params.window_size
  /\ step \in {"commit", "check"} => /\ Len(window_blocks) \in 1..params.window_size
                                     /\ at <= n => Len(window_blocks) = params.window_size
  /\ step = "done" => window_blocks = << >>
  /\ step # "done" => \E q \in Nat : First = q * params.window_size

StandsInv ==
  /\ InPass
  /\ params \in Params
  /\ bytes \in {FirstBytes, OtherBytes}
  /\ step \in {"finish", "done"} => at = n + 1

\* The tape and the parameters at hand.
LEMMA AtHand ==
  ASSUME StandsInv
  PROVE  /\ IsTape(tape) /\ DOMAIN tape = 1..n /\ n \in Nat \ {0} /\ n = Len(tape) /\ at \in Nat
         /\ Seen \in 0..n
         /\ params.window_size \in Nat \ {0}
         /\ params.sample_per_window \in 1..params.window_size
<1>1. IsTape(tape) /\ tape # << >>
  BY AuditAssumption DEF StandsInv, InPass
<1>2. Len(tape) \in Nat /\ DOMAIN tape = 1..Len(tape) /\ Len(tape) # 0
  <2>1. tape \in Seq(Claim(Len(tape)))
    BY <1>1 DEF IsTape
  <2> QED BY <1>1, <2>1
<1>3. IsParams(params)
  BY AuditAssumption DEF StandsInv
<1>4. /\ n \in Nat /\ at \in 1..(n + 1)
      /\ step \in {"compute", "observe", "release"} => at \in 1..n
  BY DEF StandsInv, InPass
<1>5. Seen \in 0..n
  BY <1>4 DEF Seen
<1> QED BY <1>1, <1>2, <1>3, <1>4, <1>5 DEF n, IsParams

\* No step changes the tape or the parameters.
LEMMA TapeStays ==
  ASSUME [Next]_vars
  PROVE  tape' = tape /\ params' = params /\ n' = n
<1>1. tape' = tape /\ params' = params
  BY DEF Next, vars, Compute, Observe, Commit, Check, Release, Finish, Drift
<1> QED BY <1>1 DEF n

\* The pass starts at the first claim, with an empty window.
LEMMA StandsInit ==
  ASSUME Init
  PROVE  StandsInv /\ WindowInv
<1>1. StandsInv
  BY IInvInit DEF IInv, Init, StandsInv
<1>2. Seen = 0 /\ window_blocks = << >> /\ step = "compute"
  BY DEF Init, Seen
<1>3. params.window_size \in Nat \ {0} /\ n \in Nat
  BY <1>1, AtHand
<1>4. First = 0
  <2>1. Len(window_blocks) = 0 /\ Seen = 0
    BY <1>2
  <2> QED BY ONLY <2>1 DEF First
<1>5. \A w \in Nat : 0 = 0 * w
  OBVIOUS
<1>6. \E q \in Nat : First = q * params.window_size
  BY <1>3, <1>4, <1>5
<1> QED BY <1>1, <1>2, <1>3, <1>4, <1>6 DEF WindowInv

\* The pass stays where it can be.
LEMMA StandsStep ==
  ASSUME StandsInv, [Next]_vars
  PROVE  StandsInv'
<1>1. tape' = tape /\ params' = params /\ n' = n /\ n \in Nat /\ at \in Nat
  BY TapeStays, AtHand
<1> USE DEF StandsInv, InPass, Steps
<1>2. CASE Compute
  BY <1>1, <1>2 DEF Compute
<1>3. CASE Observe
  BY <1>1, <1>3 DEF Observe
<1>4. CASE Commit
  BY <1>1, <1>4 DEF Commit
<1>5. CASE Check
  BY <1>1, <1>5 DEF Check
<1>6. CASE Release
  BY <1>1, <1>6 DEF Release
<1>7. CASE Finish
  BY <1>1, <1>7 DEF Finish
<1>8. CASE Drift
  BY <1>1, <1>8 DEF Drift
<1>9. CASE UNCHANGED vars
  BY <1>1, <1>9 DEF vars
<1> QED BY <1>2, <1>3, <1>4, <1>5, <1>6, <1>7, <1>8, <1>9 DEF Next

\* What each step does to the window.
LEMMA WindowMoves ==
  ASSUME StandsInv, WindowInv, [Next]_vars
  PROVE  \/ /\ Observe /\ Seen' = Seen + 1 /\ First' = First /\ Seen + 1 = at /\ at' = at
            /\ window_blocks' = Append(window_blocks, at)
            /\ Len(window_blocks') = Len(window_blocks) + 1
         \/ Check /\ Seen' = Seen /\ First' = Seen /\ window_blocks' = << >>
         \/ ~Observe /\ ~Check /\ UNCHANGED <<Seen, First, window_blocks>>
<1>1. /\ tape' = tape /\ params' = params /\ n' = n /\ n \in Nat /\ at \in 1..(n + 1)
      /\ step \in {"compute", "observe", "release"} => at \in 1..n
      /\ step \in {"finish", "done"} => at = n + 1
      /\ window_blocks \in Seq(1..n)
  BY TapeStays, AtHand DEF StandsInv, InPass, WindowInv
<1>2. CASE Observe
  <2>1. /\ step = "observe" /\ step' \in {"commit", "release"} /\ at' = at
        /\ window_blocks' = Append(window_blocks, at)
    BY <1>2 DEF Observe
  <2>2. Len(window_blocks') = Len(window_blocks) + 1 /\ Len(window_blocks) \in Nat
    BY <1>1, <2>1
  <2>3. Seen = at - 1 /\ Seen' = at
    BY <1>1, <2>1 DEF Seen
  <2> QED BY <1>1, <1>2, <2>1, <2>2, <2>3 DEF First
<1>3. CASE Check
  <2>1. /\ step = "check" /\ step' \in {"release", "done"} /\ at' = at /\ window_blocks' = << >>
        /\ Len(window_blocks') = 0
    BY <1>3 DEF Check
  <2>2. Seen' = Seen /\ Seen \in Nat
    BY <1>1, <2>1 DEF Seen
  <2> QED BY <1>3, <2>1, <2>2 DEF First
<1>4. CASE Compute
  <2>1. step = "compute" /\ step' = "observe" /\ at' = at /\ window_blocks' = window_blocks
    BY <1>4 DEF Compute, window
  <2> QED BY <1>1, <2>1 DEF Seen, First, Observe, Check
<1>5. CASE Commit
  <2>1. step = "commit" /\ step' = "check" /\ at' = at /\ window_blocks' = window_blocks
    BY <1>5 DEF Commit, window
  <2> QED BY <1>1, <2>1 DEF Seen, First, Observe, Check
<1>6. CASE Release
  <2>1. /\ step = "release" /\ step' = (IF at < n THEN "compute" ELSE "finish") /\ at' = at + 1
        /\ window_blocks' = window_blocks
    BY <1>6 DEF Release, window
  <2>2. Seen' = Seen
    BY <1>1, <2>1 DEF Seen
  <2> QED BY <2>1, <2>2 DEF First, Observe, Check
<1>7. CASE Finish
  <2>1. step = "finish" /\ step' \in {"commit", "done"} /\ at' = at /\ window_blocks' = window_blocks
    BY <1>7 DEF Finish, window
  <2> QED BY <1>1, <2>1 DEF Seen, First, Observe, Check
<1>8. CASE Drift \/ UNCHANGED vars
  <2>1. UNCHANGED <<step, at, window_blocks>>
    BY <1>8 DEF Drift, vars, window
  <2>2. UNCHANGED <<Seen, First>>
    BY <1>1, <2>1 DEF Seen, First
  <2> QED BY <1>2, <1>3, <2>1, <2>2
<1> QED BY <1>2, <1>3, <1>4, <1>5, <1>6, <1>7, <1>8 DEF Next

\* The window stays the last claims seen.
LEMMA WindowStep ==
  ASSUME StandsInv, WindowInv, [Next]_vars
  PROVE  WindowInv'
<1>1. /\ params' = params /\ n' = n /\ n \in Nat /\ at \in 1..(n + 1)
      /\ step \in {"compute", "observe", "release"} => at \in 1..n
      /\ step \in {"finish", "done"} => at = n + 1
      /\ params.window_size \in Nat \ {0} /\ Seen \in 0..n /\ Len(window_blocks) \in Nat
  BY TapeStays, AtHand DEF StandsInv, InPass, WindowInv
<1>2. CASE Observe
  <2>1. /\ Seen' = Seen + 1 /\ First' = First /\ Seen + 1 = at /\ at' = at
        /\ window_blocks' = Append(window_blocks, at)
        /\ Len(window_blocks') = Len(window_blocks) + 1
    BY <1>2, WindowMoves DEF Observe, Check
  <2>2. /\ step = "observe" /\ step' \in {"commit", "release"}
        /\ step' = IF Len(window_blocks') = params.window_size THEN "commit" ELSE "release"
    BY <1>2 DEF Observe
  <2>3. Len(window_blocks) < params.window_size /\ First \in Nat
    BY <2>2 DEF WindowInv
  <2>4. window_blocks' \in Seq(1..n)
    BY <1>1, <2>1, <2>2 DEF WindowInv
  <2>5. \A k \in 1..Len(window_blocks') : window_blocks'[k] = First' + k
    <3> SUFFICES ASSUME NEW k \in 1..(Len(window_blocks) + 1) PROVE window_blocks'[k] = First + k
      BY <2>1
    <3>1. CASE k \in 1..Len(window_blocks)
      BY <2>1, <3>1 DEF WindowInv
    <3>2. CASE k = Len(window_blocks) + 1
      <4>1. window_blocks'[k] = at
        BY <2>1, <3>2 DEF WindowInv
      <4> QED BY <1>1, <2>1, <3>2, <4>1 DEF First
    <3> QED BY <1>1, <3>1, <3>2
  <2> QED BY <1>1, <2>1, <2>2, <2>3, <2>4, <2>5 DEF WindowInv
<1>3. CASE Check
  <2>1. Seen' = Seen /\ First' = Seen /\ window_blocks' = << >> /\ Len(window_blocks') = 0
    BY <1>3, WindowMoves DEF Observe, Check
  <2>2. step = "check" /\ step' = (IF at <= n THEN "release" ELSE "done")
    BY <1>3 DEF Check
  <2>3. at <= n => \E q \in Nat : First' = q * params.window_size
    <3> SUFFICES ASSUME at <= n PROVE \E q \in Nat : Seen = q * params.window_size
      BY <2>1
    <3>1. PICK q \in Nat : First = q * params.window_size
      BY <2>2 DEF WindowInv
    <3>2. Seen = First + params.window_size
      BY <1>1, <2>2 DEF WindowInv, First
    <3>3. Seen = (q + 1) * params.window_size
      <4> DEFINE w == params.window_size
      <4>1. w \in Nat /\ Seen = q * w + w
        BY <1>1, <3>1, <3>2
      <4> HIDE DEF w
      <4>2. Seen = (q + 1) * w
        BY <4>1
      <4> QED BY <4>2 DEF w
    <3> QED BY <3>3
  <2> QED BY <1>1, <2>1, <2>2, <2>3 DEF WindowInv
<1>4. CASE ~Observe /\ ~Check
  <2>1. UNCHANGED <<Seen, First, window_blocks>>
    BY <1>4, WindowMoves
  <2>2. \/ step' = step /\ at' = at
        \/ step = "compute" /\ step' = "observe" /\ at' = at
        \/ step = "commit" /\ step' = "check" /\ at' = at
        \/ step = "release" /\ step' \in {"compute", "finish"}
        \/ step = "finish" /\ step' = (IF window_blocks = << >> THEN "done" ELSE "commit") /\ at' = at
    BY <1>4 DEF Next, Compute, Commit, Release, Finish, Drift, vars
  <2>3. window_blocks = << >> <=> Len(window_blocks) = 0
    BY DEF WindowInv
  <2> QED BY <1>1, <2>1, <2>2, <2>3 DEF WindowInv
<1> QED BY <1>2, <1>3, <1>4
--------------------------------------------------------------------------------
(***************************************************************************)
(* The engine has what a claim reads, and the observer what it asks for    *)
(***************************************************************************)
\* What has been computed so far, what a claim from here on reads, and what the
\* only claim that reads it, a fold, has taken.
Landed(v) == v = X \/ \E k \in 1..n : v = Y(k) /\ (k < at \/ (k = at /\ step # "compute"))
Needed(v) == \E j \in 1..n : j >= at /\ v \in tape[j].ivars
Swallowed(v) == \E f \in DOMAIN folds : OnlyConsumer(tape, v, f) /\ v \in DOMAIN folds[f]

EngineInv ==
  /\ \A v : Landed(v) /\ Needed(v) => v \in DOMAIN live \/ Swallowed(v)
  /\ at <= n /\ step # "compute" => Y(at) \in DOMAIN live
  /\ step = "observe" =>
       DOMAIN input_data = IF tape[at].kind = "plain" THEN tape[at].ivars ELSE {}

\* One function over another is defined where either is.
LEMMA OverDomain ==
  \A f, g : DOMAIN Over(f, g) = DOMAIN f \cup DOMAIN g
  BY DEF Over

\* No claim after the last use reads a value.
LEMMA LastUseIsLast ==
  ASSUME StandsInv, NEW v, NEW j \in 1..n, v \in tape[j].ivars
  PROVE  LastUse(v) \in Nat /\ j <= LastUse(v)
<1>1. n \in Nat /\ DOMAIN tape = 1..n
  BY AtHand
<1> DEFINE S == {0} \cup Consumers(tape, v)
<1>2. S \subseteq Nat /\ S # {} /\ j \in S /\ \A s \in S : s <= n
  BY <1>1 DEF Consumers
<1>3. LastUse(v) = Max(S)
  BY DEF LastUse
<1> HIDE DEF S
<1> QED BY <1>1, <1>2, <1>3, MaxIsGreatest

\* Freeing takes from memory only what no later claim reads, or a fold has taken.
LEMMA ReleaseFrees ==
  ASSUME StandsInv, EngineInv, Release
  PROVE  /\ \A f \in DOMAIN folds : f \in DOMAIN folds' /\ DOMAIN folds[f] \subseteq DOMAIN folds'[f]
         /\ \A v \in DOMAIN live :
              \/ v \in DOMAIN live'
              \/ \A j \in 1..n : v \in tape[j].ivars => j <= at
              \/ \E f \in DOMAIN folds' : OnlyConsumer(tape, v, f) /\ v \in DOMAIN folds'[f]
         /\ \A v \in DOMAIN live' : v \in DOMAIN live /\ live'[v] = live[v]
<1> DEFINE offered == {f \in Absorbers(tape, Y(at)) : Cardinality(Absorbers(tape, Y(at))) = 1}
           freed == {Y(at) : f \in {f \in offered : OnlyConsumer(tape, Y(at), f)}}
           taken == [f \in offered |-> Over(FoldState(f), Loaded({Y(at)}))]
<1>0. at \in 1..n /\ n \in Nat /\ DOMAIN tape = 1..n
  BY AtHand DEF Release, StandsInv, InPass
<1>1. folds' = Over(taken, folds) /\ live' = Restrict(live, DOMAIN live \ (freed \cup Dead))
  BY DEF Release
<1>2. \A f \in offered : f \in DOMAIN folds' /\ folds'[f] = taken[f]
  BY <1>1 DEF Over
<1>3. \A f \in DOMAIN folds \ offered : f \in DOMAIN folds' /\ folds'[f] = folds[f]
  BY <1>1 DEF Over
<1>4. \A f \in offered : DOMAIN taken[f] = DOMAIN FoldState(f) \cup {Y(at)}
  BY DEF Over, Loaded
<1>5. \A f \in DOMAIN folds : f \in DOMAIN folds' /\ DOMAIN folds[f] \subseteq DOMAIN folds'[f]
  BY <1>2, <1>3, <1>4 DEF FoldState
<1>6. ASSUME NEW v \in DOMAIN live, v \notin DOMAIN live'
      PROVE  \/ \A j \in 1..n : v \in tape[j].ivars => j <= at
             \/ \E f \in DOMAIN folds' : OnlyConsumer(tape, v, f) /\ v \in DOMAIN folds'[f]
  <2>1. v \in freed \cup Dead
    BY <1>1, <1>6 DEF Restrict
  <2>2. CASE v \in freed
    BY <1>2, <1>4, <2>2
  <2>3. CASE v \in Dead
    <3>1. LastUse(v) = at \/ Consumers(tape, v) = {}
      BY <2>3 DEF Dead
    <3> QED BY <1>0, <3>1, LastUseIsLast DEF Consumers
  <2> QED BY <2>1, <2>2, <2>3
<1>7. \A v \in DOMAIN live' : v \in DOMAIN live /\ live'[v] = live[v]
  BY <1>1 DEF Restrict
<1> QED BY <1>5, <1>6, <1>7

\* Before the first claim, memory holds the input alone.
LEMMA EngineInit ==
  ASSUME Init
  PROVE  EngineInv
<1>1. live = [v \in {X} |-> 0] /\ at = 1 /\ step = "compute"
  BY DEF Init
<1>2. \A k \in 1..n : ~(k < 1)
  OBVIOUS
<1> QED BY <1>1, <1>2 DEF EngineInv, Landed

\* What later claims read stays in memory, or in the fold that alone reads it.
LEMMA EngineStep ==
  ASSUME StandsInv, EngineInv, [Next]_vars
  PROVE  EngineInv'
<1>0. tape' = tape /\ n' = n /\ n \in Nat /\ at \in 1..(n + 1) /\ DOMAIN tape = 1..n
  BY TapeStays, AtHand DEF StandsInv, InPass
<1>1. CASE Compute
  <2>1. PICK ins, out :
          /\ live' = Over([v \in {Y(at)} |-> out], live)
          /\ folds' = IF tape[at].kind = "fold" THEN Over([i \in {at} |-> ins], folds) ELSE folds
          /\ input_data' = IF tape[at].kind = "plain" THEN ins ELSE << >>
          /\ ins = IF tape[at].kind = "fold" THEN Over(FoldState(at), Loaded(Reads \ DOMAIN FoldState(at)))
                  ELSE Loaded(tape[at].ivars)
    BY <1>1 DEF Compute
  <2>1a. /\ tape[at].kind # "fold" => DOMAIN ins = tape[at].ivars
         /\ tape[at].kind = "fold" => DOMAIN FoldState(at) \subseteq DOMAIN ins
    BY <2>1, OverDomain DEF Loaded
  <2>2. at' = at /\ step = "compute" /\ step' = "observe" /\ at \in 1..n
    BY <1>1 DEF Compute, StandsInv, InPass
  <2>3. DOMAIN live' = {Y(at)} \cup DOMAIN live
    BY <2>1 DEF Over
  <2>4. \A v : Swallowed(v) => Swallowed(v)'
    <3>1. \A f \in DOMAIN folds : f \in DOMAIN folds' /\ DOMAIN folds[f] \subseteq DOMAIN folds'[f]
      BY <2>1, <2>1a DEF Over, FoldState
    <3> QED BY <1>0, <3>1 DEF Swallowed
  <2>5. ASSUME NEW v, Landed(v)', Needed(v)'
        PROVE  v \in DOMAIN live' \/ Swallowed(v)'
    <3>1. v = Y(at) \/ Landed(v)
      BY <1>0, <2>2, <2>5 DEF Landed
    <3>2. Needed(v)
      BY <1>0, <2>2, <2>5 DEF Needed
    <3> QED BY <2>3, <2>4, <3>1, <3>2 DEF EngineInv
  <2>6. DOMAIN input_data' = IF tape[at].kind = "plain" THEN tape[at].ivars ELSE {}
    BY <2>1, <2>1a
  <2> QED BY <1>0, <2>2, <2>3, <2>5, <2>6 DEF EngineInv
<1>2. CASE Release
  <2>1. at' = at + 1 /\ step = "release" /\ step' \in {"compute", "finish"} /\ at \in 1..n
        /\ (step' = "finish" => at = n)
    BY <1>2 DEF Release, StandsInv, InPass
  <2>2. ASSUME NEW v, Landed(v)', Needed(v)'
        PROVE  v \in DOMAIN live' \/ Swallowed(v)'
    <3>1. v = X \/ \E k \in 1..n : v = Y(k) /\ k <= at
      BY <1>0, <2>1, <2>2 DEF Landed
    <3>2. PICK j \in 1..n : j > at /\ v \in tape[j].ivars
      BY <1>0, <2>1, <2>2 DEF Needed
    <3>3. v \in DOMAIN live \/ Swallowed(v)
      BY <1>0, <2>1, <3>1, <3>2 DEF EngineInv, Landed, Needed
    <3>4. ~(j <= at)
      BY <1>0, <3>2
    <3>5. CASE v \in DOMAIN live
      BY <1>0, <1>2, <3>2, <3>4, <3>5, ReleaseFrees DEF Swallowed
    <3>6. CASE Swallowed(v)
      BY <1>0, <1>2, <3>6, ReleaseFrees DEF Swallowed
    <3> QED BY <3>3, <3>5, <3>6
  <2>3. at' <= n' => step' = "compute"
    BY <1>0, <2>1
  <2> QED BY <2>1, <2>2, <2>3 DEF EngineInv
<1>3. CASE Observe \/ Commit \/ Check \/ Finish \/ Drift \/ UNCHANGED vars
  <2>1. /\ UNCHANGED <<at, live, folds, input_data>>
        /\ \/ step' = step
           \/ step \in {"observe", "commit", "check"} /\ step' \in {"commit", "check", "release", "done"}
           \/ step = "finish" /\ step' \in {"commit", "done"}
    BY <1>3 DEF Observe, Commit, Check, Finish, Drift, vars, engine
  <2>2. /\ step' = "compute" <=> step = "compute"
        /\ step' = "observe" => step = "observe"
    BY <2>1
  <2>3. \A v : (Landed(v)' <=> Landed(v)) /\ (Needed(v)' <=> Needed(v)) /\ (Swallowed(v)' <=> Swallowed(v))
    BY <1>0, <2>1, <2>2 DEF Landed, Needed, Swallowed
  <2> QED BY <1>0, <2>1, <2>2, <2>3 DEF EngineInv
<1> QED BY <1>1, <1>2, <1>3 DEF Next
--------------------------------------------------------------------------------
(***************************************************************************)
(* The wires of a set in the order of the tape                             *)
(***************************************************************************)
\* How many wires of S come no later than v.
Rank(S, v) == Cardinality({u \in S : u[2] <= v[2]})

Ranked(S) ==
  /\ IsFiniteSet(S)
  /\ \A u \in S : u[2] \in Int
  /\ \A u, w \in S : u[2] = w[2] => u = w

\* A later wire has a higher rank.
LEMMA RankRises ==
  ASSUME NEW S, Ranked(S), NEW u \in S, NEW w \in S
  PROVE  /\ Rank(S, u) \in 1..Cardinality(S)
         /\ u[2] < w[2] => Rank(S, u) < Rank(S, w)
<1> DEFINE upTo(v) == {x \in S : x[2] <= v[2]}
<1>0. Rank(S, u) = Cardinality(upTo(u)) /\ Rank(S, w) = Cardinality(upTo(w))
  BY DEF Rank
<1>1. \A v \in S : /\ IsFiniteSet(upTo(v)) /\ Cardinality(upTo(v)) \in Nat
                   /\ Cardinality(upTo(v)) <= Cardinality(S) /\ v \in upTo(v)
  BY FS_Subset, FS_CardinalityType DEF Ranked
<1>2. Cardinality(upTo(u)) # 0 /\ Cardinality(S) \in Nat
  BY <1>1, FS_EmptySet, FS_CardinalityType DEF Ranked
<1>3. ASSUME u[2] < w[2]
      PROVE  Cardinality(upTo(u)) < Cardinality(upTo(w))
  <2>1. upTo(u) \subseteq upTo(w) /\ w \notin upTo(u) /\ w \in upTo(w)
    BY <1>1, <1>3 DEF Ranked
  <2>2. Cardinality(upTo(u)) <= Cardinality(upTo(w)) /\ Cardinality(upTo(u)) # Cardinality(upTo(w))
    BY <1>1, <2>1, FS_Subset
  <2> HIDE DEF upTo
  <2> QED BY <1>1, <2>2
<1> HIDE DEF upTo
<1> QED BY <1>0, <1>1, <1>2, <1>3

\* The wires of a set can be counted off, each once.
LEMMA NthNames ==
  ASSUME NEW S, Ranked(S)
  PROVE  /\ \A k \in 1..Cardinality(S) : Nth(S, k) \in S /\ Rank(S, Nth(S, k)) = k
         /\ \A v \in S : Rank(S, v) \in 1..Cardinality(S) /\ Nth(S, Rank(S, v)) = v
<1> DEFINE N == Cardinality(S)
           f == [v \in S |-> Rank(S, v)]
           R == {f[v] : v \in S}
<1>1. N \in Nat /\ IsFiniteSet(1..N) /\ Cardinality(1..N) = N
  BY FS_CardinalityType, FS_Interval DEF Ranked
<1>2. \A u, w \in S : Rank(S, u) \in 1..N /\ (Rank(S, u) = Rank(S, w) => u = w)
  <2> SUFFICES ASSUME NEW u \in S, NEW w \in S
               PROVE  Rank(S, u) \in 1..N /\ (Rank(S, u) = Rank(S, w) => u = w)
    OBVIOUS
  <2>1. /\ Rank(S, u) \in 1..N /\ Rank(S, w) \in 1..N
        /\ u[2] < w[2] => Rank(S, u) < Rank(S, w)
        /\ w[2] < u[2] => Rank(S, w) < Rank(S, u)
    BY RankRises
  <2>2. u[2] \in Int /\ w[2] \in Int /\ (u[2] = w[2] => u = w)
    BY DEF Ranked
  <2> QED BY <2>1, <2>2
<1>3. R = 1..N
  <2>1. f \in Injection(S, 1..N)
    BY <1>2 DEF Injection, IsInjective
  <2>2. f \in Surjection(S, 1..N)
    BY <1>1, <2>1, FS_Injection
  <2>3. \A t \in 1..N : \E v \in S : f[v] = t
    BY <2>2 DEF Surjection
  <2>4. \A v \in S : f[v] \in 1..N
    BY <1>2
  <2> HIDE DEF f, N
  <2>5. \A t \in R : t \in 1..N
    BY <2>4
  <2>6. \A t \in 1..N : t \in R
    BY <2>3
  <2> QED BY <2>5, <2>6
<1>4. ASSUME NEW k \in 1..N PROVE Nth(S, k) \in S /\ Rank(S, Nth(S, k)) = k
  <2>1. \E v \in S : Rank(S, v) = k
    BY <1>3
  <2> QED BY <2>1 DEF Nth, Rank
<1>5. \A v \in S : Nth(S, Rank(S, v)) = v
  BY <1>2, <1>4
<1> QED BY <1>2, <1>4, <1>5

\* The wires of a claim are ranked.
LEMMA WiresRanked ==
  ASSUME StandsInv, NEW i \in 1..n
  PROVE  /\ tape[i].ivars \subseteq {X} \cup {Y(k) : k \in 1..n}
         /\ IsFiniteSet(Wires(i)) /\ IsFiniteSet(tape[i].ivars)
         /\ \A S \in SUBSET Wires(i) : Ranked(S)
         /\ \A k : Y(k) \in tape[i].ivars => k \in 1..n /\ k < i
<1> DEFINE outputs == {Y(j) : j \in 1..n}
<1>1. IsTape(tape) /\ n \in Nat /\ n = Len(tape) /\ DOMAIN tape = 1..n
  BY AtHand
<1>2. /\ tape[i].ivars \subseteq {X} \cup outputs
      /\ \A k \in 1..n : Y(k) \in tape[i].ivars => k < i
  BY <1>1, TapeFacts
<1>3. IsFiniteSet({X} \cup outputs)
  <2> DEFINE f == [j \in 1..n |-> Y(j)]
  <2>1. f \in Surjection(1..n, outputs)
    BY DEF Surjection
  <2>2. IsFiniteSet(outputs)
    BY <1>1, <2>1, FS_Interval, FS_Surjection
  <2> QED BY <2>2, FS_Singleton, FS_Union
<1>4. IsFiniteSet(tape[i].ivars) /\ IsFiniteSet(Wires(i))
  <2>1. Wires(i) \subseteq {X} \cup outputs
    BY <1>2 DEF Wires
  <2> QED BY <1>2, <1>3, <2>1, FS_Subset
<1>5. ASSUME NEW S \in SUBSET Wires(i)
      PROVE  Ranked(S)
  <2>1. S \subseteq {X} \cup outputs /\ IsFiniteSet(S)
    BY <1>2, <1>4, FS_Subset DEF Wires
  <2>2. \A u \in {X} \cup outputs : u[2] \in Int
    BY DEF X, Y
  <2>3. \A u, w \in {X} \cup outputs : u[2] = w[2] => u = w
    <3>1. X[2] = 0 /\ \A j \in 1..n : Y(j)[2] = j
      BY DEF X, Y
    <3> QED BY <3>1
  <2> QED BY <2>1, <2>2, <2>3 DEF Ranked
<1>6. \A k : Y(k) \in tape[i].ivars => k \in 1..n
  BY <1>2, DistinctVars
<1> QED BY <1>2, <1>4, <1>5, <1>6
--------------------------------------------------------------------------------
(***************************************************************************)
(* What the observer holds                                                 *)
(***************************************************************************)
\* The window's values are those of its claims' wires; every wire up to the window
\* has its digest, and those the window mentions first have theirs pending.
HeldInv ==
  /\ DOMAIN window_values = Wired(First, Seen)
  /\ window_blocks = << >> => window_values = << >>
  /\ step = "check" => pending_digests = << >> /\ DOMAIN wire_digests = Wired(0, Seen)
  /\ step # "check" => /\ DOMAIN wire_digests = Wired(0, First)
                       /\ Pending = Wired(0, Seen) \ Wired(0, First)

\* The streams kept are those of the window, and those a later fold absorbs.
FoldKept ==
  /\ fold_values = [v \in DOMAIN fold_values |-> fold_values[v]]
  /\ \A v \in DOMAIN fold_values :
       v \in FoldWires /\ (v \in Wired(First, Seen) \/ fold_last_use(v) > First)
  /\ \A v \in Wired(0, Seen) \cap FoldWires : fold_last_use(v) > First => v \in DOMAIN fold_values

\* The wires of consecutive claims.
LEMMA WiredFacts ==
  /\ \A a \in Int : Wired(a, a) = {}
  /\ \A a, b \in Nat : a <= b => Wired(a, b + 1) = Wired(a, b) \cup Wires(b + 1)
  /\ \A a, b \in Nat : a <= b => Wired(0, a) \subseteq Wired(0, b) /\ Wired(a, b) \subseteq Wired(0, b)
<1>1. \A a \in Int : Wired(a, a) = {}
  BY DEF Wired
<1>2. ASSUME NEW a \in Nat, NEW b \in Nat, a <= b
      PROVE  Wired(a, b + 1) = Wired(a, b) \cup Wires(b + 1)
  <2>1. (a + 1)..(b + 1) = (a + 1)..b \cup {b + 1}
    BY <1>2
  <2> QED BY <2>1 DEF Wired
<1>3. \A a, b \in Nat : a <= b => Wired(0, a) \subseteq Wired(0, b) /\ Wired(a, b) \subseteq Wired(0, b)
  <2>1. \A a, b \in Nat : a <= b => (0 + 1)..a \subseteq (0 + 1)..b /\ (a + 1)..b \subseteq (0 + 1)..b
    OBVIOUS
  <2> QED BY <2>1 DEF Wired
<1> QED BY <1>1, <1>2, <1>3

\* No step changes what is worked out from the tape.
LEMMA TapeFixed ==
  ASSUME [Next]_vars
  PROVE  /\ FoldWires' = FoldWires
         /\ \A v : fold_last_use(v)' = fold_last_use(v)
         /\ \A i : Wires(i)' = Wires(i)
         /\ \A a, b : Wired(a, b)' = Wired(a, b)
         /\ Wired(First, Seen)' = Wired(First', Seen')
         /\ Wired(0, First)' = Wired(0, First') /\ Wired(0, Seen)' = Wired(0, Seen')
<1>1. tape' = tape /\ n' = n
  BY TapeStays
<1> QED BY <1>1 DEF FoldWires, fold_last_use, Wires, Wired

\* Sequences of whatever kind, and what joining them gives.
IsSeq(s) == \E T : s \in Seq(T)

\* Two sequences joined: the first, then the second.
LEMMA Joining ==
  ASSUME NEW s, NEW t, IsSeq(s), IsSeq(t)
  PROVE  /\ IsSeq(s \o t) /\ Len(s \o t) = Len(s) + Len(t)
         /\ Len(s) \in Nat /\ Len(t) \in Nat /\ DOMAIN s = 1..Len(s) /\ DOMAIN t = 1..Len(t)
         /\ DOMAIN (s \o t) = 1..(Len(s) + Len(t))
         /\ \A k \in 1..Len(s) : (s \o t)[k] = s[k]
         /\ \A k \in 1..Len(t) : (s \o t)[Len(s) + k] = t[k]
         /\ Range(s \o t) = Range(s) \cup Range(t)
<1>1. PICK S, T : s \in Seq(S) /\ t \in Seq(T)
  BY DEF IsSeq
<1>2. s \in Seq(S \cup T) /\ t \in Seq(S \cup T)
  BY <1>1
<1>3. s \o t \in Seq(S \cup T) /\ Len(s \o t) = Len(s) + Len(t)
  BY <1>2
<1>4. /\ Len(s) \in Nat /\ Len(t) \in Nat /\ DOMAIN s = 1..Len(s) /\ DOMAIN t = 1..Len(t)
      /\ DOMAIN (s \o t) = 1..(Len(s) + Len(t))
  BY <1>2, <1>3
<1>5. \A k \in 1..Len(s) : (s \o t)[k] = s[k]
  BY <1>2
<1>6. \A k \in 1..Len(t) : (s \o t)[Len(s) + k] = t[k]
  BY <1>2, <1>4
<1>7. \A k \in 1..(Len(s) + Len(t)) :
        /\ k \in 1..Len(s) \/ k - Len(s) \in 1..Len(t)
        /\ k = Len(s) + (k - Len(s))
  BY <1>4
<1>8. Range(s \o t) = Range(s) \cup Range(t)
  <2> DEFINE j == s \o t
             a == Len(s)
             b == Len(t)
  <2>1. /\ a \in Nat /\ b \in Nat /\ DOMAIN j = 1..(a + b) /\ DOMAIN s = 1..a /\ DOMAIN t = 1..b
        /\ \A k \in 1..a : j[k] = s[k]
        /\ \A k \in 1..b : j[a + k] = t[k]
        /\ \A k \in 1..(a + b) : (k \in 1..a \/ k - a \in 1..b) /\ k = a + (k - a)
    BY <1>4, <1>5, <1>6, <1>7
  <2> HIDE DEF j, a, b
  <2>2. \A k \in 1..a : k \in 1..(a + b)
    BY <2>1
  <2>3. \A k \in 1..b : a + k \in 1..(a + b)
    BY <2>1
  <2>4. ASSUME NEW x \in Range(j) PROVE x \in Range(s) \/ x \in Range(t)
    <3>1. PICK k \in 1..(a + b) : x = j[k]
      BY <2>1, <2>4 DEF Range
    <3>2. CASE k \in 1..a
      BY <2>1, <3>1, <3>2 DEF Range
    <3>3. CASE k - a \in 1..b
      <4>1. k = a + (k - a)
        BY <2>1
      <4>2. j[k] = t[k - a]
        BY <2>1, <3>3, <4>1
      <4> QED BY <2>1, <3>1, <3>3, <4>2 DEF Range
    <3> QED BY <2>1, <3>2, <3>3
  <2>5. \A x \in Range(s) : x \in Range(j)
    BY <2>1, <2>2 DEF Range
  <2>6. \A x \in Range(t) : x \in Range(j)
    BY <2>1, <2>3 DEF Range
  <2>7. Range(j) = Range(s) \cup Range(t)
    BY <2>4, <2>5, <2>6
  <2> QED BY <2>7 DEF j
<1> QED BY <1>3, <1>4, <1>5, <1>6, <1>8 DEF IsSeq

\* What an observation adds to the pending digests: its new wires, in their order.
New == Wires(at) \ Digested
NewPairs == [k \in 1..Cardinality(New) |-> LET v == Nth(New, k) IN <<v, ValueOf(v)>>]

\* An observation appends its new wires to the pending digests.
LEMMA PendingGrows ==
  ASSUME StandsInv, Observe, IsSeq(pending_digests)
  PROVE  /\ pending_digests' = pending_digests \o NewPairs
         /\ IsSeq(NewPairs) /\ Len(NewPairs) = Cardinality(New)
         /\ IsSeq(pending_digests')
         /\ Range(pending_digests') = Range(pending_digests) \cup {<<v, ValueOf(v)>> : v \in New}
         /\ Pending' = Pending \cup New
<1>1. at \in 1..n
  BY DEF Observe, StandsInv, InPass
<1>2. Ranked(New)
  BY <1>1, WiresRanked DEF New
<1>3. Cardinality(New) \in Nat
  BY <1>2, FS_CardinalityType DEF Ranked
<1> DEFINE N == Cardinality(New)
           P == {<<v, ValueOf(v)>> : v \in New}
<1>4. /\ \A k \in 1..N : Nth(New, k) \in New
      /\ \A v \in New : \E k \in 1..N : Nth(New, k) = v
  BY <1>2, NthNames
<1>5. \A k \in 1..N : NewPairs[k] = <<Nth(New, k), ValueOf(Nth(New, k))>>
  BY DEF NewPairs
<1>6. DOMAIN NewPairs = 1..N
  BY DEF NewPairs
<1>7. pending_digests' = pending_digests \o NewPairs
  BY DEF Observe, NewPairs, New
<1>8. Range(NewPairs) = P
  <2>1. \A x \in Range(NewPairs) : x \in P
    BY <1>4, <1>5, <1>6 DEF Range
  <2>2. \A x \in P : x \in Range(NewPairs)
    BY <1>4, <1>5, <1>6 DEF Range
  <2> QED BY <2>1, <2>2
<1>9. IsSeq(NewPairs) /\ Len(NewPairs) = N
  <2>1. NewPairs \in [1..N -> P]
    BY <1>4 DEF NewPairs
  <2> HIDE DEF N, P
  <2>2. NewPairs \in Seq(P) /\ Len(NewPairs) = N
    BY <1>3, <2>1 DEF N
  <2> QED BY <2>2 DEF IsSeq
<1>10. IsSeq(pending_digests') /\ Range(pending_digests') = Range(pending_digests) \cup P
  BY <1>7, <1>8, <1>9, Joining
<1>11. Pending = {p[1] : p \in Range(pending_digests)} /\ Pending' = {p[1] : p \in Range(pending_digests')}
  BY DEF Pending, Range
<1>12. {p[1] : p \in P} = New
  <2>1. \A v \in New : <<v, ValueOf(v)>> \in P /\ <<v, ValueOf(v)>>[1] = v
    OBVIOUS
  <2>2. \A p \in P : \E v \in New : p[1] = v
    OBVIOUS
  <2> HIDE DEF P
  <2> QED BY <2>1, <2>2
<1>13. Pending' = Pending \cup New
  BY <1>10, <1>11, <1>12
<1> QED BY <1>7, <1>9, <1>10, <1>13

\* The last fold that absorbs a stream.
LEMMA FoldLastUse ==
  ASSUME StandsInv, NEW v \in FoldWires
  PROVE  /\ fold_last_use(v) \in 1..n /\ v \in tape[fold_last_use(v)].ivars
         /\ tape[fold_last_use(v)].kind = "fold"
         /\ \A f \in 1..n : v \in Foldable(tape, f) => f <= fold_last_use(v)
<1>1. n \in Nat /\ DOMAIN tape = 1..n
  BY AtHand
<1> DEFINE A == Absorbers(tape, v)
<1>2. A \subseteq Nat /\ A # {} /\ \A f \in A : f <= n
  BY <1>1 DEF FoldWires, Absorbers
<1>3. fold_last_use(v) \in A /\ \A f \in A : f <= fold_last_use(v)
  <2>1. fold_last_use(v) = Max(A)
    BY DEF fold_last_use
  <2> HIDE DEF A
  <2> QED BY <1>1, <1>2, <2>1, MaxIsGreatest
<1> QED BY <1>1, <1>3 DEF Absorbers, Foldable

\* Before the first claim the observer holds nothing.
LEMMA HeldInit ==
  ASSUME Init
  PROVE  HeldInv /\ FoldKept /\ IsSeq(pending_digests)
<1>1. /\ step = "compute" /\ Seen = 0 /\ window_blocks = << >>
      /\ window_values = << >> /\ pending_digests = << >> /\ wire_digests = << >> /\ fold_values = << >>
  BY DEF Init, Seen
<1>2. First = 0
  <2>1. Len(window_blocks) = 0 /\ Seen = 0
    BY <1>1
  <2> QED BY ONLY <2>1 DEF First
<1>3. Wired(0, 0) = {}
  BY WiredFacts
<1>4. DOMAIN << >> = {}
  OBVIOUS
<1>5. Pending = {}
  BY <1>1, <1>4 DEF Pending
<1>6. HeldInv
  BY <1>1, <1>2, <1>3, <1>4, <1>5 DEF HeldInv
<1>7. FoldKept
  <2>1. fold_values = [v \in DOMAIN fold_values |-> fold_values[v]]
    BY <1>1, <1>4
  <2> QED BY <1>1, <1>2, <1>3, <1>4, <2>1 DEF FoldKept
<1>8. pending_digests \in Seq({})
  BY <1>1
<1> QED BY <1>6, <1>7, <1>8 DEF IsSeq

\* The observer goes on holding the wires of its window, and no others.
LEMMA HeldStep ==
  ASSUME StandsInv, WindowInv, HeldInv, IsSeq(pending_digests), [Next]_vars
  PROVE  HeldInv' /\ IsSeq(pending_digests')
<1>0. /\ First \in Nat /\ Seen \in Nat /\ Len(window_blocks) \in Nat /\ First <= Seen
      /\ Wired(First, Seen)' = Wired(First', Seen')
      /\ Wired(0, First)' = Wired(0, First') /\ Wired(0, Seen)' = Wired(0, Seen')
  <2>1. Seen \in Nat /\ First \in Nat /\ Len(window_blocks) \in Nat
    BY AtHand DEF WindowInv
  <2> QED BY <2>1, TapeFixed DEF First
<1>1. CASE Observe
  <2>1. /\ Seen' = Seen + 1 /\ First' = First /\ Seen + 1 = at
        /\ window_blocks' = Append(window_blocks, at)
    BY <1>1, WindowMoves DEF Observe, Check
  <2>2. /\ step = "observe" /\ step' \in {"commit", "release"} /\ wire_digests' = wire_digests
        /\ window_values' = Over(Kept, window_values)
    BY <1>1 DEF Observe
  <2>3. DOMAIN window_values' = Wired(First, Seen) \cup Wires(at)
    <3>1. DOMAIN Kept = Wires(at) \ DOMAIN window_values
      BY DEF Kept
    <3>2. DOMAIN window_values' = DOMAIN Kept \cup DOMAIN window_values
      BY <2>2, OverDomain
    <3> QED BY <3>1, <3>2, <2>2 DEF HeldInv
  <2>4. Wired(First, Seen + 1) = Wired(First, Seen) \cup Wires(at)
        /\ Wired(0, Seen + 1) = Wired(0, Seen) \cup Wires(at) /\ Wired(0, First) \subseteq Wired(0, Seen)
    BY <1>0, <2>1, WiredFacts
  <2>5. Digested = Wired(0, Seen)
    BY <2>2, <2>4 DEF Digested, HeldInv
  <2>6. Pending' = Wired(0, Seen') \ Wired(0, First')
    BY <1>1, <2>1, <2>2, <2>4, <2>5, PendingGrows DEF New, HeldInv
  <2>7. window_blocks' # << >>
    BY <2>1 DEF WindowInv
  <2> QED BY <1>0, <1>1, <2>1, <2>2, <2>3, <2>4, <2>6, <2>7, PendingGrows DEF HeldInv
<1>2. CASE Commit
  <2>1. /\ step = "commit" /\ step' = "check" /\ pending_digests' = << >>
        /\ UNCHANGED <<window_values, window_blocks>>
        /\ DOMAIN wire_digests' = Pending \cup DOMAIN wire_digests
    BY <1>2 DEF Commit, Over, window
  <2>2. UNCHANGED <<Seen, First>>
    BY <1>2, <2>1, WindowMoves DEF Observe, Check
  <2>3. Wired(0, First) \subseteq Wired(0, Seen)
    BY <1>0, WiredFacts
  <2>4. pending_digests' \in Seq({})
    BY <2>1
  <2> QED BY <1>0, <2>1, <2>2, <2>3, <2>4 DEF HeldInv, IsSeq
<1>3. CASE Check
  <2>1. Seen' = Seen /\ First' = Seen /\ window_blocks' = << >>
    BY <1>3, WindowMoves DEF Observe, Check
  <2>2. /\ step = "check" /\ step' \in {"release", "done"} /\ window_values' = << >>
        /\ UNCHANGED <<pending_digests, wire_digests>>
    BY <1>3 DEF Check, digests
  <2>3. Wired(Seen, Seen) = {} /\ DOMAIN << >> = {}
    BY <1>0, WiredFacts
  <2>4. Pending' = {}
    BY <2>2, <2>3 DEF Pending, HeldInv
  <2> QED BY <1>0, <2>1, <2>2, <2>3, <2>4 DEF HeldInv
<1>4. CASE Compute \/ Release \/ Finish \/ Drift \/ UNCHANGED vars
  <2>1. UNCHANGED <<window_values, window_blocks, pending_digests, wire_digests>>
    BY <1>4 DEF Compute, Release, Finish, Drift, vars, window, digests
  <2>2. UNCHANGED <<Seen, First>>
    <3>1. ~Observe \/ UNCHANGED vars
      BY <1>4 DEF Compute, Release, Finish, Drift, Observe
    <3>2. ~Check \/ UNCHANGED vars
      BY <1>4 DEF Compute, Release, Finish, Drift, Check
    <3>3. CASE UNCHANGED vars
      BY <3>3 DEF vars, window, Seen, First, n
    <3> QED BY <3>1, <3>2, <3>3, WindowMoves
  <2>3. step' = "check" <=> step = "check"
    BY <1>4 DEF Compute, Release, Finish, Drift, vars
  <2>4. Pending' = Pending
    BY <2>1 DEF Pending
  <2> QED BY <1>0, <2>1, <2>2, <2>3, <2>4 DEF HeldInv
<1> QED BY <1>1, <1>2, <1>3, <1>4 DEF Next

\* The streams a window's release leaves are those of later folds.
LEMMA FoldStep ==
  ASSUME StandsInv, WindowInv, HeldInv, FoldKept, [Next]_vars
  PROVE  FoldKept'
<1>0. /\ First \in Nat /\ Seen \in Nat /\ Len(window_blocks) \in Nat /\ First <= Seen
      /\ Wired(First, Seen)' = Wired(First', Seen') /\ Wired(0, Seen)' = Wired(0, Seen')
      /\ FoldWires' = FoldWires /\ \A v : fold_last_use(v)' = fold_last_use(v)
  <2>1. Seen \in Nat /\ First \in Nat /\ Len(window_blocks) \in Nat
    BY AtHand DEF WindowInv
  <2> QED BY <2>1, TapeFixed DEF First
<1>1. CASE Observe
  <2>1. Seen' = Seen + 1 /\ First' = First /\ Seen + 1 = at
    BY <1>1, WindowMoves DEF Observe, Check
  <2> DEFINE taken == (Wires(at) \cap FoldWires) \ DOMAIN fold_values
  <2>2. fold_values' = Over([v \in taken |-> window_values'[v]], fold_values)
    BY <1>1 DEF Observe, Retained
  <2>3. DOMAIN fold_values' = taken \cup DOMAIN fold_values
    BY <2>2 DEF Over
  <2>4. fold_values' = [v \in DOMAIN fold_values' |-> fold_values'[v]]
    BY <2>2 DEF Over
  <2>5. Wired(First, Seen + 1) = Wired(First, Seen) \cup Wires(at)
        /\ Wired(0, Seen + 1) = Wired(0, Seen) \cup Wires(at)
    BY <1>0, <2>1, WiredFacts
  <2> QED BY <1>0, <2>1, <2>3, <2>4, <2>5 DEF FoldKept
<1>2. CASE Check
  <2>1. Seen' = Seen /\ First' = Seen
    BY <1>2, WindowMoves DEF Observe, Check
  <2>2. fold_values' = Restrict(fold_values, StillFolded)
    BY <1>2 DEF Check
  <2>3. DOMAIN fold_values' = StillFolded /\ fold_values' = [v \in DOMAIN fold_values' |-> fold_values'[v]]
    BY <2>2 DEF Restrict
  <2>4. Last(window_blocks) = Seen
    <3>1. step = "check" /\ Len(window_blocks) \in 1..params.window_size
      BY <1>2 DEF Check, WindowInv
    <3>2. window_blocks[Len(window_blocks)] = First + Len(window_blocks)
      BY <1>0, <3>1 DEF WindowInv
    <3> QED BY <1>0, <3>2 DEF Last, First
  <2>5. \A v \in FoldWires : fold_last_use(v) > Seen => fold_last_use(v) > First
    BY <1>0, FoldLastUse
  <2> QED BY <1>0, <2>1, <2>3, <2>4, <2>5 DEF FoldKept, StillFolded
<1>3. CASE Compute \/ Commit \/ Release \/ Finish \/ Drift \/ UNCHANGED vars
  <2>1. UNCHANGED fold_values
    BY <1>3 DEF Compute, Commit, Release, Finish, Drift, vars, window
  <2>2. UNCHANGED <<Seen, First>>
    <3>1. ~Observe \/ UNCHANGED vars
      BY <1>3 DEF Compute, Commit, Release, Finish, Drift, Observe
    <3>2. ~Check \/ UNCHANGED vars
      BY <1>3 DEF Compute, Commit, Release, Finish, Drift, Check
    <3>3. CASE UNCHANGED vars
      BY <3>3 DEF vars, window, Seen, First, n
    <3> QED BY <3>1, <3>2, <3>3, WindowMoves
  <2> QED BY <1>0, <2>1, <2>2 DEF FoldKept
<1> QED BY <1>1, <1>2, <1>3 DEF Next
--------------------------------------------------------------------------------
(***************************************************************************)
(* No value is missing and none is kept too long                           *)
(***************************************************************************)
ResidentInv ==
  /\ StandsInv /\ WindowInv /\ EngineInv /\ HeldInv /\ FoldKept
  /\ IsSeq(pending_digests)

\* A value a claim from here on reads, written already: in memory, or in the fold
\* that alone reads it.
LEMMA InMemory ==
  ASSUME ResidentInv, NEW j \in 1..n, j >= at, NEW v \in tape[j].ivars,
         v = X \/ \E k \in 1..n : v = Y(k) /\ k < at
  PROVE  \/ v \in DOMAIN live
         \/ j \in DOMAIN folds /\ OnlyConsumer(tape, v, j) /\ v \in DOMAIN folds[j] /\ v # X
<1>1. IsTape(tape) /\ DOMAIN tape = 1..n
  BY AtHand DEF ResidentInv
<1>2. Landed(v) /\ Needed(v)
  BY DEF Landed, Needed
<1>3. ASSUME Swallowed(v)
      PROVE  j \in DOMAIN folds /\ OnlyConsumer(tape, v, j) /\ v \in DOMAIN folds[j] /\ v # X
  <2>1. PICK f \in DOMAIN folds : OnlyConsumer(tape, v, f) /\ v \in DOMAIN folds[f]
    BY <1>3 DEF Swallowed
  <2>2. f = j
    BY <1>1, <2>1 DEF OnlyConsumer, Consumers
  <2>3. v # X
    BY <1>1, <2>1, TapeFacts DEF OnlyConsumer, Absorbers, IsTape, Foldable
  <2> QED BY <2>1, <2>2, <2>3
<1> QED BY <1>2, <1>3 DEF ResidentInv, EngineInv

\* What the claim at hand reads was written before.
LEMMA ReadsEarlier ==
  ASSUME StandsInv, NEW j \in 1..n, NEW v \in tape[j].ivars
  PROVE  v = X \/ \E k \in 1..n : v = Y(k) /\ k < j
<1>1. IsTape(tape) /\ DOMAIN tape = 1..n /\ n = Len(tape)
  BY AtHand
<1>2. tape[j].ivars \subseteq {X} \cup {Y(k) : k \in 1..n}
      /\ \A k \in 1..n : Y(k) \in tape[j].ivars => k < j
  BY <1>1, TapeFacts
<1> QED BY <1>2

\* Nobody asks for a value that is gone.
LEMMA NothingRaises ==
  ASSUME ResidentInv
  PROVE  NeverRaises
<1>0. /\ StandsInv /\ IsTape(tape) /\ DOMAIN tape = 1..n /\ n \in Nat /\ at \in 1..(n + 1)
      /\ step \in {"compute", "observe", "release"} => at \in 1..n
      /\ First \in Nat /\ Seen \in Nat
  BY AtHand DEF ResidentInv, StandsInv, InPass, WindowInv
<1>1. ASSUME step = "compute", NEW v \in Reads PROVE v \in DOMAIN live
  <2>1. at \in 1..n /\ v \in tape[at].ivars
    BY <1>0, <1>1 DEF Reads
  <2>2. v = X \/ \E k \in 1..n : v = Y(k) /\ k < at
    BY <1>0, <2>1, ReadsEarlier
  <2>3. ~(at \in DOMAIN folds /\ OnlyConsumer(tape, v, at) /\ v \in DOMAIN folds[at])
    BY <1>0, <1>1, OnlyConsumerFacts DEF Reads
  <2> QED BY <2>1, <2>2, <2>3, InMemory
<1>2. ASSUME step = "observe", NEW v \in Asked PROVE Resident(v)
  <2>1. at \in 1..n /\ v \in Wires(at) /\ (v \notin Digested \/ v \notin DOMAIN fold_values)
    BY <1>0, <1>2 DEF Asked
  <2>2. CASE v = Y(at)
    BY <1>0, <1>2, <2>2 DEF ResidentInv, EngineInv, Resident
  <2>3. CASE v \in tape[at].ivars
    <3>1. v = X \/ \E k \in 1..n : v = Y(k) /\ k < at
      BY <1>0, <2>1, <2>3, ReadsEarlier
    <3>2. CASE at \in DOMAIN folds /\ OnlyConsumer(tape, v, at) /\ v \in DOMAIN folds[at] /\ v # X
      <4>1. PICK k \in 1..n : v = Y(k) /\ k < at
        BY <3>1, <3>2
      <4>2. Seen = at - 1
        BY <1>2 DEF Seen
      <4>3. v \in Wired(0, Seen)
        <5>1. k \in (0 + 1)..Seen /\ v \in Wires(k)
          BY <1>0, <2>1, <4>1, <4>2 DEF Wires
        <5> QED BY <5>1 DEF Wired
      <4>4. v \in Foldable(tape, at)
        BY <3>2 DEF OnlyConsumer, Absorbers
      <4>5. v \in FoldWires
        BY <2>1, <4>4 DEF FoldWires
      <4>6. at <= fold_last_use(v) /\ fold_last_use(v) \in Nat
        BY <1>0, <2>1, <4>4, <4>5, FoldLastUse
      <4>7. First <= Seen
        BY <1>0, AtHand DEF First, ResidentInv, WindowInv
      <4>8. v \in DOMAIN fold_values
        BY <1>0, <4>2, <4>3, <4>5, <4>6, <4>7 DEF ResidentInv, FoldKept
      <4>9. v \in Digested
        BY <1>0, <1>2, <4>3 DEF Digested, ResidentInv, HeldInv
      <4> QED BY <2>1, <4>8, <4>9
    <3>3. CASE v \in DOMAIN live
      BY <3>3 DEF Resident
    <3> QED BY <1>0, <2>1, <2>3, <3>1, <3>2, <3>3, InMemory
  <2> QED BY <2>1, <2>2, <2>3 DEF Wires
<1>3. ASSUME step = "check", NEW b \in Range(window_blocks) PROVE Wires(b) \subseteq DOMAIN window_values
  <2>1. PICK k \in 1..Len(window_blocks) : b = window_blocks[k]
    BY DEF Range, ResidentInv, WindowInv
  <2>2. b = First + k /\ Len(window_blocks) \in Nat
    BY <2>1 DEF ResidentInv, WindowInv
  <2>3. b \in (First + 1)..Seen
    BY <1>0, <2>2 DEF First
  <2> QED BY <2>3 DEF Wired, ResidentInv, HeldInv
<1>4. ASSUME step = "release", NEW f \in Absorbers(tape, Y(at)) \ DOMAIN folds,
             Absorbers(tape, Y(at)) = {f}
      PROVE  tape[f].mask \in DOMAIN live
  <2>1. /\ f \in 1..n /\ at < f /\ tape[f].kind = "fold" /\ tape[f].mask \in tape[f].ivars
        /\ tape[f].mask = X \/ \E k \in 1..n : tape[f].mask = Y(k) /\ k < at
    <3>1. at \in DOMAIN tape /\ Absorbers(tape, Y(at)) = {f} /\ IsTape(tape)
      BY <1>0, <1>4
    <3> QED BY <1>0, <3>1, LoneAbsorber
  <2>2. f >= at
    BY <1>0, <2>1
  <2>3. ~OnlyConsumer(tape, tape[f].mask, f)
    BY <1>0, OnlyConsumerFacts
  <2> QED BY <2>1, <2>2, <2>3, InMemory
<1> QED BY <1>1, <1>2, <1>3, <1>4 DEF NeverRaises

\* Nothing is kept beyond its window but the streams of later folds.
LEMMA NothingIsRetained ==
  ASSUME ResidentInv
  PROVE  RetainedIsNeeded
<1>0. /\ StandsInv /\ n \in Nat /\ at \in 1..(n + 1) /\ First \in Nat /\ Seen \in 0..n
      /\ step \in {"finish", "done"} => at = n + 1
      /\ Len(window_blocks) \in Nat /\ DOMAIN window_blocks = 1..Len(window_blocks)
      /\ Seen = First + Len(window_blocks)
  <2>1. /\ StandsInv /\ n \in Nat /\ at \in 1..(n + 1) /\ First \in Nat /\ Seen \in 0..n
        /\ step \in {"finish", "done"} => at = n + 1
        /\ Len(window_blocks) \in Nat /\ DOMAIN window_blocks = 1..Len(window_blocks)
    BY AtHand DEF ResidentInv, StandsInv, InPass, WindowInv
  <2> QED BY <2>1 DEF First
<1> DEFINE here == UNION {Wires(b) : b \in Range(window_blocks)}
<1>1. here = Wired(First, Seen)
  <2>1. Range(window_blocks) = (First + 1)..Seen
    <3>1. \A b \in Range(window_blocks) : b \in (First + 1)..Seen
      BY <1>0 DEF Range, ResidentInv, WindowInv
    <3>2. ASSUME NEW b \in (First + 1)..Seen PROVE b \in Range(window_blocks)
      <4>1. b - First \in 1..Len(window_blocks) /\ First + (b - First) = b
        BY <1>0
      <4>2. window_blocks[b - First] = b
        BY <4>1 DEF ResidentInv, WindowInv
      <4> QED BY <1>0, <4>1, <4>2 DEF Range
    <3> QED BY <3>1, <3>2
  <2> QED BY <2>1 DEF Wired
<1>2. ASSUME step = "compute"
      PROVE  /\ DOMAIN window_values = here
             /\ \A v \in DOMAIN fold_values \ here : fold_last_use(v) >= at - Len(window_blocks)
  <2>1. Seen = at - 1
    BY <1>2 DEF Seen
  <2>2. ASSUME NEW v \in DOMAIN fold_values \ here
        PROVE  fold_last_use(v) >= at - Len(window_blocks)
    <3>1. fold_last_use(v) > First /\ v \in FoldWires
      BY <1>1, <2>2 DEF ResidentInv, FoldKept
    <3>2. fold_last_use(v) \in 1..n
      BY <1>0, <3>1, FoldLastUse
    <3>3. First = at - 1 - Len(window_blocks)
      BY <1>0, <2>1
    <3> HIDE DEF here
    <3> QED BY <1>0, <3>1, <3>2, <3>3
  <2> QED BY <1>1, <2>2 DEF ResidentInv, HeldInv
<1>3. ASSUME step = "done" PROVE window_values = << >> /\ fold_values = << >>
  <2>1. window_blocks = << >> /\ Seen = n
    BY <1>0, <1>3 DEF ResidentInv, WindowInv, Seen
  <2>2. First = Seen
    <3>1. Len(window_blocks) = 0
      BY <2>1
    <3> QED BY ONLY <1>0, <3>1
  <2>3. Wired(First, Seen) = {}
    BY <1>0, <2>2, WiredFacts
  <2>4. DOMAIN fold_values = {}
    <3> SUFFICES ASSUME NEW v \in DOMAIN fold_values PROVE FALSE
      OBVIOUS
    <3>1. v \in FoldWires /\ fold_last_use(v) > First
      BY <2>3 DEF ResidentInv, FoldKept
    <3> QED BY <1>0, <2>1, <2>2, <3>1, FoldLastUse
  <2>5. fold_values = << >>
    BY <2>4 DEF ResidentInv, FoldKept
  <2> QED BY <2>1, <2>5 DEF ResidentInv, HeldInv
<1> QED BY <1>2, <1>3 DEF RetainedIsNeeded

\* What is where, at the start.
LEMMA ResidentInit == Init => ResidentInv
BY StandsInit, EngineInit, HeldInit DEF ResidentInv

\* What is where, at every step.
LEMMA ResidentStep == ResidentInv /\ [Next]_vars => ResidentInv'
BY StandsStep, WindowStep, EngineStep, HeldStep, FoldStep DEF ResidentInv

\* Neither the engine nor the audit over it ever asks for a value that run_engine_pass
\* has freed or a fold has swallowed: _wire_ref finds every wire it digests, _check every
\* wire of the sampled claims, and a fold its mask, on every tape.
THEOREM ValuesAreThere == Spec => []NeverRaises
BY ResidentInit, ResidentStep, NothingRaises, PTL DEF Spec

\* Between claims window_values holds the wires of the window alone, fold_values beyond
\* them only the streams that a fold still to come absorbs, and finish leaves nothing:
\* the audit's memory is bounded by the window, whatever the length of the tape.
THEOREM OnlyNeededIsKept == Spec => []RetainedIsNeeded
BY ResidentInit, ResidentStep, NothingIsRetained, PTL DEF Spec
--------------------------------------------------------------------------------
(***************************************************************************)
(* Values                                                                  *)
(***************************************************************************)
\* How many claims have been computed.
Done == IF step = "compute" THEN at - 1 ELSE IF at <= n THEN at ELSE n

\* A value of the input is what its loader returned, now or before it drifted; one
\* of a claim's output is what the claim wrote.
RightValue(v, x) ==
  /\ v = X => x \in {FirstBytes, OtherBytes} /\ (bytes = FirstBytes => x = FirstBytes)
  /\ \A k : v = Y(k) => k \in DOMAIN used /\ x = used[k].out
Right(f) == \A v \in DOMAIN f : RightValue(v, f[v])

\* What every claim so far read and wrote.
UsedInv ==
  /\ DOMAIN used = 1..Done
  /\ wrong \subseteq 1..Done
  /\ \A k \in 1..Done : /\ tape[k].ivars \subseteq DOMAIN used[k].ins
                        /\ used[k].out = Correct(k, used[k].ins) + IF k \in wrong THEN Slip ELSE 0
                        /\ used[k].out \in Int
                        /\ Right(used[k].ins)
  /\ step = "observe" /\ tape[at].kind = "plain" => input_data = used[at].ins

\* What the engine holds.
LiveInv ==
  /\ \A v \in DOMAIN live : RightValue(v, Load(v))
  /\ \A f \in DOMAIN folds : Right(folds[f])
  /\ Right(input_data)

\* A step computes at most the claim at hand.
LEMMA DoneMoves ==
  ASSUME ResidentInv, [Next]_vars
  PROVE  /\ Done \in Nat
         /\ \/ Compute /\ at \in 1..n /\ Done = at - 1 /\ Done' = at /\ at' = at
            \/ ~Compute /\ Done' = Done /\ used' = used /\ wrong' = wrong
<1>0. /\ n' = n /\ n \in Nat /\ at \in 1..(n + 1)
      /\ step \in {"compute", "observe", "release"} => at \in 1..n
  BY TapeStays, AtHand DEF ResidentInv, StandsInv, InPass
<1>1. CASE Compute
  <2>1. step = "compute" /\ step' = "observe" /\ at' = at
    BY <1>1 DEF Compute
  <2> QED BY <1>0, <1>1, <2>1 DEF Done
<1>2. CASE Release
  <2>1. step = "release" /\ step' = (IF at < n THEN "compute" ELSE "finish") /\ at' = at + 1
        /\ used' = used /\ wrong' = wrong
    BY <1>2 DEF Release
  <2> QED BY <1>0, <2>1 DEF Done, Compute
<1>3. CASE Observe \/ Commit \/ Check \/ Finish \/ Drift \/ UNCHANGED vars
  <2>1. /\ at' = at /\ used' = used /\ wrong' = wrong
        /\ step' = "compute" <=> step = "compute"
    BY <1>3 DEF Observe, Commit, Check, Finish, Drift, vars, engine
  <2>2. ~Compute \/ UNCHANGED vars
    BY <1>3 DEF Observe, Commit, Check, Finish, Drift, Compute
  <2> QED BY <1>0, <1>1, <2>1, <2>2 DEF Done
<1> QED BY <1>1, <1>2, <1>3 DEF Next

\* A value that is right stays right.
LEMMA RightStays ==
  ASSUME ResidentInv, UsedInv, [Next]_vars
  PROVE  /\ \A k \in DOMAIN used : k \in DOMAIN used' /\ used'[k] = used[k]
         /\ \A v, x : RightValue(v, x) => RightValue(v, x)'
<1>1. \A k \in DOMAIN used : k \in DOMAIN used' /\ used'[k] = used[k]
  <2>1. CASE Compute
    <3>1. at \notin DOMAIN used
      BY <2>1, DoneMoves DEF UsedInv
    <3>2. PICK ins, out : used' = Over([i \in {at} |-> [ins |-> ins, out |-> out]], used)
      BY <2>1 DEF Compute
    <3> QED BY <3>1, <3>2 DEF Over
  <2> QED BY <2>1, DoneMoves
<1>2. bytes' = bytes \/ (bytes = FirstBytes /\ bytes' = OtherBytes)
  BY DEF Next, Compute, Observe, Commit, Check, Release, Finish, Drift, vars
<1>3. FirstBytes # OtherBytes
  BY DEF FirstBytes, OtherBytes
<1> QED BY <1>1, <1>2, <1>3 DEF RightValue

\* A right value of a wire is a number.
LEMMA RightInt ==
  ASSUME ResidentInv, UsedInv, NEW k \in 1..n, NEW f, Right(f), tape[k].ivars \subseteq DOMAIN f
  PROVE  \A v \in tape[k].ivars : f[v] \in Int
<1>1. tape[k].ivars \subseteq {X} \cup {Y(j) : j \in 1..n}
  BY WiresRanked DEF ResidentInv
<1>2. FirstBytes \in Int /\ OtherBytes \in Int
  BY DEF FirstBytes, OtherBytes
<1> QED BY <1>1, <1>2 DEF Right, RightValue, UsedInv

\* What a claim computes from right values is a number.
LEMMA CorrectInt ==
  ASSUME ResidentInv, UsedInv, NEW k \in 1..n, NEW f, Right(f), tape[k].ivars \subseteq DOMAIN f
  PROVE  Correct(k, f) \in Int
<1>1. IsFiniteSet(tape[k].ivars)
  BY WiresRanked DEF ResidentInv
<1>2. \A v \in tape[k].ivars : f[v] \in Int
  BY RightInt
<1>3. SumOf(f, tape[k].ivars) \in Int
  BY <1>1, <1>2, SumInt
<1> QED BY <1>3 DEF Correct, Weights

\* Right values laid over right values are right.
LEMMA RightOver ==
  ASSUME NEW f, NEW g, Right(f), Right(g)
  PROVE  Right(Over(f, g))
BY DEF Right, Over

\* What is fetched from memory is right.
LEMMA RightLoaded ==
  ASSUME LiveInv, NEW S, S \subseteq DOMAIN live
  PROVE  Right(Loaded(S))
BY DEF LiveInv, Right, Loaded

\* What the claim at hand is computed from is right, and covers what it reads.
LEMMA ComputeReads ==
  ASSUME ResidentInv, UsedInv, LiveInv, Compute
  PROVE  \E ins, out :
           /\ Right(ins) /\ tape[at].ivars \subseteq DOMAIN ins
           /\ out = Correct(at, ins) + IF at \in wrong' THEN Slip ELSE 0
           /\ at \notin wrong /\ (wrong' = wrong \/ wrong' = wrong \cup {at})
           /\ used' = Over([i \in {at} |-> [ins |-> ins, out |-> out]], used)
           /\ live' = Over([v \in {Y(at)} |-> out], live)
           /\ folds' = IF tape[at].kind = "fold" THEN Over([i \in {at} |-> ins], folds) ELSE folds
           /\ input_data' = IF tape[at].kind = "plain" THEN ins ELSE << >>
<1>0. /\ step = "compute" /\ at \in 1..n /\ Done = at - 1 /\ Reads \subseteq DOMAIN live
      /\ IsTape(tape) /\ DOMAIN tape = 1..n
  BY AtHand DEF Compute, ResidentInv, StandsInv, InPass, Done
<1>1. PICK errs \in BOOLEAN :
       LET ins == IF tape[at].kind = "fold" THEN Over(FoldState(at), Loaded(Reads \ DOMAIN FoldState(at)))
                  ELSE Loaded(tape[at].ivars)
           out == Correct(at, ins) + IF errs THEN Slip ELSE 0
       IN /\ wrong' = IF errs THEN wrong \cup {at} ELSE wrong
          /\ used' = Over([i \in {at} |-> [ins |-> ins, out |-> out]], used)
          /\ live' = Over([v \in {Y(at)} |-> out], live)
          /\ folds' = IF tape[at].kind = "fold" THEN Over([i \in {at} |-> ins], folds) ELSE folds
          /\ input_data' = IF tape[at].kind = "plain" THEN ins ELSE << >>
  BY DEF Compute
<1> DEFINE ins == IF tape[at].kind = "fold" THEN Over(FoldState(at), Loaded(Reads \ DOMAIN FoldState(at)))
                  ELSE Loaded(tape[at].ivars)
           out == Correct(at, ins) + IF errs THEN Slip ELSE 0
<1>2. /\ wrong' = IF errs THEN wrong \cup {at} ELSE wrong
      /\ used' = Over([i \in {at} |-> [ins |-> ins, out |-> out]], used)
      /\ live' = Over([v \in {Y(at)} |-> out], live)
      /\ folds' = IF tape[at].kind = "fold" THEN Over([i \in {at} |-> ins], folds) ELSE folds
      /\ input_data' = IF tape[at].kind = "plain" THEN ins ELSE << >>
  BY <1>1
<1>3. at \notin wrong
  BY <1>0 DEF UsedInv
<1>4. out = Correct(at, ins) + IF at \in wrong' THEN Slip ELSE 0
  <2>1. at \in wrong' <=> errs
    BY <1>2, <1>3
  <2> QED BY <2>1
<1>5. Right(ins) /\ tape[at].ivars \subseteq DOMAIN ins
  <2>1. CASE tape[at].kind # "fold"
    <3>1. ins = Loaded(tape[at].ivars) /\ Reads = tape[at].ivars
      BY <2>1 DEF Reads
    <3> QED BY <1>0, <3>1, RightLoaded DEF Loaded
  <2>2. CASE tape[at].kind = "fold"
    <3>1. ins = Over(FoldState(at), Loaded(Reads \ DOMAIN FoldState(at)))
      BY <2>2
    <3>2. Right(FoldState(at))
      <4>1. CASE at \in DOMAIN folds
        BY <4>1 DEF FoldState, LiveInv
      <4>2. CASE at \notin DOMAIN folds
        <5>1. tape[at].mask \in tape[at].ivars /\ Reads = tape[at].ivars
          BY <1>0, <2>2, <4>2, TapeFacts DEF Reads
        <5>2. Right(Loaded({tape[at].mask}))
          BY <1>0, <5>1, RightLoaded
        <5> QED BY <4>2, <5>2 DEF FoldState
      <4> QED BY <4>1, <4>2
    <3>3. Right(Loaded(Reads \ DOMAIN FoldState(at)))
      BY <1>0, RightLoaded
    <3>4. Right(ins)
      BY <3>1, <3>2, <3>3, RightOver
    <3>5. DOMAIN Loaded(Reads \ DOMAIN FoldState(at)) = Reads \ DOMAIN FoldState(at)
      BY DEF Loaded
    <3>6. DOMAIN ins = DOMAIN FoldState(at) \cup (Reads \ DOMAIN FoldState(at))
      BY <3>1, <3>5, OverDomain
    <3>7. tape[at].ivars \subseteq DOMAIN FoldState(at) \cup Reads
      BY DEF Reads, FoldState
    <3> QED BY <3>4, <3>6, <3>7
  <2> QED BY <2>1, <2>2
<1> HIDE DEF ins, out
<1> QED BY <1>2, <1>3, <1>4, <1>5

\* Before the first claim nothing has been read or written.
LEMMA UsedInit ==
  ASSUME Init
  PROVE  UsedInv /\ LiveInv
<1>1. /\ step = "compute" /\ at = 1 /\ used = << >> /\ wrong = {} /\ live = [v \in {X} |-> 0]
      /\ folds = << >> /\ input_data = << >> /\ bytes = FirstBytes
  BY DEF Init
<1>2. DOMAIN << >> = {} /\ 1..0 = {} /\ 1 - 1 = 0
  OBVIOUS
<1>3. Done = 0
  BY <1>1 DEF Done
<1>4. UsedInv
  BY <1>1, <1>2, <1>3 DEF UsedInv
<1>5. \A k : X # Y(k)
  BY DistinctVars
<1> QED BY <1>1, <1>2, <1>4, <1>5 DEF LiveInv, Right, RightValue, Load

\* A claim writes what it computes, or errs and is among the wrong.
LEMMA UsedStep ==
  ASSUME ResidentInv, UsedInv, LiveInv, [Next]_vars
  PROVE  UsedInv'
<1>0. tape' = tape /\ n' = n /\ \A k, f : Correct(k, f)' = Correct(k, f)
  BY TapeStays DEF Correct
<1>1. CASE Compute
  <2>1. at \in 1..n /\ Done = at - 1 /\ Done' = at /\ at' = at /\ Done \in Nat
    BY <1>1, DoneMoves
  <2>2. PICK ins, out :
           /\ Right(ins) /\ tape[at].ivars \subseteq DOMAIN ins
           /\ out = Correct(at, ins) + IF at \in wrong' THEN Slip ELSE 0
           /\ at \notin wrong /\ (wrong' = wrong \/ wrong' = wrong \cup {at})
           /\ used' = Over([i \in {at} |-> [ins |-> ins, out |-> out]], used)
           /\ input_data' = IF tape[at].kind = "plain" THEN ins ELSE << >>
    BY <1>1, ComputeReads
  <2>3. DOMAIN used' = 1..Done' /\ used'[at] = [ins |-> ins, out |-> out] /\ 1..Done' = 1..Done \cup {at}
    BY <2>1, <2>2 DEF Over, UsedInv
  <2>4. out \in Int
    BY <2>1, <2>2, CorrectInt DEF Slip
  <2>5. wrong' \subseteq 1..Done'
    BY <2>2, <2>3 DEF UsedInv
  <2>6. ASSUME NEW k \in 1..Done
        PROVE  /\ tape'[k].ivars \subseteq DOMAIN used'[k].ins
               /\ used'[k].out = Correct(k, used'[k].ins) + IF k \in wrong' THEN Slip ELSE 0
               /\ used'[k].out \in Int
               /\ Right(used[k].ins)
    <3>1. used'[k] = used[k] /\ k # at
      BY <2>1, RightStays DEF UsedInv
    <3>2. k \in wrong' <=> k \in wrong
      BY <2>2, <3>1
    <3> QED BY <1>0, <3>1, <3>2 DEF UsedInv
  <2>7. ASSUME NEW k \in 1..Done' PROVE Right(used[k].ins)'
    <3>1. CASE k \in 1..Done
      <4>1. used'[k] = used[k]
        BY <3>1, RightStays DEF UsedInv
      <4> QED BY <2>6, <3>1, <4>1, RightStays DEF Right
    <3>2. CASE k = at
      <4>1. used'[k].ins = ins
        BY <2>3, <3>2
      <4> QED BY <2>2, <4>1, RightStays DEF Right
    <3> QED BY <2>3, <3>1, <3>2
  <2>8. ASSUME NEW k \in 1..Done'
        PROVE  /\ tape'[k].ivars \subseteq DOMAIN used'[k].ins
               /\ used'[k].out = Correct(k, used'[k].ins) + IF k \in wrong' THEN Slip ELSE 0
               /\ used'[k].out \in Int
    <3>1. CASE k \in 1..Done
      BY <2>6, <3>1
    <3>2. CASE k = at
      BY <1>0, <2>2, <2>3, <2>4, <3>2
    <3> QED BY <2>3, <3>1, <3>2
  <2>9. step' = "observe" /\ tape'[at'].kind = "plain" => input_data' = used'[at'].ins
    BY <1>0, <2>1, <2>2, <2>3
  <2>10. \A k \in 1..Done' : Correct(k, used[k].ins)' = Correct(k, used'[k].ins)
    BY <1>0 DEF Correct
  <2> QED BY <2>3, <2>5, <2>7, <2>8, <2>9, <2>10 DEF UsedInv
<1>2. CASE ~Compute
  <2>1. Done' = Done /\ used' = used /\ wrong' = wrong
    BY <1>2, DoneMoves
  <2>2. \A k \in 1..Done : Right(used[k].ins)'
    BY <2>1, RightStays DEF UsedInv, Right
  <2>3. step' = "observe" => step = "observe" /\ at' = at /\ input_data' = input_data
    BY <1>2 DEF Next, Observe, Commit, Check, Release, Finish, Drift, vars, engine
  <2>4. \A k \in 1..Done : Correct(k, used[k].ins)' = Correct(k, used[k].ins)
    BY <1>0, <2>1 DEF Correct
  <2> QED BY <1>0, <2>1, <2>2, <2>3, <2>4 DEF UsedInv
<1> QED BY <1>1, <1>2

\* The engine goes on holding right values.
LEMMA LiveStep ==
  ASSUME ResidentInv, UsedInv, LiveInv, [Next]_vars
  PROVE  LiveInv'
<1>1. CASE Compute
  <2>1. PICK ins, out :
           /\ Right(ins)
           /\ used' = Over([i \in {at} |-> [ins |-> ins, out |-> out]], used)
           /\ live' = Over([v \in {Y(at)} |-> out], live)
           /\ folds' = IF tape[at].kind = "fold" THEN Over([i \in {at} |-> ins], folds) ELSE folds
           /\ input_data' = IF tape[at].kind = "plain" THEN ins ELSE << >>
    BY <1>1, ComputeReads
  <2>2. at \in DOMAIN used' /\ used'[at].out = out
    BY <2>1 DEF Over
  <2>3. \A v \in DOMAIN ins : RightValue(v, ins[v])'
    BY <2>1, RightStays DEF Right
  <2>4. ASSUME NEW v \in DOMAIN live' PROVE RightValue(v, Load(v))'
    <3>1. CASE v = Y(at)
      <4>1. v # X /\ \A k : v = Y(k) => k = at
        BY <3>1, DistinctVars
      <4>2. Load(v)' = out
        BY <2>1, <3>1, <4>1 DEF Load, Over
      <4> QED BY <2>2, <4>1, <4>2 DEF RightValue
    <3>2. CASE v # Y(at)
      <4>1. v \in DOMAIN live /\ live'[v] = live[v]
        BY <2>1, <2>4, <3>2 DEF Over
      <4>2. Load(v)' = Load(v)
        BY <1>1, <4>1 DEF Load, Compute
      <4>3. RightValue(v, Load(v))
        BY <4>1 DEF LiveInv
      <4> QED BY <4>2, <4>3, RightStays
    <3> QED BY <3>1, <3>2
  <2>5. \A f \in DOMAIN folds' : folds'[f] = ins \/ (f \in DOMAIN folds /\ folds'[f] = folds[f])
    BY <2>1 DEF Over
  <2>6. \A f \in DOMAIN folds' : Right(folds[f])'
    BY <2>3, <2>5, RightStays DEF Right, LiveInv
  <2>7. Right(input_data)'
    <3>1. input_data' = ins \/ input_data' = << >>
      BY <2>1
    <3>2. DOMAIN << >> = {}
      OBVIOUS
    <3> QED BY <2>3, <3>1, <3>2 DEF Right
  <2> QED BY <2>4, <2>6, <2>7 DEF LiveInv
<1>2. CASE Release
  <2>1. \A v \in DOMAIN live' : v \in DOMAIN live /\ live'[v] = live[v]
    BY <1>2, ReleaseFrees DEF ResidentInv
  <2>2. bytes' = bytes /\ input_data' = << >> /\ at \in 1..n /\ step = "release"
    BY <1>2 DEF Release, ResidentInv, StandsInv, InPass
  <2>3. \A v \in DOMAIN live' : RightValue(v, Load(v))'
    BY <2>1, <2>2, RightStays DEF LiveInv, Load
  <2> DEFINE offered == {f \in Absorbers(tape, Y(at)) : Cardinality(Absorbers(tape, Y(at))) = 1}
             taken(f) == Over(FoldState(f), Loaded({Y(at)}))
  <2>4. /\ \A f \in offered : f \notin DOMAIN folds => tape[f].mask \in DOMAIN live
        /\ folds' = Over([f \in offered |-> taken(f)], folds)
    BY <1>2 DEF Release
  <2>5. ASSUME NEW f \in offered PROVE Right(taken(f))
    <3>1. Right(Loaded({Y(at)}))
      <4>1. Y(at) \in DOMAIN live
        BY <2>2 DEF ResidentInv, EngineInv
      <4> QED BY <4>1, RightLoaded
    <3>2. Right(FoldState(f))
      <4>1. CASE f \in DOMAIN folds
        BY <4>1 DEF FoldState, LiveInv
      <4>2. CASE f \notin DOMAIN folds
        <5>1. Right(Loaded({tape[f].mask}))
          BY <2>4, <2>5, <4>2, RightLoaded
        <5> QED BY <4>2, <5>1 DEF FoldState
      <4> QED BY <4>1, <4>2
    <3> QED BY <3>1, <3>2, RightOver
  <2> HIDE DEF taken, offered
  <2>6. \A f \in DOMAIN folds' : \/ f \in offered /\ folds'[f] = taken(f)
                                 \/ f \in DOMAIN folds /\ folds'[f] = folds[f]
    BY <2>4 DEF Over
  <2>7. ASSUME NEW f \in DOMAIN folds' PROVE Right(folds[f])'
    <3>1. Right(folds'[f])
      BY <2>5, <2>6 DEF LiveInv
    <3> QED BY <3>1, RightStays DEF Right
  <2>8. DOMAIN << >> = {}
    OBVIOUS
  <2> QED BY <2>2, <2>3, <2>7, <2>8 DEF LiveInv, Right
<1>3. CASE Observe \/ Commit \/ Check \/ Finish \/ Drift \/ UNCHANGED vars
  <2>1. UNCHANGED <<live, folds, input_data>>
    BY <1>3 DEF Observe, Commit, Check, Finish, Drift, vars, engine
  <2>2. ASSUME NEW v \in DOMAIN live' PROVE RightValue(v, Load(v))'
    <3>1. CASE v = X
      <4>1. Load(v)' = bytes' /\ bytes' \in {FirstBytes, OtherBytes}
        BY <1>3, <3>1 DEF Load, Observe, Commit, Check, Finish, Drift, vars, ResidentInv, StandsInv
      <4> QED BY <3>1, <4>1, DistinctVars DEF RightValue
    <3>2. CASE v # X
      <4>1. Load(v)' = Load(v) /\ v \in DOMAIN live
        BY <2>1, <2>2, <3>2 DEF Load
      <4> QED BY <4>1, RightStays DEF LiveInv
    <3> QED BY <3>1, <3>2
  <2> QED BY <2>1, <2>2, RightStays DEF LiveInv, Right
<1> QED BY <1>1, <1>2, <1>3 DEF Next
--------------------------------------------------------------------------------
\* Everything the observer keeps is right.
KeptInv ==
  /\ Right(window_values) /\ Right(fold_values) /\ Right(wire_digests)
  /\ \A p \in Range(pending_digests) : RightValue(p[1], p[2])

\* c is the first claim after a that reads the input.
FirstReader(c, a) ==
  c \in (a + 1)..n /\ X \in tape[c].ivars /\ \A d \in (a + 1)..n : X \in tape[d].ivars => c <= d

\* The window holds the input as its first claim that reads it had it fetched, and
\* so do the digests if the input is mentioned first in the window.
XInv ==
  /\ \A c \in (First + 1)..Seen :
       FirstReader(c, First) /\ Fetched(c) => window_values[X] = used[c].ins[X]
  /\ \A p \in Range(pending_digests) : p[1] = X =>
       /\ p[2] = window_values[X]
       /\ \A c \in 1..n : FirstReader(c, 0) /\ Fetched(c) => p[2] = used[c].ins[X]
  /\ step = "check" /\ X \in Wired(0, Seen) /\ X \notin Wired(0, First) =>
       wire_digests[X] = window_values[X]
  /\ X \in DOMAIN wire_digests =>
       \A c \in 1..n : FirstReader(c, 0) /\ Fetched(c) => wire_digests[X] = used[c].ins[X]
  /\ step = "check" => \A b \in Range(window_blocks) : commitments[b] = Restrict(wire_digests, Wires(b))

ValuesInv == ResidentInv /\ UsedInv /\ LiveInv /\ KeptInv

\* The wires of the window: what an observation adds, and where the input is.
LEMMA Observed ==
  ASSUME ValuesInv, Observe
  PROVE  /\ step = "observe" /\ at \in 1..n /\ Seen = at - 1 /\ Seen' = at /\ First' = First
         /\ First \in Nat /\ First <= Seen
         /\ Digested = Wired(0, Seen)
         /\ DOMAIN window_values = Wired(First, Seen) /\ Wired(First, Seen) \subseteq Wired(0, Seen)
         /\ DOMAIN window_values' = Wires(at) \cup DOMAIN window_values
         /\ \A v \in DOMAIN window_values : window_values'[v] = window_values[v]
         /\ \A v \in Wires(at) \ DOMAIN window_values :
              \/ v \in Asked /\ Resident(v) /\ window_values'[v] = ValueOf(v)
              \/ v \in DOMAIN fold_values /\ window_values'[v] = fold_values[v]
         /\ \A v \in New : v \in Asked /\ v \notin DOMAIN window_values
<1>1. /\ First' = First /\ Seen' = Seen + 1 /\ Seen + 1 = at /\ Seen \in Nat /\ First \in Nat
      /\ Len(window_blocks) \in Nat
  BY WindowMoves, AtHand DEF Observe, Check, ValuesInv, ResidentInv, WindowInv, Next
<1>2. First <= Seen
  BY <1>1 DEF First
<1>3. step = "observe" /\ at \in 1..n /\ window_values' = Over(Kept, window_values)
      /\ \A v \in Asked : Resident(v)
  BY DEF Observe, ValuesInv, ResidentInv, StandsInv, InPass
<1>4. Wired(First, Seen) \subseteq Wired(0, Seen) /\ Wired(0, First) \subseteq Wired(0, Seen)
  BY <1>1, <1>2, WiredFacts
<1>5. Digested = Wired(0, Seen) /\ DOMAIN window_values = Wired(First, Seen)
  BY <1>3, <1>4 DEF Digested, ValuesInv, ResidentInv, HeldInv
<1>6. /\ DOMAIN Kept = Wires(at) \ DOMAIN window_values
      /\ \A v \in DOMAIN Kept : Kept[v] = IF v \in Asked THEN ValueOf(v) ELSE fold_values[v]
  BY DEF Kept
<1>7. DOMAIN window_values' = Wires(at) \cup DOMAIN window_values
  <2>1. DOMAIN window_values' = DOMAIN Kept \cup DOMAIN window_values
    BY <1>3, OverDomain
  <2> QED BY <1>6, <2>1
<1>8. \A v \in DOMAIN window_values : window_values'[v] = window_values[v]
  BY <1>3, <1>6 DEF Over
<1>9. \A v \in Wires(at) \ DOMAIN window_values :
        \/ v \in Asked /\ Resident(v) /\ window_values'[v] = ValueOf(v)
        \/ v \in DOMAIN fold_values /\ window_values'[v] = fold_values[v]
  <2>1. \A v \in Wires(at) \ DOMAIN window_values : window_values'[v] = Kept[v]
    BY <1>3, <1>6 DEF Over
  <2>2. \A v \in Wires(at) \ DOMAIN window_values : v \notin Asked => v \in DOMAIN fold_values
    BY DEF Asked
  <2> QED BY <1>3, <1>6, <2>1, <2>2
<1>10. \A v \in New : v \in Asked /\ v \notin DOMAIN window_values
  BY <1>4, <1>5 DEF New, Asked
<1> QED BY <1>1, <1>2, <1>3, <1>4, <1>5, <1>7, <1>8, <1>9, <1>10

\* What the engine hands to the observer is right.
LEMMA ValueIsRight ==
  ASSUME LiveInv, NEW v, Resident(v)
  PROVE  RightValue(v, ValueOf(v))
BY DEF LiveInv, Right, Resident, ValueOf

\* The observer goes on keeping right values.
LEMMA KeptStep ==
  ASSUME ValuesInv, [Next]_vars
  PROVE  KeptInv'
<1>0. \A v, x : RightValue(v, x) => RightValue(v, x)'
  BY RightStays DEF ValuesInv
<1> USE DEF ValuesInv
<1>1. CASE Observe
  <2>1. ASSUME NEW v \in DOMAIN window_values' PROVE RightValue(v, window_values'[v])
    <3>1. CASE v \in DOMAIN window_values
      BY <1>1, <3>1, Observed DEF KeptInv, Right
    <3>2. CASE v \notin DOMAIN window_values
      <4>1. \/ Resident(v) /\ window_values'[v] = ValueOf(v)
            \/ v \in DOMAIN fold_values /\ window_values'[v] = fold_values[v]
        BY <1>1, <2>1, <3>2, Observed
      <4> QED BY <4>1, ValueIsRight DEF KeptInv, Right
    <3> QED BY <3>1, <3>2
  <2>2. ASSUME NEW v \in DOMAIN fold_values' PROVE RightValue(v, fold_values'[v])
    <3>1. \/ v \in DOMAIN fold_values /\ fold_values'[v] = fold_values[v]
          \/ v \in Wires(at) /\ fold_values'[v] = window_values'[v]
      BY <1>1, <2>2 DEF Observe, Retained, Over
    <3>2. Wires(at) \subseteq DOMAIN window_values'
      BY <1>1, Observed
    <3> QED BY <2>1, <3>1, <3>2 DEF KeptInv, Right
  <2>3. ASSUME NEW p \in Range(pending_digests') PROVE RightValue(p[1], p[2])
    <3>1. CASE p \in Range(pending_digests)
      BY <3>1 DEF KeptInv
    <3>2. CASE p \in {<<v, ValueOf(v)>> : v \in New}
      <4>1. PICK v \in New : p = <<v, ValueOf(v)>>
        BY <3>2
      <4>2. p[1] = v /\ p[2] = ValueOf(v)
        BY <4>1
      <4>3. Resident(v)
        BY <1>1, Observed DEF Observe
      <4> QED BY <4>2, <4>3, ValueIsRight
    <3> QED BY <1>1, <2>3, <3>1, <3>2, PendingGrows DEF ResidentInv
  <2>4. wire_digests' = wire_digests
    BY <1>1 DEF Observe
  <2> QED BY <1>0, <2>1, <2>2, <2>3, <2>4 DEF KeptInv, Right
<1>2. CASE Commit
  <2>1. UNCHANGED <<window_values, fold_values>> /\ pending_digests' = << >>
    BY <1>2 DEF Commit, window
  <2> DEFINE C(v) == CHOOSE p \in Range(pending_digests) : p[1] = v
  <2>2. wire_digests' = Over([v \in Pending |-> C(v)[2]], wire_digests)
    BY <1>2 DEF Commit
  <2>3. \A v \in Pending : C(v) \in Range(pending_digests) /\ C(v)[1] = v
    <3>1. \A v \in Pending : \E p \in Range(pending_digests) : p[1] = v
      BY DEF Pending, Range
    <3> QED BY <3>1
  <2> HIDE DEF C
  <2>4. \A v \in DOMAIN wire_digests' : \/ v \in Pending /\ wire_digests'[v] = C(v)[2]
                                        \/ v \in DOMAIN wire_digests /\ wire_digests'[v] = wire_digests[v]
    BY <2>2 DEF Over
  <2>5. \A v \in DOMAIN wire_digests' : RightValue(v, wire_digests'[v])
    BY <2>3, <2>4 DEF KeptInv, Right
  <2>6. Range(<< >>) = {}
    BY DEF Range
  <2> QED BY <1>0, <2>1, <2>5, <2>6 DEF KeptInv, Right
<1>3. CASE Check
  <2>1. window_values' = << >> /\ UNCHANGED <<pending_digests, wire_digests>>
        /\ fold_values' = Restrict(fold_values, StillFolded)
    BY <1>3 DEF Check, digests
  <2>2. \A v \in DOMAIN fold_values' : v \in DOMAIN fold_values /\ fold_values'[v] = fold_values[v]
    BY <2>1 DEF Restrict, StillFolded
  <2>3. DOMAIN << >> = {}
    OBVIOUS
  <2> QED BY <1>0, <2>1, <2>2, <2>3 DEF KeptInv, Right
<1>4. CASE Compute \/ Release \/ Finish \/ Drift \/ UNCHANGED vars
  <2>1. UNCHANGED <<window_values, fold_values, pending_digests, wire_digests>>
    BY <1>4 DEF Compute, Release, Finish, Drift, vars, window, digests
  <2> QED BY <1>0, <2>1 DEF KeptInv, Right
<1> QED BY <1>1, <1>2, <1>3, <1>4 DEF Next

\* No fold absorbs the input, and the input is a wire of the claims that read it.
LEMMA InputIsRead ==
  ASSUME StandsInv
  PROVE  /\ X \notin FoldWires
         /\ \A i : X \in Wires(i) <=> X \in tape[i].ivars
         /\ \A a, b : X \in Wired(a, b) <=> \E i \in (a + 1)..b : X \in tape[i].ivars
<1>1. X \notin FoldWires
  <2>1. IsTape(tape) /\ DOMAIN tape = 1..n
    BY AtHand
  <2> QED BY <2>1 DEF FoldWires, IsTape, Foldable
<1>2. \A i : X \in Wires(i) <=> X \in tape[i].ivars
  BY DistinctVars DEF Wires
<1> QED BY <1>1, <1>2 DEF Wired

\* When the input comes up first in a window, the window takes it as the claim at
\* hand had it fetched.
LEMMA InputObserved ==
  ASSUME ValuesInv, Observe, X \in Wires(at), X \notin DOMAIN window_values
  PROVE  /\ X \in Asked /\ window_values'[X] = ValueOf(X)
         /\ Fetched(at) => ValueOf(X) = used[at].ins[X]
<1>1. X \notin DOMAIN fold_values
  BY InputIsRead DEF ValuesInv, ResidentInv, FoldKept
<1>2. X \in Asked
  BY <1>1 DEF Asked
<1>3. window_values'[X] = ValueOf(X)
  BY <1>1, Observed
<1>4. ASSUME Fetched(at) PROVE ValueOf(X) = used[at].ins[X]
  <2>1. step = "observe" /\ tape[at].kind = "plain" /\ X \in tape[at].ivars
    BY <1>4, Observed DEF Fetched
  <2>2. X \in DOMAIN input_data
    BY <2>1 DEF ValuesInv, ResidentInv, EngineInv
  <2>3. input_data = used[at].ins
    BY <2>1 DEF ValuesInv, UsedInv
  <2> QED BY <2>2, <2>3 DEF ValueOf
<1> QED BY <1>2, <1>3, <1>4

\* Before the first claim no value is kept.
LEMMA XInit ==
  ASSUME Init
  PROVE  KeptInv /\ XInv
<1>1. /\ step = "compute" /\ Seen = 0 /\ window_blocks = << >>
      /\ window_values = << >> /\ pending_digests = << >> /\ wire_digests = << >> /\ fold_values = << >>
  BY DEF Init, Seen
<1>2. First = 0
  <2>1. Len(window_blocks) = 0 /\ Seen = 0
    BY <1>1
  <2> QED BY ONLY <2>1 DEF First
<1>3. DOMAIN << >> = {} /\ Range(<< >>) = {} /\ (0 + 1)..0 = {}
  BY DEF Range
<1> QED BY <1>1, <1>2, <1>3 DEF KeptInv, XInv, Right

\* Every window goes on holding the input as its first reader had it.
LEMMA XStep ==
  ASSUME ValuesInv, XInv, [Next]_vars
  PROVE  XInv'
<1> USE DEF ValuesInv
<1>0. /\ tape' = tape /\ n' = n /\ n \in Nat
      /\ First \in Nat /\ Seen \in 0..n /\ First <= Seen /\ Len(window_blocks) \in Nat
      /\ \A c, a : FirstReader(c, a)' <=> FirstReader(c, a)
      /\ \A c : Fetched(c)' <=> Fetched(c)
      /\ \A i : Wires(i)' = Wires(i)
      /\ Wired(0, First)' = Wired(0, First') /\ Wired(0, Seen)' = Wired(0, Seen')
  <2>1. Seen \in 0..n /\ n \in Nat /\ First \in Nat /\ Len(window_blocks) \in Nat
    BY AtHand DEF ResidentInv, WindowInv
  <2>2. First <= Seen
    BY <2>1 DEF First
  <2>3. tape' = tape /\ n' = n
    BY TapeStays
  <2> QED BY <2>1, <2>2, <2>3, TapeFixed DEF FirstReader, Fetched
<1>1. \A c \in 1..Seen : c \in 1..Done /\ used'[c] = used[c]
  <2>1. Seen <= Done
    BY <1>0, AtHand DEF Seen, Done, ResidentInv
  <2>2. \A c \in 1..Seen : c \in 1..Done
    BY <1>0, <2>1, DoneMoves
  <2> QED BY <2>2, RightStays DEF UsedInv
<1>2. \A c \in (First + 1)..Seen : c \in 1..Seen
  BY <1>0
<1>3. /\ \A c \in 1..n : FirstReader(c, 0) /\ X \in Wired(0, Seen) => c \in 1..Seen
      /\ X \in Wired(0, First) => X \in Wired(0, Seen)
  <2>1. ASSUME NEW c \in 1..n, FirstReader(c, 0), X \in Wired(0, Seen)
        PROVE  c \in 1..Seen
    <3>1. PICK i \in (0 + 1)..Seen : X \in tape[i].ivars
      BY <2>1, InputIsRead DEF ResidentInv
    <3>2. i \in (0 + 1)..n
      BY <1>0
    <3> QED BY <1>0, <2>1, <3>1, <3>2 DEF FirstReader
  <2> QED BY <1>0, <2>1, WiredFacts
<1>4. CASE Observe
  <2>1. /\ step = "observe" /\ at \in 1..n /\ Seen = at - 1 /\ Seen' = at /\ First' = First
        /\ DOMAIN window_values = Wired(First, Seen)
        /\ \A v \in DOMAIN window_values : window_values'[v] = window_values[v]
    BY <1>4, Observed
  <2>2. step' # "check" /\ wire_digests' = wire_digests /\ used' = used
    BY <1>4 DEF Observe, engine
  <2>3. ASSUME NEW c \in (First + 1)..at, FirstReader(c, First), Fetched(c)
        PROVE  window_values'[X] = used[c].ins[X]
    <3>1. CASE c \in (First + 1)..Seen
      <4>1. X \in Wired(First, Seen)
        BY <2>3, <3>1, InputIsRead DEF ResidentInv, FirstReader
      <4> QED BY <2>1, <2>3, <3>1, <4>1 DEF XInv
    <3>2. CASE c = at
      <4>1. X \in Wires(at)
        BY <2>3, <3>2, InputIsRead DEF ResidentInv, FirstReader
      <4>2. X \notin DOMAIN window_values
        <5> SUFFICES ASSUME X \in Wired(First, Seen) PROVE FALSE
          BY <2>1
        <5>1. PICK i \in (First + 1)..Seen : X \in tape[i].ivars
          BY InputIsRead DEF ResidentInv
        <5>2. i \in (First + 1)..n /\ ~(at <= i)
          BY <1>0, <2>1
        <5> QED BY <2>3, <3>2, <5>1, <5>2 DEF FirstReader
      <4> QED BY <1>4, <2>3, <3>2, <4>1, <4>2, InputObserved
    <3> QED BY <1>0, <2>1, <3>1, <3>2
  <2>4. ASSUME NEW p \in Range(pending_digests'), p[1] = X
        PROVE  /\ p[2] = window_values'[X]
               /\ \A c \in 1..n : FirstReader(c, 0) /\ Fetched(c) => p[2] = used[c].ins[X]
    <3>1. CASE p \in Range(pending_digests)
      <4>1. X \in Pending
        BY <2>4, <3>1 DEF Pending, Range
      <4>2. X \in Wired(0, Seen) /\ X \notin Wired(0, First)
        BY <2>1, <4>1 DEF ResidentInv, HeldInv
      <4>3. X \in Wired(First, Seen)
        <5>1. PICK i \in (0 + 1)..Seen : X \in tape[i].ivars
          BY <4>2, InputIsRead DEF ResidentInv
        <5>2. ~(i \in (0 + 1)..First)
          BY <4>2, <5>1, InputIsRead DEF ResidentInv
        <5>3. i \in (First + 1)..Seen
          BY <1>0, <5>2
        <5> QED BY <5>1, <5>3, InputIsRead DEF ResidentInv
      <4> QED BY <2>1, <2>4, <3>1, <4>3 DEF XInv
    <3>2. CASE p \in {<<v, ValueOf(v)>> : v \in New}
      <4>1. PICK v \in New : p = <<v, ValueOf(v)>>
        BY <3>2
      <4>2. X \in New /\ p[2] = ValueOf(X)
        BY <2>4, <4>1
      <4>3. X \in Wires(at) /\ X \notin DOMAIN window_values /\ X \notin Wired(0, Seen)
        BY <1>4, <4>2, Observed DEF New
      <4>4. window_values'[X] = ValueOf(X) /\ (Fetched(at) => ValueOf(X) = used[at].ins[X])
        BY <1>4, <4>3, InputObserved
      <4>5. ASSUME NEW c \in 1..n, FirstReader(c, 0) PROVE c = at
        <5>1. X \in tape[at].ivars /\ X \in tape[c].ivars /\ c <= at
          BY <2>1, <4>3, <4>5, InputIsRead DEF ResidentInv, FirstReader
        <5>2. ~(c \in (0 + 1)..Seen)
          BY <4>3, <5>1, InputIsRead DEF ResidentInv
        <5> QED BY <1>0, <2>1, <5>1, <5>2
      <4> QED BY <4>2, <4>4, <4>5
    <3> QED BY <1>4, <2>4, <3>1, <3>2, PendingGrows DEF ResidentInv
  <2>5. X \in DOMAIN wire_digests' =>
          \A c \in 1..n : FirstReader(c, 0) /\ Fetched(c) => wire_digests'[X] = used'[c].ins[X]
    BY <2>2 DEF XInv
  <2> QED BY <1>0, <2>1, <2>2, <2>3, <2>4, <2>5 DEF XInv
<1>5. CASE Commit
  <2>1. /\ step = "commit" /\ step' = "check" /\ pending_digests' = << >> /\ used' = used
        /\ UNCHANGED <<window_values, window_blocks>>
    BY <1>5 DEF Commit, window, engine
  <2>2. UNCHANGED <<Seen, First>>
    BY <1>5, <2>1, WindowMoves DEF Observe, Check, ResidentInv
  <2> DEFINE C(v) == CHOOSE p \in Range(pending_digests) : p[1] = v
  <2>3. wire_digests' = Over([v \in Pending |-> C(v)[2]], wire_digests)
    BY <1>5 DEF Commit
  <2>4. \A v \in Pending : C(v) \in Range(pending_digests) /\ C(v)[1] = v
    <3>1. \A v \in Pending : \E p \in Range(pending_digests) : p[1] = v
      BY DEF Pending, Range
    <3> QED BY <3>1
  <2> HIDE DEF C
  <2>5. /\ X \in Pending => wire_digests'[X] = C(X)[2]
        /\ X \notin Pending /\ X \in DOMAIN wire_digests' =>
             X \in DOMAIN wire_digests /\ wire_digests'[X] = wire_digests[X]
    BY <2>3 DEF Over
  <2>6. Pending = Wired(0, Seen) \ Wired(0, First)
    BY <2>1 DEF ResidentInv, HeldInv
  <2>7. X \in Wired(0, Seen) /\ X \notin Wired(0, First) => wire_digests'[X] = window_values[X]
    BY <2>4, <2>5, <2>6 DEF XInv
  <2>8. X \in DOMAIN wire_digests' =>
          \A c \in 1..n : FirstReader(c, 0) /\ Fetched(c) => wire_digests'[X] = used[c].ins[X]
    BY <2>4, <2>5 DEF XInv
  <2>9. \A b \in Range(window_blocks) : commitments'[b] = Restrict(wire_digests', Wires(b))
    BY <1>5 DEF Commit, Over
  <2>10. Range(<< >>) = {}
    BY DEF Range
  <2>11. \A c \in (First + 1)..Seen : FirstReader(c, First) /\ Fetched(c) => window_values[X] = used[c].ins[X]
    BY DEF XInv
  <2>12. \A b : Restrict(wire_digests, Wires(b))' = Restrict(wire_digests', Wires(b))
    BY <1>0
  <2> QED BY <1>0, <2>1, <2>2, <2>7, <2>8, <2>9, <2>10, <2>11, <2>12 DEF XInv
<1>6. CASE Check
  <2>1. Seen' = Seen /\ First' = Seen
    BY <1>6, WindowMoves DEF Observe, Check, ResidentInv
  <2>2. /\ step = "check" /\ step' # "check" /\ used' = used /\ UNCHANGED <<pending_digests, wire_digests>>
    BY <1>6 DEF Check, digests, engine
  <2>3. pending_digests = << >> /\ Range(<< >>) = {}
    BY <2>2 DEF ResidentInv, HeldInv, Range
  <2>4. (Seen + 1)..Seen = {}
    BY <1>0
  <2> QED BY <1>0, <2>1, <2>2, <2>3, <2>4 DEF XInv
<1>7. CASE Compute \/ Release \/ Finish \/ Drift \/ UNCHANGED vars
  <2>1. UNCHANGED <<window_values, window_blocks, pending_digests, wire_digests, commitments>>
    BY <1>7 DEF Compute, Release, Finish, Drift, vars, window, digests, bound
  <2>2. UNCHANGED <<Seen, First>>
    <3>1. ~Observe \/ UNCHANGED vars
      BY <1>7 DEF Compute, Release, Finish, Drift, Observe
    <3>2. ~Check \/ UNCHANGED vars
      BY <1>7 DEF Compute, Release, Finish, Drift, Check
    <3>3. CASE UNCHANGED vars
      BY <3>3 DEF vars, window, Seen, First, n
    <3> QED BY <3>1, <3>2, <3>3, WindowMoves DEF ResidentInv
  <2>3. step' = "check" <=> step = "check"
    BY <1>7 DEF Compute, Release, Finish, Drift, vars
  <2>4. \A c \in (First + 1)..Seen : FirstReader(c, First) /\ Fetched(c) => window_values[X] = used'[c].ins[X]
    BY <1>1, <1>2 DEF XInv
  <2>5. ASSUME NEW p \in Range(pending_digests), p[1] = X
        PROVE  /\ p[2] = window_values[X]
               /\ \A c \in 1..n : FirstReader(c, 0) /\ Fetched(c) => p[2] = used'[c].ins[X]
    <3>1. X \in Pending
      BY <2>5 DEF Pending, Range
    <3>2. X \in Wired(0, Seen)
      <4>1. step # "check" \/ Range(pending_digests) = {}
        BY DEF ResidentInv, HeldInv, Range
      <4> QED BY <2>5, <3>1, <4>1 DEF ResidentInv, HeldInv
    <3> QED BY <1>1, <1>3, <2>5, <3>2 DEF XInv
  <2>6. X \in DOMAIN wire_digests =>
          \A c \in 1..n : FirstReader(c, 0) /\ Fetched(c) => wire_digests[X] = used'[c].ins[X]
    <3>1. DOMAIN wire_digests = Wired(0, First) \/ DOMAIN wire_digests = Wired(0, Seen)
      BY DEF ResidentInv, HeldInv
    <3> QED BY <1>1, <1>3, <3>1 DEF XInv
  <2>7. \A b : Restrict(wire_digests, Wires(b))' = Restrict(wire_digests, Wires(b))
    BY <1>0, <2>1
  <2> QED BY <1>0, <2>1, <2>2, <2>3, <2>4, <2>5, <2>6, <2>7 DEF XInv
<1> QED BY <1>4, <1>5, <1>6, <1>7 DEF Next
--------------------------------------------------------------------------------
(***************************************************************************)
(* The verdict                                                             *)
(***************************************************************************)
\* c is the first claim of window w that reads the input.
FirstOfWindow(c, w) ==
  c \in Blocks(w) /\ X \in tape[c].ivars /\ \A d \in Blocks(w) : X \in tape[d].ivars => c <= d

\* What the samples so far have found.
VerdictInv ==
  /\ selected \subseteq 1..First
  /\ failures \subseteq selected
  /\ bytes = FirstBytes => failures \subseteq wrong
  /\ \A b \in selected \ failures :
       /\ b \notin wrong
       /\ Fetched(b) => \A c \in 1..n :
            FirstOfWindow(c, WindowOf(b)) /\ Fetched(c) => used[b].ins[X] = used[c].ins[X]

\* The windows divide the claims.
LEMMA DivWindow ==
  ASSUME NEW w \in Nat \ {0}, NEW d \in Nat \ {0}, NEW q \in Nat
  PROVE  (d - 1) \div w = q <=> q * w < d /\ d <= q * w + w
<1> DEFINE k == (d - 1) \div w
<1>1. k \in Int /\ k * w <= d - 1 /\ d - 1 < k * w + w
  <2> DEFINE r == (d - 1) % w
  <2>1. k \in Int /\ r \in 0..(w - 1) /\ d - 1 = w * k + r
    BY Z3
  <2> QED BY <2>1, Z3
<1> HIDE DEF k
<1>2. k < q => k * w + w <= q * w
  BY <1>1, Z3
<1>3. q < k => q * w + w <= k * w
  BY <1>1, Z3
<1>4. k * w \in Int /\ q * w \in Int
  BY <1>1, Z3
<1>5. k = q => k * w = q * w
  OBVIOUS
<1>6. k = q <=> q * w < d /\ d <= q * w + w
  <2> DEFINE a == k * w
             b == q * w
  <2>1. /\ a \in Int /\ b \in Int /\ a <= d - 1 /\ d - 1 < a + w /\ (k < q => a + w <= b)
        /\ (q < k => b + w <= a) /\ (k = q => a = b) /\ k \in Int
    BY <1>1, <1>2, <1>3, <1>4, <1>5
  <2> HIDE DEF a, b
  <2>2. k = q <=> b < d /\ d <= b + w
    BY <2>1
  <2> QED BY <2>2 DEF b
<1> QED BY <1>6 DEF k

\* A checked claim is compared on what it read, except perhaps for the input.
LEMMA CheckedOn ==
  ASSUME ValuesInv, XInv, step = "check", NEW b \in (First + 1)..Seen
  PROVE  /\ b \in 1..n /\ b \in 1..Done
         /\ bytes = FirstBytes => (Holds(b) <=> b \notin wrong)
         /\ Holds(b) => /\ b \notin wrong
                        /\ X \in tape[b].ivars => window_values[X] = used[b].ins[X]
<1> USE DEF ValuesInv
<1> DEFINE S == tape[b].ivars
           ins == used[b].ins
           e == IF b \in wrong THEN Slip ELSE 0
<1>1. First \in Nat /\ Seen \in 0..n /\ n \in Nat
  BY AtHand DEF ResidentInv, WindowInv
<1>2. b \in 1..n
  BY <1>1
<1>3. Seen = Done
  BY AtHand DEF Seen, Done, ResidentInv
<1>4. b \in 1..Done
  BY <1>1, <1>3
<1>5. /\ S \subseteq DOMAIN ins /\ Right(ins) /\ used[b].out = Correct(b, ins) + e
      /\ b \in DOMAIN used
  BY <1>4 DEF UsedInv
<1>6. Wires(b) \subseteq DOMAIN window_values /\ Right(window_values)
  BY DEF Wired, ResidentInv, HeldInv, KeptInv
<1>7. window_values[Y(b)] = used[b].out
  BY <1>6 DEF Right, RightValue, Wires
<1>8. S \subseteq {X} \cup {Y(k) : k \in 1..n} /\ IsFiniteSet(S)
  BY <1>2, WiresRanked DEF ResidentInv
<1>9. \A v \in S : v # X => window_values[v] = ins[v]
  BY <1>5, <1>6, <1>8 DEF Right, RightValue, Wires
<1>10. \A v \in S : window_values[v] \in Int /\ ins[v] \in Int
  BY <1>2, <1>5, <1>6, RightInt DEF Wires
<1>11. Holds(b) <=> SumOf(ins, S) + e = SumOf(window_values, S)
  <2> DEFINE a == SumOf(ins, S)
             c == SumOf(window_values, S)
  <2>1. a \in Int /\ c \in Int
    BY <1>8, <1>10, SumInt
  <2>2. Correct(b, ins) = 7 * b + a /\ Correct(b, window_values) = 7 * b + c
    BY DEF Correct, Weights
  <2>3. e \in Int
    BY DEF Slip
  <2>4. Holds(b) <=> 7 * b + a + e = 7 * b + c
    BY <1>5, <1>7, <2>2 DEF Holds
  <2> HIDE DEF a, c, e
  <2>5. Holds(b) <=> a + e = c
    BY <1>2, <2>1, <2>3, <2>4
  <2> QED BY <2>5 DEF a, c
<1>12. CASE X \notin S
  <2>1. SumOf(ins, S) = SumOf(window_values, S)
    <3>1. \A v \in S : ins[v] = window_values[v]
      BY <1>9, <1>12
    <3> QED BY <1>8, <3>1, SumSame
  <2>2. SumOf(ins, S) \in Int
    BY <1>8, <1>10, SumInt
  <2>3. Holds(b) <=> b \notin wrong
    BY <1>11, <2>1, <2>2 DEF Slip
  <2> QED BY <1>2, <1>4, <1>12, <2>3
<1>13. CASE X \in S
  <2> DEFINE T == S \ {X}
             s == SumOf(ins, T)
             x == ins[X]
             y == window_values[X]
  <2>1. SumOf(ins, S) = x + s
    BY <1>8, <1>10, <1>13, SumTake
  <2>2. SumOf(window_values, S) = y + SumOf(window_values, T)
    BY <1>8, <1>10, <1>13, SumTake
  <2>3. SumOf(window_values, T) = s /\ s \in Int
    <3>1. IsFiniteSet(T)
      BY <1>8, FS_Subset
    <3>2. \A v \in T : window_values[v] = ins[v] /\ ins[v] \in Int
      BY <1>9, <1>10
    <3> HIDE DEF T
    <3> QED BY <3>1, <3>2, SumSame, SumInt
  <2>4. /\ x \in {FirstBytes, OtherBytes} /\ y \in {FirstBytes, OtherBytes}
        /\ bytes = FirstBytes => x = y
    BY <1>5, <1>6, <1>13 DEF Right, RightValue, Wires
  <2>5. Holds(b) <=> x + s + e = y + s
    BY <1>11, <2>1, <2>2, <2>3
  <2>6. e = 0 <=> b \notin wrong
    BY DEF Slip
  <2>7. e \in {0, 1000} /\ x \in {1, 50} /\ y \in {1, 50}
    BY <2>4 DEF Slip, FirstBytes, OtherBytes
  <2> HIDE DEF x, y, s, e
  <2>8. Holds(b) <=> e = 0 /\ x = y
    BY <2>3, <2>5, <2>7
  <2>9. Holds(b) <=> b \notin wrong /\ x = y
    BY <2>6, <2>8
  <2> QED BY <1>2, <1>4, <2>4, <2>9 DEF x, y
<1> QED BY <1>12, <1>13

\* The window that is checked is one of those the claims are divided into, and its
\* first reader of the input the first in the window.
LEMMA CheckedWindow ==
  ASSUME ValuesInv, step = "check", NEW b \in (First + 1)..Seen, X \in tape[b].ivars,
         NEW c, FirstOfWindow(c, WindowOf(b))
  PROVE  c \in (First + 1)..Seen /\ FirstReader(c, First)
<1> DEFINE w == params.window_size
<1>1. /\ First \in Nat /\ Seen \in 0..n /\ n \in Nat /\ w \in Nat \ {0}
      /\ Len(window_blocks) \in 1..w /\ Seen = First + Len(window_blocks)
  <2>1. First \in Nat /\ Seen \in 0..n /\ n \in Nat /\ w \in Nat \ {0} /\ Len(window_blocks) \in 1..w
    BY AtHand DEF ResidentInv, WindowInv, ValuesInv
  <2> QED BY <2>1 DEF First
<1>2. PICK q \in Nat : First = q * w
  BY DEF ResidentInv, WindowInv, ValuesInv
<1>3. \A d \in 1..n : WindowOf(d) = q <=> First < d /\ d <= First + w
  <2> SUFFICES ASSUME NEW d \in 1..n
               PROVE  (d - 1) \div w = q <=> First < d /\ d <= First + w
    BY DEF WindowOf
  <2> HIDE DEF w
  <2>1. d \in Nat \ {0}
    OBVIOUS
  <2>2. (d - 1) \div w = q <=> q * w < d /\ d <= q * w + w
    BY <1>1, <2>1, DivWindow
  <2> QED BY <1>2, <2>2
<1> HIDE DEF w
<1>4. WindowOf(b) = q /\ b \in Blocks(q)
  <2>1. b \in 1..n /\ First < b /\ b <= First + w
    BY <1>1
  <2> QED BY <1>3, <2>1 DEF Blocks
<1>5. c \in 1..n /\ First < c /\ c <= First + w /\ c <= b
  BY <1>3, <1>4 DEF FirstOfWindow, Blocks
<1>6. \A d \in (First + 1)..n : X \in tape[d].ivars => c <= d
  <2> SUFFICES ASSUME NEW d \in (First + 1)..n, X \in tape[d].ivars, ~(c <= d) PROVE FALSE
    OBVIOUS
  <2>1. d \in 1..n /\ First < d /\ d <= First + w
    BY <1>1, <1>5
  <2>2. d \in Blocks(q)
    BY <1>3, <2>1 DEF Blocks
  <2> QED BY <1>4, <2>2 DEF FirstOfWindow
<1> QED BY <1>1, <1>4, <1>5, <1>6 DEF FirstReader, FirstOfWindow

\* Before the first sample there is no verdict.
LEMMA VerdictInit ==
  ASSUME Init
  PROVE  VerdictInv
BY DEF Init, VerdictInv

\* A sample blames the wrong claims it draws, and what it does not blame read one input.
LEMMA VerdictStep ==
  ASSUME ValuesInv, XInv, VerdictInv, [Next]_vars
  PROVE  VerdictInv'
<1> USE DEF ValuesInv
<1>0. /\ tape' = tape /\ n' = n /\ n \in Nat /\ params' = params
      /\ First \in Nat /\ Seen \in 0..n /\ First <= Seen /\ Seen <= Done /\ Done \in Nat
      /\ \A c, w : FirstOfWindow(c, w)' <=> FirstOfWindow(c, w)
      /\ \A c : (Fetched(c)' <=> Fetched(c)) /\ WindowOf(c)' = WindowOf(c)
  <2>1. Seen \in 0..n /\ n \in Nat /\ First \in Nat /\ Len(window_blocks) \in Nat
    BY AtHand DEF ResidentInv, WindowInv
  <2>2. First <= Seen
    BY <2>1 DEF First
  <2>3. tape' = tape /\ n' = n /\ params' = params
    BY TapeStays
  <2>4. Seen <= Done
    BY <2>1, AtHand DEF Seen, Done, ResidentInv
  <2> QED BY <2>1, <2>2, <2>3, <2>4, DoneMoves DEF FirstOfWindow, Blocks, WindowOf, Fetched
<1>1. CASE Check
  <2>1. Seen' = Seen /\ First' = Seen /\ step = "check"
    BY <1>1, WindowMoves DEF Observe, Check, ResidentInv
  <2>2. PICK S \in SUBSET Range(window_blocks) :
          selected' = selected \cup S /\ failures' = failures \cup {b \in S : ~Holds(b)}
    <3>1. \A s \in kSubset(sample_count(params, Len(window_blocks)), Range(window_blocks)) :
            s \in SUBSET Range(window_blocks)
      BY DEF kSubset
    <3> QED BY <1>1, <3>1 DEF Check
  <2>3. UNCHANGED <<used, wrong, bytes>>
    BY <1>1 DEF Check, engine
  <2>4. \A b \in S : b \in (First + 1)..Seen
    <3>1. \A k \in 1..Len(window_blocks) : First + k \in (First + 1)..Seen
      <4>1. Len(window_blocks) \in Nat /\ Seen \in Nat
        BY <1>0 DEF ResidentInv, WindowInv
      <4> QED BY <1>0, <4>1 DEF First
    <3>2. \A b \in Range(window_blocks) : \E k \in 1..Len(window_blocks) : b = First + k
      BY DEF Range, ResidentInv, WindowInv
    <3> QED BY <2>2, <3>1, <3>2
  <2>5. \A b \in 1..First : b \notin S
    BY <1>0, <2>4
  <2>6. ASSUME NEW b \in S, b \notin failures'
        PROVE  /\ b \notin wrong
               /\ Fetched(b) => \A c \in 1..n :
                    FirstOfWindow(c, WindowOf(b)) /\ Fetched(c) => used[b].ins[X] = used[c].ins[X]
    <3>1. Holds(b) /\ b \in (First + 1)..Seen
      BY <2>2, <2>4, <2>6
    <3>2. b \notin wrong /\ (X \in tape[b].ivars => window_values[X] = used[b].ins[X])
      BY <2>1, <3>1, CheckedOn
    <3>3. ASSUME Fetched(b), NEW c \in 1..n, FirstOfWindow(c, WindowOf(b)), Fetched(c)
          PROVE  used[b].ins[X] = used[c].ins[X]
      <4>1. X \in tape[b].ivars
        BY <3>3 DEF Fetched
      <4>2. c \in (First + 1)..Seen /\ FirstReader(c, First)
        BY <2>1, <3>1, <3>3, <4>1, CheckedWindow
      <4> QED BY <3>2, <3>3, <4>1, <4>2 DEF XInv
    <3> QED BY <3>2, <3>3
  <2>7. bytes = FirstBytes => \A b \in S : ~Holds(b) => b \in wrong
    BY <2>1, <2>4, CheckedOn
  <2>8. \A b \in S : b \in 1..Seen
    BY <1>0, <2>4
  <2>9. selected' \subseteq 1..First'
    <3>1. \A b \in selected : b \in 1..Seen
      BY <1>0 DEF VerdictInv
    <3> QED BY <2>1, <2>2, <2>8, <3>1
  <2>10. \A b \in selected' \ failures' : b \in S \/ b \in selected \ failures
    BY <2>2
  <2>11. /\ failures' \subseteq selected'
         /\ bytes' = FirstBytes => failures' \subseteq wrong'
    BY <2>2, <2>3, <2>7 DEF VerdictInv
  <2>12. \A b \in selected' \ failures' :
           /\ b \notin wrong
           /\ Fetched(b) => \A c \in 1..n :
                FirstOfWindow(c, WindowOf(b)) /\ Fetched(c) => used[b].ins[X] = used[c].ins[X]
    BY <2>6, <2>10 DEF VerdictInv
  <2> QED BY <1>0, <2>3, <2>9, <2>11, <2>12 DEF VerdictInv
<1>2. CASE ~Check
  <2>1. UNCHANGED <<selected, failures>>
    BY <1>2 DEF Next, Compute, Observe, Commit, Release, Finish, Drift, vars, verdict
  <2>2. First' = First
    BY <1>2, WindowMoves DEF ResidentInv
  <2>3. bytes' = FirstBytes => bytes = FirstBytes
    <3>1. FirstBytes # OtherBytes
      BY DEF FirstBytes, OtherBytes
    <3> QED BY <1>2, <3>1 DEF Next, Compute, Observe, Commit, Release, Finish, Drift, vars
  <2>4. wrong' = wrong \/ (wrong' = wrong \cup {at} /\ at \notin 1..Done)
    <3>1. CASE Compute
      <4>1. wrong' = wrong \/ wrong' = wrong \cup {at}
        BY <3>1 DEF Compute
      <4>2. at \notin 1..Done
        BY <3>1, DoneMoves
      <4> QED BY <4>1, <4>2
    <3> QED BY <3>1, DoneMoves
  <2>5. \A b \in selected : b \in 1..Done /\ b \in 1..n
    BY <1>0 DEF VerdictInv
  <2>6. ASSUME NEW b \in selected \ failures, Fetched(b), NEW c \in 1..n, FirstOfWindow(c, WindowOf(b)),
               Fetched(c)
        PROVE  used'[b].ins[X] = used'[c].ins[X]
    <3>1. b \in Blocks(WindowOf(b)) /\ X \in tape[b].ivars
      BY <2>5, <2>6 DEF Blocks, Fetched
    <3>2. c <= b
      BY <2>6, <3>1 DEF FirstOfWindow
    <3>3. c \in 1..Done /\ b \in 1..Done
      BY <1>0, <2>5, <3>2
    <3>4. used'[b] = used[b] /\ used'[c] = used[c]
      BY <3>3, RightStays DEF UsedInv
    <3> QED BY <2>6, <3>4 DEF VerdictInv
  <2>7. \A b \in selected \ failures : b \notin wrong'
    BY <2>4, <2>5 DEF VerdictInv
  <2>8. failures \subseteq wrong => failures \subseteq wrong'
    BY <2>4
  <2> QED BY <1>0, <2>1, <2>2, <2>3, <2>6, <2>7, <2>8 DEF VerdictInv
<1> QED BY <1>1, <1>2
--------------------------------------------------------------------------------
(***************************************************************************)
(* The order of C0                                                         *)
(***************************************************************************)
\* C0 lists the wires in the order of the claims that mention them, whatever the
\* windows.
Names == [k \in DOMAIN pending_digests |-> pending_digests[k][1]]
OrderUpTo == Joined([i \in 1..n |-> Mentioned(i)], n)
OrderInv == IsSeq(wire_order) /\ FinalOrder = OrderUpTo[Seen]

\* Nothing joined to a sequence leaves it.
LEMMA IsSeqFacts ==
  /\ IsSeq(<< >>)
  /\ \A s : IsSeq(s) => s \o << >> = s
<1>1. IsSeq(<< >>)
  <2>1. << >> \in Seq({})
    OBVIOUS
  <2> QED BY <2>1 DEF IsSeq
<1>2. ASSUME NEW s, IsSeq(s) PROVE s \o << >> = s
  BY <1>2, ConcatEmptySeq DEF IsSeq
<1> QED BY <1>1, <1>2

\* Sequences are joined in any grouping.
LEMMA Grouping ==
  ASSUME NEW a, NEW b, NEW c, IsSeq(a), IsSeq(b), IsSeq(c)
  PROVE  (a \o b) \o c = a \o (b \o c)
<1>1. PICK A, B, C : a \in Seq(A) /\ b \in Seq(B) /\ c \in Seq(C)
  BY DEF IsSeq
<1>2. a \in Seq(A \cup B \cup C) /\ b \in Seq(A \cup B \cup C) /\ c \in Seq(A \cup B \cup C)
  BY <1>1
<1> QED BY <1>2, ConcatAssociative

\* A function on 1..b is a sequence.
LEMMA FunctionIsSeq ==
  ASSUME NEW b \in Nat, NEW T, NEW f \in [1..b -> T]
  PROVE  IsSeq(f) /\ Len(f) = b
<1>1. f \in Seq(T)
  OBVIOUS
<1>2. Len(f) = b
  OBVIOUS
<1> QED BY <1>1, <1>2 DEF IsSeq

\* A sequence that begins like s and goes on like t is the two joined.
LEMMA JoinIsUnique ==
  ASSUME NEW s, NEW t, NEW m, IsSeq(s), IsSeq(t), IsSeq(m), Len(m) = Len(s) + Len(t),
         \A k \in 1..Len(s) : m[k] = s[k], \A k \in 1..Len(t) : m[Len(s) + k] = t[k]
  PROVE  m = s \o t
<1> DEFINE j == s \o t
           a == Len(s)
           b == Len(t)
<1>1. /\ IsSeq(j) /\ Len(j) = a + b /\ a \in Nat /\ b \in Nat
      /\ \A k \in 1..a : j[k] = s[k]
      /\ \A k \in 1..b : j[a + k] = t[k]
  BY Joining
<1>2. PICK S, T : m \in Seq(S) /\ j \in Seq(T)
  BY <1>1 DEF IsSeq
<1>3. m \in Seq(S \cup T) /\ j \in Seq(S \cup T)
  BY <1>2
<1>4. Len(m) = a + b /\ (\A k \in 1..a : m[k] = s[k]) /\ (\A k \in 1..b : m[a + k] = t[k])
  OBVIOUS
<1> HIDE DEF j, a, b
<1>6. ASSUME NEW k \in 1..(a + b) PROVE m[k] = j[k]
  <2>1. k \in 1..a \/ \E l \in 1..b : k = a + l
    <3>1. ~(k \in 1..a) => k - a \in 1..b /\ k = a + (k - a)
      BY <1>1
    <3> QED BY <3>1
  <2>2. CASE k \in 1..a
    BY <1>1, <1>4, <2>2
  <2>3. CASE \E l \in 1..b : k = a + l
    <3>1. PICK l \in 1..b : k = a + l
      BY <2>3
    <3>2. m[a + l] = t[l] /\ j[a + l] = t[l]
      BY <1>1, <1>4, <3>1
    <3> QED BY <3>1, <3>2
  <2> QED BY <2>1, <2>2, <2>3
<1>7. m = j
  BY <1>1, <1>3, <1>4, <1>6, SeqEqual
<1> QED BY <1>7 DEF j

\* The wires an observation is the first to see, in the order it notes them.
LEMMA NewInOrder ==
  ASSUME ValuesInv, Observe
  PROVE  [k \in 1..Cardinality(New) |-> Nth(New, k)] = Mentioned(at)
<1> USE DEF ValuesInv
<1>0. /\ at \in 1..n /\ Seen = at - 1 /\ n \in Nat /\ Digested = Wired(0, Seen) /\ StandsInv
  BY Observed, AtHand DEF ResidentInv
<1> DEFINE first == X \in tape[at].ivars /\ \A j \in 1..(at - 1) : X \notin tape[j].ivars
<1>1. tape[at].ivars \subseteq {X} \cup {Y(k) : k \in 1..n} /\ Ranked(New)
  BY <1>0, WiresRanked DEF New
<1>2. Y(at) \in New
  <2> SUFFICES ASSUME Y(at) \in Wired(0, Seen) PROVE FALSE
    BY <1>0 DEF New, Wires
  <2>1. PICK i \in (0 + 1)..Seen : Y(at) \in Wires(i)
    BY DEF Wired
  <2>2. i \in 1..n /\ i < at
    BY <1>0, <2>1
  <2>3. Y(at) # Y(i)
    BY <2>2, DistinctVars
  <2>4. Y(at) \in tape[i].ivars
    BY <2>1, <2>3 DEF Wires
  <2> QED BY <1>0, <2>2, <2>4, WiresRanked
<1>3. \A k : Y(k) \in New => k = at
  <2> SUFFICES ASSUME NEW k, Y(k) \in New, k # at PROVE FALSE
    OBVIOUS
  <2>1. Y(k) \in tape[at].ivars /\ Y(k) \notin Wired(0, Seen)
    BY <1>0, DistinctVars DEF New, Wires
  <2>2. k \in 1..n /\ k < at
    BY <1>0, <2>1, WiresRanked
  <2>3. k \in (0 + 1)..Seen
    BY <1>0, <2>2
  <2> QED BY <2>1, <2>3 DEF Wired, Wires
<1>4. X \in New <=> first
  <2>1. X \in Wired(0, Seen) <=> \E i \in (0 + 1)..Seen : X \in tape[i].ivars
    BY <1>0, InputIsRead
  <2>2. X \in Wires(at) <=> X \in tape[at].ivars
    BY <1>0, InputIsRead
  <2>3. (0 + 1)..Seen = 1..(at - 1)
    BY <1>0
  <2> QED BY <1>0, <2>1, <2>2, <2>3 DEF New
<1>5. New = IF first THEN {X, Y(at)} ELSE {Y(at)}
  <2>1. New \subseteq {X, Y(at)}
    BY <1>1, <1>3 DEF New, Wires
  <2> QED BY <1>2, <1>4, <2>1
<1>6. X[2] = 0 /\ Y(at)[2] = at /\ X # Y(at)
  BY DistinctVars DEF X, Y
<1>7. CASE first
  <2>1. New = {X, Y(at)} /\ IsFiniteSet(New) /\ Cardinality(New) = 2
    <3>1. Cardinality({X}) = 1 /\ IsFiniteSet({X})
      BY FS_Singleton
    <3>2. Cardinality({X} \cup {Y(at)}) = 2
      <4>1. Y(at) \notin {X}
        BY <1>6
      <4>2. Cardinality({X} \cup {Y(at)}) = Cardinality({X}) + 1
        BY ONLY <3>1, <4>1, FS_AddElement
      <4> QED BY ONLY <3>1, <4>2
    <3>3. {X} \cup {Y(at)} = {X, Y(at)}
      OBVIOUS
    <3> QED BY <1>1, <1>5, <1>7, <3>2, <3>3 DEF Ranked
  <2>2. Rank(New, X) = 1 /\ Rank(New, Y(at)) = 2
    <3>1. {u \in New : u[2] <= X[2]} = {X}
      BY <1>0, <1>6, <2>1
    <3>2. {u \in New : u[2] <= Y(at)[2]} = New
      BY <1>0, <1>6, <2>1
    <3> QED BY <2>1, <3>1, <3>2, FS_Singleton DEF Rank
  <2>3. Nth(New, 1) = X /\ Nth(New, 2) = Y(at)
    BY <1>1, <2>1, <2>2, NthNames
  <2>4. Mentioned(at) = <<X>> \o <<Y(at)>>
    BY <1>7 DEF Mentioned
  <2> DEFINE m == [k \in 1..2 |-> Nth(New, k)]
  <2>5. m[1] = X /\ m[2] = Y(at) /\ m \in [1..2 -> {Nth(New, k) : k \in 1..2}]
    BY <2>3
  <2> HIDE DEF m
  <2>6. IsSeq(m) /\ Len(m) = 2
    BY <2>5, FunctionIsSeq
  <2>7. m = <<X>> \o <<Y(at)>>
    <3> DEFINE s == <<X>>
               t == <<Y(at)>>
    <3>1. /\ s \in Seq({X, Y(at)}) /\ t \in Seq({X, Y(at)})
          /\ Len(s) = 1 /\ Len(t) = 1 /\ s[1] = X /\ t[1] = Y(at)
      OBVIOUS
    <3> HIDE DEF s, t
    <3>2. IsSeq(s) /\ IsSeq(t)
      BY <3>1 DEF IsSeq
    <3>3. Len(m) = Len(s) + Len(t)
      BY <2>6, <3>1
    <3>4. (\A k \in 1..Len(s) : m[k] = s[k]) /\ (\A k \in 1..Len(t) : m[Len(s) + k] = t[k])
      <4>1. \A k \in 1..1 : k = 1 /\ 1 + k = 2
        OBVIOUS
      <4> QED BY <2>5, <3>1, <4>1
    <3>5. m = s \o t
      BY ONLY <2>6, <3>2, <3>3, <3>4, JoinIsUnique
    <3> QED BY <3>5 DEF s, t
  <2> QED BY <2>1, <2>4, <2>7 DEF m
<1>8. CASE ~first
  <2>1. New = {Y(at)} /\ Cardinality(New) = 1
    BY <1>5, <1>8, FS_Singleton
  <2>2. Nth(New, 1) = Y(at)
    <3>1. 1 \in 1..1
      OBVIOUS
    <3> QED BY <1>1, <2>1, <3>1, NthNames
  <2>3. Mentioned(at) = << >> \o <<Y(at)>>
    BY <1>8 DEF Mentioned
  <2>4. << >> \o <<Y(at)>> = <<Y(at)>>
    OBVIOUS
  <2>5. [k \in 1..1 |-> Nth(New, k)] = <<Y(at)>>
    BY <2>2
  <2> QED BY <2>1, <2>3, <2>4, <2>5
<1> QED BY <1>7, <1>8

\* A claim mentions one wire or two.
LEMMA MentionedIsSeq ==
  ASSUME NEW i
  PROVE  IsSeq(Mentioned(i))
<1>1. <<X>> \in Seq({X, Y(i)}) /\ << >> \in Seq({X, Y(i)}) /\ <<Y(i)>> \in Seq({X, Y(i)})
  OBVIOUS
<1>2. <<X>> \o <<Y(i)>> \in Seq({X, Y(i)}) /\ << >> \o <<Y(i)>> \in Seq({X, Y(i)})
  BY <1>1, ConcatProperties
<1>3. Mentioned(i) \in Seq({X, Y(i)})
  BY <1>2 DEF Mentioned
<1> QED BY <1>3 DEF IsSeq

\* The names of the pending digests.
LEMMA NamesAre ==
  ASSUME IsSeq(pending_digests)
  PROVE  /\ IsSeq(Names) /\ Len(Names) = Len(pending_digests)
         /\ FinalOrder = wire_order \o Names
         /\ pending_digests = << >> => Names = << >>
<1>1. PICK T : pending_digests \in Seq(T)
  BY DEF IsSeq
<1>2. Len(pending_digests) \in Nat /\ DOMAIN pending_digests = 1..Len(pending_digests)
  BY <1>1
<1>3. Names \in [1..Len(pending_digests) -> Pending]
  BY <1>2 DEF Names, Pending
<1>4. Names \in Seq(Pending) /\ Len(Names) = Len(pending_digests)
  BY <1>2, <1>3
<1>5. pending_digests = << >> => Names = << >>
  <2> SUFFICES ASSUME pending_digests = << >> PROVE Names = << >>
    OBVIOUS
  <2>1. Len(pending_digests) = 0
    OBVIOUS
  <2> QED BY <1>4, <2>1, EmptySeq
<1> QED BY <1>4, <1>5 DEF IsSeq, FinalOrder, Names

\* An observation appends to C0 what its claim is the first to mention.
LEMMA NamesGrow ==
  ASSUME ValuesInv, Observe
  PROVE  Names' = Names \o Mentioned(at)
<1> USE DEF ValuesInv
<1>1. /\ pending_digests' = pending_digests \o NewPairs /\ IsSeq(NewPairs) /\ IsSeq(pending_digests)
      /\ IsSeq(pending_digests') /\ Len(NewPairs) = Cardinality(New)
  BY PendingGrows DEF ResidentInv
<1> DEFINE a == Len(pending_digests)
           b == Cardinality(New)
           N == [k \in 1..b |-> Nth(New, k)]
<1>2. /\ a \in Nat /\ b \in Nat /\ DOMAIN pending_digests = 1..a
      /\ DOMAIN pending_digests' = 1..(a + b)
      /\ \A k \in 1..a : pending_digests'[k] = pending_digests[k]
      /\ \A k \in 1..b : pending_digests'[a + k] = NewPairs[k]
  BY <1>1, Joining
<1>3. \A k \in 1..b : NewPairs[k][1] = Nth(New, k)
  BY DEF NewPairs
<1>4. IsSeq(Names) /\ Len(Names) = a
  BY <1>1, NamesAre
<1>5. IsSeq(N) /\ Len(N) = b
  <2>1. N \in [1..b -> {Nth(New, k) : k \in 1..b}]
    OBVIOUS
  <2> HIDE DEF b, N
  <2> QED BY <1>2, <2>1, FunctionIsSeq
<1>6. IsSeq(Names') /\ Len(Names') = a + b
  <2>1. Names' \in [1..(a + b) -> {pending_digests'[k][1] : k \in 1..(a + b)}]
    BY <1>2 DEF Names
  <2> DEFINE M == Names'
             c == a + b
  <2>2. M \in [1..c -> {pending_digests'[k][1] : k \in 1..c}] /\ c \in Nat
    BY <1>2, <2>1
  <2> HIDE DEF M, c
  <2>3. IsSeq(M) /\ Len(M) = c
    BY <2>2, FunctionIsSeq
  <2> QED BY <2>3 DEF M, c
<1>7. \A k \in 1..a : Names'[k] = Names[k]
  <2>1. \A k \in 1..a : k \in 1..(a + b)
    BY <1>2
  <2> QED BY <1>2, <2>1 DEF Names
<1>8. \A k \in 1..b : Names'[a + k] = N[k]
  <2>1. \A k \in 1..b : a + k \in 1..(a + b)
    BY <1>2
  <2> QED BY <1>2, <1>3, <2>1 DEF Names
<1>10. Names' = Names \o N
  <2> HIDE DEF N, a, b
  <2>1. IsSeq(Names) /\ IsSeq(N) /\ IsSeq(Names') /\ Len(Names') = Len(Names) + Len(N)
    BY <1>4, <1>5, <1>6
  <2>2. (\A k \in 1..Len(Names) : Names'[k] = Names[k]) /\ (\A k \in 1..Len(N) : Names'[Len(Names) + k] = N[k])
    BY <1>4, <1>5, <1>7, <1>8
  <2> QED BY ONLY <2>1, <2>2, JoinIsUnique
<1> QED BY <1>10, NewInOrder

\* Before the first claim, C0 is empty.
LEMMA OrderInit ==
  ASSUME Init
  PROVE  OrderInv
<1>1. wire_order = << >> /\ pending_digests = << >> /\ Seen = 0 /\ IsSeq(pending_digests)
  BY HeldInit DEF Init, Seen
<1>2. FinalOrder = << >>
  <2>1. Names = << >> /\ FinalOrder = wire_order \o Names
    BY <1>1, NamesAre
  <2> QED BY <1>1, <2>1, IsSeqFacts
<1>3. n \in Nat
  BY StandsInit, AtHand
<1>4. OrderUpTo[0] = << >>
  BY <1>3, JoinedIs DEF OrderUpTo
<1> QED BY <1>1, <1>2, <1>4, IsSeqFacts DEF OrderInv

\* C0 and the pending digests go on listing the wires in the order of their mention.
LEMMA OrderStep ==
  ASSUME ValuesInv, OrderInv, [Next]_vars
  PROVE  OrderInv'
<1> USE DEF ValuesInv
<1>0. OrderUpTo' = OrderUpTo /\ n \in Nat
  <2>1. tape' = tape /\ n' = n
    BY TapeStays
  <2> DEFINE each == [i \in 1..n |-> Mentioned(i)]
  <2>2. each' = each
    BY <2>1 DEF Mentioned
  <2> HIDE DEF each
  <2>3. Joined(each, n)' = Joined(each, n)
    BY <2>1, <2>2
  <2> QED BY <2>3, AtHand DEF each, OrderUpTo, ResidentInv
<1>1. CASE Observe
  <2>1. at \in 1..n /\ Seen = at - 1 /\ Seen' = at /\ wire_order' = wire_order
    BY <1>1, Observed DEF Observe
  <2>2. Names' = Names \o Mentioned(at)
    BY <1>1, NamesGrow
  <2>3. FinalOrder = wire_order \o Names /\ FinalOrder' = wire_order \o Names' /\ IsSeq(Names)
    <3>1. IsSeq(pending_digests) /\ IsSeq(pending_digests')
      BY <1>1, PendingGrows DEF ResidentInv
    <3>2. FinalOrder = wire_order \o Names /\ IsSeq(Names)
      BY <3>1, NamesAre
    <3>3. FinalOrder' = wire_order' \o Names'
      BY DEF FinalOrder, Names
    <3> QED BY <2>1, <3>2, <3>3
  <2>4. IsSeq(Mentioned(at))
    BY MentionedIsSeq
  <2>5. FinalOrder' = OrderUpTo[Seen] \o Mentioned(at)
    <3>1. IsSeq(wire_order) /\ FinalOrder = OrderUpTo[Seen]
      BY DEF OrderInv
    <3>3. IsSeq(wire_order) /\ IsSeq(Names) /\ IsSeq(Mentioned(at))
      BY <2>3, <2>4, <3>1
    <3>2. (wire_order \o Names) \o Mentioned(at) = wire_order \o (Names \o Mentioned(at))
      BY ONLY <3>3, Grouping
    <3> QED BY <2>2, <2>3, <3>1, <3>2
  <2>6. OrderUpTo[at] = OrderUpTo[at - 1] \o Mentioned(at)
    <3> DEFINE each == [i \in 1..n |-> Mentioned(i)]
    <3>1. each[at] = Mentioned(at)
      BY <2>1
    <3>2. Joined(each, n)[at] = Joined(each, n)[at - 1] \o each[at]
      BY <1>0, <2>1, JoinedIs
    <3> QED BY <3>1, <3>2 DEF OrderUpTo
  <2> QED BY <1>0, <2>1, <2>5, <2>6 DEF OrderInv
<1>2. CASE Commit
  <2>1. wire_order' = FinalOrder /\ pending_digests' = << >> /\ step' = "check"
    BY <1>2 DEF Commit
  <2>2. Seen' = Seen
    BY <1>2, WindowMoves DEF ResidentInv, Observe, Check, Commit
  <2>3. IsSeq(FinalOrder)
    <3>1. FinalOrder = wire_order \o Names /\ IsSeq(Names) /\ IsSeq(wire_order)
      BY NamesAre DEF OrderInv, ResidentInv
    <3> QED BY <3>1, Joining
  <2>4. FinalOrder' = FinalOrder
    <3>1. IsSeq(pending_digests')
      BY <2>1, IsSeqFacts
    <3>2. Names' = << >> /\ FinalOrder' = wire_order' \o Names'
      <4>1. DOMAIN << >> = {}
        OBVIOUS
      <4>2. Names' = << >>
        BY <2>1, <4>1 DEF Names
      <4> QED BY <4>2 DEF FinalOrder, Names
    <3> QED BY <2>1, <2>3, <3>2, IsSeqFacts
  <2> QED BY <1>0, <2>1, <2>2, <2>3, <2>4 DEF OrderInv
<1>3. CASE Compute \/ Check \/ Release \/ Finish \/ Drift \/ UNCHANGED vars
  <2>1. UNCHANGED <<wire_order, pending_digests>>
    BY <1>3 DEF Compute, Check, Release, Finish, Drift, vars, digests
  <2>2. Seen' = Seen
    <3>1. ~Observe \/ UNCHANGED vars
      BY <1>3 DEF Compute, Check, Release, Finish, Drift, Observe
    <3>2. CASE UNCHANGED vars
      BY <3>2 DEF vars, Seen, n
    <3> QED BY <3>1, <3>2, WindowMoves DEF ResidentInv
  <2>3. FinalOrder' = FinalOrder
    BY <2>1 DEF FinalOrder
  <2> QED BY <1>0, <2>1, <2>2, <2>3 DEF OrderInv
<1> QED BY <1>1, <1>2, <1>3 DEF Next
--------------------------------------------------------------------------------
(***************************************************************************)
(* What the audit promises                                                 *)
(***************************************************************************)
Inductive == ValuesInv /\ XInv /\ VerdictInv /\ OrderInv

\* The inductive invariant holds at the start.
LEMMA InductiveInit == Init => Inductive
BY ResidentInit, UsedInit, XInit, VerdictInit, OrderInit DEF Inductive, ValuesInv

\* Every step keeps the inductive invariant.
LEMMA InductiveStep == Inductive /\ [Next]_vars => Inductive'
BY ResidentStep, UsedStep, LiveStep, KeptStep, XStep, VerdictStep, OrderStep DEF Inductive, ValuesInv

\* A set of natural numbers that is not empty has the least element Min picks.
LEMMA MinIsLeast ==
  ASSUME NEW S, S \subseteq Nat, S # {}
  PROVE  Min(S) \in S /\ \A s \in S : Min(S) <= s
<1>1. \E m \in S : \A s \in S : m <= s
  BY LeastElement
<1> QED BY <1>1 DEF Min

\* The first reader of the input on the tape.
LEMMA FirstConsumer ==
  ASSUME StandsInv, NEW b \in 1..n, X \in tape[b].ivars
  PROVE  FirstReader(Min(Consumers(tape, X)), 0) /\ Min(Consumers(tape, X)) \in 1..n
<1>1. DOMAIN tape = 1..n /\ n \in Nat
  BY AtHand
<1> DEFINE S == Consumers(tape, X)
<1>2. S = {d \in 1..n : X \in tape[d].ivars}
  BY <1>1 DEF Consumers
<1>3. S \subseteq Nat /\ S # {}
  BY <1>2
<1>4. Min(S) \in S /\ \A s \in S : Min(S) <= s
  BY <1>3, MinIsLeast
<1>5. 1..n = (0 + 1)..n
  OBVIOUS
<1> QED BY <1>2, <1>4, <1>5 DEF FirstReader

\* The window ends at the claims seen, and begins no later.
LEMMA FirstIsSeen ==
  ASSUME ResidentInv
  PROVE  /\ First \in Nat /\ Seen \in Nat /\ First <= Seen /\ Seen <= n /\ First <= n
<1>1. First \in Nat /\ Seen \in 0..n /\ n \in Nat /\ Len(window_blocks) \in Nat
  BY AtHand DEF ResidentInv, WindowInv
<1>2. First <= Seen
  BY <1>1 DEF First
<1> QED BY <1>1, <1>2

\* The values a window is checked on are those its commitments bind.
LEMMA WindowIsBound ==
  ASSUME Inductive
  PROVE  CheckedIsBound
<1> USE DEF Inductive, ValuesInv
<1> SUFFICES ASSUME step = "check", NEW b \in Range(window_blocks), NEW v \in Wires(b),
                    ~(v = X /\ bytes = OtherBytes /\ Min(Consumers(tape, X)) < Head(window_blocks))
             PROVE  window_values[v] = commitments[b][v]
  BY DEF CheckedIsBound
<1>0. First \in Nat /\ Seen \in 0..n /\ n \in Nat /\ StandsInv /\ bytes \in {FirstBytes, OtherBytes}
  BY AtHand DEF ResidentInv, WindowInv, StandsInv
<1>1. b \in (First + 1)..Seen /\ b \in 1..n /\ Head(window_blocks) = First + 1
  <2>1. Len(window_blocks) \in Nat \ {0} /\ window_blocks \in Seq(1..n)
        /\ \A k \in 1..Len(window_blocks) : window_blocks[k] = First + k
    BY AtHand DEF ResidentInv, WindowInv
  <2>2. PICK k \in 1..Len(window_blocks) : b = First + k
    BY <2>1 DEF Range
  <2>3. Seen = First + Len(window_blocks)
    BY <1>0, <2>1 DEF First
  <2>4. Head(window_blocks) = window_blocks[1] /\ window_blocks[1] = First + 1
    BY <2>1
  <2> QED BY <1>0, <2>1, <2>2, <2>3, <2>4
<1>2. v \in DOMAIN window_values /\ v \in Wired(0, Seen) /\ v \in DOMAIN wire_digests
  <2>1. v \in Wired(First, Seen)
    BY <1>1 DEF Wired
  <2>2. b \in (0 + 1)..Seen
    BY <1>0, <1>1
  <2>3. v \in Wired(0, Seen)
    BY <2>2 DEF Wired
  <2> QED BY <2>1, <2>3 DEF ResidentInv, HeldInv
<1>3. commitments[b][v] = wire_digests[v]
  BY DEF XInv, Restrict
<1>4. RightValue(v, window_values[v]) /\ RightValue(v, wire_digests[v])
  BY <1>2 DEF KeptInv, Right
<1>5. CASE v # X
  <2>1. \E k : v = Y(k)
    <3>1. tape[b].ivars \subseteq {X} \cup {Y(k) : k \in 1..n}
      BY <1>0, <1>1, WiresRanked
    <3> QED BY <1>5, <3>1 DEF Wires
  <2> QED BY <1>3, <1>4, <2>1 DEF RightValue
<1>6. CASE v = X /\ bytes = FirstBytes
  BY <1>3, <1>4, <1>6 DEF RightValue
<1>7. CASE v = X /\ bytes = OtherBytes
  <2>1. X \in tape[b].ivars
    BY <1>0, <1>7, InputIsRead
  <2>2. FirstReader(Min(Consumers(tape, X)), 0) /\ Min(Consumers(tape, X)) \in 1..n
    BY <1>0, <1>1, <2>1, FirstConsumer
  <2>3. ~(Min(Consumers(tape, X)) < First + 1)
    BY <1>1, <1>7
  <2>4. X \notin Wired(0, First)
    <3> SUFFICES ASSUME X \in Wired(0, First) PROVE FALSE
      OBVIOUS
    <3>1. PICK i \in (0 + 1)..First : X \in tape[i].ivars
      BY <1>0, InputIsRead
    <3>2. First <= n
      BY <1>0, <1>1
    <3>3. Min(Consumers(tape, X)) <= i
      BY <1>0, <2>2, <3>1, <3>2 DEF FirstReader
    <3> QED BY <1>0, <2>2, <2>3, <3>1, <3>3
  <2> QED BY <1>2, <1>3, <1>7, <2>4 DEF XInv
<1> QED BY <1>0, <1>5, <1>6, <1>7

\* C0 lists the witness in the order of the claims.
LEMMA C0IsRight ==
  ASSUME Inductive
  PROVE  C0IsTheWitness
<1> USE DEF Inductive, ValuesInv
<1>0. StandsInv /\ n \in Nat /\ DOMAIN tape = 1..n
  BY AtHand DEF ResidentInv
<1>1. ASSUME step = "done" PROVE wire_order = ExpectedOrder
  <2>1. Seen = n /\ pending_digests = << >>
    <3>1. window_blocks = << >> /\ at = n + 1
      BY <1>1 DEF ResidentInv, WindowInv, StandsInv
    <3>2. Seen = n
      BY <1>0, <1>1, <3>1 DEF Seen
    <3>3. Len(window_blocks) = 0
      BY <3>1
    <3>4. First = Seen
      BY ONLY <1>0, <3>2, <3>3 DEF First
    <3>5. Pending = {}
      BY <1>1, <3>4 DEF ResidentInv, HeldInv
    <3>6. pending_digests = << >>
      <4>1. DOMAIN pending_digests = {}
        BY <3>5 DEF Pending
      <4>2. PICK T : pending_digests \in Seq(T)
        BY DEF ResidentInv, IsSeq
      <4>3. Len(pending_digests) = 0
        BY <4>1, <4>2
      <4> QED BY <4>2, <4>3, EmptySeq
    <3> QED BY <3>2, <3>6
  <2>2. FinalOrder = wire_order
    <3>1. IsSeq(pending_digests) /\ IsSeq(wire_order)
      BY DEF ResidentInv, OrderInv
    <3>2. Names = << >> /\ FinalOrder = wire_order \o Names
      BY <2>1, <3>1, NamesAre
    <3> QED BY <3>1, <3>2, IsSeqFacts
  <2> QED BY <2>1, <2>2 DEF OrderInv, OrderUpTo, ExpectedOrder
<1>2. \A i \in 1..n : Y(i) \in DOMAIN wire_digests => wire_digests[Y(i)] = used[i].out
  BY DEF KeptInv, Right, RightValue
<1>3. ASSUME X \in DOMAIN wire_digests, Fetched(Min(Consumers(tape, X)))
      PROVE  wire_digests[X] = used[Min(Consumers(tape, X))].ins[X]
  <2>1. PICK a \in Nat : a <= n /\ X \in Wired(0, a)
    BY <1>0, <1>3, FirstIsSeen DEF ResidentInv, HeldInv
  <2>2. PICK b \in (0 + 1)..a : X \in tape[b].ivars
    BY <1>0, <2>1, InputIsRead
  <2>3. b \in 1..n
    BY <1>0, <2>1
  <2> QED BY <1>0, <1>3, <2>2, <2>3, FirstConsumer DEF XInv
<1> QED BY <1>1, <1>2, <1>3 DEF C0IsTheWitness

\* At the end the verdict is the one the claims deserve.
LEMMA VerdictHolds ==
  ASSUME Inductive
  PROVE  VerdictIsRight
<1> USE DEF Inductive, ValuesInv
<1>0. StandsInv /\ n \in Nat /\ First \in Nat /\ First <= n
  BY AtHand, FirstIsSeen DEF ResidentInv
<1>1. bytes = FirstBytes => failures = selected \cap wrong
  BY DEF VerdictInv
<1>2. failures = {} => selected \cap wrong = {}
  BY DEF VerdictInv
<1>3. ASSUME failures = {}, NEW b \in selected, NEW c \in 1..n, WindowOf(b) = WindowOf(c), Fetched(b),
             c = Min({d \in Blocks(WindowOf(b)) : X \in tape[d].ivars}), Fetched(c)
      PROVE  used[b].ins[X] = used[c].ins[X]
  <2> DEFINE S == {d \in Blocks(WindowOf(b)) : X \in tape[d].ivars}
  <2>1. b \in S /\ S \subseteq Nat
    <3>1. b \in 1..First
      BY <1>3 DEF VerdictInv
    <3>2. b \in 1..n
      BY <1>0, <3>1
    <3>3. b \in Blocks(WindowOf(b)) /\ X \in tape[b].ivars
      BY <1>3, <3>2 DEF Blocks, Fetched
    <3>4. S \subseteq 1..n
      BY DEF Blocks
    <3>5. 1..n \subseteq Nat
      BY <1>0
    <3> QED BY <3>3, <3>4, <3>5
  <2>2. c \in S /\ \A s \in S : c <= s
    <3> HIDE DEF S
    <3>1. Min(S) \in S /\ \A s \in S : Min(S) <= s
      BY <2>1, MinIsLeast
    <3>2. c = Min(S)
      BY <1>3 DEF S
    <3> QED BY <3>1, <3>2
  <2>3. FirstOfWindow(c, WindowOf(b))
    BY <2>2 DEF FirstOfWindow
  <2> QED BY <1>3, <2>3 DEF VerdictInv
<1> QED BY <1>1, <1>2, <1>3 DEF VerdictIsRight

\* _check compares values that the block commitments bind: what a window is checked on is
\* what the digests of its wires were taken of, the input loaded again after a drift apart.
THEOREM ChecksAreBound == Spec => []CheckedIsBound
BY InductiveInit, InductiveStep, WindowIsBound, PTL DEF Spec

\* C0 lists every wire once, in the order the claims mention it and whatever the window
\* size, and each with the value its claim wrote or its first reader was given.
THEOREM WitnessIsCommitted == Spec => []C0IsTheWitness
BY InductiveInit, InductiveStep, C0IsRight, PTL DEF Spec

\* The verdict of the audit: with a loader that keeps returning the same bytes `failures`
\* are exactly the sampled claims computed wrongly, and an audit without failures sampled
\* no wrong claim and none that read another input than its window's first reader.
THEOREM VerdictsAreRight == Spec => []VerdictIsRight
BY InductiveInit, InductiveStep, VerdictHolds, PTL DEF Spec
--------------------------------------------------------------------------------
(***************************************************************************)
(* The session                                                             *)
(***************************************************************************)
\* The blocks that have a commitment are those of the windows flushed.
CommittedInv == DOMAIN commitments = IF step = "check" THEN 1..Seen ELSE 1..First

\* A window that is flushed holds the claims after First, up to the next window.
LEMMA WindowIs ==
  ASSUME ResidentInv
  PROVE  /\ First \in Nat /\ Seen \in 0..n /\ n \in Nat \ {0} /\ params.window_size \in Nat \ {0}
         /\ Seen = First + Len(window_blocks) /\ Range(window_blocks) = (First + 1)..Seen
         /\ step \in {"commit", "check"} =>
              /\ First < Seen
              /\ Seen <= First + params.window_size
              /\ Seen < n => Seen = First + params.window_size
<1> DEFINE b == Len(window_blocks)
           w == params.window_size
<1>1. /\ First \in Nat /\ Seen \in 0..n /\ n \in Nat \ {0} /\ w \in Nat \ {0} /\ b \in Nat
      /\ DOMAIN window_blocks = 1..b
      /\ \A k \in 1..b : window_blocks[k] = First + k
      /\ step \in {"commit", "check"} => b \in 1..w /\ (at <= n => b = w)
  BY AtHand DEF ResidentInv, WindowInv
<1>2. Seen = First + b
  BY <1>1 DEF First
<1>3. Range(window_blocks) = (First + 1)..Seen
  <2>1. \A k \in 1..b : window_blocks[k] \in (First + 1)..Seen
    BY <1>1, <1>2
  <2>2. \A d \in (First + 1)..Seen : d - First \in 1..b /\ window_blocks[d - First] = d
    BY <1>1, <1>2
  <2> HIDE DEF b
  <2> QED BY <1>1, <2>1, <2>2 DEF Range
<1>4. step \in {"commit", "check"} /\ Seen < n => at <= n
  BY <1>1 DEF Seen
<1> HIDE DEF b, w
<1>5. step \in {"commit", "check"} => First < Seen /\ Seen <= First + w /\ (Seen < n => Seen = First + w)
  BY <1>1, <1>2, <1>4
<1> QED BY <1>1, <1>2, <1>3, <1>5 DEF b, w

\* Before the first claim no block is committed.
LEMMA CommittedInit ==
  ASSUME Init
  PROVE  CommittedInv
<1>1. First = 0
  BY StandsInit DEF First, Seen, Init
<1> QED BY <1>1 DEF CommittedInv, Init

\* A flush commits to the blocks of its window.
LEMMA CommittedStep ==
  ASSUME ResidentInv, CommittedInv, [Next]_vars
  PROVE  CommittedInv'
<1>0. First \in Nat /\ Seen \in Nat /\ Seen = First + Len(window_blocks) /\ Range(window_blocks) = (First + 1)..Seen
      /\ First <= Seen
  BY WindowIs, FirstIsSeen
<1>1. CASE Commit
  <2>1. /\ step = "commit" /\ step' = "check"
        /\ DOMAIN commitments' = Range(window_blocks) \cup DOMAIN commitments
    BY <1>1 DEF Commit, Over
  <2>2. Seen' = Seen
    BY <1>1, WindowMoves DEF Commit, Check, Observe, ResidentInv
  <2>3. (First + 1)..Seen \cup 1..First = 1..Seen
    BY <1>0
  <2> QED BY <1>0, <2>1, <2>2, <2>3 DEF CommittedInv
<1>2. CASE Check
  <2>1. step = "check" /\ step' # "check" /\ First' = Seen /\ commitments' = commitments
    BY <1>2, WindowMoves DEF Check, Observe, ResidentInv, bound
  <2> QED BY <2>1 DEF CommittedInv
<1>3. CASE ~Commit /\ ~Check
  <2>1. First' = First /\ Seen' \in {Seen, Seen + 1}
    BY <1>3, WindowMoves DEF ResidentInv
  <2>2. commitments' = commitments /\ (step' = "check" <=> step = "check")
    BY <1>3 DEF Next, Compute, Observe, Release, Finish, Drift, vars, bound
  <2>3. step = "check" => Seen' = Seen
    BY <1>3, WindowMoves DEF Observe, ResidentInv
  <2> QED BY <2>1, <2>2, <2>3 DEF CommittedInv
<1> QED BY <1>1, <1>2, <1>3

\* The manifest names the wires of every claim, each once and in their order.
LEMMA ManifestNames ==
  ASSUME StandsInv
  PROVE  /\ Len(Manifest) = n /\ Session!total = n
         /\ \A b \in 1..n : /\ Range(Manifest[b]) = Wires(b)
                            /\ \A p \in DOMAIN Manifest[b] : Rank(Wires(b), Manifest[b][p]) = p
<1>1. n \in Nat
  BY AtHand
<1>2. Len(Manifest) = n
  <2> DEFINE T == {Manifest[b] : b \in 1..n}
  <2>1. Manifest \in [1..n -> T]
    BY DEF Manifest
  <2> HIDE DEF T
  <2> QED BY <1>1, <2>1, FunctionIsSeq
<1>3. Session!total = n
  BY <1>2 DEF Session!total
<1>4. ASSUME NEW b \in 1..n
      PROVE  /\ Range(Manifest[b]) = Wires(b)
             /\ \A p \in DOMAIN Manifest[b] : Rank(Wires(b), Manifest[b][p]) = p
  <2> DEFINE W == Wires(b)
  <2>1. /\ Manifest[b] = [k \in 1..Cardinality(W) |-> Nth(W, k)]
    BY DEF Manifest
  <2>2. Ranked(W)
    BY WiresRanked
  <2>3. /\ \A k \in 1..Cardinality(W) : Nth(W, k) \in W /\ Rank(W, Nth(W, k)) = k
        /\ \A v \in W : Rank(W, v) \in 1..Cardinality(W) /\ Nth(W, Rank(W, v)) = v
    BY <2>2, NthNames
  <2> HIDE DEF W
  <2>4. Range(Manifest[b]) = W
    BY <2>1, <2>3 DEF Range
  <2>5. \A p \in DOMAIN Manifest[b] : Rank(W, Manifest[b][p]) = p
    BY <2>1, <2>3
  <2> QED BY <2>4, <2>5 DEF W
<1> QED BY <1>2, <1>3, <1>4

\* No step changes the manifest.
LEMMA ManifestStays ==
  ASSUME [Next]_vars
  PROVE  Manifest' = Manifest
<1>1. tape' = tape /\ n' = n
  BY TapeStays
<1> QED BY <1>1 DEF Manifest, Nth, Wires

\* What the session's operators are over the manifest.
LEMMA BeforeIs ==
  ASSUME StandsInv, NEW u, NEW v
  PROVE  Session!MentionedBefore(u, v) <=>
           \E b \in 1..n : \E p \in DOMAIN Manifest[b] :
             /\ Manifest[b][p] = u
             /\ \A c \in 1..b : \A r \in DOMAIN Manifest[c] :
                  Manifest[c][r] = v => c = b /\ p < r
BY ManifestNames DEF Session!MentionedBefore

\* The wires of the first blocks.
LEMMA WiresOfManifest ==
  ASSUME StandsInv, NEW k \in 0..n
  PROVE  Session!WiresOf(1..k) = Wired(0, k)
<1>1. n \in Nat /\ \A b \in 1..k : b \in 1..n
  BY AtHand
<1>2. \A b \in 1..k : Session!Range(Manifest[b]) = Wires(b)
  BY <1>1, ManifestNames DEF Session!Range, Range
<1>3. Session!WiresOf(1..k) = UNION {Session!Range(Manifest[b]) : b \in 1..k}
  BY DEF Session!WiresOf
<1> QED BY <1>2, <1>3 DEF Wired

\* The wires a claim is the first to mention.
LEMMA MentionedIsNew ==
  ASSUME StandsInv, NEW i \in 1..n
  PROVE  /\ \A j \in 1..(i - 1) : Y(i) \notin Wires(j)
         /\ Range(Mentioned(i)) = Wires(i) \ Wired(0, i - 1)
         /\ \A k, l \in DOMAIN Mentioned(i) :
              k < l => Mentioned(i)[k] = X /\ Mentioned(i)[l] = Y(i) /\ X \in Wires(i)
<1>1. /\ n \in Nat /\ i \in Nat /\ IsTape(tape) /\ DOMAIN tape = 1..n /\ n = Len(tape)
      /\ tape[i].ivars \subseteq {X} \cup {Y(k) : k \in 1..n}
      /\ \A k : Y(k) \in tape[i].ivars => k \in 1..n /\ k < i
  BY AtHand, WiresRanked
<1>2. \A j \in 1..(i - 1) : Y(i) \notin Wires(j)
  <2> SUFFICES ASSUME NEW j \in 1..(i - 1), Y(i) \in Wires(j) PROVE FALSE
    OBVIOUS
  <2>1. j \in 1..n /\ j < i
    BY <1>1
  <2>2. Y(i) # Y(j)
    BY <2>1, DistinctVars
  <2>3. Y(i) \in tape[j].ivars
    BY <2>2 DEF Wires
  <2> QED BY <2>1, <2>3, WiresRanked
<1>3. \A v \in tape[i].ivars \ {X} : v \in Wired(0, i - 1)
  <2> SUFFICES ASSUME NEW k \in 1..n, Y(k) \in tape[i].ivars PROVE Y(k) \in Wired(0, i - 1)
    BY <1>1
  <2>1. k \in (0 + 1)..(i - 1)
    BY <1>1
  <2> QED BY <2>1 DEF Wired, Wires
<1>4. X \in Wired(0, i - 1) <=> \E j \in 1..(i - 1) : X \in tape[j].ivars
  BY DistinctVars DEF Wired, Wires
<1>5. Y(i) \notin Wired(0, i - 1)
  BY <1>2 DEF Wired
<1>6. CASE X \in tape[i].ivars /\ \A j \in 1..(i - 1) : X \notin tape[j].ivars
  <2>1. Mentioned(i) = <<X, Y(i)>>
    <3>1. \A u, v : <<u>> \o <<v>> = <<u, v>>
      <4> TAKE u, v
      <4> DEFINE a == <<u>>
                 b == <<v>>
                 c == <<u, v>>
      <4>1. a \in Seq({u, v}) /\ b \in Seq({u, v}) /\ c \in Seq({u, v})
        OBVIOUS
      <4>2. IsSeq(a) /\ IsSeq(b) /\ IsSeq(c)
        BY <4>1 DEF IsSeq
      <4>3. Len(a) = 1 /\ Len(b) = 1 /\ Len(c) = Len(a) + Len(b) /\ c[1] = a[1] /\ c[1 + 1] = b[1]
        OBVIOUS
      <4> HIDE DEF a, b, c
      <4>4. \A p \in 1..1 : p = 1
        OBVIOUS
      <4>5. (\A p \in 1..Len(a) : c[p] = a[p]) /\ (\A p \in 1..Len(b) : c[Len(a) + p] = b[p])
        BY ONLY <4>3, <4>4
      <4>6. c = a \o b
        BY ONLY <4>2, <4>3, <4>5, JoinIsUnique
      <4> QED BY ONLY <4>6 DEF a, b, c
    <3> QED BY <1>6, <3>1 DEF Mentioned
  <2>2. Range(Mentioned(i)) = {X, Y(i)}
    BY <2>1 DEF Range
  <2> QED BY <1>2, <1>3, <1>4, <1>5, <1>6, <2>1, <2>2 DEF Wires
<1>7. CASE ~(X \in tape[i].ivars /\ \A j \in 1..(i - 1) : X \notin tape[j].ivars)
  <2>1. Mentioned(i) = <<Y(i)>>
    <3>1. Mentioned(i) = << >> \o <<Y(i)>>
      BY <1>7 DEF Mentioned
    <3> QED BY <3>1
  <2>2. Range(Mentioned(i)) = {Y(i)}
    BY <2>1 DEF Range
  <2> QED BY <1>2, <1>3, <1>4, <1>5, <1>7, <2>1, <2>2 DEF Wires
<1> QED BY <1>6, <1>7

\* The order of C0 is that of the manifest: what a claim is the first to mention
\* comes after all that earlier claims mention, and the input before an output.
LEMMA OrderIsManifest ==
  ASSUME StandsInv, NEW k \in 0..n
  PROVE  IsSeq(OrderUpTo[k]) /\ Session!InManifestOrder(OrderUpTo[k], k)
<1> DEFINE o == OrderUpTo
           MB(u, v) == Session!MentionedBefore(u, v)
           InOrder(l) == /\ IsSeq(o[l]) /\ Range(o[l]) = Wired(0, l)
                         /\ \A i, j \in DOMAIN o[l] : i < j => MB(o[l][i], o[l][j])
           K == {l \in Nat : l <= n => InOrder(l)}
<1>1. n \in Nat /\ o[0] = << >> /\ \A l \in 1..n : o[l] = o[l - 1] \o Mentioned(l)
  <2> DEFINE each == [i \in 1..n |-> Mentioned(i)]
  <2>1. n \in Nat /\ \A i \in 1..n : each[i] = Mentioned(i)
    BY AtHand
  <2> HIDE DEF each
  <2>2. Joined(each, n)[0] = << >> /\ \A i \in 1..n : Joined(each, n)[i] = Joined(each, n)[i - 1] \o each[i]
    BY <2>1, JoinedIs
  <2> QED BY <2>1, <2>2 DEF each, OrderUpTo
<1> HIDE DEF o
<1>2. 0 \in K
  <2>1. IsSeq(o[0]) /\ Range(o[0]) = {} /\ DOMAIN o[0] = {}
    BY <1>1, IsSeqFacts DEF Range
  <2>2. Wired(0, 0) = {}
    BY WiredFacts
  <2> QED BY <2>1, <2>2
<1>3. ASSUME NEW l \in Nat, l \in K PROVE l + 1 \in K
  <2> SUFFICES ASSUME l + 1 <= n PROVE InOrder(l + 1)
    OBVIOUS
  <2> DEFINE s == o[l]
             t == Mentioned(l + 1)
             b == l + 1
  <2>0. b \in 1..n /\ l \in 0..n /\ b - 1 = l
    BY <1>1, <1>3
  <2>1. b \in 1..n /\ l \in 0..n /\ InOrder(l) /\ o[b] = s \o t /\ b - 1 = l
    <3>1. o[b] = o[b - 1] \o t
      BY <1>1, <2>0
    <3>2. InOrder(l)
      BY <1>3, <2>0
    <3> QED BY <2>0, <3>1, <3>2
  <2>2. IsSeq(s) /\ IsSeq(t)
    BY <2>1, MentionedIsSeq
  <2>3. /\ \A j \in 1..l : Y(b) \notin Wires(j)
        /\ Range(t) = Wires(b) \ Wired(0, l)
        /\ \A i, j \in DOMAIN t : i < j => t[i] = X /\ t[j] = Y(b) /\ X \in Wires(b)
    BY <2>1, MentionedIsNew
  <2>4. /\ IsSeq(o[b]) /\ Len(s) \in Nat /\ Len(t) \in Nat /\ Len(o[b]) = Len(s) + Len(t)
        /\ DOMAIN s = 1..Len(s) /\ DOMAIN t = 1..Len(t) /\ DOMAIN o[b] = 1..(Len(s) + Len(t))
        /\ \A i \in 1..Len(s) : o[b][i] = s[i]
        /\ \A i \in 1..Len(t) : o[b][Len(s) + i] = t[i]
    <3> DEFINE m == o[b]
    <3>1. m = s \o t
      BY <2>1
    <3> HIDE DEF s, t, m
    <3>2. /\ IsSeq(m) /\ Len(s) \in Nat /\ Len(t) \in Nat /\ Len(m) = Len(s) + Len(t)
          /\ DOMAIN s = 1..Len(s) /\ DOMAIN t = 1..Len(t)
          /\ \A i \in 1..Len(s) : m[i] = s[i]
          /\ \A i \in 1..Len(t) : m[Len(s) + i] = t[i]
      BY <2>2, <3>1, Joining
    <3>3. DOMAIN m = 1..Len(m)
      BY <3>2 DEF IsSeq
    <3> QED BY <3>2, <3>3 DEF m
  <2>5. Range(s) = Wired(0, l) /\ \A i, j \in DOMAIN s : i < j => MB(s[i], s[j])
    BY <2>1
  <2>6. ASSUME NEW i \in DOMAIN s, NEW j \in DOMAIN t PROVE MB(s[i], t[j])
    <3> DEFINE u == s[i]
               v == t[j]
    <3>1. u \in Wired(0, l) /\ v \notin Wired(0, l)
      BY <2>3, <2>5, <2>6 DEF Range
    <3>2. PICK c \in 1..l : u \in Wires(c)
      BY <3>1 DEF Wired
    <3>3. c \in 1..n /\ \A d \in 1..c : d \in 1..n /\ d \in 1..l
      BY <2>0, <1>1
    <3>4. PICK p \in DOMAIN Manifest[c] : Manifest[c][p] = u
      BY <3>2, <3>3, ManifestNames DEF Range
    <3>5. \A d \in 1..c : v \notin Wires(d)
      BY <3>1, <3>3 DEF Wired
    <3>6. \A d \in 1..c : \A r \in DOMAIN Manifest[d] : Manifest[d][r] # v
      BY <3>3, <3>5, ManifestNames DEF Range
    <3> QED BY <3>3, <3>4, <3>6, BeforeIs DEF MB
  <2>7. ASSUME NEW i \in DOMAIN t, NEW j \in DOMAIN t, i < j PROVE MB(t[i], t[j])
    <3>1. t[i] = X /\ t[j] = Y(b) /\ X \in Wires(b) /\ Y(b) \in Wires(b)
      BY <2>3, <2>7 DEF Wires
    <3>2. PICK p \in DOMAIN Manifest[b] : Manifest[b][p] = X
      BY <2>0, <3>1, ManifestNames DEF Range
    <3>3. \A r \in DOMAIN Manifest[b] : Manifest[b][r] = Y(b) => p < r
      <4>1. Ranked(Wires(b)) /\ X[2] < Y(b)[2]
        BY <2>0, WiresRanked DEF X, Y
      <4>2. Rank(Wires(b), X) < Rank(Wires(b), Y(b))
        BY <3>1, <4>1, RankRises
      <4> QED BY <2>0, <3>2, <4>2, ManifestNames
    <3>4. \A c \in 1..b : \A r \in DOMAIN Manifest[c] : Manifest[c][r] = Y(b) => c = b
      <4> SUFFICES ASSUME NEW c \in 1..b, c # b, NEW r \in DOMAIN Manifest[c], Manifest[c][r] = Y(b)
                   PROVE FALSE
        OBVIOUS
      <4>1. c \in 1..l /\ c \in 1..n
        BY <2>0, <1>1
      <4>2. Y(b) \in Wires(c)
        BY <4>1, ManifestNames DEF Range
      <4> QED BY <2>3, <4>1, <4>2
    <3>5. MB(X, Y(b))
      BY <2>0, <3>2, <3>3, <3>4, BeforeIs DEF MB
    <3> QED BY <3>1, <3>5
  <2>8. Range(o[b]) = Wired(0, b)
    <3>1. Range(o[b]) = Range(s) \cup Range(t)
      <4> DEFINE a == Len(s)
                 c == Len(t)
                 m == o[b]
      <4>1. /\ a \in Nat /\ c \in Nat /\ DOMAIN m = 1..(a + c) /\ DOMAIN s = 1..a /\ DOMAIN t = 1..c
            /\ \A i \in 1..a : m[i] = s[i]
            /\ \A i \in 1..c : m[a + i] = t[i]
        BY <2>4
      <4> HIDE DEF a, c, m, s, t
      <4>2. \A i \in 1..(a + c) : i \in 1..a \/ \E q \in 1..c : i = a + q
        <5> TAKE i \in 1..(a + c)
        <5>1. i \notin 1..a => i - a \in 1..c /\ i = a + (i - a)
          BY <4>1
        <5> QED BY <5>1
      <4>3. (\A i \in 1..a : i \in 1..(a + c)) /\ \A i \in 1..c : a + i \in 1..(a + c)
        BY <4>1
      <4>4. Range(m) \subseteq Range(s) \cup Range(t)
        <5>1. ASSUME NEW i \in 1..(a + c) PROVE m[i] \in Range(s) \cup Range(t)
          <6>1. CASE i \in 1..a
            BY <4>1, <6>1 DEF Range
          <6>2. CASE \E q \in 1..c : i = a + q
            BY <4>1, <6>2 DEF Range
          <6> QED BY <4>2, <6>1, <6>2
        <5> QED BY <4>1, <5>1 DEF Range
      <4>5. Range(s) \subseteq Range(m) /\ Range(t) \subseteq Range(m)
        BY <4>1, <4>3 DEF Range
      <4> QED BY <4>4, <4>5 DEF m
    <3>2. Wired(0, b) = Wired(0, l) \cup Wires(b)
      BY <2>0, WiredFacts
    <3> QED BY <2>3, <2>5, <3>1, <3>2
  <2>9. ASSUME NEW i \in DOMAIN o[b], NEW j \in DOMAIN o[b], i < j PROVE MB(o[b][i], o[b][j])
    <3> DEFINE a == Len(s)
               c == Len(t)
    <3>1. /\ a \in Nat /\ c \in Nat /\ i \in 1..(a + c) /\ j \in 1..(a + c)
          /\ \A k1 \in 1..a : o[b][k1] = s[k1] /\ k1 \in DOMAIN s
          /\ \A k1 \in 1..c : o[b][a + k1] = t[k1] /\ k1 \in DOMAIN t
      BY <2>4, <2>9
    <3> HIDE DEF a, c, s, t, b, MB
    <3>2. CASE j \in 1..a
      <4>1. i \in 1..a
        BY <2>9, <3>1, <3>2
      <4>2. MB(s[i], s[j])
        BY <2>5, <2>9, <3>1, <3>2, <4>1
      <4> QED BY <3>1, <3>2, <4>1, <4>2
    <3>3. CASE i \in 1..a /\ j \notin 1..a
      <4> DEFINE q == j - a
      <4>1. q \in 1..c /\ j = a + q
        BY <3>1, <3>3
      <4> HIDE DEF q
      <4>2. MB(s[i], t[q])
        BY <2>6, <3>1, <3>3, <4>1
      <4> QED BY <3>1, <3>3, <4>1, <4>2
    <3>4. CASE i \notin 1..a
      <4> DEFINE p == i - a
                 q == j - a
      <4>1. p \in 1..c /\ i = a + p /\ q \in 1..c /\ j = a + q /\ p < q
        BY <2>9, <3>1, <3>4
      <4> HIDE DEF p, q
      <4>2. MB(t[p], t[q])
        BY <2>7, <3>1, <4>1
      <4> QED BY <3>1, <4>1, <4>2
    <3> QED BY <3>2, <3>3, <3>4
  <2> QED BY <2>1, <2>4, <2>8, <2>9
<1> HIDE DEF K
<1>4. Nat \subseteq K
  BY <1>2, <1>3, NatIsLeast
<1>5. InOrder(k)
  BY <1>1, <1>4 DEF K
<1>6. Session!WiresOf(1..k) = Wired(0, k)
  BY WiresOfManifest
<1> QED BY <1>5, <1>6 DEF Session!InManifestOrder, o, Session!Range, Range

\* The session counts as its adapter does.
LEMMA SameCount == \A S : Session!Cardinality(S) = Cardinality(S)
BY DEF Session!Cardinality, Cardinality

\* The audit begins as a session.
LEMMA SessionInit ==
  ASSUME Init
  PROVE  Session!Init
<1>1. StandsInv /\ n \in Nat \ {0}
  BY StandsInit, AtHand
<1>2. IsParams(params)
  BY <1>1, AuditAssumption DEF StandsInv
<1>3. Cardinality({}) = 0 /\ DOMAIN commitments = {}
  BY FS_EmptySet DEF Init
<1>4. {} # 1..n
  BY <1>1
<1>5. Phase = "commit"
  BY <1>3, <1>4 DEF Phase, Init
<1> QED BY <1>2, <1>3, <1>5 DEF Init, Session!Init, Session!IsParams, IsParams

\* A flush, up to its sample, commits to a window of the session.
LEMMA CommitIsCommitWindow ==
  ASSUME Inductive, CommittedInv, Commit
  PROVE  Session!CommitWindow
<1> DEFINE w == params.window_size
<1>1. ResidentInv /\ StandsInv /\ HeldInv /\ OrderInv /\ [Next]_vars
  BY DEF Inductive, ValuesInv, ResidentInv, Next
<1>2. /\ First \in Nat /\ Seen \in 0..n /\ n \in Nat \ {0} /\ w \in Nat \ {0}
      /\ Range(window_blocks) = (First + 1)..Seen
      /\ step = "commit" /\ step' = "check" /\ First < Seen /\ Seen <= First + w
      /\ Seen < n => Seen = First + w
  BY <1>1, WindowIs DEF Commit
<1>3. DOMAIN commitments = 1..First /\ DOMAIN commitments' = 1..Seen
  <2>1. DOMAIN commitments' = Range(window_blocks) \cup DOMAIN commitments
    BY DEF Commit, Over
  <2> QED BY <1>2, <2>1 DEF CommittedInv
<1>4. Cardinality(DOMAIN commitments) = First /\ Cardinality(DOMAIN commitments') = Seen
  BY <1>2, <1>3, FS_Interval
<1>5. Cardinality(Session!Window) = Seen - First
  <2>1. Session!Min({First + w, n}) = Seen
    <3>1. Seen \in {First + w, n} /\ \A m \in {First + w, n} : Seen <= m
      BY <1>2
    <3> HIDE DEF w
    <3>2. \A m \in {First + w, n} : (\A l \in {First + w, n} : m <= l) => m = Seen
      BY <1>2, <3>1
    <3> QED BY <3>1, <3>2 DEF Session!Min
  <2>2. Session!Window = (First + 1)..Seen
    BY <1>1, <1>4, <2>1, ManifestNames DEF Session!Window
  <2>3. Cardinality((First + 1)..Seen) = Seen - First
    BY <1>2, FS_Interval
  <2> QED BY <2>2, <2>3
<1>6. Phase = "commit" /\ Phase' = "sample"
  <2>1. 1..First # 1..n
    BY <1>2
  <2> QED BY <1>2, <1>3, <2>1 DEF Phase
<1>7. UNCHANGED <<Manifest, params, selected, failures>>
  BY <1>1, TapeStays, ManifestStays DEF Commit, verdict
<1>8. /\ DOMAIN wire_digests' = Session!WiresOf(1..Seen)
      /\ \A v \in DOMAIN wire_digests : wire_digests'[v] = wire_digests[v]
  <2>1. DOMAIN wire_digests = Wired(0, First) /\ Pending = Wired(0, Seen) \ Wired(0, First)
    BY <1>1, <1>2 DEF HeldInv
  <2> DEFINE new == [v \in Pending |-> (CHOOSE p \in Range(pending_digests) : p[1] = v)[2]]
  <2>2. wire_digests' = Over(new, wire_digests) /\ DOMAIN new = Pending
    BY DEF Commit
  <2> HIDE DEF new
  <2>3. Wired(0, First) \subseteq Wired(0, Seen)
    BY <1>2, WiredFacts
  <2>4. DOMAIN wire_digests' = Wired(0, Seen)
    <3>1. DOMAIN Over(new, wire_digests) = DOMAIN new \cup DOMAIN wire_digests
      BY OverDomain
    <3> QED BY <2>1, <2>2, <2>3, <3>1
  <2>5. Session!WiresOf(1..Seen) = Wired(0, Seen)
    BY <1>1, <1>2, WiresOfManifest
  <2> QED BY <2>1, <2>2, <2>4, <2>5 DEF Over
<1>9. Session!InManifestOrder(wire_order', Seen)
  <2>1. wire_order' = OrderUpTo[Seen]
    BY <1>1 DEF Commit, OrderInv
  <2> QED BY <1>1, <1>2, <2>1, OrderIsManifest
<1>10. First < Session!total /\ Seen = First + (Seen - First)
  BY <1>1, <1>2, ManifestNames
<1> QED BY <1>4, <1>5, <1>6, <1>7, <1>8, <1>9, <1>10, SameCount DEF Session!CommitWindow

\* The rest of the flush samples it.
LEMMA CheckIsSampleWindow ==
  ASSUME Inductive, CommittedInv, Check
  PROVE  Session!SampleWindow
<1> DEFINE w == params.window_size
<1>1. ResidentInv /\ StandsInv /\ [Next]_vars
  BY DEF Inductive, ValuesInv, ResidentInv, Next
<1>2. /\ First \in Nat /\ Seen \in 0..n /\ n \in Nat \ {0} /\ w \in Nat \ {0}
      /\ Seen = First + Len(window_blocks) /\ Range(window_blocks) = (First + 1)..Seen
      /\ step = "check" /\ step' # "check" /\ First < Seen /\ Seen <= First + w
      /\ Seen < n => Seen = First + w
  BY <1>1, WindowIs DEF Check
<1>3. DOMAIN commitments = 1..Seen /\ DOMAIN commitments' = 1..Seen
      /\ Cardinality(1..Seen) = Seen
  BY <1>2, FS_Interval DEF Check, CommittedInv, bound
<1>4. Session!Committed = Range(window_blocks) /\ Cardinality(Session!Committed) = Len(window_blocks)
  <2>1. PICK q \in Nat : First = q * w
    BY <1>1, <1>2 DEF ResidentInv, WindowInv
  <2> HIDE DEF w
  <2>2. \A d \in 1..Seen : (d - 1) \div w = q <=> First < d /\ d <= First + w
    <3> TAKE d \in 1..Seen
    <3>1. d \in Nat \ {0}
      BY <1>2
    <3> QED BY <1>2, <2>1, <3>1, DivWindow
  <2>3. (Seen - 1) \div w = q
    BY <1>2, <2>2
  <2>4. Session!Committed = {d \in 1..Seen : (d - 1) \div w = (Seen - 1) \div w}
    BY <1>3 DEF Session!Committed, w
  <2>5. Session!Committed = (First + 1)..Seen
    BY <1>2, <2>2, <2>3, <2>4
  <2>6. Cardinality((First + 1)..Seen) = Seen - First
    <3>1. First + 1 \in Int /\ Seen \in Int /\ First + 1 <= Seen /\ First \in Int
      BY <1>2
    <3>2. Cardinality((First + 1)..Seen) = Seen - (First + 1) + 1
      BY ONLY <3>1, FS_Interval
    <3> QED BY <3>1, <3>2
  <2>7. Len(window_blocks) = Seen - First
    <3>1. Len(window_blocks) \in Nat
      BY <1>1 DEF ResidentInv, WindowInv
    <3> QED BY <1>2, <3>1
  <2> QED BY <1>2, <2>5, <2>6, <2>7
<1>5. \E S \in Session!kSubset(Session!sample_count(params, Cardinality(Session!Committed)), Session!Committed) :
        /\ selected' = selected \cup S
        /\ failures \subseteq failures' /\ failures' \subseteq failures \cup S
  <2>1. PICK S \in kSubset(sample_count(params, Len(window_blocks)), Range(window_blocks)) :
          /\ selected' = selected \cup S
          /\ failures' = failures \cup {b \in S : ~Holds(b)}
    BY DEF Check
  <2>2. S \in Session!kSubset(Session!sample_count(params, Cardinality(Session!Committed)), Session!Committed)
    <3> DEFINE C == Session!Committed
               c == Len(window_blocks)
    <3>1. Session!sample_count(params, c) = sample_count(params, c)
      BY DEF Session!sample_count, sample_count, Session!CeilDiv, CeilDiv
    <3>2. C = Range(window_blocks) /\ Cardinality(C) = c
      BY <1>4
    <3> HIDE DEF C, c
    <3>3. S \in Session!kSubset(Session!sample_count(params, Cardinality(C)), C)
      <4>1. S \in kSubset(sample_count(params, c), C)
        BY <2>1, <3>2 DEF c
      <4> QED BY <3>1, <3>2, <4>1, SameCount DEF kSubset, Session!kSubset
    <3> QED BY <3>3 DEF C
  <2> QED BY <2>1, <2>2
<1>6. Phase = "sample" /\ Phase' = IF Seen = n THEN "done" ELSE "commit"
  <2>1. n' = n
    BY <1>1, TapeStays
  <2>2. 1..Seen = 1..n <=> Seen = n
    BY <1>2
  <2> QED BY <1>2, <1>3, <2>1, <2>2 DEF Phase
<1>7. UNCHANGED <<Manifest, params, commitments, wire_digests, wire_order>>
  BY <1>1, TapeStays, ManifestStays DEF Check, digests, bound
<1>8. Session!total = n
  BY <1>1, ManifestNames
<1> QED BY <1>3, <1>5, <1>6, <1>7, <1>8, SameCount DEF Session!SampleWindow

\* Between two flushes the session does not move.
LEMMA OthersStutter ==
  ASSUME Inductive, [Next]_vars, ~Commit, ~Check
  PROVE  UNCHANGED Session!session
<1>1. UNCHANGED <<commitments, wire_digests, wire_order, selected, failures>>
  BY DEF Next, Compute, Observe, Release, Finish, Drift, vars, bound, digests, verdict
<1>2. n' = n /\ params' = params /\ Manifest' = Manifest
  BY TapeStays, ManifestStays
<1>3. step' = "check" <=> step = "check"
  BY DEF Next, Compute, Observe, Release, Finish, Drift, vars
<1>4. UNCHANGED <<Manifest, Phase>>
  BY <1>1, <1>2, <1>3 DEF Phase
<1> QED BY <1>1, <1>2, <1>4 DEF Session!session

\* The audit is the session of layergkr/sampled_audit.py: every step commits a window,
\* samples it or leaves the session as it is.  (That it ends, which ImplementsSession
\* says too, is not proved.)
THEOREM AuditIsSession == Spec => Session!Safety
<1>1. Init => Session!Init /\ Inductive /\ CommittedInv
  BY SessionInit, InductiveInit, CommittedInit
<1>2. Inductive /\ CommittedInv /\ [Next]_vars => Inductive' /\ CommittedInv'
  BY InductiveStep, CommittedStep DEF Inductive, ValuesInv
<1>3. Inductive /\ CommittedInv /\ [Next]_vars
        => [Session!CommitWindow \/ Session!SampleWindow]_(Session!session)
  BY CommitIsCommitWindow, CheckIsSampleWindow, OthersStutter
<1> QED BY <1>1, <1>2, <1>3, PTL DEF Spec, Session!Safety
================================================================================
