-------------------------------- MODULE Merkle --------------------------------
(***************************************************************************)
(* The commitment of a block of rows: one BLAKE3 digest per column, fed     *)
(* chunk by chunk (prover/kernels/blake3_columns.cuh and                    *)
(* MerkleColumnAccumulator), a tree over the digests, and its openings on   *)
(* both sides.  The compression function is free: a digest is the term of   *)
(* its construction, so two digests are equal only if they hash the same    *)
(* values in the same order with the same flags.                            *)
(***************************************************************************)
EXTENDS Integers, SequencesExt

CONSTANT BLAKE3_CHUNK_ROWS     \* values of a BLAKE3 chunk (128)
ASSUME ChunkRowsAssumption == BLAKE3_CHUNK_ROWS \in Nat \ {0}

\* The values a loop of n rounds goes through: step k makes one of the one before.
Rounds(Step(_, _), start, n) ==
  LET at[k \in 0 .. n] == IF k = 0 THEN start ELSE Step(at[k - 1], k) IN at

Pow2[k \in Nat] == IF k = 0 THEN 1 ELSE 2 * Pow2[k - 1]

ChunkCV(values, counter, root) == <<"chunk", values, counter, root>>
Parent(left, right, root) == <<"parent", left, right, root>>
Chunks(n) == (n + BLAKE3_CHUNK_ROWS - 1) \div BLAKE3_CHUNK_ROWS
Piece(s, c) == LET lo == c * BLAKE3_CHUNK_ROWS   hi == lo + BLAKE3_CHUNK_ROWS
               IN  SubSeq(s, lo + 1, IF hi < Len(s) THEN hi ELSE Len(s))

(* The kernels' merge stack.                                                *)
Merge(stack, root) ==
  LET n == Len(stack)
  IN  Append(SubSeq(stack, 1, n - 2), Parent(stack[n - 1], stack[n], root))
TrailingZeros(n) == CHOOSE k \in 0 .. n : n % Pow2[k] = 0 /\ n % Pow2[k + 1] # 0
\* A mutant: one merge when the count is even.
EagerMergeOnce(stack, count) ==
  IF count % 2 = 0 /\ Len(stack) >= 2 THEN Merge(stack, FALSE) ELSE stack
\* One merge per trailing zero of the count.
EagerMerge(stack, count) ==
  LET zeros == TrailingZeros(count)
  IN  Rounds(LAMBDA st, k : IF Len(st) >= 2 THEN Merge(st, FALSE) ELSE st, stack, zeros)[zeros]
k_stream_finalize(stack) ==
  LET merges == Len(stack) - 1
  IN  Rounds(LAMBDA st, k : Merge(st, Len(st) = 2), stack, merges)[merges][1]

\* One chunk joins the stack; no merge after the last one.
k_stream_update_chunk(states, values, is_last_chunk, n_chunks_total) ==
  LET root == is_last_chunk /\ n_chunks_total = 1
      pushed == Append(states.stack, ChunkCV(values, states.chunk_counter, root))
  IN  [stack |-> IF is_last_chunk THEN pushed ELSE EagerMerge(pushed, states.chunk_counter + 1),
       chunk_counter |-> states.chunk_counter + 1]
k_stream_init == [stack |-> <<>>, chunk_counter |-> 0]

\* The whole column in one launch.
k_hash_columns_simple(column) ==
  LET n == Chunks(Len(column))
      st == Rounds(LAMBDA a, c : k_stream_update_chunk(a, Piece(column, c - 1), c = n, n), k_stream_init, n)
  IN  k_stream_finalize(st[n].stack)

---------------------------------------------------------------------------
(* MerkleColumnAccumulator: rows arrive in pieces of any size; the last     *)
(* full chunk is held back until more rows or the end are seen.             *)
NewAccumulator(n_total_rows) ==
  [n_total_rows |-> n_total_rows, states |-> k_stream_init, rows_seen |-> 0, partial |-> <<>>]

\* What a call that is not the last keeps of k rows.
held_back(k) == IF k % BLAKE3_CHUNK_ROWS # 0 THEN k % BLAKE3_CHUNK_ROWS ELSE BLAKE3_CHUNK_ROWS

update(acc, more) ==
  LET rows == acc.partial \o more
      k == Len(rows)
      n_chunks_total == Chunks(acc.n_total_rows)
      final == acc.rows_seen + k = acc.n_total_rows
      n_emit == (k - (IF final THEN k % BLAKE3_CHUNK_ROWS ELSE held_back(k))) \div BLAKE3_CHUNK_ROWS
      leftover == SubSeq(rows, n_emit * BLAKE3_CHUNK_ROWS + 1, k)
      Emit1(st, values) ==
        k_stream_update_chunk(st, values, st.chunk_counter + 1 = n_chunks_total, n_chunks_total)
      emitted == Rounds(LAMBDA st, c : Emit1(st, Piece(rows, c - 1)), acc.states, n_emit)[n_emit]
      ends == leftover # <<>> /\ final
  IN  IF k = 0 THEN acc
      ELSE [acc EXCEPT !.states = IF ends THEN Emit1(emitted, leftover) ELSE emitted,
                       !.rows_seen = @ + (IF ends THEN k ELSE n_emit * BLAKE3_CHUNK_ROWS),
                       !.partial = IF ends THEN <<>> ELSE leftover]

\* The digest of a column whose rows arrive in these pieces; one launch when it
\* is one chunk (_make_merkle_acc).
ColumnDigest(pieces) ==
  LET rows == FlattenSeq(pieces)
      acc == Rounds(LAMBDA a, n : update(a, pieces[n]), NewAccumulator(Len(rows)), Len(pieces))
  IN  IF Len(rows) > BLAKE3_CHUNK_ROWS THEN k_stream_finalize(acc[Len(pieces)].states.stack)
      ELSE k_hash_columns_simple(rows)

\* blake3::hash over a packed column: a chunk on its own, else the left subtree
\* is the largest power of two of chunks that leaves one on the right.
LeftSize(size) == Pow2[CHOOSE k \in 0 .. size : Pow2[k] < size /\ size <= 2 * Pow2[k]]
\* tree[size][lo]: of the chunks from lo on, so many.
merkle_leaf(column) ==
  LET n == Chunks(Len(column))
      tree[size \in 1 .. n] ==
        [lo \in 0 .. n - size |->
           IF size = 1 THEN ChunkCV(Piece(column, lo), lo, n = 1)
           ELSE LET left == LeftSize(size)
                IN  Parent(tree[left][lo], tree[size - left][lo + left], size = n)]
  IN  tree[n][0]

---------------------------------------------------------------------------
(* The tree over the digests, levels from the leaves to the root.           *)
Node(left, right) == <<"node", left, right>>
Halved(n) == (n + 1) \div 2
merkle_depth(n_leaves) == CHOOSE d \in 0 .. n_leaves : Pow2[d] >= n_leaves /\ (d = 0 \/ Pow2[d - 1] < n_leaves)

\* An odd level repeats its last node.
NextLevel(level) ==
  LET At(k) == IF k < Len(level) THEN level[k + 1] ELSE level[Len(level)]
  IN  [k \in 1 .. Halved(Len(level)) |-> Node(At(2 * k - 2), At(2 * k - 1))]
merkle_build_blake3(leaves) ==
  LET depth == merkle_depth(Len(leaves))
      levels == Rounds(LAMBDA level, k : NextLevel(level), leaves, depth)
  IN  [k \in 1 .. depth + 1 |-> levels[k - 1]]
Root(levels) == levels[Len(levels)][1]

\* The other child; a last node without one is its own sibling.
sibling_index(idx, width) ==
  LET sibling == IF idx % 2 = 0 THEN idx + 1 ELSE idx - 1     \* idx ^ 1
  IN  IF sibling >= width THEN idx ELSE sibling
merkle_path(levels, idx) ==
  [k \in 1 .. Len(levels) - 1 |->
     LET at == idx \div Pow2[k - 1]
     IN  [sibling |-> levels[k][sibling_index(at, Len(levels[k])) + 1],
          side |-> IF at % 2 = 0 THEN 1 ELSE 0]]

\* The verifier: order and width come from the index alone.
merkle_verify(leaf, path, root, index, n_leaves) ==
  /\ index < n_leaves /\ Len(path) = merkle_depth(n_leaves)
  /\ LET Idx(k) == index \div Pow2[k - 1]
         Right(k) == Idx(k) % 2 = 1
         Width(k) == (n_leaves + Pow2[k - 1] - 1) \div Pow2[k - 1]
         h == Rounds(LAMBDA a, k : IF Right(k) THEN Node(path[k].sibling, a) ELSE Node(a, path[k].sibling),
                     leaf, Len(path))
     IN  /\ \A k \in DOMAIN path :
              /\ path[k].side = (IF Right(k) THEN 0 ELSE 1)
              /\ ~Right(k) /\ Idx(k) + 1 >= Width(k) => path[k].sibling = h[k - 1]
         /\ h[Len(path)] = root
===============================================================================
