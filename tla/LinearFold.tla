----------------------------- MODULE LinearFold -----------------------------
(***************************************************************************)
(* From the claims of a tape to the linear test, on both sides.             *)
(*                                                                         *)
(* The prover lays the variables out in rows (core.py _layout), compiles    *)
(* every claim and keeps one band per variable and family                   *)
(* (_StreamingPackets), then streams the rows claim by claim and folds each *)
(* chunk through the bands that overlap it (_compute_q_lin_inner_chunk).    *)
(* The verifier compiles the same claims on its own (handlers.rs) and folds *)
(* family by family (verify.rs linear_column_test).                         *)
(*                                                                         *)
(* The two compiles are parameters: Claims and RoutingClaims have the       *)
(* prover's, ClaimHandlers the verifier's.                                  *)
(*                                                                         *)
(* A fold is the matrix it multiplies the rows by: for every row, the       *)
(* coefficient of each <<slot, constraint id>>.                             *)
(***************************************************************************)
EXTENDS Packets, Expanders, SequencesExt

CONSTANTS
  Tapes,              \* sequences of operation claims
  WithSettlements(_), \* such a sequence with its tables' settlements
  Compile(_, _),      \* claim, first id -> bands, quads, ids used, right sides: the prover's
  Handle(_, _),       \* claim, first id -> families, quads, ids used, right sides: the verifier's
  Asserts(_),         \* claim -> whether the assertions of its handler hold
  Cuts                \* <<rows of a chunk, rows of an inner chunk>>

VARIABLES
  tape,               \* the claims, settlements last
  row_start, groups,  \* the layout: name -> first row; the new variables of each claim
  cut,
  pc,                 \* "index", "sweep", "compile", "test", "done", "panic"
  ci,                  \* the claim being indexed, streamed or compiled
  cur,                \* the next constraint id
  bands,              \* the prover's bands: template, first row, row past the last
  quadsP, rhsP,       \* what the prover compiled besides
  queue,              \* pieces of the stream of claim ci not folded yet
  landed,             \* row -> the rows of variables that were folded there
  fold,               \* row -> matrix, the prover's
  families, quadsV, rhsV,   \* what the verifier compiled
  test                \* row -> matrix, the verifier's

vars == <<tape, row_start, groups, cut, pc, ci, cur, bands, quadsP, rhsP, queue, landed, fold,
          families, quadsV, rhsV, test>>
fixed == <<tape, row_start, groups, cut>>
prover == <<bands, quadsP, rhsP, queue, landed, fold>>
verifier == <<families, quadsV, rhsV, test>>

NUM_BLINDING_ROWS == 3

---------------------------------------------------------------------------
(* Layout: block after block behind the blinding rows, in each the variables *)
(* in the order in which the walk over the claims meets them; the variables  *)
(* of the bridge have no rows.  A claim names the z's of its lookups, its     *)
(* table's other variables come with the settlement.  The order of the        *)
(* variables of one claim is abstracted.                                     *)
Blocks == <<"W", "Wnew", "p1", "p2", "p3">>
n_rows(v) == nrows(v.len)

\* The elements of s that are in S, in their order.
Chosen(s, S) ==
  LET upTo[n \in 0 .. Len(s)] ==
        IF n = 0 THEN <<>> ELSE IF s[n] \in S THEN Append(upTo[n - 1], s[n]) ELSE upTo[n - 1]
  IN  upTo[Len(s)]

\* The variables a claim mentions.
LOCAL VarsOf(k) ==
  [n \in DOMAIN k.bands |-> k.bands[n].v]
  \o FlattenSeq([n \in DOMAIN k.quads |-> <<k.quads[n].x, k.quads[n].y, k.quads[n].z>>])
Mentions(c) == VarsOf(Compile(c, 0))

\* The operators below take the mentions of the tape, claim by claim.  The walk
\* meets a variable at the first of the claims, and places in one, that mention it.
Walked(mentioned) == UNION {ToSet(mentioned[n]) : n \in DOMAIN mentioned}
News(mentioned, n) ==
  {i \in DOMAIN mentioned[n] : /\ \A k \in 1 .. n - 1 : mentioned[n][i] \notin ToSet(mentioned[k])
                               /\ \A j \in 1 .. i - 1 : mentioned[n][j] # mentioned[n][i]}
\* <<block, claim, place>> of every variable that has rows, and what is there.
Spots(mentioned) ==
  UNION {{<<b, n, i>> : i \in {i \in News(mentioned, n) : mentioned[n][i].blk = Blocks[b]}} :
           b \in DOMAIN Blocks, n \in DOMAIN mentioned}
Met(mentioned, s) == mentioned[s[2]][s[3]]
\* Which of two spots comes first.
Lower(s, t) == \/ s[1] < t[1]
               \/ s[1] = t[1] /\ (s[2] < t[2] \/ (s[2] = t[2] /\ s[3] < t[3]))

\* How many rows the variables vs have.
RowCount(vs) == Cardinality(UNION {{v.name} \X (1 .. n_rows(v)) : v \in vs})
_layout(mentioned) ==
  LET spots == Spots(mentioned)
      first(s) == NUM_BLINDING_ROWS + RowCount({Met(mentioned, t) : t \in {t \in spots : Lower(t, s)}})
  IN  [name \in {Met(mentioned, s).name : s \in spots} |->
         first(CHOOSE s \in spots : Met(mentioned, s).name = name)]

\* A mutant: the walk forgets what it has seen.
_claim_var_groupsTwice(mentioned) ==
  [n \in DOMAIN mentioned |-> Chosen(mentioned[n], {v \in ToSet(mentioned[n]) : v.blk # "ext"})]
\* The same walk, claim by claim: the variables claim n is the first to mention.
_claim_var_groups(mentioned) ==
  [n \in DOMAIN mentioned |->
     LET met == Chosen([i \in DOMAIN mentioned[n] |-> i],
                       {i \in News(mentioned, n) : mentioned[n][i].blk # "ext"})
     IN  [k \in DOMAIN met |-> mentioned[n][met[k]]]]

\* The mentions of a tape: a name is that of one variable, in one block.
MentionsOK(mentioned) ==
  /\ \A n \in DOMAIN mentioned : mentioned[n] \in Seq(Walked(mentioned))
  /\ \A v \in Walked(mentioned) : n_rows(v) \in Nat /\ v.blk \in ToSet(Blocks) \cup {"ext"}
  /\ \A u, v \in Walked(mentioned) : u.name = v.name => u = v
\* With the settlements a tape is not empty.
ASSUME TapesAssumption ==
  \A t \in Tapes : \A cs \in {WithSettlements(t)} :
    /\ cs \in Seq(ToSet(cs)) /\ cs # <<>>
    /\ \A mentioned \in {[n \in DOMAIN cs |-> Mentions(cs[n])]} : MentionsOK(mentioned)
\* A chunk has a row, and so has an inner one.
ASSUME CutsAssumption == \A c \in Cuts : c[1] \in Nat \ {0} /\ c[2] \in Nat \ {0}

---------------------------------------------------------------------------
(* The bands.                                                               *)
_band_key(p) == <<p.kind, p.base, p.v.name>>

\* A template of a new key starts a band; one of a known key widens its range.
_index_bands(known, packets) ==
  LET Band(p) == [tmpl |-> p, rs |-> row_start[p.v.name], re |-> row_start[p.v.name] + n_rows(p.v)]
      all == known \o [n \in DOMAIN packets |-> Band(packets[n])]
      keys == [n \in DOMAIN all |-> _band_key(all[n].tmpl)]
      Same(n) == {m \in DOMAIN all : keys[m] = keys[n]}
      first == SelectSeq([n \in DOMAIN all |-> n], LAMBDA n : \A m \in 1 .. n - 1 : keys[m] # keys[n])
  IN  [k \in DOMAIN first |->
         [all[first[k]] EXCEPT !.rs = Min({all[m].rs : m \in Same(first[k])}),
                               !.re = Max({all[m].re : m \in Same(first[k])})]]

\* The ranges, sorted, and the templates of each.
_range_keys(bs) ==
  SortSeq(Distinct([n \in DOMAIN bs |-> <<bs[n].rs, bs[n].re>>]),
          LAMBDA a, b : a[1] < b[1] \/ (a[1] = b[1] /\ a[2] < b[2]))

\* bisect.bisect_right: a binary search, right only on a sorted sequence.
bisect_right(s, x) ==
  LET go[lo \in 0 .. Len(s), hi \in 0 .. Len(s)] ==
        IF lo >= hi THEN lo
        ELSE LET mid == (lo + hi) \div 2
             IN  IF x < s[mid + 1] THEN go[lo, mid] ELSE go[mid + 1, hi]
  IN  go[0, Len(s)]

\* A mutant: the search by the first row of a range instead of its end.
bands_overlappingByStart(bs, lo, hi) ==
  SelectSeq(bs, LAMBDA b : lo <= b.rs /\ b.rs < hi)
\* The ranges that reach past lo, up to the first that starts at hi or later.
bands_overlapping(bs, lo, hi) ==
  LET keys == _range_keys(bs)
      first == bisect_right([n \in DOMAIN keys |-> keys[n][2]], lo) + 1
      stop == {n \in first .. Len(keys) : keys[n][1] >= hi}
      last == IF stop = {} THEN Len(keys) ELSE Min(stop) - 1
  IN  SelectSeq(bs, LAMBDA b : \E k \in first .. last : keys[k] = <<b.rs, b.re>>)

---------------------------------------------------------------------------
(* Matrices.                                                                *)
NoRows == [r \in {} |-> <<>>]
\* m + the terms <<slot, id, coefficient>>.
AddTerms(m, terms) ==
  LET keys == {<<t[1], t[2]>> : t \in terms}
      new == [k \in keys |-> FSum(LAMBDA t : t[3], {t \in terms : <<t[1], t[2]>> = k})]
  IN  [k \in keys |-> IF k \in DOMAIN m THEN (m[k] + new[k]) % P ELSE new[k]] @@ m
NonZero(m) == {<<k, m[k]>> : k \in {k \in DOMAIN m : m[k] # 0}}

\* One band over rows lo .. hi - 1 of its variable: slots of the whole window.
Window(b, lo, hi) ==
  LET r_lo == IF b.rs > lo THEN b.rs ELSE lo
      r_hi == IF b.re < hi THEN b.re ELSE hi
      var_rs == row_start[b.tmpl.v.name]
      flat_lo == (r_lo - var_rs) * ELL
      flat_hi == IF b.tmpl.kind = "EmbedE" \/ (r_hi - var_rs) * ELL < b.tmpl.L
                 THEN (r_hi - var_rs) * ELL ELSE b.tmpl.L
  IN  [f \in flat_lo .. flat_hi - 1 |-> (r_lo - lo) * ELL + (f - flat_lo)]

\* _compute_q_lin_inner_chunk: rows lo .. hi - 1 through their bands.
FoldChunk(lo, hi) ==
  LET bs == bands_overlapping(bands, lo, hi)
      Terms(b, r) == LET w == Window(b, lo, hi)
                     IN  UNION {{<<w[f] % ELL, t[1], t[2]>> : t \in BandTerms(b.tmpl, f, ELL)} :
                                  f \in {f \in DOMAIN w : w[f] \div ELL = r - lo}}
  IN  [r \in lo .. hi - 1 |->
         FoldLeft(LAMBDA m, b : AddTerms(m, Terms(b, r)),
                  IF r \in DOMAIN fold THEN fold[r] ELSE <<>>, bs)]

---------------------------------------------------------------------------
(* The stream of a claim: its new variables block by block, one emission    *)
(* per block (the weights: one per run of adjacent rows), in chunks.        *)
\* An emission numbers its rows from the first variable's; a chunk is folded in
\* inner chunks.
_stream_phase(vs) ==
  LET rows == FlattenSeq([n \in DOMAIN vs |-> [k \in 1 .. n_rows(vs[n]) |-> <<vs[n].name, k - 1>>]])
      at == row_start[vs[1].name]
      Upto(x, end) == IF x < end THEN x ELSE end
      Piece(lo, hi) == [abs |-> at + lo, rows |-> SubSeq(rows, lo + 1, hi)]
      Inner(lo, hi) == [i \in 1 .. CeilDiv(hi - lo, cut[2]) |->
                          Piece(lo + (i - 1) * cut[2], Upto(lo + i * cut[2], hi))]
  IN  FlattenSeq([c \in 1 .. CeilDiv(Len(rows), cut[1]) |->
                    Inner((c - 1) * cut[1], Upto(c * cut[1], Len(rows)))])

_row_contiguous_runs(vs) ==
  LET runs[n \in 0 .. Len(vs)] ==
        IF n = 0 THEN <<>>
        ELSE IF n > 1 /\ row_start[vs[n].name] = row_start[vs[n - 1].name] + n_rows(vs[n - 1])
             THEN [runs[n - 1] EXCEPT ![Len(runs[n - 1])] = Append(@, vs[n])]
             ELSE Append(runs[n - 1], <<vs[n]>>)
  IN  runs[Len(vs)]

\* What goes to block b, and all of it.
StreamOf(g, b) ==
  LET vs == Chosen(g, {v \in ToSet(g) : v.blk = b})
      runs == IF vs = <<>> THEN <<>> ELSE IF b = "W" THEN _row_contiguous_runs(vs) ELSE <<vs>>
  IN  FlattenSeq([n \in DOMAIN runs |-> _stream_phase(runs[n])])
Stream(g) ==
  StreamOf(g, "p1") \o StreamOf(g, "W") \o StreamOf(g, "Wnew") \o StreamOf(g, "p2") \o StreamOf(g, "p3")

---------------------------------------------------------------------------
Init ==
  /\ \E t \in Tapes : tape = WithSettlements(t)
  /\ \E mentioned \in {[n \in DOMAIN tape |-> Mentions(tape[n])]} :
       row_start = _layout(mentioned) /\ groups = _claim_var_groups(mentioned)
  /\ cut \in Cuts
  /\ pc = "index" /\ ci = 1 /\ cur = 0
  /\ bands = <<>> /\ quadsP = <<>> /\ rhsP = {}
  /\ queue = <<>> /\ landed = <<>> /\ fold = NoRows
  /\ families = <<>> /\ quadsV = <<>> /\ rhsV = {} /\ test = NoRows

\* The count pass: claim ci's templates join the band index.
IndexClaim ==
  /\ pc = "index" /\ ci <= Len(tape)
  /\ \E k \in {Compile(tape[ci], cur)} :
       /\ bands' = _index_bands(bands, k.bands)
       /\ quadsP' = quadsP \o k.quads
       /\ rhsP' = rhsP \cup {<<cur + r[1], r[2]>> : r \in k.rhs}
       /\ cur' = cur + k.n
  /\ ci' = ci + 1
  /\ UNCHANGED <<fixed, pc, queue, landed, fold, verifier>>

StartSweep ==
  /\ pc = "index" /\ ci > Len(tape)
  /\ pc' = "sweep" /\ ci' = 1 /\ queue' = Stream(groups[1])
  /\ UNCHANGED <<fixed, cur, bands, quadsP, rhsP, landed, fold, verifier>>

\* QLinAccumulator.update, one inner chunk.
Update ==
  /\ pc = "sweep" /\ queue # <<>>
  /\ LET p == queue[1]   hi == p.abs + Len(p.rows)
     IN  /\ fold' = FoldChunk(p.abs, hi) @@ fold
         /\ landed' = [r \in DOMAIN landed \cup p.abs .. hi - 1 |->
                         LET old == IF r \in DOMAIN landed THEN landed[r] ELSE <<>>
                         IN  IF r \in p.abs .. hi - 1 THEN Append(old, p.rows[r - p.abs + 1]) ELSE old]
  /\ queue' = Tail(queue)
  /\ UNCHANGED <<fixed, pc, ci, cur, bands, quadsP, rhsP, verifier>>

NextClaim ==
  /\ pc = "sweep" /\ queue = <<>>
  /\ IF ci < Len(tape)
     THEN ci' = ci + 1 /\ queue' = Stream(groups[ci + 1]) /\ UNCHANGED <<pc, cur>>
     ELSE pc' = "compile" /\ ci' = 1 /\ cur' = 0 /\ UNCHANGED queue
  /\ UNCHANGED <<fixed, bands, quadsP, rhsP, landed, fold, verifier>>

\* compile_claims: claim ci, the settlements in table_order at the end.
CompileClaim ==
  /\ pc = "compile" /\ ci <= Len(tape) /\ Asserts(tape[ci])
  /\ \E k \in {Handle(tape[ci], cur)} :
       /\ families' = families \o k.families
       /\ quadsV' = quadsV \o k.quads
       /\ rhsV' = rhsV \cup {<<cur + r[1], r[2]>> : r \in k.rhs}
       /\ cur' = cur + k.n
  /\ ci' = ci + 1
  /\ UNCHANGED <<fixed, pc, test, prover>>

\* An assertion of a handler fails: the verifier stops without a verdict.
Panic ==
  /\ pc = "compile" /\ ci <= Len(tape) /\ ~Asserts(tape[ci])
  /\ pc' = "panic"
  /\ UNCHANGED <<fixed, ci, cur, prover, verifier>>

StartTest ==
  /\ pc = "compile" /\ ci > Len(tape)
  /\ pc' = "test" /\ ci' = 1
  /\ UNCHANGED <<fixed, cur, prover, verifier>>

\* linear_column_test: family ci, row by row.
TestFamily ==
  /\ pc = "test" /\ ci <= Len(families)
  /\ LET fam == families[ci]
         gi == row_start[fam.v.name] + fam.row
         n_slots(ro) == IF ELL < fam.len - ro * ELL THEN ELL ELSE fam.len - ro * ELL
         old(r) == IF r \in DOMAIN test THEN test[r] ELSE <<>>
     IN  test' = [r \in gi .. gi + nrows(fam.len) - 1 |->
                    LET ro == r - gi
                    IN  AddTerms(old(r), UNION {RunTerms(run) : run \in ForRuns(fam.exp, ro * ELL, n_slots(ro))})]
                 @@ test
  /\ ci' = ci + 1
  /\ UNCHANGED <<fixed, pc, cur, families, quadsV, rhsV, prover>>

EndTest ==
  /\ pc = "test" /\ ci > Len(families)
  /\ pc' = "done"
  /\ UNCHANGED <<fixed, ci, cur, prover, verifier>>

Next ==
  \/ IndexClaim \/ StartSweep \/ Update \/ NextClaim
  \/ CompileClaim \/ Panic \/ StartTest \/ TestFamily \/ EndTest

Spec == Init /\ [][Next]_vars

---------------------------------------------------------------------------
(* The reference: every template of the tape, row by row.                   *)
LOCAL Behind(a, k) == [base |-> a.base + k.n, packets |-> a.packets \o k.bands]
_compile_with_chs ==
  FoldLeft(LAMBDA a, c : Behind(a, Compile(c, a.base)), [base |-> 0, packets |-> <<>>], tape).packets
LOCAL RowTerms(p, ro) ==
  UNION {{<<f % ELL, t[1], t[2]>> : t \in BandTerms(p, f, ELL)} :
           f \in {f \in ro * ELL .. (ro + 1) * ELL - 1 : p.kind = "EmbedE" \/ f < p.L}}
LOCAL RowOf(packets, r) ==
  LET RowIn(p) == r - row_start[p.v.name]
      on == SelectSeq(packets, LAMBDA p : RowIn(p) \in 0 .. n_rows(p.v) - 1)
  IN  FoldLeft(LAMBDA m, p : AddTerms(m, RowTerms(p, RowIn(p))), <<>>, on)
LOCAL Row(m, r) == IF r \in DOMAIN m THEN NonZero(m[r]) ELSE {}

---------------------------------------------------------------------------
(* Properties.                                                              *)
\* The variables that have rows.
AllVars == UNION {ToSet(groups[n]) : n \in DOMAIN groups}

\* Every row of the layout is folded once, and the row that the stream delivers
\* there is the one the layout put there: the claims come in the order of the
\* tape and the blocks of one claim are streamed apart, yet no row is skipped,
\* shifted or folded twice (core.py _layout, _claim_var_groups, the sweep).
EachRowOnce ==
  pc \notin {"index", "sweep"} =>
    /\ \A v \in AllVars : \A r \in 0 .. n_rows(v) - 1 :
         landed[row_start[v.name] + r] = <<<<v.name, r>>>>
    /\ \A r \in DOMAIN landed : Len(landed[r]) = 1

\* What the band index and the chunks fold is what the claims compile to row by
\* row: no chunk boundary, no search of the index and no merge of two templates
\* loses a term, adds one or moves it (core.py 1860-1907, 2248-2320).
FoldIsExact ==
  pc = "done" =>
    \A packets \in {_compile_with_chs} : \A r \in DOMAIN landed : Row(fold, r) = NonZero(RowOf(packets, r))

\* Both sides test the same constraints: the prover's bands, folded chunk by
\* chunk, and the verifier's expanders, folded family by family, give every slot
\* of every row the same coefficients of the same constraint ids, and the same
\* right sides; and the quadratic families have the same operands, constants and
\* order, so that the same random coefficient meets the same family.  The two
\* compiles share no code (claims.py and handlers.rs).
SameConstraints ==
  pc = "done" =>
    /\ \A r \in DOMAIN landed \cup DOMAIN test : Row(fold, r) = Row(test, r)
    /\ rhsP = rhsV
    /\ Len(quadsP) = Len(quadsV)
    /\ \A n \in DOMAIN quadsV : \A f \in {"x", "y", "z", "a", "b", "L"} : quadsP[n][f] = quadsV[n][f]

\* The homogeneous runs the column test folds are the terms Emit lists one by
\* one, for every window of a row (verifier/src/compile.rs); and the challenges
\* of a band or family whose rows repeat the same ids are hashed once, into a
\* buffer that no slot of it reads outside of.
RunsAreTerms ==
  pc = "done" =>
    /\ \A n \in DOMAIN families :
         LET e == families[n].exp   len == families[n].len
         IN  /\ \A lo \in 0 .. len - 1 : \A k \in 1 .. ELL :
                  lo + k <= len => UNION {RunTerms(run) : run \in ForRuns(e, lo, k)} = Emit(e, lo, k)
             /\ \A f \in 0 .. len - 1 : \A t \in SlotTerms(e, f) : t[1] \in Preload(e)
    /\ \A n \in DOMAIN bands : LET p == bands[n].tmpl IN
         \A f \in 0 .. p.v.len - 1 : \A t \in BandTerms(p, f, ELL) : t[1] \in Spans(p)

===========================================================================
