------------------------------ MODULE Witness ------------------------------
(***************************************************************************)
(* From a recorded tape to a witness that its constraints accept.           *)
(*                                                                         *)
(* "honest": the prover of tape.py and core.py computes the claims in order, *)
(* counts every lookup in its table, and after the coins fills the auxiliary *)
(* rows and the settlements of the tables.                                 *)
(*                                                                         *)
(* "any": the committed rows hold whatever the constraints let them hold.    *)
(* The search fills them value by value and gives a branch up when it breaks *)
(* a constraint.  A lookup of a value that is not in its table fails the     *)
(* settlement except with negligible probability over alpha and beta, so     *)
(* here a lookup is the membership it proves, and its phase-2 rows are left  *)
(* out.                                                                    *)
(*                                                                         *)
(* "audited": the same search, with what the one-pass audit checks of the    *)
(* claims in the place of what they compile to.                            *)
(*                                                                         *)
(* When the honest prover is done an audit may select a claim.  A wire of it *)
(* may by then hold something else; the prover answers the block's challenge *)
(* as the code does or tries to make up for the wire, and the message may be  *)
(* altered on the way.                                                      *)
(***************************************************************************)
EXTENDS TapeOps, AuditProofs, TLC
LOCAL INSTANCE FiniteSetsExt
LOCAL INSTANCE SequencesExt

CONSTANTS
  Cases,         \* name -> [calls, inputs]; inputs: a set of variable -> vector
  Open,          \* the names of the cases that "any" runs through
  Audited,       \* the names of the cases that "audited" runs through
  Challenges,    \* the challenges a block may get
  Selected       \* name -> the inputs of the case whose claims are selected

VARIABLES
  case, input, who,
  pc,            \* "compute", "aux", "search", "done"; "selected", "sent", "checked"
  turn,          \* the next claim, or settlement
  live,          \* the honest witness: variable -> vector
  mult,          \* table -> how often each entry was looked up
  cellsOf,       \* the variables of the search, numbered
  asg,           \* the searched witness: cell <<number, slot>> -> value
  proof,         \* [how, of: challenge -> message] of the selected claim
  accepted       \* the audit's verdict of it

vars == <<case, input, who, pc, turn, live, mult, cellsOf, asg, proof, accepted>>
unaudited == <<proof, accepted>>

Recorded == {[name |-> n, claims |-> Record(Cases[n].calls)] : n \in DOMAIN Cases}
Claims_(n) == (CHOOSE r \in Recorded : r.name = n).claims
Tables_(n) == _collect_tables(Claims_(n))

---------------------------------------------------------------------------
(* The constraints of a list of claims over cells <<variable, slot>>:       *)
(* the sum of on[cell] * cell, plus a product when there is one, is rhs.    *)
LOCAL Mentioned(comp) ==
  FlattenSeq([n \in DOMAIN comp |->
    [b \in DOMAIN comp[n].bands |-> comp[n].bands[b].v]
    \o [q \in DOMAIN comp[n].quads |-> comp[n].quads[q].x] \o [q \in DOMAIN comp[n].quads |-> comp[n].quads[q].y]
    \o [q \in DOMAIN comp[n].quads |-> comp[n].quads[q].z]])

LOCAL Constraint(on, prod, rhs, look) ==
  [on |-> Tabulated(on), prod |-> prod, rhs |-> rhs, look |-> look,
   cells |-> Enumerated(DOMAIN on \cup {prod[n] : n \in DOMAIN prod})]
\* The terms <<constraint, cell, band, coefficient>> of a claim.
LOCAL Terms(bands, num) ==
  UNION {UNION {{<<t[1], <<num[bands[b].v], f>>, b, t[2]>> : t \in BandTerms(bands[b], f, ELL)} :
                  f \in SlotsOf(bands[b])} : b \in DOMAIN bands}
LOCAL Combination(of) ==
  [cell \in {t[2] : t \in of} |-> FSum(LAMBDA t : t[4], {t \in of : t[2] = cell})]
LOCAL Rows(terms, n, rhs) ==
  {Constraint(Combination({t \in terms : t[1] = id}), <<>>, FSum(LAMBDA r : r[2], {r \in rhs : r[1] = id}), FALSE) :
     id \in 0 .. n - 1}
LOCAL Products(q, num) ==
  {Constraint(<<num[q.z], i>> :> q.a, <<<<num[q.x], i>>, <<num[q.y], i>>>>, q.b % P, q.table # NoTable) :
     i \in 0 .. q.L - 1}
LOCAL SystemOver(comp, num) ==
  [num |-> num,
   constraints |-> UNION {Rows(Terms(comp[n].bands, num), comp[n].n, comp[n].rhs) : n \in DOMAIN comp}
                   \cup UNION {UNION {Products(comp[n].quads[q], num) : q \in DOMAIN comp[n].quads} : n \in DOMAIN comp}]
LOCAL Numbered(seq) ==
  [v \in {seq[n] : n \in DOMAIN seq} |-> CHOOSE n \in DOMAIN seq : seq[n] = v /\ \A m \in 1 .. n - 1 : seq[m] # v]
System(comp) == SystemOver(comp, Tabulated(Numbered(Mentioned(comp))))
LOCAL Names(num) == [n \in {num[v] : v \in DOMAIN num} |-> CHOOSE v \in DOMAIN num : num[v] = n]

\* What is left of c when each cell has the value w(cell).
Residual(c, w(_)) ==
  (FSum(LAMBDA e : c.on[e] * w(e), DOMAIN c.on)
   + (IF c.prod = <<>> THEN 0 ELSE w(c.prod[1]) * w(c.prod[2])) + P - c.rhs) % P

CompiledTo(cs) == [n \in DOMAIN cs |-> COMPILE_FNS(cs[n], 0)]
RelationsOf(cs) == [n \in DOMAIN cs |-> _relation_terms(cs[n])]
\* Everything, for the honest prover, and what an audit of every claim asks.
LOCAL WithNames(n, s) == [name |-> n, system |-> s, var |-> Tabulated(Names(s.num))]
Full == {WithNames(n, System(CompiledTo(Claims_(n) \o Tables_(n)))) : n \in DOMAIN Cases}
\* What the proof of each claim of a case is about, where it has one.
LOCAL MentionedIn(comp) ==
  UNION ({{comp.bands[b].v : b \in DOMAIN comp.bands}} \cup {{q.x, q.y, q.z} : q \in ToSet(comp.quads)})
LOCAL FormAndVars(c, form) == [rows |-> form.rows, families |-> form.families, vars |-> MentionedIn(COMPILE_FNS(c, 0))]
LOCAL FormOrNot(c) == IF has_materialized_proof(c) THEN FormAndVars(c, Form(c)) ELSE <<>>
Forms == {[name |-> n, of |-> [k \in DOMAIN Claims_(n) |-> FormOrNot(Claims_(n)[k])]] : n \in DOMAIN Cases}
LOCAL FormsOf(n) == (CHOOSE f \in Forms : f.name = n).of
LOCAL Satisfied(f, w) ==
  \A c \in f.system.constraints : Residual(c, LAMBDA e : w[f.var[e[1]]][e[2]]) = 0

---------------------------------------------------------------------------
(* The claims alone, and what the lookups prove, for a search.               *)
LOCAL Cells(num, v) == {<<num[v], i>> : i \in 0 .. v.len - 1}
LOCAL Values(t) == {t.T[j] : j \in DOMAIN t.T}
LOCAL RangesOn(num, items) ==
  UNION {{[cell |-> e, values |-> Values(item.table)] : e \in Cells(num, item.x)} : item \in items}
LOCAL PairsOn(num, items) ==
  UNION {{[key |-> <<num[p.key], i>>, y |-> <<num[p.y], i>>, shift |-> p.shift[i], table |-> p.table] :
            i \in 0 .. p.key.len - 1} : p \in items}
\* The values a cell may have on its own: sets are those of its ranges, keys and
\* constraints of no other cell.
LOCAL Unary(c) == {v \in 0 .. P - 1 : Residual(c, LAMBDA e : v) = 0}
LOCAL Meet(sets, least) == {v \in least : \A b \in sets : v \in b}
LOCAL Narrow(sets) ==
  IF sets = {} THEN 0 .. P - 1
  ELSE Enumerated(Meet(sets, CHOOSE a \in sets : \A b \in sets : Cardinality(a) <= Cardinality(b)))
LOCAL Domain(e, kept, ranges, pairs) ==
  Narrow({r.values : r \in {r \in ranges : r.cell = e}}
         \cup {{(v + P - p.shift) % P : v \in Values(p.table)} : p \in {p \in pairs : p.key = e}}
         \cup {Unary(c) : c \in {c \in kept : c.cells = {e}}})
LOCAL Sized(e, values) == [cell |-> e, values |-> values, size |-> Cardinality(values)]
LOCAL SearchOver(num, kept, ranges, pairs) ==
  [num |-> num, constraints |-> Enumerated(kept), pairs |-> Enumerated(pairs),
   cells |-> {Sized(e, Domain(e, kept, ranges, pairs)) :
                e \in UNION {c.cells : c \in kept} \cup {r.cell : r \in ranges}}]
\* The constraints that only carry a lookup, and the u of a pair, are left out.
LOCAL SearchIn(s, ranged, paired, sums) ==
  SearchOver(s.num,
             {c \in s.constraints : ~c.look /\ c.cells \cap UNION {Cells(s.num, u) : u \in sums} = {}},
             Enumerated(RangesOn(s.num, ranged)), Enumerated(PairsOn(s.num, paired)))
LOCAL Each(cs, Items(_)) == UNION {ToSet(Items(cs[n])) : n \in DOMAIN cs}
LOCAL PairedSearch(s, ranged, paired) == SearchIn(s, ranged, paired, {p.u : p \in paired})
LOCAL CompiledSearch(cs) == PairedSearch(System(CompiledTo(cs)), Each(cs, Ranged), Each(cs, LookedUp))
LOCAL AuditSearch(cs) == SearchIn(System(RelationsOf(cs)), Each(cs, RangeItems), Each(cs, PairItems), {})
LOCAL Search(r) ==
  [name |-> r.name, any |-> IF r.name \in Open THEN CompiledSearch(r.claims) ELSE <<>>,
   audited |-> IF r.name \in Audited THEN AuditSearch(r.claims) ELSE <<>>]
Searches == {Search(r) : r \in Recorded}
Lookups(n, by) == (CHOOSE f \in Searches : f.name = n)[by]

---------------------------------------------------------------------------
\* The committed inputs of the case, as the first cells.
LOCAL Given(num) ==
  LET given == {v \in DOMAIN input : v \in DOMAIN num}
  IN  [e \in UNION {Cells(num, v) : v \in given} |-> input[CHOOSE v \in given : num[v] = e[1]][e[2]]]
Init ==
  /\ case \in DOMAIN Cases /\ input \in Cases[case].inputs
  /\ who \in {"honest"} \cup (IF case \in Open THEN {"any"} ELSE {})
                        \cup (IF case \in Audited THEN {"audited"} ELSE {})
  /\ turn = 1 /\ mult = [t \in {} |-> <<>>] /\ proof = <<>> /\ accepted = FALSE
  /\ IF who = "honest"
     THEN pc = "compute" /\ live = input /\ asg = [e \in {} |-> 0] /\ cellsOf = <<>>
     ELSE /\ pc = "search" /\ live = Nothing
          /\ \E num \in {Lookups(case, who).num} : asg = Given(num) /\ cellsOf = Names(num)

(* The honest prover. *)
_process_claim ==
  /\ pc = "compute"
  /\ \E cs \in {Claims_(case)} :
       /\ turn <= Len(cs)
       /\ \E w \in {COMPUTE_FNS(cs[turn], live) @@ live} : live' = w /\ mult' = side_effects(cs[turn], w, mult)
  /\ turn' = turn + 1 /\ UNCHANGED <<case, input, who, pc, cellsOf, asg, unaudited>>
Coins ==
  /\ pc = "compute" /\ turn > Len(Claims_(case))
  /\ pc' = "aux" /\ turn' = 1 /\ UNCHANGED <<case, input, who, live, mult, cellsOf, asg, unaudited>>
Aux_ ==
  /\ pc = "aux"
  /\ \E cs \in {Claims_(case)} : turn <= Len(cs) /\ live' = AUX_FNS(cs[turn], live) @@ live
  /\ turn' = turn + 1 /\ UNCHANGED <<case, input, who, pc, mult, cellsOf, asg, unaudited>>
Settle ==
  /\ pc = "aux" /\ turn > Len(Claims_(case))
  /\ live' = FoldLeft(LAMBDA w, s : table_settlement_aux(s.table, mult) @@ w, live, Tables_(case))
  /\ pc' = "done" /\ UNCHANGED <<case, input, who, turn, mult, cellsOf, asg, unaudited>>

(* The search. *)
Value(e) == IF e \in DOMAIN asg THEN asg[e] ELSE 0
\* The constraints of the case: the cells each still has open, what is left of it
\* while those are 0, and how it moves with its one open cell.
Slope(c, e) ==
  (IF e \in DOMAIN c.on THEN c.on[e] ELSE 0)
  + (IF c.prod = <<>> THEN 0 ELSE IF e = c.prod[1] THEN Value(c.prod[2]) ELSE IF e = c.prod[2] THEN Value(c.prod[1]) ELSE 0)
Moot(c) ==       \* the factor of a product whose other factor is 0
  {c.prod[n] : n \in {n \in DOMAIN c.prod : c.prod[3 - n] \in DOMAIN asg /\ asg[c.prod[3 - n]] = 0}} \ DOMAIN c.on
LOCAL Stands(c, left, one) ==
  LET single == Cardinality(left) = 1 /\ c.prod # <<one, one>>
  IN  [left |-> left, residual |-> Residual(c, Value), single |-> single,
       slope |-> IF single THEN Slope(c, one) % P ELSE 0]
LOCAL StandsOver(c, left) == Stands(c, left, CHOOSE e \in left : TRUE)
Standing(s) == {StandsOver(c, Enumerated(c.cells \ (DOMAIN asg \cup Moot(c)))) : c \in s.constraints}
\* The constraints that can no longer change, and those with one value to give.
Closed(o) == o.left = {} \/ (o.single /\ o.slope = 0)
Giving(o) == o.single /\ o.slope # 0
Gives(o) == <<CHOOSE e \in o.left : TRUE, ((P - o.residual) * FInv(o.slope)) % P>>
LOCAL Entries(p) == {j \in DOMAIN p.table.T : p.table.T[j] = (asg[p.key] + p.shift) % P}
PairGives(s) ==
  {<<p.y, p.table.T_Y[CHOOSE j \in Entries(p) : TRUE]>> :
     p \in {p \in s.pairs : p.key \in DOMAIN asg /\ Entries(p) # {}}}

Broken(s, standing, pairs) ==
  \/ \E d \in s.cells : d.cell \in DOMAIN asg /\ asg[d.cell] \notin d.values
  \/ \E o \in standing : Closed(o) /\ o.residual # 0
  \/ \E g \in pairs : g[1] \in DOMAIN asg /\ asg[g[1]] # g[2]
\* The cells that something still depends on.
LOCAL Waiting(s, waiting) ==
  Enumerated({d \in s.cells : d.cell \notin DOMAIN asg /\ (d.size < P \/ d.cell \in waiting)})
Undecided(s, standing) == Waiting(s, UNION {o.left : o \in {o \in standing : ~Closed(o)}})
\* Of the constraint with the least to choose before it gives its last cell, the
\* cell of the fewest values.
LOCAL Weight_(ds) ==
  FoldSet(LAMBDA d, w : IF w >= P THEN P ELSE w * d.size, 1, ds \ {CHOOSE d \in ds : \A b \in ds : b.size <= d.size})
LOCAL Weighed(s, os) == {<<Weight_({d \in s.cells : d.cell \in o.left}), o.left>> : o \in os}
LOCAL Lightest(weighed) == CHOOSE a \in weighed : \A b \in weighed : a[1] <= b[1]
LOCAL Smallest(ds) == CHOOSE d \in ds : \A f \in ds : d.size <= f.size
LOCAL AmongLightest(weighed, undecided) ==
  Smallest(IF weighed = {} THEN undecided ELSE {d \in undecided : d.cell \in Lightest(weighed)[2]})
Choice(s, standing, undecided) ==
  AmongLightest(Enumerated(Weighed(s, {o \in standing : ~Closed(o) /\ \E d \in undecided : d.cell \in o.left})), undecided)

Force(forced) ==
  /\ forced # {} /\ \A g, h \in forced : g[1] = h[1] => g = h
  /\ asg' = [e \in {g[1] : g \in forced} |-> (CHOOSE g \in forced : g[1] = e)[2]] @@ asg
  /\ pc' = pc
Guess(d) ==
  /\ \E v \in d.values : asg' = (d.cell :> v) @@ asg
  /\ pc' = pc
Filled == pc' = "done" /\ asg' = asg
Step(s, standing, pairs, forced, undecided) ==
  /\ ~Broken(s, standing, pairs)
  /\ \/ Force(forced)
     \/ forced = {} /\ undecided # {} /\ Guess(Choice(s, standing, undecided))
     \/ forced = {} /\ undecided = {} /\ Filled
Fill ==
  /\ pc = "search"
  /\ \E s \in {Lookups(case, who)} : \E standing \in {Standing(s)}, pairs \in {PairGives(s)} :
       Step(s, standing, pairs,
            {Gives(o) : o \in {o \in standing : Giving(o)}} \cup {g \in pairs : g[1] \notin DOMAIN asg},
            Undecided(s, standing))
  /\ UNCHANGED <<case, input, who, turn, live, mult, cellsOf, unaudited>>

---------------------------------------------------------------------------
(* The audit of one claim.                                                  *)
Claim == Claims_(case)[turn]
FormOf_ == FormsOf(case)[turn]
\* The committed wires of a claim, and what its block holds.
_claim_vars(form) == {v \in form.vars \cap DOMAIN live : v.blk # "p2"}
_device_live(form) == [v \in form.vars \cap DOMAIN live |-> live[v]]
NoWire == <<>>

_flush_window ==
  /\ who = "honest" /\ pc = "done" /\ input \in Selected[case]
  /\ \E cs \in {Claims_(case)}, fs \in {FormsOf(case)} : \E n \in DOMAIN cs :
       /\ has_materialized_proof(cs[n]) /\ turn' = n
       /\ \/ live' = live /\ proof' = [wire |-> NoWire, how |-> "", of |-> <<>>]
          \/ \E v \in _claim_vars(fs[n]) : \E i \in {0, v.len - 1} :
               /\ live' = [live EXCEPT ![v][i] = (@ + 1) % P]
               /\ proof' = [wire |-> v, how |-> "", of |-> <<>>]
  /\ pc' = "selected" /\ UNCHANGED <<case, input, who, mult, cellsOf, asg, accepted>>

\* Departures from the protocol.  A mask of minus the sum of the terms makes the
\* claim 0; whether the message owns up to it is another matter.  Steered: the
\* first round's mask is 0 at the coin that the plain proof drew.
LOCAL Spread(mu, n) == <<3, 5, 7>>
LOCAL MaskedBy(terms, c, ch, tape) ==
  prove_terms(terms, _sumcheck_transcript(ch, turn, relation_name(c)), Neg(Claimed(terms)), tape)
LOCAL Line(mu, r, a) == solve_tape_for_target(mu, <<FMul(Neg(r), a), a, 0, 0>>)
LOCAL OrZero(tape) == IF tape = NoTape THEN <<0, 0, 0>> ELSE tape
LOCAL Steering(mu, r) == OrZero(Line(mu, r, FMul(mu, FInv(1 + 2 * (P - r)))))
LOCAL Departed(how, terms, c, ch, plain) ==
  LET deg == Degree(terms)
      Tape == TapeOf(LAMBDA mu, n : SubSeq(Spread(mu, n), 1, deg))
      Steer == TapeOf(LAMBDA mu, n : SubSeq(IF n = 1 THEN Steering(mu, plain.challenges[1]) ELSE <<0, 0, 0>>, 1, deg))
  IN  CASE how = "masked" -> MaskedBy(terms, c, ch, Tape)
        [] how = "unmasked" -> [MaskedBy(terms, c, ch, Tape) EXCEPT !.masked = FALSE]
        [] how = "steered" -> [MaskedBy(terms, c, ch, Steer) EXCEPT !.masked = FALSE]
LOCAL Answered(how, c, form, w, ch) ==
  LET plain == prove_claim(c, form, w, ch, turn)
  IN  IF how = "honest" THEN plain
      ELSE [plain EXCEPT !.sumcheck = <<Departed(how, terms_of(c, form, w, ch, turn), c, ch, plain.sumcheck[1])>>]
Answer ==
  /\ pc = "selected"
  /\ \E c \in {Claim}, form \in {FormOf_} : \E w \in {_device_live(form)} :
     \E how \in {"honest"} \cup (IF has_relation(c) /\ Cardinality(DOMAIN form.rows) > 1 THEN {"masked", "unmasked", "steered"} ELSE {}) :
     \E of \in {[ch \in Challenges |-> Answered(how, c, form, w, ch)]} : proof' = [proof EXCEPT !.how = how, !.of = of]
  /\ pc' = "sent" /\ UNCHANGED <<case, input, who, turn, live, mult, cellsOf, asg, accepted>>

\* One part of a message, altered.
LOCAL Front_(s) == SubSeq(s, 1, Len(s) - 1)
LOCAL Sums(s) ==
  {[s EXCEPT !.claim = (@ + 1) % P], [s EXCEPT !.masked = TRUE]}
  \cup (IF s.challenges = <<>> THEN {}
        ELSE {[s EXCEPT !.round_polys[1][2][2] = (@ + 1) % P], [s EXCEPT !.challenges[1] = (@ + 1) % P],
              [s EXCEPT !.final_point[1] = (@ + 1) % P],
              [s EXCEPT !.challenges[1] = (@ + 1) % P, !.final_point[1] = (@ + 1) % P],
              [s EXCEPT !.round_polys = Front_(@), !.challenges = Front_(@), !.final_point = Front_(@)],
              [s EXCEPT !.round_polys = <<>>, !.challenges = <<>>, !.final_point = <<>>]})
Altered(m) ==
  {[m EXCEPT !.index = @ + 1]} \cup {[m EXCEPT !.challenge = ch] : ch \in Challenges \ {m.challenge}}
  \cup (IF m.sumcheck = NoSumcheck THEN {} ELSE {[m EXCEPT !.sumcheck[1] = s] : s \in Sums(m.sumcheck[1])})
  \cup {[m EXCEPT !.projections[n][0] = (@ + 1) % P] : n \in DOMAIN m.projections}
  \cup UNION {{[m EXCEPT !.roots[j][1] = (@ + 1) % P], [m EXCEPT !.roots[j] = <<(@[1] + 1) % P, (@[2] + 1) % P>>]} :
                j \in DOMAIN m.roots}
  \cup (IF m.roots = <<>> THEN {} ELSE {[m EXCEPT !.roots = Front_(@)]})
Deliver ==
  /\ pc = "sent" /\ proof.how = "honest" /\ proof.wire = NoWire
  /\ \E ch \in {CHOOSE ch \in Challenges : TRUE} : \E m \in Altered(proof.of[ch]) :
       proof' = [proof EXCEPT !.how = "altered", !.of[ch] = m]
  /\ UNCHANGED <<case, input, who, pc, turn, live, mult, cellsOf, asg, accepted>>
_check ==
  /\ pc = "sent"
  /\ \E c \in {Claim}, form \in {FormOf_} : \E w \in {_device_live(form)} :
     \E ok \in {\A ch \in Challenges : verify_claim(c, form, w, proof.of[ch], ch, turn)} : accepted' = ok
  /\ pc' = "checked" /\ UNCHANGED <<case, input, who, turn, live, mult, cellsOf, asg, proof>>

Next == _process_claim \/ Coins \/ Aux_ \/ Settle \/ Fill \/ _flush_window \/ Answer \/ Deliver \/ _check
Spec == Init /\ [][Next]_vars

---------------------------------------------------------------------------
(* What each claim promises of its values, said without its constraints:     *)
(* w maps variables to vectors.                                            *)
Rescalings(c) ==
  CASE c.op = "Matmul" /\ c.rescale_bits > 0 -> {matmul_rescaling(c)}
    [] c.op = "Hadamard" /\ c.rescale_bits > 0 -> {hadamard_rescaling(c)}
    [] c.op = "RoPE" /\ c.rescale_bits > 0 -> {rope_rescaling(c)}
    [] c.op = "Rescale" -> {rescale_rescaling(c)}
    [] c.op = "Silu" /\ c.rescale_bits > 0 -> {silu_rescaling(c)}
    [] c.op = "Softmax" /\ c.rescale_bits > 0 -> {softmax_rescaling(c)}
    [] c.op = "RmsNorm" -> (IF c.rescale_bits > 0 THEN {input_rescaling(c)} ELSE {})
                           \cup (IF c.output_rescale_bits > 0 THEN {output_rescaling(c)} ELSE {})
    [] OTHER -> {}
Floors(c, w) ==
  \A r \in Rescalings(c) : \A i \in 0 .. r.L - 1 :
    signed(w[r.high][i]) = signed(w[r.full][i]) \div 2 ^ r.bits

\* The table of its sign below b_2; above, x when positive and 0 when not.
LOCAL SiluIs(c, w) ==
  LET x == w[IF c.rescale_bits > 0 THEN Own(c, "x", c.length) ELSE c.x]
      Mag(i) == IF signed(x[i]) < 0 THEN -signed(x[i]) ELSE signed(x[i])
      Half(i) == IF signed(x[i]) < 0 THEN c.T_LEN ELSE 0
  IN  \A i \in 0 .. c.length - 1 :
        w[Own(c, "output", c.length)][i] =
          IF Mag(i) < c.b_2 THEN c.T_Y[Half(i) + Mag(i) \div c.b]
          ELSE IF signed(x[i]) < 0 THEN 0 ELSE x[i]
\* x times the least y whose square times the row's energy reaches the magic.
LOCAL RmsIs(c, w) ==
  LET L == c.B * c.d
      x == w[IF c.rescale_bits > 0 THEN Own(c, "x", L) ELSE c.x]
      out == w[IF c.output_rescale_bits > 0 THEN Own(c, "output_full", L) ELSE Own(c, "output", L)]
      energy(b) == Sum(LAMBDA j : signed(x[b * c.d + j]) ^ 2, 0 .. c.d - 1) + c.d * c.eps_int
      y(b) == Min({y \in 1 .. magic(c) : y * y * energy(b) >= magic(c)})
  IN  \A i \in 0 .. L - 1 : out[i] = (x[i] * (y(i \div c.d) % P)) % P
\* exp(x - c2) for the least c2 at which a row sums to at most s_y.
LOCAL SoftmaxIs(c, w) ==
  LET x == w[IF c.rescale_bits > 0 THEN Own(c, "x", c.B * c.M) ELSE c.x]
      X(b, j) == signed(x[b * c.M + j])
      Row(b) == {j \in 0 .. c.M - 1 : ~c.causal \/ j <= b \div c.heads}
      Entry(z) == IF z < c.Z_max THEN ExpEntry(c.s_c, c.s_y, -z, c.round_up) ELSE IF c.round_up THEN 1 ELSE 0
      Total(b, c2) == Sum(LAMBDA j : Entry(c2 - X(b, j)), Row(b))
      top(b) == Max({X(b, j) : j \in Row(b)})
      c2(b) == Min({v \in top(b) .. top(b) + c.Z_max : Total(b, v) <= c.s_y})
  IN  \A b \in 0 .. c.B - 1 : \A j \in 0 .. c.M - 1 :
        w[Own(c, "y_A", c.B * c.M)][b * c.M + j] = IF j \in Row(b) THEN Entry(c2(b) - X(b, j)) ELSE 0
\* The k best, the lower index before a higher one of the same score.
LOCAL BestIs(score(_, _), m(_, _), k_, T, E) ==
  \A t \in 0 .. T - 1 :
    LET Beats(e, f) == score(t, e) > score(t, f) \/ (score(t, e) = score(t, f) /\ e < f)
    IN  \A e \in 0 .. E - 1 :
          m(t, e) = IF Cardinality({f \in 0 .. E - 1 : Beats(f, e)}) < k_ THEN 1 ELSE 0
LOCAL RoutingIs(c, w) ==
  BestIs(LAMBDA t, e : signed(w[c.r][t * c.E + e]),
         LAMBDA t, e : w[Own(c, "m", c.T * c.E)][t * c.E + e], 1, c.T, c.E)
LOCAL TopkIs(c, w) ==
  BestIs(LAMBDA t, e : signed(w[c.s][t * c.E + e]) + signed(w[c.b][e]),
         LAMBDA t, e : w[Own(c, "m", c.T * c.E)][t * c.E + e], c.k, c.T, c.E)
\* The slots' scores are the scores of the selected experts, in some order.
LOCAL SlotsIs(c, w) ==
  LET M == Words(c, "M", c.k, c.T * c.E)
  IN  \A t \in 0 .. c.T - 1 : \E order \in [1 .. c.k -> 0 .. c.E - 1] :
        /\ {order[n] : n \in 1 .. c.k} = {e \in 0 .. c.E - 1 : w[c.m][t * c.E + e] = 1}
        /\ \A n \in 1 .. c.k : /\ w[Own(c, "ss", c.T * c.k)][t * c.k + n - 1] = w[c.s][t * c.E + order[n]]
                               /\ \A e \in 0 .. c.E - 1 : w[M[n]][t * c.E + e] = IF e = order[n] THEN 1 ELSE 0
LOCAL BracketIs(c, w) ==
  \A t \in 0 .. c.T - 1 : \A n \in 0 .. c.k - 1 :
    w[Own(c, "w", c.T * c.k)][t * c.k + n] =
      (c.C * w[c.ss][t * c.k + n]) \div Sum(LAMBDA j : w[c.ss][t * c.k + j], 0 .. c.k - 1)
\* The gap of the committed token to the largest logit.
LOCAL MaxIs(c, w) ==
  \A t \in 0 .. c.T - 1 :
    LET Logit(i) == signed(w[c.l][t * c.V + i])
    IN  signed(w[Own(c, "gap_o", c.T)][t]) =
          Max({Logit(i) : i \in 0 .. c.V - 1}) - Logit(w[c.tok][t])
\* No witness states less information than the token carries.
LOCAL InfoIs(c, w) ==
  \A t \in 0 .. c.T - 1 :
    LET a == Sum(LAMBDA i : w[c.e][t * c.V + i], 0 .. c.V - 1)
    IN  w[Own(c, "surprisal", c.T)][t] >= CeilDiv(w[c.gap_o2][t], c.k) + Min({b \in 0 .. c.K - 1 : c.pow[b] >= a})
LOCAL WordsAre(c, w) ==
  \A i \in 0 .. c.length - 1 : \A n \in DOMAIN c.coeffs :
    w[Words(c, "word", Len(c.coeffs), c.length)[n]][i] =
      (w[c.x][i] \div c.coeffs[n]) % (IF n < Len(c.coeffs) THEN c.coeffs[n + 1] \div c.coeffs[n] ELSE P)
LOCAL CombineIs(c, w) ==
  \A t \in 0 .. c.T - 1 : \A e \in 0 .. c.E - 1 :
    w[c.m][t * c.E + e] = 1 => \A j \in 0 .. c.F - 1 : w[c.y][t * c.F + j] = w[c.xs[e + 1]][t * c.F + j]

Means(c, w) ==
  /\ Floors(c, w)
  /\ CASE c.op = "Matmul" -> MatmulIs(c, w)
       [] c.op = "Silu" -> SiluIs(c, w)
       [] c.op = "RmsNorm" -> RmsIs(c, w)
       [] c.op = "Softmax" -> SoftmaxIs(c, w)
       [] c.op = "Routing" -> RoutingIs(c, w)
       [] c.op = "TopkRouting" -> TopkIs(c, w)
       [] c.op = "TopkSlots" -> SlotsIs(c, w)
       [] c.op = "GateBracket" -> BracketIs(c, w)
       [] c.op = "FreivaldsCombine" -> CombineIs(c, w)
       [] c.op = "Max" -> MaxIs(c, w)
       [] c.op = "InfoFinalize" -> InfoIs(c, w)
       [] c.op = "WordExtraction" -> WordsAre(c, w)
       [] OTHER -> TRUE

---------------------------------------------------------------------------
(* Properties.                                                              *)
\* The honest prover is never refused: the rows it computes, the counts it keeps
\* beside them by hand and the rows it adds after the coins satisfy every
\* constraint the claims compile to, the settlements of the tables they share
\* included, and mean what the claims promise (compute_fns.py, tape.py, claims.py).
Complete ==
  who = "honest" /\ pc = "done" =>
    /\ \A f \in Full : f.name = case => Satisfied(f, live)
    /\ \A c \in ToSet(Claims_(case)) : Means(c, live)

LOCAL BlockHolds(c, form) == \E w \in {_device_live(form)} : HoldsLocally(c, form, w)
\* An audit that selects a claim of the honest prover, of a kind it has a proof
\* for, accepts it: its rows satisfy the local relations, ranges, pairs and
\* products of sampled_local_proofs.py, which are written a second time beside the
\* compiler; and the proof of a claim whose wires satisfy them is accepted, whatever
\* the challenge.
AuditAccepts ==
  /\ who = "honest" /\ pc = "done" =>
       \E cs \in {Claims_(case)}, fs \in {FormsOf(case)} :
         \A n \in DOMAIN cs : has_materialized_proof(cs[n]) => BlockHolds(cs[n], fs[n])
  /\ pc = "checked" /\ proof.how = "honest" => (BlockHolds(Claim, FormOf_) => accepted)

\* A proof that is accepted under every challenge is one of wires that satisfy the
\* claim's relations, and is the prover's own message: neither a mask, admitted or
\* not, nor a round chosen for a coin known beforehand makes up for a wire, and no
\* part of a message can be left out, replayed or changed.
ProofsAreBound ==
  pc = "checked" /\ accepted => proof.how \notin {"masked", "altered"} /\ BlockHolds(Claim, FormOf_)

Found ==
  [v \in {cellsOf[n] : n \in DOMAIN cellsOf} |->
     LET n == CHOOSE n \in DOMAIN cellsOf : cellsOf[n] = v IN [i \in 0 .. v.len - 1 |-> Value(<<n, i>>)]]
LOCAL MeansAll(w) == \A c \in ToSet(Claims_(case)) : Means(c, w)
\* The committed inputs determine the result: whatever rows satisfy the
\* constraints and the lookups of a claim, they mean what the claim promises.  No
\* carry, wrap around the prime, free selector or unranged word leaves a second
\* result.
Pinned ==
  who = "any" /\ pc = "done" => MeansAll(Found @@ input)

\* So do the relations that the one-pass audit checks in their place: a block whose
\* local proof is accepted holds what its claim promises
\* (sampled_local_proofs.py:_relation_terms and the range items of each claim).
AuditPinned ==
  who = "audited" /\ pc = "done" => MeansAll(Found @@ input)
=============================================================================
