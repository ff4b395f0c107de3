------------------------------ MODULE Tape_proofs ------------------------------
(***************************************************************************)
(* Facts about recorded tapes that the proofs about the streaming prover   *)
(* and about the sampled audit share, and the two principles of arithmetic *)
(* they rest on: a set of natural numbers has a least element, and a       *)
(* bounded one a greatest.  From these follows what SumOf adds up.         *)
(***************************************************************************)
EXTENDS Tape, FiniteSetTheorems, WellFoundedInduction, TLAPS

\* The order of the natural numbers is well founded, so a set of them has a least
\* element.
LEMMA LeastElement ==
  ASSUME NEW T, T \subseteq Nat, T # {}
  PROVE  \E m \in T : \A k \in T : m <= k
<1> DEFINE R == OpToRel(<, Nat)
<1>1. IsWellFoundedOn(R, Nat)
  BY NatLessThanWellFounded
<1> HIDE DEF R
<1>2. PICK m \in T : \A k \in T : ~(<<k, m>> \in R)
  BY <1>1, WFMin
<1>3. \A k, j \in Nat : k < j => <<k, j>> \in R
  BY DEF R, OpToRel
<1>4. ASSUME NEW k \in T PROVE m <= k
  <2>1. m \in Nat /\ k \in Nat /\ ~(k < m)
    BY <1>2, <1>3
  <2> QED BY <2>1
<1> QED BY <1>4

\* A set that holds 0 and with each number the next one holds them all.
LEMMA NatIsLeast ==
  ASSUME NEW S, 0 \in S, \A k \in Nat : k \in S => k + 1 \in S
  PROVE  Nat \subseteq S
<1> DEFINE T == Nat \ S
<1>1. CASE T # {}
  <2>1. PICK m \in T : \A k \in T : m <= k
    BY <1>1, LeastElement
  <2>2. m \in Nat /\ m # 0 /\ m - 1 \in Nat
    BY <2>1
  <2>3. m - 1 \in S
    BY <2>1, <2>2
  <2>4. (m - 1) + 1 \in S
    BY <2>2, <2>3
  <2> QED BY <2>2, <2>4
<1> QED BY <1>1

\* Max of a bounded set of natural numbers is its greatest element.
LEMMA MaxIsGreatest ==
  ASSUME NEW S, S \subseteq Nat, S # {}, NEW b \in Nat, \A s \in S : s <= b
  PROVE  Max(S) \in S /\ \A s \in S : s <= Max(S)
<1> DEFINE T == {m \in Nat : \A s \in S : s <= m}
<1>1. PICK m \in T : \A k \in T : m <= k
  <2>1. b \in T
    OBVIOUS
  <2> QED BY <2>1, LeastElement
<1>2. m \in S
  <2> SUFFICES ASSUME m \notin S PROVE FALSE
    OBVIOUS
  <2>1. PICK s \in S : TRUE
    OBVIOUS
  <2>2. m \in Nat /\ s \in Nat /\ s <= m /\ s # m
    BY <1>1
  <2>3. m - 1 \in Nat /\ ~(m <= m - 1)
    BY <2>2
  <2>4. ASSUME NEW u \in S PROVE u <= m - 1
    <3>1. u \in Nat /\ u <= m /\ u # m
      BY <1>1
    <3> QED BY <2>2, <3>1
  <2> QED BY <1>1, <2>3, <2>4
<1>3. \A s \in S : m >= s
  BY <1>1
<1>4. Max(S) \in S /\ \A s \in S : Max(S) >= s
  BY <1>2, <1>3 DEF Max
<1>5. ASSUME NEW s \in S PROVE s <= Max(S)
  <2>1. Max(S) \in Nat /\ s \in Nat /\ Max(S) >= s
    BY <1>4
  <2> QED BY <2>1
<1> QED BY <1>4, <1>5
--------------------------------------------------------------------------------
(***************************************************************************)
(* Sums.  SumOf is a recursion over the subsets of a set, in the order in  *)
(* which CHOOSE names their elements; the lemmas first give it a function  *)
(* that satisfies the recursion, and then show that the order is immaterial.*)
(***************************************************************************)
\* A function that satisfies the recursion by which SumOf adds up.
Pick(s) == CHOOSE x \in s : TRUE
Adds(f, T, g) ==
  g = [s \in T |-> IF s = {} THEN 0 ELSE f[Pick(s)] + g[s \ {Pick(s)}]]

\* What a sum is depends on no choice of the function that adds it up.
LEMMA SumIsAdded ==
  ASSUME NEW f, NEW S, \E g : Adds(f, SUBSET S, g)
  PROVE  \E g : Adds(f, SUBSET S, g) /\ SumOf(f, S) = g[S]
<1> DEFINE h == CHOOSE g : Adds(f, SUBSET S, g)
<1>1. Adds(f, SUBSET S, h)
  OBVIOUS
<1>2. SumOf(f, S) = h[S]
  BY DEF SumOf, MapThenSumSet, MapThenFoldSet, Adds, Pick
<1> QED BY <1>1, <1>2

\* Taking an element out of a finite set.
LEMMA OneLess ==
  ASSUME NEW S, IsFiniteSet(S), NEW x \in S
  PROVE  /\ IsFiniteSet(S \ {x}) /\ Cardinality(S) \in Nat \ {0}
         /\ Cardinality(S \ {x}) = Cardinality(S) - 1
<1>1. IsFiniteSet(S \ {x}) /\ Cardinality(S \ {x}) = Cardinality(S) - 1
  BY FS_RemoveElement
<1>2. Cardinality(S) \in Nat /\ Cardinality(S) # 0
  BY FS_EmptySet, FS_CardinalityType
<1> QED BY <1>1, <1>2

\* There is such a function over a finite set: over its subsets of at most k
\* elements, for each k in turn.
LEMMA SomethingAdds ==
  ASSUME NEW f, NEW S, IsFiniteSet(S)
  PROVE  \E g : Adds(f, SUBSET S, g)
<1> DEFINE T(k) == {s \in SUBSET S : Cardinality(s) <= k}
           K == {k \in Nat : \E g : Adds(f, T(k), g)}
<1>0. \A s \in SUBSET S : IsFiniteSet(s) /\ Cardinality(s) \in Nat
  BY FS_Subset, FS_CardinalityType
<1>1. 0 \in K
  <2> DEFINE g == [s \in T(0) |-> 0]
  <2>1. \A s \in T(0) : s = {}
    BY <1>0, FS_EmptySet
  <2>2. Adds(f, T(0), g)
    BY <2>1 DEF Adds
  <2> QED BY <2>2
<1>2. ASSUME NEW k \in Nat, k \in K PROVE k + 1 \in K
  <2>1. PICK g : Adds(f, T(k), g)
    BY <1>2
  <2> DEFINE h == [s \in T(k + 1) |-> IF s = {} THEN 0 ELSE f[Pick(s)] + g[s \ {Pick(s)}]]
  <2>2. ASSUME NEW s \in T(k + 1), s # {}
        PROVE  s \ {Pick(s)} \in T(k) /\ s \ {Pick(s)} \in T(k + 1)
    <3>1. Pick(s) \in s
      BY <2>2 DEF Pick
    <3>2. Cardinality(s \ {Pick(s)}) = Cardinality(s) - 1 /\ Cardinality(s) \in Nat
      BY <1>0, <3>1, OneLess
    <3>3. s \ {Pick(s)} \in SUBSET S
      OBVIOUS
    <3> QED BY <3>2, <3>3
  <2>3. ASSUME NEW s \in T(k), s \in T(k + 1) PROVE h[s] = g[s]
    BY <2>1, <2>3 DEF Adds
  <2>4. \A s \in T(k + 1) : s # {} => h[s \ {Pick(s)}] = g[s \ {Pick(s)}]
    BY <2>2, <2>3
  <2>5. Adds(f, T(k + 1), h)
    <3>1. \A s \in T(k + 1) : h[s] = IF s = {} THEN 0 ELSE f[Pick(s)] + g[s \ {Pick(s)}]
      OBVIOUS
    <3>2. h = [s \in T(k + 1) |-> h[s]]
      OBVIOUS
    <3> HIDE DEF h
    <3> QED BY <2>4, <3>1, <3>2 DEF Adds
  <2> HIDE DEF h, T
  <2> QED BY <2>5
<1> HIDE DEF K
<1>3. Nat \subseteq K
  BY <1>1, <1>2, NatIsLeast
<1>4. Cardinality(S) \in Nat /\ T(Cardinality(S)) = SUBSET S
  <2>1. \A s \in SUBSET S : Cardinality(s) <= Cardinality(S)
    BY FS_Subset
  <2> QED BY <2>1, FS_CardinalityType
<1> HIDE DEF T
<1> QED BY <1>3, <1>4 DEF K

\* Two such functions, over a set and a part of it, agree on the part.
LEMMA AddsAgree ==
  ASSUME NEW f, NEW S, NEW R, NEW g, NEW h, IsFiniteSet(S), R \subseteq S,
         Adds(f, SUBSET S, g), Adds(f, SUBSET R, h)
  PROVE  g[R] = h[R]
<1> DEFINE K == {k \in Nat : \A s \in SUBSET R : Cardinality(s) = k => g[s] = h[s]}
<1>0. \A s \in SUBSET R : IsFiniteSet(s) /\ Cardinality(s) \in Nat /\ s \in SUBSET S
  BY FS_Subset, FS_CardinalityType
<1>1. 0 \in K
  <2>1. \A s \in SUBSET R : Cardinality(s) = 0 => s = {}
    BY <1>0, FS_EmptySet
  <2>2. g[{}] = 0 /\ h[{}] = 0
    BY DEF Adds
  <2> QED BY <2>1, <2>2
<1>2. ASSUME NEW k \in Nat, k \in K PROVE k + 1 \in K
  <2> SUFFICES ASSUME NEW s \in SUBSET R, Cardinality(s) = k + 1 PROVE g[s] = h[s]
    OBVIOUS
  <2>1. s # {}
    BY <1>0, FS_EmptySet
  <2>2. Pick(s) \in s
    BY <2>1 DEF Pick
  <2>3. Cardinality(s \ {Pick(s)}) = k /\ s \ {Pick(s)} \in SUBSET R
    BY <1>0, <2>2, OneLess
  <2>4. g[s \ {Pick(s)}] = h[s \ {Pick(s)}]
    BY <1>2, <2>3
  <2>5. g[s] = f[Pick(s)] + g[s \ {Pick(s)}]
    BY <2>1 DEF Adds
  <2>6. h[s] = f[Pick(s)] + h[s \ {Pick(s)}]
    BY <2>1 DEF Adds
  <2> QED BY <2>4, <2>5, <2>6
<1> HIDE DEF K
<1>3. Nat \subseteq K
  BY <1>1, <1>2, NatIsLeast
<1> QED BY <1>0, <1>3 DEF K

\* A sum is its picked element and the sum of the rest.
LEMMA SumIsPick ==
  ASSUME NEW f, NEW S, IsFiniteSet(S)
  PROVE  /\ S = {} => SumOf(f, S) = 0
         /\ S # {} => SumOf(f, S) = f[Pick(S)] + SumOf(f, S \ {Pick(S)})
<1>1. PICK g : Adds(f, SUBSET S, g) /\ SumOf(f, S) = g[S]
  BY SomethingAdds, SumIsAdded
<1>2. CASE S = {}
  BY <1>1, <1>2 DEF Adds
<1>3. CASE S # {}
  <2>0. PICK R : R = S \ {Pick(S)}
    OBVIOUS
  <2>1. Pick(S) \in S /\ IsFiniteSet(R) /\ R \subseteq S
    BY <1>3, <2>0, OneLess DEF Pick
  <2>2. PICK h : Adds(f, SUBSET R, h) /\ SumOf(f, R) = h[R]
    BY <2>1, SomethingAdds, SumIsAdded
  <2>3. g[R] = h[R]
    <3>1. Adds(f, SUBSET S, g)
      BY <1>1
    <3>2. Adds(f, SUBSET R, h)
      BY <2>2
    <3>3. R \subseteq S /\ IsFiniteSet(S)
      BY <2>1
    <3> QED BY ONLY <3>1, <3>2, <3>3, AddsAgree
  <2>4. g[S] = f[Pick(S)] + g[S \ {Pick(S)}]
    BY <1>1, <1>3 DEF Adds
  <2> QED BY <1>1, <1>3, <2>0, <2>2, <2>3, <2>4
<1> QED BY <1>2, <1>3

\* A sum of integers is one, by induction over the size of the set, as below.
LEMMA SumInt ==
  ASSUME NEW f, NEW S, IsFiniteSet(S), \A v \in S : f[v] \in Int
  PROVE  SumOf(f, S) \in Int
<1> DEFINE K == {k \in Nat : \A s \in SUBSET S : Cardinality(s) = k => SumOf(f, s) \in Int}
<1>0. \A s \in SUBSET S : IsFiniteSet(s) /\ Cardinality(s) \in Nat
  BY FS_Subset, FS_CardinalityType
<1>1. 0 \in K
  BY <1>0, FS_EmptySet, SumIsPick
<1>2. ASSUME NEW k \in Nat, k \in K PROVE k + 1 \in K
  <2> SUFFICES ASSUME NEW s \in SUBSET S, Cardinality(s) = k + 1 PROVE SumOf(f, s) \in Int
    OBVIOUS
  <2>1. s # {} /\ Pick(s) \in s
    BY <1>0, FS_EmptySet DEF Pick
  <2>2. Cardinality(s \ {Pick(s)}) = k /\ s \ {Pick(s)} \in SUBSET S
    BY <1>0, <2>1, OneLess
  <2>3. SumOf(f, s \ {Pick(s)}) \in Int /\ f[Pick(s)] \in Int
    BY <1>2, <2>1, <2>2
  <2>4. SumOf(f, s) = f[Pick(s)] + SumOf(f, s \ {Pick(s)})
    BY <1>0, <2>1, SumIsPick
  <2> QED BY <2>3, <2>4
<1> HIDE DEF K
<1>3. Nat \subseteq K
  BY <1>1, <1>2, NatIsLeast
<1> QED BY <1>0, <1>3 DEF K

\* A sum does not depend on where it starts.
LEMMA SumTake ==
  ASSUME NEW f, NEW S, IsFiniteSet(S), \A v \in S : f[v] \in Int, NEW x \in S
  PROVE  SumOf(f, S) = f[x] + SumOf(f, S \ {x})
<1> DEFINE K == {k \in Nat : \A s \in SUBSET S : \A e \in s :
                   Cardinality(s) = k => SumOf(f, s) = f[e] + SumOf(f, s \ {e})}
<1>0. \A s \in SUBSET S : IsFiniteSet(s) /\ Cardinality(s) \in Nat
  BY FS_Subset, FS_CardinalityType
<1>1. 0 \in K
  BY <1>0, FS_EmptySet
<1>2. ASSUME NEW k \in Nat, k \in K PROVE k + 1 \in K
  <2> SUFFICES ASSUME NEW s \in SUBSET S, NEW e \in s, Cardinality(s) = k + 1
               PROVE SumOf(f, s) = f[e] + SumOf(f, s \ {e})
    OBVIOUS
  <2> DEFINE c == Pick(s)
  <2>1. c \in s /\ s # {}
    BY DEF Pick
  <2>2. SumOf(f, s) = f[c] + SumOf(f, s \ {c})
    BY <1>0, <2>1, SumIsPick
  <2>3. CASE e = c
    BY <2>2, <2>3
  <2>4. CASE e # c
    <3> HIDE DEF c
    <3>1. /\ Cardinality(s \ {c}) = k /\ s \ {c} \in SUBSET S /\ e \in s \ {c}
          /\ Cardinality(s \ {e}) = k /\ s \ {e} \in SUBSET S /\ c \in s \ {e}
      BY <1>0, <2>1, <2>4, OneLess
    <3>2. SumOf(f, s \ {c}) = f[e] + SumOf(f, (s \ {c}) \ {e})
      BY <1>2, <3>1
    <3>3. SumOf(f, s \ {e}) = f[c] + SumOf(f, (s \ {e}) \ {c})
      BY <1>2, <3>1
    <3>4. (s \ {c}) \ {e} = (s \ {e}) \ {c}
      OBVIOUS
    <3>5. SumOf(f, (s \ {e}) \ {c}) \in Int /\ f[c] \in Int /\ f[e] \in Int
      <4>1. (s \ {e}) \ {c} \in SUBSET S
        OBVIOUS
      <4> QED BY <1>0, <2>1, <4>1, SumInt
    <3>6. \A p, q, r \in Int : p + (q + r) = q + (p + r)
      OBVIOUS
    <3> DEFINE rest == SumOf(f, (s \ {e}) \ {c})
    <3>7. SumOf(f, s) = f[c] + (f[e] + rest)
      BY <2>2, <3>2, <3>4
    <3>8. f[c] + (f[e] + rest) = f[e] + (f[c] + rest)
      BY <3>5, <3>6
    <3> QED BY <3>3, <3>7, <3>8
  <2> QED BY <2>3, <2>4
<1> HIDE DEF K
<1>3. Nat \subseteq K
  BY <1>1, <1>2, NatIsLeast
<1> QED BY <1>0, <1>3 DEF K

\* It depends on nothing but the values over the set.
LEMMA SumSame ==
  ASSUME NEW f, NEW g, NEW S, IsFiniteSet(S), \A v \in S : f[v] = g[v]
  PROVE  SumOf(f, S) = SumOf(g, S)
<1> DEFINE K == {k \in Nat : \A s \in SUBSET S : Cardinality(s) = k => SumOf(f, s) = SumOf(g, s)}
<1>0. \A s \in SUBSET S : IsFiniteSet(s) /\ Cardinality(s) \in Nat
  BY FS_Subset, FS_CardinalityType
<1>1. 0 \in K
  BY <1>0, FS_EmptySet, SumIsPick
<1>2. ASSUME NEW k \in Nat, k \in K PROVE k + 1 \in K
  <2> SUFFICES ASSUME NEW s \in SUBSET S, Cardinality(s) = k + 1 PROVE SumOf(f, s) = SumOf(g, s)
    OBVIOUS
  <2>1. s # {} /\ Pick(s) \in s
    BY <1>0, FS_EmptySet DEF Pick
  <2>2. Cardinality(s \ {Pick(s)}) = k /\ s \ {Pick(s)} \in SUBSET S
    BY <1>0, <2>1, OneLess
  <2>3. SumOf(f, s \ {Pick(s)}) = SumOf(g, s \ {Pick(s)})
    BY <1>2, <2>2
  <2>4. SumOf(f, s) = f[Pick(s)] + SumOf(f, s \ {Pick(s)})
    BY <1>0, <2>1, SumIsPick
  <2>5. SumOf(g, s) = g[Pick(s)] + SumOf(g, s \ {Pick(s)})
    BY <1>0, <2>1, SumIsPick
  <2> QED BY <2>1, <2>3, <2>4, <2>5
<1> HIDE DEF K
<1>3. Nat \subseteq K
  BY <1>1, <1>2, NatIsLeast
<1> QED BY <1>0, <1>3 DEF K

\* The sum over two disjoint sets together.
LEMMA SumUnion ==
  ASSUME NEW f, NEW A, NEW B, IsFiniteSet(A), IsFiniteSet(B), A \cap B = {},
         \A v \in A \cup B : f[v] \in Int
  PROVE  SumOf(f, A \cup B) = SumOf(f, A) + SumOf(f, B)
<1> DEFINE K == {k \in Nat : \A s \in SUBSET B : Cardinality(s) = k =>
                               SumOf(f, A \cup s) = SumOf(f, A) + SumOf(f, s)}
<1>0. \A s \in SUBSET B : /\ IsFiniteSet(s) /\ Cardinality(s) \in Nat /\ IsFiniteSet(A \cup s)
                          /\ SumOf(f, s) \in Int
  <2> SUFFICES ASSUME NEW s \in SUBSET B
               PROVE /\ IsFiniteSet(s) /\ Cardinality(s) \in Nat /\ IsFiniteSet(A \cup s)
                     /\ SumOf(f, s) \in Int
    OBVIOUS
  <2>1. IsFiniteSet(s)
    BY FS_Subset
  <2> QED BY <2>1, FS_CardinalityType, FS_Union, SumInt
<1>9. SumOf(f, A) \in Int
  BY SumInt
<1>1. 0 \in K
  <2> SUFFICES ASSUME NEW s \in SUBSET B, Cardinality(s) = 0
               PROVE SumOf(f, A \cup s) = SumOf(f, A) + SumOf(f, s)
    OBVIOUS
  <2>1. s = {} /\ A \cup s = A
    BY <1>0, FS_EmptySet
  <2>2. SumOf(f, s) = 0
    BY <1>0, <2>1, SumIsPick
  <2>3. \A p \in Int : p = p + 0
    OBVIOUS
  <2> QED BY <1>9, <2>1, <2>2, <2>3
<1>2. ASSUME NEW k \in Nat, k \in K PROVE k + 1 \in K
  <2> SUFFICES ASSUME NEW s \in SUBSET B, Cardinality(s) = k + 1
               PROVE SumOf(f, A \cup s) = SumOf(f, A) + SumOf(f, s)
    OBVIOUS
  <2>1. PICK e : e \in s
    BY <1>0, FS_EmptySet
  <2>7. IsFiniteSet(s) /\ IsFiniteSet(A \cup s) /\ e \in A \cup s /\ A \cup s \subseteq A \cup B
    BY <1>0, <2>1
  <2>2. Cardinality(s \ {e}) = k /\ s \ {e} \in SUBSET B /\ (A \cup s) \ {e} = A \cup (s \ {e})
    <3>1. Cardinality(s \ {e}) = k
      BY <2>1, <2>7, OneLess
    <3> QED BY <2>1, <3>1
  <2>3. SumOf(f, A \cup (s \ {e})) = SumOf(f, A) + SumOf(f, s \ {e})
    BY <1>2, <2>2
  <2>4. SumOf(f, s) = f[e] + SumOf(f, s \ {e})
    BY <2>1, <2>7, SumTake
  <2>5. SumOf(f, A \cup s) = f[e] + SumOf(f, (A \cup s) \ {e})
    BY <2>7, SumTake
  <2>6. SumOf(f, s \ {e}) \in Int /\ f[e] \in Int
    BY <1>0, <2>1, <2>2
  <2>8. SumOf(f, A \cup s) = f[e] + (SumOf(f, A) + SumOf(f, s \ {e}))
    BY <2>2, <2>3, <2>5
  <2>9. \A p, q, r \in Int : p + (q + r) = q + (p + r)
    OBVIOUS
  <2>10. f[e] + (SumOf(f, A) + SumOf(f, s \ {e})) = SumOf(f, A) + (f[e] + SumOf(f, s \ {e}))
    BY <1>9, <2>6, <2>9
  <2> QED BY <2>4, <2>8, <2>10
<1> HIDE DEF K
<1>3. Nat \subseteq K
  BY <1>1, <1>2, NatIsLeast
<1> QED BY <1>0, <1>3 DEF K
--------------------------------------------------------------------------------
(***************************************************************************)
(* Tapes                                                                   *)
(***************************************************************************)
\* The variables of a tape are all different.
LEMMA DistinctVars ==
  /\ \A i, j : Y(i) = Y(j) => i = j
  /\ \A i : Y(i) # X
  BY DEF X, Y

\* The claims of a tape are typed, and read only what was written before.
LEMMA TapeFacts ==
  ASSUME NEW t, IsTape(t)
  PROVE  /\ Len(t) \in Nat /\ DOMAIN t = 1..Len(t)
         /\ \A j \in DOMAIN t :
              /\ t[j] \in Claim(Len(t))
              /\ t[j].ivars \subseteq {X} \cup {Y(k) : k \in 1..Len(t)}
              /\ t[j].operands \subseteq {X} \cup {Y(k) : k \in 1..Len(t)}
              /\ \A k \in DOMAIN t : Y(k) \in t[j].ivars \cup t[j].operands => k < j
              /\ t[j].kind = "fold" => t[j].mask \in t[j].ivars
<1>1. t \in Seq(Claim(Len(t)))
  BY DEF IsTape
<1>2. Len(t) \in Nat /\ DOMAIN t = 1..Len(t)
  BY <1>1
<1>3. ASSUME NEW j \in DOMAIN t
      PROVE  /\ t[j] \in Claim(Len(t))
             /\ t[j].ivars \subseteq {X} \cup {Y(k) : k \in 1..Len(t)}
             /\ t[j].operands \subseteq {X} \cup {Y(k) : k \in 1..Len(t)}
  <2>1. t[j] \in Claim(Len(t))
    BY <1>1, <1>2
  <2> QED BY <2>1 DEF Claim
<1> QED BY <1>2, <1>3 DEF IsTape

\* A value that one fold absorbs and nothing else reads is in no other claim's
\* inputs, is not that fold's mask, and no quad has it as an operand.
LEMMA OnlyConsumerFacts ==
  ASSUME NEW t, IsTape(t), NEW v, NEW f, OnlyConsumer(t, v, f)
  PROVE  /\ f \in DOMAIN t /\ t[f].kind = "fold" /\ v # t[f].mask
         /\ \A j \in DOMAIN t : v \in t[j].ivars => j = f
         /\ \A j \in DOMAIN t : v \notin t[j].operands
<1>1. f \in DOMAIN t /\ v \in Foldable(t, f)
  BY DEF OnlyConsumer, Absorbers
<1>2. t[f].kind = "fold" /\ v # t[f].mask
  BY <1>1 DEF Foldable
<1>3. \A j \in DOMAIN t : v \in t[j].ivars => j = f
  BY DEF OnlyConsumer, Consumers
<1>4. \A j \in DOMAIN t : v \notin t[j].operands
  BY <1>1 DEF IsTape
<1> QED BY <1>1, <1>2, <1>3, <1>4

\* A fold that alone absorbs the output of claim j comes after j, and its mask
\* was there before j.
LEMMA LoneAbsorber ==
  ASSUME NEW t, IsTape(t), NEW j \in DOMAIN t, NEW f, Absorbers(t, Y(j)) = {f}
  PROVE  /\ f \in DOMAIN t /\ t[f].kind = "fold" /\ j < f
         /\ t[f].mask \in t[f].ivars
         /\ t[f].mask = X \/ \E k \in DOMAIN t : t[f].mask = Y(k) /\ k < j
<1>1. f \in DOMAIN t /\ Y(j) \in Foldable(t, f)
  BY DEF Absorbers
<1>2. t[f].kind = "fold" /\ Y(j) \in t[f].ivars
  BY <1>1 DEF Foldable
<1>3. j < f /\ t[f].mask \in t[f].ivars
  BY <1>1, <1>2, TapeFacts
<1>4. t[f].mask = X \/ \E k \in DOMAIN t : t[f].mask = Y(k)
  BY <1>1, <1>3, TapeFacts
<1>5. \A k \in DOMAIN t : t[f].mask = Y(k) => k < j
  BY <1>1, <1>2 DEF IsTape
<1> QED BY <1>1, <1>2, <1>3, <1>4, <1>5
--------------------------------------------------------------------------------
\* Joining what each claim contributes is well defined: nothing up to claim 0, and
\* a claim's share appended to what came before it.
LEMMA JoinedIs ==
  ASSUME NEW each, NEW n \in Nat
  PROVE  /\ Joined(each, n)[0] = << >>
         /\ \A i \in 1..n : Joined(each, n)[i] = Joined(each, n)[i - 1] \o each[i]
<1> DEFINE Joins(g, k) == g = [i \in 0..k |-> IF i = 0 THEN << >> ELSE g[i - 1] \o each[i]]
           K == {k \in Nat : \E g : Joins(g, k)}
<1>1. 0 \in K
  <2> DEFINE g == [i \in 0..0 |-> << >>]
  <2>1. \A i \in 0..0 : i = 0
    OBVIOUS
  <2>2. Joins(g, 0)
    BY <2>1
  <2> HIDE DEF g
  <2> QED BY <2>2
<1>9. ASSUME NEW g, NEW k \in Nat, Joins(g, k), NEW i \in 0..k
      PROVE  g[i] = IF i = 0 THEN << >> ELSE g[i - 1] \o each[i]
  <2> DEFINE e(j) == IF j = 0 THEN << >> ELSE g[j - 1] \o each[j]
  <2>1. g = [j \in 0..k |-> e(j)]
    BY <1>9
  <2> HIDE DEF e, Joins
  <2>2. g[i] = e(i)
    BY <2>1
  <2> QED BY <2>2 DEF e
<1>2. ASSUME NEW k \in Nat, k \in K PROVE k + 1 \in K
  <2>1. PICK g : Joins(g, k)
    BY <1>2
  <2> DEFINE h == [i \in 0..(k + 1) |-> IF i = 0 THEN << >> ELSE g[i - 1] \o each[i]]
  <2> HIDE DEF Joins
  <2>2. \A i \in 0..k : h[i] = g[i]
    <3>1. \A i \in 0..k : i \in 0..(k + 1)
      OBVIOUS
    <3> QED BY <1>9, <2>1, <3>1
  <2>3. \A i \in 0..(k + 1) : i # 0 => i - 1 \in 0..k
    OBVIOUS
  <2>4. h = [i \in 0..(k + 1) |-> h[i]]
    OBVIOUS
  <2>5. \A i \in 0..(k + 1) : h[i] = IF i = 0 THEN << >> ELSE g[i - 1] \o each[i]
    OBVIOUS
  <2> HIDE DEF h
  <2>6. \A i \in 0..(k + 1) : h[i] = IF i = 0 THEN << >> ELSE h[i - 1] \o each[i]
    BY <2>2, <2>3, <2>5
  <2>7. Joins(h, k + 1)
    BY <2>4, <2>6 DEF Joins
  <2> QED BY <2>7
<1>8. Joined(each, n) = CHOOSE g : Joins(g, n)
  BY DEF Joined
<1> HIDE DEF K, Joins
<1>3. Nat \subseteq K
  BY <1>1, <1>2, NatIsLeast
<1>4. PICK g : Joins(g, n)
  BY <1>3 DEF K
<1>5. Joins(Joined(each, n), n)
  BY <1>4, <1>8
<1>6. 0 \in 0..n /\ \A i \in 1..n : i \in 0..n /\ i # 0
  OBVIOUS
<1> QED BY <1>5, <1>6, <1>9
--------------------------------------------------------------------------------
(* Flattening.                                                             *)

\* Flattening appends one sequence after the other.
Flattened(s, n) ==
  LET flat[i \in 1..n] == IF i = 1 THEN s[i] ELSE flat[i - 1] \o s[i] IN flat

\* Each is the one before with the next sequence appended.
LEMMA FlattenedIs ==
  ASSUME NEW s, NEW n \in Nat \ {0}
  PROVE  /\ Flattened(s, n)[1] = s[1]
         /\ \A i \in 1..(n - 1) : Flattened(s, n)[i + 1] = Flattened(s, n)[i] \o s[i + 1]
<1> DEFINE Flat(g, k) == g = [i \in 1..k |-> IF i = 1 THEN s[i] ELSE g[i - 1] \o s[i]]
           K == {k \in Nat : \E g : Flat(g, k)}
<1>1. 0 \in K
  <2> DEFINE g == [i \in 1..0 |-> s[i]]
  <2>1. Flat(g, 0)
    OBVIOUS
  <2> HIDE DEF g
  <2> QED BY <2>1
<1>2. ASSUME NEW g, NEW k \in Nat, Flat(g, k), NEW i \in 1..k
      PROVE  g[i] = IF i = 1 THEN s[i] ELSE g[i - 1] \o s[i]
  <2> DEFINE e(j) == IF j = 1 THEN s[j] ELSE g[j - 1] \o s[j]
  <2>1. g = [j \in 1..k |-> e(j)]
    BY <1>2
  <2> HIDE DEF e, Flat
  <2>2. g[i] = e(i)
    BY <2>1
  <2> QED BY <2>2 DEF e
<1>3. ASSUME NEW k \in Nat, k \in K PROVE k + 1 \in K
  <2>1. PICK g : Flat(g, k)
    BY <1>3
  <2> DEFINE h == [i \in 1..(k + 1) |-> IF i = 1 THEN s[i] ELSE g[i - 1] \o s[i]]
  <2> HIDE DEF Flat
  <2>2. \A i \in 1..k : h[i] = g[i]
    <3>1. \A i \in 1..k : i \in 1..(k + 1)
      OBVIOUS
    <3> QED BY <1>2, <2>1, <3>1
  <2>3. \A i \in 1..(k + 1) : i # 1 => i - 1 \in 1..k
    OBVIOUS
  <2>4. h = [i \in 1..(k + 1) |-> h[i]]
    OBVIOUS
  <2>5. \A i \in 1..(k + 1) : h[i] = IF i = 1 THEN s[i] ELSE g[i - 1] \o s[i]
    OBVIOUS
  <2> HIDE DEF h
  <2>6. \A i \in 1..(k + 1) : h[i] = IF i = 1 THEN s[i] ELSE h[i - 1] \o s[i]
    BY <2>2, <2>3, <2>5
  <2>7. Flat(h, k + 1)
    BY <2>4, <2>6 DEF Flat
  <2> QED BY <2>7
<1> DEFINE f == Flattened(s, n)
<1>4. f = CHOOSE g : Flat(g, n)
  BY DEF Flattened
<1> HIDE DEF K, Flat
<1>5. Nat \subseteq K
  BY <1>1, <1>3, NatIsLeast
<1>6. PICK g : Flat(g, n)
  BY <1>5 DEF K
<1>7. Flat(f, n)
  BY <1>4, <1>6
<1>8. 1 \in 1..n /\ \A i \in 1..(n - 1) : i + 1 \in 1..n /\ i + 1 # 1 /\ (i + 1) - 1 = i
  OBVIOUS
<1> HIDE DEF f
<1>9. f[1] = s[1] /\ \A i \in 1..(n - 1) : f[i + 1] = f[i] \o s[i + 1]
  BY <1>2, <1>7, <1>8
<1> QED BY <1>9 DEF f
================================================================================
