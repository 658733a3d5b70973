--------------------------- MODULE FiniteSums_proofs ---------------------------
(***************************************************************************)
(* What is proved by induction over finite sets and sequences, of the      *)
(* sampler, the memory plan and the single-rank programs.                  *)
(*                                                                         *)
(* Sums and products are functions on the subsets of a finite set          *)
(* (Folded), about which finite sets are enough: a set of sets that has    *)
(* every set all of whose smaller sets it has is all of them               *)
(* (FiniteInduction).  So a sum may be taken class by class (SumByClass)   *)
(* and elements counted fiber by fiber (CountFibers).                      *)
(*                                                                         *)
(* Speculative decoding never emits a token the target gives no            *)
(* probability to, and loses nothing of the target's distribution: for     *)
(* every vocabulary, gamma, pair of models and resolution of rng.random()  *)
(* that SamplerAssumption allows.  NothingIsLost, after j accepted drafts: *)
(* a token t is sampled from a row w by as many random numbers as its      *)
(* share of w (SampledOften), and a draft passes its test by min(p, q) out *)
(* of q of them (PassedOften).  All pairs of the next test and the bonus   *)
(* are equally frequent among the runs that accept j drafts (PairsAlike).  *)
(* The drafts that go on with y weigh as much as q says (ClassesWeigh), so *)
(* t is accepted min(p, q) times, and drawn after a rejection max(0, p - q)*)
(* times, in the same measure (GivingCounted, GivenInAll): p times in all  *)
(* (CountBefore).  When all drafts are accepted it is drawn from p itself  *)
(* (CountAtEnd).                                                           *)
(*                                                                         *)
(* The single-rank programs (BenchSuite): the buffers of n positions take  *)
(* n times those of one (PlanIsLinear), so that a budget divided by that   *)
(* slope is tight (BudgetIsTight); the weights of a validated checkpoint,  *)
(* added layer by layer, are the total of the plan (LoadedIsTotal).  The   *)
(* inductive invariant ProgramInv carries both from load_weights to the    *)
(* executor.  And their lists of calls, built by concatenating, repeating  *)
(* and flattening, are ways (Way) between outlines that bound the cursor   *)
(* and tell what the logits follow: one lemma for each way of building     *)
(* (WayJoins, WayFlat, WayRepeats), one for each call, and one for each    *)
(* program (GraphDecodeFits to SweepFits); CallsInv says that the calls    *)
(* left always are such a way.                                             *)
(***************************************************************************)
EXTENDS Sampler, BenchSuite, FiniteSetTheorems, SequenceTheorems, NaturalsInduction, TLAPS

-----------------------------------------------------------------------------
(* Induction *)

\* A set of natural numbers has a least element.
LEMMA LeastExists ==
    ASSUME NEW T, T \subseteq Nat, T # {}
    PROVE  \E x \in T : \A y \in T : x <= y
  <1>1. IsWellFoundedOn(OpToRel(<, Nat), Nat)
    BY NatLessThanWellFounded
  <1>2. PICK x \in T : \A y \in T : ~(<<y, x>> \in OpToRel(<, Nat))
    BY <1>1, WFMin
  <1>3. \A y \in T : ~(y < x)
    BY <1>2 DEF OpToRel
  <1> QED BY <1>3

LEMMA Fewer ==
    ASSUME NEW S, IsFiniteSet(S), NEW x \in S
    PROVE  /\ IsFiniteSet(S \ {x}) /\ Cardinality(S \ {x}) \in Nat /\ Cardinality(S) \in Nat
           /\ Cardinality(S \ {x}) = Cardinality(S) - 1 /\ Cardinality(S) > 0
  <1>1. Cardinality(S) \in Nat /\ IsFiniteSet(S \ {x}) /\ Cardinality(S \ {x}) = Cardinality(S) - 1
    BY FS_CardinalityType, FS_RemoveElement
  <1>2. Cardinality(S \ {x}) \in Nat
    BY <1>1, FS_CardinalityType
  <1> QED BY <1>1, <1>2

\* P is a set of sets: one that a set is in when all sets of one element less
\* are has every subset of S.
LEMMA FiniteInduction ==
    ASSUME NEW S, IsFiniteSet(S), NEW P, {} \in P,
           \A s \in SUBSET S : s # {} /\ (\A x \in s : s \ {x} \in P) => s \in P
    PROVE  \A s \in SUBSET S : s \in P
  <1> DEFINE T == {n \in Nat : \E s \in SUBSET S : Cardinality(s) = n /\ s \notin P}
  <1>1. T = {}
    <2>1. SUFFICES ASSUME T # {} PROVE FALSE
      OBVIOUS
    <2>2. PICK m \in T : \A n \in T : m <= n
      BY <2>1, LeastExists
    <2>3. PICK s \in SUBSET S : Cardinality(s) = m /\ s \notin P
      OBVIOUS
    <2>4. IsFiniteSet(s) /\ m \in Nat
      BY <2>3, FS_Subset
    <2>5. ASSUME NEW r \in SUBSET S, Cardinality(r) \in Nat, Cardinality(r) < m
          PROVE  r \in P
      BY <2>2, <2>4, <2>5
    <2>6. ASSUME NEW x \in s PROVE s \ {x} \in P
      <3>1. Cardinality(s \ {x}) \in Nat /\ Cardinality(s \ {x}) = Cardinality(s) - 1
        BY <2>4, Fewer
      <3>2. Cardinality(s \ {x}) < m /\ s \ {x} \in SUBSET S
        BY <2>3, <2>4, <3>1
      <3> QED BY <2>5, <3>1, <3>2
    <2>7. s # {}
      BY <2>3
    <2> QED BY <2>3, <2>6, <2>7
  <1>2. ASSUME NEW s \in SUBSET S PROVE s \in P
    <2>1. Cardinality(s) \in Nat
      BY FS_Subset, FS_CardinalityType
    <2> QED BY <1>1, <2>1
  <1> QED BY <1>2

-----------------------------------------------------------------------------
(* Folds of a commutative operation, given as a function *)

Picked(s) == CHOOSE x \in s : TRUE

LEMMA PickedIn == ASSUME NEW s, s # {} PROVE Picked(s) \in s
  BY DEF Picked

\* f combines the weights w over each subset of S, one element after another.
Folded(f, op, e, w, S) ==
    f = [s \in SUBSET S |-> IF s = {} THEN e ELSE op[<<w[Picked(s)], f[s \ {Picked(s)}]>>]]

Weights(w, S) == \A x \in S : w[x] \in Nat

\* The subsets of at most n elements are folded.
Reaches(f, op, e, w, S, n) ==
    /\ f = [s \in SUBSET S |-> f[s]]
    /\ \A s \in SUBSET S : Cardinality(s) <= n =>
           f[s] = IF s = {} THEN e ELSE op[<<w[Picked(s)], f[s \ {Picked(s)}]>>]

LEMMA ReachesMore ==
    ASSUME NEW S, IsFiniteSet(S), NEW op, NEW e, NEW w, NEW n \in Nat, NEW f,
           Reaches(f, op, e, w, S, n)
    PROVE  \E g : Reaches(g, op, e, w, S, n + 1)
  <1> DEFINE g == [s \in SUBSET S |-> IF s = {} THEN e ELSE op[<<w[Picked(s)], f[s \ {Picked(s)}]>>]]
  <1>1. \A s \in SUBSET S : Cardinality(s) <= n => g[s] = f[s]
    BY DEF Reaches
  <1>2. ASSUME NEW s \in SUBSET S, Cardinality(s) <= n + 1, s # {}
        PROVE  g[s] = op[<<w[Picked(s)], g[s \ {Picked(s)}]>>]
    <2>1. IsFiniteSet(s) /\ Picked(s) \in s
      BY <1>2, FS_Subset, PickedIn
    <2>2. s \ {Picked(s)} \in SUBSET S /\ Cardinality(s \ {Picked(s)}) <= n
      <3>1. Cardinality(s \ {Picked(s)}) = Cardinality(s) - 1 /\ Cardinality(s) \in Nat
        BY <2>1, Fewer
      <3> QED BY <3>1, <1>2
    <2>3. g[s \ {Picked(s)}] = f[s \ {Picked(s)}]
      BY <1>1, <2>2
    <2> QED BY <1>2, <2>3
  <1>3. g[{}] = e /\ g = [s \in SUBSET S |-> g[s]]
    OBVIOUS
  <1> HIDE DEF g
  <1>4. Reaches(g, op, e, w, S, n + 1)
    BY <1>2, <1>3 DEF Reaches
  <1> QED BY <1>4

LEMMA FoldExists ==
    ASSUME NEW S, IsFiniteSet(S), NEW op, NEW e, NEW w PROVE \E f : Folded(f, op, e, w, S)
  <1> DEFINE T == {n \in Nat : ~ \E f : Reaches(f, op, e, w, S, n)}
  <1>1. T = {}
    <2>1. SUFFICES ASSUME T # {} PROVE FALSE
      OBVIOUS
    <2>2. PICK m \in T : \A n \in T : m <= n
      BY <2>1, LeastExists
    <2>3. m \in Nat /\ ~ \E f : Reaches(f, op, e, w, S, m)
      OBVIOUS
    <2>4. m # 0
      <3>1. ASSUME NEW s \in SUBSET S, Cardinality(s) <= 0 PROVE s = {}
        <4>1. IsFiniteSet(s)
          BY FS_Subset
        <4>2. Cardinality(s) \in Nat
          BY <4>1, FS_CardinalityType
        <4>3. Cardinality(s) = 0
          BY <3>1, <4>2
        <4> QED BY <4>1, <4>3, FS_EmptySet
      <3>2. Reaches([s \in SUBSET S |-> e], op, e, w, S, 0)
        BY <3>1 DEF Reaches
      <3> QED BY <2>3, <3>2
    <2>5. m - 1 \in Nat /\ m - 1 \notin T
      BY <2>2, <2>3, <2>4
    <2>6. PICK f : Reaches(f, op, e, w, S, m - 1)
      BY <2>5
    <2>7. \E g : Reaches(g, op, e, w, S, (m - 1) + 1)
      BY <2>5, <2>6, ReachesMore
    <2>8. (m - 1) + 1 = m
      BY <2>3
    <2> QED BY <2>3, <2>7, <2>8
  <1>2. Cardinality(S) \in Nat
    BY FS_CardinalityType
  <1>3. PICK f : Reaches(f, op, e, w, S, Cardinality(S))
    BY <1>1, <1>2
  <1>4. \A s \in SUBSET S : Cardinality(s) <= Cardinality(S)
    BY FS_Subset
  <1>5. Folded(f, op, e, w, S)
    BY <1>3, <1>4 DEF Reaches, Folded
  <1> QED BY <1>5

\* Two folds agree where both are defined.
LEMMA FoldsAgree ==
    ASSUME NEW S, IsFiniteSet(S), NEW R, R \subseteq S, NEW op, NEW e, NEW w,
           NEW f, Folded(f, op, e, w, S), NEW g, Folded(g, op, e, w, R)
    PROVE  \A s \in SUBSET R : f[s] = g[s]
  <1> DEFINE P == {s \in SUBSET R : f[s] = g[s]}
  <1>1. IsFiniteSet(R)
    BY FS_Subset
  <1>2. {} \in P
    BY DEF Folded
  <1>3. ASSUME NEW s \in SUBSET R, s # {}, \A x \in s : s \ {x} \in P PROVE s \in P
    <2>1. Picked(s) \in s
      BY <1>3, PickedIn
    <2>2. f[s \ {Picked(s)}] = g[s \ {Picked(s)}]
      BY <1>3, <2>1
    <2>3. f[s] = op[<<w[Picked(s)], f[s \ {Picked(s)}]>>]
      BY <1>3 DEF Folded
    <2>4. g[s] = op[<<w[Picked(s)], g[s \ {Picked(s)}]>>]
      BY <1>3 DEF Folded
    <2> QED BY <2>2, <2>3, <2>4
  <1> HIDE DEF P
  <1>4. \A s \in SUBSET R : s \in P
    BY <1>1, <1>2, <1>3, FiniteInduction
  <1> QED BY <1>4 DEF P

Commutes(op) ==
    /\ op \in [Nat \X Nat -> Nat]
    /\ \A a, b, c \in Nat : op[<<a, op[<<b, c>>]>>] = op[<<b, op[<<a, c>>]>>]

\* A fold is a natural number, and any element can be taken out of it.
LEMMA FoldStep ==
    ASSUME NEW S, IsFiniteSet(S), NEW op, Commutes(op), NEW e \in Nat, NEW w, Weights(w, S),
           NEW f, Folded(f, op, e, w, S)
    PROVE  \A s \in SUBSET S : f[s] \in Nat /\ \A x \in s : f[s] = op[<<w[x], f[s \ {x}]>>]
  <1> DEFINE Good(s) == f[s] \in Nat /\ \A x \in s : f[s] = op[<<w[x], f[s \ {x}]>>]
             P == {s \in SUBSET S : \A r \in SUBSET s : Good(r)}
  <1>0. Good({})
    BY DEF Folded
  <1>1. {} \in P
    BY <1>0
  <1>2. ASSUME NEW s \in SUBSET S, s # {}, \A x \in s : s \ {x} \in P PROVE s \in P
    <2>1. ASSUME NEW r \in SUBSET s, r # s PROVE Good(r)
      <3>1. PICK x \in s : x \notin r
        BY <2>1
      <3>2. r \in SUBSET (s \ {x})
        BY <3>1
      <3> QED BY <1>2, <3>1, <3>2
    <2> DEFINE c == Picked(s)
    <2>2. c \in s /\ f[s] = op[<<w[c], f[s \ {c}]>>]
      BY <1>2, PickedIn DEF Folded
    <2> HIDE DEF c, P, Good
    <2>3. Good(s \ {c})
      BY <2>1, <2>2
    <2>4. w[c] \in Nat /\ f[s \ {c}] \in Nat
      BY <2>2, <2>3 DEF Good, Weights
    <2>5. f[s] \in Nat
      BY <2>2, <2>4 DEF Commutes
    <2>6. ASSUME NEW x \in s, x # c PROVE f[s] = op[<<w[x], f[s \ {x}]>>]
      <3> DEFINE r == (s \ {c}) \ {x}
      <3>1. Good(s \ {x}) /\ Good(r)
        BY <2>1, <2>2, <2>6
      <3>2. f[s \ {c}] = op[<<w[x], f[r]>>]
        BY <2>3, <2>6 DEF Good
      <3>3. (s \ {x}) \ {c} = r
        OBVIOUS
      <3>4. f[s \ {x}] = op[<<w[c], f[r]>>]
        BY <2>2, <2>6, <3>1, <3>3 DEF Good
      <3> HIDE DEF r
      <3>5. w[x] \in Nat /\ f[r] \in Nat
        BY <3>1 DEF Weights, Good
      <3>6. op[<<w[c], op[<<w[x], f[r]>>]>>] = op[<<w[x], op[<<w[c], f[r]>>]>>]
        BY <2>4, <3>5 DEF Commutes
      <3> QED BY <2>2, <3>2, <3>4, <3>6
    <2>7. Good(s)
      BY <2>2, <2>5, <2>6 DEF Good
    <2> QED BY <2>1, <2>7 DEF P
  <1> HIDE DEF Good
  <1>3. \A s \in SUBSET S : s \in P
    <2> HIDE DEF P
    <2> QED BY <1>1, <1>2, FiniteInduction
  <1>4. ASSUME NEW s \in SUBSET S PROVE Good(s)
    BY <1>3
  <1> QED BY <1>4 DEF Good

-----------------------------------------------------------------------------
(* Sums and products *)

Plus == [x \in Nat \X Nat |-> x[1] + x[2]]
Times == [x \in Nat \X Nat |-> x[1] * x[2]]

LEMMA PlusIs == Commutes(Plus) /\ \A a, b \in Nat : Plus[<<a, b>>] = a + b
  <1>1. \A a, b \in Nat : Plus[<<a, b>>] = a + b /\ a + b \in Nat
    BY DEF Plus
  <1>2. Plus \in [Nat \X Nat -> Nat]
    BY DEF Plus
  <1>3. ASSUME NEW a \in Nat, NEW b \in Nat, NEW c \in Nat
        PROVE  Plus[<<a, Plus[<<b, c>>]>>] = Plus[<<b, Plus[<<a, c>>]>>]
    <2>1. Plus[<<a, Plus[<<b, c>>]>>] = a + (b + c) /\ Plus[<<b, Plus[<<a, c>>]>>] = b + (a + c)
      BY <1>1
    <2> QED BY <2>1
  <1> QED BY <1>1, <1>2, <1>3 DEF Commutes

LEMMA ProductNat == ASSUME NEW a \in Nat, NEW b \in Nat PROVE a * b \in Nat
  OBVIOUS

LEMMA TimesIs == Commutes(Times) /\ \A a, b \in Nat : Times[<<a, b>>] = a * b
  <1>1. \A a, b \in Nat : Times[<<a, b>>] = a * b /\ a * b \in Nat
    BY ProductNat DEF Times
  <1>2. Times \in [Nat \X Nat -> Nat]
    <2>1. \A x \in Nat \X Nat : x[1] * x[2] \in Nat
      BY ProductNat
    <2> QED BY <2>1 DEF Times
  <1>3. ASSUME NEW a \in Nat, NEW b \in Nat, NEW c \in Nat
        PROVE  Times[<<a, Times[<<b, c>>]>>] = Times[<<b, Times[<<a, c>>]>>]
    <2>1. Times[<<a, Times[<<b, c>>]>>] = a * (b * c) /\ Times[<<b, Times[<<a, c>>]>>] = b * (a * c)
      BY <1>1
    <2>2. a * (b * c) = b * (a * c)
      OBVIOUS
    <2> QED BY <2>1, <2>2
  <1> QED BY <1>1, <1>2, <1>3 DEF Commutes

\* What MapThenSumSet and FoldSet compute of weights that are natural numbers.
AddsUp(f, w, S) ==
    f = [s \in SUBSET S |-> IF s = {} THEN 0 ELSE w[Picked(s)] + f[s \ {Picked(s)}]]
MultipliesUp(f, w, S) ==
    f = [s \in SUBSET S |-> IF s = {} THEN 1 ELSE f[s \ {Picked(s)}] * w[Picked(s)]]

Sum(w, S) == (CHOOSE f : AddsUp(f, w, S))[S]
Product(w, S) == (CHOOSE f : MultipliesUp(f, w, S))[S]

LEMMA SumIsFold ==
    ASSUME NEW S, IsFiniteSet(S), NEW w, Weights(w, S)
    PROVE  \E f : Folded(f, Plus, 0, w, S) /\ \A s \in SUBSET S : Sum(w, s) = f[s]
  <1>1. PICK f : Folded(f, Plus, 0, w, S)
    BY FoldExists
  <1>2. ASSUME NEW s \in SUBSET S PROVE Sum(w, s) = f[s]
    <2>1. IsFiniteSet(s) /\ Weights(w, s)
      BY FS_Subset DEF Weights
    <2>2. \E g : AddsUp(g, w, s)
      <3>1. PICK g : Folded(g, Plus, 0, w, s)
        BY <2>1, FoldExists
      <3>2. \A r \in SUBSET s : g[r] \in Nat
        BY <2>1, <3>1, FoldStep, PlusIs
      <3>3. ASSUME NEW r \in SUBSET s, r # {}
            PROVE  g[r] = w[Picked(r)] + g[r \ {Picked(r)}]
        <4>1. Picked(r) \in r
          BY <3>3, PickedIn
        <4>2. w[Picked(r)] \in Nat /\ g[r \ {Picked(r)}] \in Nat
          BY <2>1, <3>2, <4>1 DEF Weights
        <4>3. g[r] = Plus[<<w[Picked(r)], g[r \ {Picked(r)}]>>]
          BY <3>1, <3>3 DEF Folded
        <4> QED BY <4>2, <4>3, PlusIs
      <3>4. g[{}] = 0 /\ g = [r \in SUBSET s |-> g[r]]
        BY <3>1 DEF Folded
      <3>5. AddsUp(g, w, s)
        BY <3>3, <3>4 DEF AddsUp
      <3> QED BY <3>5
    <2> DEFINE h == CHOOSE g : AddsUp(g, w, s)
    <2>3. AddsUp(h, w, s)
      BY <2>2
    <2>4. Sum(w, s) = h[s]
      BY DEF Sum
    <2> HIDE DEF h
    <2> DEFINE P == {r \in SUBSET s : h[r] \in Nat}
    <2>5. {} \in P
      BY <2>3 DEF AddsUp
    <2>6. ASSUME NEW r \in SUBSET s, r # {}, \A x \in r : r \ {x} \in P PROVE r \in P
      <3>1. Picked(r) \in r
        BY <2>6, PickedIn
      <3>2. w[Picked(r)] \in Nat /\ h[r \ {Picked(r)}] \in Nat
        BY <2>1, <2>6, <3>1 DEF Weights
      <3>3. h[r] = w[Picked(r)] + h[r \ {Picked(r)}]
        BY <2>3, <2>6 DEF AddsUp
      <3> QED BY <3>2, <3>3
    <2>7. \A r \in SUBSET s : h[r] \in Nat
      <3> HIDE DEF P
      <3>1. \A r \in SUBSET s : r \in P
        BY <2>1, <2>5, <2>6, FiniteInduction
      <3> QED BY <3>1 DEF P
    <2>8. ASSUME NEW r \in SUBSET s, r # {}
          PROVE  h[r] = Plus[<<w[Picked(r)], h[r \ {Picked(r)}]>>]
      <3>1. Picked(r) \in r
        BY <2>8, PickedIn
      <3>2. w[Picked(r)] \in Nat /\ h[r \ {Picked(r)}] \in Nat
        BY <2>1, <2>7, <3>1 DEF Weights
      <3>3. h[r] = w[Picked(r)] + h[r \ {Picked(r)}]
        BY <2>3, <2>8 DEF AddsUp
      <3> QED BY <3>2, <3>3, PlusIs
    <2>9. h[{}] = 0 /\ h = [r \in SUBSET s |-> h[r]]
      BY <2>3 DEF AddsUp
    <2>10. Folded(h, Plus, 0, w, s)
      BY <2>8, <2>9 DEF Folded
    <2>11. f[s] = h[s]
      BY <1>1, <2>10, FoldsAgree
    <2> QED BY <2>4, <2>11
  <1> QED BY <1>1, <1>2

LEMMA ProductIsFold ==
    ASSUME NEW S, IsFiniteSet(S), NEW w, Weights(w, S)
    PROVE  \E f : Folded(f, Times, 1, w, S) /\ \A s \in SUBSET S : Product(w, s) = f[s]
  <1>0. ASSUME NEW a \in Nat, NEW b \in Nat PROVE Times[<<a, b>>] = b * a
    <2>1. a * b = b * a
      OBVIOUS
    <2> QED BY <2>1, TimesIs
  <1>1. PICK f : Folded(f, Times, 1, w, S)
    BY FoldExists
  <1>2. ASSUME NEW s \in SUBSET S PROVE Product(w, s) = f[s]
    <2>1. IsFiniteSet(s) /\ Weights(w, s)
      BY FS_Subset DEF Weights
    <2>2. \E g : MultipliesUp(g, w, s)
      <3>1. PICK g : Folded(g, Times, 1, w, s)
        BY <2>1, FoldExists
      <3>2. \A r \in SUBSET s : g[r] \in Nat
        BY <2>1, <3>1, FoldStep, TimesIs
      <3>3. ASSUME NEW r \in SUBSET s, r # {}
            PROVE  g[r] = g[r \ {Picked(r)}] * w[Picked(r)]
        <4>1. Picked(r) \in r
          BY <3>3, PickedIn
        <4>2. w[Picked(r)] \in Nat /\ g[r \ {Picked(r)}] \in Nat
          BY <2>1, <3>2, <4>1 DEF Weights
        <4>3. g[r] = Times[<<w[Picked(r)], g[r \ {Picked(r)}]>>]
          BY <3>1, <3>3 DEF Folded
        <4> QED BY <4>2, <4>3, <1>0
      <3>4. g[{}] = 1 /\ g = [r \in SUBSET s |-> g[r]]
        BY <3>1 DEF Folded
      <3>5. MultipliesUp(g, w, s)
        BY <3>3, <3>4 DEF MultipliesUp
      <3> QED BY <3>5
    <2> DEFINE h == CHOOSE g : MultipliesUp(g, w, s)
    <2>3. MultipliesUp(h, w, s)
      BY <2>2
    <2>4. Product(w, s) = h[s]
      BY DEF Product
    <2> HIDE DEF h
    <2> DEFINE P == {r \in SUBSET s : h[r] \in Nat}
    <2>5. {} \in P
      BY <2>3 DEF MultipliesUp
    <2>6. ASSUME NEW r \in SUBSET s, r # {}, \A x \in r : r \ {x} \in P PROVE r \in P
      <3>1. Picked(r) \in r
        BY <2>6, PickedIn
      <3>2. w[Picked(r)] \in Nat /\ h[r \ {Picked(r)}] \in Nat
        BY <2>1, <2>6, <3>1 DEF Weights
      <3>3. h[r] = h[r \ {Picked(r)}] * w[Picked(r)]
        BY <2>3, <2>6 DEF MultipliesUp
      <3> QED BY <3>2, <3>3, ProductNat
    <2>7. \A r \in SUBSET s : h[r] \in Nat
      <3> HIDE DEF P
      <3>1. \A r \in SUBSET s : r \in P
        BY <2>1, <2>5, <2>6, FiniteInduction
      <3> QED BY <3>1 DEF P
    <2>8. ASSUME NEW r \in SUBSET s, r # {}
          PROVE  h[r] = Times[<<w[Picked(r)], h[r \ {Picked(r)}]>>]
      <3>1. Picked(r) \in r
        BY <2>8, PickedIn
      <3>2. w[Picked(r)] \in Nat /\ h[r \ {Picked(r)}] \in Nat
        BY <2>1, <2>7, <3>1 DEF Weights
      <3>3. h[r] = h[r \ {Picked(r)}] * w[Picked(r)]
        BY <2>3, <2>8 DEF MultipliesUp
      <3> QED BY <3>2, <3>3, <1>0
    <2>9. h[{}] = 1 /\ h = [r \in SUBSET s |-> h[r]]
      BY <2>3 DEF MultipliesUp
    <2>10. Folded(h, Times, 1, w, s)
      BY <2>8, <2>9 DEF Folded
    <2>11. f[s] = h[s]
      BY <1>1, <2>10, FoldsAgree
    <2> QED BY <2>4, <2>11
  <1> QED BY <1>1, <1>2

LEMMA SumStep ==
    ASSUME NEW S, IsFiniteSet(S), NEW w, Weights(w, S)
    PROVE  /\ Sum(w, S) \in Nat /\ Sum(w, {}) = 0
           /\ \A x \in S : /\ Sum(w, S) = w[x] + Sum(w, S \ {x})
                           /\ w[x] \in Nat /\ Sum(w, S \ {x}) \in Nat
  <1>1. PICK f : Folded(f, Plus, 0, w, S) /\ \A s \in SUBSET S : Sum(w, s) = f[s]
    BY SumIsFold
  <1>2. \A s \in SUBSET S : f[s] \in Nat /\ \A x \in s : f[s] = Plus[<<w[x], f[s \ {x}]>>]
    <2>1. Commutes(Plus) /\ 0 \in Nat
      BY PlusIs
    <2> QED BY <1>1, <2>1, FoldStep
  <1>3. f[{}] = 0
    BY <1>1 DEF Folded
  <1>4. ASSUME NEW x \in S
        PROVE  Sum(w, S) = w[x] + Sum(w, S \ {x}) /\ w[x] \in Nat /\ Sum(w, S \ {x}) \in Nat
    <2>1. w[x] \in Nat /\ f[S \ {x}] \in Nat
      BY <1>2 DEF Weights
    <2>2. f[S] = w[x] + f[S \ {x}]
      BY <1>2, <2>1, PlusIs
    <2> QED BY <1>1, <2>1, <2>2
  <1> QED BY <1>1, <1>2, <1>3, <1>4

LEMMA ProductStep ==
    ASSUME NEW S, IsFiniteSet(S), NEW w, Weights(w, S)
    PROVE  /\ Product(w, S) \in Nat /\ Product(w, {}) = 1
           /\ \A x \in S : /\ Product(w, S) = w[x] * Product(w, S \ {x})
                           /\ w[x] \in Nat /\ Product(w, S \ {x}) \in Nat
  <1>1. PICK f : Folded(f, Times, 1, w, S) /\ \A s \in SUBSET S : Product(w, s) = f[s]
    BY ProductIsFold
  <1>2. \A s \in SUBSET S : f[s] \in Nat /\ \A x \in s : f[s] = Times[<<w[x], f[s \ {x}]>>]
    BY <1>1, FoldStep, TimesIs
  <1>3. f[{}] = 1
    BY <1>1 DEF Folded
  <1>4. ASSUME NEW x \in S
        PROVE  Product(w, S) = w[x] * Product(w, S \ {x}) /\ w[x] \in Nat /\ Product(w, S \ {x}) \in Nat
    <2>1. w[x] \in Nat /\ f[S \ {x}] \in Nat
      BY <1>2 DEF Weights
    <2>2. f[S] = w[x] * f[S \ {x}]
      BY <1>2, <2>1, TimesIs
    <2> QED BY <1>1, <2>1, <2>2
  <1> QED BY <1>1, <1>2, <1>3, <1>4

LEMMA MassIsSum == ASSUME NEW w PROVE Mass(w) = Sum(w, DOMAIN w)
  BY DEF Mass, MapThenSumSet, MapThenFoldSet, Sum, AddsUp, Picked

LEMMA CdfIsSum == ASSUME NEW w, NEW t PROVE Cdf(w, t) = Sum(w, {s \in DOMAIN w : s <= t})
  BY DEF Cdf, MapThenSumSet, MapThenFoldSet, Sum, AddsUp, Picked

LEMMA WeightIsProduct ==
    ASSUME NEW c, NEW d
    PROVE  DraftWeight(c, d) = Product([i \in DOMAIN d |-> c.q[i][d[i]]], DOMAIN d)
  <1> DEFINE w == [i \in DOMAIN d |-> c.q[i][d[i]]]
  <1>1. ASSUME NEW f
        PROVE  f = [s \in SUBSET DOMAIN d |-> IF s = {} THEN 1
                       ELSE f[s \ {Picked(s)}] * c.q[Picked(s)][d[Picked(s)]]]
               <=> MultipliesUp(f, w, DOMAIN d)
    <2>1. \A s \in SUBSET DOMAIN d : s # {} => w[Picked(s)] = c.q[Picked(s)][d[Picked(s)]]
      BY PickedIn
    <2> HIDE DEF w
    <2>2. [s \in SUBSET DOMAIN d |-> IF s = {} THEN 1
                       ELSE f[s \ {Picked(s)}] * c.q[Picked(s)][d[Picked(s)]]]
          = [s \in SUBSET DOMAIN d |-> IF s = {} THEN 1 ELSE f[s \ {Picked(s)}] * w[Picked(s)]]
      BY <2>1
    <2> QED BY <2>2 DEF MultipliesUp
  <1> QED BY <1>1 DEF DraftWeight, FoldSet, MapThenFoldSet, Product, Picked

LEMMA SumType == ASSUME NEW S, IsFiniteSet(S), NEW w, Weights(w, S) PROVE Sum(w, S) \in Nat
  BY SumStep

LEMMA SumOfNone == ASSUME NEW w PROVE Sum(w, {}) = 0
  <1>1. IsFiniteSet({}) /\ Weights(w, {})
    BY FS_EmptySet DEF Weights
  <1> QED BY <1>1, SumStep

\* What a sum of weights may be split into: a and b add up to w.
LEMMA SumAdds ==
    ASSUME NEW S, IsFiniteSet(S), NEW w, NEW a, NEW b, Weights(a, S), Weights(b, S),
           \A x \in S : w[x] = a[x] + b[x]
    PROVE  Sum(w, S) = Sum(a, S) + Sum(b, S)
  <1> DEFINE P == {s \in SUBSET S : Sum(w, s) = Sum(a, s) + Sum(b, s)}
  <1>0. Weights(w, S)
    BY DEF Weights
  <1>1. {} \in P
    BY SumOfNone
  <1>2. ASSUME NEW s \in SUBSET S, s # {}, \A x \in s : s \ {x} \in P PROVE s \in P
    <2>1. PICK x \in s : TRUE
      BY <1>2
    <2>2. IsFiniteSet(s) /\ Weights(w, s) /\ Weights(a, s) /\ Weights(b, s)
      BY <1>0, FS_Subset DEF Weights
    <2>3. /\ Sum(w, s) = w[x] + Sum(w, s \ {x}) /\ w[x] \in Nat /\ Sum(w, s \ {x}) \in Nat
          /\ Sum(a, s) = a[x] + Sum(a, s \ {x}) /\ a[x] \in Nat /\ Sum(a, s \ {x}) \in Nat
          /\ Sum(b, s) = b[x] + Sum(b, s \ {x}) /\ b[x] \in Nat /\ Sum(b, s \ {x}) \in Nat
      BY <2>1, <2>2, SumStep
    <2>4. Sum(w, s \ {x}) = Sum(a, s \ {x}) + Sum(b, s \ {x}) /\ w[x] = a[x] + b[x]
      BY <1>2, <2>1
    <2>5. Sum(w, s) = Sum(a, s) + Sum(b, s)
      BY <2>3, <2>4
    <2> QED BY <2>5
  <1>3. S \in P
    <2> HIDE DEF P
    <2>1. S \in SUBSET S
      OBVIOUS
    <2> QED BY <1>1, <1>2, <2>1, FiniteInduction
  <1> QED BY <1>3

\* A common factor.
LEMMA SumScaled ==
    ASSUME NEW S, IsFiniteSet(S), NEW w, NEW a, Weights(a, S), Weights(w, S),
           NEW k \in Nat, NEW m \in Nat, \A x \in S : m * w[x] = k * a[x]
    PROVE  m * Sum(w, S) = k * Sum(a, S)
  <1> DEFINE P == {s \in SUBSET S : m * Sum(w, s) = k * Sum(a, s)}
  <1>1. {} \in P
    BY SumOfNone
  <1>2. ASSUME NEW s \in SUBSET S, s # {}, \A x \in s : s \ {x} \in P PROVE s \in P
    <2>1. PICK x \in s : TRUE
      BY <1>2
    <2>2. IsFiniteSet(s) /\ Weights(w, s) /\ Weights(a, s)
      BY FS_Subset DEF Weights
    <2>3. /\ Sum(w, s) = w[x] + Sum(w, s \ {x}) /\ w[x] \in Nat /\ Sum(w, s \ {x}) \in Nat
          /\ Sum(a, s) = a[x] + Sum(a, s \ {x}) /\ a[x] \in Nat /\ Sum(a, s \ {x}) \in Nat
      BY <2>1, <2>2, SumStep
    <2>4. m * Sum(w, s \ {x}) = k * Sum(a, s \ {x}) /\ m * w[x] = k * a[x]
      BY <1>2, <2>1
    <2>5. ASSUME NEW e \in Nat, NEW f \in Nat, NEW g \in Nat, NEW h \in Nat,
                 m * e = k * g, m * f = k * h
          PROVE  m * (e + f) = k * (g + h)
      <3>1. m * (e + f) = m * e + m * f /\ k * (g + h) = k * g + k * h
        OBVIOUS
      <3> QED BY <2>5, <3>1
    <2>6. m * Sum(w, s) = k * Sum(a, s)
      <3> DEFINE e == w[x]  f == Sum(w, s \ {x})  g == a[x]  h == Sum(a, s \ {x})
      <3>1. e \in Nat /\ f \in Nat /\ g \in Nat /\ h \in Nat /\ m * e = k * g /\ m * f = k * h
        BY <2>3, <2>4
      <3>2. Sum(w, s) = e + f /\ Sum(a, s) = g + h
        BY <2>3
      <3> HIDE DEF e, f, g, h
      <3>3. m * (e + f) = k * (g + h)
        BY <2>5, <3>1
      <3> QED BY <3>2, <3>3
    <2> QED BY <2>6
  <1>3. S \in P
    <2> HIDE DEF P
    <2>1. S \in SUBSET S
      OBVIOUS
    <2> QED BY <1>1, <1>2, <2>1, FiniteInduction
  <1> QED BY <1>3

\* Equal weights, equal sums.
LEMMA SumSame ==
    ASSUME NEW S, IsFiniteSet(S), NEW w, NEW a, Weights(a, S), \A x \in S : w[x] = a[x]
    PROVE  Sum(w, S) = Sum(a, S)
  <1>1. Weights(w, S)
    BY DEF Weights
  <1>2. \A x \in S : 1 * w[x] = 1 * a[x]
    OBVIOUS
  <1>3. 1 * Sum(w, S) = 1 * Sum(a, S)
    BY <1>1, <1>2, SumScaled
  <1> QED BY <1>1, <1>3, SumType

\* One element counts.
LEMMA SumOfOne ==
    ASSUME NEW S, IsFiniteSet(S), NEW w, Weights(w, S), NEW y \in S, \A x \in S : x # y => w[x] = 0
    PROVE  Sum(w, S) = w[y]
  <1> DEFINE R == S \ {y}
             P == {s \in SUBSET R : Sum(w, s) = 0}
  <1>0. IsFiniteSet(R)
    BY FS_Subset
  <1>1. {} \in P
    BY SumOfNone
  <1>2. ASSUME NEW s \in SUBSET R, s # {}, \A x \in s : s \ {x} \in P PROVE s \in P
    <2>1. PICK x \in s : TRUE
      BY <1>2
    <2>2. IsFiniteSet(s) /\ Weights(w, s)
      BY FS_Subset DEF Weights
    <2>3. Sum(w, s) = w[x] + Sum(w, s \ {x})
      BY <2>1, <2>2, SumStep
    <2>4. Sum(w, s \ {x}) = 0 /\ w[x] = 0
      BY <1>2, <2>1
    <2> QED BY <2>3, <2>4
  <1>3. R \in P
    <2> HIDE DEF P, R
    <2>1. R \in SUBSET R
      OBVIOUS
    <2> QED BY <1>0, <1>1, <1>2, <2>1, FiniteInduction
  <1>4. Sum(w, S) = w[y] + Sum(w, S \ {y}) /\ w[y] \in Nat
    BY SumStep
  <1> QED BY <1>3, <1>4

\* The same weight for every element.
LEMMA SumOfEqual ==
    ASSUME NEW S, IsFiniteSet(S), NEW w, NEW c \in Nat, \A x \in S : w[x] = c
    PROVE  Sum(w, S) = Cardinality(S) * c
  <1> DEFINE P == {s \in SUBSET S : Sum(w, s) = Cardinality(s) * c}
  <1>1. {} \in P
    BY SumOfNone, FS_EmptySet
  <1>2. ASSUME NEW s \in SUBSET S, s # {}, \A x \in s : s \ {x} \in P PROVE s \in P
    <2>1. PICK x \in s : TRUE
      BY <1>2
    <2>2. IsFiniteSet(s) /\ Weights(w, s)
      BY FS_Subset DEF Weights
    <2>3. Sum(w, s) = w[x] + Sum(w, s \ {x})
      BY <2>1, <2>2, SumStep
    <2>4. Sum(w, s \ {x}) = Cardinality(s \ {x}) * c /\ w[x] = c
      BY <1>2, <2>1
    <2>5. /\ Cardinality(s \ {x}) \in Nat /\ Cardinality(s) \in Nat
          /\ Cardinality(s \ {x}) = Cardinality(s) - 1
      BY <2>1, <2>2, Fewer
    <2>6. Cardinality(s) * c = c + (Cardinality(s) - 1) * c
      BY <2>5
    <2>7. Sum(w, s) = Cardinality(s) * c
      BY <2>3, <2>4, <2>5, <2>6
    <2> QED BY <2>7
  <1>3. S \in P
    <2> HIDE DEF P
    <2>1. S \in SUBSET S
      OBVIOUS
    <2> QED BY <1>1, <1>2, <2>1, FiniteInduction
  <1> QED BY <1>3

\* Taking elements away makes a sum no larger.
LEMMA SumSubset ==
    ASSUME NEW S, IsFiniteSet(S), NEW w, Weights(w, S), NEW r, r \subseteq S
    PROVE  Sum(w, r) <= Sum(w, S)
  <1> DEFINE P == {s \in SUBSET S : r \cap s \subseteq s /\ Sum(w, r \cap s) <= Sum(w, s)}
  <1>1. {} \in P
    <2>1. r \cap {} = {}
      OBVIOUS
    <2> QED BY <2>1, SumOfNone
  <1>2. ASSUME NEW s \in SUBSET S, s # {}, \A x \in s : s \ {x} \in P PROVE s \in P
    <2>1. PICK x \in s : TRUE
      BY <1>2
    <2>2. IsFiniteSet(s) /\ Weights(w, s) /\ IsFiniteSet(r \cap s) /\ Weights(w, r \cap s)
      BY FS_Subset DEF Weights
    <2>3. /\ Sum(w, s) = w[x] + Sum(w, s \ {x}) /\ w[x] \in Nat /\ Sum(w, s \ {x}) \in Nat
      BY <2>1, <2>2, SumStep
    <2>4. Sum(w, r \cap (s \ {x})) <= Sum(w, s \ {x})
      BY <1>2, <2>1
    <2>5. CASE x \in r
      <3>1. Sum(w, r \cap s) = w[x] + Sum(w, (r \cap s) \ {x}) /\ Sum(w, (r \cap s) \ {x}) \in Nat
        BY <2>1, <2>2, <2>5, SumStep
      <3>2. (r \cap s) \ {x} = r \cap (s \ {x})
        OBVIOUS
      <3>3. Sum(w, r \cap s) = w[x] + Sum(w, r \cap (s \ {x})) /\ Sum(w, r \cap (s \ {x})) \in Nat
        BY <3>1, <3>2
      <3>4. Sum(w, r \cap s) <= Sum(w, s)
        BY <2>3, <2>4, <3>3
      <3> QED BY <3>4
    <2>6. CASE x \notin r
      <3>1. r \cap s = r \cap (s \ {x})
        BY <2>6
      <3>2. Sum(w, r \cap s) \in Nat
        BY <2>2, SumType
      <3> QED BY <2>3, <2>4, <3>1, <3>2
    <2> QED BY <2>5, <2>6
  <1>3. S \in P
    <2> HIDE DEF P
    <2>1. S \in SUBSET S
      OBVIOUS
    <2> QED BY <1>1, <1>2, <2>1, FiniteInduction
  <1>4. r \cap S = r
    OBVIOUS
  <1> QED BY <1>3, <1>4

\* Equal factors, equal products.
LEMMA ProductSame ==
    ASSUME NEW S, IsFiniteSet(S), NEW w, NEW a, Weights(a, S), \A x \in S : w[x] = a[x]
    PROVE  Product(w, S) = Product(a, S)
  <1> DEFINE P == {s \in SUBSET S : Product(w, s) = Product(a, s)}
  <1>0. Weights(w, S)
    BY DEF Weights
  <1>1. {} \in P
    <2>1. IsFiniteSet({}) /\ Weights(w, {}) /\ Weights(a, {})
      BY FS_EmptySet DEF Weights
    <2>2. Product(w, {}) = 1 /\ Product(a, {}) = 1
      BY <2>1, ProductStep
    <2> QED BY <2>2
  <1>2. ASSUME NEW s \in SUBSET S, s # {}, \A x \in s : s \ {x} \in P PROVE s \in P
    <2>1. PICK x \in s : TRUE
      BY <1>2
    <2>2. IsFiniteSet(s) /\ Weights(w, s) /\ Weights(a, s)
      BY <1>0, FS_Subset DEF Weights
    <2>3. Product(w, s) = w[x] * Product(w, s \ {x}) /\ Product(a, s) = a[x] * Product(a, s \ {x})
      BY <2>1, <2>2, ProductStep
    <2>4. Product(w, s \ {x}) = Product(a, s \ {x}) /\ w[x] = a[x]
      BY <1>2, <2>1
    <2>5. Product(w, s) = Product(a, s)
      BY <2>3, <2>4
    <2> QED BY <2>5
  <1>3. S \in P
    <2> HIDE DEF P
    <2>1. S \in SUBSET S
      OBVIOUS
    <2> QED BY <1>1, <1>2, <2>1, FiniteInduction
  <1> QED BY <1>3

\* Weights w that agree with u along a one-to-one map, up to factors.
LEMMA SumMatched ==
    ASSUME NEW S, IsFiniteSet(S), NEW T, IsFiniteSet(T), NEW w, Weights(w, S), NEW u, Weights(u, T),
           NEW beta, \A x \in S : beta[x] \in T, \A x, y \in S : beta[x] = beta[y] => x = y,
           \A z \in T : \E x \in S : beta[x] = z,
           NEW k \in Nat, NEW m \in Nat, \A x \in S : k * w[x] = m * u[beta[x]]
    PROVE  k * Sum(w, S) = m * Sum(u, T)
  <1> DEFINE Image(s) == {beta[x] : x \in s}
             P == {s \in SUBSET S : k * Sum(w, s) = m * Sum(u, Image(s))}
  <1>1. {} \in P
    <2>1. Image({}) = {}
      OBVIOUS
    <2>2. Sum(w, {}) = 0 /\ Sum(u, {}) = 0
      BY SumOfNone
    <2>3. k * Sum(w, {}) = m * Sum(u, Image({}))
      BY <2>1, <2>2
    <2> QED BY <2>3
  <1>2. ASSUME NEW s \in SUBSET S, s # {}, \A x \in s : s \ {x} \in P PROVE s \in P
    <2>1. PICK x \in s : TRUE
      BY <1>2
    <2>2. IsFiniteSet(s) /\ Weights(w, s) /\ IsFiniteSet(Image(s)) /\ Weights(u, Image(s))
      BY FS_Subset DEF Weights
    <2>3. beta[x] \in Image(s) /\ Image(s \ {x}) = Image(s) \ {beta[x]}
      BY <2>1
    <2>4. k * Sum(w, s \ {x}) = m * Sum(u, Image(s \ {x}))
      BY <1>2, <2>1
    <2>5. k * w[x] = m * u[beta[x]]
      BY <2>1
    <2> HIDE DEF Image
    <2>6. Sum(w, s) = w[x] + Sum(w, s \ {x}) /\ w[x] \in Nat /\ Sum(w, s \ {x}) \in Nat
      BY <2>1, <2>2, SumStep
    <2>7. /\ Sum(u, Image(s)) = u[beta[x]] + Sum(u, Image(s \ {x}))
          /\ u[beta[x]] \in Nat /\ Sum(u, Image(s \ {x})) \in Nat
      <3> DEFINE J == Image(s)
      <3>1. IsFiniteSet(J) /\ Weights(u, J) /\ beta[x] \in J
        BY <2>2, <2>3
      <3> HIDE DEF J
      <3>2. /\ Sum(u, J) = u[beta[x]] + Sum(u, J \ {beta[x]})
            /\ u[beta[x]] \in Nat /\ Sum(u, J \ {beta[x]}) \in Nat
        BY <3>1, SumStep
      <3> QED BY <2>3, <3>2 DEF J
    <2> DEFINE e == w[x]  f == Sum(w, s \ {x})  g == u[beta[x]]  h == Sum(u, Image(s \ {x}))
    <2>8. /\ e \in Nat /\ f \in Nat /\ g \in Nat /\ h \in Nat /\ k * e = m * g /\ k * f = m * h
          /\ Sum(w, s) = e + f /\ Sum(u, Image(s)) = g + h
      BY <2>4, <2>5, <2>6, <2>7
    <2> HIDE DEF e, f, g, h
    <2>9. k * (e + f) = k * e + k * f /\ m * (g + h) = m * g + m * h
      BY <2>8
    <2>10. k * Sum(w, s) = m * Sum(u, Image(s))
      BY <2>8, <2>9
    <2> QED BY <2>10
  <1>3. S \in P
    <2> HIDE DEF P
    <2>1. S \in SUBSET S
      OBVIOUS
    <2> QED BY <1>1, <1>2, <2>1, FiniteInduction
  <1>4. Image(S) = T
    OBVIOUS
  <1> QED BY <1>3, <1>4

\* The part of the sum over s that falls to y.
Part(w, pi, s, y) == Sum(w, {x \in s : pi[x] = y})

\* A sum, class by class.
LEMMA SumByClass ==
    ASSUME NEW S, IsFiniteSet(S), NEW V, IsFiniteSet(V), NEW pi, \A x \in S : pi[x] \in V,
           NEW w, Weights(w, S), NEW h, Weights(h, V), NEW z, \A x \in S : z[x] = w[x] * h[pi[x]]
    PROVE  Sum(z, S) = Sum([y \in V |-> Part(w, pi, S, y) * h[y]], V)
  <1> DEFINE F(s) == [y \in V |-> Part(w, pi, s, y) * h[y]]
             P == {s \in SUBSET S : Sum(z, s) = Sum(F(s), V)}
  <1>0. ASSUME NEW s \in SUBSET S, NEW y \in V
        PROVE  /\ Part(w, pi, s, y) \in Nat /\ F(s)[y] \in Nat /\ h[y] \in Nat
               /\ IsFiniteSet({x \in s : pi[x] = y}) /\ Weights(w, {x \in s : pi[x] = y})
    <2>1. IsFiniteSet({x \in s : pi[x] = y}) /\ Weights(w, {x \in s : pi[x] = y})
      BY FS_Subset DEF Weights
    <2>2. Part(w, pi, s, y) \in Nat /\ h[y] \in Nat
      BY <2>1, SumType DEF Part, Weights
    <2> QED BY <2>1, <2>2, ProductNat
  <1>00. Weights(z, S)
    <2>1. ASSUME NEW x \in S PROVE w[x] \in Nat /\ h[pi[x]] \in Nat
      BY DEF Weights
    <2> QED BY <2>1, ProductNat DEF Weights
  <1>1. {} \in P
    <2> DEFINE Q == {r \in SUBSET V : Sum(F({}), r) = 0}
    <2>1. ASSUME NEW y \in V PROVE F({})[y] = 0
      <3>1. {x \in {} : pi[x] = y} = {}
        OBVIOUS
      <3>2. Part(w, pi, {}, y) = 0
        BY <3>1, SumOfNone DEF Part
      <3>3. h[y] \in Nat /\ F({})[y] = Part(w, pi, {}, y) * h[y]
        BY <1>0
      <3> HIDE DEF F
      <3>4. 0 * h[y] = 0
        BY <3>3
      <3> QED BY <3>2, <3>3, <3>4
    <2>2. \A y \in V : 1 * F({})[y] = 0 * F({})[y]
      BY <2>1
    <2>3. Weights(F({}), V)
      BY <2>1 DEF Weights
    <2> HIDE DEF F
    <2>4. 1 * Sum(F({}), V) = 0 * Sum(F({}), V)
      BY <2>2, <2>3, SumScaled
    <2>5. Sum(F({}), V) = 0
      BY <2>3, <2>4, SumType
    <2> QED BY <2>5, SumOfNone
  <1>2. ASSUME NEW s \in SUBSET S, s # {}, \A x \in s : s \ {x} \in P PROVE s \in P
    <2>1. PICK x \in s : TRUE
      BY <1>2
    <2> DEFINE y0 == pi[x]
               b == [y \in V |-> IF y = y0 THEN w[x] * h[y0] ELSE 0]
    <2>2. IsFiniteSet(s) /\ Weights(z, s) /\ y0 \in V /\ w[x] \in Nat /\ h[y0] \in Nat
      BY <1>00, <2>1, FS_Subset DEF Weights
    <2>3. w[x] * h[y0] \in Nat
      BY <2>2, ProductNat
    <2>4. ASSUME NEW y \in V PROVE F(s)[y] = F(s \ {x})[y] + b[y]
      <3>1. CASE y = y0
        <4>1. x \in {i \in s : pi[i] = y}
          BY <2>1, <3>1
        <4>2. {i \in s : pi[i] = y} \ {x} = {i \in s \ {x} : pi[i] = y}
          OBVIOUS
        <4>3. Part(w, pi, s, y) = w[x] + Part(w, pi, s \ {x}, y)
          <5> DEFINE r == {i \in s : pi[i] = y}
          <5>1. IsFiniteSet(r) /\ Weights(w, r) /\ x \in r
            BY <1>0, <4>1
          <5>2. Part(w, pi, s, y) = Sum(w, r) /\ Part(w, pi, s \ {x}, y) = Sum(w, r \ {x})
            BY <4>2 DEF Part
          <5> HIDE DEF r
          <5>3. Sum(w, r) = w[x] + Sum(w, r \ {x})
            BY <5>1, SumStep
          <5> QED BY <5>2, <5>3
        <4> DEFINE e == Part(w, pi, s \ {x}, y)
        <4>4. e \in Nat /\ h[y] \in Nat
          BY <1>0
        <4> HIDE DEF e
        <4>5. (w[x] + e) * h[y] = e * h[y] + w[x] * h[y]
          BY <2>2, <4>4
        <4> QED BY <3>1, <4>3, <4>5 DEF e
      <3>2. CASE y # y0
        <4>1. {i \in s : pi[i] = y} = {i \in s \ {x} : pi[i] = y}
          BY <3>2
        <4>2. F(s)[y] = F(s \ {x})[y] /\ b[y] = 0
          BY <3>2, <4>1 DEF Part
        <4>3. F(s \ {x})[y] \in Nat
          BY <1>0
        <4> QED BY <4>2, <4>3
      <3> QED BY <3>1, <3>2
    <2>5. Weights(F(s \ {x}), V) /\ Weights(b, V)
      BY <1>0, <2>3 DEF Weights
    <2>6. Sum(b, V) = w[x] * h[y0]
      <3>1. b[y0] = w[x] * h[y0] /\ \A y \in V : y # y0 => b[y] = 0
        BY <2>2
      <3> HIDE DEF b, y0
      <3>2. Sum(b, V) = b[y0]
        BY <2>2, <2>5, <3>1, SumOfOne
      <3> QED BY <3>1, <3>2
    <2> HIDE DEF F, b
    <2>7. Sum(F(s), V) = Sum(F(s \ {x}), V) + Sum(b, V)
      <3> DEFINE all == F(s)
                 less == F(s \ {x})
      <3>1. Weights(less, V) /\ Weights(b, V) /\ \A y \in V : all[y] = less[y] + b[y]
        BY <2>4, <2>5
      <3> HIDE DEF all, less
      <3>2. Sum(all, V) = Sum(less, V) + Sum(b, V)
        BY <3>1, SumAdds
      <3> QED BY <3>2 DEF all, less
    <2>8. Sum(z, s) = z[x] + Sum(z, s \ {x}) /\ z[x] \in Nat /\ Sum(z, s \ {x}) \in Nat
      BY <2>1, <2>2, SumStep
    <2>9. Sum(z, s \ {x}) = Sum(F(s \ {x}), V)
      BY <1>2, <2>1
    <2>10. z[x] = w[x] * h[y0]
      BY <2>1
    <2>11. Sum(z, s) = Sum(F(s), V)
      BY <2>6, <2>7, <2>8, <2>9, <2>10
    <2> QED BY <2>11
  <1>3. S \in P
    <2> HIDE DEF P
    <2>1. S \in SUBSET S
      OBVIOUS
    <2> QED BY <1>1, <1>2, <2>1, FiniteInduction
  <1> QED BY <1>3

FiberOf(pi, X, r) == {x \in X : pi[x] = r}

\* The elements of X, if each r of R has k of them.
LEMMA CountFibers ==
    ASSUME NEW X, IsFiniteSet(X), NEW R, IsFiniteSet(R), NEW pi, \A x \in X : pi[x] \in R,
           NEW k \in Nat, \A r \in R : Cardinality(FiberOf(pi, X, r)) = k
    PROVE  Cardinality(X) = k * Cardinality(R)
  <1> DEFINE Over(s) == {x \in X : pi[x] \in s}
             P == {s \in SUBSET R : Cardinality(Over(s)) = k * Cardinality(s)}
  <1>1. {} \in P
    <2>1. Over({}) = {} /\ Cardinality({}) = 0
      BY FS_EmptySet
    <2> QED BY <2>1
  <1>2. ASSUME NEW s \in SUBSET R, s # {}, \A x \in s : s \ {x} \in P PROVE s \in P
    <2>1. PICK r \in s : TRUE
      BY <1>2
    <2> DEFINE fiber == {x \in X : pi[x] = r}
    <2>2. IsFiniteSet(s) /\ IsFiniteSet(Over(s \ {r})) /\ IsFiniteSet(fiber)
      BY FS_Subset
    <2>3. Over(s) = Over(s \ {r}) \cup fiber /\ Over(s \ {r}) \cap fiber = {}
      BY <2>1
    <2>4. Cardinality(fiber) = k
      BY <2>1 DEF FiberOf
    <2>5. Cardinality(Over(s \ {r})) = k * Cardinality(s \ {r})
      BY <1>2, <2>1
    <2> HIDE DEF Over, fiber
    <2>6. Cardinality(Over(s)) = Cardinality(Over(s \ {r})) + Cardinality(fiber) - 0
      <3> DEFINE rest == Over(s \ {r})
      <3>1. IsFiniteSet(rest) /\ IsFiniteSet(fiber) /\ rest \cap fiber = {} /\ Over(s) = rest \cup fiber
        BY <2>2, <2>3
      <3> HIDE DEF rest
      <3>2. Cardinality(rest \cup fiber) = Cardinality(rest) + Cardinality(fiber) - Cardinality(rest \cap fiber)
        BY <3>1, FS_Union
      <3>3. Cardinality({}) = 0
        BY FS_EmptySet
      <3> QED BY <3>1, <3>2, <3>3 DEF rest
    <2>7. Cardinality(s \ {r}) = Cardinality(s) - 1 /\ Cardinality(s) \in Nat /\ Cardinality(s \ {r}) \in Nat
      BY <2>1, <2>2, Fewer
    <2> DEFINE n == Cardinality(s \ {r})
    <2>8. n \in Nat /\ Cardinality(s) = n + 1 /\ Cardinality(Over(s)) = k * n + k
      <3>1. k * n \in Nat
        BY <2>7, ProductNat
      <3> QED BY <2>4, <2>5, <2>6, <2>7, <3>1
    <2> HIDE DEF n
    <2>9. k * (n + 1) = k * n + k
      BY <2>8
    <2>10. Cardinality(Over(s)) = k * Cardinality(s)
      BY <2>8, <2>9
    <2> QED BY <2>10 DEF Over
  <1>3. R \in P
    <2> HIDE DEF P
    <2>1. R \in SUBSET R
      OBVIOUS
    <2> QED BY <1>1, <1>2, <2>1, FiniteInduction
  <1>4. Over(R) = X
    OBVIOUS
  <1> QED BY <1>3, <1>4

-----------------------------------------------------------------------------
(* Sampling from a row *)

LEMMA CaseRows ==
    ASSUME NEW c \in Cases
    PROVE  \E v \in Nat : /\ v > 0 /\ DOMAIN c.p[1] = 0 .. v - 1 /\ Len(c.p) = Len(c.q)
                          /\ Len(c.p) \in Nat /\ Len(c.p) > 1
                          /\ \A i \in 1 .. Len(c.p) : c.p[i] \in Rows(v) /\ c.q[i] \in Rows(v)
  <1> DEFINE v == Cardinality(DOMAIN c.p[1])
  <1>1. /\ v \in Nat /\ c.p \in Seq(Rows(v)) /\ c.q \in Seq(Rows(v))
        /\ Len(c.p) = Len(c.q) /\ Len(c.p) > 1 /\ Unit \in Nat \ {0}
    BY SamplerAssumption
  <1> HIDE DEF v
  <1>2. \A i \in 1 .. Len(c.p) : c.p[i] \in Rows(v) /\ c.q[i] \in Rows(v)
    BY <1>1
  <1>3. Len(c.p) \in Nat
    BY <1>1
  <1>4. c.p[1] \in [0 .. v - 1 -> 0 .. Unit] /\ Mass(c.p[1]) = Unit
    BY <1>1, <1>2, <1>3 DEF Rows
  <1>5. v > 0
    <2> SUFFICES ASSUME v = 0 PROVE FALSE
      BY <1>1
    <2>1. DOMAIN c.p[1] = {}
      BY <1>4
    <2> QED BY <1>1, <1>4, <2>1, MassIsSum, SumOfNone
  <1> QED BY <1>1, <1>2, <1>3, <1>4, <1>5

LEMMA RowFacts ==
    ASSUME NEW v \in Nat, NEW w \in Rows(v)
    PROVE  /\ IsFiniteSet(0 .. v - 1) /\ Weights(w, 0 .. v - 1) /\ DOMAIN w = 0 .. v - 1
           /\ Mass(w) = Unit /\ Sum(w, 0 .. v - 1) = Unit /\ Unit \in Nat /\ Unit > 0
           /\ \A t \in 0 .. v - 1 : w[t] \in 0 .. Unit
  <1>1. Unit \in Nat \ {0} /\ w \in [0 .. v - 1 -> 0 .. Unit] /\ Mass(w) = Unit
    BY SamplerAssumption DEF Rows
  <1>2. IsFiniteSet(0 .. v - 1)
    <2>1. 0 \in Int /\ v - 1 \in Int
      OBVIOUS
    <2> QED BY <2>1, FS_Interval
  <1>3. DOMAIN w = 0 .. v - 1 /\ \A t \in 0 .. v - 1 : w[t] \in 0 .. Unit
    BY <1>1
  <1>4. Sum(w, 0 .. v - 1) = Unit
    BY <1>1, <1>3, MassIsSum
  <1>5. Weights(w, 0 .. v - 1)
    BY <1>3 DEF Weights
  <1> QED BY <1>1, <1>2, <1>3, <1>4, <1>5

LEMMA GridFits ==
    ASSUME NEW m \in Nat, m > 0, m <= Unit PROVE \E k \in Nat : Grid = 2 * m * k /\ k > 0
  <1>1. m \in 1 .. Unit /\ Grid \in Nat
    BY SamplerAssumption
  <1>2. PICK k \in 1 .. Grid : 2 * m * k = Grid
    BY <1>1, SamplerAssumption
  <1> QED BY <1>1, <1>2

LEMMA CdfFacts ==
    ASSUME NEW v \in Nat, NEW w, DOMAIN w = 0 .. v - 1, Weights(w, 0 .. v - 1)
    PROVE  /\ Mass(w) \in Nat
           /\ \A t \in 0 .. v - 1 :
                  /\ Cdf(w, t) \in Nat /\ w[t] \in Nat /\ w[t] <= Cdf(w, t) /\ Cdf(w, t) <= Mass(w)
                  /\ t = v - 1 => Cdf(w, t) = Mass(w)
                  /\ t = 0 => Cdf(w, t) = w[t]
                  /\ t > 0 => Cdf(w, t - 1) = Cdf(w, t) - w[t]
                  /\ \A s \in 0 .. v - 1 : s < t => Cdf(w, s) <= Cdf(w, t) - w[t]
  <1> DEFINE U == 0 .. v - 1
             Upto(t) == {s \in U : s <= t}
             Under(t) == {s \in U : s < t}
  <1>1. IsFiniteSet(U) /\ Mass(w) = Sum(w, U) /\ Mass(w) \in Nat
    BY FS_Interval, MassIsSum, SumType
  <1>2. ASSUME NEW t \in U
        PROVE  /\ IsFiniteSet(Upto(t)) /\ Weights(w, Upto(t)) /\ t \in Upto(t)
               /\ IsFiniteSet(Under(t)) /\ Weights(w, Under(t)) /\ Upto(t) \ {t} = Under(t)
    BY <1>1, FS_Subset DEF Weights
  <1>3. ASSUME NEW t \in U
        PROVE  /\ Cdf(w, t) = Sum(w, Upto(t)) /\ Cdf(w, t) = w[t] + Sum(w, Under(t))
               /\ w[t] \in Nat /\ Sum(w, Under(t)) \in Nat
               /\ Cdf(w, t) \in Nat /\ Sum(w, Under(t)) = Cdf(w, t) - w[t]
    <2>1. Cdf(w, t) = Sum(w, Upto(t))
      BY CdfIsSum
    <2>2. IsFiniteSet(Upto(t)) /\ Weights(w, Upto(t)) /\ t \in Upto(t) /\ Upto(t) \ {t} = Under(t)
      BY <1>2
    <2> HIDE DEF Upto, Under, U
    <2>3. Sum(w, Upto(t)) = w[t] + Sum(w, Upto(t) \ {t}) /\ w[t] \in Nat /\ Sum(w, Upto(t) \ {t}) \in Nat
      BY <2>2, SumStep
    <2> DEFINE under == Sum(w, Under(t))
               at == w[t]
               cdf == Cdf(w, t)
    <2>4. cdf = at + under /\ at \in Nat /\ under \in Nat
      BY <2>1, <2>2, <2>3
    <2> HIDE DEF under, at, cdf
    <2>5. cdf \in Nat /\ under = cdf - at
      BY <2>4
    <2> QED BY <2>1, <2>4, <2>5 DEF under, at, cdf
  <1>4. ASSUME NEW t \in U
        PROVE  /\ w[t] <= Cdf(w, t) /\ Cdf(w, t) <= Mass(w)
               /\ t = v - 1 => Cdf(w, t) = Mass(w)
               /\ t = 0 => Cdf(w, t) = w[t]
               /\ t > 0 => Cdf(w, t - 1) = Cdf(w, t) - w[t]
               /\ \A s \in U : s < t => Cdf(w, s) <= Cdf(w, t) - w[t]
    <2>1. Upto(t) \subseteq U /\ (t = v - 1 => Upto(t) = U) /\ (t = 0 => Under(t) = {})
      OBVIOUS
    <2>2. t > 0 => t - 1 \in U /\ Upto(t - 1) = Under(t)
      OBVIOUS
    <2>3. \A s \in U : s < t => Upto(s) \subseteq Under(t)
      OBVIOUS
    <2> HIDE DEF Upto, Under, U
    <2>4. Sum(w, Upto(t)) <= Sum(w, U)
      BY <1>1, <2>1, SumSubset DEF U
    <2>5. \A s \in U : s < t => Sum(w, Upto(s)) <= Sum(w, Under(t))
      BY <1>2, <2>3, SumSubset
    <2>6. t > 0 => Cdf(w, t - 1) = Cdf(w, t) - w[t]
      BY <1>3, <2>2
    <2>7. t = 0 => Cdf(w, t) = w[t]
      <3>1. CASE t = 0
        <4>1. Sum(w, Under(t)) = 0
          BY <2>1, <3>1, SumOfNone
        <4>2. Cdf(w, t) = w[t] + 0 /\ w[t] \in Nat
          BY <1>3, <4>1
        <4> QED BY <4>2
      <3> QED BY <3>1
    <2>8. \A s \in U : s < t => Cdf(w, s) <= Cdf(w, t) - w[t]
      BY <1>3, <2>5
    <2>9. w[t] <= Cdf(w, t)
      BY <1>3
    <2>10. Cdf(w, t) <= Mass(w) /\ (t = v - 1 => Cdf(w, t) = Mass(w))
      BY <1>1, <1>3, <2>1, <2>4
    <2> QED BY <2>6, <2>7, <2>8, <2>9, <2>10
  <1> QED BY <1>1, <1>3, <1>4

LEMMA NatTimes ==
    ASSUME NEW a \in Nat, NEW b \in Nat, NEW c \in Nat, a <= b
    PROVE  a * c <= b * c /\ a * c \in Nat /\ b * c \in Nat
  <1>1. PICK d \in Nat : b = a + d
    <2> WITNESS b - a \in Nat
    <2> QED OBVIOUS
  <1>2. b * c = a * c + d * c
    BY <1>1
  <1>3. a * c \in Nat /\ d * c \in Nat
    BY ProductNat
  <1> QED BY <1>2, <1>3

\* The token whose stretch of the cumulative probabilities holds u.
LEMMA SampleIs ==
    ASSUME NEW v \in Nat, NEW w, DOMAIN w = 0 .. v - 1, Weights(w, 0 .. v - 1),
           v > 0, Mass(w) > 0, NEW u \in Nat, u > 0, u < Grid
    PROVE  /\ SampleFromProbs(w, u) \in 0 .. v - 1
           /\ \A t \in 0 .. v - 1 :
                  SampleFromProbs(w, u) = t <=>
                      /\ (Cdf(w, t) - w[t]) * Grid < u * Mass(w)
                      /\ u * Mass(w) <= Cdf(w, t) * Grid
  <1> DEFINE V == 0 .. v - 1
             M == Mass(w)
             C(t) == Cdf(w, t)
             Reached == {t \in V : u * M <= C(t) * Grid}
             In(t) == (C(t) - w[t]) * Grid < u * M /\ u * M <= C(t) * Grid
             First(t) == u * M <= C(t) * Grid /\ \A s \in V : s < t => u * M > C(s) * Grid
  <1>0. Grid \in Nat /\ v - 1 \in V /\ M \in Nat /\ M > 0 /\ u * M \in Nat /\ u * M > 0
    <2>1. M \in Nat
      BY CdfFacts
    <2>2. u * M > 0 /\ u * M \in Nat
      BY <2>1
    <2> QED BY <2>1, <2>2, SamplerAssumption
  <1>1. ASSUME NEW t \in V
        PROVE  /\ C(t) \in Nat /\ w[t] \in Nat /\ w[t] <= C(t) /\ C(t) <= M
               /\ (t = v - 1 => C(t) = M) /\ (t = 0 => C(t) = w[t])
               /\ (t > 0 => C(t - 1) = C(t) - w[t] /\ t - 1 \in V)
               /\ \A s \in V : s < t => C(s) <= C(t) - w[t]
    BY CdfFacts
  <1>2. SampleFromProbs(w, u) = CHOOSE t \in V : First(t)
    BY DEF SampleFromProbs
  <1> HIDE DEF M, C
  <1>3. v - 1 \in Reached
    <2>1. u * M <= Grid * M
      BY <1>0, NatTimes
    <2> QED BY <1>0, <1>1, <2>1
  <1>4. \E t \in V : First(t)
    <2>1. Reached \subseteq Nat /\ Reached # {}
      BY <1>3
    <2> HIDE DEF Reached
    <2>2. PICK t \in Reached : \A s \in Reached : t <= s
      BY <2>1, LeastExists
    <2> USE DEF Reached
    <2>3. \A s \in V : s < t => u * M > C(s) * Grid
      <3> TAKE s \in V
      <3> HAVE s < t
      <3>1. s \notin Reached
        BY <2>2
      <3>2. C(s) * Grid \in Nat
        BY <1>0, <1>1, ProductNat
      <3> QED BY <1>0, <3>1, <3>2
    <2> QED BY <2>2, <2>3
  <1>5. ASSUME NEW t \in V PROVE First(t) <=> In(t)
    <2>0. \A s \in V : C(s) * Grid \in Nat
      BY <1>0, <1>1, ProductNat
    <2>1. C(t) - w[t] \in Nat /\ (C(t) - w[t]) * Grid \in Nat
      <3>1. C(t) - w[t] \in Nat
        BY <1>1
      <3> QED BY <1>0, <3>1, ProductNat
    <2>2. CASE First(t)
      <3>1. CASE t = 0
        <4>1. C(t) - w[t] = 0
          BY <1>1, <3>1
        <4>2. (C(t) - w[t]) * Grid = 0
          BY <1>0, <4>1
        <4> QED BY <1>0, <2>2, <4>2
      <3>2. CASE t > 0
        <4>1. C(t - 1) = C(t) - w[t] /\ t - 1 \in V /\ t - 1 < t
          BY <1>1, <3>2
        <4>2. u * M > C(t - 1) * Grid
          BY <2>2, <4>1
        <4> QED BY <1>0, <2>0, <2>2, <4>1, <4>2
      <3> QED BY <3>1, <3>2
    <2>3. CASE In(t)
      <3>1. ASSUME NEW s \in V, s < t PROVE u * M > C(s) * Grid
        <4>1. C(s) <= C(t) - w[t] /\ C(s) \in Nat
          BY <1>1, <3>1
        <4>2. C(s) * Grid <= (C(t) - w[t]) * Grid
          BY <1>0, <2>1, <4>1, NatTimes
        <4> QED BY <1>0, <2>0, <2>1, <2>3, <4>2
      <3> QED BY <2>3, <3>1
    <2> QED BY <2>2, <2>3
  <1>6. ASSUME NEW t \in V, First(t), NEW s \in V, First(s) PROVE t = s
    <2>0. \A r \in V : C(r) * Grid \in Nat
      BY <1>0, <1>1, ProductNat
    <2>1. ~ (s < t) /\ ~ (t < s)
      BY <1>0, <1>6, <2>0
    <2> QED BY <2>1
  <1>7. SampleFromProbs(w, u) \in V /\ First(SampleFromProbs(w, u))
    <2> HIDE DEF First, V
    <2> QED BY <1>2, <1>4
  <1> HIDE DEF First, In
  <1>8. \A t \in V : SampleFromProbs(w, u) = t <=> In(t)
    BY <1>5, <1>6, <1>7
  <1> QED BY <1>7, <1>8 DEF In, C, M

\* A token without weight is not sampled.
LEMMA SampledHasWeight ==
    ASSUME NEW v \in Nat, NEW w, DOMAIN w = 0 .. v - 1, Weights(w, 0 .. v - 1),
           v > 0, Mass(w) > 0, NEW u \in Nat, u > 0, u < Grid
    PROVE  SampleFromProbs(w, u) \in 0 .. v - 1 /\ w[SampleFromProbs(w, u)] > 0
  <1> DEFINE t == SampleFromProbs(w, u)
  <1>1. /\ t \in 0 .. v - 1 /\ (Cdf(w, t) - w[t]) * Grid < u * Mass(w)
        /\ u * Mass(w) <= Cdf(w, t) * Grid
    BY SampleIs
  <1>2. Cdf(w, t) \in Nat /\ w[t] \in Nat /\ Mass(w) \in Nat
    BY <1>1, CdfFacts
  <1> HIDE DEF t
  <1>3. w[t] # 0
    <2> SUFFICES ASSUME w[t] = 0 PROVE FALSE
      OBVIOUS
    <2>1. Cdf(w, t) - w[t] = Cdf(w, t)
      BY <1>2
    <2>2. Cdf(w, t) * Grid \in Nat /\ u * Mass(w) \in Nat
      BY <1>2, SamplerAssumption, ProductNat
    <2> QED BY <1>1, <2>1, <2>2
  <1> QED BY <1>1, <1>2, <1>3 DEF t

-----------------------------------------------------------------------------
(* Counting the random numbers *)

LEMMA BetweenFacts ==
    /\ IsFiniteSet(Between) /\ Between \subseteq Nat
    /\ \A k \in Between : k > 0 /\ k < Grid
  <1>1. Grid \in Nat /\ Grid > 0
    BY SamplerAssumption
  <1>2. IsFiniteSet(0 .. Grid - 1)
    <2>1. 0 \in Int /\ Grid - 1 \in Int
      BY <1>1
    <2> QED BY <2>1, FS_Interval
  <1>3. Between \subseteq 0 .. Grid - 1 /\ \A k \in Between : k % 2 = 1
    BY DEF Between
  <1>4. IsFiniteSet(Between)
    BY <1>2, <1>3, FS_Subset
  <1>5. ASSUME NEW k \in Between PROVE k \in Nat /\ k > 0 /\ k < Grid
    <2>1. k \in 0 .. Grid - 1 /\ k % 2 = 1
      BY <1>3
    <2> QED BY <1>1, <2>1
  <1> QED BY <1>4, <1>5

\* The odd numbers of a stretch between two even ones.
LEMMA OddsBetween ==
    ASSUME NEW a \in Nat, NEW b \in Nat, a <= b, 2 * b <= Grid
    PROVE  Cardinality({k \in Between : 2 * a < k /\ k <= 2 * b}) = b - a
  <1> DEFINE O == {k \in Between : 2 * a < k /\ k <= 2 * b}
             I == (a + 1) .. b
             f == [i \in I |-> 2 * i - 1]
  <1>0. Grid \in Nat
    BY SamplerAssumption
  <1>1. \A i \in I : f[i] \in O
    <2> TAKE i \in I
    <2>1. i \in Nat /\ a + 1 <= i /\ i <= b
      OBVIOUS
    <2>2. 2 * i - 1 \in 0 .. Grid - 1 /\ 2 * a < 2 * i - 1 /\ 2 * i - 1 <= 2 * b
      BY <1>0, <2>1
    <2>3. (2 * i - 1) % 2 = 1
      BY <2>1
    <2> QED BY <2>2, <2>3 DEF Between
  <1>2. \A i, l \in I : f[i] = f[l] => i = l
    OBVIOUS
  <1>3. \A k \in O : \E i \in I : f[i] = k
    <2> TAKE k \in O
    <2>1. k \in Nat /\ k % 2 = 1 /\ 2 * a < k /\ k <= 2 * b
      BY <1>0 DEF Between
    <2>2. PICK l \in Nat : k = 2 * l + 1
      <3>1. k = 2 * (k \div 2) + 1 /\ k \div 2 \in Nat
        BY <2>1
      <3> QED BY <3>1
    <2>3. l + 1 \in I /\ f[l + 1] = k
      BY <2>1, <2>2
    <2> QED BY <2>3
  <1>4. IsFiniteSet(I) /\ Cardinality(I) = b - a
    <2>1. a + 1 \in Int /\ b \in Int
      OBVIOUS
    <2>2. IsFiniteSet(I) /\ Cardinality(I) = IF a + 1 > b THEN 0 ELSE b - (a + 1) + 1
      BY <2>1, FS_Interval
    <2> QED BY <2>2
  <1>5. f \in Bijection(I, O)
    <2>1. f \in [I -> O]
      BY <1>1
    <2> HIDE DEF I, O, f
    <2>2. f \in Injection(I, O) /\ f \in Surjection(I, O)
      BY <1>2, <1>3, <2>1 DEF Injection, Surjection, IsInjective
    <2> QED BY <2>2 DEF Bijection
  <1> HIDE DEF I, O, f
  <1>6. Cardinality(I) = Cardinality(O)
    <2>1. ExistsBijection(I, O)
      BY <1>5 DEF ExistsBijection
    <2> QED BY <1>4, <2>1, FS_Bijection
  <1> QED BY <1>4, <1>6 DEF O

LEMMA AllOdds == 2 * Cardinality(Between) = Grid /\ Cardinality(Between) \in Nat /\ 1 \in Between
  <1>1. Unit \in Nat /\ Unit > 0 /\ Grid \in Nat
    BY SamplerAssumption
  <1>2. PICK k \in Nat : Grid = 2 * 1 * k /\ k > 0
    BY <1>1, GridFits
  <1>3. Grid = 2 * k
    BY <1>2
  <1>4. Cardinality({l \in Between : 2 * 0 < l /\ l <= 2 * k}) = k - 0
    <2>1. 0 \in Nat /\ 0 <= k /\ 2 * k <= Grid
      BY <1>1, <1>3
    <2> QED BY <2>1, OddsBetween
  <1>5. {l \in Between : 2 * 0 < l /\ l <= 2 * k} = Between
    <2>1. \A l \in Between : 2 * 0 < l /\ l <= 2 * k
      <3> TAKE l \in Between
      <3>1. l \in Nat /\ l > 0 /\ l < Grid
        BY BetweenFacts
      <3> QED BY <1>3, <3>1
    <2> QED BY <2>1
  <1>6. 1 \in Between
    BY <1>2, <1>3 DEF Between
  <1> QED BY <1>3, <1>4, <1>5, <1>6

LEMMA NatCancel ==
    ASSUME NEW a \in Nat, NEW b \in Nat, NEW c \in Nat, c > 0
    PROVE  /\ a * c <= b * c <=> a <= b
           /\ a * c < b * c <=> a < b
           /\ a * c = b * c <=> a = b
  <1>1. a <= b => a * c <= b * c
    BY NatTimes
  <1>2. a < b => a * c < b * c
    <2> SUFFICES ASSUME a < b PROVE a * c < b * c
      OBVIOUS
    <2>1. (a + 1) * c <= b * c
      BY NatTimes
    <2>2. (a + 1) * c = a * c + c
      OBVIOUS
    <2> QED BY <2>1, <2>2, ProductNat
  <1>3. b < a => b * c < a * c
    <2> SUFFICES ASSUME b < a PROVE b * c < a * c
      OBVIOUS
    <2>1. (b + 1) * c <= a * c
      BY NatTimes
    <2>2. (b + 1) * c = b * c + c
      OBVIOUS
    <2> QED BY <2>1, <2>2, ProductNat
  <1>4. a * c \in Nat /\ b * c \in Nat
    BY ProductNat
  <1> QED BY <1>1, <1>2, <1>3, <1>4

DrawsFrom(w, t) == {u \in Between : SampleFromProbs(w, u) = t}

\* The random numbers that give t: as many as the share of t.
LEMMA SampledOften ==
    ASSUME NEW v \in Nat, NEW w, DOMAIN w = 0 .. v - 1, Weights(w, 0 .. v - 1),
           v > 0, Mass(w) > 0, Mass(w) <= Unit, NEW t \in 0 .. v - 1
    PROVE  /\ Cardinality(DrawsFrom(w, t)) \in Nat
           /\ 2 * Cardinality(DrawsFrom(w, t)) * Mass(w) = w[t] * Grid
  <1> DEFINE M == Mass(w)
             C == Cdf(w, t)
             x == w[t]
             T == DrawsFrom(w, t)
  <1>1. /\ M \in Nat /\ M > 0 /\ M <= Unit /\ C \in Nat /\ x \in Nat /\ x <= C /\ C <= M
        /\ Grid \in Nat
    BY CdfFacts, SamplerAssumption
  <1>2. PICK k \in Nat : Grid = 2 * M * k /\ k > 0
    BY <1>1, GridFits
  <1>3. ASSUME NEW u \in Between
        PROVE  SampleFromProbs(w, u) = t <=> (C - x) * Grid < u * M /\ u * M <= C * Grid
    <2>1. u \in Nat /\ u > 0 /\ u < Grid
      BY BetweenFacts
    <2> QED BY <2>1, SampleIs
  <1> HIDE DEF M, C, x
  <1>4. PICK a \in Nat : C = a + x
    <2>1. C - x \in Nat /\ C = (C - x) + x
      BY <1>1
    <2> QED BY <2>1
  <1> DEFINE lo == a * k
             hi == C * k
             ex == x * k
  <1>5. lo \in Nat /\ hi \in Nat /\ ex \in Nat /\ hi = lo + ex
    <2>1. lo \in Nat /\ hi \in Nat /\ ex \in Nat
      BY <1>1, ProductNat
    <2>2. (a + x) * k = a * k + x * k
      BY <1>1
    <2> QED BY <1>4, <2>1, <2>2
  <1>6. (C - x) * Grid = (2 * lo) * M /\ C * Grid = (2 * hi) * M
    <2>1. C - x = a
      BY <1>1, <1>4
    <2>2. a * (2 * M * k) = (2 * (a * k)) * M /\ C * (2 * M * k) = (2 * (C * k)) * M
      BY <1>1
    <2> QED BY <1>2, <2>1, <2>2
  <1>7. 2 * hi <= Grid
    <2>1. C * k <= M * k /\ M * k \in Nat
      BY <1>1, NatTimes
    <2>2. Grid = 2 * (M * k)
      BY <1>1, <1>2
    <2> HIDE DEF lo, ex
    <2>3. hi <= M * k
      BY <2>1
    <2> HIDE DEF hi
    <2> QED BY <1>5, <2>1, <2>2, <2>3
  <1>8. 2 * ex * M = x * Grid
    <2>1. 2 * (x * k) * M = x * (2 * M * k)
      BY <1>1
    <2> QED BY <1>2, <2>1
  <1> HIDE DEF lo, hi, ex
  <1>9. T = {u \in Between : 2 * lo < u /\ u <= 2 * hi}
    <2>1. ASSUME NEW u \in Between
          PROVE  SampleFromProbs(w, u) = t <=> 2 * lo < u /\ u <= 2 * hi
      <3>1. u \in Nat /\ 2 * lo \in Nat /\ 2 * hi \in Nat
        BY <1>5, BetweenFacts
      <3>2. (2 * lo) * M < u * M <=> 2 * lo < u
        BY <1>1, <3>1, NatCancel
      <3>3. u * M <= (2 * hi) * M <=> u <= 2 * hi
        BY <1>1, <3>1, NatCancel
      <3> QED BY <1>3, <1>6, <3>2, <3>3
    <2> QED BY <2>1 DEF DrawsFrom
  <1>10. Cardinality(T) = ex
    <2>1. lo <= hi
      BY <1>5
    <2>2. Cardinality(T) = hi - lo
      BY <1>5, <1>7, <1>9, <2>1, OddsBetween
    <2> QED BY <1>5, <2>2
  <1> QED BY <1>5, <1>8, <1>10 DEF M, x

\* The random numbers that accept a draft of shares p and q: min(p, q) of q.
LEMMA PassedOften ==
    ASSUME NEW p \in Nat, NEW q \in Nat, p <= Unit, q <= Unit, q > 0,
           NEW X, X = {r \in Between : ~ (r * q > p * Grid)}
    PROVE  Cardinality(X) \in Nat /\ 2 * q * Cardinality(X) = (IF p < q THEN p ELSE q) * Grid
  <1> DEFINE m == IF p < q THEN p ELSE q
  <1>1. PICK k \in Nat : Grid = 2 * q * k /\ k > 0
    BY GridFits
  <1>2. m \in Nat /\ m <= q /\ Grid \in Nat
    BY SamplerAssumption
  <1> DEFINE hi == m * k
  <1>3. hi \in Nat /\ 2 * hi <= Grid
    <2>1. m * k <= q * k /\ m * k \in Nat /\ q * k \in Nat
      BY <1>2, NatTimes
    <2>2. Grid = 2 * (q * k)
      BY <1>1
    <2> HIDE DEF m
    <2>3. hi <= q * k
      BY <2>1
    <2> HIDE DEF hi
    <2> QED BY <2>1, <2>2, <2>3 DEF hi
  <1>4. X = {r \in Between : 2 * 0 < r /\ r <= 2 * hi}
    <2>1. ASSUME NEW r \in Between PROVE ~ (r * q > p * Grid) <=> 2 * 0 < r /\ r <= 2 * hi
      <3>1. r \in Nat /\ r > 0 /\ r < Grid
        BY BetweenFacts
      <3>2. p * Grid = (2 * (p * k)) * q
        <4>1. p * (2 * q * k) = (2 * (p * k)) * q
          OBVIOUS
        <4> QED BY <1>1, <4>1
      <3>3. p * k \in Nat /\ r * q \in Nat /\ (2 * (p * k)) * q \in Nat
        BY <3>1, ProductNat
      <3>4. r * q <= (2 * (p * k)) * q <=> r <= 2 * (p * k)
        BY <3>1, <3>3, NatCancel
      <3>5. ~ (r * q > p * Grid) <=> r <= 2 * (p * k)
        BY <3>2, <3>3, <3>4
      <3>6. CASE p < q
        BY <3>1, <3>5, <3>6
      <3>7. CASE q <= p
        <4>1. q * k <= p * k /\ q * k \in Nat
          BY <3>7, NatTimes
        <4>2. Grid = 2 * (q * k)
          BY <1>1
        <4>3. hi = q * k
          BY <3>7
        <4> HIDE DEF hi
        <4>4. r <= 2 * hi /\ r <= 2 * (p * k)
          BY <1>2, <3>1, <3>3, <4>1, <4>2, <4>3
        <4> QED BY <3>1, <3>5, <4>4
      <3> QED BY <3>6, <3>7
    <2> QED BY <2>1
  <1>5. Cardinality(X) = hi
    <2> HIDE DEF hi
    <2>1. 0 \in Nat /\ 0 <= hi
      BY <1>3
    <2>2. Cardinality(X) = hi - 0
      BY <1>3, <1>4, <2>1, OddsBetween
    <2> QED BY <1>3, <2>2
  <1>6. 2 * q * hi = m * Grid
    <2> HIDE DEF m
    <2>1. 2 * q * (m * k) = m * (2 * q * k)
      BY <1>2
    <2> QED BY <1>1, <2>1
  <1> QED BY <1>3, <1>5, <1>6

-----------------------------------------------------------------------------
(* What is accepted and emitted *)

LEMMA DraftsAreSequences ==
    ASSUME NEW V, NEW g \in Nat, NEW d \in [1 .. g -> V]
    PROVE  d \in Seq(V) /\ Len(d) = g /\ DOMAIN d = 1 .. g
  OBVIOUS

LEMMA Accepted ==
    ASSUME NEW V, NEW g \in Nat, NEW d \in [1 .. g -> V], NEW c, NEW rs
    PROVE  /\ NumAccepted(c, d, rs) \in 0 .. g
           /\ \A i \in 1 .. NumAccepted(c, d, rs) : ~ Rejects(c, i, d[i], rs[i])
           /\ NumAccepted(c, d, rs) < g =>
                  LET n == NumAccepted(c, d, rs) IN Rejects(c, n + 1, d[n + 1], rs[n + 1])
  <1> DEFINE R == {i \in 1 .. g : Rejects(c, i, d[i], rs[i])}
             n == NumAccepted(c, d, rs)
  <1>1. n = IF R = {} THEN g ELSE Min(R) - 1
    BY DraftsAreSequences DEF NumAccepted
  <1>2. CASE R = {}
    <2>1. n = g
      BY <1>1, <1>2
    <2> HIDE DEF n
    <2> QED BY <1>2, <2>1 DEF n
  <1>3. CASE R # {}
    <2> DEFINE m == CHOOSE x \in R : \A y \in R : x <= y
    <2>1. m \in R /\ \A y \in R : m <= y
      <3>1. R \subseteq Nat
        OBVIOUS
      <3> HIDE DEF R
      <3>2. \E x \in R : \A y \in R : x <= y
        BY <1>3, <3>1, LeastExists
      <3> QED BY <3>2
    <2>2. Min(R) = m
      BY DEF Min
    <2> HIDE DEF m
    <2>3. n = m - 1
      BY <1>1, <1>3, <2>2
    <2> HIDE DEF n
    <2>4. m \in 1 .. g /\ Rejects(c, m, d[m], rs[m])
      BY <2>1
    <2>5. n \in 0 .. g /\ n + 1 = m
      BY <2>3, <2>4
    <2>6. ASSUME NEW i \in 1 .. n PROVE ~ Rejects(c, i, d[i], rs[i])
      <3>1. i \in 1 .. g /\ ~ (m <= i)
        BY <2>4, <2>5
      <3> QED BY <2>1, <3>1
    <2> QED BY <2>4, <2>5, <2>6 DEF n
  <1> QED BY <1>2, <1>3

\* The first n drafts and one token more.
LEMMA EmittedIs ==
    ASSUME NEW V, NEW g \in Nat, NEW d \in [1 .. g -> V], NEW n \in 0 .. g, NEW b,
           NEW e, e = Append(SubSeq(d, 1, n), b)
    PROVE  /\ Len(e) = n + 1 /\ DOMAIN e = 1 .. n + 1
           /\ \A i \in 1 .. n : e[i] = d[i]
           /\ e[n + 1] = b
  <1> DEFINE s == SubSeq(d, 1, n)
  <1>1. s = [i \in 1 .. n |-> d[i]]
    OBVIOUS
  <1>2. s \in Seq(V) /\ Len(s) = n /\ \A i \in 1 .. n : s[i] = d[i]
    BY <1>1
  <1> HIDE DEF s
  <1>3. s \in Seq(V \cup {b})
    BY <1>1, <1>2
  <1>4. /\ Len(Append(s, b)) = n + 1 /\ DOMAIN Append(s, b) = 1 .. n + 1
        /\ \A i \in 1 .. n : Append(s, b)[i] = d[i]
        /\ Append(s, b)[n + 1] = b
    BY <1>2, <1>3
  <1> QED BY <1>4 DEF s

\* max(0, p - q) is a row of weights.
LEMMA ResidualIs ==
    ASSUME NEW v \in Nat, NEW p \in Rows(v), NEW q \in Rows(v)
    PROVE  /\ DOMAIN Residual(p, q) = 0 .. v - 1 /\ Weights(Residual(p, q), 0 .. v - 1)
           /\ \A t \in 0 .. v - 1 :
                  /\ Residual(p, q)[t] \in Nat /\ p[t] \in Nat /\ q[t] \in Nat
                  /\ p[t] = (IF p[t] < q[t] THEN p[t] ELSE q[t]) + Residual(p, q)[t]
           /\ Mass(Residual(p, q)) \in Nat /\ Mass(Residual(p, q)) <= Unit
           /\ Mass(Residual(p, q)) = Sum(Residual(p, q), 0 .. v - 1)
  <1> DEFINE V == 0 .. v - 1
             R == Residual(p, q)
             least == [t \in V |-> IF p[t] < q[t] THEN p[t] ELSE q[t]]
  <1>1. /\ IsFiniteSet(V) /\ DOMAIN p = V /\ DOMAIN q = V /\ Sum(p, V) = Unit /\ Unit \in Nat
        /\ \A t \in V : p[t] \in 0 .. Unit /\ q[t] \in 0 .. Unit
    BY RowFacts
  <1>2. R = [t \in V |-> IF p[t] > q[t] THEN p[t] - q[t] ELSE 0]
    BY <1>1 DEF Residual
  <1>3. \A t \in V : R[t] \in Nat /\ p[t] \in Nat /\ q[t] \in Nat /\ least[t] \in Nat /\ p[t] = least[t] + R[t]
    <2> TAKE t \in V
    <2>1. p[t] \in Nat /\ q[t] \in Nat
      BY <1>1
    <2>2. R[t] = IF p[t] > q[t] THEN p[t] - q[t] ELSE 0
      BY <1>2
    <2>3. least[t] = IF p[t] < q[t] THEN p[t] ELSE q[t]
      OBVIOUS
    <2> HIDE DEF least, R
    <2> QED BY <2>1, <2>2, <2>3
  <1>4. Weights(R, V) /\ Weights(least, V) /\ DOMAIN R = V
    BY <1>2, <1>3 DEF Weights
  <1>5. Mass(R) = Sum(R, V)
    BY <1>4, MassIsSum
  <1>6. Mass(R) \in Nat /\ Mass(R) <= Unit
    <2> HIDE DEF R, least, V
    <2>1. Sum(p, V) = Sum(least, V) + Sum(R, V)
      BY <1>1, <1>3, <1>4, SumAdds
    <2>2. Sum(least, V) \in Nat /\ Sum(R, V) \in Nat
      BY <1>1, <1>4, SumType
    <2> QED BY <1>1, <1>5, <2>1, <2>2
  <1> QED BY <1>3, <1>4, <1>5, <1>6

\* The row the last token is drawn from.
LEMMA AdjustedIs ==
    ASSUME NEW v \in Nat, v > 0, NEW c, NEW n \in Nat, NEW r \in BOOLEAN,
           c.p[n + 1] \in Rows(v), c.q[n + 1] \in Rows(v),
           NEW w, w = AdjustedDistribution(c, n, r)
    PROVE  /\ DOMAIN w = 0 .. v - 1 /\ Weights(w, 0 .. v - 1) /\ Mass(w) \in Nat
           /\ Mass(w) > 0 /\ Mass(w) <= Unit
           /\ \A t \in 0 .. v - 1 : w[t] > 0 => c.p[n + 1][t] > 0
  <1> DEFINE p == c.p[n + 1]
             q == c.q[n + 1]
             R == Residual(p, q)
  <1>1. w = IF r /\ Mass(R) > 0 THEN R ELSE p
    BY DEF AdjustedDistribution
  <1>2. CASE w = R /\ Mass(R) > 0
    <2>1. /\ DOMAIN R = 0 .. v - 1 /\ Weights(R, 0 .. v - 1)
          /\ Mass(R) \in Nat /\ Mass(R) <= Unit
          /\ \A t \in 0 .. v - 1 :
                    /\ R[t] \in Nat /\ p[t] \in Nat /\ q[t] \in Nat
                    /\ p[t] = (IF p[t] < q[t] THEN p[t] ELSE q[t]) + R[t]
      BY ResidualIs
    <2>2. \A t \in 0 .. v - 1 : R[t] > 0 => p[t] > 0
      <3> HIDE DEF p, q, R
      <3> QED BY <2>1
    <2> HIDE DEF R
    <2> QED BY <1>2, <2>1, <2>2
  <1>3. CASE w = p
    <2>1. /\ DOMAIN p = 0 .. v - 1 /\ Weights(p, 0 .. v - 1) /\ Mass(p) = Unit /\ Unit \in Nat
          /\ Unit > 0
      BY RowFacts
    <2> QED BY <1>3, <2>1
  <1> QED BY <1>1, <1>2, <1>3

-----------------------------------------------------------------------------
(* No impossible token *)

IInv ==
    /\ case \in Cases /\ drafts \in [1 .. Gamma -> Vocab] /\ DraftWeight(case, drafts) > 0
    /\ result # NoResult => \E rs \in [1 .. Gamma -> Draws], u \in Draws :
                                result = Acceptance(case, drafts, rs, u)

\* The case and its drafts stay; a result comes from speculative_acceptance.
THEOREM Invariance == SamplerSpec => []IInv
  <1>1. SamplerInit => IInv
    BY DEF SamplerInit, IInv
  <1>2. IInv /\ [SamplerNext]_samplerVars => IInv'
    <2> SUFFICES ASSUME IInv, [SamplerNext]_samplerVars PROVE IInv'
      OBVIOUS
    <2>1. CASE SpeculativeAcceptance
      BY <2>1 DEF IInv, SpeculativeAcceptance, Gamma, Vocab
    <2>2. CASE UNCHANGED samplerVars
      BY <2>2 DEF IInv, samplerVars, Gamma, Vocab
    <2> QED BY <2>1, <2>2 DEF SamplerNext
  <1> QED BY <1>1, <1>2, PTL DEF SamplerSpec

\* The case has rows over v tokens.
Setting(v) ==
    /\ v \in Nat /\ v > 0 /\ Vocab = 0 .. v - 1 /\ Gamma \in Nat /\ Gamma > 0
    /\ drafts \in [1 .. Gamma -> 0 .. v - 1]
    /\ \A i \in 1 .. Gamma + 1 : case.p[i] \in Rows(v) /\ case.q[i] \in Rows(v)

LEMMA CurrentRows == ASSUME IInv PROVE \E v \in Nat : Setting(v)
  <1>1. case \in Cases /\ drafts \in [1 .. Gamma -> Vocab]
    BY DEF IInv
  <1>2. PICK v \in Nat : /\ v > 0 /\ DOMAIN case.p[1] = 0 .. v - 1 /\ Len(case.p) = Len(case.q)
                         /\ Len(case.p) \in Nat /\ Len(case.p) > 1
                         /\ \A i \in 1 .. Len(case.p) : case.p[i] \in Rows(v) /\ case.q[i] \in Rows(v)
    BY <1>1, CaseRows
  <1>3. Gamma + 1 = Len(case.p) /\ Gamma \in Nat /\ Gamma > 0
    BY <1>2 DEF Gamma
  <1>4. Vocab = 0 .. v - 1
    BY <1>2 DEF Vocab
  <1> QED BY <1>1, <1>2, <1>3, <1>4 DEF Setting

LEMMA AcceptedIsPossible ==
    ASSUME NEW p \in Nat, NEW q \in Nat, NEW r \in Nat, r > 0, q # 0, ~ (r * q > p * Grid)
    PROVE  p > 0
  <1> SUFFICES ASSUME p = 0 PROVE FALSE
    OBVIOUS
  <1>1. r * q > 0 /\ p * Grid = 0
    BY SamplerAssumption
  <1> QED BY <1>1

LEMMA NothingImpossible ==
    ASSUME IInv PROVE NoImpossibleToken
  <1> SUFFICES ASSUME result # NoResult, NEW k \in DOMAIN Emitted(drafts, result)
               PROVE  case.p[k][Emitted(drafts, result)[k]] > 0
    BY DEF NoImpossibleToken
  <1>1. PICK rs \in [1 .. Gamma -> Draws], u \in Draws : result = Acceptance(case, drafts, rs, u)
    BY DEF IInv
  <1>2. PICK v \in Nat : /\ v > 0 /\ Vocab = 0 .. v - 1 /\ Gamma \in Nat /\ Gamma > 0
                         /\ drafts \in [1 .. Gamma -> 0 .. v - 1]
                         /\ \A i \in 1 .. Gamma + 1 : case.p[i] \in Rows(v) /\ case.q[i] \in Rows(v)
    BY CurrentRows DEF Setting
  <1> DEFINE n == NumAccepted(case, drafts, rs)
             w == AdjustedDistribution(case, n, n < Len(drafts))
             b == SampleFromProbs(w, u)
  <1>3. result = [n |-> n, bonus |-> b]
    BY <1>1 DEF Acceptance
  <1>4. n \in 0 .. Gamma /\ \A i \in 1 .. n : ~ Rejects(case, i, drafts[i], rs[i])
    BY <1>2, Accepted
  <1>5. u \in Nat /\ u > 0 /\ u < Grid /\ \A i \in 1 .. Gamma : rs[i] \in Nat /\ rs[i] > 0
    <2>1. \A x \in Draws : x \in Nat /\ x > 0 /\ x < Grid
      BY SamplerAssumption
    <2>2. \A i \in 1 .. Gamma : rs[i] \in Draws
      OBVIOUS
    <2> QED BY <2>1, <2>2
  <1>6. case.p[n + 1][b] > 0
    <2>1. case.p[n + 1] \in Rows(v) /\ case.q[n + 1] \in Rows(v) /\ n \in Nat
      BY <1>2, <1>4
    <2>2. /\ DOMAIN w = 0 .. v - 1 /\ Weights(w, 0 .. v - 1) /\ Mass(w) \in Nat /\ Mass(w) > 0
          /\ \A t \in 0 .. v - 1 : w[t] > 0 => case.p[n + 1][t] > 0
      <3>1. (n < Len(drafts)) \in BOOLEAN
        OBVIOUS
      <3> HIDE DEF n
      <3> QED BY <1>2, <2>1, <3>1, AdjustedIs
    <2> HIDE DEF w
    <2>3. b \in 0 .. v - 1 /\ w[b] > 0
      BY <1>2, <1>5, <2>2, SampledHasWeight
    <2> QED BY <2>2, <2>3
  <1> HIDE DEF n, b, w
  <1>7. /\ DOMAIN Emitted(drafts, result) = 1 .. n + 1
        /\ \A i \in 1 .. n : Emitted(drafts, result)[i] = drafts[i]
        /\ Emitted(drafts, result)[n + 1] = b
    <2>1. result.n = n /\ result.bonus = b
      BY <1>3
    <2>2. Gamma \in Nat /\ n \in 0 .. Gamma /\ drafts \in [1 .. Gamma -> 0 .. v - 1]
      BY <1>2, <1>4
    <2>3. Emitted(drafts, result) = Append(SubSeq(drafts, 1, n), b)
      BY <2>1 DEF Emitted
    <2> HIDE DEF Emitted
    <2> QED BY <2>2, <2>3, EmittedIs
  <1>8. CASE k = n + 1
    BY <1>6, <1>7, <1>8
  <1>9. CASE k \in 1 .. n
    <2>1. k \in 1 .. Gamma /\ Emitted(drafts, result)[k] = drafts[k] /\ drafts[k] \in 0 .. v - 1
      BY <1>2, <1>4, <1>7, <1>9
    <2> DEFINE p == case.p[k][drafts[k]]
               q == case.q[k][drafts[k]]
               r == rs[k]
    <2>2. p \in Nat /\ q \in Nat
      <3>1. case.p[k] \in Rows(v) /\ case.q[k] \in Rows(v)
        BY <1>2, <2>1
      <3>2. \A t \in 0 .. v - 1 : case.p[k][t] \in 0 .. Unit /\ case.q[k][t] \in 0 .. Unit
        BY <3>1, RowFacts
      <3>3. Unit \in Nat
        BY SamplerAssumption
      <3> QED BY <2>1, <3>2, <3>3
    <2>3. r \in Nat /\ r > 0
      BY <1>5, <2>1
    <2>4. q # 0 /\ ~ (r * q > p * Grid)
      BY <1>4, <1>9 DEF Rejects
    <2> HIDE DEF p, q, r
    <2>5. p > 0
      BY <2>2, <2>3, <2>4, AcceptedIsPossible
    <2> QED BY <2>1, <2>5 DEF p
  <1> QED BY <1>4, <1>7, <1>8, <1>9

\* No token the target gives no probability to is accepted or drawn, whatever
\* the rows, the drafts and the random numbers (sampler.py).
THEOREM NoTokenIsImpossible == SamplerSpec => []NoImpossibleToken
  BY Invariance, NothingImpossible, PTL

-----------------------------------------------------------------------------
(* Counting the texts *)

LEMMA FunctionsFinite ==
    ASSUME NEW D, IsFiniteSet(D), NEW B, IsFiniteSet(B)
    PROVE  IsFiniteSet([D -> B])
  <1> DEFINE pairs == [f \in [D -> B] |-> {<<i, f[i]>> : i \in D}]
             T == SUBSET (D \X B)
  <1>1. IsFiniteSet(T)
    BY FS_Product, FS_SUBSET
  <1>2. \A f \in [D -> B] : pairs[f] \in T
    OBVIOUS
  <1>3. \A f, h \in [D -> B] : pairs[f] = pairs[h] => f = h
    <2> SUFFICES ASSUME NEW f \in [D -> B], NEW h \in [D -> B], pairs[f] = pairs[h],
                        NEW i \in D
                 PROVE  f[i] = h[i]
      <3> HIDE DEF pairs
      <3> QED OBVIOUS
    <2>1. <<i, f[i]>> \in pairs[f]
      OBVIOUS
    <2>2. <<i, f[i]>> \in {<<l, h[l]>> : l \in D}
      BY <2>1
    <2> QED BY <2>2
  <1> HIDE DEF T
  <1>4. pairs \in Injection([D -> B], T)
    <2>1. pairs \in [[D -> B] -> T]
      BY <1>2
    <2> HIDE DEF pairs
    <2> QED BY <1>3, <2>1 DEF Injection, IsInjective
  <1> QED BY <1>1, <1>4, FS_Injection

KeyedIn(pi, X, R) == {x \in X : pi[x] \in R}

\* When every x can be moved to every key and back, each key has as many.
Movable(X, K, pi, move) ==
    /\ \A x \in X : pi[x] \in K
    /\ \A x \in X, k \in K : /\ move[<<x, k>>] \in X /\ pi[move[<<x, k>>]] = k
                             /\ move[<<move[<<x, k>>], pi[x]>>] = x

LEMMA EvenFibers ==
    ASSUME NEW X, IsFiniteSet(X), NEW K, IsFiniteSet(K), NEW pi, NEW move, Movable(X, K, pi, move)
    PROVE  \E C \in Nat : \A R \in SUBSET K :
               Cardinality(KeyedIn(pi, X, R)) = C * Cardinality(R)
  <1> DEFINE Fiber(k) == {x \in X : pi[x] = k}
  <1>0. /\ \A x \in X : pi[x] \in K
        /\ \A x \in X, k \in K : /\ move[<<x, k>>] \in X /\ pi[move[<<x, k>>]] = k
                                 /\ move[<<move[<<x, k>>], pi[x]>>] = x
    BY DEF Movable
  <1>1. ASSUME NEW k \in K, NEW l \in K PROVE Cardinality(Fiber(k)) = Cardinality(Fiber(l))
    <2> DEFINE f == [x \in Fiber(k) |-> move[<<x, l>>]]
               S == Fiber(k)
               T == Fiber(l)
    <2>1. IsFiniteSet(S)
      BY FS_Subset
    <2>2. \A x \in S : f[x] \in T
      BY <1>0
    <2>3. \A x, y \in S : f[x] = f[y] => x = y
      <3> SUFFICES ASSUME NEW x \in S, NEW y \in S, f[x] = f[y] PROVE x = y
        OBVIOUS
      <3>1. move[<<f[x], k>>] = x /\ move[<<f[y], k>>] = y
        BY <1>0
      <3> QED BY <3>1
    <2>4. \A y \in T : \E x \in S : f[x] = y
      <3> TAKE y \in T
      <3>1. move[<<y, k>>] \in S /\ f[move[<<y, k>>]] = y
        BY <1>0
      <3> QED BY <3>1
    <2>5. f \in [S -> T]
      BY <2>2
    <2> HIDE DEF f, S, T
    <2>6. f \in Injection(S, T) /\ f \in Surjection(S, T)
      BY <2>3, <2>4, <2>5 DEF Injection, Surjection, IsInjective
    <2>7. ExistsBijection(S, T)
      BY <2>6 DEF ExistsBijection, Bijection
    <2>8. Cardinality(T) = Cardinality(S)
      BY <2>1, <2>7, FS_Bijection
    <2> QED BY <2>8 DEF S, T
  <1>2. \A k \in K : Cardinality(Fiber(k)) \in Nat
    <2> TAKE k \in K
    <2>1. IsFiniteSet(Fiber(k))
      BY FS_Subset
    <2> QED BY <2>1, FS_CardinalityType
  <1>3. \E C \in Nat : \A k \in K : Cardinality(Fiber(k)) = C
    <2> HIDE DEF Fiber
    <2>1. CASE K = {}
      <3>1. 0 \in Nat
        OBVIOUS
      <3> QED BY <2>1, <3>1
    <2>2. CASE K # {}
      <3>1. PICK k \in K : TRUE
        BY <2>2
      <3>2. Cardinality(Fiber(k)) \in Nat
        BY <1>2
      <3> QED BY <1>1, <3>2
    <2> QED BY <2>1, <2>2
  <1>4. PICK C \in Nat : \A k \in K : Cardinality(Fiber(k)) = C
    BY <1>3
  <1>5. ASSUME NEW R \in SUBSET K PROVE Cardinality(KeyedIn(pi, X, R)) = C * Cardinality(R)
    <2> DEFINE Y == {x \in X : pi[x] \in R}
    <2>1. IsFiniteSet(Y) /\ IsFiniteSet(R) /\ \A x \in Y : pi[x] \in R
      BY FS_Subset
    <2>2. ASSUME NEW r \in R PROVE Cardinality(FiberOf(pi, Y, r)) = C
      <3>1. FiberOf(pi, Y, r) = Fiber(r)
        BY DEF FiberOf
      <3> QED BY <1>4, <3>1
    <2> HIDE DEF Y
    <2>3. Cardinality(Y) = C * Cardinality(R)
      BY <2>1, <2>2, CountFibers
    <2> QED BY <2>3 DEF Y, KeyedIn
  <1> QED BY <1>5

LEMMA SameSize ==
    ASSUME NEW S, IsFiniteSet(S), NEW T, NEW f, \A x \in S : f[x] \in T,
           \A x, y \in S : f[x] = f[y] => x = y, \A z \in T : \E x \in S : f[x] = z
    PROVE  Cardinality(T) = Cardinality(S) /\ IsFiniteSet(T)
  <1> DEFINE h == [x \in S |-> f[x]]
  <1>1. h \in [S -> T] /\ \A x \in S : h[x] = f[x]
    OBVIOUS
  <1> HIDE DEF h
  <1>2. h \in Injection(S, T) /\ h \in Surjection(S, T)
    BY <1>1 DEF Injection, Surjection, IsInjective
  <1>3. ExistsBijection(S, T)
    BY <1>2 DEF ExistsBijection, Bijection
  <1> QED BY <1>3, FS_Bijection

-----------------------------------------------------------------------------
(* Texts that go on with a token *)

Runs == [1 .. Gamma + 1 -> Between]
TextOf(d, dr) == Emitted(d, Acceptance(case, d, dr, dr[Gamma + 1]))

GoesOn(d, dr, x, t) ==
    /\ Len(TextOf(d, dr)) > Len(x) /\ SubSeq(d, 1, Len(x)) = x
    /\ TextOf(d, dr)[Len(x) + 1] = t

LEMMA RunsFinite == ASSUME IInv PROVE IsFiniteSet(Runs) /\ IsFiniteSet(DrawnDrafts)
  <1>1. PICK v \in Nat : /\ v > 0 /\ Vocab = 0 .. v - 1 /\ Gamma \in Nat /\ Gamma > 0
    BY CurrentRows DEF Setting
  <1>2. IsFiniteSet(1 .. Gamma + 1) /\ IsFiniteSet(1 .. Gamma) /\ IsFiniteSet(0 .. v - 1)
    <2>1. 1 \in Int /\ Gamma + 1 \in Int /\ Gamma \in Int /\ 0 \in Int /\ v - 1 \in Int
      BY <1>1
    <2> QED BY <2>1, FS_Interval
  <1>3. IsFiniteSet(Runs)
    BY <1>2, BetweenFacts, FunctionsFinite DEF Runs
  <1>4. IsFiniteSet([1 .. Gamma -> Vocab])
    BY <1>1, <1>2, FunctionsFinite
  <1>5. DrawnDrafts \subseteq [1 .. Gamma -> Vocab]
    BY DEF DrawnDrafts
  <1> QED BY <1>3, <1>4, <1>5, FS_Subset

LEMMA CountIsSum ==
    ASSUME NEW texts, NEW x, NEW t
    PROVE  Count(texts, x, t) =
               Sum([d \in DrawnDrafts |-> DraftWeight(case, d) * Cardinality(GoingOn(texts, d, x, t))],
                   DrawnDrafts)
  <1> DEFINE S == DrawnDrafts
             w == [d \in S |-> DraftWeight(case, d) * Cardinality(GoingOn(texts, d, x, t))]
  <1> HIDE DEF S
  <1>1. ASSUME NEW f
        PROVE  f = [s \in SUBSET S |-> IF s = {} THEN 0
                      ELSE DraftWeight(case, Picked(s)) * Cardinality(GoingOn(texts, Picked(s), x, t))
                           + f[s \ {Picked(s)}]]
               <=> AddsUp(f, w, S)
    <2>1. \A s \in SUBSET S : s # {} =>
              w[Picked(s)] = DraftWeight(case, Picked(s)) * Cardinality(GoingOn(texts, Picked(s), x, t))
      BY PickedIn
    <2> HIDE DEF w
    <2>2. [s \in SUBSET S |-> IF s = {} THEN 0
                      ELSE DraftWeight(case, Picked(s)) * Cardinality(GoingOn(texts, Picked(s), x, t))
                           + f[s \ {Picked(s)}]]
          = [s \in SUBSET S |-> IF s = {} THEN 0 ELSE w[Picked(s)] + f[s \ {Picked(s)}]]
      BY <2>1
    <2> QED BY <2>2 DEF AddsUp
  <1> HIDE DEF w
  <1>2. Count(texts, x, t) = Sum(w, S)
    BY <1>1 DEF Count, MapThenSumSet, MapThenFoldSet, Sum, Picked, S
  <1> QED BY <1>2 DEF w, S

LEMMA TextsCounted ==
    ASSUME IInv, NEW x, NEW t, NEW d \in DrawnDrafts
    PROVE  Cardinality(GoingOn(Texts, d, x, t))
           = Cardinality({dr \in Runs : GoesOn(d, dr, x, t)})
  <1> DEFINE S == {dr \in Runs : GoesOn(d, dr, x, t)}
             T == GoingOn(Texts, d, x, t)
             f == [dr \in Runs |-> <<d, dr, TextOf(d, dr)>>]
  <1>1. Texts = {<<e, dr, TextOf(e, dr)>> : e \in DrawnDrafts, dr \in Runs}
    BY DEF Texts, Runs, TextOf
  <1>2. IsFiniteSet(S)
    BY RunsFinite, FS_Subset
  <1>3. \A dr \in S : f[dr] \in T
    BY <1>1 DEF GoesOn, GoingOn
  <1>4. \A dr, ds \in S : f[dr] = f[ds] => dr = ds
    OBVIOUS
  <1>5. \A y \in T : \E dr \in S : f[dr] = y
    <2> TAKE y \in T
    <2>1. PICK e \in DrawnDrafts, dr \in Runs : y = <<e, dr, TextOf(e, dr)>>
      BY <1>1 DEF GoingOn
    <2>2. e = d /\ dr \in S /\ f[dr] = y
      BY <2>1 DEF GoesOn, GoingOn
    <2> QED BY <2>2
  <1> HIDE DEF S, T, f
  <1>6. Cardinality(T) = Cardinality(S)
    BY <1>2, <1>3, <1>4, <1>5, SameSize
  <1> QED BY <1>6 DEF S, T

Passes(d, dr, j) == \A i \in 1 .. j : ~ Rejects(case, i, d[i], dr[i])
Drawn(j, rejected, u) == SampleFromProbs(AdjustedDistribution(case, j, rejected), u)

Continues(d, dr, j, t) ==
    IF j = Gamma THEN Drawn(j, FALSE, dr[Gamma + 1]) = t
    ELSE IF Rejects(case, j + 1, d[j + 1], dr[j + 1]) THEN Drawn(j, TRUE, dr[Gamma + 1]) = t
    ELSE d[j + 1] = t

\* All of x is accepted and t is next: the next draft, or what takes its place.
LEMMA GoesOnIs ==
    ASSUME NEW v, Setting(v), NEW j \in 0 .. Gamma, NEW d \in [1 .. Gamma -> 0 .. v - 1],
           NEW dr \in Runs, NEW t, NEW x, Len(x) = j
    PROVE  GoesOn(d, dr, x, t) <=>
               SubSeq(d, 1, j) = x /\ Passes(d, dr, j) /\ Continues(d, dr, j, t)
  <1> DEFINE n == NumAccepted(case, d, dr)
             u == dr[Gamma + 1]
             b == SampleFromProbs(AdjustedDistribution(case, n, n < Gamma), u)
             e == TextOf(d, dr)
  <1>0. Gamma \in Nat /\ Gamma > 0
    BY DEF Setting
  <1>1. /\ n \in 0 .. Gamma /\ \A i \in 1 .. n : ~ Rejects(case, i, d[i], dr[i])
        /\ n < Gamma => Rejects(case, n + 1, d[n + 1], dr[n + 1])
    BY <1>0, Accepted
  <1>2. Len(d) = Gamma
    BY <1>0, DraftsAreSequences
  <1>3. e = Append(SubSeq(d, 1, n), b)
    BY <1>2 DEF TextOf, Acceptance, Emitted
  <1> HIDE DEF n, e
  <1>4. Len(e) = n + 1 /\ (\A i \in 1 .. n : e[i] = d[i]) /\ e[n + 1] = b
    BY <1>0, <1>1, <1>3, EmittedIs
  <1>5. n >= j <=> Passes(d, dr, j)
    <2>1. CASE n >= j
      BY <1>0, <1>1, <2>1 DEF Passes
    <2>2. CASE n < j
      <3>1. n + 1 \in 1 .. j /\ n < Gamma
        BY <1>0, <1>1, <2>2
      <3> QED BY <1>0, <1>1, <2>2, <3>1 DEF Passes
    <2> QED BY <1>0, <1>1, <2>1, <2>2
  <1>6. GoesOn(d, dr, x, t) <=> n >= j /\ SubSeq(d, 1, j) = x /\ e[j + 1] = t
    <2>1. Len(e) > Len(x) <=> n >= j
      BY <1>0, <1>1, <1>4
    <2> QED BY <2>1 DEF GoesOn, e
  <1>7. CASE n > j
    <2>1. j + 1 \in 1 .. n /\ j # Gamma
      BY <1>0, <1>1, <1>7
    <2>2. e[j + 1] = d[j + 1] /\ ~ Rejects(case, j + 1, d[j + 1], dr[j + 1])
      BY <1>1, <1>4, <2>1
    <2> QED BY <1>5, <1>6, <1>7, <2>1, <2>2 DEF Continues
  <1>8. CASE n = j /\ j < Gamma
    <2>1. e[j + 1] = Drawn(j, TRUE, u) /\ Rejects(case, j + 1, d[j + 1], dr[j + 1]) /\ j # Gamma
      <3>1. (n < Gamma) = TRUE
        BY <1>8
      <3>2. e[j + 1] = Drawn(j, TRUE, u)
        BY <1>4, <1>8, <3>1 DEF Drawn
      <3> HIDE DEF b, u
      <3>3. Rejects(case, j + 1, d[j + 1], dr[j + 1]) /\ j # Gamma
        BY <1>0, <1>1, <1>8
      <3> QED BY <3>2, <3>3
    <2> QED BY <1>5, <1>6, <1>8, <2>1 DEF Continues
  <1>9. CASE n = j /\ j = Gamma
    <2>1. e[j + 1] = Drawn(j, FALSE, u)
      <3>1. (n < Gamma) = FALSE
        BY <1>0, <1>9
      <3> QED BY <1>4, <1>9, <3>1 DEF Drawn
    <2> QED BY <1>5, <1>6, <1>9, <2>1 DEF Continues
  <1>10. CASE n < j
    <2>1. ~ (n >= j)
      BY <1>0, <1>1, <1>10
    <2> QED BY <1>5, <1>6, <2>1
  <1>11. n > j \/ n < j \/ (n = j /\ (j < Gamma \/ j = Gamma))
    BY <1>0, <1>1
  <1> QED BY <1>7, <1>8, <1>9, <1>10, <1>11

\* The runs that accept the first j drafts.
Accepting(j) == {dr \in Runs : Passes(drafts, dr, j)}

LEMMA PairsAlike ==
    ASSUME IInv, NEW v, Setting(v), NEW j \in 0 .. Gamma - 1
    PROVE  \E C \in Nat : \A R \in SUBSET (Between \X Between) :
               Cardinality({dr \in Accepting(j) : <<dr[j + 1], dr[Gamma + 1]>> \in R}) = C * Cardinality(R)
  <1> DEFINE X == Accepting(j)
             K == Between \X Between
             pi == [dr \in X |-> <<dr[j + 1], dr[Gamma + 1]>>]
             move == [m \in X \X K |-> [m[1] EXCEPT ![j + 1] = m[2][1], ![Gamma + 1] = m[2][2]]]
  <1>0. Gamma \in Nat /\ Gamma > 0 /\ j \in Nat /\ j + 1 < Gamma + 1
    BY DEF Setting
  <1>1. IsFiniteSet(X) /\ IsFiniteSet(K)
    BY RunsFinite, BetweenFacts, FS_Product, FS_Subset DEF Accepting
  <1>2. \A dr \in X : dr \in [1 .. Gamma + 1 -> Between] /\ pi[dr] \in K
    BY <1>0 DEF Accepting, Runs
  <1>3. ASSUME NEW dr \in X, NEW k \in K
        PROVE  /\ move[<<dr, k>>] \in X /\ pi[move[<<dr, k>>]] = k
               /\ move[<<move[<<dr, k>>], pi[dr]>>] = dr
    <2> DEFINE ds == [dr EXCEPT ![j + 1] = k[1], ![Gamma + 1] = k[2]]
    <2>1. move[<<dr, k>>] = ds
      OBVIOUS
    <2>2. dr \in [1 .. Gamma + 1 -> Between] /\ k[1] \in Between /\ k[2] \in Between /\ k = <<k[1], k[2]>>
      <3>1. dr \in [1 .. Gamma + 1 -> Between]
        BY <1>2
      <3> HIDE DEF X, pi, move
      <3> QED BY <3>1
    <2>3. /\ ds \in [1 .. Gamma + 1 -> Between] /\ ds[j + 1] = k[1] /\ ds[Gamma + 1] = k[2]
          /\ \A i \in 1 .. j : ds[i] = dr[i]
      BY <1>0, <2>2
    <2>4. ds \in X
      BY <2>3 DEF Accepting, Runs, Passes
    <2>5. [ds EXCEPT ![j + 1] = dr[j + 1], ![Gamma + 1] = dr[Gamma + 1]] = dr
      BY <1>0, <2>2
    <2>6. pi[ds] = k
      BY <2>2, <2>3, <2>4
    <2> HIDE DEF ds, X
    <2>7. move[<<ds, pi[dr]>>] = dr
      <3>1. pi[dr] \in K /\ pi[dr] = <<dr[j + 1], dr[Gamma + 1]>>
        BY <1>2
      <3>2. <<ds, pi[dr]>> \in X \X K
        BY <2>4, <3>1
      <3>3. move[<<ds, pi[dr]>>] = [ds EXCEPT ![j + 1] = pi[dr][1], ![Gamma + 1] = pi[dr][2]]
        BY <3>2
      <3> QED BY <2>5, <3>1, <3>3
    <2> QED BY <2>1, <2>4, <2>6, <2>7
  <1> HIDE DEF X, K, pi, move
  <1>6. Movable(X, K, pi, move)
    BY <1>2, <1>3 DEF Movable
  <1>4. PICK C \in Nat : \A R \in SUBSET K : Cardinality(KeyedIn(pi, X, R)) = C * Cardinality(R)
    BY <1>1, <1>6, EvenFibers
  <1>5. ASSUME NEW R \in SUBSET K
        PROVE  KeyedIn(pi, X, R) = {dr \in Accepting(j) : <<dr[j + 1], dr[Gamma + 1]>> \in R}
    BY DEF X, pi, KeyedIn
  <1> QED BY <1>4, <1>5 DEF K

LEMMA LastAlike ==
    ASSUME IInv, NEW v, Setting(v)
    PROVE  \E C \in Nat : \A R \in SUBSET Between :
               Cardinality({dr \in Accepting(Gamma) : dr[Gamma + 1] \in R}) = C * Cardinality(R)
  <1> DEFINE X == Accepting(Gamma)
             K == Between
             pi == [dr \in X |-> dr[Gamma + 1]]
             move == [m \in X \X K |-> [m[1] EXCEPT ![Gamma + 1] = m[2]]]
  <1>0. Gamma \in Nat /\ Gamma > 0
    BY DEF Setting
  <1>1. IsFiniteSet(X) /\ IsFiniteSet(K)
    BY RunsFinite, BetweenFacts, FS_Subset DEF Accepting
  <1>2. \A dr \in X : dr \in [1 .. Gamma + 1 -> Between] /\ pi[dr] \in K
    BY <1>0 DEF Accepting, Runs
  <1>3. ASSUME NEW dr \in X, NEW k \in K
        PROVE  /\ move[<<dr, k>>] \in X /\ pi[move[<<dr, k>>]] = k
               /\ move[<<move[<<dr, k>>], pi[dr]>>] = dr
    <2> DEFINE ds == [dr EXCEPT ![Gamma + 1] = k]
    <2>1. move[<<dr, k>>] = ds
      OBVIOUS
    <2>2. dr \in [1 .. Gamma + 1 -> Between]
      BY <1>2
    <2>3. /\ ds \in [1 .. Gamma + 1 -> Between] /\ ds[Gamma + 1] = k
          /\ \A i \in 1 .. Gamma : ds[i] = dr[i]
      BY <1>0, <2>2
    <2>4. ds \in X
      BY <2>3 DEF Accepting, Runs, Passes
    <2>5. [ds EXCEPT ![Gamma + 1] = dr[Gamma + 1]] = dr
      BY <1>0, <2>2
    <2>6. pi[ds] = k
      BY <2>2, <2>3, <2>4
    <2> HIDE DEF ds, X
    <2>7. move[<<ds, pi[dr]>>] = dr
      <3>1. pi[dr] \in K /\ pi[dr] = dr[Gamma + 1]
        BY <1>2
      <3>2. <<ds, pi[dr]>> \in X \X K
        BY <2>4, <3>1
      <3>3. move[<<ds, pi[dr]>>] = [ds EXCEPT ![Gamma + 1] = pi[dr]]
        BY <3>2
      <3> QED BY <2>5, <3>1, <3>3
    <2> QED BY <2>1, <2>4, <2>6, <2>7
  <1> HIDE DEF X, K, pi, move
  <1>6. Movable(X, K, pi, move)
    BY <1>2, <1>3 DEF Movable
  <1>4. PICK C \in Nat : \A R \in SUBSET K : Cardinality(KeyedIn(pi, X, R)) = C * Cardinality(R)
    BY <1>1, <1>6, EvenFibers
  <1>5. ASSUME NEW R \in SUBSET K
        PROVE  KeyedIn(pi, X, R) = {dr \in Accepting(Gamma) : dr[Gamma + 1] \in R}
    BY DEF X, pi, KeyedIn
  <1> QED BY <1>4, <1>5 DEF K

-----------------------------------------------------------------------------
(* One draft after the accepted ones *)

\* The pairs of random numbers, of the test and of the bonus, that give t when
\* the next draft is y.
Giving(j, y, t) ==
    {r \in Between \X Between :
         IF Rejects(case, j + 1, y, r[1]) THEN Drawn(j, TRUE, r[2]) = t ELSE y = t}

Least(j, y) == IF case.p[j + 1][y] < case.q[j + 1][y] THEN case.p[j + 1][y] ELSE case.q[j + 1][y]
DrawsOf(j, t) == {u \in Between : Drawn(j, TRUE, u) = t}

LEMMA GivingCounted ==
    ASSUME NEW v, Setting(v), NEW j \in 0 .. Gamma - 1, NEW y \in 0 .. v - 1, NEW t \in 0 .. v - 1
    PROVE  /\ Cardinality(Giving(j, y, t)) \in Nat /\ Cardinality(DrawsOf(j, t)) \in Nat
           /\ 4 * case.q[j + 1][y] * Cardinality(Giving(j, y, t)) =
                  Grid * ((IF y = t THEN Least(j, t) * Grid ELSE 0)
                          + (case.q[j + 1][y] - Least(j, y)) * (2 * Cardinality(DrawsOf(j, t))))
  <1> DEFINE p == case.p[j + 1][y]
             q == case.q[j + 1][y]
             m == Least(j, y)
             Pass == {r \in Between : ~ Rejects(case, j + 1, y, r)}
             Refuse == {r \in Between : Rejects(case, j + 1, y, r)}
             U == DrawsOf(j, t)
             A == IF y = t THEN Pass \X Between ELSE {}
             F == Refuse \X U
             nb == Cardinality(Between)
             np == Cardinality(Pass)
             nf == Cardinality(Refuse)
             nu == Cardinality(U)
             n == Cardinality(Giving(j, y, t))
  <1>1. p \in Nat /\ q \in Nat /\ p <= Unit /\ q <= Unit /\ Unit \in Nat
    <2>1. case.p[j + 1] \in Rows(v) /\ case.q[j + 1] \in Rows(v) /\ v \in Nat
      BY DEF Setting
    <2>2. p \in 0 .. Unit /\ q \in 0 .. Unit /\ Unit \in Nat
      BY <2>1, RowFacts
    <2> HIDE DEF p, q
    <2> QED BY <2>2
  <1>2. m = IF p < q THEN p ELSE q
    BY DEF Least
  <1>3. \A r \in Between : Rejects(case, j + 1, y, r) <=> q = 0 \/ r * q > p * Grid
    BY DEF Rejects
  <1>4. IsFiniteSet(Between) /\ IsFiniteSet(Pass) /\ IsFiniteSet(Refuse) /\ IsFiniteSet(U)
    BY BetweenFacts, FS_Subset DEF DrawsOf
  <1>5. IsFiniteSet(A) /\ IsFiniteSet(F) /\ Cardinality(F) = nf * nu
        /\ Cardinality(A) = IF y = t THEN np * nb ELSE 0
    <2>1. IsFiniteSet(F) /\ Cardinality(F) = nf * nu
      <3> HIDE DEF Refuse, U
      <3> QED BY <1>4, FS_Product
    <2>2. IsFiniteSet(Pass \X Between) /\ Cardinality(Pass \X Between) = np * nb
      <3> HIDE DEF Pass
      <3> QED BY <1>4, FS_Product
    <2>3. IsFiniteSet({}) /\ Cardinality({}) = 0
      BY FS_EmptySet
    <2> HIDE DEF Pass, F
    <2>4. IsFiniteSet(A) /\ Cardinality(A) = IF y = t THEN np * nb ELSE 0
      BY <2>2, <2>3
    <2> QED BY <2>1, <2>4
  <1>6. Giving(j, y, t) = A \cup F /\ A \cap F = {}
    BY DEF Giving, DrawsOf
  <1>7. nb \in Nat /\ np \in Nat /\ nf \in Nat /\ nu \in Nat
    BY <1>4, FS_CardinalityType
  <1>8. n = (IF y = t THEN np * nb ELSE 0) + nf * nu
    <2> HIDE DEF A, F
    <2>1. Cardinality(A \cup F) = Cardinality(A) + Cardinality(F) - Cardinality(A \cap F)
      BY <1>5, FS_Union
    <2>2. Cardinality(A \cap F) = 0
      BY <1>6, FS_EmptySet
    <2>3. np * nb \in Nat /\ nf * nu \in Nat
      BY <1>7, ProductNat
    <2> HIDE DEF np, nb, nf, nu
    <2> QED BY <1>5, <1>6, <2>1, <2>2, <2>3
  <1>9. nb = np + nf
    <2>1. Between = Pass \cup Refuse /\ Pass \cap Refuse = {}
      OBVIOUS
    <2> HIDE DEF Pass, Refuse
    <2>2. Cardinality(Pass \cup Refuse) = Cardinality(Pass) + Cardinality(Refuse) - Cardinality(Pass \cap Refuse)
      BY <1>4, FS_Union
    <2>3. Cardinality(Pass \cap Refuse) = 0
      BY <2>1, FS_EmptySet
    <2> DEFINE nc == Cardinality(Pass \cap Refuse)
    <2>4. nb = np + nf - nc /\ nc = 0
      BY <2>1, <2>2, <2>3
    <2> HIDE DEF nb, np, nf, nc
    <2> QED BY <1>7, <2>4
  <1>10. 2 * nb = Grid
    BY AllOdds
  <1>11. 2 * q * np = m * Grid /\ Grid \in Nat
    <2>0. Grid \in Nat
      BY SamplerAssumption
    <2>1. CASE q = 0
      <3>1. m = 0
        BY <1>1, <1>2, <2>1
      <3> HIDE DEF q, m, np
      <3> QED BY <1>7, <2>0, <2>1, <3>1
    <2>2. CASE q > 0
      <3>1. Pass = {r \in Between : ~ (r * q > p * Grid)}
        BY <1>1, <1>3, <2>2
      <3> HIDE DEF Pass, p, q, m
      <3> QED BY <1>1, <1>2, <2>0, <2>2, <3>1, PassedOften
    <2> QED BY <1>1, <2>0, <2>1, <2>2
  <1>12. m \in Nat /\ m <= q
    <2> HIDE DEF p, q, m
    <2> QED BY <1>1, <1>2
  <1>13. y = t => m = Least(j, t)
    OBVIOUS
  <1> DEFINE a == IF y = t THEN np * nb ELSE 0
             l == IF y = t THEN Least(j, t) * Grid ELSE 0
  <1>14. 4 * q * (np * nb) = Grid * (m * Grid) /\ 4 * q * (nf * nu) = Grid * ((q - m) * (2 * nu))
    <2> HIDE DEF p, q, m, np, nb, nf, nu, n
    <2>1. PICK f \in Nat : q = m + f
      <3>1. q - m \in Nat /\ q = m + (q - m)
        BY <1>1, <1>12
      <3> QED BY <3>1
    <2>2. 2 * q * nf = f * Grid
      <3>1. 2 * q * nb = q * Grid
        <4>1. 2 * q * nb = q * (2 * nb)
          BY <1>1, <1>7
        <4> QED BY <1>10, <4>1
      <3>2. 2 * q * (np + nf) = 2 * q * np + 2 * q * nf
        BY <1>1, <1>7
      <3>3. (m + f) * Grid = m * Grid + f * Grid
        BY <1>11, <1>12
      <3>4. 2 * q * np \in Nat /\ 2 * q * nf \in Nat /\ m * Grid \in Nat /\ f * Grid \in Nat
        BY <1>1, <1>7, <1>11, <1>12, ProductNat
      <3>5. 2 * q * np + 2 * q * nf = m * Grid + f * Grid
        BY <1>9, <2>1, <3>1, <3>2, <3>3
      <3> QED BY <1>11, <3>4, <3>5
    <2>3. 4 * q * (np * nb) = (2 * q * np) * (2 * nb)
      BY <1>1, <1>7
    <2>4. 4 * q * (nf * nu) = (2 * q * nf) * (2 * nu)
      BY <1>1, <1>7
    <2>5. (m * Grid) * Grid = Grid * (m * Grid) /\ (f * Grid) * (2 * nu) = Grid * (f * (2 * nu))
      BY <1>7, <1>11, <1>12
    <2>6. q - m = f
      BY <1>12, <2>1
    <2> QED BY <1>10, <1>11, <2>2, <2>3, <2>4, <2>5, <2>6
  <1>15. 4 * q * n = 4 * q * a + 4 * q * (nf * nu) /\ 4 * q * a = Grid * l /\ n \in Nat
    <2>1. np * nb \in Nat /\ nf * nu \in Nat
      BY <1>7, ProductNat
    <2>2. 4 * q * a = Grid * l
      <3>1. CASE y = t
        BY <1>13, <1>14, <3>1
      <3>2. CASE y # t
        BY <1>1, <1>11, <3>2
      <3> QED BY <3>1, <3>2
    <2>3. a \in Nat /\ n = a + nf * nu
      BY <1>8, <2>1
    <2> DEFINE fu == nf * nu
    <2>4. fu \in Nat /\ n = a + fu
      BY <2>1, <2>3
    <2> HIDE DEF a, fu, n, q, l
    <2>5. 4 * q * (a + fu) = 4 * q * a + 4 * q * fu
      BY <1>1, <2>3, <2>4
    <2>6. n \in Nat
      BY <2>3, <2>4
    <2> QED BY <2>2, <2>4, <2>5, <2>6 DEF fu
  <1>16. Grid * (l + (q - m) * (2 * nu)) = Grid * l + Grid * ((q - m) * (2 * nu))
    <2>1. l \in Nat /\ (q - m) * (2 * nu) \in Nat
      <3>1. Least(j, t) \in Nat \/ y # t
        BY <1>12, <1>13
      <3>2. l \in Nat
        BY <1>11, <3>1, ProductNat
      <3>3. q - m \in Nat /\ 2 * nu \in Nat
        <4> HIDE DEF p, q, m, nu
        <4> QED BY <1>1, <1>7, <1>12
      <3> HIDE DEF q, m, nu, l
      <3> QED BY <3>2, <3>3, ProductNat
    <2> DEFINE z == (q - m) * (2 * nu)
    <2> HIDE DEF z, l
    <2>2. Grid * (l + z) = Grid * l + Grid * z
      BY <1>11, <2>1 DEF z
    <2> QED BY <2>2 DEF z
  <1> HIDE DEF p, m, np, nb, nf, a
  <1> QED BY <1>7, <1>14, <1>15, <1>16 DEF m

\* What the drafts y give t together is what the target's row gives it.
LEMMA GivenInAll ==
    ASSUME NEW v, Setting(v), NEW j \in 0 .. Gamma - 1, NEW t \in 0 .. v - 1,
           NEW e, \A y \in 0 .. v - 1 :
               e[y] = (IF y = t THEN Least(j, t) * Grid ELSE 0)
                      + (case.q[j + 1][y] - Least(j, y)) * (2 * Cardinality(DrawsOf(j, t)))
    PROVE  /\ Weights(e, 0 .. v - 1)
           /\ Sum(e, 0 .. v - 1) = case.p[j + 1][t] * Grid
  <1> DEFINE V == 0 .. v - 1
             p == case.p[j + 1]
             q == case.q[j + 1]
             R == Residual(p, q)
             nu == Cardinality(DrawsOf(j, t))
             m == [y \in V |-> Least(j, y)]
             f == [y \in V |-> q[y] - m[y]]
             e1 == [y \in V |-> IF y = t THEN m[t] * Grid ELSE 0]
             e2 == [y \in V |-> f[y] * (2 * nu)]
             w == AdjustedDistribution(case, j, TRUE)
  <1>0. v \in Nat /\ v > 0 /\ p \in Rows(v) /\ q \in Rows(v) /\ Grid \in Nat /\ j \in Nat
    BY SamplerAssumption DEF Setting
  <1>1. /\ IsFiniteSet(V) /\ Weights(p, V) /\ Weights(q, V) /\ Sum(p, V) = Unit /\ Sum(q, V) = Unit
    BY <1>0, RowFacts
  <1>2. /\ DOMAIN R = V /\ Weights(R, V) /\ Mass(R) = Sum(R, V) /\ Mass(R) \in Nat /\ Mass(R) <= Unit
        /\ \A y \in V : /\ R[y] \in Nat /\ p[y] \in Nat /\ q[y] \in Nat
                        /\ p[y] = (IF p[y] < q[y] THEN p[y] ELSE q[y]) + R[y]
    <2> HIDE DEF p, q
    <2> QED BY <1>0, ResidualIs
  <1>3. \A y \in V : m[y] = IF p[y] < q[y] THEN p[y] ELSE q[y]
    BY DEF Least
  <1>4. nu \in Nat
    BY BetweenFacts, FS_Subset, FS_CardinalityType DEF DrawsOf
  <1>5. \A y \in V : f[y] = q[y] - m[y]
    OBVIOUS
  <1>6. \A y \in V : e1[y] = IF y = t THEN m[t] * Grid ELSE 0
    OBVIOUS
  <1>7. \A y \in V : e2[y] = f[y] * (2 * nu)
    OBVIOUS
  <1>8. \A y \in V : e[y] = e1[y] + e2[y]
    OBVIOUS
  <1>9. t \in V
    OBVIOUS
  <1>10. w = IF Mass(R) > 0 THEN R ELSE p
    BY DEF AdjustedDistribution
  <1>11. DrawsOf(j, t) = DrawsFrom(w, t)
    BY DEF DrawsOf, Drawn, DrawsFrom
  <1>12. V = 0 .. v - 1
    OBVIOUS
  <1> HIDE DEF V, p, q, R, m, f, e1, e2, w
  <1>13. \A y \in V : /\ m[y] \in Nat /\ f[y] \in Nat /\ q[y] = m[y] + f[y] /\ p[y] = m[y] + R[y]
    <2> TAKE y \in V
    <2>1. p[y] \in Nat /\ q[y] \in Nat /\ R[y] \in Nat /\ m[y] = (IF p[y] < q[y] THEN p[y] ELSE q[y])
          /\ f[y] = q[y] - m[y] /\ p[y] = m[y] + R[y]
      BY <1>2, <1>3, <1>5
    <2>2. m[y] \in Nat /\ m[y] <= q[y]
      BY <2>1
    <2> QED BY <2>1, <2>2
  <1>14. Weights(m, V) /\ Weights(f, V)
    BY <1>13 DEF Weights
  <1>15. Sum(f, V) = Mass(R)
    <2>1. Sum(q, V) = Sum(m, V) + Sum(f, V)
      BY <1>1, <1>13, <1>14, SumAdds
    <2>2. Sum(p, V) = Sum(m, V) + Sum(R, V)
      BY <1>1, <1>2, <1>13, <1>14, SumAdds
    <2>3. Sum(m, V) \in Nat /\ Sum(f, V) \in Nat /\ Sum(R, V) \in Nat
      BY <1>1, <1>2, <1>14, SumType
    <2> QED BY <1>1, <1>2, <2>1, <2>2, <2>3
  <1>16. Weights(e1, V) /\ Weights(e2, V)
    <2>1. \A y \in V : e1[y] \in Nat
      <3>1. m[t] * Grid \in Nat
        BY <1>0, <1>9, <1>13, ProductNat
      <3> QED BY <1>6, <3>1
    <2>2. \A y \in V : e2[y] \in Nat
      <3> TAKE y \in V
      <3>1. f[y] \in Nat /\ 2 * nu \in Nat
        BY <1>4, <1>13
      <3>2. f[y] * (2 * nu) \in Nat
        BY <3>1, ProductNat
      <3> QED BY <1>7, <3>2
    <2> QED BY <2>1, <2>2 DEF Weights
  <1>17. Sum(e1, V) = m[t] * Grid
    <2>1. \A y \in V : t # y => e1[y] = 0
      BY <1>6
    <2>2. Sum(e1, V) = e1[t]
      BY <1>1, <1>9, <1>16, <2>1, SumOfOne
    <2> QED BY <1>6, <1>9, <2>2
  <1>18. Sum(e2, V) = (2 * nu) * Mass(R)
    <2> DEFINE k == 2 * nu
    <2>1. k \in Nat
      BY <1>4
    <2>2. \A y \in V : e2[y] = f[y] * k
      BY <1>7
    <2> HIDE DEF k
    <2>3. \A y \in V : 1 * e2[y] = k * f[y]
      <3> TAKE y \in V
      <3>1. e2[y] \in Nat /\ f[y] \in Nat
        BY <1>13, <1>16 DEF Weights
      <3>2. f[y] * k = k * f[y]
        BY <2>1, <3>1
      <3> QED BY <2>2, <3>1, <3>2
    <2>4. 1 * Sum(e2, V) = k * Sum(f, V)
      <3>1. 1 \in Nat
        OBVIOUS
      <3> QED BY <1>1, <1>14, <1>16, <2>1, <2>3, <3>1, SumScaled
    <2>5. Sum(e2, V) \in Nat
      BY <1>1, <1>16, SumType
    <2> QED BY <1>15, <2>4, <2>5 DEF k
  <1>19. (2 * nu) * Mass(R) = R[t] * Grid
    <2>1. CASE Mass(R) > 0
      <3>1. w = R
        BY <1>10, <2>1
      <3>2. 2 * Cardinality(DrawsFrom(R, t)) * Mass(R) = R[t] * Grid
        BY <1>0, <1>2, <1>9, <1>12, <2>1, SampledOften
      <3>3. 2 * nu * Mass(R) = R[t] * Grid
        BY <1>11, <3>1, <3>2
      <3> QED BY <1>2, <1>4, <3>3
    <2>2. CASE Mass(R) = 0
      <3> DEFINE s == Sum(R, V \ {t})
                 x == R[t]
                 total == Sum(R, V)
      <3>1. total = x + s /\ s \in Nat /\ x \in Nat
        BY <1>1, <1>2, <1>9, SumStep
      <3>2. total = 0
        BY <1>2, <2>2
      <3> HIDE DEF s, x, total
      <3>3. x = 0
        BY <3>1, <3>2
      <3>4. R[t] = 0
        BY <3>3 DEF x
      <3> QED BY <1>0, <1>4, <2>2, <3>4
    <2> QED BY <1>2, <2>1, <2>2
  <1>20. Weights(e, V) /\ Sum(e, V) = Sum(e1, V) + Sum(e2, V)
    <2>1. Sum(e, V) = Sum(e1, V) + Sum(e2, V)
      BY <1>1, <1>8, <1>16, SumAdds
    <2>2. \A y \in V : e[y] \in Nat
      <3> TAKE y \in V
      <3>1. e1[y] \in Nat /\ e2[y] \in Nat
        BY <1>16 DEF Weights
      <3> QED BY <1>8, <3>1
    <2> QED BY <2>1, <2>2 DEF Weights
  <1>21. m[t] * Grid + R[t] * Grid = p[t] * Grid
    <2>1. m[t] \in Nat /\ R[t] \in Nat /\ p[t] = m[t] + R[t]
      BY <1>2, <1>9, <1>13
    <2>2. (m[t] + R[t]) * Grid = m[t] * Grid + R[t] * Grid
      BY <1>0, <2>1
    <2> QED BY <2>1, <2>2
  <1> QED BY <1>17, <1>18, <1>19, <1>20, <1>21 DEF V, p

-----------------------------------------------------------------------------
(* The weight of the drafts, token by token *)

LEMMA WeightOf ==
    ASSUME NEW v, Setting(v), NEW d \in [1 .. Gamma -> 0 .. v - 1], NEW a \in 1 .. Gamma,
           NEW e \in [1 .. Gamma -> 0 .. v - 1], \A i \in 1 .. Gamma : i # a => e[i] = d[i]
    PROVE  /\ DraftWeight(case, d) \in Nat /\ DraftWeight(case, e) \in Nat
           /\ case.q[a][d[a]] \in Nat /\ case.q[a][e[a]] \in Nat
           /\ case.q[a][d[a]] * DraftWeight(case, e) = case.q[a][e[a]] * DraftWeight(case, d)
           /\ case.q[a][d[a]] = 0 => DraftWeight(case, d) = 0
  <1> DEFINE D == 1 .. Gamma
             wd == [i \in D |-> case.q[i][d[i]]]
             we == [i \in D |-> case.q[i][e[i]]]
             D0 == D \ {a}
  <1>1. Gamma \in Nat /\ DOMAIN d = D /\ DOMAIN e = D /\ \A i \in D0 : e[i] = d[i]
    BY DEF Setting
  <1>2. \A i \in D, z \in 0 .. v - 1 : case.q[i][z] \in Nat
    <2> TAKE i \in D, z \in 0 .. v - 1
    <2>1. case.q[i] \in Rows(v) /\ v \in Nat
      BY <1>1 DEF Setting
    <2>2. case.q[i][z] \in 0 .. Unit /\ Unit \in Nat
      BY <2>1, RowFacts
    <2> QED BY <2>2
  <1>3. IsFiniteSet(D) /\ IsFiniteSet(D0) /\ D0 \subseteq D
    <2>1. 1 \in Int /\ Gamma \in Int
      BY <1>1
    <2> QED BY <2>1, FS_Interval, FS_Subset
  <1>4. \A i \in D : wd[i] \in Nat /\ we[i] \in Nat
    BY <1>1, <1>2
  <1>5. DraftWeight(case, d) = Product(wd, D) /\ DraftWeight(case, e) = Product(we, D)
    <2>1. wd = [i \in DOMAIN d |-> case.q[i][d[i]]] /\ we = [i \in DOMAIN e |-> case.q[i][e[i]]]
      BY <1>1
    <2> HIDE DEF wd, we
    <2> QED BY <1>1, <2>1, WeightIsProduct
  <1>6. wd[a] = case.q[a][d[a]] /\ we[a] = case.q[a][e[a]] /\ \A i \in D0 : wd[i] = we[i]
    BY <1>1
  <1> HIDE DEF wd, we, D, D0
  <1>7. Weights(wd, D) /\ Weights(we, D) /\ Weights(we, D0)
    BY <1>3, <1>4 DEF Weights
  <1>8. Product(wd, D0) = Product(we, D0)
    BY <1>3, <1>6, <1>7, ProductSame
  <1> DEFINE pd == Product(wd, D)
             pe == Product(we, D)
             rest == Product(we, D0)
             x == wd[a]
             z == we[a]
  <1>9. pd = x * rest /\ pe = z * rest /\ rest \in Nat /\ x \in Nat /\ z \in Nat /\ pd \in Nat /\ pe \in Nat
    <2>1. a \in D
      BY DEF D
    <2>2. Product(wd, D) = wd[a] * Product(wd, D \ {a}) /\ Product(wd, D) \in Nat /\ wd[a] \in Nat
      BY <1>3, <1>7, <2>1, ProductStep
    <2>3. Product(we, D) = we[a] * Product(we, D \ {a}) /\ Product(we, D) \in Nat /\ we[a] \in Nat
          /\ Product(we, D \ {a}) \in Nat
      BY <1>3, <1>7, <2>1, ProductStep
    <2> QED BY <1>8, <2>2, <2>3 DEF D0
  <1> HIDE DEF pd, pe, rest, x, z
  <1>10. x * pe = z * pd /\ (x = 0 => pd = 0)
    <2>1. x * (z * rest) = z * (x * rest)
      BY <1>9
    <2> QED BY <1>9, <2>1
  <1>11. x = case.q[a][d[a]] /\ z = case.q[a][e[a]]
    BY <1>6 DEF x, z
  <1>12. pd = DraftWeight(case, d) /\ pe = DraftWeight(case, e)
    BY <1>5 DEF pd, pe
  <1> QED BY <1>9, <1>10, <1>11, <1>12

\* The weight of the drafts that begin as the drawn ones do, for j tokens.
Weight(j) == [d \in DrawnDrafts |-> IF SubSeq(d, 1, j) = SubSeq(drafts, 1, j) THEN DraftWeight(case, d) ELSE 0]
Next1(j) == [d \in DrawnDrafts |-> d[j + 1]]
Class(j, y) == {d \in DrawnDrafts : Next1(j)[d] = y}

\* The next draft is y as often as the row of q says.
LEMMA ClassesWeigh ==
    ASSUME IInv, NEW v, Setting(v), NEW j \in 0 .. Gamma - 1, NEW y \in 0 .. v - 1
    PROVE  LET q == case.q[j + 1]
           IN  /\ q[drafts[j + 1]] \in Nat /\ q[drafts[j + 1]] > 0 /\ q[y] \in Nat
               /\ Weights(Weight(j), DrawnDrafts)
               /\ Sum(Weight(j), Class(j, y)) \in Nat
               /\ q[drafts[j + 1]] * Sum(Weight(j), Class(j, y))
                      = q[y] * Sum(Weight(j), Class(j, drafts[j + 1]))
  <1> DEFINE a == j + 1
             q == case.q[a]
             y0 == drafts[a]
             w == Weight(j)
             S == Class(j, y)
             T == Class(j, y0)
             W(d) == DraftWeight(case, d)
             beta == [d \in S |-> [d EXCEPT ![a] = y0]]
  <1>0. /\ v \in Nat /\ Gamma \in Nat /\ a \in 1 .. Gamma /\ j \in Nat /\ y0 \in 0 .. v - 1
        /\ drafts \in [1 .. Gamma -> 0 .. v - 1] /\ Vocab = 0 .. v - 1
    BY DEF Setting
  <1>1. \A d \in DrawnDrafts : d \in [1 .. Gamma -> 0 .. v - 1] /\ W(d) > 0 /\ W(d) \in Nat
    <2> TAKE d \in DrawnDrafts
    <2>1. d \in [1 .. Gamma -> 0 .. v - 1] /\ W(d) > 0
      BY <1>0 DEF DrawnDrafts
    <2>2. W(d) \in Nat
      BY <1>0, <2>1, WeightOf
    <2> QED BY <2>1, <2>2
  <1>2. Weights(w, DrawnDrafts) /\ IsFiniteSet(DrawnDrafts)
    BY <1>1, RunsFinite DEF Weights, Weight
  <1>3. IsFiniteSet(S) /\ IsFiniteSet(T) /\ S \subseteq DrawnDrafts /\ T \subseteq DrawnDrafts
        /\ Weights(w, S) /\ Weights(w, T)
    BY <1>2, FS_Subset DEF Class, Weights
  <1>4. q[y0] \in Nat /\ q[y] \in Nat /\ q[y0] > 0
    <2>1. W(drafts) > 0
      BY DEF IInv
    <2> DEFINE e == [drafts EXCEPT ![a] = y]
    <2>2. /\ q[y0] \in Nat /\ q[y] \in Nat /\ (q[y0] = 0 => W(drafts) = 0)
      <3>1. e \in [1 .. Gamma -> 0 .. v - 1] /\ e[a] = y /\ \A i \in 1 .. Gamma : i # a => e[i] = drafts[i]
        BY <1>0
      <3> HIDE DEF e, a
      <3> QED BY <1>0, <3>1, WeightOf
    <2> HIDE DEF q, y0
    <2> QED BY <2>1, <2>2
  <1>5. Sum(w, S) \in Nat /\ Sum(w, T) \in Nat
    BY <1>3, SumType
  <1>6. CASE q[y] = 0
    <2>1. S = {}
      <3> SUFFICES ASSUME NEW d \in S PROVE FALSE
        OBVIOUS
      <3>1. d \in DrawnDrafts /\ d[a] = y
        BY DEF Class, Next1
      <3>2. q[d[a]] = 0 => W(d) = 0
        BY <1>0, <1>1, <3>1, WeightOf
      <3> QED BY <1>1, <1>6, <3>1, <3>2
    <2>2. Sum(w, S) = 0
      BY <2>1, SumOfNone
    <2> HIDE DEF q, y0, S, T, w
    <2>3. q[y0] * Sum(w, S) = q[y] * Sum(w, T)
      BY <1>4, <1>5, <1>6, <2>2
    <2> QED BY <1>2, <1>4, <1>5, <2>3 DEF q, y0, S, T, w
  <1>7. CASE q[y] > 0
    <2>1. ASSUME NEW d \in DrawnDrafts, NEW z \in 0 .. v - 1, q[z] > 0
          PROVE  LET e == [d EXCEPT ![a] = z]
                 IN  /\ e \in DrawnDrafts /\ e[a] = z
                     /\ q[d[a]] * W(e) = q[z] * W(d)
                     /\ SubSeq(e, 1, j) = SubSeq(d, 1, j)
      <3> DEFINE e == [d EXCEPT ![a] = z]
      <3>1. /\ W(d) \in Nat /\ W(e) \in Nat /\ q[d[a]] \in Nat /\ q[z] \in Nat
            /\ q[d[a]] * W(e) = q[z] * W(d)
        <4>1. /\ d \in [1 .. Gamma -> 0 .. v - 1] /\ e \in [1 .. Gamma -> 0 .. v - 1] /\ e[a] = z
              /\ \A i \in 1 .. Gamma : i # a => e[i] = d[i]
          BY <1>0, <1>1
        <4> HIDE DEF e, a
        <4>2. a \in 1 .. Gamma
          BY <1>0
        <4>3. /\ DraftWeight(case, d) \in Nat /\ DraftWeight(case, e) \in Nat
              /\ case.q[a][d[a]] \in Nat /\ case.q[a][e[a]] \in Nat
              /\ case.q[a][d[a]] * DraftWeight(case, e) = case.q[a][e[a]] * DraftWeight(case, d)
          BY <1>0, <4>1, <4>2, WeightOf
        <4> QED BY <4>1, <4>3
      <3>2. e \in [1 .. Gamma -> 0 .. v - 1] /\ e[a] = z /\ \A i \in 1 .. j : e[i] = d[i]
        BY <1>0, <1>1
      <3>3. W(e) > 0
        <4> DEFINE wd == W(d)
                   we == W(e)
                   qd == q[d[a]]
                   qz == q[z]
        <4>1. wd \in Nat /\ we \in Nat /\ qd \in Nat /\ qz \in Nat /\ qd * we = qz * wd /\ wd > 0 /\ qz > 0
          BY <1>1, <2>1, <3>1
        <4> HIDE DEF wd, we, qd, qz
        <4>2. qz * wd > 0
          BY <4>1
        <4>3. we # 0
          BY <4>1, <4>2
        <4>4. we > 0
          BY <4>1, <4>3
        <4> QED BY <4>4 DEF we
      <3>4. e \in DrawnDrafts
        BY <1>0, <3>2, <3>3 DEF DrawnDrafts
      <3>5. SubSeq(e, 1, j) = SubSeq(d, 1, j)
        <4>1. SubSeq(e, 1, j) = [i \in 1 .. j |-> e[i]] /\ SubSeq(d, 1, j) = [i \in 1 .. j |-> d[i]]
          BY <1>0
        <4> HIDE DEF e
        <4> QED BY <3>2, <4>1
      <3> QED BY <3>1, <3>2, <3>4, <3>5
    <2>2. \A d \in S : beta[d] \in T /\ q[y0] * w[d] = q[y] * w[beta[d]]
      <3> TAKE d \in S
      <3> DEFINE e == [d EXCEPT ![a] = y0]
      <3>1. d \in DrawnDrafts /\ d[a] = y /\ beta[d] = e
        BY DEF Class, Next1
      <3>2. /\ e \in DrawnDrafts /\ e[a] = y0 /\ q[y] * W(e) = q[y0] * W(d)
            /\ SubSeq(e, 1, j) = SubSeq(d, 1, j)
        BY <1>0, <1>4, <2>1, <3>1
      <3>3. e \in T
        BY <3>2 DEF Class, Next1
      <3> HIDE DEF e, beta, q, y0
      <3>4. q[y0] * w[d] = q[y] * w[e]
        <4>1. CASE SubSeq(d, 1, j) = SubSeq(drafts, 1, j)
          BY <3>1, <3>2, <4>1 DEF Weight
        <4>2. CASE SubSeq(d, 1, j) # SubSeq(drafts, 1, j)
          BY <1>4, <3>1, <3>2, <4>2 DEF Weight
        <4> QED BY <4>1, <4>2
      <3> QED BY <3>1, <3>3, <3>4
    <2>3. \A d, e \in S : beta[d] = beta[e] => d = e
      <3> SUFFICES ASSUME NEW d \in S, NEW e \in S, beta[d] = beta[e] PROVE d = e
        OBVIOUS
      <3>1. d \in [1 .. Gamma -> 0 .. v - 1] /\ e \in [1 .. Gamma -> 0 .. v - 1] /\ d[a] = y /\ e[a] = y
        BY <1>1 DEF Class, Next1
      <3>2. [d EXCEPT ![a] = y0] = [e EXCEPT ![a] = y0]
        OBVIOUS
      <3> HIDE DEF a, y0
      <3>3. \A i \in 1 .. Gamma : d[i] = e[i]
        <4> TAKE i \in 1 .. Gamma
        <4>1. CASE i = a
          BY <3>1, <4>1
        <4>2. CASE i # a
          <5>1. [d EXCEPT ![a] = y0][i] = d[i] /\ [e EXCEPT ![a] = y0][i] = e[i]
            BY <3>1, <4>2
          <5> QED BY <3>2, <5>1
        <4> QED BY <4>1, <4>2
      <3> HIDE DEF beta, S
      <3> QED BY <1>0, <3>1, <3>3
    <2>4. \A e \in T : \E d \in S : beta[d] = e
      <3> TAKE e \in T
      <3> DEFINE d == [e EXCEPT ![a] = y]
      <3>1. e \in DrawnDrafts /\ e[a] = y0 /\ e \in [1 .. Gamma -> 0 .. v - 1]
        BY <1>1 DEF Class, Next1
      <3>2. d \in DrawnDrafts /\ d[a] = y
        BY <1>7, <2>1, <3>1
      <3>3. d \in S
        BY <3>2 DEF Class, Next1
      <3>4. [d EXCEPT ![a] = y0] = e
        BY <1>0, <3>1
      <3> HIDE DEF d, S
      <3>5. beta[d] = e
        BY <3>3, <3>4
      <3> QED BY <3>3, <3>5
    <2> HIDE DEF beta, S, T, q, y0, w
    <2>5. q[y0] * Sum(w, S) = q[y] * Sum(w, T)
      BY <1>3, <1>4, <2>2, <2>3, <2>4, SumMatched
    <2> QED BY <1>2, <1>4, <1>5, <2>5 DEF S, T, q, y0, w
  <1>8. q[y] = 0 \/ q[y] > 0
    <2> HIDE DEF q
    <2> QED BY <1>4
  <1> QED BY <1>6, <1>7, <1>8

-----------------------------------------------------------------------------
(* Lossless *)

LEMMA RunsThatGoOn ==
    ASSUME IInv, NEW v, Setting(v), NEW j \in 0 .. Gamma - 1, NEW t \in 0 .. v - 1,
           NEW d \in DrawnDrafts, NEW C \in Nat,
           \A R \in SUBSET (Between \X Between) :
               Cardinality({dr \in Accepting(j) : <<dr[j + 1], dr[Gamma + 1]>> \in R}) = C * Cardinality(R)
    PROVE  Cardinality({dr \in Runs : GoesOn(d, dr, SubSeq(drafts, 1, j), t)}) =
               IF SubSeq(d, 1, j) = SubSeq(drafts, 1, j) THEN C * Cardinality(Giving(j, d[j + 1], t)) ELSE 0
  <1> DEFINE x == SubSeq(drafts, 1, j)
             Going == {dr \in Runs : GoesOn(d, dr, x, t)}
             R == Giving(j, d[j + 1], t)
  <1>0. /\ v \in Nat /\ Gamma \in Nat /\ Gamma > 0 /\ j \in Nat /\ j < Gamma /\ j # Gamma
        /\ drafts \in [1 .. Gamma -> 0 .. v - 1] /\ Vocab = 0 .. v - 1
    BY DEF Setting
  <1>1. d \in [1 .. Gamma -> 0 .. v - 1]
    BY <1>0 DEF DrawnDrafts
  <1>2. SubSeq(d, 1, j) = [i \in 1 .. j |-> d[i]] /\ x = [i \in 1 .. j |-> drafts[i]] /\ Len(x) = j
    BY <1>0, <1>1
  <1>3. ASSUME NEW dr \in Runs
        PROVE  GoesOn(d, dr, x, t) <=>
                   /\ SubSeq(d, 1, j) = x /\ Passes(d, dr, j)
                   /\ IF Rejects(case, j + 1, d[j + 1], dr[j + 1]) THEN Drawn(j, TRUE, dr[Gamma + 1]) = t
                      ELSE d[j + 1] = t
    <2>1. j \in 0 .. Gamma
      BY <1>0
    <2>2. Len(x) = j
      BY <1>2
    <2> HIDE DEF x
    <2>3. GoesOn(d, dr, x, t) <=>
                 SubSeq(d, 1, j) = x /\ Passes(d, dr, j) /\ Continues(d, dr, j, t)
      BY <1>0, <1>1, <2>1, <2>2, GoesOnIs
    <2> QED BY <1>0, <2>3 DEF Continues
  <1>4. CASE SubSeq(d, 1, j) = x
    <2>1. \A i \in 1 .. j : d[i] = drafts[i]
      <3> TAKE i \in 1 .. j
      <3>1. d[i] = SubSeq(d, 1, j)[i] /\ drafts[i] = x[i]
        BY <1>2
      <3> QED BY <1>4, <3>1
    <2>2. \A dr \in Runs : Passes(d, dr, j) <=> Passes(drafts, dr, j)
      BY <2>1 DEF Passes
    <2>3. \A dr \in Runs : dr[j + 1] \in Between /\ dr[Gamma + 1] \in Between
      BY <1>0 DEF Runs
    <2>4. \A dr \in Runs : <<dr[j + 1], dr[Gamma + 1]>> \in R <=>
              IF Rejects(case, j + 1, d[j + 1], dr[j + 1]) THEN Drawn(j, TRUE, dr[Gamma + 1]) = t
              ELSE d[j + 1] = t
      BY <2>3 DEF Giving
    <2> HIDE DEF R, x
    <2>5. Going = {dr \in Accepting(j) : <<dr[j + 1], dr[Gamma + 1]>> \in R}
      <3>1. \A dr \in Runs : GoesOn(d, dr, x, t) <=>
                Passes(drafts, dr, j) /\ <<dr[j + 1], dr[Gamma + 1]>> \in R
        BY <1>3, <1>4, <2>2, <2>4
      <3> QED BY <3>1 DEF Accepting
    <2>6. R \in SUBSET (Between \X Between)
      BY DEF R, Giving
    <2>7. Cardinality(Going) = C * Cardinality(R)
      BY <2>5, <2>6
    <2> QED BY <1>4, <2>7 DEF R, x
  <1>5. CASE SubSeq(d, 1, j) # x
    <2>1. Going = {}
      BY <1>3, <1>5
    <2> QED BY <1>5, <2>1, FS_EmptySet
  <1> QED BY <1>4, <1>5

\* The texts that go on with each token are in the ratio of the target's row.
Faithful(v, j) ==
    \E K \in Nat, k \in Nat : k > 0 /\ \A t \in 0 .. v - 1 :
        /\ Count(Texts, SubSeq(drafts, 1, j), t) \in Nat
        /\ k * Count(Texts, SubSeq(drafts, 1, j), t) = K * case.p[j + 1][t]

LEMMA CountBefore ==
    ASSUME IInv, NEW v, Setting(v), NEW j \in 0 .. Gamma - 1
    PROVE  Faithful(v, j)
  <1> DEFINE V == 0 .. v - 1
             S == DrawnDrafts
             x == SubSeq(drafts, 1, j)
             q == case.q[j + 1]
             y0 == drafts[j + 1]
             w == Weight(j)
             pi == Next1(j)
             G(y) == Sum(w, Class(j, y))
             q0 == q[y0]
  <1>0. /\ v \in Nat /\ v > 0 /\ Gamma \in Nat /\ j \in Nat /\ j + 1 \in 1 .. Gamma /\ Grid \in Nat
        /\ drafts \in [1 .. Gamma -> V] /\ Vocab = V /\ y0 \in V
        /\ case.p[j + 1] \in Rows(v)
    BY SamplerAssumption DEF Setting
  <1>1. PICK C \in Nat : \A R \in SUBSET (Between \X Between) :
            Cardinality({dr \in Accepting(j) : <<dr[j + 1], dr[Gamma + 1]>> \in R}) = C * Cardinality(R)
    BY PairsAlike
  <1>2. IsFiniteSet(S) /\ IsFiniteSet(V)
    <2>1. 0 \in Int /\ v - 1 \in Int
      BY <1>0
    <2> QED BY <2>1, RunsFinite, FS_Interval
  <1>3. \A y \in V : /\ q0 \in Nat /\ q0 > 0 /\ q[y] \in Nat /\ Weights(w, S) /\ G(y) \in Nat
                     /\ q0 * G(y) = q[y] * G(y0)
    BY ClassesWeigh
  <1>4. q0 \in Nat /\ q0 > 0 /\ Weights(w, S) /\ G(y0) \in Nat
    BY <1>0, <1>3
  <1>5. \A d \in S : d \in [1 .. Gamma -> V] /\ pi[d] \in V /\ pi[d] = d[j + 1]
    BY <1>0 DEF DrawnDrafts, Next1
  <1>6. \A y \in V : Part(w, pi, S, y) = G(y)
    BY DEF Part, Class
  <1> DEFINE g0 == G(y0)
             K == g0 * C * Grid
  <1>7. \A t \in V : case.p[j + 1][t] \in Nat
    <2>1. \A t \in V : case.p[j + 1][t] \in 0 .. Unit /\ Unit \in Nat
      BY <1>0, RowFacts
    <2> QED BY <2>1
  <1>8. ASSUME NEW t \in V
        PROVE  /\ Count(Texts, x, t) \in Nat
               /\ (4 * q0) * Count(Texts, x, t) = (K * Grid) * case.p[j + 1][t]
    <2> DEFINE n(y) == Cardinality(Giving(j, y, t))
               h == [y \in V |-> C * n(y)]
               z == [d \in S |-> DraftWeight(case, d) * Cardinality(GoingOn(Texts, d, x, t))]
               zz == [y \in V |-> Part(w, pi, S, y) * h[y]]
               e == [y \in V |-> (IF y = t THEN Least(j, t) * Grid ELSE 0)
                                 + (q[y] - Least(j, y)) * (2 * Cardinality(DrawsOf(j, t)))]
    <2>1. \A y \in V : n(y) \in Nat /\ 4 * q[y] * n(y) = Grid * e[y]
      <3> TAKE y \in V
      <3>1. /\ n(y) \in Nat
            /\ 4 * q[y] * n(y) = Grid * ((IF y = t THEN Least(j, t) * Grid ELSE 0)
                                 + (q[y] - Least(j, y)) * (2 * Cardinality(DrawsOf(j, t))))
        BY GivingCounted
      <3> QED BY <3>1
    <2>2. Weights(e, V) /\ Sum(e, V) = case.p[j + 1][t] * Grid
      <3>1. \A y \in V :
                 e[y] = (IF y = t THEN Least(j, t) * Grid ELSE 0)
                        + (q[y] - Least(j, y)) * (2 * Cardinality(DrawsOf(j, t)))
        OBVIOUS
      <3> HIDE DEF e
      <3> QED BY <3>1, GivenInAll
    <2>3. Count(Texts, x, t) = Sum(z, S)
      <3> HIDE DEF x
      <3> QED BY CountIsSum
    <2>4. \A y \in V : h[y] \in Nat /\ h[y] = C * n(y)
      <3> TAKE y \in V
      <3>1. C * n(y) \in Nat
        BY <2>1, ProductNat
      <3> QED BY <3>1
    <2>5. \A d \in S : z[d] = w[d] * h[pi[d]]
      <3> TAKE d \in S
      <3>1. Cardinality(GoingOn(Texts, d, x, t)) = Cardinality({dr \in Runs : GoesOn(d, dr, x, t)})
        <4> HIDE DEF x
        <4> QED BY TextsCounted
      <3>2. Cardinality({dr \in Runs : GoesOn(d, dr, x, t)}) =
                IF SubSeq(d, 1, j) = x THEN C * Cardinality(Giving(j, d[j + 1], t)) ELSE 0
        BY <1>1, RunsThatGoOn
      <3>3. h[pi[d]] = C * Cardinality(Giving(j, d[j + 1], t)) /\ h[pi[d]] \in Nat
        BY <1>5, <2>4
      <3>4. w[d] = IF SubSeq(d, 1, j) = x THEN DraftWeight(case, d) ELSE 0
        BY DEF Weight
      <3>5. z[d] = DraftWeight(case, d) * (IF SubSeq(d, 1, j) = x THEN h[pi[d]] ELSE 0)
        BY <3>1, <3>2, <3>3
      <3>6. DraftWeight(case, d) \in Nat
        BY <1>0, <1>5, WeightOf
      <3> HIDE DEF z, w, h, x
      <3>7. CASE SubSeq(d, 1, j) = x
        BY <3>4, <3>5, <3>7
      <3>8. CASE SubSeq(d, 1, j) # x
        <4>1. DraftWeight(case, d) * 0 = 0 /\ 0 * h[pi[d]] = 0
          BY <3>3, <3>6
        <4> QED BY <3>4, <3>5, <3>8, <4>1
      <3> QED BY <3>7, <3>8
    <2> HIDE DEF z, h, e, n, S, V, w, pi, x
    <2>6. Weights(h, V)
      BY <2>4 DEF Weights
    <2>7. Sum(z, S) = Sum(zz, V)
      <3>1. IsFiniteSet(S) /\ IsFiniteSet(V) /\ Weights(w, S) /\ Weights(h, V)
        BY <1>2, <1>4, <2>6
      <3>2. \A d \in S : pi[d] \in V
        BY <1>5
      <3> QED BY <2>5, <3>1, <3>2, SumByClass
    <2>8. \A y \in V : zz[y] \in Nat /\ (4 * q0) * zz[y] = K * e[y]
      <3> TAKE y \in V
      <3> DEFINE gy == G(y)
                 qy == q[y]
                 ny == n(y)
                 ey == e[y]
      <3>1. /\ gy \in Nat /\ qy \in Nat /\ ny \in Nat /\ ey \in Nat /\ g0 \in Nat
            /\ q0 * gy = qy * g0 /\ 4 * qy * ny = Grid * ey
        BY <1>3, <1>4, <2>1, <2>2 DEF Weights
      <3>2. zz[y] = gy * (C * ny)
        BY <1>6, <2>4
      <3> HIDE DEF gy, qy, ny, ey, g0, q0, q, zz
      <3>3. (4 * q0) * (gy * (C * ny)) = (q0 * gy) * (4 * C * ny)
        BY <1>4, <3>1
      <3>4. (qy * g0) * (4 * C * ny) = g0 * C * (4 * qy * ny)
        BY <3>1
      <3>5. g0 * C * (Grid * ey) = (g0 * C * Grid) * ey
        BY <1>0, <3>1
      <3>6. gy * (C * ny) \in Nat
        BY <3>1, ProductNat
      <3> QED BY <3>1, <3>2, <3>3, <3>4, <3>5, <3>6 DEF ey
    <2>9. K \in Nat /\ 4 * q0 \in Nat
      <3>1. g0 * C \in Nat
        BY <1>4, ProductNat
      <3> QED BY <1>0, <1>4, <3>1, ProductNat
    <2> HIDE DEF zz, K, q0
    <2>10. Weights(zz, V)
      BY <2>8 DEF Weights
    <2>11. (4 * q0) * Sum(zz, V) = K * Sum(e, V)
      BY <1>2, <2>2, <2>8, <2>9, <2>10, SumScaled
    <2>12. Sum(zz, V) \in Nat
      BY <1>2, <2>10, SumType
    <2>13. K * (case.p[j + 1][t] * Grid) = (K * Grid) * case.p[j + 1][t]
      <3> DEFINE pt == case.p[j + 1][t]
      <3>1. pt \in Nat
        BY <1>7
      <3> HIDE DEF pt
      <3>2. K * (pt * Grid) = (K * Grid) * pt
        BY <1>0, <2>9, <3>1
      <3> QED BY <3>2 DEF pt
    <2> QED BY <2>2, <2>3, <2>7, <2>11, <2>12, <2>13
  <1>9. K * Grid \in Nat /\ 4 * q0 \in Nat /\ 4 * q0 > 0
    <2>1. g0 * C \in Nat
      BY <1>4, ProductNat
    <2>2. K \in Nat
      BY <1>0, <2>1, ProductNat
    <2>3. K * Grid \in Nat
      BY <1>0, <2>2, ProductNat
    <2> HIDE DEF q0
    <2> QED BY <1>4, <2>3
  <1> HIDE DEF K, q0
  <1> QED BY <1>8, <1>9 DEF Faithful

\* Nothing of the drafts is rejected: the last token is drawn from the row itself.
LEMMA CountAtEnd ==
    ASSUME IInv, NEW v, Setting(v)
    PROVE  Faithful(v, Gamma)
  <1> DEFINE V == 0 .. v - 1
             S == DrawnDrafts
             x == SubSeq(drafts, 1, Gamma)
             p == case.p[Gamma + 1]
             W == DraftWeight(case, drafts)
  <1>0. /\ v \in Nat /\ v > 0 /\ Gamma \in Nat /\ Gamma > 0 /\ Grid \in Nat /\ Gamma \in 0 .. Gamma
        /\ drafts \in [1 .. Gamma -> 0 .. v - 1] /\ Vocab = 0 .. v - 1 /\ p \in Rows(v)
    BY SamplerAssumption DEF Setting
  <1>1. PICK C \in Nat : \A R \in SUBSET Between :
            Cardinality({dr \in Accepting(Gamma) : dr[Gamma + 1] \in R}) = C * Cardinality(R)
    BY LastAlike
  <1>2. \A d \in S : d \in [1 .. Gamma -> 0 .. v - 1] /\ DraftWeight(case, d) \in Nat
    <2> TAKE d \in S
    <2>1. d \in [1 .. Gamma -> 0 .. v - 1]
      BY <1>0 DEF DrawnDrafts
    <2>2. 1 \in 1 .. Gamma
      BY <1>0
    <2> QED BY <1>0, <2>1, <2>2, WeightOf
  <1>3. drafts \in S
    BY DEF IInv, DrawnDrafts
  <1>4. W \in Nat
    BY <1>2, <1>3
  <1>5. \A d \in S : SubSeq(d, 1, Gamma) = d
    <2> TAKE d \in S
    <2>1. d \in [1 .. Gamma -> 0 .. v - 1]
      BY <1>2
    <2>2. SubSeq(d, 1, Gamma) = [i \in 1 .. Gamma |-> d[i]]
      BY <1>0, <2>1
    <2> QED BY <1>0, <2>1, <2>2
  <1>6. x = drafts /\ Len(x) = Gamma
    <2>1. x = drafts
      BY <1>3, <1>5
    <2> HIDE DEF x
    <2> QED BY <1>0, <2>1, DraftsAreSequences
  <1>7. /\ DOMAIN p = V /\ Weights(p, V) /\ Mass(p) = Unit /\ Unit \in Nat /\ Unit > 0
        /\ \A t \in V : p[t] \in Nat
    <2>1. \A t \in V : p[t] \in 0 .. Unit
      BY <1>0, RowFacts
    <2> HIDE DEF p
    <2> QED BY <1>0, <2>1, RowFacts
  <1> DEFINE K == W * C * Grid
             k == 2 * Unit
  <1>8. K \in Nat /\ k \in Nat /\ k > 0
    <2>1. W * C \in Nat
      BY <1>4, ProductNat
    <2> HIDE DEF W
    <2> QED BY <1>0, <1>7, <2>1, ProductNat
  <1>9. ASSUME NEW t \in V
        PROVE  Count(Texts, x, t) \in Nat /\ k * Count(Texts, x, t) = K * p[t]
    <2> DEFINE z == [d \in S |-> DraftWeight(case, d) * Cardinality(GoingOn(Texts, d, x, t))]
               U == DrawsFrom(p, t)
               nu == Cardinality(U)
    <2>1. Count(Texts, x, t) = Sum(z, S)
      <3> HIDE DEF x
      <3> QED BY CountIsSum
    <2>2. ASSUME NEW d \in S
          PROVE  Cardinality(GoingOn(Texts, d, x, t)) = Cardinality({dr \in Runs : GoesOn(d, dr, x, t)})
      <3> HIDE DEF x
      <3> QED BY TextsCounted
    <2>3. nu \in Nat /\ 2 * nu * Unit = p[t] * Grid
      <3> HIDE DEF p
      <3>1. Mass(p) > 0 /\ Mass(p) <= Unit
        BY <1>7
      <3>2. nu \in Nat /\ 2 * nu * Mass(p) = p[t] * Grid
        BY <1>0, <1>7, <3>1, SampledOften
      <3> QED BY <1>7, <3>2
    <2>4. ASSUME NEW d \in S, d # drafts PROVE {dr \in Runs : GoesOn(d, dr, x, t)} = {}
      <3>1. SubSeq(d, 1, Len(x)) # x
        BY <1>5, <1>6, <2>4
      <3> HIDE DEF x
      <3> QED BY <3>1 DEF GoesOn
    <2>5. {dr \in Runs : GoesOn(drafts, dr, x, t)} = {dr \in Accepting(Gamma) : dr[Gamma + 1] \in U}
      <3>1. ASSUME NEW dr \in Runs
            PROVE  GoesOn(drafts, dr, x, t) <=> Passes(drafts, dr, Gamma) /\ dr[Gamma + 1] \in U
        <4>1. GoesOn(drafts, dr, x, t) <=>
                 SubSeq(drafts, 1, Gamma) = x /\ Passes(drafts, dr, Gamma) /\ Continues(drafts, dr, Gamma, t)
          <5> DEFINE y == x
          <5>1. Len(y) = Gamma
            BY <1>6
          <5> HIDE DEF y
          <5>2. GoesOn(drafts, dr, y, t) <=>
                 SubSeq(drafts, 1, Gamma) = y /\ Passes(drafts, dr, Gamma) /\ Continues(drafts, dr, Gamma, t)
            BY <1>0, <5>1, GoesOnIs
          <5> QED BY <5>2 DEF y
        <4>2. AdjustedDistribution(case, Gamma, FALSE) = p
          BY DEF AdjustedDistribution
        <4>3. dr[Gamma + 1] \in Between
          BY <1>0 DEF Runs
        <4>4. Continues(drafts, dr, Gamma, t) <=> dr[Gamma + 1] \in U
          BY <4>2, <4>3 DEF Drawn, DrawsFrom, Continues
        <4> QED BY <4>1, <4>4
      <3> HIDE DEF x, U
      <3> QED BY <3>1 DEF Accepting
    <2>6. Cardinality({dr \in Runs : GoesOn(drafts, dr, x, t)}) = C * nu
      <3>1. U \in SUBSET Between
        BY DEF DrawsFrom
      <3> HIDE DEF U
      <3> QED BY <1>1, <2>5, <3>1
    <2>7. \A d \in S : z[d] \in Nat /\ (drafts # d => z[d] = 0)
      <3> TAKE d \in S
      <3>1. CASE d = drafts
        <4>1. z[d] = W * (C * nu)
          BY <2>2, <2>6, <3>1
        <4>2. C * nu \in Nat
          BY <2>3, ProductNat
        <4>3. W * (C * nu) \in Nat
          BY <1>4, <4>2, ProductNat
        <4> QED BY <3>1, <4>1, <4>3
      <3>2. CASE d # drafts
        <4>1. Cardinality(GoingOn(Texts, d, x, t)) = 0
          BY <2>2, <2>4, <3>2, FS_EmptySet
        <4>2. z[d] = DraftWeight(case, d) * 0
          BY <4>1
        <4>3. DraftWeight(case, d) * 0 = 0
          BY <1>2
        <4> QED BY <4>2, <4>3
      <3> QED BY <3>1, <3>2
    <2>8. z[drafts] = W * (C * nu)
      BY <1>3, <2>2, <2>6
    <2>9. Sum(z, S) = z[drafts]
      <3>1. IsFiniteSet(S)
        BY RunsFinite
      <3> HIDE DEF S, z
      <3>2. Weights(z, S)
        BY <2>7 DEF Weights
      <3> QED BY <1>3, <2>7, <3>1, <3>2, SumOfOne
    <2>10. k * (W * (C * nu)) = K * p[t]
      <3> DEFINE pt == p[t]
      <3>1. pt \in Nat /\ 2 * nu * Unit = pt * Grid
        BY <1>7, <2>3
      <3> HIDE DEF pt, W, nu
      <3>2. (2 * Unit) * (W * (C * nu)) = (W * C) * (2 * nu * Unit)
        BY <1>4, <1>7, <2>3
      <3>3. (W * C) * (pt * Grid) = (W * C * Grid) * pt
        BY <1>0, <1>4, <3>1
      <3> QED BY <3>1, <3>2, <3>3 DEF pt
    <2>11. z[drafts] \in Nat
      BY <1>3, <2>7
    <2> HIDE DEF z, K, k, x, p
    <2> QED BY <2>1, <2>8, <2>9, <2>10, <2>11
  <1> HIDE DEF K, k
  <1> QED BY <1>8, <1>9 DEF Faithful

InRatio(w, a, k, m, S) == \A x \in S : m * w[x] = k * a[x]

LEMMA SumInRatio ==
    ASSUME NEW S, IsFiniteSet(S), NEW w, NEW a, Weights(a, S), Weights(w, S),
           NEW k \in Nat, NEW m \in Nat, InRatio(w, a, k, m, S)
    PROVE  m * Sum(w, S) = k * Sum(a, S)
  BY SumScaled DEF InRatio

\* Counts that are in the ratio of the shares of p.
LEMMA Proportional ==
    ASSUME NEW v \in Nat, NEW p \in Rows(v), NEW counts, DOMAIN counts = 0 .. v - 1,
           NEW g \in Nat, NEW f \in Nat, f > 0,
           \A t \in 0 .. v - 1 : counts[t] \in Nat /\ f * counts[t] = g * p[t]
    PROVE  \A t \in 0 .. v - 1 : counts[t] * Unit = p[t] * Mass(counts)
  <1> DEFINE V == 0 .. v - 1
  <1>1. IsFiniteSet(V) /\ Weights(p, V) /\ Sum(p, V) = Unit /\ Unit \in Nat
    BY RowFacts
  <1>2. Weights(counts, V) /\ Mass(counts) = Sum(counts, V)
    BY MassIsSum DEF Weights
  <1>3. \A t \in V : counts[t] \in Nat /\ p[t] \in Nat
    BY <1>1 DEF Weights
  <1>6. \A t \in V : f * counts[t] = g * p[t]
    OBVIOUS
  <1> HIDE DEF V
  <1>4. f * Mass(counts) = g * Unit /\ Mass(counts) \in Nat
    <2>0. InRatio(counts, p, g, f, V)
      BY <1>6 DEF InRatio
    <2>1. f * Sum(counts, V) = g * Sum(p, V)
      BY <1>1, <1>2, <2>0, SumInRatio
    <2>2. Sum(counts, V) \in Nat
      BY <1>1, <1>2, SumType
    <2> QED BY <1>1, <1>2, <2>1, <2>2
  <1>5. ASSUME NEW t \in V PROVE counts[t] * Unit = p[t] * Mass(counts)
    <2> DEFINE n == counts[t]
               s == p[t]
               M == Mass(counts)
    <2>1. n \in Nat /\ s \in Nat /\ M \in Nat /\ f * n = g * s /\ f * M = g * Unit
      BY <1>3, <1>4, <1>6
    <2> HIDE DEF n, s, M
    <2>2. (n * Unit) * f = (f * n) * Unit /\ (s * M) * f = (f * M) * s
      BY <1>1, <2>1
    <2>3. (g * s) * Unit = (g * Unit) * s
      BY <1>1, <2>1
    <2>4. (n * Unit) * f = (s * M) * f
      BY <2>1, <2>2, <2>3
    <2>5. n * Unit \in Nat /\ s * M \in Nat
      BY <1>1, <2>1, ProductNat
    <2>6. n * Unit = s * M
      BY <2>4, <2>5, NatCancel
    <2> QED BY <2>6 DEF n, s, M
  <1> QED BY <1>5 DEF V

LEMMA NothingLost ==
    ASSUME IInv PROVE Lossless
  <1>1. PICK v \in Nat : Setting(v)
    BY CurrentRows
  <1>2. v \in Nat /\ Gamma \in Nat /\ Vocab = 0 .. v - 1
    BY <1>1 DEF Setting
  <1>3. ASSUME NEW j \in 0 .. Gamma, NEW counts,
               counts = [t \in Vocab |-> Count(Texts, SubSeq(drafts, 1, j), t)]
        PROVE  \A t \in Vocab : counts[t] * Unit = case.p[j + 1][t] * Mass(counts)
    <2>1. Faithful(v, j)
      <3>1. CASE j = Gamma
        BY <1>1, <3>1, CountAtEnd
      <3>2. CASE j # Gamma
        <4>1. j \in 0 .. Gamma - 1
          BY <1>2, <3>2
        <4> QED BY <1>1, <4>1, CountBefore
      <3> QED BY <3>1, <3>2
    <2>2. PICK K \in Nat, k \in Nat : k > 0 /\ \A t \in 0 .. v - 1 :
                 /\ Count(Texts, SubSeq(drafts, 1, j), t) \in Nat
                 /\ k * Count(Texts, SubSeq(drafts, 1, j), t) = K * case.p[j + 1][t]
      BY <2>1 DEF Faithful
    <2>3. DOMAIN counts = 0 .. v - 1 /\ \A t \in 0 .. v - 1 : counts[t] \in Nat /\ k * counts[t] = K * case.p[j + 1][t]
      BY <1>2, <1>3, <2>2
    <2> DEFINE p == case.p[j + 1]
    <2>4. p \in Rows(v)
      <3>1. j + 1 \in 1 .. Gamma + 1
        BY <1>2
      <3> QED BY <1>1, <3>1 DEF Setting
    <2>5. \A t \in 0 .. v - 1 : counts[t] * Unit = p[t] * Mass(counts)
      <3>1. \A t \in 0 .. v - 1 : counts[t] \in Nat /\ k * counts[t] = K * p[t]
        BY <2>3
      <3> HIDE DEF p
      <3> QED BY <2>2, <2>3, <2>4, <3>1, Proportional
    <2> QED BY <1>2, <2>5
  <1> QED BY <1>3 DEF Lossless

\* Whatever has been accepted, the next token is distributed as the target's own
\* row says, for every vocabulary, gamma and pair of models (sampler.py:36-104).
THEOREM NothingIsLost == SamplerSpec => []Lossless
  BY Invariance, NothingLost, PTL

-----------------------------------------------------------------------------
(* The single-rank programs *)

-----------------------------------------------------------------------------
(* Sizes of shapes *)

LEMMA Nbytes1 ==
    ASSUME NEW a PROVE Nbytes(<<a>>) = a \div 8 \/ a \notin Nat
  <1>1. SUFFICES ASSUME a \in Nat PROVE Nbytes(<<a>>) = a \div 8
    OBVIOUS
  <1> DEFINE Is(f) == f = [i \in 0 .. 0 |-> IF i = 0 THEN 1 ELSE f[i - 1] * <<a>>[i]]
  <1>2. Is([i \in 0 .. 0 |-> 1])
    OBVIOUS
  <1> DEFINE h == CHOOSE f : Is(f)
  <1>3. Is(h)
    BY <1>2
  <1>4. Nbytes(<<a>>) = h[0] * (a \div 8)
    BY DEF Nbytes, ElemsPerUnit
  <1> HIDE DEF h
  <1>5. h[0] = 1
    BY <1>3
  <1> QED BY <1>1, <1>4, <1>5

LEMMA Nbytes3 ==
    ASSUME NEW a \in Nat, NEW b \in Nat, NEW c \in Nat
    PROVE  Nbytes(<<a, b, c>>) = a * b * (c \div 8)
  <1> DEFINE s == <<a, b, c>>
             Is(f) == f = [i \in 0 .. 2 |-> IF i = 0 THEN 1 ELSE f[i - 1] * s[i]]
             g == [i \in 0 .. 2 |-> IF i = 0 THEN 1 ELSE IF i = 1 THEN a ELSE a * b]
  <1>2. Is(g)
    <2>1. ASSUME NEW i \in 0 .. 2 PROVE g[i] = IF i = 0 THEN 1 ELSE g[i - 1] * s[i]
      OBVIOUS
    <2> HIDE DEF s
    <2> QED BY <2>1
  <1> DEFINE h == CHOOSE f : Is(f)
  <1>3. Is(h)
    BY <1>2
  <1>4. Nbytes(<<a, b, c>>) = h[2] * (c \div 8)
    BY DEF Nbytes, ElemsPerUnit
  <1> HIDE DEF h
  <1>5. h[0] = 1 /\ h[1] = h[0] * a /\ h[2] = h[1] * b
    BY <1>3
  <1> QED BY <1>4, <1>5

LEMMA Nbytes2 ==
    ASSUME NEW a \in Nat, NEW b \in Nat PROVE Nbytes(<<a, b>>) = a * (b \div 8)
  <1> DEFINE s == <<a, b>>
             Is(f) == f = [i \in 0 .. 1 |-> IF i = 0 THEN 1 ELSE f[i - 1] * s[i]]
             g == [i \in 0 .. 1 |-> IF i = 0 THEN 1 ELSE a]
  <1>2. Is(g)
    <2>1. ASSUME NEW i \in 0 .. 1 PROVE g[i] = IF i = 0 THEN 1 ELSE g[i - 1] * s[i]
      OBVIOUS
    <2> HIDE DEF s
    <2> QED BY <2>1
  <1> DEFINE h == CHOOSE f : Is(f)
  <1>3. Is(h)
    BY <1>2
  <1>4. Nbytes(<<a, b>>) = h[1] * (b \div 8)
    BY DEF Nbytes, ElemsPerUnit
  <1> HIDE DEF h
  <1>5. h[0] = 1 /\ h[1] = h[0] * a
    BY <1>3
  <1> QED BY <1>4, <1>5

LEMMA Nbytes4 ==
    ASSUME NEW a \in Nat, NEW b \in Nat, NEW c \in Nat, NEW d \in Nat
    PROVE  Nbytes(<<a, b, c, d>>) = ((a * b) * c) * (d \div 8)
  <1> DEFINE s == <<a, b, c, d>>
             Is(f) == f = [i \in 0 .. 3 |-> IF i = 0 THEN 1 ELSE f[i - 1] * s[i]]
             g == [i \in 0 .. 3 |->
                     IF i = 0 THEN 1 ELSE IF i = 1 THEN a ELSE IF i = 2 THEN a * b ELSE (a * b) * c]
  <1>2. Is(g)
    <2>1. ASSUME NEW i \in 0 .. 3 PROVE g[i] = IF i = 0 THEN 1 ELSE g[i - 1] * s[i]
      OBVIOUS
    <2> HIDE DEF s
    <2> QED BY <2>1
  <1> DEFINE h == CHOOSE f : Is(f)
  <1>3. Is(h)
    BY <1>2
  <1>4. Nbytes(<<a, b, c, d>>) = h[3] * (d \div 8)
    BY DEF Nbytes, ElemsPerUnit
  <1> HIDE DEF h
  <1>5. h[0] = 1 /\ h[1] = h[0] * a /\ h[2] = h[1] * b /\ h[3] = h[2] * c
    BY <1>3
  <1> QED BY <1>4, <1>5

\* Named, so that the provers need not multiply out.
Volume(a, b, c, d) == ((a * b) * c) * d

LEMMA Nbytes5 ==
    ASSUME NEW a \in Nat, NEW b \in Nat, NEW c \in Nat, NEW d \in Nat, NEW e \in Nat
    PROVE  Nbytes(<<a, b, c, d, e>>) = Volume(a, b, c, d) * (e \div 8)
  <1> DEFINE s == <<a, b, c, d, e>>
             Is(f) == f = [i \in 0 .. 4 |-> IF i = 0 THEN 1 ELSE f[i - 1] * s[i]]
             g == [i \in 0 .. 4 |->
                     IF i = 0 THEN 1 ELSE IF i = 1 THEN a ELSE IF i = 2 THEN a * b
                     ELSE IF i = 3 THEN (a * b) * c ELSE ((a * b) * c) * d]
  <1>2. Is(g)
    <2>1. ASSUME NEW i \in 0 .. 4 PROVE g[i] = IF i = 0 THEN 1 ELSE g[i - 1] * s[i]
      OBVIOUS
    <2> HIDE DEF s
    <2> QED BY <2>1
  <1> DEFINE h == CHOOSE f : Is(f)
  <1>3. Is(h)
    BY <1>2
  <1>4. Nbytes(<<a, b, c, d, e>>) = h[4] * (e \div 8)
    BY DEF Nbytes, ElemsPerUnit
  <1> HIDE DEF h
  <1>5. h[0] = 1 /\ h[1] = h[0] * a /\ h[2] = h[1] * b /\ h[3] = h[2] * c /\ h[4] = h[3] * d
    BY <1>3
  <1> QED BY <1>4, <1>5 DEF Volume

-----------------------------------------------------------------------------
(* The memory of a set of tensors is a sum *)

LEMMA UnitsIsSum ==
    ASSUME NEW shapes, NEW names
    PROVE  UnitsOf(shapes, names) = Sum([name \in names |-> Nbytes(shapes[name])], names)
  <1> DEFINE w == [name \in names |-> Nbytes(shapes[name])]
  <1>1. ASSUME NEW f
        PROVE  f = [s \in SUBSET names |-> IF s = {} THEN 0
                       ELSE Nbytes(shapes[Picked(s)]) + f[s \ {Picked(s)}]]
               <=> AddsUp(f, w, names)
    <2>1. \A s \in SUBSET names : s # {} => w[Picked(s)] = Nbytes(shapes[Picked(s)])
      BY PickedIn
    <2> HIDE DEF w
    <2>2. [s \in SUBSET names |-> IF s = {} THEN 0
                       ELSE Nbytes(shapes[Picked(s)]) + f[s \ {Picked(s)}]]
          = [s \in SUBSET names |-> IF s = {} THEN 0 ELSE w[Picked(s)] + f[s \ {Picked(s)}]]
      BY <2>1
    <2> QED BY <2>2 DEF AddsUp
  <1> QED BY <1>1 DEF UnitsOf, FoldSet, MapThenFoldSet, Sum, Picked

-----------------------------------------------------------------------------
(* Configurations *)

Usable(cfg) == cfg \in RuntimeConfigs /\ cfg.hidden_size >= ElemsPerUnit

LEMMA Quotient ==
    ASSUME NEW a \in Nat, NEW b \in Nat, b > 0
    PROVE  a \div b \in Nat /\ (a \div b) * b <= a /\ a < (a \div b + 1) * b
  OBVIOUS

LEMMA Dims ==
    ASSUME NEW cfg, Usable(cfg)
    PROVE  /\ cfg.hidden_size \in Nat /\ cfg.intermediate_size \in Nat
           /\ cfg.num_hidden_layers \in Nat /\ cfg.num_attention_heads \in Nat
           /\ cfg.num_key_value_heads \in Nat /\ cfg.vocab_size \in Nat
           /\ cfg.tie_word_embeddings \in BOOLEAN /\ cfg.max_position_embeddings \in Nat
           /\ HeadDim(cfg) \in Nat /\ KvDim(cfg) \in Nat
           /\ KvCacheHeadDim(cfg) \in Nat
           /\ cfg.hidden_size \div 8 \in Nat /\ cfg.hidden_size \div 8 > 0
  <1>1. /\ cfg.hidden_size \in Nat /\ cfg.intermediate_size \in Nat /\ cfg.hidden_size >= 8
        /\ cfg.num_hidden_layers \in Nat /\ cfg.num_attention_heads \in Nat \ {0}
        /\ cfg.num_key_value_heads \in Nat /\ cfg.vocab_size \in Nat
        /\ cfg.tie_word_embeddings \in BOOLEAN /\ cfg.max_position_embeddings \in Nat
    BY DEF Usable, RuntimeConfigs, ElemsPerUnit
  <1>2. HeadDim(cfg) \in Nat
    BY <1>1, Quotient DEF HeadDim
  <1>3. KvDim(cfg) \in Nat
    BY <1>1, <1>2, ProductNat DEF KvDim
  <1>4. KvCacheHeadDim(cfg) \in Nat
    <2> DEFINE q == (HeadDim(cfg) + 8 - 1) \div 8
    <2>1. q \in Nat
      BY <1>2
    <2> HIDE DEF q
    <2>2. q * 8 \in Nat
      BY <2>1
    <2> QED BY <2>2 DEF KvCacheHeadDim, ElemsPerUnit, q
  <1> QED BY <1>1, <1>2, <1>3, <1>4

LEMMA WeightBytes ==
    ASSUME NEW cfg, Usable(cfg)
    PROVE  /\ \A x \in DOMAIN WeightShapes(cfg) : Nbytes(WeightShapes(cfg)[x]) \in Nat
           /\ LayerWeights \subseteq DOMAIN WeightShapes(cfg)
           /\ {"embed_tokens", "final_norm", "lm_head"} \subseteq DOMAIN WeightShapes(cfg)
  <1> DEFINE h == cfg.hidden_size  kv == KvDim(cfg)  i == cfg.intermediate_size  v == cfg.vocab_size
             Fits(s) == Nbytes(s) \in Nat
             shapes == WeightShapes(cfg)
  <1>1. h \in Nat /\ kv \in Nat /\ i \in Nat /\ v \in Nat
    BY Dims
  <1>2. ASSUME NEW a \in Nat PROVE Fits(<<a>>)
    BY Nbytes1
  <1>3. ASSUME NEW a \in Nat, NEW b \in Nat PROVE Fits(<<a, b>>)
    <2>1. Nbytes(<<a, b>>) = a * (b \div 8) /\ b \div 8 \in Nat
      BY Nbytes2
    <2> QED BY <2>1, ProductNat
  <1>4. /\ Fits(<<v, h>>) /\ Fits(<<h>>) /\ Fits(<<h, h>>) /\ Fits(<<kv, h>>) /\ Fits(<<kv>>)
        /\ Fits(<<i, h>>) /\ Fits(<<h, i>>)
    BY <1>1, <1>2, <1>3
  <1>5. /\ DOMAIN shapes = {"embed_tokens", "final_norm", "lm_head"} \cup LayerWeights
        /\ \A x \in DOMAIN shapes :
               shapes[x] \in {<<v, h>>, <<h>>, <<h, h>>, <<kv, h>>, <<kv>>, <<i, h>>, <<h, i>>}
    BY DEF WeightShapes, LayerWeights
  <1>6. \A x \in DOMAIN shapes : Fits(shapes[x])
    <2> HIDE DEF Fits, shapes, h, kv, i, v
    <2> QED BY <1>4, <1>5
  <1> QED BY <1>5, <1>6

\* The memory of tensors of a configuration is counted, whatever record names them.
LEMMA UnitsOfWeights ==
    ASSUME NEW cfg, Usable(cfg), NEW names, names \subseteq DOMAIN WeightShapes(cfg),
           IsFiniteSet(names), NEW shapes,
           \A name \in names : shapes[name] = WeightShapes(cfg)[name]
    PROVE  /\ UnitsOf(shapes, names) = UnitsOf(WeightShapes(cfg), names)
           /\ UnitsOf(shapes, names) \in Nat
  <1> DEFINE w == [name \in names |-> Nbytes(shapes[name])]
             a == [name \in names |-> Nbytes(WeightShapes(cfg)[name])]
  <1>1. w = a /\ Weights(a, names)
    BY WeightBytes DEF Weights
  <1>2. UnitsOf(shapes, names) = Sum(w, names)
    BY UnitsIsSum
  <1>3. UnitsOf(WeightShapes(cfg), names) = Sum(a, names)
    BY UnitsIsSum
  <1> HIDE DEF w, a
  <1> QED BY <1>1, <1>2, <1>3, SumType

LEMMA FiniteThree == ASSUME NEW a, NEW b, NEW c PROVE IsFiniteSet({a, b, c})
  <1>1. IsFiniteSet({a}) /\ IsFiniteSet({b}) /\ IsFiniteSet({c})
    BY FS_Singleton
  <1>2. IsFiniteSet({a} \cup {b})
    BY <1>1, FS_Union
  <1>3. IsFiniteSet(({a} \cup {b}) \cup {c})
    BY <1>1, <1>2, FS_Union
  <1>4. ({a} \cup {b}) \cup {c} = {a, b, c}
    OBVIOUS
  <1> QED BY <1>3, <1>4

LEMMA FiniteNames ==
    /\ IsFiniteSet(LayerWeights)
    /\ \A cfg : IsFiniteSet(FinalNames(cfg))
  <1>2. IsFiniteSet(LayerWeights)
    <2> DEFINE A == {"q_proj", "k_proj", "v_proj"}  B == {"o_proj", "gate_proj", "up_proj"}
               C == {"down_proj", "q_proj_bias", "k_proj_bias"}
               D == {"v_proj_bias", "input_layernorm", "post_attention_layernorm"}
    <2>1. IsFiniteSet(A) /\ IsFiniteSet(B) /\ IsFiniteSet(C) /\ IsFiniteSet(D)
      BY FiniteThree
    <2>2. LayerWeights = (A \cup B) \cup (C \cup D)
      BY DEF LayerWeights
    <2> HIDE DEF A, B, C, D
    <2>3. IsFiniteSet(A \cup B) /\ IsFiniteSet(C \cup D)
      BY <2>1, FS_Union
    <2> QED BY <2>2, <2>3, FS_Union
  <1>3. ASSUME NEW cfg PROVE IsFiniteSet(FinalNames(cfg))
    <2>0. {"embed_tokens", "final_norm", "final_norm"} = {"embed_tokens", "final_norm"}
      OBVIOUS
    <2>1. IsFiniteSet({"embed_tokens", "final_norm"}) /\ IsFiniteSet({}) /\ IsFiniteSet({"lm_head"})
      BY FiniteThree, <2>0, FS_EmptySet, FS_Singleton
    <2>2. IsFiniteSet(IF cfg.tie_word_embeddings THEN {} ELSE {"lm_head"})
      BY <2>1
    <2> QED BY <2>1, <2>2, FS_Union DEF FinalNames
  <1> QED BY <1>2, <1>3

-----------------------------------------------------------------------------
(* The weights a loaded model takes are the total of the plan *)

LEMMA LoadedIsTotal ==
    ASSUME NEW cfg, Usable(cfg)
    PROVE  /\ LoadedBytes(ExpectedKeys(cfg)) = TotalWeightBytes(cfg)
           /\ TotalWeightBytes(cfg) \in Nat
  <1> DEFINE shapes == WeightShapes(cfg)
             weights == ExpectedKeys(cfg)
             L == cfg.num_hidden_layers
             final == FinalNames(cfg)
             NamesOf(layer) == {key[2] : key \in {k \in DOMAIN weights : k[1] = layer}}
             OfLayer(layer) == UnitsOf([name \in NamesOf(layer) |-> weights[<<layer, name>>]], NamesOf(layer))
             layers == {key[1] : key \in DOMAIN weights}
             w == [layer \in layers |-> OfLayer(layer)]
             F == UnitsOf(shapes, final)
             G == UnitsOf(shapes, LayerWeights)
  <1>0. L \in Nat
    BY Dims
  <1>1. /\ DOMAIN weights = ({-1} \X final) \cup ((0 .. L - 1) \X LayerWeights)
        /\ \A key \in DOMAIN weights : weights[key] = shapes[key[2]]
    BY DEF ExpectedKeys, Outside
  <1>2. final \subseteq DOMAIN shapes /\ LayerWeights \subseteq DOMAIN shapes
    BY WeightBytes DEF FinalNames
  <1>3. "embed_tokens" \in final /\ "q_proj" \in LayerWeights
    BY DEF FinalNames, LayerWeights
  <1>4. IsFiniteSet(final) /\ IsFiniteSet(LayerWeights)
    BY FiniteNames
  <1>5. layers = {-1} \cup (0 .. L - 1)
    <2> DEFINE A == {-1} \X final  B == (0 .. L - 1) \X LayerWeights
    <2>1. \A key \in A : key[1] = -1
      OBVIOUS
    <2>2. \A key \in B : key[1] \in 0 .. L - 1
      OBVIOUS
    <2>3. <<-1, "embed_tokens">> \in A /\ \A layer \in 0 .. L - 1 : <<layer, "q_proj">> \in B
      BY <1>3
    <2>4. DOMAIN weights = A \cup B
      BY <1>1
    <2> HIDE DEF weights, final, L, A, B
    <2>5. \A x \in layers : x \in {-1} \cup (0 .. L - 1)
      BY <2>1, <2>2, <2>4
    <2>6. -1 \in layers
      <3>1. <<-1, "embed_tokens">>[1] = -1
        OBVIOUS
      <3> QED BY <2>3, <2>4, <3>1
    <2>7. ASSUME NEW layer \in 0 .. L - 1 PROVE layer \in layers
      <3>1. <<layer, "q_proj">>[1] = layer
        OBVIOUS
      <3> QED BY <2>3, <2>4, <3>1
    <2> QED BY <2>5, <2>6, <2>7
  <1>6. NamesOf(-1) = final /\ \A layer \in 0 .. L - 1 : NamesOf(layer) = LayerWeights
    <2> HIDE DEF weights, final, L
    <2>1. NamesOf(-1) = final
      <3>1. \A k \in DOMAIN weights : k[1] = -1 => k[2] \in final
        BY <1>0, <1>1
      <3>2. \A name \in final : <<-1, name>> \in DOMAIN weights
        BY <1>1
      <3>3. ASSUME NEW name \in final PROVE name \in NamesOf(-1)
        <4>1. <<-1, name>>[1] = -1 /\ <<-1, name>>[2] = name
          OBVIOUS
        <4> QED BY <3>2, <4>1
      <3>4. ASSUME NEW name \in NamesOf(-1) PROVE name \in final
        BY <3>1
      <3> QED BY <3>3, <3>4
    <2>2. ASSUME NEW layer \in 0 .. L - 1 PROVE NamesOf(layer) = LayerWeights
      <3>1. \A k \in DOMAIN weights : k[1] = layer => k[2] \in LayerWeights
        BY <1>0, <1>1
      <3>2. \A name \in LayerWeights : <<layer, name>> \in DOMAIN weights
        BY <1>1
      <3>3. ASSUME NEW name \in LayerWeights PROVE name \in NamesOf(layer)
        <4>1. <<layer, name>>[1] = layer /\ <<layer, name>>[2] = name
          OBVIOUS
        <4> QED BY <3>2, <4>1
      <3>4. ASSUME NEW name \in NamesOf(layer) PROVE name \in LayerWeights
        BY <3>1
      <3> QED BY <3>3, <3>4
    <2> QED BY <2>1, <2>2
  <1>7. F \in Nat /\ G \in Nat
    BY <1>2, <1>4, UnitsOfWeights
  <1>8. OfLayer(-1) = F
    <2> DEFINE part == [name \in final |-> weights[<<-1, name>>]]
    <2>1. \A name \in final : part[name] = shapes[name]
      <3> HIDE DEF weights, final, shapes, L
      <3> QED BY <1>1
    <2>2. UnitsOf(part, final) = F
      <3> HIDE DEF part, final
      <3> QED BY <1>2, <1>4, <2>1, UnitsOfWeights
    <2> QED BY <1>6, <2>2
  <1>9. ASSUME NEW layer \in 0 .. L - 1 PROVE OfLayer(layer) = G
    <2> DEFINE part == [name \in LayerWeights |-> weights[<<layer, name>>]]
    <2>1. \A name \in LayerWeights : part[name] = shapes[name]
      <3> HIDE DEF weights, final, shapes, L
      <3> QED BY <1>1
    <2>2. UnitsOf(part, LayerWeights) = G
      <3> HIDE DEF part
      <3> QED BY <1>2, <1>4, <2>1, UnitsOfWeights
    <2>3. NamesOf(layer) = LayerWeights
      BY <1>6, <1>9
    <2> QED BY <2>2, <2>3
  <1>10. LoadedBytes(weights) = Sum(w, layers)
    <2>1. ASSUME NEW f
          PROVE  f = [s \in SUBSET layers |-> IF s = {} THEN 0
                         ELSE OfLayer(Picked(s)) + f[s \ {Picked(s)}]]
                 <=> AddsUp(f, w, layers)
      <3>1. \A s \in SUBSET layers : s # {} => w[Picked(s)] = OfLayer(Picked(s))
        <4> HIDE DEF layers, OfLayer
        <4> QED BY PickedIn
      <3> HIDE DEF w, layers, OfLayer
      <3>2. [s \in SUBSET layers |-> IF s = {} THEN 0 ELSE OfLayer(Picked(s)) + f[s \ {Picked(s)}]]
            = [s \in SUBSET layers |-> IF s = {} THEN 0 ELSE w[Picked(s)] + f[s \ {Picked(s)}]]
        BY <3>1
      <3> QED BY <3>2 DEF AddsUp
    <2> HIDE DEF w, weights
    <2> QED BY <2>1 DEF LoadedBytes, FoldSet, MapThenFoldSet, Sum, Picked
  <1> DEFINE R == 0 .. L - 1
  <1>11. w[-1] = F /\ \A layer \in R : w[layer] = G
    <2> HIDE DEF OfLayer, F, G, layers
    <2> QED BY <1>5, <1>8, <1>9
  <1>12. IsFiniteSet(R) /\ Cardinality(R) = L
    <2>1. 0 \in Int /\ L - 1 \in Int
      BY <1>0
    <2>2. IsFiniteSet(0 .. L - 1) /\ Cardinality(0 .. L - 1) = IF 0 > L - 1 THEN 0 ELSE (L - 1) - 0 + 1
      BY <2>1, FS_Interval
    <2> HIDE DEF L
    <2> QED BY <1>0, <2>2
  <1> HIDE DEF F, G, layers, w, weights, L
  <1>13. IsFiniteSet(layers) /\ Weights(w, layers)
    <2>1. IsFiniteSet({-1})
      BY FS_Singleton
    <2>2. IsFiniteSet({-1} \cup R)
      BY <1>12, <2>1, FS_Union
    <2> QED BY <1>5, <1>7, <1>11, <2>2 DEF Weights
  <1>14. Sum(w, layers) = w[-1] + Sum(w, layers \ {-1})
    <2>1. -1 \in layers
      BY <1>5
    <2> QED BY <1>13, <2>1, SumStep
  <1>15. layers \ {-1} = R
    BY <1>0, <1>5
  <1>16. Sum(w, R) = L * G
    <2> HIDE DEF R
    <2> QED BY <1>7, <1>11, <1>12, SumOfEqual
  <1>17. LoadedBytes(weights) = F + L * G /\ F + L * G \in Nat
    <2>1. L * G \in Nat
      BY <1>0, <1>7, ProductNat
    <2>2. LoadedBytes(weights) = F + L * G
      <3> HIDE DEF R
      <3> QED BY <1>10, <1>11, <1>14, <1>15, <1>16
    <2> QED BY <1>7, <2>1, <2>2
  <1>18. TotalWeightBytes(cfg) = F + L * G
    BY DEF TotalWeightBytes, F, G, L, FinalNames
  <1> QED BY <1>17, <1>18 DEF weights

-----------------------------------------------------------------------------
(* The buffers of n positions take n times those of one, and the cursor *)

LEMMA Linear ==
    ASSUME NEW a \in Nat, NEW b \in Nat, NEW n \in Nat
    PROVE  (a * n) * b = n * ((a * 1) * b)
  OBVIOUS

LEMMA BufferBytesOf ==
    ASSUME NEW cfg, Usable(cfg), NEW b \in Nat, NEW n \in Nat
    PROVE  LET Of(x, k) == Nbytes(PlannedBuffers(cfg, b, k)[x])
           IN  /\ \A x \in DOMAIN PlannedBuffers(cfg, b, n) :
                      Of(x, n) \in Nat /\ Of(x, 1) \in Nat /\ Of(x, n) = n * Of(x, 1)
               /\ Of("hidden_ping", 1) = b * (cfg.hidden_size \div 8)
  <1> DEFINE Of(x, k) == Nbytes(PlannedBuffers(cfg, b, k)[x])
             h == cfg.hidden_size  q == cfg.num_attention_heads  kv == cfg.num_key_value_heads
             v == cfg.vocab_size  i == cfg.intermediate_size  L == cfg.num_hidden_layers
             hd == HeadDim(cfg)  kd == KvCacheHeadDim(cfg)
             Scales(s, t) == Nbytes(s) \in Nat /\ Nbytes(t) \in Nat
                                 /\ Nbytes(s) = n * Nbytes(t)
  <1>1. /\ h \in Nat /\ q \in Nat /\ kv \in Nat /\ v \in Nat /\ i \in Nat /\ L \in Nat
        /\ hd \in Nat /\ kd \in Nat
    BY Dims
  <1>2. ASSUME NEW a \in Nat, NEW c \in Nat
        PROVE  /\ (a * n) * c \in Nat /\ (a * 1) * c \in Nat
               /\ (a * n) * c = n * ((a * 1) * c)
    <2>1. a * n \in Nat /\ a * 1 \in Nat
      BY ProductNat
    <2> QED BY <2>1, ProductNat, Linear
  <1>3. ASSUME NEW c \in Nat PROVE Scales(<<n, c>>, <<1, c>>)
    <2>1. c \div 8 \in Nat
      OBVIOUS
    <2>2. Nbytes(<<n, c>>) = n * (c \div 8) /\ Nbytes(<<1, c>>) = 1 * (c \div 8)
      BY Nbytes2
    <2> QED BY <2>1, <2>2, ProductNat
  <1>4. ASSUME NEW c \in Nat PROVE Scales(<<b, n, c>>, <<b, 1, c>>)
    <2>1. c \div 8 \in Nat
      OBVIOUS
    <2>2. Nbytes(<<b, n, c>>) = b * n * (c \div 8) /\ Nbytes(<<b, 1, c>>) = b * 1 * (c \div 8)
      BY Nbytes3
    <2> QED BY <1>2, <2>1, <2>2
  <1>5. ASSUME NEW a \in Nat, NEW c \in Nat PROVE Scales(<<b, a, n, c>>, <<b, a, 1, c>>)
    <2>1. c \div 8 \in Nat /\ b * a \in Nat
      BY ProductNat
    <2>2. /\ Nbytes(<<b, a, n, c>>) = ((b * a) * n) * (c \div 8)
          /\ Nbytes(<<b, a, 1, c>>) = ((b * a) * 1) * (c \div 8)
      BY Nbytes4
    <2> QED BY <1>2, <2>1, <2>2
  <1>6. ASSUME NEW d \in Nat, NEW a \in Nat, NEW c \in Nat
        PROVE  Scales(<<d, b, a, n, c>>, <<d, b, a, 1, c>>)
    <2>1. c \div 8 \in Nat /\ d * b \in Nat
      BY ProductNat
    <2>2. (d * b) * a \in Nat
      BY <2>1, ProductNat
    <2>3. ASSUME NEW k \in Nat PROVE Nbytes(<<d, b, a, k, c>>) = Volume(d, b, a, k) * (c \div 8)
      BY Nbytes5
    <2>4. /\ Nbytes(<<d, b, a, n, c>>) = (((d * b) * a) * n) * (c \div 8)
          /\ Nbytes(<<d, b, a, 1, c>>) = (((d * b) * a) * 1) * (c \div 8)
      <3>1. 1 \in Nat
        OBVIOUS
      <3> QED BY <2>3, <3>1 DEF Volume
    <2> QED BY <1>2, <2>1, <2>2, <2>4
  <1> HIDE DEF Scales
  <1>7. /\ Scales(<<b, n, h>>, <<b, 1, h>>) /\ Scales(<<b, q, n, hd>>, <<b, q, 1, hd>>)
        /\ Scales(<<b, kv, n, hd>>, <<b, kv, 1, hd>>) /\ Scales(<<b, n, i>>, <<b, 1, i>>)
        /\ Scales(<<b, n, v>>, <<b, 1, v>>) /\ Scales(<<L, b, kv, n, kd>>, <<L, b, kv, 1, kd>>)
        /\ Scales(<<n, hd>>, <<1, hd>>)
    BY <1>1, <1>3, <1>4, <1>5, <1>6
  <1> HIDE DEF h, q, kv, v, i, L, hd, kd
  <1>8. ASSUME NEW x \in DOMAIN PlannedBuffers(cfg, b, n)
        PROVE  Scales(PlannedBuffers(cfg, b, n)[x], PlannedBuffers(cfg, b, 1)[x])
    <2>1. ASSUME NEW k
          PROVE  PlannedBuffers(cfg, b, k) =
                   [hidden_ping |-> <<b, k, h>>, hidden_pong |-> <<b, k, h>>, q_states |-> <<b, q, k, hd>>,
                    k_states |-> <<b, kv, k, hd>>, v_states |-> <<b, kv, k, hd>>, mlp_gate |-> <<b, k, i>>,
                    logits |-> <<b, k, v>>, kv_cache_keys |-> <<L, b, kv, k, kd>>,
                    kv_cache_values |-> <<L, b, kv, k, kd>>, rope_cos |-> <<k, hd>>, rope_sin |-> <<k, hd>>]
      BY DEF PlannedBuffers, Hidden, QStates, KvStates, Logits,
             KvCache, RopeTable, h, q, kv, v, i, L, hd, kd
    <2> DEFINE s == PlannedBuffers(cfg, b, n)  t == PlannedBuffers(cfg, b, 1)
    <2>3. x \in {"hidden_ping", "hidden_pong", "q_states", "k_states", "v_states", "mlp_gate", "logits",
                 "kv_cache_keys", "kv_cache_values", "rope_cos", "rope_sin"}
      BY <2>1
    <2>4. /\ s["hidden_ping"] = <<b, n, h>> /\ t["hidden_ping"] = <<b, 1, h>>
          /\ s["hidden_pong"] = <<b, n, h>> /\ t["hidden_pong"] = <<b, 1, h>>
          /\ s["q_states"] = <<b, q, n, hd>> /\ t["q_states"] = <<b, q, 1, hd>>
          /\ s["k_states"] = <<b, kv, n, hd>> /\ t["k_states"] = <<b, kv, 1, hd>>
          /\ s["v_states"] = <<b, kv, n, hd>> /\ t["v_states"] = <<b, kv, 1, hd>>
          /\ s["mlp_gate"] = <<b, n, i>> /\ t["mlp_gate"] = <<b, 1, i>>
          /\ s["logits"] = <<b, n, v>> /\ t["logits"] = <<b, 1, v>>
          /\ s["kv_cache_keys"] = <<L, b, kv, n, kd>> /\ t["kv_cache_keys"] = <<L, b, kv, 1, kd>>
          /\ s["kv_cache_values"] = <<L, b, kv, n, kd>> /\ t["kv_cache_values"] = <<L, b, kv, 1, kd>>
          /\ s["rope_cos"] = <<n, hd>> /\ t["rope_cos"] = <<1, hd>>
          /\ s["rope_sin"] = <<n, hd>> /\ t["rope_sin"] = <<1, hd>>
      BY <2>1
    <2>5. \/ s[x] = <<b, n, h>> /\ t[x] = <<b, 1, h>>
          \/ s[x] = <<b, q, n, hd>> /\ t[x] = <<b, q, 1, hd>>
          \/ s[x] = <<b, kv, n, hd>> /\ t[x] = <<b, kv, 1, hd>>
          \/ s[x] = <<b, n, i>> /\ t[x] = <<b, 1, i>>
          \/ s[x] = <<b, n, v>> /\ t[x] = <<b, 1, v>>
          \/ s[x] = <<L, b, kv, n, kd>> /\ t[x] = <<L, b, kv, 1, kd>>
          \/ s[x] = <<n, hd>> /\ t[x] = <<1, hd>>
      <3> HIDE DEF s, t
      <3> QED BY <2>3, <2>4
    <2> HIDE DEF s, t
    <2>6. Scales(s[x], t[x])
      BY <1>7, <2>5
    <2> QED BY <2>6 DEF s, t
  <1>9. Of("hidden_ping", 1) = b * (h \div 8)
    <2>1. PlannedBuffers(cfg, b, 1)["hidden_ping"] = <<b, 1, h>>
      BY DEF PlannedBuffers, Hidden, h
    <2>2. Nbytes(<<b, 1, h>>) = b * 1 * (h \div 8)
      BY <1>1, Nbytes3
    <2>3. b * 1 = b
      OBVIOUS
    <2> QED BY <2>1, <2>2, <2>3
  <1> QED BY <1>8, <1>9 DEF Scales, h

LEMMA PlanIsLinear ==
    ASSUME NEW cfg, Usable(cfg), NEW b \in Nat, b > 0, NEW n \in Nat
    PROVE  /\ PlanRuntimeBytes(cfg, b, n) = n * RuntimeBytesPerSeq(cfg, b) + 1
           /\ RuntimeBytesPerSeq(cfg, b) \in Nat /\ RuntimeBytesPerSeq(cfg, b) > 0
  <1> DEFINE Of(x, k) == Nbytes(PlannedBuffers(cfg, b, k)[x])
             S == DOMAIN PlannedBuffers(cfg, b, n)
             w == [x \in S |-> Of(x, n)]
             a == [x \in S |-> Of(x, 1)]
  <1>1. S = {"hidden_ping", "hidden_pong", "q_states", "k_states", "v_states", "mlp_gate", "logits",
             "kv_cache_keys", "kv_cache_values", "rope_cos", "rope_sin"}
        /\ S = DOMAIN PlannedBuffers(cfg, b, 1)
    BY DEF PlannedBuffers
  <1>2. IsFiniteSet(S)
    <2> DEFINE A == {"hidden_ping", "hidden_pong", "q_states"}  B == {"k_states", "v_states", "mlp_gate"}
               C == {"logits", "kv_cache_keys", "kv_cache_values"}
               D == {"rope_cos", "rope_sin", "rope_sin"}
    <2>1. IsFiniteSet(A) /\ IsFiniteSet(B) /\ IsFiniteSet(C) /\ IsFiniteSet(D)
      BY FiniteThree
    <2>2. S = (A \cup B) \cup (C \cup D)
      BY <1>1
    <2> HIDE DEF A, B, C, D, S
    <2>3. IsFiniteSet(A \cup B) /\ IsFiniteSet(C \cup D)
      BY <2>1, FS_Union
    <2> QED BY <2>2, <2>3, FS_Union
  <1>3. \A x \in S : w[x] \in Nat /\ a[x] \in Nat /\ w[x] = n * a[x]
    BY BufferBytesOf
  <1>4. PlanRuntimeBytes(cfg, b, n) = Sum(w, S) + 1
    BY UnitsIsSum DEF PlanRuntimeBytes, CachePositionBytes
  <1>5. RuntimeBytesPerSeq(cfg, b) = (Sum(a, S) + 1) - 1
    BY <1>1, UnitsIsSum DEF RuntimeBytesPerSeq, PlanRuntimeBytes, CachePositionBytes
  <1>6. "hidden_ping" \in S /\ a["hidden_ping"] > 0
    <2>1. a["hidden_ping"] = b * (cfg.hidden_size \div 8)
      BY <1>1, BufferBytesOf
    <2>2. cfg.hidden_size \div 8 \in Nat /\ cfg.hidden_size \div 8 > 0
      BY Dims
    <2>3. ASSUME NEW c \in Nat, c > 0 PROVE b * c > 0
      BY <2>3
    <2> QED BY <1>1, <2>1, <2>2, <2>3
  <1> HIDE DEF S, w, a
  <1>7. Weights(w, S) /\ Weights(a, S) /\ \A x \in S : 1 * w[x] = n * a[x]
    BY <1>3 DEF Weights
  <1>8. 1 * Sum(w, S) = n * Sum(a, S)
    BY <1>2, <1>7, SumScaled
  <1>9. Sum(w, S) \in Nat /\ Sum(a, S) \in Nat
    BY <1>2, <1>7, SumType
  <1>10. Sum(a, S) > 0
    <2>1. /\ Sum(a, S) = a["hidden_ping"] + Sum(a, S \ {"hidden_ping"})
          /\ a["hidden_ping"] \in Nat /\ Sum(a, S \ {"hidden_ping"}) \in Nat
      BY <1>2, <1>6, <1>7, SumStep
    <2> QED BY <1>6, <2>1
  <1>11. RuntimeBytesPerSeq(cfg, b) = Sum(a, S)
    BY <1>5, <1>9
  <1> QED BY <1>4, <1>8, <1>9, <1>10, <1>11

\* The longest length whose buffers fit a budget, or the model's own limit.
LEMMA BudgetIsTight ==
    ASSUME NEW cfg, Usable(cfg), NEW b \in Nat, b > 0, NEW budget \in Int
    PROVE  LET max == MaxSeqLenForBudget(cfg, budget, b)
           IN  /\ max \in Nat
               /\ max > 0 =>
                    /\ max * RuntimeBytesPerSeq(cfg, b) <= budget
                    /\ \/ budget < (max + 1) * RuntimeBytesPerSeq(cfg, b)
                       \/ max = cfg.max_position_embeddings
  <1> DEFINE s == RuntimeBytesPerSeq(cfg, b)
             limit == cfg.max_position_embeddings
             max == MaxSeqLenForBudget(cfg, budget, b)
  <1>0. SUFFICES /\ max \in Nat
                 /\ max > 0 => max * s <= budget /\ (budget < (max + 1) * s \/ max = limit)
    OBVIOUS
  <1>1. s \in Nat /\ s > 0 /\ limit \in Nat
    BY PlanIsLinear, Dims
  <1>2. max = IF budget <= 0 THEN 0 ELSE IF budget \div s < limit THEN budget \div s ELSE limit
    BY DEF MaxSeqLenForBudget, Smaller
  <1> HIDE DEF s, limit, max
  <1>3. CASE budget <= 0
    BY <1>2, <1>3
  <1>4. CASE budget > 0
    <2>1. /\ budget \div s \in Nat /\ (budget \div s) * s <= budget
          /\ budget < (budget \div s + 1) * s
      BY <1>1, <1>4, Quotient
    <2>2. CASE budget \div s < limit
      BY <1>2, <1>4, <2>1, <2>2
    <2>3. CASE ~(budget \div s < limit)
      <3>1. max = limit /\ limit <= budget \div s
        BY <1>1, <1>2, <1>4, <2>1, <2>3
      <3>2. ASSUME NEW x \in Nat, NEW y \in Nat, x <= y PROVE x * s <= y * s
        BY <1>1, <3>2
      <3>3. limit * s <= (budget \div s) * s
        BY <1>1, <2>1, <3>1, <3>2
      <3>4. limit * s \in Nat /\ (budget \div s) * s \in Nat
        BY <1>1, <2>1, ProductNat
      <3> QED BY <1>1, <2>1, <3>1, <3>3, <3>4
    <2> QED BY <2>2, <2>3
  <1> QED BY <1>3, <1>4

-----------------------------------------------------------------------------
(* The models of a phase *)

Fields ==
    {"cfg", "disk", "kernels", "device", "proc", "max", "batch", "reserve", "planned", "stage",
     "weights", "pos", "from"}

IsPlanned(l) == l.program = "planned"

\* A model of launch l, at any stage.
ModelOf(m, l) ==
    /\ DOMAIN m = Fields
    /\ m.cfg \in {l.target, l.draft}
    /\ m.planned = IsPlanned(l)
    /\ IsPlanned(l) => m.proc = 0 /\ m.batch = l.batch /\ m.reserve = l.reserve

PhaseOf(p, l) ==
    /\ \A i \in DOMAIN p.models : ModelOf(p.models[i], l) /\ p.models[i].stage = "disk"
    /\ IsPlanned(l) => DOMAIN p.models = {1}

LEMMA Fresh ==
    ASSUME NEW l, NEW cfg \in {l.target, l.draft}, NEW disk, NEW kernels, NEW device, NEW proc, NEW max,
           IsPlanned(l) => proc = 0
    PROVE  LET m == Model(cfg, disk, kernels, device, proc, max, l)
           IN  ModelOf(m, l) /\ m.stage = "disk"
  BY DEF Model, ModelOf, Fields, IsPlanned

LEMMA OnePhase ==
    ASSUME NEW l, NEW m, ModelOf(m, l), m.stage = "disk", NEW calls
    PROVE  PhaseOf([models |-> <<m>>, calls |-> calls], l)
  BY DEF PhaseOf

LEMMA JoinedPhases ==
    ASSUME NEW a, NEW b
    PROVE  /\ <<a>> \o <<b>> = <<a, b>> /\ <<a>> \o <<>> = <<a>>
           /\ <<>> \o <<b>> = <<b>> /\ <<>> \o <<>> = <<>>
  <1>1. <<a>> \o <<b>> = <<a, b>>
    <2> DEFINE S == {a, b}  s == <<a>>  t == <<b>>  u == s \o t  v == <<a, b>>
    <2>1. s \in Seq(S) /\ t \in Seq(S) /\ v \in Seq(S)
      OBVIOUS
    <2>2. /\ Len(s) = 1 /\ s[1] = a /\ Len(t) = 1 /\ t[1] = b
          /\ Len(v) = 2 /\ v[1] = a /\ v[2] = b
      OBVIOUS
    <2> HIDE DEF S, s, t, v
    <2>3. u \in Seq(S) /\ Len(u) = 2 /\ u[1] = a /\ u[2] = b
      <3>1. /\ u \in Seq(S) /\ Len(u) = 2
            /\ \A i \in 1 .. 2 : u[i] = IF i <= 1 THEN s[i] ELSE t[i - 1]
        BY <2>1, <2>2, ConcatProperties
      <3> QED BY <2>2, <3>1
    <2> HIDE DEF u
    <2>4. u = v
      <3>1. \A i \in 1 .. 2 : u[i] = v[i]
        BY <2>2, <2>3
      <3> QED BY <2>1, <2>2, <2>3, <3>1
    <2> QED BY <2>4 DEF u, v, s, t
  <1>2. <<a>> \o <<>> = <<a>>
    OBVIOUS
  <1>3. <<>> \o <<b>> = <<b>>
    OBVIOUS
  <1>4. <<>> \o <<>> = <<>>
    OBVIOUS
  <1> QED BY <1>1, <1>2, <1>3, <1>4

LEMMA PhasesOf ==
    ASSUME NEW l, l.program \in Programs
    PROVE  \/ Phases(l) = <<>> /\ ~IsPlanned(l)
           \/ \E p : PhaseOf(p, l) /\ Phases(l) = <<p>>
           \/ \E p, q : PhaseOf(p, l) /\ PhaseOf(q, l) /\ Phases(l) = <<p, q>> /\ ~IsPlanned(l)
  <1> DEFINE T(max) == Target(l, 0, 0, max)
             D(max) == Draft(l, 0, 0, max)
             Only(max) == IF l.args.model = "target" THEN Target(l, l.device, 0, max)
                          ELSE Draft(l, l.device, 0, max)
             New(m) == ModelOf(m, l) /\ m.stage = "disk"
  <1>1. ASSUME NEW max PROVE New(T(max)) /\ New(D(max)) /\ New(Only(max))
    BY Fresh DEF Target, Draft
  <1>2. ASSUME NEW max, ~IsPlanned(l) PROVE New(Draft(l, 1, 1, max))
    BY <1>2, Fresh DEF Draft
  <1> HIDE DEF New
  <1>3. ASSUME NEW m, New(m), NEW calls PROVE PhaseOf([models |-> <<m>>, calls |-> calls], l)
    BY <1>3, OnePhase DEF New
  <1>4. ASSUME NEW m, New(m), NEW x, New(x), NEW calls, ~IsPlanned(l)
        PROVE  PhaseOf([models |-> <<m, x>>, calls |-> calls], l)
    <2>1. DOMAIN <<m, x>> = {1, 2} /\ <<m, x>>[1] = m /\ <<m, x>>[2] = x
      OBVIOUS
    <2> QED BY <1>4, <2>1 DEF PhaseOf, New
  <1>5. CASE l.program \in {"phase4_graph_decode", "draft_graph_decode", "phase0_graph_probe", "phase0_graph_diag"}
    <2>1. /\ l.program = "phase4_graph_decode" =>
                 Phases(l) = <<[models |-> <<T(512)>>, calls |-> Phase4GraphDecode]>>
          /\ l.program = "draft_graph_decode" =>
                 Phases(l) = <<[models |-> <<D(512)>>, calls |-> DraftGraphDecode]>>
          /\ l.program = "phase0_graph_probe" =>
                 Phases(l) = <<[models |-> <<T(256)>>, calls |-> Phase0Probe]>>
          /\ l.program = "phase0_graph_diag" =>
                 Phases(l) = <<[models |-> <<T(256)>>, calls |-> Phase0Diag]>>
      BY DEF Phases
    <2>2. \E m, calls : New(m) /\ Phases(l) = <<[models |-> <<m>>, calls |-> calls]>>
      <3> HIDE DEF T, D
      <3> QED BY <1>1, <1>5, <2>1
    <2> QED BY <1>3, <2>2
  <1>6. CASE l.program = "spec_decode_bench"
    <2>1. Phases(l) = <<[models |-> <<T(512), D(512)>>, calls |-> SpecDecodeBench]>>
      BY <1>6 DEF Phases
    <2>2. ~IsPlanned(l)
      BY <1>6 DEF IsPlanned
    <2>3. PhaseOf([models |-> <<T(512), D(512)>>, calls |-> SpecDecodeBench], l)
      BY <1>1, <1>4, <2>2
    <2> QED BY <2>1, <2>3
  <1>7. CASE l.program = "specdec_bench"
    <2> DEFINE single == [models |-> <<T(l.args.maxSeq), D(l.args.maxSeq)>>, calls |-> RunSingle(l.args)]
               mpi == [models |-> <<T(l.args.maxSeq), Draft(l, 1, 1, l.args.maxSeq)>>,
                       calls |-> RunMpi(l.args)]
    <2>1. Phases(l) = SpecdecBench(l)
      BY <1>7 DEF Phases
    <2>2. ~IsPlanned(l)
      BY <1>7 DEF IsPlanned
    <2>3. PhaseOf(single, l) /\ PhaseOf(mpi, l)
      BY <1>1, <1>2, <1>4, <2>2
    <2>4. SpecdecBench(l) =
            IF \E g \in ToSet(l.args.gammas) : g \notin 1 .. 8 THEN <<>>
            ELSE (IF "single" \in l.args.phases THEN <<single>> ELSE <<>>)
                     \o (IF "mpi" \in l.args.phases THEN <<mpi>> ELSE <<>>)
      BY DEF SpecdecBench
    <2> HIDE DEF single, mpi
    <2>5. /\ <<single>> \o <<mpi>> = <<single, mpi>> /\ <<single>> \o <<>> = <<single>>
          /\ <<>> \o <<mpi>> = <<mpi>> /\ <<>> \o <<>> = <<>>
      BY JoinedPhases
    <2>6. \/ SpecdecBench(l) = <<>> \/ SpecdecBench(l) = <<single>>
          \/ SpecdecBench(l) = <<mpi>> \/ SpecdecBench(l) = <<single, mpi>>
      BY <2>4, <2>5
    <2> QED BY <2>1, <2>2, <2>3, <2>6
  <1>8. CASE l.program \in {"profile_forward", "sweep", "planned"}
    <2>1. \E max, calls : Phases(l) = <<[models |-> <<Only(max)>>, calls |-> calls]>>
      BY <1>8 DEF Phases
    <2> QED BY <1>1, <1>3, <2>1
  <1> QED BY <1>5, <1>6, <1>7, <1>8 DEF Programs

-----------------------------------------------------------------------------
(* The inductive invariant of the programs *)

\* With its buffers allocated, model m leaves the reserve and no slot more.
LeavesWith(m, free) ==
    LET slot == PlanRuntimeBytes(m.cfg, m.batch, m.max + 1)
                    - PlanRuntimeBytes(m.cfg, m.batch, m.max)
    IN  /\ free >= m.reserve - CachePositionBytes
        /\ free - slot < m.reserve \/ m.max = m.cfg.max_position_embeddings

LeavesReserve(m) == LeavesWith(m, FreeBytes(m.proc, m.device))

Started == launch \in Launches /\ phase \in Nat /\ phase > 0

\* What is loaded was validated.
ModelsKnown ==
    \A i \in DOMAIN models :
        /\ ModelOf(models[i], launch)
        /\ models[i].stage # "disk" => models[i].weights = ExpectedKeys(models[i].cfg)

\* A length is taken from the memory that is still free when the buffers are
\* allocated: nothing else comes up on the process in between.
PlanKept ==
    IsPlanned(launch) =>
        /\ DOMAIN models \subseteq {1}
        /\ held \in [{0, 1} -> [{0, 1} -> Int]]
        /\ \A i \in DOMAIN models :
               /\ models[i].stage = "budget" =>
                      models[i].max = MaxSeqLenForBudget(models[i].cfg,
                          TotalMemory - held[0][0] - models[i].reserve, models[i].batch)
               /\ models[i].stage = "buffers" /\ models[i].device = 0 => LeavesReserve(models[i])

ProgramInv == Started /\ ModelsKnown /\ PlanKept

LEMMA LaunchConfigs ==
    ASSUME NEW l \in Launches, NEW m, ModelOf(m, l)
    PROVE  /\ Usable(m.cfg) /\ TotalMemory \in Int /\ l.program \in Programs
           /\ IsPlanned(l) => m.batch \in Int /\ m.reserve \in Int
  BY BenchAssumption DEF Launchable, Usable, ModelOf

LEMMA PhaseStarts ==
    ASSUME NEW l, l.program \in Programs, NEW k \in Nat, k > 0, k <= Len(Phases(l))
    PROVE  PhaseOf(Phases(l)[k], l) /\ (IsPlanned(l) => Len(Phases(l)) = 1)
  <1>1. CASE Phases(l) = <<>>
    BY <1>1
  <1>2. CASE \E p : PhaseOf(p, l) /\ Phases(l) = <<p>>
    <2>1. PICK p : PhaseOf(p, l) /\ Phases(l) = <<p>>
      BY <1>2
    <2>2. Len(Phases(l)) = 1 /\ k = 1
      BY <2>1
    <2> QED BY <2>1, <2>2
  <1>3. CASE \E p, q : PhaseOf(p, l) /\ PhaseOf(q, l) /\ Phases(l) = <<p, q>> /\ ~IsPlanned(l)
    <2>1. PICK p, q : PhaseOf(p, l) /\ PhaseOf(q, l) /\ Phases(l) = <<p, q>> /\ ~IsPlanned(l)
      BY <1>3
    <2>2. Len(Phases(l)) = 2 /\ (k = 1 \/ k = 2)
      BY <2>1
    <2> QED BY <2>1, <2>2
  <1> QED BY <1>1, <1>2, <1>3, PhasesOf

\* The models a phase starts with satisfy the invariant.
LEMMA FreshModels ==
    ASSUME NEW l, NEW p, PhaseOf(p, l)
    PROVE  /\ \A i \in DOMAIN p.models : ModelOf(p.models[i], l) /\ p.models[i].stage = "disk"
           /\ IsPlanned(l) => DOMAIN p.models \subseteq {1}
  BY DEF PhaseOf

LEMMA HeldNothing == NothingHeld \in [{0, 1} -> [{0, 1} -> Int]]
  BY DEF NothingHeld, Devices

LEMMA ProgramStarts == ASSUME Init PROVE ProgramInv
  <1>1. /\ launch \in Launches /\ phase = 1 /\ held = NothingHeld
        /\ launch.program \in Programs
    BY BenchAssumption DEF Launchable, Init
  <1>2. CASE Phases(launch) = <<>>
    <2>1. models = <<>>
      BY <1>2 DEF Init
    <2>2. DOMAIN models = {}
      BY <2>1
    <2> QED BY <1>1, <2>2, HeldNothing DEF ProgramInv, Started, ModelsKnown, PlanKept
  <1>3. CASE Phases(launch) # <<>>
    <2>1. models = Phases(launch)[1].models
      BY <1>3 DEF Init
    <2>2. 1 <= Len(Phases(launch))
      <3>1. \A p, q : Len(<<p>>) = 1 /\ Len(<<p, q>>) = 2
        OBVIOUS
      <3> QED BY <1>1, <1>3, <3>1, PhasesOf
    <2>3. PhaseOf(Phases(launch)[1], launch)
      BY <1>1, <2>2, PhaseStarts
    <2>4. /\ \A i \in DOMAIN models : ModelOf(models[i], launch) /\ models[i].stage = "disk"
          /\ IsPlanned(launch) => DOMAIN models \subseteq {1}
      BY <2>1, <2>3, FreshModels
    <2> QED BY <1>1, <2>4, HeldNothing DEF ProgramInv, Started, ModelsKnown, PlanKept
  <1> QED BY <1>2, <1>3

-----------------------------------------------------------------------------
(* Its steps *)

\* x is m with another cursor.
Alike(x, m) == DOMAIN x = DOMAIN m /\ \A f \in DOMAIN m \ {"pos", "from"} : x[f] = m[f]

LEMMA AlikeModel ==
    ASSUME NEW l, NEW m, ModelOf(m, l), NEW x, Alike(x, m)
    PROVE  /\ ModelOf(x, l) /\ x.stage = m.stage /\ x.weights = m.weights /\ x.cfg = m.cfg
           /\ x.max = m.max /\ x.batch = m.batch /\ x.reserve = m.reserve
           /\ x.device = m.device /\ x.proc = m.proc
  <1>1. \A f \in {"stage", "weights", "cfg", "max", "batch", "reserve", "device", "proc", "planned"} :
            f \in DOMAIN m \ {"pos", "from"}
    BY DEF Fields, ModelOf
  <1>2. /\ x.stage = m.stage /\ x.weights = m.weights /\ x.cfg = m.cfg
        /\ x.max = m.max /\ x.batch = m.batch /\ x.reserve = m.reserve
        /\ x.device = m.device /\ x.proc = m.proc /\ x.planned = m.planned
    BY <1>1 DEF Alike
  <1> QED BY <1>2 DEF Alike, ModelOf

MovesCursors ==
    /\ launch' = launch /\ phase' = phase /\ held' = held
    /\ DOMAIN models' = DOMAIN models /\ \A i \in DOMAIN models : Alike(models'[i], models[i])

\* A call moves cursors only.
LEMMA CursorsMove == ASSUME ProgramInv, MovesCursors PROVE ProgramInv'
  <1>0. /\ launch' = launch /\ phase' = phase /\ held' = held
        /\ DOMAIN models' = DOMAIN models /\ \A i \in DOMAIN models : Alike(models'[i], models[i])
    BY DEF MovesCursors
  <1>1. ASSUME NEW i \in DOMAIN models
        PROVE  LET x == models'[i]  m == models[i]
               IN  /\ ModelOf(x, launch) /\ x.stage = m.stage /\ x.weights = m.weights
                   /\ x.cfg = m.cfg /\ x.max = m.max /\ x.batch = m.batch /\ x.reserve = m.reserve
                   /\ x.device = m.device /\ x.proc = m.proc
    BY <1>0, <1>1, AlikeModel DEF ProgramInv, ModelsKnown
  <1>2. Started' /\ ModelsKnown'
    BY <1>0, <1>1 DEF ProgramInv, Started, ModelsKnown
  <1>3. PlanKept'
    <2>1. ASSUME NEW i \in DOMAIN models, LeavesReserve(models[i]) PROVE LeavesReserve(models[i])'
      BY <1>0, <1>1, <2>1 DEF LeavesReserve, LeavesWith, FreeBytes
    <2>2. ASSUME IsPlanned(launch), NEW i \in DOMAIN models
          PROVE  /\ models'[i].stage = "budget" =>
                      models'[i].max = MaxSeqLenForBudget(models'[i].cfg,
                          TotalMemory - held[0][0] - models'[i].reserve, models'[i].batch)
                 /\ models'[i].stage = "buffers" /\ models'[i].device = 0 => LeavesReserve(models[i])'
      BY <1>0, <1>1, <2>1, <2>2 DEF ProgramInv, PlanKept
    <2> QED BY <1>0, <2>2 DEF ProgramInv, PlanKept
  <1> QED BY <1>2, <1>3 DEF ProgramInv

LEMMA AlikeItself == ASSUME NEW m PROVE Alike(m, m)
  BY DEF Alike

LEMMA AlikeMoved ==
    ASSUME NEW m, NEW p, NEW f
    PROVE  Alike([m EXCEPT !.pos = p, !.from = f], m)
  BY DEF Alike

LEMMA AlikeThen == ASSUME NEW x, NEW y, NEW m, Alike(x, y), Alike(y, m) PROVE Alike(x, m)
  BY DEF Alike

\* Advance, from a cursor that may have been reset first.
LEMMA AdvanceMoves ==
    ASSUME NEW k, NEW x, k \in DOMAIN models => Alike(x, models[k]), NEW n, NEW from,
           Advance(k, x, n, from)
    PROVE  MovesCursors
  <1> DEFINE y == IF error' = "" THEN [x EXCEPT !.pos = @ + n, !.from = from] ELSE x
  <1>1. /\ models' = [models EXCEPT ![k] = y]
        /\ launch' = launch /\ phase' = phase /\ held' = held
    BY DEF Advance, Done
  <1>2. Alike(y, x)
    BY AlikeItself, AlikeMoved
  <1> HIDE DEF y
  <1>3. ASSUME NEW i \in DOMAIN models PROVE Alike(models'[i], models[i])
    <2>1. CASE i = k
      <3>1. models'[i] = y
        BY <1>1, <2>1
      <3> QED BY <1>2, <2>1, <3>1, AlikeThen
    <2>2. CASE i # k
      <3>1. models'[i] = models[i]
        BY <1>1, <2>2
      <3> QED BY <3>1, AlikeItself
    <2> QED BY <2>1, <2>2
  <1>4. DOMAIN models' = DOMAIN models
    BY <1>1
  <1> QED BY <1>1, <1>3, <1>4 DEF MovesCursors

LEMMA NothingMoves ==
    ASSUME launch' = launch, phase' = phase, held' = held, models' = models
    PROVE  MovesCursors
  <1>1. \A i \in DOMAIN models : Alike(models'[i], models[i])
    BY AlikeItself
  <1> QED BY <1>1 DEF MovesCursors

LEMMA CallsMove ==
    ASSUME \/ PrefillCall \/ DecodeCalls("argmax") \/ DecodeCalls("same")
           \/ VerifyGamma \/ ResetKvCache \/ FixedCall \/ Keep
           \/ Compare \/ Median
           \/ \E missing, accepted : GenerateCall(missing, accepted)
    PROVE  MovesCursors
  <1> DEFINE c == Head(todo)
  <1>1. CASE PrefillCall
    <2> DEFINE x == [models[c.m] EXCEPT !.pos = 0, !.from = <<>>]
    <2>1. Advance(c.m, x, c.n, <<c.n>>)
      BY <1>1 DEF PrefillCall
    <2>2. Alike(x, models[c.m])
      BY AlikeMoved
    <2> HIDE DEF x, c
    <2> QED BY <2>1, <2>2, AdvanceMoves
  <1>2. ASSUME NEW tokens, DecodeCalls(tokens) PROVE MovesCursors
    <2>1. \E n, from : Advance(c.m, models[c.m], n, from)
      BY <1>2 DEF DecodeCalls
    <2> HIDE DEF c
    <2> QED BY <2>1, AlikeItself, AdvanceMoves
  <1>3. CASE VerifyGamma
    <2>1. CASE c.n \in 1 .. 8
      <3>1. \E n, from : Advance(c.m, models[c.m], n, from)
        BY <1>3, <2>1 DEF VerifyGamma
      <3> HIDE DEF c
      <3> QED BY <3>1, AlikeItself, AdvanceMoves
    <2>2. CASE c.n \notin 1 .. 8
      <3>1. launch' = launch /\ phase' = phase /\ held' = held /\ models' = models
        BY <1>3, <2>2 DEF VerifyGamma, Done
      <3> QED BY <3>1, NothingMoves
    <2> QED BY <2>1, <2>2
  <1>4. CASE ResetKvCache
    <2>1. /\ models' = [models EXCEPT ![c.m].pos = 0, ![c.m].from = <<>>]
          /\ launch' = launch /\ phase' = phase /\ held' = held
      BY <1>4 DEF ResetKvCache, Done
    <2> HIDE DEF c
    <2>2. DOMAIN models' = DOMAIN models
      BY <2>1
    <2>3. ASSUME NEW i \in DOMAIN models PROVE Alike(models'[i], models[i])
      <3>1. models'[i] = models[i] \/ models'[i] = [models[i] EXCEPT !.pos = 0, !.from = <<>>]
        BY <2>1
      <3>2. Alike(models[i], models[i]) /\ Alike([models[i] EXCEPT !.pos = 0, !.from = <<>>], models[i])
        BY AlikeItself, AlikeMoved
      <3> QED BY <3>1, <3>2
    <2> QED BY <2>1, <2>2, <2>3 DEF MovesCursors
  <1>5. CASE FixedCall \/ Keep \/ Compare \/ Median
    <2>1. launch' = launch /\ phase' = phase /\ held' = held /\ models' = models
      BY <1>5 DEF FixedCall, Keep, Compare, Median, Done
    <2> QED BY <2>1, NothingMoves
  <1>6. ASSUME NEW missing, NEW accepted, GenerateCall(missing, accepted) PROVE MovesCursors
    <2> DEFINE end == IF c.n = 0 THEN c.prompt ELSE c.prompt + c.n - missing + accepted + 1
    <2>0. /\ launch' = launch /\ phase' = phase /\ held' = held
          /\ models' = IF error' # "" THEN models
                       ELSE [i \in DOMAIN models |-> [models[i] EXCEPT !.pos = end, !.from = <<>>]]
      BY <1>6 DEF GenerateCall, Done
    <2> HIDE DEF end, c
    <2>1. /\ launch' = launch /\ phase' = phase /\ held' = held
          /\ \/ models' = models
             \/ \E reached : models' = [i \in DOMAIN models |->
                                            [models[i] EXCEPT !.pos = reached, !.from = <<>>]]
      BY <2>0
    <2>2. CASE models' = models
      BY <2>1, <2>2, NothingMoves
    <2>3. ASSUME NEW reached, models' = [i \in DOMAIN models |->
                                             [models[i] EXCEPT !.pos = reached, !.from = <<>>]]
          PROVE  MovesCursors
      <3>1. DOMAIN models' = DOMAIN models
        BY <2>3
      <3>2. \A i \in DOMAIN models : Alike(models'[i], models[i])
        BY <2>3, AlikeMoved
      <3> QED BY <2>1, <3>1, <3>2 DEF MovesCursors
    <2> QED BY <2>1, <2>2, <2>3
  <1> QED BY <1>1, <1>2, <1>3, <1>4, <1>5, <1>6

\* What load_weights returns has the shapes the configuration gives.
LEMMA LoadIsExpected ==
    ASSUME NEW cfg, NEW disk, LoadError(cfg, disk) = ""
    PROVE  LoadWeights(cfg, disk) = ExpectedKeys(cfg)
  <1>1. ValidateWeights(LoadRaw(disk), cfg)
    BY DEF LoadError
  <1> DEFINE expected == ExpectedKeys(cfg)  raw == LoadRaw(disk)
  <1>2. \A key \in DOMAIN expected : raw[key] = expected[key]
    BY <1>1 DEF ValidateWeights
  <1>3. expected = [key \in DOMAIN expected |-> expected[key]]
    BY DEF ExpectedKeys
  <1>4. LoadWeights(cfg, disk) = [key \in DOMAIN expected |-> raw[key]]
    BY DEF LoadWeights
  <1> HIDE DEF expected, raw
  <1> QED BY <1>2, <1>3, <1>4 DEF expected

LEMMA HeldGrows ==
    ASSUME NEW h \in [{0, 1} -> [{0, 1} -> Int]], NEW d, NEW bytes \in Int
    PROVE  LET g == [h EXCEPT ![0][d] = @ + bytes]
           IN  g \in [{0, 1} -> [{0, 1} -> Int]] /\ (d = 0 => g[0][0] = h[0][0] + bytes)
  <1> DEFINE row == [h[0] EXCEPT ![d] = @ + bytes]
  <1>1. row \in [{0, 1} -> Int] /\ (d = 0 => row[0] = h[0][0] + bytes)
    <2>1. h[0] \in [{0, 1} -> Int]
      OBVIOUS
    <2> DEFINE r == h[0]
    <2> HIDE DEF r
    <2>2. r \in [{0, 1} -> Int]
      BY <2>1 DEF r
    <2>3. CASE d \in {0, 1}
      <3>1. r[d] + bytes \in Int
        BY <2>2, <2>3
      <3>2. [r EXCEPT ![d] = @ + bytes] \in [{0, 1} -> Int]
        BY <2>2, <3>1
      <3>3. d = 0 => [r EXCEPT ![d] = @ + bytes][0] = r[0] + bytes
        BY <2>2
      <3> QED BY <3>2, <3>3 DEF r
    <2>4. CASE d \notin {0, 1}
      <3>1. [r EXCEPT ![d] = @ + bytes] = r
        BY <2>2, <2>4
      <3> QED BY <2>2, <2>4, <3>1 DEF r
    <2> QED BY <2>3, <2>4
  <1>2. [h EXCEPT ![0][d] = @ + bytes] = [h EXCEPT ![0] = row]
    OBVIOUS
  <1> HIDE DEF row
  <1> QED BY <1>1, <1>2

\* A stage that takes memory keeps the invariant, if its model does.
LEMMA AllocateKeeps ==
    ASSUME ProgramInv, NEW i \in DOMAIN models, NEW x, NEW bytes, Allocate(i, bytes, x),
           launch' = launch, phase' = phase,
           ModelOf(x, launch), x.stage # "disk" => x.weights = ExpectedKeys(x.cfg),
           x.stage # "budget",
           IsPlanned(launch) => bytes \in Int,
           IsPlanned(launch) /\ x.stage = "buffers" /\ x.device = 0 =>
               LeavesWith(x, TotalMemory - (held[0][0] + bytes))
    PROVE  ProgramInv'
  <1>1. CASE bytes > TotalMemory - HeldOn(x.device)
    <2>1. held' = held /\ models' = models
      BY <1>1 DEF Allocate, Fail
    <2> QED BY <2>1, NothingMoves, CursorsMove
  <1>2. CASE ~(bytes > TotalMemory - HeldOn(x.device))
    <2>1. /\ held' = [held EXCEPT ![x.proc][x.device] = @ + bytes]
          /\ models' = [models EXCEPT ![i] = x]
      BY <1>2 DEF Allocate
    <2>2. DOMAIN models' = DOMAIN models /\ models'[i] = x
          /\ \A j \in DOMAIN models : j # i => models'[j] = models[j]
      BY <2>1
    <2>3. Started' /\ ModelsKnown'
      BY <2>2 DEF ProgramInv, Started, ModelsKnown
    <2>4. ASSUME IsPlanned(launch) PROVE PlanKept'
      <3>1. DOMAIN models = {i} /\ held \in [{0, 1} -> [{0, 1} -> Int]] /\ DOMAIN models \subseteq {1}
        BY <2>4 DEF ProgramInv, PlanKept
      <3>2. x.proc = 0
        BY <2>4 DEF ModelOf
      <3>3. held' \in [{0, 1} -> [{0, 1} -> Int]] /\ (x.device = 0 => held'[0][0] = held[0][0] + bytes)
        BY <2>1, <2>4, <3>1, <3>2, HeldGrows
      <3>4. x.stage = "buffers" /\ x.device = 0 => LeavesReserve(models[i])'
        BY <2>2, <2>4, <3>2, <3>3 DEF LeavesReserve, FreeBytes
      <3> QED BY <2>2, <3>1, <3>3, <3>4 DEF PlanKept
    <2>5. ~IsPlanned(launch) => PlanKept'
      BY DEF PlanKept
    <2> QED BY <2>3, <2>4, <2>5 DEF ProgramInv
  <1> QED BY <1>1, <1>2

LEMMA FailKeeps ==
    ASSUME ProgramInv, NEW why, Fail(why), launch' = launch, phase' = phase
    PROVE  ProgramInv'
  BY NothingMoves, CursorsMove DEF Fail

LEMMA LoadKeeps ==
    ASSUME ProgramInv, NEW i \in DOMAIN models, LoadWeightsOnGpu(i)
    PROVE  ProgramInv'
  <1> DEFINE m == models[i]  why == LoadError(m.cfg, m.disk)
             w == LoadWeights(m.cfg, m.disk)
             x == [m EXCEPT !.stage = "weights", !.weights = w]
  <1>1. launch' = launch /\ phase' = phase /\ ModelOf(m, launch) /\ launch \in Launches
    BY DEF LoadWeightsOnGpu, ProgramInv, ModelsKnown, Started
  <1>2. CASE why # ""
    <2>1. Fail(why)
      BY <1>2 DEF LoadWeightsOnGpu
    <2> QED BY <1>1, <2>1, FailKeeps
  <1>3. CASE why = ""
    <2>1. Allocate(i, LoadedBytes(w), x)
      BY <1>3 DEF LoadWeightsOnGpu
    <2>2. w = ExpectedKeys(m.cfg)
      BY <1>3, LoadIsExpected
    <2>3. ModelOf(x, launch) /\ x.stage = "weights" /\ x.cfg = m.cfg /\ x.weights = w
      <3> HIDE DEF w
      <3> QED BY <1>1 DEF ModelOf, Fields
    <2>4. LoadedBytes(w) \in Int
      <3>1. Usable(m.cfg)
        BY <1>1, LaunchConfigs
      <3> QED BY <2>2, <3>1, LoadedIsTotal
    <2> HIDE DEF x, w
    <2> QED BY <1>1, <2>1, <2>2, <2>3, <2>4, AllocateKeeps
  <1> QED BY <1>2, <1>3

LEMMA BudgetKeeps ==
    ASSUME ProgramInv, NEW i \in DOMAIN models, TakeBudget(i)
    PROVE  ProgramInv'
  <1> DEFINE m == models[i]
             max == IF m.planned THEN VramBudget(m).max_seq_len ELSE m.max
             x == [[m EXCEPT !.stage = "budget"] EXCEPT !.max = max]
  <1>0. CASE m.batch <= 0
    BY <1>0, FailKeeps DEF TakeBudget
  <1> SUFFICES ASSUME ~(m.batch <= 0) PROVE ProgramInv'
    BY <1>0
  <1>1. /\ launch' = launch /\ phase' = phase /\ held' = held /\ m.stage = "weights"
        /\ models' = [models EXCEPT ![i].stage = "budget", ![i].max = max]
    BY DEF TakeBudget, Turn
  <1>2. ModelOf(m, launch) /\ m.weights = ExpectedKeys(m.cfg)
    BY <1>1 DEF ProgramInv, ModelsKnown
  <1>3. /\ ModelOf(x, launch) /\ x.stage = "budget" /\ x.max = max /\ x.cfg = m.cfg
        /\ x.weights = m.weights /\ x.batch = m.batch /\ x.reserve = m.reserve
    <2> HIDE DEF max
    <2> QED BY <1>2 DEF ModelOf, Fields
  <1>4. /\ DOMAIN models' = DOMAIN models /\ models'[i] = x
        /\ \A j \in DOMAIN models : j # i => models'[j] = models[j]
    <2> HIDE DEF max
    <2> QED BY <1>1
  <1>5. IsPlanned(launch) =>
            max = MaxSeqLenForBudget(m.cfg, TotalMemory - held[0][0] - m.reserve, m.batch)
    BY <1>2 DEF ModelOf, VramBudget, MaxSeqLenAfterWeights, FreeBytes, BudgetDevice
  <1> HIDE DEF x, max
  <1>6. Started' /\ ModelsKnown'
    BY <1>1, <1>2, <1>3, <1>4 DEF ProgramInv, Started, ModelsKnown
  <1>7. PlanKept'
    <2>1. ASSUME IsPlanned(launch) PROVE DOMAIN models = {i} /\ DOMAIN models \subseteq {1}
      BY <2>1 DEF ProgramInv, PlanKept
    <2>2. ASSUME IsPlanned(launch)
          PROVE  /\ x.max = MaxSeqLenForBudget(x.cfg, TotalMemory - held[0][0] - x.reserve, x.batch)
                 /\ x.stage # "buffers"
      BY <1>3, <1>5, <2>2
    <2> QED BY <1>1, <1>4, <2>1, <2>2 DEF ProgramInv, PlanKept
  <1> QED BY <1>6, <1>7 DEF ProgramInv

\* The buffers of the planned length leave the reserve, but for the cursor.
LEMMA PlannedLeaves ==
    ASSUME NEW x, Usable(x.cfg), x.batch \in Nat, x.batch > 0, x.reserve \in Int, NEW free \in Int,
           x.max = MaxSeqLenForBudget(x.cfg, free - x.reserve, x.batch), x.max > 0
    PROVE  /\ PlanRuntimeBytes(x.cfg, x.batch, x.max) \in Int
           /\ LeavesWith(x, free - PlanRuntimeBytes(x.cfg, x.batch, x.max))
  <1> DEFINE n == x.max  s == RuntimeBytesPerSeq(x.cfg, x.batch)  budget == free - x.reserve
  <1>1. /\ n \in Nat /\ n * s <= budget
        /\ budget < (n + 1) * s \/ n = x.cfg.max_position_embeddings
    BY BudgetIsTight
  <1>2. s \in Nat
    BY PlanIsLinear
  <1>3. /\ PlanRuntimeBytes(x.cfg, x.batch, n) = n * s + 1
        /\ PlanRuntimeBytes(x.cfg, x.batch, n + 1) = (n + 1) * s + 1
    <2>1. n + 1 \in Nat
      BY <1>1
    <2> QED BY <1>1, <2>1, PlanIsLinear
  <1> DEFINE p == n * s  q == (n + 1) * s
  <1>4. p \in Nat /\ q \in Nat
    BY <1>1, <1>2, ProductNat
  <1> HIDE DEF n, s, p, q
  <1>5. /\ PlanRuntimeBytes(x.cfg, x.batch, n) = p + 1
        /\ PlanRuntimeBytes(x.cfg, x.batch, n + 1) = q + 1
        /\ p <= budget /\ (budget < q \/ n = x.cfg.max_position_embeddings)
    BY <1>1, <1>3 DEF p, q
  <1>6. /\ free - (p + 1) >= x.reserve - 1
        /\ free - (p + 1) - ((q + 1) - (p + 1)) < x.reserve \/ n = x.cfg.max_position_embeddings
    BY <1>4, <1>5
  <1> QED BY <1>4, <1>5, <1>6 DEF LeavesWith, CachePositionBytes, n

\* A planned length that buffers are allocated for is positive.
LEMMA PlannedRoom ==
    ASSUME NEW i \in DOMAIN models
    PROVE  ProgramInv /\ IsPlanned(launch) /\ models[i].stage = "budget" /\ AllocateError(models[i]) = "" =>
               models[i].max \in Int /\ 1 <= models[i].max
  <1> DEFINE m == models[i]
  <1>1. SUFFICES ASSUME ProgramInv, IsPlanned(launch), m.stage = "budget", AllocateError(m) = ""
                 PROVE  m.max \in Int /\ 1 <= m.max
    OBVIOUS
  <1>2. ModelOf(m, launch) /\ launch \in Launches
    BY <1>1 DEF ProgramInv, ModelsKnown, Started
  <1>3. ~(m.batch <= 0 \/ m.max <= 0)
    BY <1>1 DEF AllocateError
  <1>4. held[0][0] \in Int /\ TotalMemory \in Int /\ Usable(m.cfg) /\ m.batch \in Int /\ m.reserve \in Int
    BY <1>1, <1>2, LaunchConfigs DEF ProgramInv, PlanKept
  <1>5. m.max = MaxSeqLenForBudget(m.cfg, TotalMemory - held[0][0] - m.reserve, m.batch)
    BY <1>1 DEF ProgramInv, PlanKept
  <1>6. m.batch \in Nat /\ m.batch > 0
    BY <1>3, <1>4
  <1>7. TotalMemory - held[0][0] - m.reserve \in Int
    BY <1>4
  <1>8. m.max \in Nat
    <2> HIDE DEF m
    <2> QED BY <1>4, <1>5, <1>6, <1>7, BudgetIsTight
  <1> QED BY <1>3, <1>8

LEMMA BuffersKeep ==
    ASSUME ProgramInv, NEW i \in DOMAIN models, AllocateBuffers(i)
    PROVE  ProgramInv'
  <1> DEFINE m == models[i]  why == AllocateError(m)
             x == [m EXCEPT !.stage = "buffers"]
             bytes == PlanRuntimeBytes(m.cfg, m.batch, m.max)
  <1>1. /\ launch' = launch /\ phase' = phase /\ ModelOf(m, launch) /\ launch \in Launches
        /\ m.stage = "budget" /\ m.weights = ExpectedKeys(m.cfg)
    BY DEF AllocateBuffers, Turn, ProgramInv, ModelsKnown, Started
  <1>2. CASE why # ""
    <2>1. Fail(why)
      BY <1>2 DEF AllocateBuffers
    <2> QED BY <1>1, <2>1, FailKeeps
  <1>3. CASE why = ""
    <2>1. Allocate(i, bytes, x)
      BY <1>3 DEF AllocateBuffers, BufferBytes
    <2>2. /\ ModelOf(x, launch) /\ x.stage = "buffers" /\ x.cfg = m.cfg /\ x.weights = m.weights
          /\ x.max = m.max /\ x.batch = m.batch /\ x.reserve = m.reserve
      BY <1>1 DEF ModelOf, Fields
    <2>3. ~(m.batch <= 0 \/ m.max <= 0)
      BY <1>3 DEF AllocateError
    <2>4. ASSUME IsPlanned(launch)
          PROVE  bytes \in Int /\ LeavesWith(x, TotalMemory - (held[0][0] + bytes))
      <3>1. held[0][0] \in Int /\ TotalMemory \in Int /\ Usable(m.cfg) /\ m.batch \in Int /\ m.reserve \in Int
        BY <1>1, <2>4, LaunchConfigs DEF ProgramInv, PlanKept
      <3>2. m.max = MaxSeqLenForBudget(m.cfg, TotalMemory - held[0][0] - m.reserve, m.batch)
        BY <1>1, <2>4 DEF ProgramInv, PlanKept
      <3>3. m.batch \in Nat /\ m.batch > 0
        BY <2>3, <3>1
      <3>4. m.max > 0
        <4>1. m.max \in Int /\ 1 <= m.max
          BY <1>1, <1>3, <2>4, PlannedRoom
        <4> QED BY <4>1
      <3> DEFINE free == TotalMemory - held[0][0]
      <3>5. free \in Int
        BY <3>1
      <3>6. bytes \in Int /\ LeavesWith(x, free - bytes)
        <4> HIDE DEF x, free
        <4>1. /\ PlanRuntimeBytes(x.cfg, x.batch, x.max) \in Int
              /\ LeavesWith(x, free - PlanRuntimeBytes(x.cfg, x.batch, x.max))
          BY <2>2, <3>1, <3>2, <3>3, <3>4, <3>5, PlannedLeaves DEF free
        <4> QED BY <2>2, <4>1
      <3>7. free - bytes = TotalMemory - (held[0][0] + bytes)
        BY <3>1, <3>6
      <3> QED BY <3>6, <3>7
    <2> HIDE DEF x, bytes
    <2> QED BY <1>1, <2>1, <2>2, <2>4, AllocateKeeps
  <1> QED BY <1>2, <1>3

LEMMA ExecutorKeeps ==
    ASSUME ProgramInv, NEW i \in DOMAIN models, NewExecutor(i)
    PROVE  ProgramInv'
  <1> DEFINE m == models[i]  x == [m EXCEPT !.stage = "ready"]  bytes == StackedBytes(m.cfg)
  <1>1. /\ launch' = launch /\ phase' = phase /\ ModelOf(m, launch) /\ launch \in Launches
        /\ m.stage = "buffers" /\ m.weights = ExpectedKeys(m.cfg)
    BY DEF NewExecutor, Turn, ProgramInv, ModelsKnown, Started
  <1>2. Fail("wrong kernels") \/ Allocate(i, bytes, x)
    BY DEF NewExecutor
  <1>3. CASE Fail("wrong kernels")
    BY <1>1, <1>3, FailKeeps
  <1>4. CASE Allocate(i, bytes, x)
    <2>1. ModelOf(x, launch) /\ x.stage = "ready" /\ x.cfg = m.cfg /\ x.weights = m.weights
      BY <1>1 DEF ModelOf, Fields
    <2>2. bytes \in Int
      <3> DEFINE cfg == m.cfg  rows == cfg.hidden_size + 2 * KvDim(cfg)
      <3>1. Usable(cfg)
        BY <1>1, LaunchConfigs
      <3>2. cfg.num_hidden_layers \in Nat /\ cfg.hidden_size \in Nat /\ rows \in Nat
        BY <3>1, Dims
      <3> DEFINE a == Nbytes(<<rows, cfg.hidden_size>>)  b == Nbytes(<<rows>>)
      <3>3. b \in Nat
        BY <3>2, Nbytes1
      <3>4. a \in Nat
        <4>1. a = rows * (cfg.hidden_size \div 8) /\ cfg.hidden_size \div 8 \in Nat
          BY <3>2, Nbytes2
        <4> QED BY <3>2, <4>1, ProductNat
      <3>5. bytes = cfg.num_hidden_layers * (a + b)
        BY DEF StackedBytes
      <3> HIDE DEF a, b, bytes, rows, cfg
      <3>6. a + b \in Nat
        BY <3>3, <3>4
      <3>7. cfg.num_hidden_layers * (a + b) \in Nat
        BY <3>2, <3>6, ProductNat
      <3> QED BY <3>5, <3>7
    <2> HIDE DEF x, bytes
    <2> QED BY <1>1, <1>4, <2>1, <2>2, AllocateKeeps
  <1> QED BY <1>2, <1>3, <1>4

LEMMA EndKeeps ==
    ASSUME ProgramInv, EndPhase PROVE ProgramInv'
  <1> DEFINE phases == Phases(launch)
  <1>1. /\ launch' = launch /\ phase' = phase + 1 /\ held' = NothingHeld
        /\ models' = IF phase < Len(phases) THEN phases[phase + 1].models ELSE <<>>
    BY DEF EndPhase
  <1>2. launch \in Launches /\ phase \in Nat /\ phase > 0 /\ launch.program \in Programs
    BY BenchAssumption DEF Launchable, ProgramInv, Started
  <1>3. Started'
    BY <1>1, <1>2 DEF Started
  <1>4. /\ \A i \in DOMAIN models' : ModelOf(models'[i], launch) /\ models'[i].stage = "disk"
        /\ IsPlanned(launch) => DOMAIN models' \subseteq {1}
    <2>1. CASE phase < Len(phases)
      <3>1. Len(phases) \in Nat
        <4>1. \A p, q : Len(<<p>>) = 1 /\ Len(<<p, q>>) = 2 /\ Len(<<>>) = 0
          OBVIOUS
        <4> QED BY <1>2, <4>1, PhasesOf
      <3>2. phase + 1 \in Nat /\ phase + 1 > 0 /\ phase + 1 <= Len(phases)
        BY <1>2, <2>1, <3>1
      <3>3. PhaseOf(phases[phase + 1], launch)
        BY <1>2, <3>2, PhaseStarts
      <3> QED BY <1>1, <2>1, <3>3, FreshModels
    <2>2. CASE ~(phase < Len(phases))
      <3>1. DOMAIN models' = {}
        BY <1>1, <2>2
      <3> QED BY <3>1
    <2> QED BY <2>1, <2>2
  <1>5. ModelsKnown' /\ PlanKept'
    BY <1>1, <1>4, HeldNothing DEF ModelsKnown, PlanKept
  <1> QED BY <1>3, <1>5 DEF ProgramInv

(***************************************************************************)
(* A phase's models are known by their launch, what a model has loaded was *)
(* validated, and a planned length fits the memory still free, whatever    *)
(* the programs, checkpoints, devices and arguments.                       *)
(***************************************************************************)
THEOREM ProgramInvariance == Spec => []ProgramInv
  <1>1. Init => ProgramInv
    BY ProgramStarts
  <1>2. ProgramInv /\ [Next]_vars => ProgramInv'
    <2>1. SUFFICES ASSUME ProgramInv, [Next]_vars PROVE ProgramInv'
      OBVIOUS
    <2>2. CASE UNCHANGED vars
      BY <2>1, <2>2, NothingMoves, CursorsMove DEF vars
    <2>3. ASSUME NEW i \in DOMAIN models,
                 \/ LoadWeightsOnGpu(i) \/ TakeBudget(i)
                 \/ AllocateBuffers(i) \/ NewExecutor(i)
          PROVE  ProgramInv'
      BY <2>1, <2>3, LoadKeeps, BudgetKeeps, BuffersKeep, ExecutorKeeps
    <2>4. CASE EndPhase
      BY <2>1, <2>4, EndKeeps
    <2> QED BY <2>1, <2>2, <2>3, <2>4, CallsMove, CursorsMove DEF Next
  <1> QED BY <1>1, <1>2, PTL DEF Spec

(***************************************************************************)
(* max_seq_len_for_budget: on any GPU, for any configuration, batch,       *)
(* reserve and checkpoint, the planned length is the longest that leaves   *)
(* the reserve.                                                            *)
(***************************************************************************)
THEOREM PlannedLengthIsTight ==
    Spec => []PlannedLengthTight
  <1>1. ProgramInv => PlannedLengthTight
    <2>1. SUFFICES ASSUME ProgramInv, NEW i \in DOMAIN models, models[i].planned,
                          models[i].stage = "buffers", models[i].device = 0
                   PROVE  LeavesReserve(models[i])
      BY DEF PlannedLengthTight, LeavesReserve, LeavesWith, BudgetDevice
    <2>2. IsPlanned(launch)
      BY <2>1 DEF ProgramInv, ModelsKnown, ModelOf
    <2> QED BY <2>1, <2>2 DEF ProgramInv, PlanKept
  <1> QED BY <1>1, ProgramInvariance, PTL

(***************************************************************************)
(* load_weights and the executor: whatever the files of the checkpoint     *)
(* hold, an executor that comes up finds the tensors it looks up, in their *)
(* shapes, and they take the memory of total_weight_bytes.                 *)
(***************************************************************************)
THEOREM OnlyValidatedIsLookedUp ==
    Spec => []LooksUpOnlyValidated
  <1>1. ProgramInv => LooksUpOnlyValidated
    <2>1. SUFFICES ASSUME ProgramInv, NEW i \in DOMAIN models, models[i].stage = "ready"
                   PROVE  LET m == models[i] IN
                          /\ \A key \in LookedUp(m.cfg) :
                                 key \in DOMAIN m.weights
                                 /\ m.weights[key] = WeightShapes(m.cfg)[key[2]]
                          /\ LoadedBytes(m.weights) = TotalWeightBytes(m.cfg)
      BY DEF LooksUpOnlyValidated
    <2> DEFINE m == models[i]
    <2>2. Usable(m.cfg) /\ m.weights = ExpectedKeys(m.cfg)
      BY <2>1, LaunchConfigs DEF ProgramInv, ModelsKnown, Started
    <2>3. LoadedBytes(m.weights) = TotalWeightBytes(m.cfg)
      BY <2>2, LoadedIsTotal
    <2>4. \A key \in LookedUp(m.cfg) :
              key \in DOMAIN m.weights /\ m.weights[key] = WeightShapes(m.cfg)[key[2]]
      BY <2>2 DEF LookedUp, LmHeadWeight, ExpectedKeys, FinalNames
    <2> QED BY <2>3, <2>4
  <1> QED BY <1>1, ProgramInvariance, PTL

-----------------------------------------------------------------------------
(* Ways through a list of calls.  An outline bounds model 1's cursor from  *)
(* above and may tell what its logits and the logits kept follow: the set  *)
(* of the one possibility, or {} when nothing matters there.               *)

Prompted == <<32>>
Stepped == Append(<<32>>, <<"same", 1>>)
Known == {{}, {Prompted}, {Stepped}}
Outlines == [top : Int, from : Known, kept : Known]

CallNames ==
    {"prefill", "argmax", "same", "verify", "reset", "fixed", "keep", "check", "median"}
CallRecords ==
    [call : CallNames, m : {1}, n : Int]
        \cup [call : {"generate"}, m : {1}, n : Nat, prompt : Nat, gamma : Nat]

\* Call c goes through from outline s to outline t in buffers of limit's length,
\* if it has one.
Goes(c, s, t, limit) ==
    /\ \A room \in limit :
           /\ c.call = "prefill" => c.n <= room /\ c.n <= t.top
           /\ c.call \in {"argmax", "same"} =>
                  s.top + Bigger(c.n, 0) <= room /\ s.top + Bigger(c.n, 0) <= t.top
           /\ c.call = "verify" /\ c.n \in 1 .. 8 => s.top + c.n <= room /\ s.top + c.n <= t.top
           /\ c.call = "reset" => 0 <= t.top
           /\ c.call = "fixed" => s.top + c.n <= room /\ s.top <= t.top
           /\ c.call \in {"keep", "check"} => s.top <= t.top
           /\ c.call = "median" /\ c.n > 0 => s.top <= t.top
           /\ c.call = "generate" => /\ c.prompt + c.n + c.gamma <= room
                                     /\ c.prompt + c.n + c.gamma <= t.top
    /\ c.call = "prefill" => t.from \subseteq {<<c.n>>}
    /\ c.call \in {"argmax", "same"} =>
           \A f \in t.from : \E g \in s.from : f = Append(g, <<c.call, c.n>>)
    /\ c.call \in {"verify", "reset", "generate"} => t.from = {}
    /\ c.call \in {"fixed", "keep", "check", "median"} => t.from \subseteq s.from
    /\ IF c.call = "keep" THEN t.kept \subseteq s.from ELSE t.kept \subseteq s.kept
    /\ c.call = "check" => s.from = s.kept /\ s.from # {}

\* The calls go through, one after another.
Way(calls, s, t, limit) ==
    /\ calls \in Seq(CallRecords)
    /\ \E u \in [0 .. Len(calls) -> Outlines] :
           /\ u[0] = s /\ u[Len(calls)] = t
           /\ \A i \in 1 .. Len(calls) : Goes(calls[i], u[i - 1], u[i], limit)

LEMMA WayOfNone == ASSUME NEW s \in Outlines, NEW limit PROVE Way(<<>>, s, s, limit)
  <1>1. <<>> \in Seq(CallRecords) /\ Len(<<>>) = 0
    OBVIOUS
  <1> DEFINE u == [i \in 0 .. 0 |-> s]
  <1>2. u \in [0 .. 0 -> Outlines] /\ u[0] = s /\ 1 .. 0 = {}
    OBVIOUS
  <1> HIDE DEF u
  <1> QED BY <1>1, <1>2 DEF Way

LEMMA WayOfOne ==
    ASSUME NEW c \in CallRecords, NEW s \in Outlines, NEW t \in Outlines, NEW limit, Goes(c, s, t, limit)
    PROVE  Way(<<c>>, s, t, limit)
  <1> DEFINE x == <<c>>
             u == [i \in 0 .. 1 |-> IF i = 0 THEN s ELSE t]
  <1>1. x \in Seq(CallRecords) /\ Len(x) = 1 /\ x[1] = c
    OBVIOUS
  <1>2. u \in [0 .. 1 -> Outlines] /\ u[0] = s /\ u[1] = t
    OBVIOUS
  <1> HIDE DEF x, u
  <1>3. \A i \in 1 .. Len(x) : i = 1 /\ i - 1 = 0
    BY <1>1
  <1>4. \A i \in 1 .. Len(x) : Goes(x[i], u[i - 1], u[i], limit)
    BY <1>1, <1>2, <1>3
  <1>5. Way(x, s, t, limit)
    BY <1>1, <1>2, <1>4 DEF Way
  <1> QED BY <1>5 DEF x

LEMMA WayJoins ==
    ASSUME NEW x, NEW y, NEW s, NEW r, NEW t, NEW limit, Way(x, s, r, limit), Way(y, r, t, limit)
    PROVE  Way(x \o y, s, t, limit)
  <1> DEFINE z == x \o y
  <1>1. x \in Seq(CallRecords) /\ y \in Seq(CallRecords)
    BY DEF Way
  <1>2. /\ z \in Seq(CallRecords) /\ Len(z) = Len(x) + Len(y) /\ Len(x) \in Nat /\ Len(y) \in Nat
        /\ \A i \in 1 .. Len(x) + Len(y) : z[i] = IF i <= Len(x) THEN x[i] ELSE y[i - Len(x)]
    BY <1>1, ConcatProperties
  <1>3. PICK u \in [0 .. Len(x) -> Outlines] :
            /\ u[0] = s /\ u[Len(x)] = r
            /\ \A i \in 1 .. Len(x) : Goes(x[i], u[i - 1], u[i], limit)
    BY DEF Way
  <1>4. PICK v \in [0 .. Len(y) -> Outlines] :
            /\ v[0] = r /\ v[Len(y)] = t
            /\ \A i \in 1 .. Len(y) : Goes(y[i], v[i - 1], v[i], limit)
    BY DEF Way
  <1> DEFINE w == [i \in 0 .. Len(z) |-> IF i <= Len(x) THEN u[i] ELSE v[i - Len(x)]]
  <1>5. w \in [0 .. Len(z) -> Outlines]
    BY <1>2, <1>3, <1>4
  <1>6. \A i \in 0 .. Len(x) : w[i] = u[i]
    BY <1>2
  <1>7. \A i \in 0 .. Len(y) : w[Len(x) + i] = v[i]
    BY <1>2, <1>3, <1>4
  <1>8. w[0] = s /\ w[Len(z)] = t
    BY <1>2, <1>3, <1>4, <1>6, <1>7
  <1> HIDE DEF w, z
  <1>9. ASSUME NEW i \in 1 .. Len(z) PROVE Goes(z[i], w[i - 1], w[i], limit)
    <2>1. CASE i <= Len(x)
      <3>1. i \in 1 .. Len(x) /\ i - 1 \in 0 .. Len(x) /\ i \in 0 .. Len(x) /\ i \in 1 .. Len(x) + Len(y)
        BY <1>2, <2>1
      <3>2. z[i] = x[i] /\ w[i - 1] = u[i - 1] /\ w[i] = u[i]
        BY <1>2, <1>6, <2>1, <3>1
      <3> QED BY <1>3, <3>1, <3>2
    <2>2. CASE ~(i <= Len(x))
      <3> DEFINE j == i - Len(x)
      <3>1. /\ j \in 1 .. Len(y) /\ j - 1 \in 0 .. Len(y) /\ j \in 0 .. Len(y)
            /\ Len(x) + j = i /\ Len(x) + (j - 1) = i - 1 /\ i \in 1 .. Len(x) + Len(y)
        BY <1>2, <2>2
      <3>2. z[i] = y[j]
        BY <1>2, <2>2, <3>1
      <3> HIDE DEF j
      <3>3. w[i] = v[j]
        BY <1>7, <3>1
      <3>4. w[i - 1] = v[j - 1]
        BY <1>7, <3>1
      <3> QED BY <1>4, <3>1, <3>2, <3>3, <3>4
    <2> QED BY <2>1, <2>2
  <1>10. Way(z, s, t, limit)
    BY <1>2, <1>5, <1>8, <1>9 DEF Way
  <1> QED BY <1>10 DEF z

\* The first call goes through, and then the others do.
LEMMA WaySteps ==
    ASSUME NEW calls, NEW s, NEW t, NEW limit, Way(calls, s, t, limit), calls # <<>>
    PROVE  /\ Head(calls) \in CallRecords /\ s \in Outlines
           /\ \E r \in Outlines : Goes(Head(calls), s, r, limit) /\ Way(Tail(calls), r, t, limit)
  <1>1. calls \in Seq(CallRecords)
    BY DEF Way
  <1> DEFINE n == Len(calls)  rest == Tail(calls)
  <1>2. /\ n \in Nat /\ n > 0 /\ Head(calls) = calls[1] /\ calls[1] \in CallRecords
        /\ rest \in Seq(CallRecords) /\ Len(rest) = n - 1
        /\ \A i \in 1 .. n - 1 : rest[i] = calls[i + 1]
    BY <1>1, HeadTailProperties
  <1>3. PICK u \in [0 .. n -> Outlines] :
            /\ u[0] = s /\ u[n] = t
            /\ \A i \in 1 .. n : Goes(calls[i], u[i - 1], u[i], limit)
    BY DEF Way
  <1> HIDE DEF n, rest
  <1> DEFINE w == [i \in 0 .. Len(rest) |-> u[i + 1]]
  <1>4. w \in [0 .. Len(rest) -> Outlines]
    BY <1>2, <1>3
  <1>5. w[0] = u[1] /\ w[Len(rest)] = t /\ u[0] = s /\ u[1] \in Outlines /\ u[0] \in Outlines
    BY <1>2, <1>3
  <1>6. ASSUME NEW i \in 1 .. Len(rest) PROVE Goes(rest[i], w[i - 1], w[i], limit)
    <2>1. i + 1 \in 1 .. n /\ (i + 1) - 1 = i /\ (i - 1) + 1 = i /\ i \in 1 .. n - 1
      BY <1>2
    <2>2. rest[i] = calls[i + 1]
      BY <1>2, <2>1
    <2>3. w[i - 1] = u[i] /\ w[i] = u[i + 1]
      BY <1>2, <2>1
    <2>4. Goes(calls[i + 1], u[(i + 1) - 1], u[i + 1], limit)
      BY <1>3, <2>1
    <2> QED BY <2>1, <2>2, <2>3, <2>4
  <1> HIDE DEF w
  <1>7. Way(rest, u[1], t, limit)
    BY <1>2, <1>4, <1>5, <1>6 DEF Way
  <1>8. Goes(calls[1], u[0], u[1], limit)
    <2>1. 1 \in 1 .. n /\ 1 - 1 = 0
      BY <1>2
    <2> QED BY <1>3, <2>1
  <1> QED BY <1>2, <1>5, <1>7, <1>8 DEF rest

LEMMA CountUp ==
    ASSUME NEW n \in Nat, NEW K, 0 \in K, \A k \in 0 .. n - 1 : k \in K => k + 1 \in K
    PROVE  n \in K
  <1> DEFINE T == {k \in Nat : k <= n /\ k \notin K}
  <1>1. SUFFICES ASSUME T # {} PROVE FALSE
    OBVIOUS
  <1>2. PICK k \in T : \A j \in T : k <= j
    BY <1>1, LeastExists
  <1>3. k \in Nat /\ k # 0 /\ k <= n /\ k \notin K
    BY <1>2
  <1>4. k - 1 \in 0 .. n - 1 /\ (k - 1) + 1 = k
    BY <1>3
  <1>5. k - 1 \in K
    BY <1>2, <1>3, <1>4
  <1> QED BY <1>3, <1>4, <1>5

Flattened(f, n, ss) == f = [i \in 1 .. n |-> IF i = 1 THEN ss[i] ELSE f[i - 1] \o ss[i]]

LEMMA FlattenedExists ==
    ASSUME NEW ss, NEW n \in Nat
    PROVE  \E f : Flattened(f, n, ss)
  <1> DEFINE K == {k \in Nat : \E f : Flattened(f, k, ss)}
  <1>1. 0 \in K
    <2> DEFINE f == [i \in 1 .. 0 |-> ss[i]]
    <2>1. Flattened(f, 0, ss)
      BY DEF Flattened
    <2> QED BY <2>1
  <1>2. ASSUME NEW k \in 0 .. n - 1, k \in K PROVE k + 1 \in K
    <2>1. PICK f : Flattened(f, k, ss)
      BY <1>2
    <2> DEFINE g == [i \in 1 .. k + 1 |-> IF i = 1 THEN ss[i] ELSE f[i - 1] \o ss[i]]
    <2>2. ASSUME NEW i \in 1 .. k PROVE g[i] = f[i]
      <3>1. f[i] = IF i = 1 THEN ss[i] ELSE f[i - 1] \o ss[i]
        BY <2>1, Zenon DEF Flattened
      <3>2. i \in 1 .. k + 1
        OBVIOUS
      <3> QED BY <3>1, <3>2, Zenon
    <2>3. ASSUME NEW i \in 1 .. k + 1 PROVE g[i] = IF i = 1 THEN ss[i] ELSE g[i - 1] \o ss[i]
      <3>1. CASE i = 1
        BY <3>1
      <3>2. CASE i # 1
        <4>1. i - 1 \in 1 .. k
          BY <3>2
        <4>2. g[i - 1] = f[i - 1]
          BY <2>2, <4>1
        <4> QED BY <3>2, <4>2
      <3> QED BY <3>1, <3>2
    <2>4. g = [i \in 1 .. k + 1 |-> g[i]]
      OBVIOUS
    <2> HIDE DEF g
    <2>5. Flattened(g, k + 1, ss)
      BY <2>3, <2>4 DEF Flattened
    <2> QED BY <2>5
  <1> HIDE DEF K
  <1>3. n \in K
    BY <1>1, <1>2, CountUp
  <1> QED BY <1>3 DEF K

\* Lists that lead from each outline to the next lead from the first to the last
\* when they are joined.
LEMMA WayFlat ==
    ASSUME NEW ss, ss \in Seq(Seq(CallRecords)), NEW v \in [0 .. Len(ss) -> Outlines], NEW limit,
           \A i \in 1 .. Len(ss) : Way(ss[i], v[i - 1], v[i], limit)
    PROVE  Way(FlattenSeq(ss), v[0], v[Len(ss)], limit)
  <1> DEFINE n == Len(ss)
  <1>0. n \in Nat
    OBVIOUS
  <1>1. CASE n = 0
    <2>1. FlattenSeq(ss) = ss /\ ss = <<>>
      BY <1>1 DEF FlattenSeq
    <2>2. v[0] \in Outlines
      BY <1>1
    <2> QED BY <1>1, <2>1, <2>2, WayOfNone
  <1>2. CASE n # 0
    <2> DEFINE f == CHOOSE f : Flattened(f, n, ss)
    <2>1. Flattened(f, n, ss)
      BY <1>0, FlattenedExists
    <2>2. FlattenSeq(ss) = f[n]
      BY <1>2 DEF FlattenSeq, Flattened
    <2> HIDE DEF f
    <2> DEFINE K == {k \in Nat : k > 0 /\ k <= n => Way(f[k], v[0], v[k], limit)}
    <2>3. 0 \in K
      OBVIOUS
    <2>4. ASSUME NEW k \in 0 .. n - 1, k \in K PROVE k + 1 \in K
      <3>1. k + 1 \in 1 .. n /\ (k + 1) - 1 = k /\ k + 1 \in Nat
        BY <1>0
      <3>2. Way(ss[k + 1], v[k], v[k + 1], limit)
        BY <3>1
      <3>3. f[k + 1] = IF k + 1 = 1 THEN ss[k + 1] ELSE f[(k + 1) - 1] \o ss[k + 1]
        BY <2>1, <3>1, Zenon DEF Flattened
      <3> HIDE DEF n
      <3>4. CASE k = 0
        <4>1. f[k + 1] = ss[k + 1] /\ v[k] = v[0]
          BY <3>3, <3>4
        <4>2. Way(f[k + 1], v[0], v[k + 1], limit)
          BY <3>2, <4>1
        <4> QED BY <3>1, <4>2
      <3>5. CASE k # 0
        <4> DEFINE j == (k + 1) - 1
        <4>0. j = k /\ k + 1 # 1
          BY <3>1, <3>5
        <4> HIDE DEF j
        <4>1. f[k + 1] = f[k] \o ss[k + 1]
          BY <3>3, <4>0, Zenon DEF j
        <4>2. Way(f[k], v[0], v[k], limit)
          BY <1>0, <2>4, <3>5
        <4>3. Way(f[k + 1], v[0], v[k + 1], limit)
          BY <3>2, <4>1, <4>2, WayJoins
        <4> QED BY <3>1, <4>3
      <3> QED BY <3>4, <3>5
    <2> HIDE DEF K, n
    <2>5. n \in K
      BY <1>0, <2>3, <2>4, CountUp
    <2>6. Way(f[n], v[0], v[n], limit)
      BY <1>0, <1>2, <2>5 DEF K
    <2> QED BY <2>2, <2>6 DEF n
  <1> QED BY <1>1, <1>2

LEMMA WayRepeats ==
    ASSUME NEW x, NEW s, NEW limit, Way(x, s, s, limit), NEW n \in Int
    PROVE  Way(Repeat(n, x), s, s, limit)
  <1> DEFINE ss == [i \in 1 .. n |-> x]
             v == [i \in 0 .. Len(ss) |-> s]
  <1>1. x \in Seq(CallRecords) /\ s \in Outlines
    BY DEF Way
  <1>2. CASE n >= 0
    <2>1. ss \in Seq(Seq(CallRecords)) /\ Len(ss) = n
      BY <1>1, <1>2
    <2>2. v \in [0 .. Len(ss) -> Outlines] /\ v[0] = s /\ v[Len(ss)] = s
      BY <1>1, <1>2, <2>1
    <2>3. ASSUME NEW i \in 1 .. Len(ss) PROVE Way(ss[i], v[i - 1], v[i], limit)
      BY <1>2, <2>1
    <2> HIDE DEF ss, v
    <2>4. Way(FlattenSeq(ss), v[0], v[Len(ss)], limit)
      BY <2>1, <2>2, <2>3, WayFlat
    <2> QED BY <2>2, <2>4 DEF Repeat, ss
  <1>3. CASE ~(n >= 0)
    <2>1. ss = <<>>
      BY <1>3
    <2>2. FlattenSeq(<<>>) = <<>>
      BY DEF FlattenSeq
    <2> QED BY <1>1, <2>1, <2>2, WayOfNone DEF Repeat
  <1> QED BY <1>2, <1>3

-----------------------------------------------------------------------------
(* One call *)

Outline(top, from, aside) == [top |-> top, from |-> from, kept |-> aside]
Reach(top) == Outline(top, {}, {})

LEMMA OutlineIs ==
    ASSUME NEW top \in Int, NEW from \in Known, NEW aside \in Known
    PROVE  /\ Outline(top, from, aside) \in Outlines
           /\ Outline(top, from, aside).top = top /\ Outline(top, from, aside).from = from
           /\ Outline(top, from, aside).kept = aside
  BY DEF Outline, Outlines

LEMMA ReachIs ==
    ASSUME NEW top \in Int
    PROVE  /\ Reach(top) \in Outlines
           /\ Reach(top).top = top /\ Reach(top).from = {} /\ Reach(top).kept = {}
  <1>1. {} \in Known
    BY DEF Known
  <1> QED BY <1>1, OutlineIs DEF Reach

OneCall(name, n) == [call |-> name, m |-> 1, n |-> n]

LEMMA CallIs == ASSUME NEW name, NEW n PROVE OneCall(name, n).call = name /\ OneCall(name, n).n = n
  BY DEF OneCall

LEMMA CallWay ==
    ASSUME NEW name \in CallNames, NEW n \in Int, NEW s \in Outlines, NEW t \in Outlines, NEW limit,
           Goes(OneCall(name, n), s, t, limit)
    PROVE  Way(Call(name, 1, n), s, t, limit)
  <1> DEFINE c == OneCall(name, n)
  <1>1. c \in CallRecords
    BY DEF CallRecords, OneCall
  <1>2. Call(name, 1, n) = <<c>>
    BY DEF Call, OneCall
  <1> HIDE DEF c
  <1>3. Way(<<c>>, s, t, limit)
    BY <1>1, WayOfOne DEF c
  <1> QED BY <1>2, <1>3

LEMMA PrefillWay ==
    ASSUME NEW n \in Int, NEW a \in Int, NEW b \in Int, NEW limit,
           \A room \in limit : n <= room /\ n <= b
    PROVE  Way(Prefill(1, n), Reach(a), Reach(b), limit)
  <1> DEFINE c == OneCall("prefill", n)
  <1>1. c.call = "prefill" /\ c.n = n
    BY CallIs
  <1> HIDE DEF c
  <1>2. Goes(c, Reach(a), Reach(b), limit)
    BY <1>1, ReachIs DEF Goes
  <1>3. Way(Call("prefill", 1, n), Reach(a), Reach(b), limit)
    BY <1>2, ReachIs, CallWay DEF c, CallNames
  <1> QED BY <1>3 DEF Prefill

LEMMA DecodeWay ==
    ASSUME NEW name \in {"argmax", "same"}, NEW n \in Int, NEW a \in Int, NEW b \in Int, NEW limit,
           \A room \in limit : a + Bigger(n, 0) <= room /\ a + Bigger(n, 0) <= b
    PROVE  Way(Decode(1, name, n), Reach(a), Reach(b), limit)
  <1> DEFINE c == OneCall(name, n)
  <1>1. c.call = name /\ c.n = n
    BY CallIs
  <1> HIDE DEF c
  <1>2. Goes(c, Reach(a), Reach(b), limit)
    BY <1>1, ReachIs DEF Goes
  <1>3. Way(Call(name, 1, n), Reach(a), Reach(b), limit)
    BY <1>2, ReachIs, CallWay DEF c, CallNames
  <1> QED BY <1>3 DEF Decode

LEMMA LoopWay ==
    ASSUME NEW n \in Int, NEW a \in Int, NEW b \in Int, NEW limit,
           \A room \in limit : a + Bigger(n, 0) <= room /\ a + Bigger(n, 0) <= b
    PROVE  /\ Way(TimeLoop(1, n), Reach(a), Reach(b), limit)
           /\ Way(TimeHostDispatch(1, n), Reach(a), Reach(b), limit)
  BY DecodeWay DEF TimeLoop, TimeHostDispatch

LEMMA VerifyWay ==
    ASSUME NEW n \in Int, NEW a \in Int, NEW b \in Int, NEW limit,
           n \in 1 .. 8 => \A room \in limit : a + n <= room /\ a + n <= b
    PROVE  Way(Call("verify", 1, n), Reach(a), Reach(b), limit)
  <1> DEFINE c == OneCall("verify", n)
  <1>1. c.call = "verify" /\ c.n = n
    BY CallIs
  <1> HIDE DEF c
  <1>2. Goes(c, Reach(a), Reach(b), limit)
    BY <1>1, ReachIs DEF Goes
  <1>3. Way(Call("verify", 1, n), Reach(a), Reach(b), limit)
    BY <1>2, ReachIs, CallWay DEF c, CallNames
  <1> QED BY <1>3

LEMMA ResetWay ==
    ASSUME NEW a \in Int, NEW b \in Int, NEW limit, 0 <= b
    PROVE  Way(Call("reset", 1, 0), Reach(a), Reach(b), limit)
  <1> DEFINE c == OneCall("reset", 0)
  <1>1. c.call = "reset" /\ c.n = 0
    BY CallIs
  <1> HIDE DEF c
  <1>2. Goes(c, Reach(a), Reach(b), limit)
    BY <1>1, ReachIs DEF Goes
  <1>3. Way(Call("reset", 1, 0), Reach(a), Reach(b), limit)
    BY <1>2, ReachIs, CallWay DEF c, CallNames
  <1> QED BY <1>3

LEMMA FixedWay ==
    ASSUME NEW s \in Outlines, NEW limit, \A room \in limit : s.top + 1 <= room
    PROVE  Way(FixedForward, s, s, limit)
  <1> DEFINE c == OneCall("fixed", 1)
  <1>1. c.call = "fixed" /\ c.n = 1
    BY CallIs
  <1> HIDE DEF c
  <1>2. s.top \in Int
    BY DEF Outlines
  <1>3. Goes(c, s, s, limit)
    BY <1>1, <1>2 DEF Goes
  <1>4. Way(Call("fixed", 1, 1), s, s, limit)
    BY <1>3, ReachIs, CallWay DEF c, CallNames
  <1> QED BY <1>4 DEF FixedForward

LEMMA MedianWay ==
    ASSUME NEW n \in Int, NEW a \in Int, NEW b \in Int, NEW limit, n > 0 => a <= b
    PROVE  Way(Call("median", 1, n), Reach(a), Reach(b), limit)
  <1> DEFINE c == OneCall("median", n)
  <1>1. c.call = "median" /\ c.n = n
    BY CallIs
  <1> HIDE DEF c
  <1>2. Goes(c, Reach(a), Reach(b), limit)
    BY <1>1, ReachIs DEF Goes
  <1>3. Way(Call("median", 1, n), Reach(a), Reach(b), limit)
    BY <1>2, ReachIs, CallWay DEF c, CallNames
  <1> QED BY <1>3

LEMMA GenerateWay ==
    ASSUME NEW prompt \in Nat, NEW n \in Nat, NEW gamma \in Nat, NEW a \in Int, NEW b \in Int, NEW limit,
           \A room \in limit : prompt + n + gamma <= room /\ prompt + n + gamma <= b
    PROVE  Way(SpeculativeGenerate(prompt, n, gamma), Reach(a), Reach(b), limit)
  <1> DEFINE c == [call |-> "generate", m |-> 1, n |-> n, prompt |-> prompt, gamma |-> gamma]
  <1>1. /\ c.call = "generate" /\ c.n = n /\ c.prompt = prompt /\ c.gamma = gamma
        /\ c \in CallRecords
    BY DEF CallRecords
  <1> HIDE DEF c
  <1>2. Goes(c, Reach(a), Reach(b), limit)
    BY <1>1, ReachIs DEF Goes
  <1>3. Way(<<c>>, Reach(a), Reach(b), limit)
    BY <1>1, <1>2, ReachIs, WayOfOne
  <1> QED BY <1>3 DEF SpeculativeGenerate, c

-----------------------------------------------------------------------------
(* The programs.  All start with an empty cache. *)

Fits(calls, limit) == \E a \in Nat, t \in Outlines : Way(calls, Reach(a), t, limit)

LEMMA CorrectnessWay ==
    ASSUME NEW a \in Int
    PROVE  Way(Correctness(32), Reach(a), Outline(33, {Stepped}, {Stepped}), {512})
  <1> DEFINE none == {}
             fp == {Prompted}
             fs == {Stepped}
             s1 == Outline(32, fp, none)
             s2 == Outline(33, fs, none)
             s3 == Outline(33, fs, fs)
             s4 == Outline(32, fp, fs)
  <1>0. none \in Known /\ fp \in Known /\ fs \in Known
    BY DEF Known
  <1> HIDE DEF none, fp, fs
  <1>1. /\ s1 \in Outlines /\ s1.top = 32 /\ s1.from = fp /\ s1.kept = none
        /\ s2 \in Outlines /\ s2.top = 33 /\ s2.from = fs /\ s2.kept = none
        /\ s3 \in Outlines /\ s3.top = 33 /\ s3.from = fs /\ s3.kept = fs
        /\ s4 \in Outlines /\ s4.top = 32 /\ s4.from = fp /\ s4.kept = fs
    BY <1>0, OutlineIs
  <1> DEFINE p == OneCall("prefill", 32)
             d == OneCall("same", 1)
             k == OneCall("keep", 0)
             x == OneCall("check", 0)
  <1>3. /\ p.call = "prefill" /\ p.n = 32 /\ d.call = "same" /\ d.n = 1
        /\ k.call = "keep" /\ k.n = 0 /\ x.call = "check" /\ x.n = 0
    BY CallIs
  <1> HIDE DEF p, d, k, x, s1, s2, s3, s4
  <1>4. Bigger(1, 0) = 1
    BY DEF Bigger
  <1>5. Goes(p, Reach(a), s1, {512}) /\ Goes(p, s3, s4, {512})
    BY <1>1, <1>3, ReachIs DEF Goes, Prompted, fp, none
  <1>6. Goes(d, s1, s2, {512}) /\ Goes(d, s4, s3, {512})
    BY <1>1, <1>3, <1>4 DEF Goes, Stepped, Prompted, fp, fs, none
  <1>7. Goes(k, s2, s3, {512})
    BY <1>1, <1>3 DEF Goes, fs, none
  <1>8. Goes(x, s3, s3, {512})
    BY <1>1, <1>3 DEF Goes, fs, none
  <1> DEFINE P == Prefill(1, 32)  D == Decode(1, "same", 1)  K == Call("keep", 1, 0)  X == Call("check", 1, 0)
  <1>9. /\ Way(P, Reach(a), s1, {512}) /\ Way(D, s1, s2, {512}) /\ Way(K, s2, s3, {512})
        /\ Way(P, s3, s4, {512}) /\ Way(D, s4, s3, {512}) /\ Way(X, s3, s3, {512})
    BY <1>1, <1>5, <1>6, <1>7, <1>8, ReachIs, CallWay DEF Prefill, Decode, p, d, k, x, CallNames
  <1> HIDE DEF P, D, K, X
  <1>10. Way(P \o D \o K \o P \o D \o X, Reach(a), s3, {512})
    BY <1>9, WayJoins
  <1> QED BY <1>10 DEF Correctness, P, D, K, X, s3, fs

LEMMA GraphDecodeFits ==
    ASSUME NEW w \in Nat, NEW n \in Nat, NEW d \in Nat, 32 + w + n <= 512, 32 + d <= 512
    PROVE  Fits(GraphDecode(32, w, n, d), {512})
  <1> DEFINE P == Prefill(1, 32)
             W == Decode(1, "same", w)
             T == TimeLoop(1, n)
             R == Repeat(2, P \o W \o T)
             H == TimeHostDispatch(1, d)
             D == Decode(1, "same", 1)
             C == Correctness(32)
             all == Reach(512)  start == Reach(32)  warm == Reach(32 + w)
             end == Outline(33, {Stepped}, {Stepped})
  <1>1. /\ \A i \in Nat : Bigger(i, 0) = i
        /\ \A room \in {512} : room = 512
    BY DEF Bigger
  <1>2. Way(P, all, start, {512})
    BY PrefillWay
  <1>3. Way(W, start, warm, {512})
    BY <1>1, DecodeWay
  <1>4. Way(T, warm, all, {512})
    BY <1>1, LoopWay
  <1>5. Way(H, start, all, {512})
    BY <1>1, LoopWay
  <1>6. Way(D, start, all, {512})
    BY <1>1, DecodeWay
  <1>7. Way(C, all, end, {512})
    BY CorrectnessWay
  <1> HIDE DEF P, W, T, H, D, C, all, start, warm, end
  <1>8. Way(P \o W \o T, all, all, {512})
    BY <1>2, <1>3, <1>4, WayJoins
  <1>9. Way(R, all, all, {512})
    BY <1>8, WayRepeats
  <1> HIDE DEF R
  <1>10. Way(R \o P \o H \o P \o D \o P \o H \o C, all, end, {512})
    BY <1>2, <1>5, <1>6, <1>7, <1>9, WayJoins
  <1>11. GraphDecode(32, w, n, d) = R \o P \o H \o P \o D \o P \o H \o C
    BY Zenon DEF GraphDecode, R, P, W, T, H, D, C
  <1>12. end \in Outlines
    <2>1. 33 \in Int /\ {Stepped} \in Known
      BY DEF Known
    <2> QED BY <2>1, OutlineIs DEF end
  <1>13. Way(GraphDecode(32, w, n, d), Reach(512), end, {512})
    BY <1>10, <1>11 DEF all
  <1> QED BY <1>12, <1>13 DEF Fits

LEMMA FlatStays ==
    ASSUME NEW n \in Nat, NEW ss, ss = [i \in 1 .. n |-> ss[i]], NEW s \in Outlines, NEW limit,
           \A i \in 1 .. n : Way(ss[i], s, s, limit)
    PROVE  Way(FlattenSeq(ss), s, s, limit)
  <1> DEFINE v == [i \in 0 .. Len(ss) |-> s]
  <1>0. \A i \in 1 .. n : ss[i] \in Seq(CallRecords)
    BY DEF Way
  <1>1. ss \in Seq(Seq(CallRecords)) /\ Len(ss) = n
    BY <1>0
  <1>2. v \in [0 .. Len(ss) -> Outlines] /\ v[0] = s /\ v[Len(ss)] = s
    BY <1>1
  <1>3. ASSUME NEW i \in 1 .. Len(ss) PROVE Way(ss[i], v[i - 1], v[i], limit)
    BY <1>1
  <1> HIDE DEF v
  <1> QED BY <1>1, <1>2, <1>3, WayFlat

\* The first of n > 0 times may start elsewhere.
LEMMA WayRepeatsFrom ==
    ASSUME NEW x, NEW s, NEW t, NEW limit, Way(x, s, t, limit), Way(x, t, t, limit),
           NEW n \in Nat, n > 0
    PROVE  Way(Repeat(n, x), s, t, limit)
  <1> DEFINE ss == [i \in 1 .. n |-> x]
             v == [i \in 0 .. Len(ss) |-> IF i = 0 THEN s ELSE t]
  <1>1. x \in Seq(CallRecords) /\ s \in Outlines /\ t \in Outlines
    <2>1. \A a, b : Way(x, a, b, limit) => x \in Seq(CallRecords) /\ a \in Outlines /\ b \in Outlines
      <3>1. SUFFICES ASSUME NEW a, NEW b, Way(x, a, b, limit)
                     PROVE  x \in Seq(CallRecords) /\ a \in Outlines /\ b \in Outlines
        OBVIOUS
      <3>2. x \in Seq(CallRecords)
        BY <3>1 DEF Way
      <3>3. Len(x) \in Nat
        BY <3>2
      <3> QED BY <3>1, <3>2, <3>3 DEF Way
    <2> QED BY <2>1
  <1>2. ss \in Seq(Seq(CallRecords)) /\ Len(ss) = n
    BY <1>1
  <1>3. v \in [0 .. Len(ss) -> Outlines] /\ v[0] = s /\ v[Len(ss)] = t
    BY <1>1, <1>2
  <1>4. ASSUME NEW i \in 1 .. Len(ss) PROVE Way(ss[i], v[i - 1], v[i], limit)
    <2>1. ss[i] = x /\ v[i] = t /\ (v[i - 1] = s \/ v[i - 1] = t)
      BY <1>2
    <2> HIDE DEF ss, v
    <2> QED BY <2>1
  <1> HIDE DEF ss, v
  <1>5. Way(FlattenSeq(ss), v[0], v[Len(ss)], limit)
    BY <1>2, <1>3, <1>4, WayFlat
  <1> QED BY <1>3, <1>5 DEF Repeat, ss

LEMMA ProbeFits == Fits(Phase0Probe, {256})
  <1> DEFINE none == {}
             fp == {Prompted}
             all == Reach(256)  start == Reach(32)  r1 == Reach(36)
             s1 == Outline(32, fp, none)
             s2 == Outline(32, fp, fp)
  <1>0. none \in Known /\ fp \in Known
    BY DEF Known
  <1> HIDE DEF none, fp
  <1>1. /\ s1 \in Outlines /\ s1.top = 32 /\ s1.from = fp /\ s1.kept = none
        /\ s2 \in Outlines /\ s2.top = 32 /\ s2.from = fp /\ s2.kept = fp
    BY <1>0, OutlineIs
  <1>2. all \in Outlines /\ all.top = 256 /\ all.from = {} /\ all.kept = {}
    BY ReachIs
  <1> DEFINE p == OneCall("prefill", 32)
             k == OneCall("keep", 0)
             x == OneCall("check", 0)
  <1>3. p.call = "prefill" /\ p.n = 32 /\ k.call = "keep" /\ k.n = 0 /\ x.call = "check" /\ x.n = 0
    BY CallIs
  <1> HIDE DEF p, k, x, s1, s2
  <1>4. Goes(p, all, s1, {256})
    BY <1>1, <1>2, <1>3 DEF Goes, Prompted, fp, none
  <1>5. Goes(k, s1, s2, {256}) /\ Goes(x, s2, s2, {256})
    BY <1>1, <1>3 DEF Goes, fp, none
  <1> DEFINE P == Prefill(1, 32)
             A == TimeLoop(1, 4)
             B == TimeLoop(1, 64)
             F == FixedForward
             K == Call("keep", 1, 0)
             X == Call("check", 1, 0)
             R == Repeat(4, F)
             S == Repeat(3, F \o X)
  <1>6. Way(P, all, s1, {256}) /\ Way(K, s1, s2, {256}) /\ Way(X, s2, s2, {256})
    BY <1>1, <1>2, <1>4, <1>5, CallWay DEF Prefill, p, k, x, CallNames
  <1>7. Way(F, s1, s1, {256}) /\ Way(F, s2, s2, {256})
    BY <1>1, FixedWay
  <1>8. Way(P, all, start, {256})
    BY PrefillWay
  <1>9. Bigger(4, 0) = 4 /\ Bigger(64, 0) = 64
    BY DEF Bigger
  <1>10. Way(A, start, r1, {256}) /\ Way(B, r1, all, {256})
    BY <1>9, LoopWay
  <1> HIDE DEF P, A, B, F, K, X, all, start, r1
  <1>11. Way(R, s2, s2, {256})
    BY <1>7, WayRepeats
  <1>12. Way(S, s2, s2, {256})
    <2>1. Way(F \o X, s2, s2, {256})
      BY <1>6, <1>7, WayJoins
    <2> QED BY <2>1, WayRepeats
  <1> HIDE DEF R, S
  <1>13. Way(P \o A \o B \o P \o F \o K \o R \o S, all, s2, {256})
    BY <1>6, <1>7, <1>8, <1>10, <1>11, <1>12, WayJoins
  <1>14. Phase0Probe = P \o A \o B \o P \o F \o K \o R \o S
    BY Zenon DEF Phase0Probe, P, A, B, F, K, X, R, S
  <1>15. Way(Phase0Probe, Reach(256), s2, {256})
    BY <1>13, <1>14 DEF all
  <1> QED BY <1>1, <1>15 DEF Fits

LEMMA DiagFits == Fits(Phase0Diag, {256})
  <1> DEFINE n == 1 + 3 * (1 + 3 + 2)
             F == FixedForward
             R == Repeat(n, F)
             P == Prefill(1, 32)
  <1>1. Way(P, Reach(256), Reach(32), {256})
    BY PrefillWay
  <1>2. Way(F, Reach(32), Reach(32), {256})
    BY ReachIs, FixedWay
  <1>3. n \in Int /\ Reach(32) \in Outlines
    BY ReachIs
  <1> HIDE DEF n, F, P
  <1>4. Way(R, Reach(32), Reach(32), {256})
    BY <1>2, <1>3, WayRepeats
  <1> HIDE DEF R
  <1>5. Way(P \o R, Reach(256), Reach(32), {256})
    BY <1>1, <1>4, WayJoins
  <1>6. Phase0Diag = P \o R
    BY Zenon DEF Phase0Diag, P, R, F, n
  <1> QED BY <1>3, <1>5, <1>6 DEF Fits

LEMMA SpecDecodeFits == Fits(SpecDecodeBench, {512})
  <1> DEFINE P == Prefill(1, 10)
             T == TimeLoop(1, 96 - 1)
             G == SpeculativeGenerate(10, 96, 4)
             A == Repeat(2, GreedyExtend(1, 10, 96))
             B == Repeat(4, G)
             all == Reach(512)
  <1>1. Way(P, all, Reach(10), {512})
    BY PrefillWay
  <1>2. Bigger(96 - 1, 0) = 95
    BY DEF Bigger
  <1>3. Way(T, Reach(10), all, {512})
    BY <1>2, LoopWay
  <1>4. Way(G, all, all, {512})
    BY GenerateWay
  <1>5. all \in Outlines
    BY ReachIs
  <1>6. GreedyExtend(1, 10, 96) = P \o T
    BY DEF GreedyExtend
  <1> HIDE DEF P, T, G, all
  <1>7. Way(GreedyExtend(1, 10, 96), all, all, {512})
    <2>1. Way(P \o T, all, all, {512})
      BY <1>1, <1>3, WayJoins
    <2> QED BY <1>6, <2>1
  <1>8. Way(A, all, all, {512}) /\ Way(B, all, all, {512})
    BY <1>4, <1>7, WayRepeats
  <1> HIDE DEF A, B
  <1>9. Way(A \o B, all, all, {512})
    BY <1>8, WayJoins
  <1>10. SpecDecodeBench = A \o B
    BY Zenon DEF SpecDecodeBench, A, B, G
  <1> QED BY <1>5, <1>9, <1>10 DEF Fits, all

LEMMA PlannedFits == Fits(Prefill(1, 1), {1})
  <1>1. Way(Prefill(1, 1), Reach(1), Reach(1), {1}) /\ Reach(1) \in Outlines
    BY PrefillWay, ReachIs
  <1> QED BY <1>1 DEF Fits

\* Every generation has the room it is sure to need, or no room is asked of it.
Covers(limit, a) ==
    /\ limit = {} \/ limit = {a.maxSeq}
    /\ \A room \in limit : \A p \in DOMAIN a.prompts, g \in DOMAIN a.gammas :
           a.prompts[p] + a.n + a.gammas[g] <= room

LEMMA TimedWay ==
    ASSUME NEW a, a.warmup \in Int, a.trials \in Int, NEW calls, NEW b \in Int, NEW limit,
           Way(calls, Reach(b), Reach(b), limit)
    PROVE  Way(Timed(a, calls), Reach(b), Reach(b), limit)
  <1> DEFINE n == Bigger(a.warmup, 0) + Bigger(a.trials, 0)
             R == Repeat(n, calls)
             M == Call("median", 1, a.trials)
  <1>1. n \in Int
    BY DEF Bigger
  <1> HIDE DEF n
  <1>2. Way(R, Reach(b), Reach(b), limit)
    BY <1>1, WayRepeats
  <1>3. Way(M, Reach(b), Reach(b), limit)
    BY MedianWay
  <1> HIDE DEF R, M
  <1>4. Way(R \o M, Reach(b), Reach(b), limit)
    BY <1>2, <1>3, WayJoins
  <1>5. Timed(a, calls) = R \o M
    BY Zenon DEF Timed, R, M, n
  <1> QED BY <1>4, <1>5

LEMMA SpecdecFits ==
    ASSUME NEW a, SpecdecArguments(a), \A g \in DOMAIN a.gammas : a.gammas[g] \in 1 .. 8,
           NEW limit, Covers(limit, a)
    PROVE  Fits(RunSingle(a), limit) /\ Fits(RunMpi(a), limit)
  <1> DEFINE top == Bigger(a.maxSeq, 0)
             all == Reach(top)
             np == Len(a.prompts)
             ng == Len(a.gammas)
             G(p, g) == SpeculativeGenerate(a.prompts[p], a.n, a.gammas[g])
             B(p) == BaselineDecode(a.prompts[p], a.n)
             gs(p) == [g \in DOMAIN a.gammas |-> Timed(a, G(p, g))]
             single == [p \in DOMAIN a.prompts |-> Timed(a, B(p)) \o FlattenSeq(gs(p))]
             mpi == [p \in DOMAIN a.prompts |-> FlattenSeq(gs(p))]
  <1>1. /\ np \in Nat /\ DOMAIN a.prompts = 1 .. np /\ \A p \in 1 .. np : a.prompts[p] \in Nat
        /\ ng \in Nat /\ ng > 0 /\ DOMAIN a.gammas = 1 .. ng /\ \A g \in 1 .. ng : a.gammas[g] \in Nat
        /\ a.n \in Nat /\ a.warmup \in Int /\ a.trials \in Int /\ a.maxSeq \in Int
    <2>1. np \in Nat /\ DOMAIN a.prompts = 1 .. np /\ \A p \in 1 .. np : a.prompts[p] \in Nat
      BY DEF SpecdecArguments
    <2>2. ng \in Nat /\ ng > 0 /\ DOMAIN a.gammas = 1 .. ng
      <3> DEFINE x == a.gammas
      <3>1. x \in Seq(Int) /\ x # <<>>
        BY DEF SpecdecArguments
      <3> HIDE DEF x
      <3>2. Len(x) \in Nat /\ Len(x) > 0 /\ DOMAIN x = 1 .. Len(x)
        BY <3>1
      <3> QED BY <3>2 DEF x
    <2>3. ASSUME NEW g \in 1 .. ng PROVE a.gammas[g] \in Nat
      <3>1. a.gammas[g] \in 1 .. 8
        BY <2>2
      <3> QED BY <3>1
    <2> QED BY <2>1, <2>2, <2>3 DEF SpecdecArguments
  <1>2. top \in Nat /\ a.maxSeq <= top
    BY <1>1 DEF Bigger
  <1>3. all \in Outlines
    BY <1>2, ReachIs
  <1>4. \A room \in limit : room = a.maxSeq
    BY DEF Covers
  <1> HIDE DEF top, np, ng
  <1>5. ASSUME NEW p \in 1 .. np, NEW g \in 1 .. ng, NEW room \in limit
        PROVE  a.prompts[p] + a.n + a.gammas[g] <= room /\ a.prompts[p] + a.n + a.gammas[g] <= top
    <2>1. a.prompts[p] + a.n + a.gammas[g] <= room
      BY <1>1 DEF Covers
    <2>2. a.prompts[p] \in Nat /\ a.gammas[g] \in Nat /\ room = a.maxSeq
      BY <1>1, <1>4, Zenon
    <2> QED BY <1>1, <1>2, <2>1, <2>2
  <1>6. ASSUME NEW p \in 1 .. np PROVE Way(FlattenSeq(gs(p)), all, all, limit)
    <2>1. ASSUME NEW g \in 1 .. ng PROVE Way(Timed(a, G(p, g)), all, all, limit)
      <3>1. a.prompts[p] \in Nat /\ a.gammas[g] \in Nat /\ top \in Int
        <4>1. top \in Int
          BY <1>2
        <4> QED BY <1>1, <4>1, Zenon
      <3>2. Way(G(p, g), all, all, limit)
        BY <1>1, <1>5, <3>1, GenerateWay
      <3> HIDE DEF G
      <3> QED BY <1>1, <3>1, <3>2, TimedWay
    <2> DEFINE ss == gs(p)
    <2>2. ss = [g \in 1 .. ng |-> ss[g]]
      BY <1>1
    <2>3. \A g \in 1 .. ng : Way(ss[g], all, all, limit)
      BY <1>1, <2>1
    <2> HIDE DEF ss, all
    <2>4. Way(FlattenSeq(ss), all, all, limit)
      BY <1>1, <1>3, <2>2, <2>3, FlatStays
    <2> QED BY <2>4 DEF ss
  <1>7. ASSUME NEW p \in 1 .. np PROVE Way(Timed(a, B(p)), all, all, limit)
    <2> DEFINE n == a.n - 1
               P == Prefill(1, a.prompts[p])
               T == TimeLoop(1, n)
    <2>1. a.prompts[p] \in Nat /\ n \in Int /\ Bigger(n, 0) \in Nat /\ Bigger(n, 0) <= a.n
      BY <1>1 DEF Bigger
    <2>2. 1 \in 1 .. ng /\ a.gammas[1] \in Nat
      <3>1. 1 \in 1 .. ng
        BY <1>1
      <3> QED BY <1>1, <3>1, Zenon
    <2> HIDE DEF n
    <2>3. ASSUME NEW room \in limit
          PROVE  /\ a.prompts[p] + Bigger(n, 0) <= room /\ a.prompts[p] + Bigger(n, 0) <= top
                 /\ a.prompts[p] <= room
      <3> DEFINE x == a.prompts[p]  g == a.gammas[1]  m == Bigger(n, 0)  k == a.n
      <3>1. x + k + g <= room /\ x + k + g <= top /\ room \in Int /\ top \in Int
        BY <1>1, <1>2, <1>4, <1>5, <2>2
      <3>2. x \in Nat /\ g \in Nat /\ m \in Nat /\ k \in Nat /\ m <= k
        BY <1>1, <2>1, <2>2
      <3> HIDE DEF x, g, m, k
      <3>3. x + m <= room /\ x + m <= top /\ x <= room
        BY <3>1, <3>2
      <3> QED BY <3>3 DEF x, m
    <2>4. Way(P, all, Reach(a.prompts[p]), limit)
      BY <1>2, <2>1, <2>3, PrefillWay
    <2>5. Way(T, Reach(a.prompts[p]), all, limit)
      BY <1>2, <2>1, <2>3, LoopWay
    <2> HIDE DEF P, T
    <2>6. Way(P \o T, all, all, limit)
      BY <2>4, <2>5, WayJoins
    <2>7. B(p) = P \o T
      BY Zenon DEF BaselineDecode, P, T, n
    <2> HIDE DEF B
    <2> QED BY <1>1, <1>2, <2>6, <2>7, TimedWay
  <1> HIDE DEF G, B, all
  <1>8. Way(FlattenSeq(single), all, all, limit)
    <2>1. single = [p \in 1 .. np |-> single[p]]
      BY <1>1
    <2>2. ASSUME NEW p \in 1 .. np PROVE Way(single[p], all, all, limit)
      <3> DEFINE x == Timed(a, B(p))  y == FlattenSeq(gs(p))
      <3>1. single[p] = x \o y
        BY <1>1
      <3>2. Way(x, all, all, limit) /\ Way(y, all, all, limit)
        BY <1>6, <1>7
      <3> HIDE DEF x, y
      <3>3. Way(x \o y, all, all, limit)
        BY <3>2, WayJoins
      <3> QED BY <3>1, <3>3
    <2> HIDE DEF single
    <2> QED BY <1>1, <1>3, <2>1, <2>2, FlatStays
  <1>9. Way(FlattenSeq(mpi), all, all, limit)
    <2>1. mpi = [p \in 1 .. np |-> mpi[p]]
      BY <1>1
    <2>2. \A p \in 1 .. np : Way(mpi[p], all, all, limit)
      BY <1>1, <1>6
    <2> HIDE DEF mpi
    <2> QED BY <1>1, <1>3, <2>1, <2>2, FlatStays
  <1>10. RunSingle(a) = FlattenSeq(single) /\ RunMpi(a) = FlattenSeq(mpi)
    BY DEF RunSingle, RunMpi, G, B
  <1> QED BY <1>2, <1>3, <1>8, <1>9, <1>10 DEF Fits, all

LEMMA CaptureFits ==
    ASSUME NEW a, CaptureArguments(a)
    PROVE  CaptureLength(a) \in Int /\ Fits(ProfileForward(a), {CaptureLength(a)})
  <1> DEFINE room == CaptureLength(a)
             most == Bigger(a.steps, 8)
             each == IF a.forward = "decode" THEN 1 ELSE a.gamma
             End(k) == a.seq + Bigger(k, 0) * each
             limit == {room}
             Steps(k) == IF a.forward = "decode" THEN TimeLoop(1, k) ELSE Repeat(k, Call("verify", 1, a.gamma))
  <1>1. /\ most \in Nat /\ each \in Nat /\ a.seq \in Nat /\ a.gamma \in Nat
        /\ a.steps \in Int /\ a.steps <= most /\ 8 <= most
    BY DEF CaptureArguments, Bigger
  <1>2. room = a.seq + most * each + 8
    BY DEF CaptureLength
  <1>3. most * each \in Nat
    <2> HIDE DEF most, each
    <2> QED BY <1>1, ProductNat
  <1>4. room \in Nat /\ a.seq <= room /\ \A r \in limit : r = room
    BY <1>1, <1>2, <1>3
  <1> HIDE DEF room, most, limit
  <1>5. ASSUME NEW k \in Int, k <= most
        PROVE  End(k) \in Int /\ Way(Steps(k), Reach(a.seq), Reach(End(k)), limit)
    <2> DEFINE m == Bigger(k, 0)
    <2>1. m \in Nat /\ m <= most
      <3>1. most \in Nat /\ k \in Int /\ k <= most
        BY <1>1, <1>5
      <3> HIDE DEF each, End, Steps
      <3> QED BY <3>1 DEF Bigger
    <2>2. CASE a.forward = "decode"
      <3>1. each = 1 /\ End(k) = a.seq + m /\ a.seq + m <= room
        BY <1>1, <1>2, <2>1, <2>2
      <3>2. Way(TimeLoop(1, k), Reach(a.seq), Reach(End(k)), limit)
        BY <1>1, <1>4, <2>1, <3>1, LoopWay
      <3> QED BY <1>1, <2>1, <2>2, <3>1, <3>2
    <2>3. CASE a.forward # "decode"
      <3> DEFINE g == a.gamma
                 V == Call("verify", 1, g)
                 at(i) == a.seq + i * g
                 ss == [i \in 1 .. k |-> V]
                 v == [i \in 0 .. m |-> Reach(at(i))]
      <3>0. each = g /\ g \in Nat /\ End(k) = at(m)
        BY <1>1, <2>3
      <3>1. ASSUME NEW i \in 0 .. m PROVE at(i) \in Nat /\ at(i) <= room
        <4>1. i \in Nat /\ i <= most
          BY <1>1, <2>1
        <4> HIDE DEF m, g
        <4>2. i * g \in Nat /\ i * g <= most * g
          <5>1. most - i \in Nat /\ most = i + (most - i)
            BY <1>1, <4>1
          <5> DEFINE d == most - i
          <5>2. i * g \in Nat /\ d * g \in Nat
            BY <3>0, <4>1, <5>1, ProductNat
          <5> HIDE DEF d
          <5>3. d \in Nat /\ most = i + d
            BY <5>1 DEF d
          <5>4. (i + d) * g = i * g + d * g
            BY <3>0, <4>1, <5>3
          <5> QED BY <5>2, <5>3, <5>4
        <4> QED BY <1>1, <1>2, <3>0, <4>2
      <3>2. ASSUME NEW i \in 1 .. m PROVE Way(V, Reach(at(i - 1)), Reach(at(i)), limit)
        <4>1. i - 1 \in 0 .. m /\ i \in 0 .. m
          BY <2>1
        <4>2. at(i - 1) + g = at(i)
          <5>1. (i - 1) * g + g = i * g
            BY <3>0, <4>1
          <5>2. i \in Int /\ i - 1 \in Int
            OBVIOUS
          <5>3. i * g \in Int /\ (i - 1) * g \in Int
            BY <3>0, <5>2
          <5> QED BY <1>1, <3>0, <5>1, <5>3
        <4>3. at(i - 1) \in Int /\ at(i) \in Int /\ at(i) <= room
          BY <3>1, <4>1
        <4> HIDE DEF at, g
        <4> QED BY <1>4, <3>0, <4>2, <4>3, VerifyWay
      <3>3. V \in Seq(CallRecords)
        <4>1. [call |-> "verify", m |-> 1, n |-> g] \in CallRecords
          BY <3>0 DEF CallRecords, CallNames
        <4> QED BY <4>1 DEF Call
      <3>4. Len(ss) = m /\ ss \in Seq(Seq(CallRecords)) /\ \A i \in 1 .. m : ss[i] = V
        <4>1. CASE k <= 0
          <5>1. 1 .. k = {} /\ m = 0
            BY <4>1, <1>5 DEF Bigger
          <5>2. ss = <<>>
            BY <5>1
          <5>3. Len(<<>>) = 0 /\ <<>> \in Seq(Seq(CallRecords))
            OBVIOUS
          <5> HIDE DEF ss, V, m, at, v
          <5> QED BY <5>1, <5>2, <5>3
        <4>2. CASE k > 0
          <5>1. m = k /\ k \in Nat
            BY <4>2, <1>5 DEF Bigger
          <5> HIDE DEF V, m, at, v
          <5>2. ss = [i \in 1 .. k |-> V] /\ \A i \in 1 .. k : ss[i] = V
            OBVIOUS
          <5> HIDE DEF ss
          <5>3. Len(ss) = k /\ ss \in Seq(Seq(CallRecords))
            BY <3>3, <5>1, <5>2
          <5> QED BY <5>1, <5>2, <5>3
        <4>3. k <= 0 \/ k > 0
          BY <1>5
        <4> HIDE DEF ss, V, m, at, v
        <4> QED BY <4>1, <4>2, <4>3
      <3>5. v \in [0 .. m -> Outlines] /\ \A i \in 0 .. m : v[i] = Reach(at(i))
        <4>1. \A i \in 0 .. m : Reach(at(i)) \in Outlines
          <5> HIDE DEF at, m, V, ss, Steps, End
          <5> QED BY <3>1, ReachIs
        <4>2. v = [i \in 0 .. m |-> v[i]] /\ \A i \in 0 .. m : v[i] = Reach(at(i))
          <5> HIDE DEF at, m, V, ss, Steps, End
          <5> QED OBVIOUS
        <4> HIDE DEF at, m, V, ss, v, Steps, End
        <4>3. \A i \in 0 .. m : v[i] \in Outlines
          BY <4>1, <4>2
        <4> QED BY <4>2, <4>3
      <3>6. \A i \in 1 .. m : i \in 0 .. m /\ i - 1 \in 0 .. m
        BY <2>1
      <3>7. v[0] = Reach(a.seq) /\ v[m] = Reach(End(k))
        <4>1. at(0) = a.seq /\ 0 \in 0 .. m /\ m \in 0 .. m
          BY <1>1, <2>1, <3>0
        <4> HIDE DEF at, v, End, m
        <4> QED BY <3>0, <3>5, <4>1
      <3>8. End(k) \in Int
        <4>1. m \in 0 .. m
          BY <2>1
        <4> HIDE DEF at, End, m
        <4> QED BY <3>0, <3>1, <4>1
      <3> HIDE DEF ss, v, V, at, m, End
      <3>9. \A i \in 1 .. Len(ss) : Way(ss[i], v[i - 1], v[i], limit)
        BY <3>2, <3>4, <3>5, <3>6
      <3>10. Way(FlattenSeq(ss), v[0], v[Len(ss)], limit)
        BY <3>4, <3>5, <3>9, WayFlat
      <3>11. Steps(k) = FlattenSeq(ss)
        BY <2>3 DEF Repeat, ss, V
      <3> HIDE DEF Steps
      <3> QED BY <3>4, <3>7, <3>8, <3>10, <3>11
    <2> QED BY <2>2, <2>3
  <1> HIDE DEF Steps, End, each
  <1> DEFINE P == Prefill(1, a.seq)
             R == Call("reset", 1, 0)
             all == Reach(room)
  <1>6. Way(P, all, Reach(a.seq), limit)
    BY <1>1, <1>4, PrefillWay
  <1>7. Way(R, Reach(End(8)), all, limit)
    BY <1>1, <1>4, <1>5, ResetWay
  <1>8. Way(Steps(8), Reach(a.seq), Reach(End(8)), limit)
    BY <1>1, <1>5
  <1>9. Way(Steps(a.steps), Reach(a.seq), Reach(End(a.steps)), limit) /\ Reach(End(a.steps)) \in Outlines
    BY <1>1, <1>5, ReachIs
  <1> HIDE DEF P, R, all
  <1>10. Way(P \o Steps(8) \o R \o P \o Steps(a.steps), all, Reach(End(a.steps)), limit)
    BY <1>6, <1>7, <1>8, <1>9, WayJoins
  <1>11. ProfileForward(a) = P \o Steps(8) \o R \o P \o Steps(a.steps)
    BY DEF ProfileForward, Steps, P, R
  <1>12. Fits(ProfileForward(a), limit)
    BY <1>4, <1>9, <1>10, <1>11 DEF Fits, all
  <1> QED BY <1>4, <1>12 DEF limit, room

-----------------------------------------------------------------------------
(* benchmark_forward_sweep *)

Highest == [x \in Nat \X Nat |-> Bigger(x[1], x[2])]

LEMMA HighestIs ==
    \A a, b \in Nat : Highest[<<a, b>>] = Bigger(a, b) /\ Bigger(a, b) \in Nat
                      /\ a <= Bigger(a, b) /\ b <= Bigger(a, b)
  BY DEF Highest, Bigger

LEMMA LongestBounds ==
    ASSUME NEW s \in Seq(Nat)
    PROVE  FoldSeq(Bigger, 0, s) \in Nat /\ \A i \in DOMAIN s : s[i] <= FoldSeq(Bigger, 0, s)
  <1> DEFINE S == DOMAIN s
             Is(f) == f = [r \in SUBSET S |-> IF r = {} THEN 0 ELSE Bigger(s[Picked(r)], f[r \ {Picked(r)}])]
             h == CHOOSE f : Is(f)
  <1>1. IsFiniteSet(S) /\ Weights(s, S)
    <2>1. S = 1 .. Len(s) /\ Len(s) \in Nat /\ \A i \in S : s[i] \in Nat
      OBVIOUS
    <2> HIDE DEF S, h
    <2>2. IsFiniteSet(S)
      BY <2>1, FS_Interval
    <2> QED BY <2>1, <2>2 DEF Weights
  <1>2. \E f : Is(f)
    <2>1. PICK f : Folded(f, Highest, 0, s, S)
      BY <1>1, FoldExists
    <2> DEFINE P == {r \in SUBSET S : f[r] \in Nat}
    <2>2. f[{}] = 0 /\ f = [r \in SUBSET S |-> f[r]]
      BY <2>1 DEF Folded
    <2>3. ASSUME NEW r \in SUBSET S, r # {}
          PROVE  Picked(r) \in S /\ s[Picked(r)] \in Nat
                 /\ f[r] = Highest[<<s[Picked(r)], f[r \ {Picked(r)}]>>]
      BY <1>1, <2>1, <2>3, PickedIn DEF Folded, Weights
    <2>4. ASSUME NEW r \in SUBSET S, r # {}, \A x \in r : r \ {x} \in P PROVE r \in P
      <3>1. f[r \ {Picked(r)}] \in Nat
        BY <2>4, PickedIn
      <3>2. f[r] \in Nat
        <4> DEFINE x == s[Picked(r)]
                   y == f[r \ {Picked(r)}]
        <4>1. x \in Nat /\ y \in Nat /\ f[r] = Highest[<<x, y>>]
          BY <2>3, <2>4, <3>1
        <4> HIDE DEF x, y, P, S
        <4> QED BY <4>1, HighestIs
      <3> QED BY <3>2
    <2>5. \A r \in SUBSET S : f[r] \in Nat
      <3>1. {} \in P
        BY <2>2
      <3> HIDE DEF P, S
      <3>2. \A r \in SUBSET S : r \in P
        BY <1>1, <2>4, <3>1, FiniteInduction
      <3> QED BY <3>2 DEF P
    <2>6. ASSUME NEW r \in SUBSET S
          PROVE  f[r] = IF r = {} THEN 0 ELSE Bigger(s[Picked(r)], f[r \ {Picked(r)}])
      <3>1. CASE r = {}
        BY <2>2, <3>1
      <3>2. CASE r # {}
        <4>1. f[r \ {Picked(r)}] \in Nat
          BY <2>5
        <4> QED BY <2>3, <3>2, <4>1, HighestIs
      <3> QED BY <3>1, <3>2
    <2> HIDE DEF S
    <2> QED BY <2>2, <2>6, Zenon
  <1>3. Is(h)
    BY <1>2
  <1>4. FoldSeq(Bigger, 0, s) = h[S]
    BY Zenon DEF FoldSeq, FoldFunction, FoldFunctionOnSet, MapThenFoldSet, Picked
  <1> HIDE DEF h
  <1> DEFINE Q == {r \in SUBSET S : h[r] \in Nat /\ \A x \in r : s[x] <= h[r]}
  <1>5. {} \in Q
    BY <1>3
  <1>6. ASSUME NEW r \in SUBSET S, r # {}, \A x \in r : r \ {x} \in Q PROVE r \in Q
    <2> DEFINE c == Picked(r)
    <2>1. c \in r /\ h[r] = Bigger(s[c], h[r \ {c}])
      BY <1>3, <1>6, PickedIn
    <2> HIDE DEF c
    <2>2. s[c] \in Nat /\ h[r \ {c}] \in Nat /\ \A x \in r \ {c} : s[x] <= h[r \ {c}]
      BY <1>1, <1>6, <2>1 DEF Weights
    <2>3. h[r] \in Nat /\ s[c] <= h[r] /\ h[r \ {c}] <= h[r]
      BY <2>1, <2>2, HighestIs
    <2>4. ASSUME NEW x \in r PROVE s[x] <= h[r]
      <3>1. s[x] \in Nat
        BY <1>1 DEF Weights
      <3>2. CASE x = c
        BY <2>3, <3>2
      <3>3. CASE x # c
        <4>1. s[x] <= h[r \ {c}]
          BY <2>2, <3>3
        <4> DEFINE lo == s[x]
                   mid == h[r \ {c}]
                   hi == h[r]
        <4>2. lo \in Nat /\ mid \in Nat /\ hi \in Nat /\ lo <= mid /\ mid <= hi
          BY <2>2, <2>3, <3>1, <4>1
        <4> HIDE DEF lo, mid, hi
        <4>3. lo <= hi
          BY <4>2
        <4> QED BY <4>3 DEF lo, hi
      <3> QED BY <3>2, <3>3
    <2> QED BY <2>3, <2>4
  <1>7. S \in Q
    <2> HIDE DEF Q, S
    <2>1. \A r \in SUBSET S : r \in Q
      BY <1>1, <1>5, <1>6, FiniteInduction
    <2> QED BY <2>1
  <1> QED BY <1>4, <1>7

LEMMA SweepFits ==
    ASSUME NEW a, SweepArguments(a)
    PROVE  SweepLength(a) \in Int /\ Fits(Sweep(a), {SweepLength(a)})
  <1> DEFINE room == SweepLength(a)
             limit == {room}
             all == Reach(room)
             n == Len(a.seqs)
             X == Call("reset", 1, 0)
             P(i) == Prefill(1, a.seqs[i])
             W == TimeLoop(1, 8)
             R(i) == Repeat(a.reps, X \o P(i))
             M == Call("median", 1, a.reps)
             T == TimeLoop(1, a.steps)
             ss == [i \in DOMAIN a.seqs |-> X \o P(i) \o W \o R(i) \o M \o T]
  <1>1. n \in Nat /\ DOMAIN a.seqs = 1 .. n /\ a.steps \in Nat /\ a.reps \in Int
    BY DEF SweepArguments
  <1>2. /\ room \in Nat
        /\ \A i \in 1 .. n : a.seqs[i] \in Nat /\ a.seqs[i] + a.steps + 8 <= room
    <2> DEFINE most == FoldSeq(Bigger, 0, a.seqs)
    <2>1. most \in Nat /\ \A i \in 1 .. n : a.seqs[i] \in Nat /\ a.seqs[i] <= most
      <3> DEFINE s == a.seqs
      <3>1. s \in Seq(Nat)
        BY DEF SweepArguments
      <3>2. FoldSeq(Bigger, 0, s) \in Nat /\ \A i \in DOMAIN s : s[i] <= FoldSeq(Bigger, 0, s)
        BY <3>1, LongestBounds
      <3> QED BY <1>1, <3>1, <3>2
    <2>2. room = most + a.steps + 8
      BY DEF SweepLength
    <2> HIDE DEF most, room, n
    <2> QED BY <1>1, <2>1, <2>2
  <1>3. all \in Outlines /\ \A r \in limit : r = room
    BY <1>2, ReachIs
  <1> HIDE DEF room, limit, n
  <1>4. ASSUME NEW i \in 1 .. n PROVE Way(X \o P(i) \o W \o R(i) \o M \o T, all, all, limit)
    <2> DEFINE q == a.seqs[i]
               start == Reach(q)
               warm == Reach(q + 8)
    <2>1. q \in Nat /\ q + a.steps + 8 <= room
      BY <1>2
    <2>2. Bigger(8, 0) = 8 /\ Bigger(a.steps, 0) = a.steps
      BY <1>1 DEF Bigger
    <2>3. Way(X, all, all, limit) /\ Way(X, warm, all, limit) /\ Way(X, start, all, limit)
      BY <1>2, <2>1, ResetWay
    <2>4. Way(P(i), all, start, limit) /\ Way(P(i), all, warm, limit)
      BY <1>1, <1>2, <1>3, <2>1, PrefillWay
    <2>5. Way(W, start, warm, limit)
      <3>1. q \in Int /\ q + 8 \in Int /\ q + 8 <= room /\ q + Bigger(8, 0) = q + 8
        <4> HIDE DEF q
        <4> QED BY <1>1, <1>2, <2>1, <2>2
      <3> DEFINE e == q + 8
      <3>2. \A r \in limit : q + Bigger(8, 0) <= r /\ q + Bigger(8, 0) <= e
        BY <1>3, <3>1
      <3>3. 8 \in Int /\ e \in Int
        BY <3>1
      <3> HIDE DEF e, q
      <3>4. Way(TimeLoop(1, 8), Reach(q), Reach(e), limit)
        BY <3>1, <3>2, <3>3, LoopWay
      <3> QED BY <3>4 DEF e
    <2>6. Way(T, start, all, limit)
      BY <1>1, <1>2, <1>3, <2>1, <2>2, LoopWay
    <2>7. Way(R(i) \o M, warm, start, limit)
      <3>1. CASE a.reps > 0
        <4>1. Way(X \o P(i), warm, start, limit) /\ Way(X \o P(i), start, start, limit)
          <5> HIDE DEF X, P, all, start, warm
          <5> QED BY <2>3, <2>4, WayJoins
        <4>2. Way(M, start, start, limit)
          BY <2>1, <1>1, MedianWay
        <4>3. a.reps \in Nat
          BY <1>1, <3>1
        <4> DEFINE x == X \o P(i)
        <4> HIDE DEF x, M, start, warm
        <4>4. Way(Repeat(a.reps, x), warm, start, limit)
          BY <3>1, <4>1, <4>3, WayRepeatsFrom DEF x
        <4>5. Way(R(i), warm, start, limit)
          BY <4>4 DEF x
        <4> HIDE DEF R
        <4> QED BY <4>2, <4>5, WayJoins
      <3>2. CASE ~(a.reps > 0)
        <4>1. Way(X \o P(i), warm, warm, limit)
          <5> HIDE DEF X, P, all, start, warm
          <5> QED BY <2>3, <2>4, WayJoins
        <4>2. Way(M, warm, start, limit)
          BY <2>1, <1>1, <3>2, MedianWay
        <4> HIDE DEF M, start, warm, X, P
        <4>3. Way(R(i), warm, warm, limit)
          BY <1>1, <4>1, WayRepeats
        <4> HIDE DEF R
        <4> QED BY <4>2, <4>3, WayJoins
      <3> QED BY <3>1, <3>2
    <2> DEFINE Y == R(i) \o M
    <2>8. R(i) \in Seq(CallRecords) /\ M \in Seq(CallRecords)
      <3>1. [call |-> "median", m |-> 1, n |-> a.reps] \in CallRecords
        BY <1>1 DEF CallRecords, CallNames
      <3>2. M \in Seq(CallRecords)
        BY <3>1 DEF Call
      <3>3. Way(X \o P(i), all, all, limit)
        <4>1. Way(P(i), all, all, limit)
          BY <1>1, <1>2, <1>3, <2>1, PrefillWay
        <4> HIDE DEF X, P, all
        <4> QED BY <2>3, <4>1, WayJoins
      <3> HIDE DEF X, P, all
      <3>4. Way(R(i), all, all, limit)
        BY <1>1, <3>3, WayRepeats
      <3> QED BY <3>2, <3>4 DEF Way
    <2> HIDE DEF X, P, W, R, M, T, all, start, warm
    <2>9. Way(X \o P(i) \o W, all, warm, limit)
      BY <2>3, <2>4, <2>5, WayJoins
    <2>10. Way((X \o P(i) \o W) \o (R(i) \o M) \o T, all, all, limit)
      BY <2>6, <2>7, <2>9, WayJoins
    <2>11. (X \o P(i) \o W) \o (R(i) \o M) = X \o P(i) \o W \o R(i) \o M
      <3> DEFINE z == X \o P(i) \o W
      <3>1. z \in Seq(CallRecords)
        BY <2>9 DEF Way
      <3> HIDE DEF z
      <3>2. z \o (R(i) \o M) = (z \o R(i)) \o M
        BY <2>8, <3>1, ConcatAssociative
      <3> QED BY <3>2 DEF z
    <2> QED BY <2>10, <2>11
  <1>5. ss = [i \in 1 .. n |-> ss[i]] /\ \A i \in 1 .. n : Way(ss[i], all, all, limit)
    BY <1>1, <1>4
  <1>6. Sweep(a) = FlattenSeq(ss)
    BY DEF Sweep
  <1> HIDE DEF ss, all
  <1>7. Way(FlattenSeq(ss), all, all, limit)
    BY <1>1, <1>3, <1>5, FlatStays
  <1>8. Fits(Sweep(a), limit)
    BY <1>2, <1>3, <1>6, <1>7 DEF Fits, all
  <1> QED BY <1>2, <1>8 DEF room, limit

-----------------------------------------------------------------------------
(* The phases of a launch *)

\* A phase starts with its cursors at the start, in buffers its calls go through in;
\* a planned length is only known to be positive.
PhaseFits(p, l) ==
    /\ 1 \in DOMAIN p.models /\ \A i \in DOMAIN p.models : p.models[i].pos = 0
    /\ \E limit \in SUBSET Int :
           /\ Fits(p.calls, limit)
           /\ limit = {} => AsksTooMuch(l)
           /\ IF IsPlanned(l) THEN limit = {1}
              ELSE \A room \in limit : \A i \in DOMAIN p.models : p.models[i].max = room

LEMMA OneModelFits ==
    ASSUME NEW l, ~IsPlanned(l), NEW m, NEW room \in Int, m.pos = 0, m.max = room,
           NEW calls, Fits(calls, {room})
    PROVE  PhaseFits([models |-> <<m>>, calls |-> calls], l)
  <1> DEFINE limit == {room}
             p == [models |-> <<m>>, calls |-> calls]
  <1>1. limit \in SUBSET Int /\ limit # {} /\ Fits(p.calls, limit) /\ \A r \in limit : r = room
    OBVIOUS
  <1>2. DOMAIN p.models = {1} /\ p.models[1] = m
    OBVIOUS
  <1> HIDE DEF limit, p
  <1>3. PhaseFits(p, l)
    BY <1>1, <1>2 DEF PhaseFits
  <1> QED BY <1>3 DEF p

LEMMA TwoModelsFit ==
    ASSUME NEW l, ~IsPlanned(l), NEW m, NEW d, NEW limit \in SUBSET Int, m.pos = 0, d.pos = 0,
           \A room \in limit : m.max = room /\ d.max = room, limit = {} => AsksTooMuch(l),
           NEW calls, Fits(calls, limit)
    PROVE  PhaseFits([models |-> <<m, d>>, calls |-> calls], l)
  <1> DEFINE p == [models |-> <<m, d>>, calls |-> calls]
  <1>1. Fits(p.calls, limit)
    OBVIOUS
  <1>2. DOMAIN p.models = {1, 2} /\ p.models[1] = m /\ p.models[2] = d
    OBVIOUS
  <1> HIDE DEF p
  <1>3. PhaseFits(p, l)
    BY <1>1, <1>2 DEF PhaseFits
  <1> QED BY <1>3 DEF p

LEMMA FreshCursor ==
    ASSUME NEW cfg, NEW disk, NEW kernels, NEW device, NEW proc, NEW max, NEW l
    PROVE  /\ Model(cfg, disk, kernels, device, proc, max, l).pos = 0
           /\ Model(cfg, disk, kernels, device, proc, max, l).max = max
  BY DEF Model

\* The room that specdec_bench's generations are sure of.
LEMMA SpecdecLimit ==
    ASSUME NEW l, l.program = "specdec_bench", SpecdecArguments(l.args)
    PROVE  \E limit \in SUBSET Int : /\ Covers(limit, l.args)
                                     /\ limit = {} => AsksTooMuch(l)
                                     /\ \A room \in limit : room = l.args.maxSeq
  <1> DEFINE a == l.args
  <1>1. CASE AsksTooMuch(l)
    <2>1. {} \in SUBSET Int /\ Covers({}, a)
      BY DEF Covers
    <2> QED BY <1>1, <2>1
  <1>2. CASE ~AsksTooMuch(l)
    <2> DEFINE limit == {a.maxSeq}
    <2>1. a.maxSeq \in Int /\ limit \in SUBSET Int /\ limit # {}
      BY DEF SpecdecArguments
    <2>2. ASSUME NEW p \in DOMAIN a.prompts, NEW g \in DOMAIN a.gammas
          PROVE  a.prompts[p] + a.n + a.gammas[g] <= a.maxSeq
      <3>1. a.prompts[p] \in ToSet(a.prompts) /\ a.gammas[g] \in ToSet(a.gammas)
        BY DEF ToSet
      <3>2. ~(a.prompts[p] + a.n + a.gammas[g] > a.maxSeq)
        BY <1>2, <3>1 DEF AsksTooMuch
      <3>3. a.prompts[p] \in Int /\ a.gammas[g] \in Int /\ a.n \in Int /\ a.maxSeq \in Int
        <4> DEFINE ps == a.prompts  gs == a.gammas
        <4>1. ps \in Seq(Nat) /\ gs \in Seq(Int) /\ a.n \in Int /\ a.maxSeq \in Int
          BY DEF SpecdecArguments
        <4>2. p \in DOMAIN ps /\ g \in DOMAIN gs
          OBVIOUS
        <4> HIDE DEF ps, gs
        <4>3. ps[p] \in Int /\ gs[g] \in Int
          BY <4>1, <4>2
        <4> QED BY <4>1, <4>3 DEF ps, gs
      <3> DEFINE x == a.prompts[p]  y == a.gammas[g]  n == a.n  m == a.maxSeq
      <3> HIDE DEF x, y, n, m
      <3>4. x + n + y <= m
        BY <3>2, <3>3 DEF x, y, n, m
      <3> QED BY <3>4 DEF x, y, n, m
    <2>3. Covers(limit, a)
      BY <2>2 DEF Covers
    <2> QED BY <2>1, <2>3
  <1> QED BY <1>1, <1>2

LEMMA PhasesFit ==
    ASSUME NEW l, Launchable(l)
    PROVE  \/ Phases(l) = <<>>
           \/ \E p : PhaseFits(p, l) /\ Phases(l) = <<p>>
           \/ \E p, q : PhaseFits(p, l) /\ PhaseFits(q, l) /\ Phases(l) = <<p, q>>
  <1> DEFINE T(max) == Target(l, 0, 0, max)
             D(max) == Draft(l, 0, 0, max)
             Only(max) == IF l.args.model = "target" THEN Target(l, l.device, 0, max)
                          ELSE Draft(l, l.device, 0, max)
             New(m, max) == m.pos = 0 /\ m.max = max
  <1>1. ASSUME NEW max
        PROVE  New(T(max), max) /\ New(D(max), max) /\ New(Only(max), max) /\ New(Draft(l, 1, 1, max), max)
    BY FreshCursor DEF Target, Draft
  <1>2. ASSUME NEW m, NEW room \in Int, New(m, room), NEW calls, Fits(calls, {room}), ~IsPlanned(l)
        PROVE  PhaseFits([models |-> <<m>>, calls |-> calls], l)
    BY <1>2, OneModelFits
  <1>3. CASE l.program \in {"phase4_graph_decode", "draft_graph_decode", "phase0_graph_probe", "phase0_graph_diag"}
    <2>1. /\ l.program = "phase4_graph_decode" =>
                 Phases(l) = <<[models |-> <<T(512)>>, calls |-> Phase4GraphDecode]>>
          /\ l.program = "draft_graph_decode" =>
                 Phases(l) = <<[models |-> <<D(512)>>, calls |-> DraftGraphDecode]>>
          /\ l.program = "phase0_graph_probe" =>
                 Phases(l) = <<[models |-> <<T(256)>>, calls |-> Phase0Probe]>>
          /\ l.program = "phase0_graph_diag" =>
                 Phases(l) = <<[models |-> <<T(256)>>, calls |-> Phase0Diag]>>
      BY DEF Phases
    <2>2. ~IsPlanned(l)
      BY <1>3 DEF IsPlanned
    <2>3. /\ Fits(Phase4GraphDecode, {512}) /\ Fits(DraftGraphDecode, {512})
          /\ Fits(Phase0Probe, {256}) /\ Fits(Phase0Diag, {256})
      BY GraphDecodeFits, ProbeFits, DiagFits DEF Phase4GraphDecode, DraftGraphDecode
    <2> HIDE DEF T, D, New
    <2> DEFINE Is(m, calls, room) == /\ room \in Int /\ New(m, room) /\ Fits(calls, {room})
                                     /\ Phases(l) = <<[models |-> <<m>>, calls |-> calls]>>
    <2>4. \E m, calls, room : Is(m, calls, room)
      <3>1. 512 \in Int /\ 256 \in Int
        OBVIOUS
      <3>2. /\ New(T(512), 512) /\ New(D(512), 512) /\ New(T(256), 256)
        BY <1>1
      <3>3. CASE l.program = "phase4_graph_decode"
        <4>1. Is(T(512), Phase4GraphDecode, 512)
          BY <2>1, <2>3, <3>1, <3>2, <3>3
        <4> HIDE DEF Is
        <4> QED BY <4>1
      <3>4. CASE l.program = "draft_graph_decode"
        <4>1. Is(D(512), DraftGraphDecode, 512)
          BY <2>1, <2>3, <3>1, <3>2, <3>4
        <4> HIDE DEF Is
        <4> QED BY <4>1
      <3>5. CASE l.program = "phase0_graph_probe"
        <4>1. Is(T(256), Phase0Probe, 256)
          BY <2>1, <2>3, <3>1, <3>2, <3>5
        <4> HIDE DEF Is
        <4> QED BY <4>1
      <3>6. CASE l.program = "phase0_graph_diag"
        <4>1. Is(T(256), Phase0Diag, 256)
          BY <2>1, <2>3, <3>1, <3>2, <3>6
        <4> HIDE DEF Is
        <4> QED BY <4>1
      <3> QED BY <1>3, <3>3, <3>4, <3>5, <3>6
    <2> QED BY <1>2, <2>2, <2>4
  <1>4. CASE l.program = "spec_decode_bench"
    <2>1. Phases(l) = <<[models |-> <<T(512), D(512)>>, calls |-> SpecDecodeBench]>>
      BY <1>4 DEF Phases
    <2>2. ~IsPlanned(l)
      BY <1>4 DEF IsPlanned
    <2> DEFINE limit == {512}
    <2>3. limit \in SUBSET Int /\ limit # {} /\ \A room \in limit : T(512).max = room /\ D(512).max = room
      BY <1>1
    <2>4. Fits(SpecDecodeBench, limit)
      BY SpecDecodeFits
    <2>5. T(512).pos = 0 /\ D(512).pos = 0
      BY <1>1
    <2> DEFINE m == T(512)  d == D(512)  calls == SpecDecodeBench
    <2>6. PhaseFits([models |-> <<m, d>>, calls |-> calls], l)
      <3>1. /\ m.pos = 0 /\ d.pos = 0 /\ Fits(calls, limit) /\ limit \in SUBSET Int /\ limit # {}
            /\ \A room \in limit : m.max = room /\ d.max = room
        BY <2>3, <2>4, <2>5
      <3> HIDE DEF limit, m, d, calls
      <3> QED BY <2>2, <3>1, TwoModelsFit
    <2> QED BY <2>1, <2>6
  <1>5. CASE l.program = "specdec_bench"
    <2> DEFINE a == l.args
               single == [models |-> <<T(a.maxSeq), D(a.maxSeq)>>, calls |-> RunSingle(a)]
               mpi == [models |-> <<T(a.maxSeq), Draft(l, 1, 1, a.maxSeq)>>, calls |-> RunMpi(a)]
    <2>1. Phases(l) = SpecdecBench(l)
      BY <1>5 DEF Phases
    <2>2. ~IsPlanned(l) /\ SpecdecArguments(a)
      BY <1>5 DEF IsPlanned, Launchable
    <2>3. PICK limit \in SUBSET Int : /\ Covers(limit, a)
                                      /\ limit = {} => AsksTooMuch(l)
                                      /\ \A room \in limit : room = a.maxSeq
      BY <1>5, <2>2, SpecdecLimit
    <2>4. SpecdecBench(l) =
            IF \E g \in ToSet(a.gammas) : g \notin 1 .. 8 THEN <<>>
            ELSE (IF "single" \in a.phases THEN <<single>> ELSE <<>>)
                     \o (IF "mpi" \in a.phases THEN <<mpi>> ELSE <<>>)
      BY DEF SpecdecBench
    <2>5. ASSUME \A g \in ToSet(a.gammas) : g \in 1 .. 8 PROVE PhaseFits(single, l) /\ PhaseFits(mpi, l)
      <3>1. \A g \in DOMAIN a.gammas : a.gammas[g] \in 1 .. 8
        BY <2>5 DEF ToSet
      <3>2. Fits(RunSingle(a), limit) /\ Fits(RunMpi(a), limit)
        BY <2>2, <2>3, <3>1, SpecdecFits
      <3> DEFINE m == T(a.maxSeq)  d == D(a.maxSeq)  x == Draft(l, 1, 1, a.maxSeq)
      <3>3. /\ m.pos = 0 /\ d.pos = 0 /\ x.pos = 0
            /\ \A room \in limit : m.max = room /\ d.max = room /\ x.max = room
        BY <1>1, <2>3
      <3> HIDE DEF m, d, x, a
      <3>4. /\ PhaseFits([models |-> <<m, d>>, calls |-> RunSingle(a)], l)
            /\ PhaseFits([models |-> <<m, x>>, calls |-> RunMpi(a)], l)
        BY <2>2, <2>3, <3>2, <3>3, TwoModelsFit
      <3> QED BY <3>4 DEF m, d, x, a
    <2> HIDE DEF single, mpi
    <2>6. /\ <<single>> \o <<mpi>> = <<single, mpi>> /\ <<single>> \o <<>> = <<single>>
          /\ <<>> \o <<mpi>> = <<mpi>> /\ <<>> \o <<>> = <<>>
      BY JoinedPhases
    <2>7. \/ Phases(l) = <<>>
          \/ /\ \A g \in ToSet(a.gammas) : g \in 1 .. 8
             /\ \/ Phases(l) = <<>> \/ Phases(l) = <<single>>
                \/ Phases(l) = <<mpi>> \/ Phases(l) = <<single, mpi>>
      BY <2>1, <2>4, <2>6
    <2> QED BY <2>5, <2>7
  <1>6. CASE l.program \in {"profile_forward", "sweep"}
    <2>1. ~IsPlanned(l)
      BY <1>6 DEF IsPlanned
    <2>2. \E room \in Int : \E calls : /\ Fits(calls, {room})
                                       /\ Phases(l) = <<[models |-> <<Only(room)>>, calls |-> calls]>>
      <3>1. CASE l.program = "profile_forward"
        <4>1. CaptureLength(l.args) \in Int /\ Fits(ProfileForward(l.args), {CaptureLength(l.args)})
          BY <3>1, CaptureFits DEF Launchable
        <4>2. Phases(l) = <<[models |-> <<Only(CaptureLength(l.args))>>, calls |-> ProfileForward(l.args)]>>
          BY <3>1 DEF Phases
        <4> HIDE DEF Only
        <4> QED BY <4>1, <4>2
      <3>2. CASE l.program = "sweep"
        <4>1. SweepLength(l.args) \in Int /\ Fits(Sweep(l.args), {SweepLength(l.args)})
          BY <3>2, SweepFits DEF Launchable
        <4>2. Phases(l) = <<[models |-> <<Only(SweepLength(l.args))>>, calls |-> Sweep(l.args)]>>
          BY <3>2 DEF Phases
        <4> HIDE DEF Only
        <4> QED BY <4>1, <4>2
      <3> QED BY <1>6, <3>1, <3>2
    <2> HIDE DEF Only, New
    <2> QED BY <1>1, <1>2, <2>1, <2>2
  <1>7. CASE l.program = "planned"
    <2> DEFINE m == Only(0)
               p == [models |-> <<m>>, calls |-> Prefill(1, 1)]
               limit == {1}
    <2>1. Phases(l) = <<p>> /\ IsPlanned(l)
      BY <1>7 DEF Phases, IsPlanned
    <2>2. m.pos = 0
      BY <1>1
    <2>3. limit \in SUBSET Int /\ limit # {} /\ Fits(Prefill(1, 1), limit)
      BY PlannedFits
    <2> HIDE DEF m
    <2>4. DOMAIN p.models = {1} /\ p.models[1] = m /\ p.calls = Prefill(1, 1)
      OBVIOUS
    <2>5. PhaseFits(p, l)
      <3> HIDE DEF p
      <3>1. /\ 1 \in DOMAIN p.models /\ \A i \in DOMAIN p.models : p.models[i].pos = 0
            /\ Fits(p.calls, limit) /\ limit \in SUBSET Int /\ limit # {} /\ IsPlanned(l)
        BY <2>1, <2>2, <2>3, <2>4
      <3>2. limit = {1}
        OBVIOUS
      <3> HIDE DEF limit
      <3> QED BY <3>1, <3>2 DEF PhaseFits
    <2> QED BY <2>1, <2>5
  <1>8. l.program \in Programs
    BY DEF Launchable
  <1> QED BY <1>3, <1>4, <1>5, <1>6, <1>7, <1>8 DEF Programs

LEMMA PhaseGoes ==
    ASSUME NEW l, Launchable(l), NEW k \in Nat, k > 0, k <= Len(Phases(l))
    PROVE  PhaseFits(Phases(l)[k], l)
  <1>1. CASE Phases(l) = <<>>
    BY <1>1
  <1>2. CASE \E p : PhaseFits(p, l) /\ Phases(l) = <<p>>
    <2>1. PICK p : PhaseFits(p, l) /\ Phases(l) = <<p>>
      BY <1>2
    <2>2. Len(Phases(l)) = 1 /\ k = 1
      BY <2>1
    <2> QED BY <2>1, <2>2
  <1>3. CASE \E p, q : PhaseFits(p, l) /\ PhaseFits(q, l) /\ Phases(l) = <<p, q>>
    <2>1. PICK p, q : PhaseFits(p, l) /\ PhaseFits(q, l) /\ Phases(l) = <<p, q>>
      BY <1>3
    <2>2. Len(Phases(l)) = 2 /\ (k = 1 \/ k = 2)
      BY <2>1
    <2> QED BY <2>1, <2>2
  <1> QED BY <1>1, <1>2, <1>3, PhasesFit

-----------------------------------------------------------------------------
(* The inductive invariant of the calls *)

\* A length that was planned is known once its buffers are there.
Sized(m) == ~IsPlanned(launch) \/ m.stage \in {"buffers", "ready"}

\* The calls left go through from here, in buffers that are long enough.
OnCourse(s, t, limit) ==
    /\ Way(todo, s, t, limit)
    /\ limit # {} => models[1].pos \in Int /\ models[1].pos <= s.top
    /\ s.from \subseteq {models[1].from} /\ s.kept \subseteq {kept}
    /\ limit = {} => AsksTooMuch(launch)
    /\ limit \in SUBSET Int /\ (IsPlanned(launch) => limit \subseteq {1})
    /\ \A room \in limit : \A i \in DOMAIN models :
           Sized(models[i]) => models[i].max \in Int /\ room <= models[i].max

CallsGo ==
    error = "" /\ todo # <<>> => 1 \in DOMAIN models /\ \E s, t, limit : OnCourse(s, t, limit)

CallsInv == CallsGo /\ FitsItsBuffers /\ ComparesAtSameState

\* The next call goes through, and from where it leads the others do.
Goal(s, r, t, limit) ==
    /\ 1 \in DOMAIN models /\ OnCourse(s, t, limit) /\ s \in Outlines /\ r \in Outlines
    /\ Goes(Head(todo), s, r, limit) /\ Way(Tail(todo), r, t, limit)

LEMMA CallAhead ==
    ASSUME CallsInv, error = "", todo # <<>>
    PROVE  Head(todo) \in CallRecords /\ \E s, r, t, limit : Goal(s, r, t, limit)
  <1>1. PICK s, t, limit : OnCourse(s, t, limit)
    BY DEF CallsInv, CallsGo
  <1>2. Way(todo, s, t, limit) /\ 1 \in DOMAIN models
    BY <1>1 DEF OnCourse, CallsInv, CallsGo
  <1>3. PICK r \in Outlines : Goes(Head(todo), s, r, limit) /\ Way(Tail(todo), r, t, limit)
    BY <1>2, WaySteps
  <1>4. Head(todo) \in CallRecords /\ s \in Outlines
    BY <1>2, WaySteps
  <1> QED BY <1>1, <1>2, <1>3, <1>4 DEF Goal

LEMMA IsCall ==
    ASSUME NEW c \in CallRecords
    PROVE  /\ c.m = 1 /\ c.n \in Int
           /\ c.call = "generate" => c.n \in Nat /\ c.prompt \in Nat /\ c.gamma \in Nat
  BY DEF CallRecords, CallNames

LEMMA SameModels ==
    ASSUME ProgramInv, MovesCursors
    PROVE  /\ launch' = launch /\ DOMAIN models' = DOMAIN models
           /\ \A i \in DOMAIN models :
                  models'[i].stage = models[i].stage /\ models'[i].max = models[i].max
  <1>1. ASSUME NEW i \in DOMAIN models
        PROVE  models'[i].stage = models[i].stage /\ models'[i].max = models[i].max
    <2>1. Alike(models'[i], models[i]) /\ ModelOf(models[i], launch)
      BY DEF MovesCursors, ProgramInv, ModelsKnown
    <2> QED BY <2>1, AlikeModel
  <1> QED BY <1>1 DEF MovesCursors

LEMMA NextCall ==
    ASSUME ProgramInv, NEW s, NEW r, NEW t, NEW limit, Goal(s, r, t, limit),
           todo' = Tail(todo), MovesCursors,
           error' = "" => /\ limit # {} => models'[1].pos \in Int /\ models'[1].pos <= r.top
                          /\ r.from \subseteq {models'[1].from} /\ r.kept \subseteq {kept'},
           error' = "overflow" => limit = {},
           ComparesAtSameState'
    PROVE  CallsInv'
  <1>1. /\ launch' = launch /\ DOMAIN models' = DOMAIN models
        /\ \A i \in DOMAIN models : models'[i].stage = models[i].stage /\ models'[i].max = models[i].max
    BY SameModels
  <1>2. FitsItsBuffers'
    BY <1>1 DEF FitsItsBuffers, Goal, OnCourse
  <1>3. ASSUME error' = "" PROVE OnCourse(r, t, limit)'
    <2>1. \A i \in DOMAIN models' : Sized(models[i])' => Sized(models[i])
      BY <1>1 DEF Sized
    <2>2. \A room \in limit : \A i \in DOMAIN models' :
              Sized(models[i])' => models'[i].max \in Int /\ room <= models'[i].max
      BY <1>1, <2>1 DEF Goal, OnCourse
    <2>3. Way(todo', r, t, limit)
      BY DEF Goal
    <2> QED BY <1>1, <1>3, <2>2, <2>3 DEF Goal, OnCourse
  <1>4. CallsGo'
    BY <1>1, <1>3 DEF CallsGo, Goal
  <1> QED BY <1>2, <1>4 DEF CallsInv

\* The models are up, so that their lengths are final.
AllUp == \A i \in DOMAIN models : models[i].stage = "ready"

LEMMA RoomFor ==
    ASSUME NEW s, NEW r, NEW t, NEW limit, Goal(s, r, t, limit), AllUp,
           NEW i \in DOMAIN models, NEW room \in limit
    PROVE  models[i].max \in Int /\ room \in Int /\ room <= models[i].max
  BY DEF Goal, OnCourse, AllUp, Sized

LEMMA AdvanceGoes ==
    ASSUME ProgramInv, CallsInv, NEW s, NEW r, NEW t, NEW limit, Goal(s, r, t, limit), AllUp,
           NEW x, Alike(x, models[1]), NEW n \in Int, NEW from, Advance(1, x, n, from),
           \A room \in limit : x.pos \in Int /\ x.pos + n <= r.top /\ x.pos + n <= room,
           r.from \subseteq {from}, r.kept \subseteq s.kept
    PROVE  CallsInv'
  <1>1. MovesCursors
    BY AdvanceMoves
  <1>2. /\ 1 \in DOMAIN models /\ ModelOf(models[1], launch)
    BY DEF Goal, ProgramInv, ModelsKnown
  <1>3. /\ todo' = Tail(todo) /\ kept' = kept /\ compared' = compared
        /\ error' = ForwardError(models[1], x, n)
        /\ error' = "" => models' = [models EXCEPT ![1] = [x EXCEPT !.pos = @ + n, !.from = from]]
    BY DEF Advance, Done
  <1>4. error' = "overflow" => limit = {}
    <2>1. SUFFICES ASSUME error' = "overflow", NEW room \in limit PROVE FALSE
      BY DEF Goal, OnCourse
    <2>2. x.pos + n > models[1].max
      BY <1>3, <2>1 DEF ForwardError
    <2>3. models[1].max \in Int /\ room \in Int /\ room <= models[1].max
      BY <1>2, RoomFor
    <2>4. x.pos + n \in Int /\ x.pos + n <= room
      OBVIOUS
    <2> DEFINE a == x.pos + n  b == models[1].max
    <2> HIDE DEF a, b
    <2>5. a \in Int /\ b \in Int /\ room \in Int /\ a <= room /\ room <= b /\ a > b
      BY <2>2, <2>3, <2>4 DEF a, b
    <2> QED BY <2>5
  <1>5. ASSUME error' = ""
        PROVE  /\ limit # {} => models'[1].pos \in Int /\ models'[1].pos <= r.top
               /\ r.from \subseteq {models'[1].from} /\ r.kept \subseteq {kept'}
    <2> DEFINE y == [x EXCEPT !.pos = @ + n, !.from = from]
    <2>1. DOMAIN x = Fields
      BY <1>2 DEF Alike, ModelOf
    <2>2. y.pos = x.pos + n /\ y.from = from
      BY <2>1 DEF Fields
    <2>3. models'[1] = y
      BY <1>2, <1>3, <1>5
    <2> HIDE DEF y
    <2>4. limit # {} => \E room \in limit : x.pos \in Int /\ x.pos + n <= r.top
      OBVIOUS
    <2>5. limit # {} => models'[1].pos \in Int /\ models'[1].pos <= r.top
      <3>1. SUFFICES ASSUME limit # {} PROVE models'[1].pos \in Int /\ models'[1].pos <= r.top
        OBVIOUS
      <3> DEFINE p == x.pos
      <3>2. p \in Int /\ p + n <= r.top /\ models'[1].pos = p + n
        BY <2>2, <2>3, <2>4, <3>1
      <3> HIDE DEF p
      <3> QED BY <3>2
    <2>6. r.from \subseteq {models'[1].from} /\ r.kept \subseteq {kept'}
      <3>1. s.kept \subseteq {kept}
        BY DEF Goal, OnCourse
      <3> QED BY <1>3, <2>2, <2>3, <3>1
    <2> QED BY <2>5, <2>6
  <1>6. ComparesAtSameState'
    BY <1>3 DEF ComparesAtSameState, CallsInv
  <1> QED BY <1>1, <1>3, <1>4, <1>5, <1>6, NextCall

LEMMA CallsGoOn ==
    ASSUME ProgramInv, CallsInv,
           \/ PrefillCall \/ DecodeCalls("argmax") \/ DecodeCalls("same")
           \/ VerifyGamma \/ ResetKvCache \/ FixedCall \/ Keep
           \/ Compare \/ Median
           \/ \E accepted \in 0 .. 8 : \E missing \in 1 .. accepted + 1 : GenerateCall(missing, accepted)
    PROVE  CallsInv'
  <1> DEFINE c == Head(todo)
             m == models[1]
  <1>1. error = "" /\ todo # <<>> /\ AllUp
    BY DEF PrefillCall, DecodeCalls, VerifyGamma, ResetKvCache, FixedCall, Keep, Compare, Median,
           GenerateCall, At, AllUp
  <1>2. c \in CallRecords /\ \E s, r, t, limit : Goal(s, r, t, limit)
    BY <1>1, CallAhead
  <1>3. PICK s, r, t, limit : Goal(s, r, t, limit)
    BY <1>2
  <1>4. /\ c.m = 1 /\ c.n \in Int
        /\ c.call = "generate" => c.n \in Nat /\ c.prompt \in Nat /\ c.gamma \in Nat
    BY <1>2, IsCall
  <1>5. 1 \in DOMAIN models /\ DOMAIN m = Fields
    BY <1>3 DEF Goal, ProgramInv, ModelsKnown, ModelOf
  <1>6. /\ limit \in SUBSET Int /\ \A room \in limit : m.pos \in Int /\ m.pos <= s.top
        /\ s.from \subseteq {m.from} /\ s.kept \subseteq {kept}
        /\ s.top \in Int /\ r.top \in Int
    BY <1>3 DEF Goal, OnCourse, Outlines
  <1>7. Goes(c, s, r, limit)
    BY <1>3 DEF Goal
  <1>8. \A pair \in compared : pair[1] = pair[2]
    BY DEF CallsInv, ComparesAtSameState
  <1>9. \A i \in DOMAIN models, room \in limit :
            models[i].max \in Int /\ room \in Int /\ room <= models[i].max
    BY <1>1, <1>3, RoomFor
  <1>10. MovesCursors
    BY CallsMove
  <1>11. todo' = Tail(todo)
    BY DEF PrefillCall, DecodeCalls, VerifyGamma, ResetKvCache, FixedCall, Keep, Compare, Median,
           GenerateCall, Advance, Done
  <1> HIDE DEF c, m
  <1>12. CASE PrefillCall
    <2> DEFINE x == [models[c.m] EXCEPT !.pos = 0, !.from = <<>>]
    <2>1. c.call = "prefill" /\ Advance(1, x, c.n, <<c.n>>)
      BY <1>4, <1>12 DEF PrefillCall, At, c
    <2>2. Alike(x, models[1]) /\ x.pos = 0
      BY <1>4, <1>5, AlikeMoved DEF Fields, m
    <2> HIDE DEF x
    <2>3. /\ \A room \in limit : c.n <= room /\ c.n <= r.top
          /\ r.from \subseteq {<<c.n>>} /\ r.kept \subseteq s.kept
      BY <1>7, <2>1 DEF Goes
    <2>4. \A room \in limit : x.pos \in Int /\ x.pos + c.n <= r.top /\ x.pos + c.n <= room
      BY <1>4, <2>2, <2>3
    <2> QED BY <1>1, <1>3, <1>4, <2>1, <2>2, <2>3, <2>4, AdvanceGoes
  <1>13. ASSUME NEW tokens \in {"argmax", "same"}, DecodeCalls(tokens) PROVE CallsInv'
    <2> DEFINE n == Bigger(c.n, 0)
               from == Append(m.from, <<tokens, c.n>>)
    <2>1. c.call = tokens /\ Advance(1, m, n, from)
      BY <1>4, <1>13 DEF DecodeCalls, At, c, m
    <2>2. n \in Int
      BY <1>4 DEF Bigger
    <2>3. /\ \A room \in limit : s.top + n <= room /\ s.top + n <= r.top
          /\ \A f \in r.from : \E g \in s.from : f = Append(g, <<c.call, c.n>>)
          /\ r.kept \subseteq s.kept
      BY <1>7, <2>1 DEF Goes
    <2>4. r.from \subseteq {from}
      BY <1>6, <2>1, <2>3
    <2> HIDE DEF n, from
    <2>5. \A room \in limit : m.pos \in Int /\ m.pos + n <= r.top /\ m.pos + n <= room
      <3>1. SUFFICES ASSUME NEW room \in limit
                     PROVE  m.pos \in Int /\ m.pos + n <= r.top /\ m.pos + n <= room
        OBVIOUS
      <3> DEFINE p == m.pos  a == s.top  b == r.top
      <3>2. p \in Int /\ a \in Int /\ b \in Int /\ room \in Int /\ n \in Int
            /\ p <= a /\ a + n <= room /\ a + n <= b
        BY <1>6, <2>2, <2>3, <3>1
      <3> HIDE DEF p, a, b
      <3>3. p \in Int /\ p + n <= b /\ p + n <= room
        BY <3>2
      <3> QED BY <3>3 DEF p, b
    <2>6. Alike(m, models[1])
      BY AlikeItself DEF m
    <2> QED BY <1>1, <1>3, <2>1, <2>2, <2>3, <2>4, <2>5, <2>6, AdvanceGoes
  <1>14. CASE VerifyGamma
    <2>1. c.call = "verify"
      BY <1>14 DEF VerifyGamma, At, c
    <2>2. CASE c.n \in 1 .. 8
      <3> DEFINE from == Append(m.from, <<"verify", c.n>>)
      <3>1. Advance(1, m, c.n, from)
        BY <1>4, <1>14, <2>2 DEF VerifyGamma, c, m
      <3>2. /\ \A room \in limit : s.top + c.n <= room /\ s.top + c.n <= r.top
            /\ r.from = {} /\ r.kept \subseteq s.kept
        BY <1>7, <2>1, <2>2 DEF Goes
      <3> HIDE DEF from
      <3>3. \A room \in limit : m.pos \in Int /\ m.pos + c.n <= r.top /\ m.pos + c.n <= room
        <4>1. SUFFICES ASSUME NEW room \in limit
                       PROVE  m.pos \in Int /\ m.pos + c.n <= r.top /\ m.pos + c.n <= room
          OBVIOUS
        <4> DEFINE p == m.pos  a == s.top  b == r.top  n == c.n
        <4>2. p \in Int /\ a \in Int /\ b \in Int /\ room \in Int /\ n \in Int
              /\ p <= a /\ a + n <= room /\ a + n <= b
          BY <1>4, <1>6, <3>2, <4>1
        <4> HIDE DEF p, a, b, n
        <4>3. p \in Int /\ p + n <= b /\ p + n <= room
          BY <4>2
        <4> QED BY <4>3 DEF p, b, n
      <3>4. Alike(m, models[1])
        BY AlikeItself DEF m
      <3>5. r.from \subseteq {from}
        BY <3>2
      <3> QED BY <1>1, <1>3, <1>4, <3>1, <3>2, <3>3, <3>4, <3>5, AdvanceGoes
    <2>3. CASE c.n \notin 1 .. 8
      <3>1. error' = "bad gamma" /\ compared' = compared
        BY <1>14, <2>3 DEF VerifyGamma, Done, c
      <3>2. ComparesAtSameState' /\ error' # "" /\ error' # "overflow"
        BY <1>8, <3>1 DEF ComparesAtSameState
      <3> QED BY <1>3, <1>10, <1>11, <3>2, NextCall
    <2> QED BY <2>2, <2>3
  <1>15. CASE ResetKvCache
    <2>1. /\ c.call = "reset" /\ error' = "" /\ kept' = kept /\ compared' = compared
          /\ models' = [models EXCEPT ![1].pos = 0, ![1].from = <<>>]
      BY <1>1, <1>4, <1>15 DEF ResetKvCache, At, Done, c
    <2>2. models'[1].pos = 0
      BY <1>5, <2>1 DEF Fields, m
    <2>3. (\A room \in limit : 0 <= r.top) /\ r.from = {} /\ r.kept \subseteq s.kept
      BY <1>7, <2>1 DEF Goes
    <2>4. ComparesAtSameState'
      BY <1>8, <2>1 DEF ComparesAtSameState
    <2>5. limit # {} => models'[1].pos \in Int /\ models'[1].pos <= r.top
      BY <2>2, <2>3
    <2>6. r.from \subseteq {models'[1].from} /\ r.kept \subseteq {kept'}
      BY <1>6, <2>1, <2>3
    <2> QED BY <1>3, <1>10, <1>11, <2>1, <2>4, <2>5, <2>6, NextCall
  <1>16. ASSUME models'[1] = m, kept' = kept, ComparesAtSameState', error' = "overflow" => limit = {},
                error' = "" => /\ \A room \in limit : s.top <= r.top
                               /\ r.from \subseteq s.from /\ r.kept \subseteq s.kept
         PROVE  CallsInv'
    <2>1. ASSUME error' = "", NEW room \in limit
          PROVE  models'[1].pos \in Int /\ models'[1].pos <= r.top
      <3> DEFINE p == m.pos  a == s.top  b == r.top
      <3>1. p \in Int /\ a \in Int /\ b \in Int /\ p <= a /\ a <= b
        BY <1>6, <1>16, <2>1
      <3> HIDE DEF p, a, b
      <3>2. p \in Int /\ p <= b
        BY <3>1
      <3> QED BY <1>16, <3>2 DEF p, b
    <2>2. ASSUME error' = "" PROVE r.from \subseteq {models'[1].from} /\ r.kept \subseteq {kept'}
      BY <1>6, <1>16, <2>2
    <2> QED BY <1>3, <1>10, <1>11, <1>16, <2>1, <2>2, NextCall
  <1>17. CASE FixedCall
    <2>1. /\ c.call = "fixed" /\ kept' = kept /\ compared' = compared /\ models' = models
          /\ error' = ForwardError(m, m, c.n)
      BY <1>4, <1>17 DEF FixedCall, At, Done, c, m
    <2>2. /\ \A room \in limit : s.top + c.n <= room /\ s.top <= r.top
          /\ r.from \subseteq s.from /\ r.kept \subseteq s.kept
      BY <1>7, <2>1 DEF Goes
    <2>3. error' = "overflow" => limit = {}
      <3>1. SUFFICES ASSUME error' = "overflow", NEW room \in limit PROVE FALSE
        BY <1>6
      <3>2. m.pos + c.n > m.max
        BY <2>1, <3>1 DEF ForwardError
      <3> DEFINE p == m.pos  a == s.top  n == c.n  e == m.max
      <3>3. /\ p \in Int /\ a \in Int /\ n \in Int /\ e \in Int /\ room \in Int
            /\ p <= a /\ a + n <= room /\ room <= e /\ p + n > e
        BY <1>4, <1>5, <1>6, <1>9, <2>2, <3>1, <3>2 DEF m
      <3> HIDE DEF p, a, n, e
      <3> QED BY <3>3
    <2>4. ComparesAtSameState' /\ models'[1] = m
      BY <1>8, <2>1 DEF ComparesAtSameState, m
    <2> QED BY <1>16, <2>1, <2>2, <2>3, <2>4
  <1>18. CASE Keep
    <2>1. /\ c.call = "keep" /\ kept' = m.from /\ compared' = compared /\ models' = models /\ error' = ""
      BY <1>1, <1>4, <1>18 DEF Keep, At, Done, c, m
    <2>2. (\A room \in limit : s.top <= r.top) /\ r.from \subseteq s.from /\ r.kept \subseteq s.from
      BY <1>7, <2>1 DEF Goes
    <2>3. ComparesAtSameState' /\ models'[1] = m
      BY <1>8, <2>1 DEF ComparesAtSameState, m
    <2>4. ASSUME NEW room \in limit PROVE models'[1].pos \in Int /\ models'[1].pos <= r.top
      <3> DEFINE p == m.pos  a == s.top  b == r.top
      <3>1. p \in Int /\ a \in Int /\ b \in Int /\ p <= a /\ a <= b
        BY <1>6, <2>2, <2>4
      <3> HIDE DEF p, a, b
      <3>2. p \in Int /\ p <= b
        BY <3>1
      <3> QED BY <2>3, <3>2 DEF p, b
    <2>5. r.from \subseteq {models'[1].from} /\ r.kept \subseteq {kept'}
      BY <1>6, <2>1, <2>2, <2>3
    <2> QED BY <1>3, <1>10, <1>11, <2>1, <2>3, <2>4, <2>5, NextCall
  <1>19. CASE Compare
    <2>1. /\ c.call = "check" /\ kept' = kept /\ models' = models /\ error' = ""
          /\ compared' = compared \cup {<<kept, m.from>>}
      BY <1>1, <1>4, <1>19 DEF Compare, At, Done, c, m
    <2>2. /\ \A room \in limit : s.top <= r.top
          /\ r.from \subseteq s.from /\ r.kept \subseteq s.kept /\ s.from = s.kept /\ s.from # {}
      BY <1>7, <2>1 DEF Goes
    <2>3. kept = m.from
      BY <1>6, <2>2
    <2>4. ComparesAtSameState' /\ models'[1] = m
      <3>1. ASSUME NEW pair \in compared' PROVE pair[1] = pair[2]
        <4>1. pair \in compared \/ pair = <<kept, m.from>>
          BY <2>1, <3>1
        <4> QED BY <1>8, <2>3, <4>1
      <3> QED BY <2>1, <3>1 DEF ComparesAtSameState, m
    <2> QED BY <1>16, <2>1, <2>2, <2>4
  <1>20. CASE Median
    <2>1. /\ c.call = "median" /\ kept' = kept /\ compared' = compared /\ models' = models
          /\ error' = IF c.n > 0 THEN "" ELSE "no samples"
      BY <1>20 DEF Median, At, Done, c
    <2>2. /\ c.n > 0 => \A room \in limit : s.top <= r.top
          /\ r.from \subseteq s.from /\ r.kept \subseteq s.kept
      BY <1>7, <2>1 DEF Goes
    <2>3. ComparesAtSameState' /\ models'[1] = m
      <3>1. compared' = compared /\ models' = models
        BY <2>1
      <3> QED BY <1>8, <3>1 DEF ComparesAtSameState, m
    <2>4. error' # "overflow" /\ (error' = "" => c.n > 0)
      BY <2>1
    <2> QED BY <1>16, <2>1, <2>2, <2>3, <2>4
  <1>21. ASSUME NEW accepted \in 0 .. 8, NEW missing \in 1 .. accepted + 1, GenerateCall(missing, accepted)
         PROVE  CallsInv'
    <2> DEFINE start == c.prompt + c.n - missing
               reached == IF c.n = 0 THEN c.prompt ELSE start + accepted + 1
               needed == IF c.n = 0 THEN c.prompt ELSE Bigger(start + c.gamma, reached)
               most == c.prompt + c.n + c.gamma
    <2>1. /\ c.call = "generate" /\ kept' = kept /\ compared' = compared
          /\ c.n # 0 => accepted <= c.gamma
          /\ error' = "overflow" => \E i \in DOMAIN models : needed > models[i].max
          /\ error' = "" =>
                 models' = [i \in DOMAIN models |-> [models[i] EXCEPT !.pos = reached, !.from = <<>>]]
      <3>1. /\ c.call = "generate" /\ kept' = kept /\ compared' = compared
            /\ c.n # 0 => accepted \in missing - 1 .. c.gamma
            /\ error' = IF models[1].batch # 1 THEN "refused"
                        ELSE IF \E i \in DOMAIN models : needed > models[i].max THEN "overflow" ELSE ""
            /\ models' = IF error' # "" THEN models
                         ELSE [i \in DOMAIN models |-> [models[i] EXCEPT !.pos = reached, !.from = <<>>]]
        BY <1>21 DEF GenerateCall, At, Done, c
      <3>0. c.gamma \in Int /\ missing - 1 \in Int
        <4>1. c.call = "generate"
          BY <1>21 DEF GenerateCall, At, c
        <4>2. missing \in Int
          OBVIOUS
        <4> QED BY <1>4, <4>1, <4>2
      <3> HIDE DEF start, reached, needed, most
      <3>2. c.n # 0 => accepted <= c.gamma
        <4>1. c.n # 0 => accepted \in missing - 1 .. c.gamma
          BY <3>1
        <4> DEFINE g == c.gamma  n == c.n
        <4> HIDE DEF g, n
        <4>3. n # 0 => accepted <= g
          BY <3>0, <4>1 DEF g, n
        <4> QED BY <4>3 DEF g, n
      <3>3. error' = "overflow" => \E i \in DOMAIN models : needed > models[i].max
        BY <3>1
      <3> QED BY <3>1, <3>2, <3>3
    <2>2. /\ \A room \in limit : most <= room /\ most <= r.top
          /\ r.from = {} /\ r.kept \subseteq s.kept
      BY <1>7, <2>1 DEF Goes
    <2>3. /\ reached \in Int /\ needed \in Int /\ most \in Int /\ reached <= most /\ needed <= most
      <3> DEFINE p == c.prompt  n == c.n  g == c.gamma
      <3>1. p \in Nat /\ n \in Nat /\ g \in Nat
        BY <1>4, <2>1
      <3>2. missing \in Nat /\ missing >= 1 /\ accepted \in Nat
        OBVIOUS
      <3>3. n # 0 => accepted <= g
        BY <2>1
      <3> HIDE DEF p, n, g
      <3>4. /\ p + n - missing + accepted + 1 \in Int /\ p + n - missing + g \in Int
            /\ p + n + g \in Int /\ p <= p + n + g /\ p + n - missing + g <= p + n + g
            /\ n # 0 => p + n - missing + accepted + 1 <= p + n + g
        BY <3>1, <3>2, <3>3
      <3> QED BY <3>1, <3>4 DEF Bigger, p, n, g
    <2> HIDE DEF start, reached, needed, most
    <2>4. error' = "overflow" => limit = {}
      <3>1. SUFFICES ASSUME error' = "overflow", NEW room \in limit PROVE FALSE
        BY <1>6
      <3>2. PICK i \in DOMAIN models : needed > models[i].max
        BY <2>1, <3>1
      <3> DEFINE e == models[i].max
      <3>3. e \in Int /\ room \in Int /\ room <= e /\ needed > e /\ most <= room
        BY <1>9, <2>2, <3>1, <3>2
      <3> HIDE DEF e
      <3> QED BY <2>3, <3>3
    <2>5. ASSUME error' = ""
          PROVE  /\ limit # {} => models'[1].pos \in Int /\ models'[1].pos <= r.top
                 /\ r.from \subseteq {models'[1].from} /\ r.kept \subseteq {kept'}
      <3>1. models'[1].pos = reached
        <4>1. models'[1] = [m EXCEPT !.pos = reached, !.from = <<>>]
          BY <1>5, <2>1, <2>5 DEF m
        <4> QED BY <1>5, <4>1 DEF Fields
      <3>2. ASSUME NEW room \in limit PROVE reached <= r.top
        <4> DEFINE b == r.top
        <4>1. b \in Int /\ most <= b
          BY <1>6, <2>2, <3>2
        <4> HIDE DEF b
        <4>2. reached <= b
          BY <2>3, <4>1
        <4> QED BY <4>2 DEF b
      <3> QED BY <1>6, <2>1, <2>2, <2>3, <3>1, <3>2
    <2>6. ComparesAtSameState'
      BY <1>8, <2>1 DEF ComparesAtSameState
    <2> QED BY <1>3, <1>10, <1>11, <2>4, <2>5, <2>6, NextCall
  <1> QED BY <1>12, <1>13, <1>14, <1>15, <1>17, <1>18, <1>19, <1>20, <1>21

\* A model that comes up further keeps its cursor, and its length once that is final.
LEMMA BringUpGoes ==
    ASSUME CallsInv, error = "", NEW i \in DOMAIN models,
           launch' = launch, todo' = todo, kept' = kept, compared' = compared,
           \/ models' = models /\ error' # "" /\ error' # "overflow"
           \/ /\ error' = "" /\ DOMAIN models' = DOMAIN models
              /\ \A j \in DOMAIN models : j # i => models'[j] = models[j]
              /\ models'[i].pos = models[i].pos /\ models'[i].from = models[i].from
              /\ Sized(models[i])' => \/ models'[i].max = models[i].max /\ Sized(models[i])
                                      \/ IsPlanned(launch) /\ models'[i].max \in Int /\ 1 <= models'[i].max
    PROVE  CallsInv'
  <1>1. FitsItsBuffers' /\ ComparesAtSameState'
    BY DEF CallsInv, FitsItsBuffers, ComparesAtSameState
  <1>2. CallsGo'
    <2>1. SUFFICES ASSUME error' = "", todo # <<>>
                   PROVE  1 \in DOMAIN models' /\ \E s, t, limit : OnCourse(s, t, limit)'
      BY DEF CallsGo
    <2>2. PICK s, t, limit : OnCourse(s, t, limit)
      BY <2>1 DEF CallsInv, CallsGo
    <2>3. 1 \in DOMAIN models
      BY <2>1 DEF CallsInv, CallsGo
    <2>4. /\ DOMAIN models' = DOMAIN models
          /\ \A j \in DOMAIN models : j # i => models'[j] = models[j]
          /\ models'[i].pos = models[i].pos /\ models'[i].from = models[i].from
          /\ Sized(models[i])' => \/ models'[i].max = models[i].max /\ Sized(models[i])
                                  \/ IsPlanned(launch) /\ models'[i].max \in Int /\ 1 <= models'[i].max
      BY <2>1
    <2>5. models'[1].pos = models[1].pos /\ models'[1].from = models[1].from
      BY <2>3, <2>4
    <2>6. ASSUME NEW room \in limit, NEW j \in DOMAIN models, Sized(models[j])'
          PROVE  models'[j].max \in Int /\ room <= models'[j].max
      <3>1. Sized(models[j]) => models[j].max \in Int /\ room <= models[j].max
        BY <2>2 DEF OnCourse
      <3>2. CASE j # i
        <4>1. models'[j] = models[j]
          BY <2>4, <3>2
        <4>2. Sized(models[j])
          BY <2>6, <4>1 DEF Sized
        <4> QED BY <3>1, <4>1, <4>2
      <3>3. CASE j = i /\ models'[i].max = models[i].max /\ Sized(models[i])
        BY <3>1, <3>3
      <3>4. CASE j = i /\ IsPlanned(launch) /\ models'[i].max \in Int /\ 1 <= models'[i].max
        <4>1. room = 1
          BY <2>2, <3>4 DEF OnCourse
        <4> QED BY <3>4, <4>1
      <3> QED BY <2>4, <2>6, <3>2, <3>3, <3>4
    <2>7. OnCourse(s, t, limit)'
      BY <2>2, <2>4, <2>5, <2>6 DEF OnCourse
    <2> QED BY <2>3, <2>4, <2>7
  <1> QED BY <1>1, <1>2 DEF CallsInv

LEMMA LoadGoes ==
    ASSUME ProgramInv, CallsInv, NEW i \in DOMAIN models, LoadWeightsOnGpu(i)
    PROVE  CallsInv'
  <1> DEFINE m == models[i]  why == LoadError(m.cfg, m.disk)  w == LoadWeights(m.cfg, m.disk)
             x == [m EXCEPT !.stage = "weights", !.weights = w]
             bytes == LoadedBytes(w)
  <1>1. /\ launch' = launch /\ todo' = todo /\ kept' = kept /\ compared' = compared
        /\ error = "" /\ m.stage = "disk" /\ DOMAIN m = Fields /\ m.planned = IsPlanned(launch)
    BY DEF LoadWeightsOnGpu, Turn, ProgramInv, ModelsKnown, ModelOf
  <1>2. CASE why # ""
    <2>1. Fail(why)
      BY <1>2 DEF LoadWeightsOnGpu
    <2>2. why # "overflow"
      BY DEF LoadError
    <2> HIDE DEF why
    <2> QED BY <1>1, <1>2, <2>1, <2>2, BringUpGoes DEF Fail
  <1>3. CASE why = ""
    <2>1. Allocate(i, bytes, x)
      BY <1>3 DEF LoadWeightsOnGpu
    <2>2. x.pos = m.pos /\ x.from = m.from /\ x.max = m.max /\ x.stage = "weights"
      <3> HIDE DEF w
      <3> QED BY <1>1 DEF Fields
    <2> HIDE DEF bytes, x, w, why
    <2>3. \/ models' = models /\ error' = "out of memory"
          \/ models' = [models EXCEPT ![i] = x] /\ error' = ""
      BY <1>1, <2>1 DEF Allocate, Fail
    <2>4. models' = [models EXCEPT ![i] = x] =>
              /\ DOMAIN models' = DOMAIN models /\ models'[i] = x
              /\ \A j \in DOMAIN models : j # i => models'[j] = models[j]
      OBVIOUS
    <2>5. models'[i] = x /\ Sized(models[i])' => Sized(models[i])
      BY <1>1, <2>2 DEF Sized
    <2> QED BY <1>1, <2>2, <2>3, <2>4, <2>5, BringUpGoes
  <1> QED BY <1>2, <1>3

LEMMA BudgetGoes ==
    ASSUME ProgramInv, CallsInv, NEW i \in DOMAIN models, TakeBudget(i)
    PROVE  CallsInv'
  <1> DEFINE m == models[i]
             max == IF m.planned THEN VramBudget(m).max_seq_len ELSE m.max
             x == [[m EXCEPT !.stage = "budget"] EXCEPT !.max = max]
  <1>0. CASE m.batch <= 0
    <2>1. /\ launch' = launch /\ todo' = todo /\ kept' = kept /\ compared' = compared
          /\ error = "" /\ Fail("not positive")
      BY <1>0 DEF TakeBudget, Turn
    <2> QED BY <2>1, BringUpGoes DEF Fail
  <1> SUFFICES ASSUME ~(m.batch <= 0) PROVE CallsInv'
    BY <1>0
  <1>1. /\ launch' = launch /\ todo' = todo /\ kept' = kept /\ compared' = compared
        /\ error = "" /\ error' = "" /\ m.stage = "weights"
        /\ models' = [models EXCEPT ![i].stage = "budget", ![i].max = max]
    BY DEF TakeBudget, Turn
  <1>2. DOMAIN m = Fields /\ m.planned = IsPlanned(launch)
    BY DEF ProgramInv, ModelsKnown, ModelOf
  <1>3. x.stage = "budget" /\ x.max = max /\ x.pos = m.pos /\ x.from = m.from
    <2> HIDE DEF max
    <2> QED BY <1>2 DEF Fields
  <1>4. /\ DOMAIN models' = DOMAIN models /\ models'[i] = x
        /\ \A j \in DOMAIN models : j # i => models'[j] = models[j]
    <2> HIDE DEF max
    <2> QED BY <1>1
  <1>5. ~IsPlanned(launch) => max = m.max
    BY <1>2
  <1> HIDE DEF x, max
  <1>6. Sized(models[i])' => models'[i].max = m.max /\ Sized(m)
    BY <1>1, <1>3, <1>4, <1>5 DEF Sized
  <1> QED BY <1>1, <1>3, <1>4, <1>6, BringUpGoes

LEMMA BuffersGo ==
    ASSUME ProgramInv, CallsInv, NEW i \in DOMAIN models, AllocateBuffers(i)
    PROVE  CallsInv'
  <1> DEFINE m == models[i]  why == AllocateError(m)
             x == [m EXCEPT !.stage = "buffers"]
             bytes == BufferBytes(m)
  <1>1. /\ launch' = launch /\ todo' = todo /\ kept' = kept /\ compared' = compared
        /\ error = "" /\ m.stage = "budget" /\ DOMAIN m = Fields
    BY DEF AllocateBuffers, Turn, ProgramInv, ModelsKnown, ModelOf
  <1>2. CASE why # ""
    <2>1. Fail(why)
      BY <1>2 DEF AllocateBuffers
    <2>2. why # "overflow"
      BY DEF AllocateError
    <2> HIDE DEF why
    <2> QED BY <1>1, <1>2, <2>1, <2>2, BringUpGoes DEF Fail
  <1>3. CASE why = ""
    <2>1. Allocate(i, bytes, x)
      BY <1>3 DEF AllocateBuffers
    <2>2. x.pos = m.pos /\ x.from = m.from /\ x.max = m.max /\ x.stage = "buffers"
      BY <1>1 DEF Fields
    <2>3. IsPlanned(launch) => m.max \in Int /\ 1 <= m.max
      BY <1>1, <1>3, PlannedRoom
    <2> HIDE DEF bytes, x, why
    <2>4. \/ models' = models /\ error' = "out of memory"
          \/ models' = [models EXCEPT ![i] = x] /\ error' = ""
      BY <1>1, <2>1 DEF Allocate, Fail
    <2>5. models' = [models EXCEPT ![i] = x] =>
              /\ DOMAIN models' = DOMAIN models /\ models'[i] = x
              /\ \A j \in DOMAIN models : j # i => models'[j] = models[j]
      OBVIOUS
    <2>6. ~IsPlanned(launch) => Sized(m)
      BY DEF Sized
    <2> QED BY <1>1, <2>2, <2>3, <2>4, <2>5, <2>6, BringUpGoes
  <1> QED BY <1>2, <1>3

LEMMA ExecutorGoes ==
    ASSUME ProgramInv, CallsInv, NEW i \in DOMAIN models, NewExecutor(i)
    PROVE  CallsInv'
  <1> DEFINE m == models[i]  x == [m EXCEPT !.stage = "ready"]  bytes == StackedBytes(m.cfg)
  <1>1. /\ launch' = launch /\ todo' = todo /\ kept' = kept /\ compared' = compared
        /\ error = "" /\ m.stage = "buffers" /\ DOMAIN m = Fields
    BY DEF NewExecutor, Turn, ProgramInv, ModelsKnown, ModelOf
  <1>2. Fail("wrong kernels") \/ Allocate(i, bytes, x)
    BY DEF NewExecutor
  <1>3. x.pos = m.pos /\ x.from = m.from /\ x.max = m.max
    BY <1>1 DEF Fields
  <1> HIDE DEF bytes, x
  <1>4. \/ models' = models /\ error' \in {"out of memory", "wrong kernels"}
        \/ models' = [models EXCEPT ![i] = x] /\ error' = ""
    BY <1>1, <1>2 DEF Allocate, Fail
  <1>5. models' = [models EXCEPT ![i] = x] =>
            /\ DOMAIN models' = DOMAIN models /\ models'[i] = x
            /\ \A j \in DOMAIN models : j # i => models'[j] = models[j]
    OBVIOUS
  <1>6. Sized(m)
    BY <1>1 DEF Sized
  <1> QED BY <1>1, <1>3, <1>4, <1>5, <1>6, BringUpGoes

\* Where phase p of launch l starts, its calls go through.
Begins(p, l, s, t, limit) ==
    /\ Way(p.calls, s, t, limit) /\ s.from = {} /\ s.kept = {}
    /\ p.models[1].pos \in Int /\ p.models[1].pos <= s.top
    /\ limit = {} => AsksTooMuch(l)
    /\ limit \in SUBSET Int /\ (IsPlanned(l) => limit \subseteq {1})
    /\ ~IsPlanned(l) => \A room \in limit : \A i \in DOMAIN p.models : p.models[i].max = room

LEMMA PhaseBegins ==
    ASSUME NEW l, NEW p, PhaseFits(p, l)
    PROVE  1 \in DOMAIN p.models /\ \E s, t, limit : Begins(p, l, s, t, limit)
  <1>1. PICK limit \in SUBSET Int :
            /\ Fits(p.calls, limit)
            /\ limit = {} => AsksTooMuch(l)
            /\ IF IsPlanned(l) THEN limit = {1}
               ELSE \A room \in limit : \A i \in DOMAIN p.models : p.models[i].max = room
    BY DEF PhaseFits
  <1>2. PICK a \in Nat, t \in Outlines : Way(p.calls, Reach(a), t, limit)
    BY <1>1 DEF Fits
  <1>3. 1 \in DOMAIN p.models /\ p.models[1].pos = 0
    BY DEF PhaseFits
  <1> DEFINE s == Reach(a)
  <1>4. s.top = a /\ s.from = {} /\ s.kept = {}
    BY ReachIs
  <1>5. Way(p.calls, s, t, limit)
    BY <1>2
  <1> HIDE DEF s
  <1>6. p.models[1].pos \in Int /\ p.models[1].pos <= s.top
    BY <1>3, <1>4
  <1>7. IsPlanned(l) => limit \subseteq {1}
    BY <1>1
  <1>8. Begins(p, l, s, t, limit)
    BY <1>1, <1>4, <1>5, <1>6, <1>7 DEF Begins
  <1> QED BY <1>3, <1>8

LEMMA CallsStart == ASSUME Init PROVE CallsInv
  <1>0. Launchable(launch)
    BY BenchAssumption DEF Init
  <1>1. error = "" /\ compared = {}
    BY DEF Init
  <1>2. FitsItsBuffers /\ ComparesAtSameState
    BY <1>1 DEF FitsItsBuffers, ComparesAtSameState
  <1>3. CallsGo
    <2>1. CASE Phases(launch) = <<>>
      <3>1. todo = <<>>
        BY <2>1 DEF Init
      <3> QED BY <3>1 DEF CallsGo
    <2>2. CASE Phases(launch) # <<>>
      <3> DEFINE p == Phases(launch)[1]
      <3>1. models = p.models /\ todo = p.calls
        BY <2>2 DEF Init
      <3>2. 1 <= Len(Phases(launch))
        <4>1. \A x, y : Len(<<x>>) = 1 /\ Len(<<x, y>>) = 2
          OBVIOUS
        <4> QED BY <1>0, <2>2, <4>1, PhasesFit
      <3>3. PhaseFits(p, launch)
        BY <1>0, <3>2, PhaseGoes
      <3>4. PhaseOf(p, launch)
        BY <1>0, <3>2, PhaseStarts DEF Launchable
      <3>5. \A i \in DOMAIN p.models : p.models[i].stage = "disk"
        BY <3>4 DEF PhaseOf
      <3> HIDE DEF p
      <3>6. 1 \in DOMAIN p.models /\ \E s, t, limit : Begins(p, launch, s, t, limit)
        BY <3>3, PhaseBegins
      <3>7. PICK s, t, limit : Begins(p, launch, s, t, limit)
        BY <3>6
      <3>8. ASSUME NEW room \in limit, NEW i \in DOMAIN models, Sized(models[i])
            PROVE  models[i].max \in Int /\ room <= models[i].max
        <4>1. ~IsPlanned(launch)
          BY <3>1, <3>5, <3>8 DEF Sized
        <4>2. models[i].max = room /\ room \in Int
          BY <3>1, <3>7, <4>1 DEF Begins
        <4> QED BY <4>2
      <3>9. OnCourse(s, t, limit)
        BY <3>1, <3>7, <3>8 DEF OnCourse, Begins
      <3> QED BY <3>1, <3>6, <3>9 DEF CallsGo
    <2> QED BY <2>1, <2>2
  <1> QED BY <1>2, <1>3 DEF CallsInv

LEMMA EndGoes ==
    ASSUME ProgramInv, CallsInv, EndPhase PROVE CallsInv'
  <1> DEFINE phases == Phases(launch)
             p == phases[phase + 1]
  <1>1. /\ launch' = launch /\ error' = "" /\ compared' = compared
        /\ models' = IF phase < Len(phases) THEN p.models ELSE <<>>
        /\ todo' = IF phase < Len(phases) THEN p.calls ELSE <<>>
    BY DEF EndPhase
  <1>2. /\ launch \in Launches /\ Launchable(launch) /\ launch.program \in Programs
        /\ phase \in Nat /\ phase > 0
    BY BenchAssumption DEF ProgramInv, Started, Launchable
  <1>3. FitsItsBuffers' /\ ComparesAtSameState'
    BY <1>1 DEF FitsItsBuffers, ComparesAtSameState, CallsInv
  <1>4. CallsGo'
    <2>1. CASE phase < Len(phases)
      <3>1. Len(phases) \in Nat
        <4>1. \A x, y : Len(<<x>>) = 1 /\ Len(<<x, y>>) = 2 /\ Len(<<>>) = 0
          OBVIOUS
        <4> QED BY <1>2, <4>1, PhasesFit
      <3>2. phase + 1 \in Nat /\ phase + 1 > 0 /\ phase + 1 <= Len(phases)
        BY <1>2, <2>1, <3>1
      <3>3. PhaseFits(p, launch) /\ PhaseOf(p, launch)
        BY <1>2, <3>2, PhaseGoes, PhaseStarts
      <3>4. models' = p.models /\ todo' = p.calls
        BY <1>1, <2>1
      <3>5. \A i \in DOMAIN p.models : p.models[i].stage = "disk"
        BY <3>3 DEF PhaseOf
      <3> HIDE DEF p
      <3>6. 1 \in DOMAIN p.models /\ \E s, t, limit : Begins(p, launch, s, t, limit)
        BY <3>3, PhaseBegins
      <3>7. PICK s, t, limit : Begins(p, launch, s, t, limit)
        BY <3>6
      <3>8. ASSUME NEW room \in limit, NEW i \in DOMAIN models', Sized(models[i])'
            PROVE  models'[i].max \in Int /\ room <= models'[i].max
        <4>1. ~IsPlanned(launch)
          BY <1>1, <3>4, <3>5, <3>8 DEF Sized
        <4>2. models'[i].max = room /\ room \in Int
          BY <3>4, <3>7, <3>8, <4>1 DEF Begins
        <4> QED BY <4>2
      <3>9. OnCourse(s, t, limit)'
        BY <1>1, <3>4, <3>7, <3>8 DEF OnCourse, Begins
      <3> QED BY <3>4, <3>6, <3>9 DEF CallsGo
    <2>2. CASE ~(phase < Len(phases))
      <3>1. todo' = <<>>
        BY <1>1, <2>2
      <3> QED BY <3>1 DEF CallsGo
    <2> QED BY <2>1, <2>2
  <1> QED BY <1>3, <1>4 DEF CallsInv

(***************************************************************************)
(* Wherever a program stands, its calls left go through in its buffers,    *)
(* unless it is asked for more than they are sure to hold, and its logits  *)
(* and the ones kept follow the calls its comparisons take them to follow. *)
(***************************************************************************)
THEOREM CallsInvariance == Spec => []CallsInv
  <1>1. Init => CallsInv
    BY CallsStart
  <1>2. CallsInv /\ ProgramInv /\ [Next]_vars => CallsInv'
    <2>1. SUFFICES ASSUME CallsInv, ProgramInv, [Next]_vars PROVE CallsInv'
      OBVIOUS
    <2>2. CASE UNCHANGED vars
      BY <2>1, <2>2 DEF vars, CallsInv, CallsGo, OnCourse, Sized, FitsItsBuffers, ComparesAtSameState
    <2>3. ASSUME NEW i \in DOMAIN models,
                 \/ LoadWeightsOnGpu(i) \/ TakeBudget(i)
                 \/ AllocateBuffers(i) \/ NewExecutor(i)
          PROVE  CallsInv'
      BY <2>1, <2>3, LoadGoes, BudgetGoes, BuffersGo, ExecutorGoes
    <2>4. CASE EndPhase
      BY <2>1, <2>4, EndGoes
    <2> QED BY <2>1, <2>2, <2>3, <2>4, CallsGoOn DEF Next
  <1> QED BY <1>1, <1>2, ProgramInvariance, PTL DEF Spec

(***************************************************************************)
(* The benchmarks, profile_forward and its sweep: for every prompt, number *)
(* of steps, gamma, repetitions and buffers, no call outgrows the buffers  *)
(* the program sized; specdec_bench's only if asked for more than its      *)
(* --max-seq holds.                                                        *)
(***************************************************************************)
THEOREM NoProgramOutgrowsItsBuffers ==
    Spec => []FitsItsBuffers
  <1>1. CallsInv => FitsItsBuffers
    BY DEF CallsInv
  <1> QED BY <1>1, CallsInvariance, PTL

(***************************************************************************)
(* _correctness and the phase-0 probe: the eager and the graphed logits    *)
(* that a program compares always follow the same calls.                   *)
(***************************************************************************)
THEOREM ComparisonsAreFair ==
    Spec => []ComparesAtSameState
  <1>1. CallsInv => ComparesAtSameState
    BY DEF CallsInv
  <1> QED BY <1>1, CallsInvariance, PTL
=============================================================================
