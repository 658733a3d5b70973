----------------------- MODULE DecodeAttention_proofs -----------------------
(***************************************************************************)
(* The decode and verify attention kernels, for every number of threads,   *)
(* channels, rows of a tile and splits, and every list of calls.           *)
(*                                                                         *)
(* NoRace: the threads of a block are between the same two barriers with   *)
(* the same tile, or past the last one, where they only read.  Between two *)
(* barriers a word is written by one thread: the one its index falls to in *)
(* the grid-stride loop, the one of its row, or the one of its channel.    *)
(*                                                                         *)
(* SoftmaxOfTheText: the running sums of a row are the softmax of its keys *)
(* up to the tile the block is at, the accumulators the same one tile      *)
(* behind, until corr has moved them; a split that has ended holds the     *)
(* softmax of its own keys; and since every key is in exactly one split,   *)
(* the sums of the splits moved to one maximum are that of the whole text. *)
(***************************************************************************)
EXTENDS DecodeAttention, FiniteSetTheorems, NaturalsInduction,
        WellFoundedInduction, TLAPS

-----------------------------------------------------------------------------
(* The running softmax: what OnlineSoftmax computes.  A sum over some keys
   relative to one maximum can be moved to another (Rescaled), and two sums over
   different keys relative to one maximum add up to the sum over both (Added). *)

\* The sum over the keys S, of scores f, relative to the maximum mx.
SumOver(S, f, mx) == [k \in Keys |-> IF k \in S THEN f[k] - mx ELSE NegInf]

-----------------------------------------------------------------------------
(* Maxima *)

LEMMA Sentinels ==
    /\ MaxScore \in Nat /\ NegInf \in Int /\ NegInf \notin Finite /\ Finite \subseteq Int
    /\ \A x \in Finite : NegInf < x
    /\ \A x, y \in Finite : x - y # NegInf /\ x - y \in Int
  BY SoftmaxAssumption DEF NegInf, Finite

\* A set of natural numbers has a least element.
LEMMA LeastExists ==
    ASSUME NEW T, T \subseteq Nat, T # {}
    PROVE  \E x \in T : \A y \in T : x <= y
  <1>1. IsWellFoundedOn(OpToRel(<, Nat), Nat)
    BY NatLessThanWellFounded
  <1>2. PICK x \in T : \A y \in T : ~(<<y, x>> \in OpToRel(<, Nat))
    BY <1>1, WFMin
  <1>3. \A y \in T : ~(y < x)
    BY <1>2 DEF OpToRel
  <1> QED BY <1>3

\* A bounded set of integers has a largest element.
LEMMA LargestExists ==
    ASSUME NEW S, S \subseteq Int, S # {}, NEW B \in Int, \A x \in S : x <= B
    PROVE  \E e \in S : \A f \in S : e >= f
  <1> DEFINE T == {B - x : x \in S}
  <1>0. \A x \in S : B - x \in Nat
    OBVIOUS
  <1>1. T \subseteq Nat /\ T # {}
    <2>1. PICK x \in S : TRUE
      OBVIOUS
    <2>2. B - x \in T
      BY <2>1
    <2> QED BY <1>0, <2>2
  <1>2. PICK y \in T : \A z \in T : y <= z
    BY <1>1, LeastExists
  <1>3. PICK e \in S : y = B - e
    BY <1>2
  <1>4. \A f \in S : B - f \in T
    OBVIOUS
  <1>5. \A f \in S : B - e <= B - f
    BY <1>2, <1>3, <1>4
  <1>6. ASSUME NEW f \in S PROVE e >= f
    <2>1. e \in Int /\ f \in Int /\ B - e <= B - f
      BY <1>5
    <2> QED BY <2>1
  <1> QED
    BY <1>6

\* The maximum of scores some of which take part is one of those.
LEMMA MaximumIs ==
    ASSUME NEW S, S \subseteq Finite \cup {NegInf}, S \cap Finite # {}
    PROVE  /\ (CHOOSE e \in S : \A f \in S : e >= f) \in S
           /\ (CHOOSE e \in S : \A f \in S : e >= f) \in Finite
  <1>1. \E e \in S : \A f \in S : e >= f
    <2>1. S \subseteq Int /\ S # {} /\ \A x \in S : x <= MaxScore
      BY Sentinels DEF Finite
    <2>2. MaxScore \in Int
      BY Sentinels
    <2> QED BY <2>1, <2>2, LargestExists, Zenon
  <1> DEFINE mx == CHOOSE e \in S : \A f \in S : e >= f
  <1>2. mx \in S /\ \A f \in S : mx >= f
    BY <1>1
  <1> HIDE DEF mx
  <1>3. PICK x \in S : x \in Finite
    OBVIOUS
  <1>4. mx >= x /\ NegInf < x
    BY <1>2, <1>3, Sentinels
  <1>5. mx # NegInf
    BY <1>3, <1>4, Sentinels
  <1>6. mx \in Finite
    BY <1>2, <1>5
  <1> QED BY <1>2, <1>6 DEF mx

-----------------------------------------------------------------------------
(* Sums *)

\* A sum over no key is no sum, relative to anything.
LEMMA EmptySum ==
    ASSUME NEW f, NEW mx PROVE SumOver({}, f, mx) = NoTerms
  BY DEF SumOver, NoTerms

LEMMA ScaledEmpty ==
    ASSUME NEW x PROVE Scale(NoTerms, x) = NoTerms
  BY DEF Scale, NoTerms

\* The factor of the two maxima moves a sum from one to the other.
LEMMA Rescaled ==
    ASSUME NEW S, NEW f, NEW mx \in Finite, NEW n \in Finite,
           \A k \in S \cap Keys : f[k] \in Finite
    PROVE  Scale(SumOver(S, f, mx), Factor(mx, n)) = SumOver(S, f, n)
  <1>1. Factor(mx, n) = mx - n /\ mx - n # NegInf /\ mx \in Int /\ n \in Int
    BY Sentinels DEF Factor
  <1>2. ASSUME NEW k \in Keys, k \in S
        PROVE  f[k] - mx # NegInf /\ f[k] \in Int /\ (f[k] - mx) + (mx - n) = f[k] - n
    <2>1. f[k] \in Finite
      BY <1>2
    <2>2. f[k] \in Int /\ f[k] - mx # NegInf
      BY <2>1, Sentinels
    <2> QED BY <1>1, <2>2
  <1>3. ASSUME NEW k \in Keys
        PROVE  Scale(SumOver(S, f, mx), Factor(mx, n))[k] = SumOver(S, f, n)[k]
    BY <1>1, <1>2 DEF Scale, SumOver
  <1> QED BY <1>3 DEF Scale, SumOver

\* Sums over different keys add up.
LEMMA Added ==
    ASSUME NEW S, NEW T, S \cap T = {}, NEW f, NEW n \in Finite,
           \A k \in (S \cup T) \cap Keys : f[k] \in Finite
    PROVE  Plus(SumOver(S, f, n), SumOver(T, f, n)) = SumOver(S \cup T, f, n)
  <1>1. ASSUME NEW k \in Keys, k \in S \cup T PROVE f[k] - n # NegInf
    BY <1>1, Sentinels
  <1>2. ASSUME NEW k \in Keys
        PROVE  Plus(SumOver(S, f, n), SumOver(T, f, n))[k] = SumOver(S \cup T, f, n)[k]
    BY <1>1 DEF Plus, SumOver
  <1> QED BY <1>2 DEF Plus, SumOver

\* A sum over exactly the keys below n, and itself as the denominator, is the
\* softmax of the scores.
LEMMA WholeSum ==
    ASSUME NEW f, NEW mx \in Finite, NEW n \in 1 .. MaxSeq, MaxSeq \in Nat,
           \A k \in 0 .. n - 1 : f[k] \in Finite
    PROVE  LET sum == SumOver(0 .. n - 1, f, mx) IN
           /\ \A k \in Keys : (sum[k] # NegInf) <=> (k < n)
           /\ \A k \in 0 .. n - 1 : sum[k] - f[k] = sum[0] - f[0]
  <1> DEFINE sum == SumOver(0 .. n - 1, f, mx)
  <1>1. 0 .. n - 1 \subseteq Keys /\ 0 \in 0 .. n - 1
    BY DEF Keys
  <1>2. \A k \in Keys : k \in 0 .. n - 1 <=> k < n
    BY DEF Keys
  <1>3. ASSUME NEW k \in 0 .. n - 1
        PROVE  sum[k] = f[k] - mx /\ sum[k] # NegInf /\ sum[k] - f[k] = -mx
    <2>1. sum[k] = f[k] - mx
      BY <1>1 DEF SumOver
    <2>2. f[k] \in Int /\ mx \in Int /\ f[k] - mx # NegInf
      BY Sentinels
    <2> HIDE DEF sum
    <2> QED BY <2>1, <2>2
  <1>4. ASSUME NEW k \in Keys, k \notin 0 .. n - 1 PROVE sum[k] = NegInf
    BY <1>4 DEF SumOver
  <1> HIDE DEF sum
  <1> QED BY <1>1, <1>2, <1>3, <1>4 DEF sum
-----------------------------------------------------------------------------
(* Indices *)

LEMMA ProductNat == ASSUME NEW a \in Nat, NEW b \in Nat PROVE a * b \in Nat
  OBVIOUS

\* A row ends before the next ones begin.
LEMMA RowEnds ==
    ASSUME NEW P \in Nat, NEW a \in Nat, NEW b \in Nat, a < b
    PROVE  a * P + P <= b * P /\ a * P \in Nat /\ b * P \in Nat
  <1>1. PICK k \in Nat : b = a + 1 + k
    <2>1. b - a - 1 \in Nat /\ b = a + 1 + (b - a - 1)
      OBVIOUS
    <2> QED BY <2>1
  <1>2. b * P = a * P + P + k * P
    BY <1>1
  <1>3. k * P \in Nat /\ a * P \in Nat /\ b * P \in Nat
    BY ProductNat
  <1> QED BY <1>2, <1>3

\* An index of a two-dimensional array has one row and one column.
LEMMA OnePlace ==
    ASSUME NEW P \in Nat, NEW a \in Nat, NEW b \in Nat,
           NEW x \in 0 .. P - 1, NEW y \in 0 .. P - 1, a * P + x = b * P + y
    PROVE  a = b /\ x = y
  <1>1. x \in Nat /\ y \in Nat /\ x < P /\ y < P /\ a * P \in Nat /\ b * P \in Nat
    BY ProductNat
  <1>2. CASE a < b
    <2>1. a * P + P <= b * P
      BY <1>2, RowEnds
    <2> QED BY <1>1, <2>1
  <1>3. CASE b < a
    <2>1. b * P + P <= a * P
      BY <1>3, RowEnds
    <2> QED BY <1>1, <2>1
  <1>4. CASE a = b
    BY <1>1, <1>4
  <1> QED BY <1>2, <1>3, <1>4

\* A place has a row and a column.
LEMMA Places ==
    ASSUME NEW P \in Nat \ {0}, NEW x \in Nat
    PROVE  /\ x \div P \in Nat /\ x % P \in 0 .. P - 1
           /\ x = (x \div P) * P + (x % P)
  OBVIOUS

LEMMA PlaceOf ==
    ASSUME NEW P \in Nat \ {0}, NEW a \in Nat, NEW d \in 0 .. P - 1
    PROVE  (a * P + d) \div P = a /\ (a * P + d) % P = d
  <1>1. a * P + d \in Nat
    BY ProductNat
  <1> DEFINE x == a * P + d
  <1>2. /\ x \div P \in Nat /\ x % P \in 0 .. P - 1
        /\ (x \div P) * P + (x % P) = a * P + d
    BY <1>1, Places
  <1> HIDE DEF x
  <1>3. x \div P = a /\ x % P = d
    BY <1>2, OnePlace
  <1> QED BY <1>3 DEF x

\* A place of n rows is in one of them.
LEMMA PlaceRow ==
    ASSUME NEW P \in Nat \ {0}, NEW n \in Nat, NEW x \in Nat, x < n * P
    PROVE  x \div P \in 0 .. n - 1
  <1> DEFINE a == x \div P
  <1>1. a \in Nat /\ x % P \in 0 .. P - 1 /\ x = a * P + (x % P)
    BY Places
  <1> HIDE DEF a
  <1>2. a * P \in Nat /\ n * P \in Nat
    BY <1>1, ProductNat
  <1>3. ~(n < a) /\ a # n
    <2>1. n < a => n * P + P <= a * P
      BY <1>1, RowEnds
    <2>2. a * P <= x
      BY <1>1, <1>2
    <2> QED BY <1>1, <1>2, <2>1, <2>2
  <1> QED BY <1>1, <1>3 DEF a

\* As many rows of P as hold n places.
LEMMA CeilDivIs ==
    ASSUME NEW n \in Nat, NEW P \in Nat \ {0}
    PROVE  /\ CeilDiv(n, P) \in Nat /\ n <= CeilDiv(n, P) * P
           /\ \A k \in Nat : k < CeilDiv(n, P) => k * P < n
           /\ n > 0 => CeilDiv(n, P) > 0
  <1> DEFINE x == n + P - 1
             c == x \div P
  <1>1. x \in Nat
    OBVIOUS
  <1>2. c \in Nat /\ x % P \in 0 .. P - 1 /\ x = c * P + (x % P)
    BY <1>1, Places
  <1>3. c * P \in Nat
    BY <1>2, ProductNat
  <1>4. CeilDiv(n, P) = c
    BY DEF CeilDiv
  <1>5. n <= c * P /\ c * P <= n + P - 1
    <2> HIDE DEF c
    <2> QED BY <1>2, <1>3
  <1> HIDE DEF c
  <1>6. ASSUME NEW k \in Nat, k < c PROVE k * P < n
    <2>1. k * P + P <= c * P /\ k * P \in Nat
      BY <1>2, <1>6, RowEnds
    <2> QED BY <1>3, <1>5, <2>1
  <1>7. ASSUME n > 0 PROVE c > 0
    <2>1. CASE c = 0
      BY <1>5, <1>7, <2>1
    <2> QED BY <1>2, <2>1
  <1> QED BY <1>2, <1>4, <1>5, <1>6, <1>7

-----------------------------------------------------------------------------
(* The states of a block *)

Phases == SyncAfter \cup {"write", "merge", "exit"}

Types ==
    /\ call \in Calls
    /\ DOMAIN arrived = DOMAIN phase /\ DOMAIN tile0 = DOMAIN phase
    /\ \A t \in DOMAIN phase : phase[t] \in Phases /\ arrived[t] \in BOOLEAN

\* All threads of the block are between the same two barriers, with the same
\* tile.
Together ==
    /\ \E p \in SyncAfter : \A t \in DOMAIN phase : phase[t] = p
    /\ \A t, u \in DOMAIN phase : tile0[t] = tile0[u]

\* All threads of the block are past the last barrier.
Leaving == \A t \in DOMAIN phase : phase[t] \in {"write", "merge", "exit"} /\ ~arrived[t]

IInv == Types /\ (Together \/ Leaving)

-----------------------------------------------------------------------------
(* Addresses *)

\* What the words of each kind are.
LEMMA SliceWord ==
    ASSUME NEW t, NEW n, NEW name, NEW i \in SliceOf(t, n, name)
    PROVE  i[1] = name /\ Mine(t, i[2])
  BY DEF SliceOf

LEMMA AllWord ==
    ASSUME NEW n, NEW name, NEW i \in AllOf(n, name) PROVE i[1] = name
  BY DEF AllOf

LEMMA RowWord ==
    ASSUME NEW t, NEW name, NEW i \in RowOf(t, name) PROVE i[1] = name /\ i[2] = t
  BY DEF RowOf

LEMMA ScoreWord ==
    ASSUME NEW t, NEW i \in ScoresOf(t)
    PROVE  i[1] = "scores" /\ t \in Rows /\ \E kt \in TileRows : i[2] = t * KvTile + kt
  BY DEF ScoresOf

LEMMA AccWord ==
    ASSUME NEW t, NEW i \in AccOf(t)
    PROVE  /\ i[1] = "acc"
           /\ \E r \in Rows, d \in Channels : Mine(t, d) /\ i[2] = r * HeadDim + d
  BY DEF AccOf

\* A word of a grid-stride loop is of one thread.
LEMMA SliceApart ==
    ASSUME NEW t, NEW u, t # u, NEW n, NEW k, NEW a, NEW b
    PROVE  SliceOf(t, n, a) \cap SliceOf(u, k, b) = {}
  <1> SUFFICES ASSUME NEW i \in SliceOf(t, n, a), i \in SliceOf(u, k, b) PROVE FALSE
    OBVIOUS
  <1>1. Mine(t, i[2]) /\ Mine(u, i[2])
    BY SliceWord
  <1> QED BY <1>1 DEF Mine

\* The probabilities of a row are of the thread of the row.
LEMMA ScoresApart ==
    ASSUME call \in Calls, NEW t, NEW u, t # u
    PROVE  ScoresOf(t) \cap ScoresOf(u) = {}
  <1> SUFFICES ASSUME NEW i \in ScoresOf(t), i \in ScoresOf(u) PROVE FALSE
    OBVIOUS
  <1>1. /\ t \in Rows /\ \E kt \in TileRows : i[2] = t * KvTile + kt
        /\ u \in Rows /\ \E kt \in TileRows : i[2] = u * KvTile + kt
    BY ScoreWord
  <1>2. PICK x \in TileRows, y \in TileRows : t * KvTile + x = u * KvTile + y
    BY <1>1
  <1>3. KvTile \in Nat /\ t \in Nat /\ u \in Nat
    BY <1>1, DecodeAssumption DEF Rows
  <1>4. x \in 0 .. KvTile - 1 /\ y \in 0 .. KvTile - 1
    BY DEF TileRows
  <1> QED BY <1>2, <1>3, <1>4, OnePlace

\* A channel of the accumulators is of one thread.
LEMMA AccApart ==
    ASSUME call \in Calls, NEW t, NEW u, t # u
    PROVE  AccOf(t) \cap AccOf(u) = {}
  <1> SUFFICES ASSUME NEW i \in AccOf(t), i \in AccOf(u) PROVE FALSE
    OBVIOUS
  <1>1. PICK r \in Rows, d \in Channels : Mine(t, d) /\ i[2] = r * HeadDim + d
    BY AccWord
  <1>2. PICK q \in Rows, e \in Channels : Mine(u, e) /\ i[2] = q * HeadDim + e
    BY AccWord
  <1>3. HeadDim \in Nat /\ r \in Nat /\ q \in Nat
    BY DecodeAssumption DEF Rows
  <1>4. d \in 0 .. HeadDim - 1 /\ e \in 0 .. HeadDim - 1
    BY DEF Channels
  <1>5. d = e
    BY <1>1, <1>2, <1>3, <1>4, OnePlace
  <1> QED BY <1>1, <1>2, <1>5 DEF Mine

-----------------------------------------------------------------------------
(* RaceFree of the states of the invariant *)

\* Two threads in the same phase write different words, and none another reads.
LEMMA SamePhaseApart ==
    ASSUME call \in Calls, NEW p \in Phases, NEW t, NEW u, t # u,
           phase[t] = p, phase[u] = p
    PROVE  Writes(t) \cap (Reads(u) \cup Writes(u)) = {}
  <1> SUFFICES ASSUME NEW i \in Writes(t), i \in Reads(u) \cup Writes(u) PROVE FALSE
    OBVIOUS
  <1>1. CASE p = "load_q"
    <2>1. i \in SliceOf(t, call.rows * HeadDim, "q") \/ i \in SliceOf(t, call.rows * HeadDim, "acc")
              \/ i \in RowOf(t, "m") \/ i \in RowOf(t, "l")
      BY <1>1 DEF Writes
    <2>2. i \in SliceOf(u, call.rows * HeadDim, "q") \/ i \in SliceOf(u, call.rows * HeadDim, "acc")
              \/ i \in RowOf(u, "m") \/ i \in RowOf(u, "l")
      BY <1>1 DEF Writes, Reads
    <2>3. (i[1] \in {"q", "acc"} /\ Mine(t, i[2])) \/ (i[1] \in {"m", "l"} /\ i[2] = t)
      BY <2>1, SliceWord, RowWord
    <2>4. (i[1] \in {"q", "acc"} /\ Mine(u, i[2])) \/ (i[1] \in {"m", "l"} /\ i[2] = u)
      BY <2>2, SliceWord, RowWord
    <2> QED BY <2>3, <2>4 DEF Mine
  <1>2. CASE p = "rope"
    <2> DEFINE Pair(j) == (j \div HeadDim) * Half + ((j % HeadDim) % Half)
               Of(v) == {<<"q", x>> : x \in {j \in 0 .. call.rows * HeadDim - 1 : Mine(v, Pair(j))}}
    <2>1. i \in Of(t) /\ i \in Of(u)
      BY <1>2 DEF Writes, Reads
    <2>2. Mine(t, Pair(i[2])) /\ Mine(u, Pair(i[2]))
      <3> HIDE DEF Pair
      <3> QED BY <2>1
    <2> HIDE DEF Pair
    <2> QED BY <2>2 DEF Mine
  <1>3. CASE p = "load"
    <2>1. /\ i \in SliceOf(t, KvTile * HeadDim, "k") \/ i \in SliceOf(t, KvTile * HeadDim, "v")
          /\ i \in SliceOf(u, KvTile * HeadDim, "k") \/ i \in SliceOf(u, KvTile * HeadDim, "v")
      BY <1>3 DEF Writes, Reads
    <2>2. Mine(t, i[2]) /\ Mine(u, i[2])
      BY <2>1, SliceWord
    <2> QED BY <2>2 DEF Mine
  <1>4. CASE p = "score"
    <2>1. i \in SliceOf(t, call.rows * KvTile, "scores")
      BY <1>4 DEF Writes
    <2>2. i \in AllOf(call.rows * HeadDim, "q") \/ i \in AllOf(KvTile * HeadDim, "k")
              \/ i \in SliceOf(u, call.rows * KvTile, "scores")
      BY <1>4 DEF Writes, Reads
    <2>3. i[1] = "scores" /\ Mine(t, i[2])
      BY <2>1, SliceWord
    <2>4. i[1] \in {"q", "k"} \/ Mine(u, i[2])
      BY <2>2, AllWord, SliceWord
    <2> QED BY <2>3, <2>4 DEF Mine
  <1>5. CASE p = "softmax"
    <2>1. i \in ScoresOf(t) \/ i \in RowOf(t, "m") \/ i \in RowOf(t, "l") \/ i \in RowOf(t, "corr")
      BY <1>5 DEF Writes
    <2>2. i \in ScoresOf(u) \/ i \in RowOf(u, "m") \/ i \in RowOf(u, "l") \/ i \in RowOf(u, "corr")
      BY <1>5 DEF Writes, Reads
    <2>3. i \in ScoresOf(t) \/ (i[1] # "scores" /\ i[2] = t)
      BY <2>1, RowWord
    <2>4. i \in ScoresOf(u) \/ (i[1] # "scores" /\ i[2] = u)
      BY <2>2, RowWord
    <2>5. ~(i \in ScoresOf(t) /\ i \in ScoresOf(u))
      BY ScoresApart
    <2>6. (i \in ScoresOf(t) \/ i \in ScoresOf(u)) => i[1] = "scores"
      BY ScoreWord
    <2> QED BY <2>3, <2>4, <2>5, <2>6
  <1>6. CASE p = "accumulate"
    <2>1. i \in AccOf(t)
      BY <1>6 DEF Writes
    <2>2. i \in AllOf(call.rows * KvTile, "scores") \/ i \in AllOf(call.rows, "corr")
              \/ i \in {<<"v", kt * HeadDim + d>> : kt \in TileRows, d \in {c \in Channels : Mine(u, c)}}
              \/ i \in AccOf(u)
      BY <1>6 DEF Writes, Reads
    <2>3. i[1] = "acc"
      BY <2>1, AccWord
    <2>4. i[1] \in {"scores", "corr", "v"} \/ i \in AccOf(u)
      BY <2>2, AllWord
    <2>5. i \notin AccOf(u)
      BY <2>1, AccApart
    <2> QED BY <2>3, <2>4, <2>5
  <1>7. CASE p = "reduce"
    <2>1. /\ i \in RowOf(t, "mred") \/ i \in RowOf(t, "lred")
          /\ i \in RowOf(u, "mred") \/ i \in RowOf(u, "lred")
      BY <1>7 DEF Writes, Reads
    <2> QED BY <2>1, RowWord
  <1>8. CASE p \in {"write", "merge", "exit"}
    <2>1. Writes(t) = {}
      BY <1>8 DEF Writes
    <2> QED BY <2>1
  <1> QED BY <1>1, <1>2, <1>3, <1>4, <1>5, <1>6, <1>7, <1>8 DEF Phases, SyncAfter

LEMMA RaceFreeOfIInv == IInv => RaceFree
  <1> SUFFICES ASSUME IInv, NEW t \in DOMAIN phase, NEW u \in DOMAIN phase
      PROVE  /\ t # u /\ ~arrived[t] /\ ~arrived[u] =>
                    Writes(t) \cap (Reads(u) \cup Writes(u)) = {}
             /\ arrived[t] => phase[u] # "exit"
             /\ arrived[t] /\ arrived[u] => phase[t] = phase[u] /\ tile0[t] = tile0[u]
    BY DEF RaceFree
  <1>1. CASE Together
    <2>1. PICK p \in SyncAfter : phase[t] = p /\ phase[u] = p
      BY <1>1 DEF Together
    <2>2. p \in Phases /\ p # "exit"
      BY DEF Phases, SyncAfter
    <2>3. tile0[t] = tile0[u]
      BY <1>1 DEF Together
    <2>4. call \in Calls
      BY DEF IInv, Types
    <2>5. t # u => Writes(t) \cap (Reads(u) \cup Writes(u)) = {}
      BY <2>1, <2>2, <2>4, SamePhaseApart
    <2> QED BY <2>1, <2>2, <2>3, <2>5
  <1>2. CASE Leaving
    <2>1. phase[t] \in {"write", "merge", "exit"} /\ ~arrived[t]
      BY <1>2 DEF Leaving
    <2>2. Writes(t) = {}
      BY <2>1 DEF Writes
    <2> QED BY <2>1, <2>2
  <1> QED BY <1>1, <1>2 DEF IInv

-----------------------------------------------------------------------------
(* The invariant is one *)

\* A block as it starts, whatever its threads are.
LEMMA FreshKeeps ==
    ASSUME IInv, NEW D, NEW p \in SyncAfter, call' = call,
           phase' = [t \in D |-> p], arrived' = [t \in D |-> FALSE],
           tile0' = [t \in D |-> 0]
    PROVE  IInv'
  <1>1. p \in Phases
    BY DEF Phases
  <1>2. Types'
    BY <1>1 DEF IInv, Types
  <1>3. Together'
    BY DEF Together
  <1> QED BY <1>2, <1>3 DEF IInv

LEMMA InitIInv == Init => IInv
  <1> SUFFICES ASSUME Init PROVE IInv
    OBVIOUS
  <1>1. call \in Calls /\ phase = <<>> /\ arrived = <<>> /\ tile0 = <<>>
    BY DEF Init
  <1>2. DOMAIN phase = {} /\ DOMAIN arrived = {} /\ DOMAIN tile0 = {}
    BY <1>1
  <1> QED BY <1>1, <1>2 DEF IInv, Types, Leaving

LEMMA StartKeeps ==
    ASSUME IInv, NEW s \in todo, StartBlock(s) PROVE IInv'
  <1>1. /\ call' = call /\ phase' = [t \in Threads |-> "load_q"]
        /\ arrived' = [t \in Threads |-> FALSE] /\ tile0' = [t \in Threads |-> 0]
    BY DEF StartBlock, FreshBlock
  <1>2. "load_q" \in SyncAfter
    BY DEF SyncAfter
  <1> QED BY <1>1, <1>2, FreshKeeps

\* A thread that finishes a phase before a barrier waits; one past the last
\* barrier goes on to leave.
LEMMA FinishKeeps ==
    ASSUME IInv, NEW t \in DOMAIN phase,
           NEW p \in SyncAfter \cup {"write", "merge"}, Finish(t, p)
    PROVE  IInv'
  <1>1. phase[t] = p /\ ~arrived[t] /\ call' = call
    BY DEF Finish
  <1>2. CASE p \in SyncAfter
    <2>1. /\ arrived' = [arrived EXCEPT ![t] = TRUE]
          /\ phase' = phase /\ tile0' = tile0
      BY <1>2 DEF Finish
    <2>2. DOMAIN arrived' = DOMAIN arrived
      BY <2>1
    <2>3. \A u \in DOMAIN arrived : arrived'[u] = IF u = t THEN TRUE ELSE arrived[u]
      BY <2>1
    <2>4. Types'
      BY <1>1, <2>1, <2>2, <2>3 DEF IInv, Types
    <2>5. Together
      BY <1>1, <1>2 DEF IInv, Leaving, SyncAfter
    <2>6. Together'
      BY <2>1, <2>5 DEF Together
    <2> QED BY <2>4, <2>6 DEF IInv
  <1>3. CASE p \in {"write", "merge"}
    <2>1. p \notin SyncAfter
      BY <1>3 DEF SyncAfter
    <2>2. /\ phase' = [phase EXCEPT ![t] = Following(p, tile0[t])[1]]
          /\ tile0' = [tile0 EXCEPT ![t] = Following(p, tile0[t])[2]]
          /\ arrived' = arrived
      BY <2>1 DEF Finish
    <2>3. Following(p, tile0[t])[1] = "exit"
      BY <1>3 DEF Following
    <2>4. DOMAIN phase' = DOMAIN phase /\ DOMAIN tile0' = DOMAIN tile0
      BY <2>2
    <2>5. \A u \in DOMAIN phase : phase'[u] = IF u = t THEN "exit" ELSE phase[u]
      BY <2>2, <2>3
    <2>6. Types'
      BY <1>1, <2>2, <2>4, <2>5 DEF IInv, Types, Phases
    <2>7. Leaving
      BY <1>1, <2>1 DEF IInv, Together
    <2>8. Leaving'
      BY <2>2, <2>4, <2>5, <2>7 DEF Leaving
    <2> QED BY <2>6, <2>8 DEF IInv
  <1> QED BY <1>2, <1>3

\* The barrier lets all threads through to the same phase.
LEMMA SyncKeeps == ASSUME IInv, SyncThreads PROVE IInv'
  <1>1. /\ \A t, u \in DOMAIN arrived :
               arrived[t] /\ phase[t] = phase[u] /\ tile0[t] = tile0[u]
        /\ arrived' = [t \in DOMAIN arrived |-> FALSE]
        /\ phase' = [t \in DOMAIN phase |-> Following(phase[t], tile0[t])[1]]
        /\ tile0' = [t \in DOMAIN tile0 |-> Following(phase[t], tile0[t])[2]]
        /\ call' = call
    BY DEF SyncThreads
  <1>2. DOMAIN arrived = DOMAIN phase /\ DOMAIN tile0 = DOMAIN phase
    BY DEF IInv, Types
  <1>3. /\ DOMAIN phase' = DOMAIN phase /\ DOMAIN arrived' = DOMAIN phase
        /\ DOMAIN tile0' = DOMAIN phase
    BY <1>1, <1>2
  <1>4. CASE DOMAIN phase = {}
    BY <1>1, <1>3, <1>4 DEF IInv, Types, Leaving
  <1>5. CASE DOMAIN phase # {}
    <2>1. PICK v \in DOMAIN phase : arrived[v]
      BY <1>1, <1>2, <1>5
    <2>2. Together
      BY <2>1 DEF IInv, Leaving
    <2>3. PICK p \in SyncAfter : \A t \in DOMAIN phase : phase[t] = p
      BY <2>2 DEF Together
    <2>4. PICK b : \A t \in DOMAIN phase : tile0[t] = b
      BY <1>1, <1>2, <2>1
    <2>5. PICK q, c : Following(p, b)[1] = q /\ Following(p, b)[2] = c
      OBVIOUS
    <2>6. q \in SyncAfter \cup {"write", "merge"}
      <3>1. q \in {"rope", "load", "write", "score", "softmax", "accumulate", "merge"}
        BY <2>3, <2>5 DEF Following, SyncAfter
      <3> QED BY <3>1 DEF SyncAfter
    <2>7. \A t \in DOMAIN phase : phase'[t] = q /\ tile0'[t] = c /\ ~arrived'[t]
                                  /\ arrived'[t] \in BOOLEAN
      BY <1>1, <1>2, <2>3, <2>4, <2>5
    <2>8. Types'
      BY <1>1, <1>2, <1>3, <2>6, <2>7 DEF IInv, Types, Phases
    <2>9. CASE q \in SyncAfter
      BY <1>3, <2>7, <2>8, <2>9 DEF IInv, Together
    <2>10. CASE q \in {"write", "merge"}
      BY <1>3, <2>7, <2>8, <2>10 DEF IInv, Leaving
    <2> QED BY <2>6, <2>9, <2>10
  <1> QED BY <1>4, <1>5

\* After the last split the combine block starts.
LEMMA EndKeeps == ASSUME IInv, EndBlock PROVE IInv'
  <1>1. call' = call
    BY DEF EndBlock
  <1>2. CASE split' = Combine
    <2>1. /\ phase' = [t \in Channels |-> "reduce"]
          /\ arrived' = [t \in Channels |-> FALSE] /\ tile0' = [t \in Channels |-> 0]
      BY <1>2 DEF EndBlock
    <2>2. "reduce" \in SyncAfter
      BY DEF SyncAfter
    <2> QED BY <1>1, <2>1, <2>2, FreshKeeps
  <1>3. CASE split' # Combine
    <2>1. UNCHANGED <<phase, arrived, tile0>>
      BY <1>3 DEF EndBlock, threads
    <2> QED BY <1>1, <2>1 DEF IInv, Types, Together, Leaving
  <1> QED BY <1>2, <1>3

LEMMA NextIInv == IInv /\ [Next]_vars => IInv'
  <1> SUFFICES ASSUME IInv, [Next]_vars PROVE IInv'
    OBVIOUS
  <1>1. CASE \E s \in todo : StartBlock(s)
    BY <1>1, StartKeeps
  <1>2. ASSUME NEW t \in DOMAIN phase, ThreadStep(t) PROVE IInv'
    <2>1. \E p \in SyncAfter \cup {"write", "merge"} : Finish(t, p)
      <3>1. {"load_q", "rope", "load", "score", "softmax", "accumulate", "reduce"}
                \subseteq SyncAfter
        BY DEF SyncAfter
      <3> QED BY <1>2, <3>1 DEF ThreadStep, LoadQ, Rope, LoadTile, Scores, Softmax,
                                Accumulate, WriteOut, WritePartial, Reduce, Merge
    <2> QED BY <2>1, FinishKeeps
  <1>3. CASE SyncThreads
    BY <1>3, SyncKeeps
  <1>4. CASE EndBlock
    BY <1>4, EndKeeps
  <1>5. CASE EndCombine \/ UNCHANGED vars
    <2>1. UNCHANGED <<call, phase, arrived, tile0>>
      BY <1>5 DEF EndCombine, vars, threads
    <2> QED BY <2>1 DEF IInv, Types, Together, Leaving
  <1> QED BY <1>1, <1>2, <1>3, <1>4, <1>5 DEF Next

\* For every number of threads, channels, splits and rows, the threads of a
\* block are between the same two barriers with the same tile until the last.
THEOREM Invariance == Spec => []IInv
  BY InitIInv, NextIInv, PTL DEF Spec

\* For every number of threads, every tile and every way the cache is split, no
\* two threads of the decode and combine kernels touch the same word of shared
\* memory between two barriers unless both read it, and no thread waits at a
\* barrier another one waits past or has left the kernel without.
THEOREM NoRace == Spec => []RaceFree
  BY Invariance, RaceFreeOfIInv, PTL

-----------------------------------------------------------------------------
(* What the kernels have computed so far *)

Splits == 0 .. NumSplits - 1

Running == split \in Splits

\* Which kernel runs, or ran last, with the threads it has.
Stage ==
    /\ todo \subseteq Splits
    /\ DOMAIN partial = Splits /\ DOMAIN out = Rows \X Channels
    /\ DOMAIN mRed = Rows /\ DOMAIN lRed = Rows
    /\ \/ split = NoBlock /\ todo = Splits /\ phase = <<>>
       \/ /\ Running /\ split \notin todo
          /\ DOMAIN phase = Threads
          /\ \A t \in Threads : phase[t] \notin {"reduce", "merge"}
       \/ /\ split = NoBlock /\ (todo # {} \/ NumSplits = 1)
          /\ DOMAIN phase = Threads
          /\ \A t \in Threads : phase[t] = "exit"
       \/ /\ split = Combine /\ todo = {} /\ NumSplits > 1
          /\ DOMAIN phase = Channels
          /\ \A t \in Channels : phase[t] \in {"reduce", "merge", "exit"}
       \/ /\ split = NoBlock /\ todo = {} /\ NumSplits > 1
          /\ DOMAIN phase = Channels
          /\ \A t \in Channels : phase[t] = "exit"

\* The shared memory of a block of a split.
Shapes ==
    /\ DOMAIN qSh = Rows \X Channels /\ DOMAIN acc = Rows \X Channels
    /\ DOMAIN kSh = TileRows \X Channels /\ DOMAIN vSh = TileRows \X Channels
    /\ DOMAIN scores = Rows \X TileRows
    /\ DOMAIN mSh = Rows /\ DOMAIN lSh = Rows /\ DOMAIN corrSh = Rows

\* The keys a thread has behind it.
Progress ==
    \A t \in Threads :
        /\ tile0[t] \in Nat
        /\ phase[t] \in {"load_q", "rope"} => tile0[t] = 0
        /\ phase[t] \in {"load", "score", "softmax", "accumulate"} =>
               KvStart <= tile0[t] /\ tile0[t] < KvEnd
        /\ phase[t] \in {"write", "exit"} => tile0[t] >= KvEnd

\* The queries, loaded and then rotated.
QueryStands(t, r, d) ==
    /\ phase[t] = "load_q" /\ arrived[t] /\ Mine(t, r * HeadDim + d) => qSh[<<r, d>>] = "raw"
    /\ phase[t] = "rope" /\ Mine(t, r * Half + (d % Half)) =>
           qSh[<<r, d>>] = IF arrived[t] THEN "rotated" ELSE "raw"
    /\ phase[t] \in {"load", "score", "softmax", "accumulate"} => qSh[<<r, d>>] = "rotated"

\* The keys and the values of the tile.
TileStands(t, kt, d) ==
    (phase[t] = "load" /\ arrived[t] /\ Mine(t, kt * HeadDim + d))
        \/ phase[t] \in {"score", "softmax", "accumulate"} =>
    kSh[<<kt, d>>] = TileKey(t, kt) /\ vSh[<<kt, d>>] = TileKey(t, kt)

RowScores(r) == [k \in Keys |-> Score(call.shape, r, k)]

\* The last key row r may see.
Last(r) == call.len - call.rows + r

\* The keys of row r in split s, and those of them below n in the one that runs.
KeysIn(r, s) == {k \in Keys : s * SplitLen <= k /\ k < s * SplitLen + SplitLen /\ k <= Last(r)}
Below(r, n) == {k \in Keys : k \in KeysIn(r, split) /\ k < n}

\* sum is the running softmax of row r over the keys S, relative to top.
SumIs(r, S, top, sum) ==
    IF S = {} THEN top = NegInf /\ sum = NoTerms
    ELSE top \in Finite /\ sum = SumOver(S, RowScores(r), top)

\* A term of the tile of a thread at key n: a score, relative to top.
Term(r, n, kt, top) ==
    IF Masked(r, n + kt) THEN [key |-> Zero, e |-> NegInf]
    ELSE [key |-> n + kt, e |-> RowScores(r)[n + kt] - top]

\* The scores of the tile, and the probabilities the softmax makes of them.
ScoresStand(t, r, kt) ==
    /\ phase[t] = "score" /\ arrived[t] /\ Mine(t, r * KvTile + kt) =>
           scores[<<r, kt>>] = Term(r, tile0[t], kt, 0)
    /\ t = r /\ phase[t] = "softmax" /\ ~arrived[t] =>
           scores[<<r, kt>>] = Term(r, tile0[t], kt, 0)
    /\ (t = r /\ phase[t] = "softmax" /\ arrived[t]) \/ phase[t] = "accumulate" =>
           scores[<<r, kt>>] = Term(r, tile0[t], kt, mSh[r])

\* The softmax of row r, by the thread of the row.
PastSoftmax(t) == phase[t] = "accumulate" \/ (phase[t] = "softmax" /\ arrived[t])
KeysBehind(t) == IF PastSoftmax(t) THEN tile0[t] + KvTile ELSE tile0[t]

RowStands(r) ==
    phase[r] # "load_q" \/ arrived[r] => SumIs(r, Below(r, KeysBehind(r)), mSh[r], lSh[r])

\* The accumulator of a row and channel is one tile behind and relative to the
\* maximum before it, and corr makes up for that.
Behind(r, n, d) ==
    \E old \in Finite \cup {NegInf} :
        corrSh[r] = Factor(old, mSh[r]) /\ SumIs(r, Below(r, n), old, acc[<<r, d>>])

AccStands(t, r, d) ==
    /\ phase[t] = "load_q" /\ arrived[t] /\ Mine(t, r * HeadDim + d) => acc[<<r, d>>] = NoTerms
    /\ phase[t] \in {"rope", "load", "score", "write", "exit"} => acc[<<r, d>>] = lSh[r]
    /\ phase[t] = "softmax" /\ t = r =>
           IF arrived[t] THEN Behind(r, tile0[t], d) ELSE acc[<<r, d>>] = lSh[r]
    /\ phase[t] = "accumulate" /\ Mine(t, d) =>
           IF arrived[t] THEN acc[<<r, d>>] = lSh[r] ELSE Behind(r, tile0[t], d)

\* What the threads that have left have written.
WrittenStands(t, r, d) ==
    phase[t] = "exit" =>
        /\ NumSplits = 1 /\ Mine(t, r * HeadDim + d) =>
               out[<<r, d>>] = [acc |-> acc[<<r, d>>], l |-> lSh[r]]
        /\ NumSplits > 1 /\ t = r => partial[split][r].m = mSh[r] /\ partial[split][r].l = lSh[r]
        /\ NumSplits > 1 /\ Mine(t, r * HeadDim + d) => partial[split][r].acc[d] = acc[<<r, d>>]

BlockStands ==
    /\ Shapes /\ Progress
    /\ \A t \in Threads, r \in Rows, d \in Channels :
           QueryStands(t, r, d) /\ AccStands(t, r, d) /\ WrittenStands(t, r, d)
    /\ \A t \in Threads, kt \in TileRows, d \in Channels : TileStands(t, kt, d)
    /\ \A t \in Threads, r \in Rows, kt \in TileRows : ScoresStand(t, r, kt)
    /\ \A r \in Rows : RowStands(r)

\* The partial results of the splits that have run.
PartStands(s, r) ==
    /\ SumIs(r, KeysIn(r, s), partial[s][r].m, partial[s][r].l)
    /\ \A d \in Channels : partial[s][r].acc[d] = partial[s][r].l

PartsStand == NumSplits > 1 => \A s \in Splits \ (todo \cup {split}), r \in Rows : PartStands(s, r)

\* The maximum over the splits and the denominator, by the lane of the row.
ReducedStands(r) ==
    phase[r] # "reduce" \/ arrived[r] =>
        mRed[r] \in Finite /\ lRed[r] = SumOver(0 .. Last(r), RowScores(r), mRed[r])

\* Row r and channel d have their result.
Final(r, d) ==
    \E top \in Finite :
        LET sum == SumOver(0 .. Last(r), RowScores(r), top)
        IN  out[<<r, d>>] = [acc |-> sum, l |-> sum]

CombineStands ==
    \A r \in Rows : /\ ReducedStands(r)
                    /\ \A d \in Channels : phase[d] = "exit" => Final(r, d)

OutputStands == Done => \A r \in Rows, d \in Channels : Final(r, d)

Data ==
    /\ Stage /\ PartsStand /\ OutputStands
    /\ Running => BlockStands
    /\ split = Combine => CombineStands

Exact == IInv /\ Data

-----------------------------------------------------------------------------
(* Sizes, rows and splits *)

LEMMA Sizes ==
    /\ NumThreads \in Nat \ {0} /\ HeadDim \in Nat \ {0} /\ KvTile \in Nat \ {0}
    /\ MinSplitLen \in Nat \ {0} /\ DesiredSplits \in Nat \ {0} /\ MaxSplits \in Nat \ {0}
    /\ MaxSeq \in Nat /\ Half \in Nat \ {0} /\ HeadDim = Half + Half
  <1>1. /\ NumThreads \in Nat \ {0} /\ HeadDim \in Nat \ {0} /\ KvTile \in Nat \ {0}
        /\ MinSplitLen \in Nat \ {0} /\ DesiredSplits \in Nat \ {0} /\ MaxSplits \in Nat \ {0}
        /\ MaxSeq \in Nat /\ HeadDim % 2 = 0
    BY DecodeAssumption, SoftmaxAssumption
  <1>2. Half \in Nat \ {0} /\ HeadDim = Half + Half
    BY <1>1 DEF Half
  <1> QED BY <1>1, <1>2

LEMMA CallFacts ==
    ASSUME IInv
    PROVE  /\ call.len \in 1 .. MaxSeq /\ call.rows \in 1 .. call.len
           /\ call.len \in Nat /\ call.rows \in Nat /\ call.len <= MaxSeq
           /\ call.rows <= NumThreads /\ call.rows <= HeadDim
           /\ \A r \in 0 .. call.rows - 1, k \in 0 .. call.len - 1 :
                  Score(call.shape, r, k) \in Finite
  BY DecodeAssumption, Sizes DEF IInv, Types

\* A row is a thread of a block of a split, and a lane of the combine block.
LEMMA RowFacts ==
    ASSUME IInv, NEW r \in Rows
    PROVE  /\ r \in Nat /\ r \in Threads /\ r \in Channels
           /\ Last(r) \in Nat /\ Last(r) < call.len
  <1>1. r \in Nat /\ r < call.rows
    BY CallFacts DEF Rows
  <1> QED BY <1>1, CallFacts, Sizes DEF Threads, Channels, Last

\* The splits hold the whole text.
LEMMA SplitFacts ==
    ASSUME IInv
    PROVE  /\ NumSplits \in Nat \ {0} /\ SplitLen \in Nat \ {0}
           /\ call.len <= NumSplits * SplitLen /\ NumSplits * SplitLen \in Nat
  <1>1. NumSplits \in Nat \ {0}
    <2>1. PICK x : x = IF call.dev THEN MaxSeq ELSE call.len
      OBVIOUS
    <2>2. x \in Nat /\ x > 0
      BY <2>1, CallFacts, Sizes
    <2>3. CeilDiv(x, MinSplitLen) \in Nat \ {0}
      BY <2>2, Sizes, CeilDivIs
    <2>4. ChooseNumSplits(x) \in Nat \ {0}
      BY <2>3, Sizes DEF ChooseNumSplits, Clamp
    <2> QED BY <2>1, <2>4 DEF NumSplits
  <1> DEFINE n == NumSplits
             c == CeilDiv(call.len, n)
             d == CeilDiv(c, KvTile)
  <1> HIDE DEF n
  <1>2. n \in Nat \ {0}
    BY <1>1 DEF n
  <1>3. c \in Nat \ {0} /\ call.len <= c * n
    <2>1. call.len \in Nat /\ call.len > 0
      BY CallFacts
    <2> QED BY <1>2, <2>1, CeilDivIs
  <1> HIDE DEF c
  <1>4. d \in Nat \ {0} /\ c <= d * KvTile
    BY <1>3, Sizes, CeilDivIs
  <1> HIDE DEF d
  <1>5. SplitLen = KvTile * d
    BY DEF SplitLen, n, c, d
  <1>6. KvTile * d = d * KvTile /\ d * KvTile \in Nat
    BY <1>4, Sizes, ProductNat
  <1>7. SplitLen \in Nat \ {0} /\ c <= SplitLen
    BY <1>3, <1>4, <1>5, <1>6
  <1>8. call.len <= n * SplitLen /\ n * SplitLen \in Nat
    <2>1. PICK e : e = SplitLen
      OBVIOUS
    <2>2. e \in Nat /\ c <= e
      BY <1>7, <2>1
    <2>3. c * n <= e * n /\ c * n \in Nat /\ e * n \in Nat
      <3>1. CASE c = e
        BY <1>2, <2>2, <3>1, ProductNat
      <3>2. CASE c < e
        <4>1. c * n + n <= e * n /\ c * n \in Nat /\ e * n \in Nat
          BY <1>2, <1>3, <2>2, <3>2, RowEnds
        <4> QED BY <1>2, <4>1
      <3> QED BY <1>3, <2>2, <3>1, <3>2
    <2>4. e * n = n * e
      BY <1>2, <2>2
    <2> QED BY <1>3, <2>1, <2>3, <2>4, CallFacts
  <1> QED BY <1>1, <1>7, <1>8 DEF n

\* Where the keys of the split that runs are.
LEMMA RunFacts ==
    ASSUME IInv, Running
    PROVE  /\ split \in Nat /\ split # NoBlock /\ split # Combine
           /\ KvStart \in Nat /\ KvStart = split * SplitLen
           /\ KvEnd \in Nat /\ KvEnd <= call.len /\ KvEnd <= KvStart + SplitLen
           /\ KvEnd = call.len \/ KvEnd = KvStart + SplitLen
  <1>1. split \in Nat
    BY SplitFacts DEF Running, Splits
  <1>2. KvStart \in Nat
    BY <1>1, SplitFacts, ProductNat DEF KvStart
  <1> QED BY <1>1, <1>2, SplitFacts, CallFacts DEF KvStart, KvEnd, NoBlock, Combine

\* The keys of a row below n, in the split that runs.
LEMMA BelowIs ==
    ASSUME IInv, Running, NEW r \in Rows, NEW n \in Nat, NEW k \in Nat
    PROVE  /\ k \in KeysIn(r, split) <=> KvStart <= k /\ k < KvEnd /\ k <= Last(r)
           /\ k \in Below(r, n) <=> KvStart <= k /\ k < KvEnd /\ k <= Last(r) /\ k < n
  <1>1. /\ KvStart \in Nat /\ KvStart = split * SplitLen
        /\ KvEnd \in Nat /\ KvEnd <= call.len /\ KvEnd <= KvStart + SplitLen
        /\ KvEnd = call.len \/ KvEnd = KvStart + SplitLen
    BY RunFacts
  <1>2. Last(r) \in Nat /\ Last(r) < call.len /\ call.len \in Nat /\ call.len <= MaxSeq
    BY RowFacts, CallFacts
  <1>3. k <= Last(r) => k \in Keys
    BY <1>2, Sizes DEF Keys
  <1>4. k \in KeysIn(r, split) <=> k \in Keys /\ KvStart <= k /\ k < KvStart + SplitLen /\ k <= Last(r)
    BY <1>1 DEF KeysIn
  <1>5. k \in KeysIn(r, split) <=> KvStart <= k /\ k < KvEnd /\ k <= Last(r)
    BY <1>1, <1>2, <1>3, <1>4, SplitFacts
  <1> QED BY <1>3, <1>5 DEF Below

LEMMA KeysNat == ASSUME NEW k \in Keys PROVE k \in Nat
  BY Sizes DEF Keys

\* The scores of a row over the text are finite.
LEMMA FiniteScores ==
    ASSUME IInv, NEW r \in Rows, NEW k \in Nat, k < call.len
    PROVE  k \in Keys /\ RowScores(r)[k] \in Finite
           /\ RowScores(r)[k] = Score(call.shape, r, k)
  <1>1. k \in Keys /\ k \in 0 .. call.len - 1
    BY CallFacts, Sizes DEF Keys
  <1>2. Score(call.shape, r, k) \in Finite
    BY <1>1, CallFacts DEF Rows
  <1> QED BY <1>1, <1>2 DEF RowScores

LEMMA MinerExists ==
    ASSUME NEW i \in Nat
    PROVE  \E t \in Threads : Mine(t, i)
  <1>1. i % NumThreads \in Threads
    BY Sizes, Places DEF Threads
  <1> QED BY <1>1 DEF Mine

LEMMA IndexNat ==
    ASSUME NEW r \in Nat, NEW d \in Nat
    PROVE  r * HeadDim + d \in Nat /\ r * Half + d \in Nat /\ r * KvTile + d \in Nat
  <1>1. r * HeadDim \in Nat /\ r * Half \in Nat /\ r * KvTile \in Nat
    BY Sizes, ProductNat
  <1> QED BY <1>1

LEMMA Naturals ==
    /\ \A d \in Channels : d \in Nat
    /\ \A kt \in TileRows : kt \in Nat /\ kt < KvTile
    /\ \A t \in Threads : t \in Nat
  BY Sizes DEF Channels, TileRows, Threads

-----------------------------------------------------------------------------
(* Which block runs *)

\* Before the last phase of a split there is a split.
LEMMA InBlock ==
    ASSUME IInv, Stage, NEW t \in DOMAIN phase, phase[t] \notin {"reduce", "merge", "exit"}
    PROVE  /\ Running /\ split \notin todo /\ DOMAIN phase = Threads /\ t \in Threads
           /\ split # NoBlock /\ split # Combine
           /\ \A u \in Threads : phase[u] \notin {"reduce", "merge"}
  <1>1. /\ Running /\ split \notin todo /\ DOMAIN phase = Threads
        /\ \A u \in Threads : phase[u] \notin {"reduce", "merge"}
    <2>1. phase # <<>>
      <3>1. DOMAIN <<>> = {}
        OBVIOUS
      <3> QED BY <3>1
    <2> QED BY <2>1 DEF Stage
  <1> QED BY <1>1, RunFacts

\* A thread at a barrier: the others are there or on their way.
LEMMA Waits ==
    ASSUME IInv, NEW t \in DOMAIN phase, NEW p \in SyncAfter, Finish(t, p)
    PROVE  /\ \A u \in DOMAIN phase : phase[u] = p /\ tile0[u] = tile0[t]
           /\ ~arrived[t] /\ phase[t] = p
           /\ UNCHANGED <<call, todo, split, phase, tile0>>
           /\ \A u \in DOMAIN phase : arrived'[u] = (u = t \/ arrived[u])
  <1>1. phase[t] = p /\ ~arrived[t] /\ UNCHANGED <<call, todo, split, phase, tile0>>
        /\ arrived' = [arrived EXCEPT ![t] = TRUE]
    BY DEF Finish
  <1>2. Together
    BY <1>1 DEF IInv, Leaving, SyncAfter
  <1>3. \A u \in DOMAIN phase : phase[u] = p /\ tile0[u] = tile0[t]
    BY <1>1, <1>2 DEF Together
  <1>4. \A u \in DOMAIN phase : arrived'[u] = (u = t \/ arrived[u])
    <2>1. DOMAIN arrived = DOMAIN phase /\ \A u \in DOMAIN phase : arrived[u] \in BOOLEAN
      BY DEF IInv, Types
    <2> QED BY <1>1, <2>1
  <1> QED BY <1>1, <1>3, <1>4

-----------------------------------------------------------------------------
(* What an action leaves as it was *)

LEMMA Frame ==
    ASSUME call' = call
    PROVE  /\ Rows' = Rows /\ NumSplits' = NumSplits /\ SplitLen' = SplitLen /\ Splits' = Splits
           /\ \A r : (RowScores(r))' = RowScores(r) /\ (Last(r))' = Last(r)
           /\ \A r, s : (KeysIn(r, s))' = KeysIn(r, s)
           /\ \A r, S, top, sum : (SumIs(r, S, top, sum))' <=> SumIs(r, S, top, sum)
  <1>1. Rows' = Rows /\ NumSplits' = NumSplits
    BY DEF Rows, NumSplits, ChooseNumSplits
  <1>2. SplitLen' = SplitLen /\ Splits' = Splits
    BY <1>1 DEF SplitLen, Splits
  <1>3. \A r : (RowScores(r))' = RowScores(r) /\ (Last(r))' = Last(r)
    BY DEF RowScores, Last
  <1>4. \A r, s : (KeysIn(r, s))' = KeysIn(r, s)
    BY <1>2, <1>3 DEF KeysIn
  <1>5. \A r, S, top, sum : (SumIs(r, S, top, sum))' <=> SumIs(r, S, top, sum)
    BY <1>3 DEF SumIs
  <1> QED BY <1>1, <1>2, <1>3, <1>4, <1>5

LEMMA FrameBlock ==
    ASSUME call' = call, split' = split
    PROVE  /\ KvStart' = KvStart /\ KvEnd' = KvEnd /\ (Running' <=> Running)
           /\ \A r, n : (Below(r, n))' = Below(r, n)
           /\ \A r, n, kt, top : (Term(r, n, kt, top))' = Term(r, n, kt, top)
  <1>1. KvStart' = KvStart /\ KvEnd' = KvEnd /\ (Running' <=> Running)
    BY Frame DEF KvStart, KvEnd, Running
  <1>2. \A r, n : (Below(r, n))' = Below(r, n)
    <2> SUFFICES ASSUME NEW r, NEW n PROVE (Below(r, n))' = Below(r, n)
      OBVIOUS
    <2>1. PICK s : s = split
      OBVIOUS
    <2>2. (KeysIn(r, s))' = KeysIn(r, s)
      BY Frame
    <2>3. (KeysIn(r, split))' = (KeysIn(r, s))'
      BY <2>1 DEF KeysIn
    <2> QED BY <2>1, <2>2, <2>3 DEF Below
  <1>3. \A r, k : (Masked(r, k))' <=> Masked(r, k)
    BY <1>1 DEF Masked
  <1>4. \A r, n, kt, top : (Term(r, n, kt, top))' = Term(r, n, kt, top)
    BY <1>3, Frame DEF Term
  <1> QED BY <1>1, <1>2, <1>4

\* From the sums of a row to the invariant of the next state.
LEMMA RowFrom ==
    ASSUME call' = call, split' = split, NEW r, NEW n,
           SumIs(r, Below(r, n), mSh'[r], lSh'[r]), (KeysBehind(r))' = n
    PROVE  (RowStands(r))'
  <1>1. PICK top, sum : top = mSh'[r] /\ sum = lSh'[r]
    OBVIOUS
  <1>2. PICK S : S = Below(r, n)
    OBVIOUS
  <1>3. SumIs(r, S, top, sum)
    BY <1>1, <1>2
  <1>4. (SumIs(r, S, top, sum))'
    BY <1>3, Frame
  <1>5. (Below(r, n))' = S
    BY <1>2, FrameBlock
  <1>6. (Below(r, KeysBehind(r)))' = S
    BY <1>5 DEF Below
  <1> QED BY <1>1, <1>4, <1>6 DEF RowStands, SumIs

LEMMA BehindFrom ==
    ASSUME call' = call, split' = split, NEW r, NEW n, NEW d,
           NEW old \in Finite \cup {NegInf},
           SumIs(r, Below(r, n), old, acc'[<<r, d>>]), corrSh'[r] = Factor(old, mSh'[r])
    PROVE  (Behind(r, n, d))'
  <1>1. PICK sum : sum = acc'[<<r, d>>]
    OBVIOUS
  <1>2. PICK S : S = Below(r, n)
    OBVIOUS
  <1>3. (SumIs(r, S, old, sum))'
    BY <1>1, <1>2, Frame
  <1>4. (Below(r, n))' = S
    BY <1>2, FrameBlock
  <1>5. (SumIs(r, Below(r, n), old, acc[<<r, d>>]))'
    BY <1>1, <1>3, <1>4 DEF SumIs
  <1> QED BY <1>5 DEF Behind, Factor

LEMMA BehindSame ==
    ASSUME call' = call, split' = split, NEW r, NEW n, NEW d, Behind(r, n, d),
           acc'[<<r, d>>] = acc[<<r, d>>], mSh'[r] = mSh[r], corrSh'[r] = corrSh[r]
    PROVE  (Behind(r, n, d))'
  <1>1. PICK old \in Finite \cup {NegInf} :
            corrSh[r] = Factor(old, mSh[r]) /\ SumIs(r, Below(r, n), old, acc[<<r, d>>])
    BY DEF Behind
  <1>2. corrSh'[r] = Factor(old, mSh'[r])
    BY <1>1
  <1>3. SumIs(r, Below(r, n), old, acc'[<<r, d>>])
    BY <1>1
  <1> QED BY <1>2, <1>3, BehindFrom

LEMMA RowSame ==
    ASSUME call' = call, split' = split, NEW r, RowStands(r),
           phase[r] # "load_q" \/ arrived[r], (KeysBehind(r))' = KeysBehind(r),
           mSh'[r] = mSh[r], lSh'[r] = lSh[r]
    PROVE  (RowStands(r))'
  <1>1. PICK n : n = KeysBehind(r)
    OBVIOUS
  <1>2. SumIs(r, Below(r, n), mSh[r], lSh[r])
    BY <1>1 DEF RowStands
  <1>3. SumIs(r, Below(r, n), mSh'[r], lSh'[r])
    BY <1>2
  <1>4. (KeysBehind(r))' = n
    BY <1>1
  <1> QED BY <1>3, <1>4, RowFrom

LEMMA FinalSame ==
    ASSUME call' = call, NEW r, NEW d, Final(r, d), out'[<<r, d>>] = out[<<r, d>>]
    PROVE  (Final(r, d))'
  BY Frame DEF Final, SumOver

LEMMA PartSame ==
    ASSUME call' = call, NEW s, NEW r, PartStands(s, r),
           \/ partial'[s][r] = partial[s][r]
           \/ partial'[s] = partial[s]
    PROVE  (PartStands(s, r))'
  <1>1. PICK S, top, sum : S = KeysIn(r, s) /\ top = partial[s][r].m /\ sum = partial[s][r].l
    OBVIOUS
  <1>2. (SumIs(r, S, top, sum))'
    BY <1>1, Frame DEF PartStands
  <1>3. (KeysIn(r, s))' = S /\ partial'[s][r].m = top /\ partial'[s][r].l = sum
    BY <1>1, Frame
  <1>4. (SumIs(r, KeysIn(r, s), partial[s][r].m, partial[s][r].l))'
    BY <1>2, <1>3 DEF SumIs
  <1>5. \A d \in Channels : partial'[s][r].acc[d] = partial'[s][r].l
    BY DEF PartStands
  <1> QED BY <1>4, <1>5 DEF PartStands

LEMMA PartsSame ==
    ASSUME PartsStand, call' = call, partial' = partial,
           \A s \in Splits : s \notin todo' \cup {split'} => s \notin todo \cup {split}
    PROVE  PartsStand'
  <1>1. Splits' = Splits /\ Rows' = Rows /\ NumSplits' = NumSplits
    BY Frame
  <1>2. ASSUME NEW s \in Splits, NEW r \in Rows, NumSplits > 1, s \notin todo' \cup {split'}
        PROVE  (PartStands(s, r))'
    <2>1. PartStands(s, r)
      BY <1>2 DEF PartsStand
    <2> QED BY <2>1, PartSame
  <1> QED BY <1>1, <1>2 DEF PartsStand

\* What holds after any step of a thread that ends at a barrier of a split.
LEMMA BlockStep ==
    ASSUME Exact, NEW t \in DOMAIN phase, NEW p \in SyncAfter \ {"reduce"}, Finish(t, p),
           UNCHANGED <<partial, mRed, lRed, out>>
    PROVE  /\ Running /\ t \in Threads /\ DOMAIN phase = Threads
           /\ \A u \in Threads : phase[u] = p /\ phase'[u] = p /\ tile0[u] = tile0[t]
           /\ UNCHANGED <<call, todo, split, phase, tile0>> /\ ~arrived[t]
           /\ \A u \in Threads : arrived'[u] = (u = t \/ arrived[u])
           /\ Stage' /\ PartsStand' /\ OutputStands' /\ split' # Combine /\ Progress'
           /\ \A u \in Threads : \A r, d : (WrittenStands(u, r, d))'
  <1>1. IInv /\ Stage /\ p \in SyncAfter /\ phase[t] = p /\ Data
    BY DEF Exact, Data, Finish
  <1>2. p \notin {"reduce", "merge", "exit"}
    BY DEF SyncAfter
  <1>3. /\ Running /\ split \notin todo /\ DOMAIN phase = Threads /\ t \in Threads
        /\ split # NoBlock /\ split # Combine
    BY <1>1, <1>2, InBlock
  <1>4. /\ \A u \in Threads : phase[u] = p /\ tile0[u] = tile0[t]
        /\ UNCHANGED <<call, todo, split, phase, tile0>> /\ ~arrived[t]
        /\ \A u \in Threads : arrived'[u] = (u = t \/ arrived[u])
    BY <1>1, <1>3, Waits
  <1>5. Stage'
    <2>1. Rows' = Rows /\ NumSplits' = NumSplits /\ Splits' = Splits /\ (Running' <=> Running)
      BY <1>4, Frame, FrameBlock
    <2>2. \A u \in Threads : phase'[u] \notin {"reduce", "merge"}
      BY <1>2, <1>4
    <2> QED BY <1>1, <1>3, <1>4, <2>1, <2>2 DEF Stage
  <1>6. PartsStand'
    BY <1>1, <1>4, PartsSame DEF Data
  <1>7. OutputStands' /\ split' # Combine
    BY <1>3, <1>4 DEF OutputStands, Done
  <1>8. Progress'
    <2>1. Progress
      BY <1>1, <1>3 DEF Data, BlockStands
    <2>2. KvStart' = KvStart /\ KvEnd' = KvEnd
      BY <1>4, FrameBlock
    <2> QED BY <1>4, <2>1, <2>2 DEF Progress
  <1>9. \A u \in Threads : \A r, d : (WrittenStands(u, r, d))'
    BY <1>2, <1>4 DEF WrittenStands
  <1> QED BY <1>3, <1>4, <1>5, <1>6, <1>7, <1>8, <1>9

\* The data of a block, piece by piece.
LEMMA BlockData ==
    ASSUME Stage', PartsStand', OutputStands', split' # Combine, Shapes', Progress', Rows' = Rows,
           \A t \in Threads, r \in Rows, d \in Channels :
               (QueryStands(t, r, d))' /\ (AccStands(t, r, d))' /\ (WrittenStands(t, r, d))',
           \A t \in Threads, kt \in TileRows, d \in Channels : (TileStands(t, kt, d))',
           \A t \in Threads, r \in Rows, kt \in TileRows : (ScoresStand(t, r, kt))',
           \A r \in Rows : (RowStands(r))'
    PROVE  Data'
  <1>1. BlockStands'
    BY DEF BlockStands
  <1> QED BY <1>1 DEF Data

-----------------------------------------------------------------------------
(* The queries and the tiles *)

\* The sums of a row over no key yet.
LEMMA NothingBelow ==
    ASSUME IInv, NEW r \in Rows, NEW n \in Nat, n = 0 \/ (Running /\ n <= KvStart)
    PROVE  Below(r, n) = {}
  <1> SUFFICES ASSUME NEW k \in Below(r, n) PROVE FALSE
    OBVIOUS
  <1>1. k \in Nat /\ k < n
    BY KeysNat DEF Below
  <1>2. CASE n = 0
    BY <1>1, <1>2
  <1>3. CASE Running /\ n <= KvStart
    <2>1. KvStart <= k /\ KvStart \in Nat
      BY <1>1, <1>3, BelowIs, RunFacts
    <2> QED BY <1>1, <1>3, <2>1
  <1> QED BY <1>2, <1>3

\* A thread loads its queries, clears its accumulators and, with a row of its
\* own, the sums of that row.
LEMMA LoadQData ==
    ASSUME Exact, NEW t \in DOMAIN phase, LoadQ(t) PROVE Data'
  <1>1. /\ Finish(t, "load_q") /\ UNCHANGED <<kSh, vSh, scores, corrSh, partial, mRed, lRed, out>>
        /\ qSh' = [i \in DOMAIN qSh |-> IF Mine(t, i[1] * HeadDim + i[2]) THEN "raw" ELSE qSh[i]]
        /\ acc' = [i \in DOMAIN acc |-> IF Mine(t, i[1] * HeadDim + i[2]) THEN NoTerms ELSE acc[i]]
        /\ mSh' = [r \in Rows |-> IF r = t THEN NegInf ELSE mSh[r]]
        /\ lSh' = [r \in Rows |-> IF r = t THEN NoTerms ELSE lSh[r]]
    BY DEF LoadQ
  <1>2. "load_q" \in SyncAfter \ {"reduce"} /\ IInv /\ Data
    BY DEF SyncAfter, Exact
  <1>3. /\ Running /\ t \in Threads
        /\ \A u \in Threads : phase[u] = "load_q" /\ phase'[u] = "load_q"
        /\ UNCHANGED <<call, todo, split, phase, tile0>> /\ ~arrived[t]
        /\ \A u \in Threads : arrived'[u] = (u = t \/ arrived[u])
        /\ Stage' /\ PartsStand' /\ OutputStands' /\ split' # Combine /\ Progress'
        /\ \A u \in Threads : \A r, d : (WrittenStands(u, r, d))'
    BY <1>1, <1>2, BlockStep
  <1>4. BlockStands /\ Rows' = Rows
    BY <1>2, <1>3, Frame DEF Data
  <1>5. Shapes'
    BY <1>1, <1>4 DEF BlockStands, Shapes
  <1>6. ASSUME NEW u \in Threads, NEW r \in Rows, NEW d \in Channels
        PROVE  (QueryStands(u, r, d))' /\ (AccStands(u, r, d))'
    <2>1. <<r, d>> \in DOMAIN qSh /\ <<r, d>> \in DOMAIN acc /\ <<r, d>>[1] = r /\ <<r, d>>[2] = d
      BY <1>4 DEF BlockStands, Shapes
    <2>2. /\ qSh'[<<r, d>>] = IF Mine(t, r * HeadDim + d) THEN "raw" ELSE qSh[<<r, d>>]
          /\ acc'[<<r, d>>] = IF Mine(t, r * HeadDim + d) THEN NoTerms ELSE acc[<<r, d>>]
      BY <1>1, <2>1
    <2>3. arrived[u] /\ Mine(u, r * HeadDim + d) => qSh[<<r, d>>] = "raw" /\ acc[<<r, d>>] = NoTerms
      BY <1>3, <1>4 DEF BlockStands, QueryStands, AccStands
    <2>4. arrived'[u] /\ Mine(u, r * HeadDim + d) => qSh'[<<r, d>>] = "raw" /\ acc'[<<r, d>>] = NoTerms
      BY <1>3, <2>2, <2>3
    <2> QED BY <1>3, <2>4 DEF QueryStands, AccStands, Mine, NoTerms, NegInf
  <1>7. ASSUME NEW r \in Rows PROVE (RowStands(r))'
    <2>1. r \in Threads
      BY <1>2, RowFacts
    <2>2. mSh'[r] = (IF r = t THEN NegInf ELSE mSh[r]) /\ lSh'[r] = (IF r = t THEN NoTerms ELSE lSh[r])
      BY <1>1
    <2>3. CASE r = t
      <3>1. tile0[r] = 0
        BY <1>3, <1>4, <2>1 DEF BlockStands, Progress
      <3>2. Below(r, 0) = {}
        BY <1>2, NothingBelow
      <3>3. SumIs(r, Below(r, 0), mSh'[r], lSh'[r])
        BY <2>2, <2>3, <3>2 DEF SumIs
      <3>4. (KeysBehind(r))' = 0
        BY <1>3, <2>1, <3>1 DEF KeysBehind, PastSoftmax
      <3> QED BY <1>3, <3>3, <3>4, RowFrom
    <2>4. CASE r # t /\ arrived[r]
      <3>1. RowStands(r)
        BY <1>4 DEF BlockStands
      <3>2. (KeysBehind(r))' = KeysBehind(r)
        BY <1>3, <2>1 DEF KeysBehind, PastSoftmax
      <3> QED BY <1>3, <2>2, <2>4, <3>1, <3>2, RowSame
    <2>5. CASE r # t /\ ~arrived[r]
      BY <1>3, <2>1, <2>5 DEF RowStands
    <2> QED BY <2>3, <2>4, <2>5
  <1>8. \A u \in Threads, kt \in TileRows, d \in Channels : (TileStands(u, kt, d))'
    BY <1>3 DEF TileStands
  <1>9. \A u \in Threads, r \in Rows, kt \in TileRows : (ScoresStand(u, r, kt))'
    BY <1>3 DEF ScoresStand
  <1> QED BY <1>3, <1>4, <1>5, <1>6, <1>7, <1>8, <1>9, BlockData

\* A pair of channels is rotated by one thread, from what was loaded.
LEMMA RopeData ==
    ASSUME Exact, NEW t \in DOMAIN phase, Rope(t) PROVE Data'
  <1>1. /\ Finish(t, "rope")
        /\ UNCHANGED <<kSh, vSh, scores, mSh, lSh, corrSh, acc, partial, mRed, lRed, out>>
        /\ qSh' = [i \in DOMAIN qSh |->
                      LET d == i[2] % Half IN
                      IF ~Mine(t, i[1] * Half + d) THEN qSh[i]
                      ELSE IF qSh[<<i[1], d>>] = "raw" /\ qSh[<<i[1], d + Half>>] = "raw"
                      THEN "rotated" ELSE "junk"]
    BY DEF Rope
  <1>2. "rope" \in SyncAfter \ {"reduce"} /\ IInv /\ Data
    BY DEF SyncAfter, Exact
  <1>3. /\ Running /\ t \in Threads
        /\ \A u \in Threads : phase[u] = "rope" /\ phase'[u] = "rope"
        /\ UNCHANGED <<call, todo, split, phase, tile0>> /\ ~arrived[t]
        /\ \A u \in Threads : arrived'[u] = (u = t \/ arrived[u])
        /\ Stage' /\ PartsStand' /\ OutputStands' /\ split' # Combine /\ Progress'
        /\ \A u \in Threads : \A r, d : (WrittenStands(u, r, d))'
    BY <1>1, <1>2, BlockStep
  <1>4. BlockStands /\ Rows' = Rows
    BY <1>2, <1>3, Frame DEF Data
  <1>5. Shapes'
    BY <1>1, <1>4 DEF BlockStands, Shapes
  <1>6. ASSUME NEW u \in Threads, NEW r \in Rows, NEW d \in Channels
        PROVE  (QueryStands(u, r, d))'
    <2> SUFFICES ASSUME Mine(u, r * Half + (d % Half))
                 PROVE  qSh'[<<r, d>>] = IF arrived'[u] THEN "rotated" ELSE "raw"
      BY <1>3 DEF QueryStands, Mine
    <2>1. <<r, d>> \in DOMAIN qSh
      BY <1>4 DEF BlockStands, Shapes
    <2>2. PICK e \in Channels : e = d % Half /\ e + Half \in Channels
                                /\ e % Half = e /\ (e + Half) % Half = e
      <3>1. d \in Nat
        BY Naturals
      <3>2. d % Half \in 0 .. Half - 1
        BY <3>1, Sizes, Places
      <3>3. PICK e \in 0 .. Half - 1 : e = d % Half
        BY <3>2
      <3>4. (1 * Half + e) % Half = e /\ (0 * Half + e) % Half = e
        BY <3>3, Sizes, PlaceOf
      <3>5. 1 * Half + e = e + Half /\ 0 * Half + e = e
        BY <3>3, Sizes
      <3> QED BY <3>3, <3>4, <3>5, Sizes DEF Channels
    <2>3. \A f \in Channels, v \in Threads :
              f % Half = e /\ Mine(v, r * Half + e) =>
                  qSh[<<r, f>>] = IF arrived[v] THEN "rotated" ELSE "raw"
      BY <1>3, <1>4 DEF BlockStands, QueryStands
    <2>4. qSh'[<<r, d>>] =
              IF ~Mine(t, r * Half + e) THEN qSh[<<r, d>>]
              ELSE IF qSh[<<r, e>>] = "raw" /\ qSh[<<r, e + Half>>] = "raw"
              THEN "rotated" ELSE "junk"
      <3>1. <<r, d>>[1] = r /\ <<r, d>>[2] = d
        OBVIOUS
      <3> QED BY <1>1, <2>1, <2>2, <3>1
    <2>5. CASE u = t
      <3>1. qSh[<<r, e>>] = "raw" /\ qSh[<<r, e + Half>>] = "raw"
        BY <1>3, <2>2, <2>3, <2>5
      <3>2. qSh'[<<r, d>>] = "rotated"
        BY <2>2, <2>4, <2>5, <3>1
      <3> QED BY <1>3, <2>5, <3>2
    <2>6. CASE u # t
      <3>1. ~Mine(t, r * Half + e)
        BY <2>2, <2>6 DEF Mine
      <3>2. qSh'[<<r, d>>] = qSh[<<r, d>>]
        BY <2>4, <3>1
      <3>3. arrived'[u] <=> arrived[u]
        BY <1>3, <2>6
      <3> QED BY <2>2, <2>3, <3>2, <3>3
    <2> QED BY <2>5, <2>6
  <1>7. ASSUME NEW r \in Rows PROVE (RowStands(r))'
    <2>1. r \in Threads /\ RowStands(r)
      BY <1>2, <1>4, RowFacts DEF BlockStands
    <2>2. (KeysBehind(r))' = KeysBehind(r) /\ phase[r] # "load_q"
      BY <1>3, <2>1 DEF KeysBehind, PastSoftmax
    <2> QED BY <1>1, <1>3, <2>1, <2>2, RowSame
  <1>8. ASSUME NEW u \in Threads, NEW r \in Rows, NEW d \in Channels
        PROVE  (AccStands(u, r, d))'
    <2>1. acc[<<r, d>>] = lSh[r]
      BY <1>3, <1>4 DEF BlockStands, AccStands
    <2> QED BY <1>1, <1>3, <2>1 DEF AccStands
  <1>9. \A u \in Threads, kt \in TileRows, d \in Channels : (TileStands(u, kt, d))'
    BY <1>3 DEF TileStands
  <1>10. \A u \in Threads, r \in Rows, kt \in TileRows : (ScoresStand(u, r, kt))'
    BY <1>3 DEF ScoresStand
  <1> QED BY <1>3, <1>4, <1>5, <1>6, <1>7, <1>8, <1>9, <1>10, BlockData

LEMMA TileKeySame ==
    ASSUME call' = call, split' = split, NEW t, tile0'[t] = tile0[t], NEW kt
    PROVE  (TileKey(t, kt))' = TileKey(t, kt)
  <1>1. KvEnd' = KvEnd
    BY FrameBlock
  <1> QED BY <1>1 DEF TileKey

\* The queries stay while the tiles go by.
LEMMA QuerySame ==
    ASSUME NEW t, NEW r, NEW d, QueryStands(t, r, d), qSh' = qSh, phase'[t] = phase[t],
           phase[t] \in {"load", "score", "softmax", "accumulate"}
    PROVE  (QueryStands(t, r, d))'
  BY DEF QueryStands

\* Keys and values of the tile, each at its place.
LEMMA LoadTileData ==
    ASSUME Exact, NEW t \in DOMAIN phase, LoadTile(t) PROVE Data'
  <1>1. /\ Finish(t, "load")
        /\ kSh' = [i \in DOMAIN kSh |->
                      IF Mine(t, i[1] * HeadDim + i[2]) THEN TileKey(t, i[1]) ELSE kSh[i]]
        /\ vSh' = [i \in DOMAIN vSh |->
                      IF Mine(t, i[1] * HeadDim + i[2]) THEN TileKey(t, i[1]) ELSE vSh[i]]
        /\ UNCHANGED <<qSh, scores, mSh, lSh, corrSh, acc, partial, mRed, lRed, out>>
    BY DEF LoadTile
  <1>2. "load" \in SyncAfter \ {"reduce"} /\ IInv /\ Data
    BY DEF SyncAfter, Exact
  <1>3. /\ Running /\ t \in Threads
        /\ \A u \in Threads : phase[u] = "load" /\ phase'[u] = "load" /\ tile0[u] = tile0[t]
        /\ UNCHANGED <<call, todo, split, phase, tile0>> /\ ~arrived[t]
        /\ \A u \in Threads : arrived'[u] = (u = t \/ arrived[u])
        /\ Stage' /\ PartsStand' /\ OutputStands' /\ split' # Combine /\ Progress'
        /\ \A u \in Threads : \A r, d : (WrittenStands(u, r, d))'
    BY <1>1, <1>2, BlockStep
  <1>4. BlockStands /\ Rows' = Rows
    BY <1>2, <1>3, Frame DEF Data
  <1>5. Shapes'
    BY <1>1, <1>4 DEF BlockStands, Shapes
  <1>6. ASSUME NEW u \in Threads, NEW kt \in TileRows, NEW d \in Channels
        PROVE  (TileStands(u, kt, d))'
    <2>1. <<kt, d>> \in DOMAIN kSh /\ <<kt, d>> \in DOMAIN vSh /\ <<kt, d>>[1] = kt /\ <<kt, d>>[2] = d
      BY <1>4 DEF BlockStands, Shapes
    <2>2. (TileKey(u, kt))' = TileKey(u, kt) /\ TileKey(u, kt) = TileKey(t, kt)
      BY <1>3, TileKeySame DEF TileKey
    <2>3. /\ kSh'[<<kt, d>>] = IF Mine(t, kt * HeadDim + d) THEN TileKey(t, kt) ELSE kSh[<<kt, d>>]
          /\ vSh'[<<kt, d>>] = IF Mine(t, kt * HeadDim + d) THEN TileKey(t, kt) ELSE vSh[<<kt, d>>]
      BY <1>1, <2>1
    <2>4. arrived[u] /\ Mine(u, kt * HeadDim + d) =>
              kSh[<<kt, d>>] = TileKey(u, kt) /\ vSh[<<kt, d>>] = TileKey(u, kt)
      BY <1>3, <1>4 DEF BlockStands, TileStands
    <2>5. arrived'[u] /\ Mine(u, kt * HeadDim + d) =>
              kSh'[<<kt, d>>] = TileKey(u, kt) /\ vSh'[<<kt, d>>] = TileKey(u, kt)
      BY <1>3, <2>2, <2>3, <2>4
    <2> QED BY <1>3, <2>2, <2>5 DEF TileStands, Mine
  <1>7. ASSUME NEW r \in Rows PROVE (RowStands(r))'
    <2>1. r \in Threads /\ RowStands(r)
      BY <1>2, <1>4, RowFacts DEF BlockStands
    <2>2. (KeysBehind(r))' = KeysBehind(r) /\ phase[r] # "load_q"
      BY <1>3, <2>1 DEF KeysBehind, PastSoftmax
    <2> QED BY <1>1, <1>3, <2>1, <2>2, RowSame
  <1>8. ASSUME NEW u \in Threads, NEW r \in Rows, NEW d \in Channels
        PROVE  (QueryStands(u, r, d))' /\ (AccStands(u, r, d))'
    <2>1. QueryStands(u, r, d) /\ acc[<<r, d>>] = lSh[r]
      BY <1>3, <1>4 DEF BlockStands, AccStands
    <2>2. (QueryStands(u, r, d))'
      BY <1>1, <1>3, <2>1, QuerySame
    <2> QED BY <1>1, <1>3, <2>1, <2>2 DEF AccStands
  <1>9. \A u \in Threads, r \in Rows, kt \in TileRows : (ScoresStand(u, r, kt))'
    BY <1>3 DEF ScoresStand
  <1> QED BY <1>3, <1>4, <1>5, <1>6, <1>7, <1>8, <1>9, BlockData

-----------------------------------------------------------------------------
(* The scores and the running softmax *)

\* The keys the tile at n brings to row r.
Tile(r, n) == Below(r, n + KvTile) \ Below(r, n)

\* A place of the tile that is not masked has a key of its own, with a finite score.
LEMMA TermFacts ==
    ASSUME IInv, Running, NEW r \in Rows, NEW n \in Nat, NEW kt \in TileRows
    PROVE  /\ n + kt \in Nat
           /\ ~Masked(r, n + kt) <=> (n + kt <= Last(r) /\ n + kt < KvEnd)
           /\ ~Masked(r, n + kt) => n + kt \in Keys /\ RowScores(r)[n + kt] \in Finite
  <1>1. n + kt \in Nat
    BY Naturals
  <1>2. Last(r) \in Nat /\ Last(r) < call.len /\ KvEnd \in Nat /\ call.len \in Nat
    BY RowFacts, RunFacts, CallFacts
  <1> DEFINE k == n + kt
  <1> HIDE DEF k
  <1>3. k \in Nat
    BY <1>1 DEF k
  <1>4. Masked(r, k) <=> (k > Last(r) \/ k >= KvEnd)
    BY DEF Masked, Last
  <1>5. ~Masked(r, k) <=> (k <= Last(r) /\ k < KvEnd)
    BY <1>2, <1>3, <1>4
  <1>6. ~Masked(r, k) => k < call.len
    BY <1>2, <1>3, <1>5
  <1>7. ~Masked(r, k) => k \in Keys /\ RowScores(r)[k] \in Finite
    BY <1>3, <1>6, FiniteScores
  <1> QED BY <1>1, <1>5, <1>7 DEF k

\* The keys of the tile are those of its places that are not masked.
LEMMA TileIs ==
    ASSUME IInv, Running, NEW r \in Rows, NEW n \in Nat, KvStart <= n, NEW k \in Keys
    PROVE  k \in Tile(r, n) <=> k - n \in TileRows /\ ~Masked(r, k)
  <1>1. k \in Nat /\ n + KvTile \in Nat /\ KvStart \in Nat /\ KvEnd \in Nat /\ KvTile \in Nat
        /\ Last(r) \in Nat
    BY KeysNat, Sizes, RunFacts, RowFacts
  <1>2. k \in Tile(r, n) <=> KvStart <= k /\ k < KvEnd /\ k <= Last(r) /\ n <= k /\ k < n + KvTile
    BY <1>1, BelowIs DEF Tile
  <1>3. k - n \in TileRows <=> n <= k /\ k < n + KvTile
    BY <1>1 DEF TileRows
  <1>4. ~Masked(r, k) <=> k <= Last(r) /\ k < KvEnd
    BY <1>1 DEF Masked, Last
  <1> QED BY <1>1, <1>2, <1>3, <1>4

LEMMA TileParts ==
    ASSUME IInv, Running, NEW r \in Rows, NEW n \in Nat
    PROVE  /\ Below(r, n) \cap Tile(r, n) = {} /\ Below(r, n) \cup Tile(r, n) = Below(r, n + KvTile)
           /\ \A k \in Below(r, n + KvTile) : RowScores(r)[k] \in Finite
  <1>1. n + KvTile \in Nat /\ KvTile \in Nat
    BY Sizes
  <1>2. Below(r, n) \subseteq Below(r, n + KvTile)
    <2> SUFFICES ASSUME NEW k \in Below(r, n) PROVE k < n + KvTile
      BY DEF Below
    <2>1. k \in Nat /\ k < n
      BY KeysNat DEF Below
    <2> QED BY <1>1, <2>1
  <1>3. ASSUME NEW k \in Below(r, n + KvTile) PROVE RowScores(r)[k] \in Finite
    <2>1. k \in Nat
      BY KeysNat DEF Below
    <2>2. k <= Last(r)
      BY <1>1, <2>1, BelowIs
    <2>3. k < call.len
      BY <2>1, <2>2, RowFacts, CallFacts
    <2> QED BY <2>1, <2>3, FiniteScores
  <1> QED BY <1>2, <1>3 DEF Tile

\* A tile more: the sum so far, moved to the new maximum, and the tile's.
LEMMA SumGrows ==
    ASSUME IInv, Running, NEW r \in Rows, NEW n \in Nat, NEW old, NEW sum, NEW top,
           SumIs(r, Below(r, n), old, sum),
           IF Below(r, n + KvTile) = {} THEN top = NegInf ELSE top \in Finite
    PROVE  SumIs(r, Below(r, n + KvTile), top,
                 Plus(Scale(sum, Factor(old, top)), SumOver(Tile(r, n), RowScores(r), top)))
  <1> DEFINE f == RowScores(r)
             S == Below(r, n)
             T == Tile(r, n)
             U == Below(r, n + KvTile)
             next == Plus(Scale(sum, Factor(old, top)), SumOver(T, f, top))
  <1>1. S \cap T = {} /\ S \cup T = U /\ \A k \in U : f[k] \in Finite
    BY TileParts
  <1>2. S = {} => Scale(sum, Factor(old, top)) = SumOver(S, f, top)
    BY ScaledEmpty, EmptySum DEF SumIs
  <1>3. S # {} => top \in Finite /\ Scale(sum, Factor(old, top)) = SumOver(S, f, top)
    <2> SUFFICES ASSUME S # {} PROVE top \in Finite /\ Scale(sum, Factor(old, top)) = SumOver(S, f, top)
      OBVIOUS
    <2>1. top \in Finite
      BY <1>1
    <2>2. old \in Finite /\ sum = SumOver(S, f, old)
      BY DEF SumIs
    <2>3. \A k \in S \cap Keys : f[k] \in Finite
      BY <1>1
    <2> HIDE DEF f, S
    <2> QED BY <2>1, <2>2, <2>3, Rescaled
  <1>4. CASE U = {}
    <2>1. S = {} /\ T = {} /\ top = NegInf
      BY <1>1, <1>4
    <2>2. next = Plus(NoTerms, NoTerms)
      BY <1>2, <2>1, EmptySum
    <2>3. Plus(NoTerms, NoTerms) = NoTerms
      BY DEF Plus, NoTerms
    <2> HIDE DEF next
    <2>4. SumIs(r, U, top, next)
      BY <1>4, <2>1, <2>2, <2>3 DEF SumIs
    <2> QED BY <2>4 DEF next
  <1>5. CASE U # {}
    <2>1. top \in Finite
      BY <1>5
    <2>2. \A k \in (S \cup T) \cap Keys : f[k] \in Finite
      BY <1>1
    <2>3. Scale(sum, Factor(old, top)) = SumOver(S, f, top)
      BY <1>2, <1>3
    <2> HIDE DEF f, S, T, U
    <2>4. Plus(SumOver(S, f, top), SumOver(T, f, top)) = SumOver(S \cup T, f, top)
      BY <1>1, <2>1, <2>2, Added
    <2>5. next = SumOver(U, f, top)
      BY <1>1, <2>3, <2>4
    <2> HIDE DEF next
    <2>6. SumIs(r, U, top, next)
      BY <1>5, <2>1, <2>5 DEF SumIs, f
    <2> QED BY <2>6 DEF next, U, f, T
  <1> QED BY <1>4, <1>5

\* The scores of a thread's places, from the rotated queries and the keys of the tile.
LEMMA ScoresData ==
    ASSUME Exact, NEW t \in DOMAIN phase, Scores(t) PROVE Data'
  <1>1. /\ Finish(t, "score")
        /\ scores' = [i \in DOMAIN scores |->
                         IF ~Mine(t, i[1] * KvTile + i[2]) THEN scores[i]
                         ELSE IF Masked(i[1], tile0[t] + i[2]) THEN [key |-> Zero, e |-> NegInf]
                         ELSE Dot(i[1], i[2])]
        /\ UNCHANGED <<qSh, kSh, vSh, mSh, lSh, corrSh, acc, partial, mRed, lRed, out>>
    BY DEF Scores
  <1>2. "score" \in SyncAfter \ {"reduce"} /\ IInv /\ Data
    BY DEF SyncAfter, Exact
  <1>3. /\ Running /\ t \in Threads
        /\ \A u \in Threads : phase[u] = "score" /\ phase'[u] = "score" /\ tile0[u] = tile0[t]
        /\ UNCHANGED <<call, todo, split, phase, tile0>> /\ ~arrived[t]
        /\ \A u \in Threads : arrived'[u] = (u = t \/ arrived[u])
        /\ Stage' /\ PartsStand' /\ OutputStands' /\ split' # Combine /\ Progress'
        /\ \A u \in Threads : \A r, d : (WrittenStands(u, r, d))'
    BY <1>1, <1>2, BlockStep
  <1>4. BlockStands /\ Rows' = Rows
    BY <1>2, <1>3, Frame DEF Data
  <1>5. Shapes'
    BY <1>1, <1>4 DEF BlockStands, Shapes
  <1>6. PICK n \in Nat : n = tile0[t]
    BY <1>3, <1>4 DEF BlockStands, Progress
  <1>7. ASSUME NEW r \in Rows, NEW kt \in TileRows, ~Masked(r, n + kt)
        PROVE  Dot(r, kt) = Term(r, n, kt, 0)
    <2> DEFINE k == n + kt
    <2>1. /\ k \in Nat /\ k \in Keys /\ k < KvEnd /\ RowScores(r)[k] \in Finite
          /\ RowScores(r)[k] = Score(call.shape, r, k)
      <3>1. k \in Nat /\ k < KvEnd /\ k \in Keys /\ RowScores(r)[k] \in Finite
        BY <1>2, <1>3, <1>7, TermFacts
      <3> QED BY <3>1 DEF RowScores
    <2>2. TileKey(t, kt) = k
      BY <1>6, <2>1 DEF TileKey
    <2>3. \A d \in Channels : qSh[<<r, d>>] = "rotated" /\ kSh[<<kt, d>>] = k
      BY <1>3, <1>4, <2>2 DEF BlockStands, QueryStands, TileStands
    <2>4. 0 \in Channels
      BY Sizes DEF Channels
    <2>5. Term(r, n, kt, 0) = [key |-> k, e |-> RowScores(r)[k] - 0]
      BY <1>7 DEF Term
    <2> HIDE DEF k
    <2>6. kSh[<<kt, 0>>] = k
      BY <2>3, <2>4
    <2>7. Dot(r, kt) = [key |-> k, e |-> Score(call.shape, r, k)]
      BY <2>1, <2>3, <2>6 DEF Dot
    <2>8. RowScores(r)[k] - 0 = RowScores(r)[k]
      <3>1. \A x \in Int : x - 0 = x
        OBVIOUS
      <3> QED BY <2>1, <3>1, Sentinels
    <2> QED BY <2>1, <2>5, <2>7, <2>8
  <1>8. ASSUME NEW u \in Threads, NEW r \in Rows, NEW kt \in TileRows
        PROVE  (ScoresStand(u, r, kt))'
    <2>1. <<r, kt>> \in DOMAIN scores /\ <<r, kt>>[1] = r /\ <<r, kt>>[2] = kt
      BY <1>4 DEF BlockStands, Shapes
    <2>2. scores'[<<r, kt>>] = IF ~Mine(t, r * KvTile + kt) THEN scores[<<r, kt>>]
                               ELSE IF Masked(r, n + kt) THEN [key |-> Zero, e |-> NegInf]
                               ELSE Dot(r, kt)
      BY <1>1, <1>6, <2>1
    <2>3. Mine(t, r * KvTile + kt) => scores'[<<r, kt>>] = Term(r, n, kt, 0)
      BY <1>7, <2>2 DEF Term
    <2>4. arrived[u] /\ Mine(u, r * KvTile + kt) => scores[<<r, kt>>] = Term(r, n, kt, 0)
      BY <1>3, <1>4, <1>6 DEF BlockStands, ScoresStand
    <2>5. arrived'[u] /\ Mine(u, r * KvTile + kt) => scores'[<<r, kt>>] = Term(r, n, kt, 0)
      BY <1>3, <2>2, <2>3, <2>4
    <2>6. (Term(r, tile0[u], kt, 0))' = Term(r, n, kt, 0)
      <3>1. tile0'[u] = n
        BY <1>3, <1>6
      <3>2. (Term(r, n, kt, 0))' = Term(r, n, kt, 0)
        BY <1>3, FrameBlock
      <3> QED BY <3>1, <3>2 DEF Term, Masked, RowScores
    <2> QED BY <1>3, <2>5, <2>6 DEF ScoresStand, Mine
  <1>9. ASSUME NEW r \in Rows PROVE (RowStands(r))'
    <2>1. r \in Threads /\ RowStands(r)
      BY <1>2, <1>4, RowFacts DEF BlockStands
    <2>2. (KeysBehind(r))' = KeysBehind(r) /\ phase[r] # "load_q"
      BY <1>3, <2>1 DEF KeysBehind, PastSoftmax
    <2> QED BY <1>1, <1>3, <2>1, <2>2, RowSame
  <1>10. ASSUME NEW u \in Threads, NEW r \in Rows, NEW d \in Channels
        PROVE  (QueryStands(u, r, d))' /\ (AccStands(u, r, d))'
    <2>1. QueryStands(u, r, d) /\ acc[<<r, d>>] = lSh[r]
      BY <1>3, <1>4 DEF BlockStands, AccStands
    <2>2. (QueryStands(u, r, d))'
      BY <1>1, <1>3, <2>1, QuerySame
    <2> QED BY <1>1, <1>3, <2>1, <2>2 DEF AccStands
  <1>11. ASSUME NEW u \in Threads, NEW kt \in TileRows, NEW d \in Channels
         PROVE  (TileStands(u, kt, d))'
    <2>1. kSh[<<kt, d>>] = TileKey(u, kt) /\ vSh[<<kt, d>>] = TileKey(u, kt)
      BY <1>3, <1>4 DEF BlockStands, TileStands
    <2>2. (TileKey(u, kt))' = TileKey(u, kt)
      BY <1>3, TileKeySame
    <2> QED BY <1>1, <2>1, <2>2 DEF TileStands
  <1> QED BY <1>3, <1>4, <1>5, <1>8, <1>9, <1>10, <1>11, BlockData

\* The largest score of the tile, if the row sees any of it.
LEMMA TileMaxIs ==
    ASSUME IInv, Running, NEW r \in Rows, NEW n \in Nat, KvStart <= n,
           \A kt \in TileRows : scores[<<r, kt>>] = Term(r, n, kt, 0)
    PROVE  IF Tile(r, n) = {} THEN TileMax(r) = NegInf ELSE TileMax(r) \in Finite
  <1> DEFINE es == {scores[<<r, kt>>].e : kt \in TileRows}
             top == CHOOSE e \in es : \A f \in es : e >= f
  <1>1. TileMax(r) = top
    BY DEF TileMax
  <1>2. ASSUME NEW kt \in TileRows
        PROVE  /\ Masked(r, n + kt) => scores[<<r, kt>>].e = NegInf
               /\ ~Masked(r, n + kt) => scores[<<r, kt>>].e \in Finite
    <2>1. CASE Masked(r, n + kt)
      <3>1. Term(r, n, kt, 0) = [key |-> Zero, e |-> NegInf]
        BY <2>1 DEF Term
      <3> QED BY <2>1, <3>1
    <2>2. CASE ~Masked(r, n + kt)
      <3>1. Term(r, n, kt, 0) = [key |-> n + kt, e |-> RowScores(r)[n + kt] - 0]
        BY <2>2 DEF Term
      <3>2. RowScores(r)[n + kt] \in Finite
        BY <2>2, TermFacts
      <3>3. \A x \in Int : x - 0 = x
        OBVIOUS
      <3>4. RowScores(r)[n + kt] - 0 = RowScores(r)[n + kt]
        BY <3>2, <3>3, Sentinels
      <3> QED BY <2>2, <3>1, <3>2, <3>4
    <2> QED BY <2>1, <2>2
  <1>3. es \subseteq Finite \cup {NegInf}
    BY <1>2
  <1>4. CASE Tile(r, n) = {}
    <2>1. \A kt \in TileRows : Masked(r, n + kt)
      <3> SUFFICES ASSUME NEW kt \in TileRows, ~Masked(r, n + kt) PROVE FALSE
        OBVIOUS
      <3>1. n + kt \in Keys
        BY TermFacts
      <3>2. (n + kt) - n = kt
        BY Naturals
      <3>3. PICK k \in Keys : k = n + kt /\ k - n \in TileRows /\ ~Masked(r, k)
        BY <3>1, <3>2
      <3>4. k \in Tile(r, n)
        BY <3>3, TileIs
      <3> QED BY <1>4, <3>4
    <2>2. es = {NegInf}
      <3>1. 0 \in TileRows
        BY Sizes DEF TileRows
      <3> QED BY <1>2, <2>1, <3>1
    <2>3. (CHOOSE e \in {NegInf} : \A f \in {NegInf} : e >= f) = NegInf
      <3>1. NegInf >= NegInf
        BY Sentinels
      <3> QED BY <3>1
    <2> HIDE DEF es
    <2> QED BY <1>1, <1>4, <2>2, <2>3
  <1>5. CASE Tile(r, n) # {}
    <2>1. PICK k \in Keys : k \in Tile(r, n)
      BY <1>5 DEF Tile, Below
    <2>2. k - n \in TileRows /\ ~Masked(r, k) /\ n + (k - n) = k
      <3>1. k \in Nat
        BY <2>1, KeysNat
      <3> QED BY <2>1, <3>1, TileIs
    <2>3. scores[<<r, k - n>>].e \in Finite
      BY <1>2, <2>2
    <2>4. es \cap Finite # {}
      BY <2>2, <2>3
    <2> HIDE DEF es
    <2>5. top \in Finite
      BY <1>3, <2>4, MaximumIs
    <2> QED BY <1>1, <1>5, <2>5
  <1> QED BY <1>4, <1>5

TermsOf(terms, r, n, top) == \A kt \in TileRows : terms[kt] = Term(r, n, kt, top)

\* One term for each key of the tile, and none for another, is the sum over them.
LEMMA TermsAdd ==
    ASSUME IInv, Running, NEW r \in Rows, NEW n \in Nat, KvStart <= n, NEW top, NEW terms,
           TermsOf(terms, r, n, top)
    PROVE  /\ \A k \in Keys : k \in Tile(r, n) =>
                  /\ k - n \in TileRows /\ {kt \in TileRows : terms[kt].key = k} = {k - n}
                  /\ terms[k - n].key = k /\ terms[k - n].e = RowScores(r)[k] - top
           /\ \A k \in Keys : k \notin Tile(r, n) => {kt \in TileRows : terms[kt].key = k} = {}
  <1>1. ASSUME NEW k \in Keys, NEW kt \in TileRows, terms[kt].key = k
        PROVE  k = n + kt /\ ~Masked(r, k) /\ k - n = kt
    <2>1. k # Zero
      BY KeysNat DEF Zero
    <2>2. CASE Masked(r, n + kt)
      <3>1. terms[kt] = [key |-> Zero, e |-> NegInf]
        BY <2>2 DEF Term, TermsOf
      <3> QED BY <1>1, <2>1, <3>1
    <2>3. CASE ~Masked(r, n + kt)
      <3>1. terms[kt] = [key |-> n + kt, e |-> RowScores(r)[n + kt] - top]
        BY <2>3 DEF Term, TermsOf
      <3>2. k = n + kt
        BY <1>1, <3>1
      <3> QED BY <2>3, <3>2, Naturals
    <2> QED BY <2>2, <2>3
  <1>2. ASSUME NEW k \in Keys, k \in Tile(r, n)
        PROVE  /\ k - n \in TileRows /\ {kt \in TileRows : terms[kt].key = k} = {k - n}
               /\ terms[k - n].key = k /\ terms[k - n].e = RowScores(r)[k] - top
    <2>1. k - n \in TileRows /\ ~Masked(r, k) /\ n + (k - n) = k
      BY <1>2, KeysNat, TileIs
    <2>2. terms[k - n] = [key |-> k, e |-> RowScores(r)[k] - top]
      <3>1. PICK j \in TileRows : j = k - n /\ n + j = k
        BY <2>1
      <3>2. terms[j] = [key |-> n + j, e |-> RowScores(r)[n + j] - top]
        BY <2>1, <3>1 DEF Term, TermsOf
      <3> QED BY <3>1, <3>2
    <2>3. terms[k - n].key = k /\ terms[k - n].e = RowScores(r)[k] - top
      BY <2>2
    <2> QED BY <1>1, <2>1, <2>3
  <1>3. ASSUME NEW k \in Keys, k \notin Tile(r, n), NEW kt \in TileRows, terms[kt].key = k
        PROVE  FALSE
    <2>1. k = n + kt /\ ~Masked(r, k) /\ k - n = kt
      BY <1>1, <1>3
    <2> QED BY <1>3, <2>1, TileIs
  <1> QED BY <1>2, <1>3

\* The sum the softmax makes of a tile, and the one the product with V makes.
LEMMA RowTerms ==
    ASSUME IInv, Running, NEW r \in Rows, NEW n \in Nat, KvStart <= n, NEW top, NEW terms,
           TermsOf(terms, r, n, top)
    PROVE  [k \in Keys |-> IF \E kt \in TileRows : terms[kt].key = k
                           THEN (CHOOSE p \in {terms[kt] : kt \in TileRows} : p.key = k).e
                           ELSE NegInf]
           = SumOver(Tile(r, n), RowScores(r), top)
  <1>1. /\ \A k \in Keys : k \in Tile(r, n) =>
               /\ k - n \in TileRows /\ {kt \in TileRows : terms[kt].key = k} = {k - n}
               /\ terms[k - n].key = k /\ terms[k - n].e = RowScores(r)[k] - top
        /\ \A k \in Keys : k \notin Tile(r, n) => {kt \in TileRows : terms[kt].key = k} = {}
    BY TermsAdd
  <1> SUFFICES ASSUME NEW k \in Keys
               PROVE  (IF \E kt \in TileRows : terms[kt].key = k
                       THEN (CHOOSE p \in {terms[kt] : kt \in TileRows} : p.key = k).e
                       ELSE NegInf)
                      = IF k \in Tile(r, n) THEN RowScores(r)[k] - top ELSE NegInf
    BY DEF SumOver
  <1>2. CASE k \in Tile(r, n)
    <2> DEFINE ps == {terms[kt] : kt \in TileRows}
               q == CHOOSE p \in ps : p.key = k
    <2>1. terms[k - n] \in ps /\ terms[k - n].key = k
      BY <1>1, <1>2
    <2>2. q \in ps /\ q.key = k
      BY <2>1
    <2>3. q = terms[k - n]
      <3>1. PICK kt \in TileRows : q = terms[kt]
        BY <2>2
      <3> HIDE DEF q
      <3>2. kt \in {j \in TileRows : terms[j].key = k}
        BY <2>2, <3>1
      <3>3. kt = k - n
        BY <1>1, <1>2, <3>2
      <3> QED BY <3>1, <3>3
    <2>4. \E kt \in TileRows : terms[kt].key = k
      BY <1>1, <1>2
    <2>5. terms[k - n].e = RowScores(r)[k] - top
      BY <1>1, <1>2
    <2> HIDE DEF q
    <2> QED BY <1>2, <2>3, <2>4, <2>5 DEF q
  <1>3. CASE k \notin Tile(r, n)
    BY <1>1, <1>3
  <1> QED BY <1>2, <1>3

LEMMA WeightedTerms ==
    ASSUME IInv, Running, NEW r \in Rows, NEW d \in Channels, NEW n \in Nat, KvStart <= n, NEW top,
           \A kt \in TileRows : scores[<<r, kt>>] = Term(r, n, kt, top),
           \A kt \in TileRows : vSh[<<kt, d>>] = IF n + kt < KvEnd THEN n + kt ELSE Zero
    PROVE  Weighted(r, d) = SumOver(Tile(r, n), RowScores(r), top)
  <1> DEFINE terms == [kt \in TileRows |-> scores[<<r, kt>>]]
             mine(k) == {kt \in TileRows : scores[<<r, kt>>].key = k}
  <1>0. TermsOf(terms, r, n, top)
    BY DEF TermsOf
  <1>1. \A k : {kt \in TileRows : terms[kt].key = k} = mine(k)
    OBVIOUS
  <1> HIDE DEF terms
  <1>2. /\ \A k \in Keys : k \in Tile(r, n) =>
               /\ k - n \in TileRows /\ {kt \in TileRows : terms[kt].key = k} = {k - n}
               /\ terms[k - n].key = k /\ terms[k - n].e = RowScores(r)[k] - top
        /\ \A k \in Keys : k \notin Tile(r, n) => {kt \in TileRows : terms[kt].key = k} = {}
    BY <1>0, TermsAdd
  <1>3. ASSUME NEW k \in Keys, k \in Tile(r, n)
        PROVE  /\ mine(k) = {k - n} /\ vSh[<<k - n, d>>] = k
               /\ scores[<<r, k - n>>].e = RowScores(r)[k] - top
    <2>1. k - n \in TileRows /\ mine(k) = {k - n} /\ terms[k - n].e = RowScores(r)[k] - top
      BY <1>1, <1>2, <1>3
    <2>2. terms[k - n] = scores[<<r, k - n>>]
      BY <2>1 DEF terms
    <2>3. ~Masked(r, k) /\ n + (k - n) = k
      BY <1>3, KeysNat, TileIs
    <2>4. k < KvEnd
      BY <2>3, KeysNat, RunFacts DEF Masked
    <2>5. vSh[<<k - n, d>>] = k
      <3>1. PICK j \in TileRows : j = k - n /\ n + j = k
        BY <2>1, <2>3
      <3> QED BY <2>4, <3>1
    <2> QED BY <2>1, <2>2, <2>5
  <1>4. ASSUME NEW k \in Keys
        PROVE  (IF mine(k) = {} THEN NegInf
                ELSE IF Cardinality(mine(k)) = 1 /\ \A kt \in mine(k) : vSh[<<kt, d>>] = k
                THEN scores[<<r, CHOOSE kt \in mine(k) : TRUE>>].e ELSE Junk)
               = IF k \in Tile(r, n) THEN RowScores(r)[k] - top ELSE NegInf
    <2>1. CASE k \in Tile(r, n)
      <3>1. /\ mine(k) = {k - n} /\ vSh[<<k - n, d>>] = k
            /\ scores[<<r, k - n>>].e = RowScores(r)[k] - top
        BY <1>3, <2>1
      <3>2. Cardinality({k - n}) = 1 /\ (CHOOSE kt \in {k - n} : TRUE) = k - n
        <4>1. Cardinality({k - n}) = 1
          BY FS_Singleton
        <4> QED BY <4>1
      <3> HIDE DEF mine
      <3>3. \A kt \in {k - n} : vSh[<<kt, d>>] = k
        BY <3>1
      <3> QED BY <2>1, <3>1, <3>2, <3>3
    <2>2. CASE k \notin Tile(r, n)
      BY <1>1, <1>2, <2>2
    <2> QED BY <2>1, <2>2
  <1>5. Weighted(r, d) =
            [k \in Keys |->
                IF mine(k) = {} THEN NegInf
                ELSE IF Cardinality(mine(k)) = 1 /\ \A kt \in mine(k) : vSh[<<kt, d>>] = k
                THEN scores[<<r, CHOOSE kt \in mine(k) : TRUE>>].e ELSE Junk]
    BY DEF Weighted
  <1> HIDE DEF mine
  <1> QED BY <1>4, <1>5 DEF SumOver

\* The maximum once the tile is in: one of the scores seen so far, if any was.
LEMMA TopIs ==
    ASSUME IInv, Running, NEW r \in Rows, NEW n \in Nat, KvStart <= n,
           \A kt \in TileRows : scores[<<r, kt>>] = Term(r, n, kt, 0),
           NEW old, NEW sum, SumIs(r, Below(r, n), old, sum)
    PROVE  /\ IF Below(r, n + KvTile) = {} THEN Larger(old, TileMax(r)) = NegInf
              ELSE Larger(old, TileMax(r)) \in Finite
           /\ old \in Finite \cup {NegInf}
  <1>1. IF Tile(r, n) = {} THEN TileMax(r) = NegInf ELSE TileMax(r) \in Finite
    BY TileMaxIs
  <1>2. IF Below(r, n) = {} THEN old = NegInf ELSE old \in Finite
    BY DEF SumIs
  <1>3. Below(r, n + KvTile) = {} <=> Below(r, n) = {} /\ Tile(r, n) = {}
    BY TileParts
  <1>4. \A x \in Finite : x > NegInf /\ ~(NegInf > x)
    BY Sentinels
  <1>5. \A x, y \in Finite : Larger(x, y) \in Finite
    BY DEF Larger
  <1> QED BY <1>1, <1>2, <1>3, <1>4, <1>5 DEF Larger

\* What the softmax makes of a score.
LEMMA ProbIs ==
    ASSUME IInv, Running, NEW r \in Rows, NEW n \in Nat, KvStart <= n, NEW kt \in TileRows,
           NEW top, IF Below(r, n + KvTile) = {} THEN top = NegInf ELSE top \in Finite,
           NEW s, s = Term(r, n, kt, 0)
    PROVE  (IF s.e = NegInf \/ top = NegInf THEN [key |-> Zero, e |-> NegInf]
            ELSE [s EXCEPT !.e = @ - top]) = Term(r, n, kt, top)
  <1>1. CASE Masked(r, n + kt)
    <2>1. s = [key |-> Zero, e |-> NegInf] /\ Term(r, n, kt, top) = [key |-> Zero, e |-> NegInf]
      BY <1>1 DEF Term
    <2>2. s.e = NegInf
      BY <2>1
    <2> QED BY <2>1, <2>2
  <1>2. CASE ~Masked(r, n + kt)
    <2>1. PICK k : k = n + kt
      OBVIOUS
    <2>2. k \in Keys /\ RowScores(r)[k] \in Finite /\ k - n = kt /\ ~Masked(r, k)
      <3>1. n + kt \in Keys /\ RowScores(r)[n + kt] \in Finite
        BY <1>2, TermFacts
      <3>2. (n + kt) - n = kt
        BY Naturals
      <3> QED BY <1>2, <2>1, <3>1, <3>2
    <2>3. k \in Tile(r, n)
      BY <2>2, TileIs
    <2>4. top \in Finite
      BY <2>3, TileParts
    <2>5. PICK x \in Finite : x = RowScores(r)[k]
      BY <2>2
    <2>6. s = [key |-> k, e |-> x - 0] /\ Term(r, n, kt, top) = [key |-> k, e |-> x - top]
      BY <1>2, <2>1, <2>5 DEF Term
    <2>7. x - 0 = x /\ x # NegInf /\ top # NegInf
      BY <2>4, Sentinels
    <2>8. s = [key |-> k, e |-> x] /\ s.e = x
      BY <2>6, <2>7
    <2>9. [s EXCEPT !.e = @ - top] = [key |-> k, e |-> x - top]
      BY <2>8
    <2> QED BY <2>6, <2>7, <2>8, <2>9
  <1> QED BY <1>1, <1>2

\* The thread of a row moves it to the new maximum and adds the tile; the
\* accumulators of the row stay a tile behind.
LEMMA SoftmaxRow ==
    ASSUME IInv, Running, NEW r \in Rows, NEW n \in Nat, KvStart <= n, Shapes,
           \A kt \in TileRows : scores[<<r, kt>>] = Term(r, n, kt, 0),
           SumIs(r, Below(r, n), mSh[r], lSh[r]), Softmax(r)
    PROVE  /\ \A kt \in TileRows : scores'[<<r, kt>>] = Term(r, n, kt, mSh'[r])
           /\ SumIs(r, Below(r, n + KvTile), mSh'[r], lSh'[r])
           /\ mSh[r] \in Finite \cup {NegInf} /\ corrSh'[r] = Factor(mSh[r], mSh'[r])
           /\ \A i \in DOMAIN scores : i[1] # r => scores'[i] = scores[i]
           /\ \A q \in Rows : q # r => /\ mSh'[q] = mSh[q] /\ lSh'[q] = lSh[q]
                                       /\ corrSh'[q] = corrSh[q]
           /\ DOMAIN scores' = DOMAIN scores /\ DOMAIN mSh' = DOMAIN mSh
           /\ DOMAIN lSh' = DOMAIN lSh /\ DOMAIN corrSh' = DOMAIN corrSh
  <1> DEFINE new == Larger(mSh[r], TileMax(r))
             Prob(s) == IF s.e = NegInf \/ new = NegInf THEN [key |-> Zero, e |-> NegInf]
                        ELSE [s EXCEPT !.e = @ - new]
             probs == [kt \in TileRows |-> Prob(scores[<<r, kt>>])]
  <1>1. /\ scores' = [i \in DOMAIN scores |-> IF i[1] = r THEN probs[i[2]] ELSE scores[i]]
        /\ mSh' = [mSh EXCEPT ![r] = new]
        /\ corrSh' = [corrSh EXCEPT ![r] = Factor(mSh[r], new)]
        /\ lSh' = [lSh EXCEPT ![r] = RowSum(@, Factor(mSh[r], new), probs)]
    BY DEF Softmax
  <1>2. /\ DOMAIN mSh = Rows /\ DOMAIN lSh = Rows /\ DOMAIN corrSh = Rows
        /\ DOMAIN scores = Rows \X TileRows
    BY DEF Shapes
  <1>3. /\ IF Below(r, n + KvTile) = {} THEN new = NegInf ELSE new \in Finite
        /\ mSh[r] \in Finite \cup {NegInf}
    BY TopIs
  <1>4. ASSUME NEW kt \in TileRows PROVE Prob(scores[<<r, kt>>]) = Term(r, n, kt, new)
    <2> HIDE DEF new
    <2> QED BY <1>3, ProbIs
  <1> HIDE DEF new, Prob
  <1>5. \A kt \in TileRows : probs[kt] = Term(r, n, kt, new)
    BY <1>4
  <1>6. mSh'[r] = new /\ corrSh'[r] = Factor(mSh[r], new)
        /\ lSh'[r] = RowSum(lSh[r], Factor(mSh[r], new), probs)
    BY <1>1, <1>2
  <1>7. ASSUME NEW kt \in TileRows PROVE scores'[<<r, kt>>] = Term(r, n, kt, new)
    <2>1. <<r, kt>> \in DOMAIN scores /\ <<r, kt>>[1] = r /\ <<r, kt>>[2] = kt
      BY <1>2
    <2>2. scores'[<<r, kt>>] = probs[kt]
      BY <1>1, <2>1
    <2> QED BY <1>5, <2>2
  <1>8. \A i \in DOMAIN scores : i[1] # r => scores'[i] = scores[i]
    BY <1>1
  <1>9. /\ \A q \in Rows : q # r => mSh'[q] = mSh[q] /\ lSh'[q] = lSh[q] /\ corrSh'[q] = corrSh[q]
        /\ DOMAIN scores' = DOMAIN scores /\ DOMAIN mSh' = DOMAIN mSh
        /\ DOMAIN lSh' = DOMAIN lSh /\ DOMAIN corrSh' = DOMAIN corrSh
    BY <1>1
  <1>10. TermsOf(probs, r, n, new)
    BY <1>5 DEF TermsOf
  <1> HIDE DEF probs
  <1>11. RowSum(lSh[r], Factor(mSh[r], new), probs)
             = Plus(Scale(lSh[r], Factor(mSh[r], new)), SumOver(Tile(r, n), RowScores(r), new))
    BY <1>10, RowTerms DEF RowSum
  <1>12. SumIs(r, Below(r, n + KvTile), new,
               Plus(Scale(lSh[r], Factor(mSh[r], new)), SumOver(Tile(r, n), RowScores(r), new)))
    BY <1>3, SumGrows
  <1> QED BY <1>3, <1>6, <1>7, <1>8, <1>9, <1>11, <1>12

LEMMA SoftmaxData ==
    ASSUME Exact, NEW t \in DOMAIN phase, Softmax(t) PROVE Data'
  <1>1. /\ Finish(t, "softmax")
        /\ UNCHANGED <<qSh, kSh, vSh, acc, partial, mRed, lRed, out>>
        /\ t \notin Rows => UNCHANGED <<scores, mSh, lSh, corrSh>>
    BY DEF Softmax
  <1>2. "softmax" \in SyncAfter \ {"reduce"} /\ IInv /\ Data
    BY DEF SyncAfter, Exact
  <1>3. /\ Running /\ t \in Threads
        /\ \A u \in Threads : phase[u] = "softmax" /\ phase'[u] = "softmax" /\ tile0[u] = tile0[t]
        /\ UNCHANGED <<call, todo, split, phase, tile0>> /\ ~arrived[t]
        /\ \A u \in Threads : arrived'[u] = (u = t \/ arrived[u])
        /\ Stage' /\ PartsStand' /\ OutputStands' /\ split' # Combine /\ Progress'
        /\ \A u \in Threads : \A r, d : (WrittenStands(u, r, d))'
    BY <1>1, <1>2, BlockStep
  <1>4. BlockStands /\ Rows' = Rows /\ Shapes
    BY <1>2, <1>3, Frame DEF Data, BlockStands
  <1>5. PICK n \in Nat : n = tile0[t] /\ KvStart <= n
    BY <1>3, <1>4 DEF BlockStands, Progress
  <1>6. t \in Rows =>
           /\ \A kt \in TileRows : scores'[<<t, kt>>] = Term(t, n, kt, mSh'[t])
           /\ SumIs(t, Below(t, n + KvTile), mSh'[t], lSh'[t])
           /\ mSh[t] \in Finite \cup {NegInf} /\ corrSh'[t] = Factor(mSh[t], mSh'[t])
           /\ SumIs(t, Below(t, n), mSh[t], lSh[t])
           /\ \A i \in DOMAIN scores : i[1] # t => scores'[i] = scores[i]
           /\ \A q \in Rows : q # t => /\ mSh'[q] = mSh[q] /\ lSh'[q] = lSh[q]
                                       /\ corrSh'[q] = corrSh[q]
           /\ DOMAIN scores' = DOMAIN scores /\ DOMAIN mSh' = DOMAIN mSh
           /\ DOMAIN lSh' = DOMAIN lSh /\ DOMAIN corrSh' = DOMAIN corrSh
    <2> SUFFICES ASSUME t \in Rows
                 PROVE  /\ \A kt \in TileRows : scores[<<t, kt>>] = Term(t, n, kt, 0)
                        /\ SumIs(t, Below(t, n), mSh[t], lSh[t])
      BY <1>2, <1>3, <1>4, <1>5, SoftmaxRow
    <2>1. \A kt \in TileRows : scores[<<t, kt>>] = Term(t, n, kt, 0)
      BY <1>3, <1>4, <1>5 DEF BlockStands, ScoresStand
    <2>2. RowStands(t) /\ KeysBehind(t) = n
      BY <1>3, <1>4, <1>5 DEF BlockStands, KeysBehind, PastSoftmax
    <2>3. SumIs(t, Below(t, n), mSh[t], lSh[t])
      BY <1>3, <2>2 DEF RowStands
    <2> QED BY <2>1, <2>3
  <1>7. /\ \A r \in Rows : r # t => /\ mSh'[r] = mSh[r] /\ lSh'[r] = lSh[r] /\ corrSh'[r] = corrSh[r]
        /\ \A r \in Rows, kt \in TileRows : r # t => scores'[<<r, kt>>] = scores[<<r, kt>>]
        /\ DOMAIN scores' = DOMAIN scores /\ DOMAIN mSh' = DOMAIN mSh
        /\ DOMAIN lSh' = DOMAIN lSh /\ DOMAIN corrSh' = DOMAIN corrSh
    <2>1. \A r \in Rows, kt \in TileRows : <<r, kt>> \in DOMAIN scores /\ <<r, kt>>[1] = r
      BY <1>4 DEF Shapes
    <2> QED BY <1>1, <1>6, <2>1
  <1>8. Shapes'
    BY <1>1, <1>4, <1>7 DEF Shapes
  <1>9. ASSUME NEW u \in Threads, NEW r \in Rows, NEW kt \in TileRows
        PROVE  (ScoresStand(u, r, kt))'
    <2>1. PICK top : top = mSh'[r]
      OBVIOUS
    <2>2. (Term(r, n, kt, top))' = Term(r, n, kt, top) /\ (Term(r, n, kt, 0))' = Term(r, n, kt, 0)
      BY <1>3, FrameBlock
    <2>3. tile0'[u] = n /\ tile0[u] = n
      BY <1>3, <1>5
    <2>4. /\ (Term(r, tile0[u], kt, mSh[r]))' = Term(r, n, kt, top)
          /\ (Term(r, tile0[u], kt, 0))' = Term(r, n, kt, 0)
      BY <2>1, <2>2, <2>3 DEF Term, Masked, RowScores
    <2>5. u = r => IF arrived'[u] THEN scores'[<<r, kt>>] = Term(r, n, kt, top)
                   ELSE scores'[<<r, kt>>] = Term(r, n, kt, 0)
      <3>1. CASE r = t
        BY <1>3, <1>6, <2>1, <3>1
      <3>2. CASE r # t
        <4>1. ScoresStand(u, r, kt)
          BY <1>4 DEF BlockStands
        <4>2. u = r => IF arrived[u] THEN scores[<<r, kt>>] = Term(r, n, kt, mSh[r])
                       ELSE scores[<<r, kt>>] = Term(r, n, kt, 0)
          BY <1>3, <2>3, <4>1 DEF ScoresStand
        <4> QED BY <1>3, <1>7, <2>1, <3>2, <4>2
      <3> QED BY <3>1, <3>2
    <2> QED BY <1>3, <2>4, <2>5 DEF ScoresStand
  <1>10. ASSUME NEW r \in Rows PROVE (RowStands(r))'
    <2>1. r \in Threads /\ RowStands(r)
      BY <1>2, <1>4, RowFacts DEF BlockStands
    <2>2. CASE r = t
      <3>1. (KeysBehind(r))' = n + KvTile
        BY <1>3, <1>5, <2>1, <2>2 DEF KeysBehind, PastSoftmax
      <3>2. SumIs(r, Below(r, n + KvTile), mSh'[r], lSh'[r])
        BY <1>6, <2>2
      <3> QED BY <1>3, <3>1, <3>2, RowFrom
    <2>3. CASE r # t
      <3>1. (KeysBehind(r))' = KeysBehind(r) /\ phase[r] # "load_q"
        BY <1>3, <2>1, <2>3 DEF KeysBehind, PastSoftmax
      <3>2. mSh'[r] = mSh[r] /\ lSh'[r] = lSh[r]
        BY <1>7, <2>3
      <3> QED BY <1>3, <2>1, <3>1, <3>2, RowSame
    <2> QED BY <2>2, <2>3
  <1>11. ASSUME NEW u \in Threads, NEW r \in Rows, NEW d \in Channels
         PROVE  (QueryStands(u, r, d))' /\ (AccStands(u, r, d))'
    <2>1. QueryStands(u, r, d) /\ AccStands(u, r, d)
      BY <1>4 DEF BlockStands
    <2>2. (QueryStands(u, r, d))'
      BY <1>1, <1>3, <2>1, QuerySame
    <2>3. acc'[<<r, d>>] = acc[<<r, d>>]
      BY <1>1
    <2>4. CASE u = r /\ r = t
      <3>1. acc[<<r, d>>] = lSh[r]
        BY <1>3, <2>1, <2>4 DEF AccStands
      <3>2. SumIs(r, Below(r, n), mSh[r], acc'[<<r, d>>]) /\ corrSh'[r] = Factor(mSh[r], mSh'[r])
            /\ mSh[r] \in Finite \cup {NegInf}
        BY <1>6, <2>3, <2>4, <3>1
      <3>3. (Behind(r, n, d))'
        BY <1>3, <3>2, BehindFrom
      <3>4. (Behind(r, tile0[u], d))'
        BY <1>3, <1>5, <3>3 DEF Behind, Below
      <3> QED BY <1>3, <2>2, <2>4, <3>4 DEF AccStands
    <2>5. CASE u = r /\ r # t
      <3>1. mSh'[r] = mSh[r] /\ lSh'[r] = lSh[r] /\ corrSh'[r] = corrSh[r]
        BY <1>7, <2>5
      <3>2. IF arrived[u] THEN Behind(r, n, d) ELSE acc[<<r, d>>] = lSh[r]
        BY <1>3, <1>5, <2>1, <2>5 DEF AccStands
      <3>3. IF arrived'[u] THEN (Behind(r, n, d))' ELSE acc'[<<r, d>>] = lSh'[r]
        BY <1>3, <2>3, <2>5, <3>1, <3>2, BehindSame
      <3>4. arrived'[u] => (Behind(r, tile0[u], d))'
        BY <1>3, <1>5, <3>3 DEF Behind, Below
      <3> QED BY <1>3, <2>2, <3>3, <3>4 DEF AccStands
    <2>6. CASE u # r
      BY <1>3, <2>2, <2>6 DEF AccStands
    <2> QED BY <2>4, <2>5, <2>6
  <1>12. ASSUME NEW u \in Threads, NEW kt \in TileRows, NEW d \in Channels
         PROVE  (TileStands(u, kt, d))'
    <2>1. kSh[<<kt, d>>] = TileKey(u, kt) /\ vSh[<<kt, d>>] = TileKey(u, kt)
      BY <1>3, <1>4 DEF BlockStands, TileStands
    <2>2. (TileKey(u, kt))' = TileKey(u, kt)
      BY <1>3, TileKeySame
    <2> QED BY <1>1, <2>1, <2>2 DEF TileStands
  <1> QED BY <1>3, <1>4, <1>8, <1>9, <1>10, <1>11, <1>12, BlockData

\* There is one sum of a set of keys relative to a maximum.
LEMMA OneSum ==
    ASSUME NEW r, NEW S, NEW top, NEW a, NEW b, SumIs(r, S, top, a), SumIs(r, S, top, b)
    PROVE  a = b
  BY DEF SumIs

\* The thread of a channel catches up: corr moves the accumulator to the maximum
\* of the row, and the product with V adds the tile.
LEMMA AccumulateData ==
    ASSUME Exact, NEW t \in DOMAIN phase, Accumulate(t) PROVE Data'
  <1>1. /\ Finish(t, "accumulate")
        /\ acc' = [i \in DOMAIN acc |->
                      IF Mine(t, i[2]) THEN Plus(Scale(acc[i], corrSh[i[1]]), Weighted(i[1], i[2]))
                      ELSE acc[i]]
        /\ UNCHANGED <<qSh, kSh, vSh, scores, mSh, lSh, corrSh, partial, mRed, lRed, out>>
    BY DEF Accumulate
  <1>2. "accumulate" \in SyncAfter \ {"reduce"} /\ IInv /\ Data
    BY DEF SyncAfter, Exact
  <1>3. /\ Running /\ t \in Threads
        /\ \A u \in Threads : phase[u] = "accumulate" /\ phase'[u] = "accumulate"
                              /\ tile0[u] = tile0[t]
        /\ UNCHANGED <<call, todo, split, phase, tile0>> /\ ~arrived[t]
        /\ \A u \in Threads : arrived'[u] = (u = t \/ arrived[u])
        /\ Stage' /\ PartsStand' /\ OutputStands' /\ split' # Combine /\ Progress'
        /\ \A u \in Threads : \A r, d : (WrittenStands(u, r, d))'
    BY <1>1, <1>2, BlockStep
  <1>4. BlockStands /\ Rows' = Rows
    BY <1>2, <1>3, Frame DEF Data
  <1>5. Shapes'
    BY <1>1, <1>4 DEF BlockStands, Shapes
  <1>6. PICK n \in Nat : n = tile0[t] /\ KvStart <= n
    BY <1>3, <1>4 DEF BlockStands, Progress
  <1>7. ASSUME NEW r \in Rows, NEW d \in Channels, Mine(t, d)
        PROVE  acc'[<<r, d>>] = lSh[r]
    <2>1. <<r, d>> \in DOMAIN acc /\ <<r, d>>[1] = r /\ <<r, d>>[2] = d
      BY <1>4 DEF BlockStands, Shapes
    <2>2. acc'[<<r, d>>] = Plus(Scale(acc[<<r, d>>], corrSh[r]), Weighted(r, d))
      BY <1>1, <1>7, <2>1
    <2>3. PICK old \in Finite \cup {NegInf} :
              corrSh[r] = Factor(old, mSh[r]) /\ SumIs(r, Below(r, n), old, acc[<<r, d>>])
      <3>1. Behind(r, n, d)
        BY <1>3, <1>4, <1>6, <1>7 DEF BlockStands, AccStands
      <3> QED BY <3>1 DEF Behind
    <2>4. SumIs(r, Below(r, n + KvTile), mSh[r], lSh[r])
      <3>1. r \in Threads /\ RowStands(r)
        BY <1>2, <1>4, RowFacts DEF BlockStands
      <3>2. KeysBehind(r) = n + KvTile /\ phase[r] # "load_q"
        BY <1>3, <1>6, <3>1 DEF KeysBehind, PastSoftmax
      <3> QED BY <3>1, <3>2 DEF RowStands
    <2>5. Weighted(r, d) = SumOver(Tile(r, n), RowScores(r), mSh[r])
      <3>1. \A kt \in TileRows : scores[<<r, kt>>] = Term(r, n, kt, mSh[r])
        BY <1>3, <1>4, <1>6 DEF BlockStands, ScoresStand
      <3>2. \A kt \in TileRows : vSh[<<kt, d>>] = IF n + kt < KvEnd THEN n + kt ELSE Zero
        BY <1>3, <1>4, <1>6 DEF BlockStands, TileStands, TileKey
      <3> QED BY <1>2, <1>3, <1>6, <3>1, <3>2, WeightedTerms
    <2>6. IF Below(r, n + KvTile) = {} THEN mSh[r] = NegInf ELSE mSh[r] \in Finite
      BY <2>4 DEF SumIs
    <2>7. SumIs(r, Below(r, n + KvTile), mSh[r],
                Plus(Scale(acc[<<r, d>>], Factor(old, mSh[r])), SumOver(Tile(r, n), RowScores(r), mSh[r])))
      BY <1>2, <1>3, <2>3, <2>6, SumGrows
    <2>8. SumIs(r, Below(r, n + KvTile), mSh[r], acc'[<<r, d>>])
      BY <2>2, <2>3, <2>5, <2>7
    <2> QED BY <2>4, <2>8, OneSum
  <1>8. ASSUME NEW u \in Threads, NEW r \in Rows, NEW d \in Channels
        PROVE  (QueryStands(u, r, d))' /\ (AccStands(u, r, d))'
    <2>1. QueryStands(u, r, d) /\ AccStands(u, r, d)
      BY <1>4 DEF BlockStands
    <2>2. (QueryStands(u, r, d))'
      BY <1>1, <1>3, <2>1, QuerySame
    <2>3. CASE Mine(t, d)
      <3>1. acc'[<<r, d>>] = lSh'[r]
        BY <1>1, <1>7, <2>3
      <3>2. Mine(u, d) => u = t
        BY <2>3 DEF Mine
      <3> QED BY <1>3, <2>2, <3>1, <3>2 DEF AccStands, Mine
    <2>4. CASE ~Mine(t, d)
      <3>1. <<r, d>> \in DOMAIN acc /\ <<r, d>>[2] = d
        BY <1>4 DEF BlockStands, Shapes
      <3>2. acc'[<<r, d>>] = acc[<<r, d>>]
        BY <1>1, <2>4, <3>1
      <3>3. CASE Mine(u, d)
        <4>1. u # t /\ (arrived'[u] <=> arrived[u])
          BY <1>3, <2>4, <3>3
        <4>2. IF arrived[u] THEN acc[<<r, d>>] = lSh[r] ELSE Behind(r, n, d)
          BY <1>3, <1>6, <2>1, <3>3 DEF AccStands
        <4>3. ~arrived[u] => (Behind(r, n, d))'
          BY <1>1, <1>3, <3>2, <4>2, BehindSame
        <4>4. ~arrived[u] => (Behind(r, tile0[u], d))'
          BY <1>3, <1>6, <4>3 DEF Behind, Below
        <4> QED BY <1>1, <1>3, <2>2, <3>2, <4>1, <4>2, <4>4 DEF AccStands
      <3>4. CASE ~Mine(u, d)
        BY <1>3, <2>2, <3>4 DEF AccStands, Mine
      <3> QED BY <3>3, <3>4
    <2> QED BY <2>3, <2>4
  <1>9. ASSUME NEW u \in Threads, NEW r \in Rows, NEW kt \in TileRows
        PROVE  (ScoresStand(u, r, kt))'
    <2>1. PICK top : top = mSh[r]
      OBVIOUS
    <2>2. scores[<<r, kt>>] = Term(r, n, kt, top)
      BY <1>3, <1>4, <1>6, <2>1 DEF BlockStands, ScoresStand
    <2>3. (Term(r, n, kt, top))' = Term(r, n, kt, top)
      BY <1>3, FrameBlock
    <2>4. tile0'[u] = n /\ mSh'[r] = top
      BY <1>1, <1>3, <1>6, <2>1
    <2>5. (Term(r, tile0[u], kt, mSh[r]))' = Term(r, n, kt, top)
      BY <2>3, <2>4 DEF Term, Masked, RowScores
    <2> QED BY <1>1, <1>3, <2>2, <2>5 DEF ScoresStand
  <1>10. ASSUME NEW r \in Rows PROVE (RowStands(r))'
    <2>1. r \in Threads /\ RowStands(r)
      BY <1>2, <1>4, RowFacts DEF BlockStands
    <2>2. (KeysBehind(r))' = KeysBehind(r) /\ phase[r] # "load_q"
      BY <1>3, <2>1 DEF KeysBehind, PastSoftmax
    <2> QED BY <1>1, <1>3, <2>1, <2>2, RowSame
  <1>11. ASSUME NEW u \in Threads, NEW kt \in TileRows, NEW d \in Channels
         PROVE  (TileStands(u, kt, d))'
    <2>1. kSh[<<kt, d>>] = TileKey(u, kt) /\ vSh[<<kt, d>>] = TileKey(u, kt)
      BY <1>3, <1>4 DEF BlockStands, TileStands
    <2>2. (TileKey(u, kt))' = TileKey(u, kt)
      BY <1>3, TileKeySame
    <2> QED BY <1>1, <2>1, <2>2 DEF TileStands
  <1> QED BY <1>3, <1>4, <1>5, <1>8, <1>9, <1>10, <1>11, BlockData

-----------------------------------------------------------------------------
(* The results of a block *)

\* A thread past the last barrier: the others are there too, or have left.
LEMMA Leaves ==
    ASSUME Exact, NEW t \in DOMAIN phase, Finish(t, "write")
    PROVE  /\ Running /\ split \notin todo /\ DOMAIN phase = Threads /\ t \in Threads
           /\ split # NoBlock /\ split # Combine /\ phase[t] = "write"
           /\ \A u \in Threads : phase[u] \in {"write", "exit"} /\ ~arrived[u]
           /\ UNCHANGED <<call, todo, split, arrived>> /\ DOMAIN phase' = DOMAIN phase
           /\ \A u \in Threads : /\ phase'[u] = (IF u = t THEN "exit" ELSE phase[u])
                                 /\ tile0'[u] = tile0[u]
           /\ BlockStands
  <1>1. IInv /\ Stage /\ Data /\ phase[t] = "write"
    BY DEF Exact, Data, Finish
  <1>2. /\ Running /\ split \notin todo /\ DOMAIN phase = Threads /\ t \in Threads
        /\ split # NoBlock /\ split # Combine
        /\ \A u \in Threads : phase[u] \notin {"reduce", "merge"}
    BY <1>1, InBlock
  <1>3. "write" \notin SyncAfter
    BY DEF SyncAfter
  <1>4. Leaving
    BY <1>1, <1>3 DEF IInv, Together
  <1>5. /\ UNCHANGED <<call, todo, split, arrived>>
        /\ phase' = [phase EXCEPT ![t] = Following("write", tile0[t])[1]]
        /\ tile0' = [tile0 EXCEPT ![t] = Following("write", tile0[t])[2]]
    BY <1>3 DEF Finish
  <1>6. Following("write", tile0[t])[1] = "exit" /\ Following("write", tile0[t])[2] = tile0[t]
    BY DEF Following
  <1>7. \A u \in Threads : phase[u] \in {"write", "exit"} /\ ~arrived[u]
    BY <1>2, <1>4 DEF Leaving
  <1>8. DOMAIN tile0 = Threads
    BY <1>1, <1>2 DEF IInv, Types
  <1>9. BlockStands
    BY <1>1, <1>2 DEF Data
  <1> QED BY <1>1, <1>2, <1>5, <1>6, <1>7, <1>8, <1>9

\* What holds after any write, but for what is written.
LEMMA WriteStep ==
    ASSUME Exact, NEW t \in DOMAIN phase, Finish(t, "write"), UNCHANGED <<shared, mRed, lRed>>,
           DOMAIN partial' = DOMAIN partial, DOMAIN out' = DOMAIN out,
           \A s \in Splits : s # split => partial'[s] = partial[s],
           \A u \in Threads, r \in Rows, d \in Channels : (WrittenStands(u, r, d))'
    PROVE  Data'
  <1>1. /\ Running /\ split \notin todo /\ DOMAIN phase = Threads /\ t \in Threads
        /\ split # NoBlock /\ split # Combine
        /\ \A u \in Threads : phase[u] \in {"write", "exit"} /\ ~arrived[u]
        /\ UNCHANGED <<call, todo, split, arrived>> /\ DOMAIN phase' = DOMAIN phase
        /\ \A u \in Threads : /\ phase'[u] = (IF u = t THEN "exit" ELSE phase[u])
                              /\ tile0'[u] = tile0[u]
        /\ BlockStands
    BY Leaves
  <1>2. /\ Rows' = Rows /\ NumSplits' = NumSplits /\ Splits' = Splits
        /\ (Running' <=> Running) /\ KvStart' = KvStart /\ KvEnd' = KvEnd
    BY <1>1, Frame, FrameBlock
  <1>3. IInv /\ Data
    BY DEF Exact
  <1>4. \A u \in Threads : phase'[u] \in {"write", "exit"}
    BY <1>1
  <1>5. Stage'
    <2>1. Stage
      BY <1>3 DEF Data
    <2> QED BY <1>1, <1>2, <1>4, <2>1 DEF Stage
  <1>6. PartsStand'
    <2>1. ASSUME NEW s \in Splits, NEW r \in Rows, NumSplits > 1, s \notin todo \cup {split}
          PROVE  (PartStands(s, r))'
      <3>1. PartStands(s, r)
        BY <1>3, <2>1 DEF Data, PartsStand
      <3> QED BY <1>1, <2>1, <3>1, PartSame
    <2> QED BY <1>1, <1>2, <2>1 DEF PartsStand
  <1>7. OutputStands' /\ split' # Combine
    BY <1>1 DEF OutputStands, Done
  <1>8. Shapes' /\ Progress'
    <2>1. Shapes'
      BY <1>1, <1>2 DEF shared, BlockStands, Shapes
    <2>2. Progress'
      BY <1>1, <1>2, <1>4 DEF BlockStands, Progress
    <2> QED BY <2>1, <2>2
  <1>9. ASSUME NEW u \in Threads, NEW r \in Rows, NEW d \in Channels
        PROVE  (QueryStands(u, r, d))' /\ (AccStands(u, r, d))'
    <2>1. acc[<<r, d>>] = lSh[r]
      BY <1>1 DEF BlockStands, AccStands
    <2>2. acc'[<<r, d>>] = lSh'[r]
      BY <2>1 DEF shared
    <2>3. phase'[u] \in {"write", "exit"}
      BY <1>4
    <2> QED BY <2>2, <2>3 DEF AccStands, QueryStands
  <1>10. \A u \in Threads, kt \in TileRows, d \in Channels : (TileStands(u, kt, d))'
    BY <1>4 DEF TileStands
  <1>11. \A u \in Threads, r \in Rows, kt \in TileRows : (ScoresStand(u, r, kt))'
    BY <1>4 DEF ScoresStand
  <1>12. ASSUME NEW r \in Rows PROVE (RowStands(r))'
    <2>1. r \in Threads /\ RowStands(r)
      BY <1>1, <1>3, RowFacts DEF BlockStands
    <2>2. (KeysBehind(r))' = KeysBehind(r) /\ phase[r] # "load_q"
      BY <1>1, <1>4, <2>1 DEF KeysBehind, PastSoftmax
    <2> QED BY <1>1, <2>1, <2>2, RowSame DEF shared
  <1> QED BY <1>2, <1>5, <1>6, <1>7, <1>8, <1>9, <1>10, <1>11, <1>12, BlockData

LEMMA WriteOutData ==
    ASSUME Exact, NEW t \in DOMAIN phase, WriteOut(t) PROVE Data'
  <1>1. /\ NumSplits = 1 /\ Finish(t, "write") /\ UNCHANGED <<shared, partial, mRed, lRed>>
        /\ out' = [i \in DOMAIN out |->
                      IF Mine(t, i[1] * HeadDim + i[2]) THEN [acc |-> acc[i], l |-> lSh[i[1]]]
                      ELSE out[i]]
    BY DEF WriteOut
  <1>2. /\ call' = call /\ BlockStands
        /\ \A u \in Threads : phase'[u] = (IF u = t THEN "exit" ELSE phase[u])
    BY <1>1, Leaves
  <1>3. ASSUME NEW u \in Threads, NEW r \in Rows, NEW d \in Channels
        PROVE  (WrittenStands(u, r, d))'
    <2>1. <<r, d>> \in DOMAIN out /\ <<r, d>>[1] = r /\ <<r, d>>[2] = d
      BY DEF Exact, Data, Stage
    <2>2. acc' = acc /\ lSh' = lSh /\ NumSplits' = 1
      BY <1>1, <1>2, Frame DEF shared
    <2>3. out'[<<r, d>>] = IF Mine(t, r * HeadDim + d) THEN [acc |-> acc[<<r, d>>], l |-> lSh[r]]
                           ELSE out[<<r, d>>]
      BY <1>1, <2>1
    <2>4. phase[u] = "exit" /\ Mine(u, r * HeadDim + d) =>
              out[<<r, d>>] = [acc |-> acc[<<r, d>>], l |-> lSh[r]]
      BY <1>1, <1>2 DEF BlockStands, WrittenStands
    <2>5. phase'[u] = "exit" /\ Mine(u, r * HeadDim + d) =>
              out'[<<r, d>>] = [acc |-> acc[<<r, d>>], l |-> lSh[r]]
      BY <1>2, <2>3, <2>4
    <2> QED BY <2>2, <2>5 DEF WrittenStands, Mine
  <1> QED BY <1>1, <1>3, WriteStep

LEMMA WritePartialData ==
    ASSUME Exact, NEW t \in DOMAIN phase, WritePartial(t) PROVE Data'
  <1>1. /\ NumSplits > 1 /\ Finish(t, "write") /\ UNCHANGED <<shared, mRed, lRed, out>>
        /\ partial' = [partial EXCEPT ![split] = [r \in Rows |->
                          [m |-> IF r = t THEN mSh[r] ELSE @[r].m,
                           l |-> IF r = t THEN lSh[r] ELSE @[r].l,
                           acc |-> [d \in Channels |->
                                       IF Mine(t, r * HeadDim + d) THEN acc[<<r, d>>]
                                       ELSE @[r].acc[d]]]]]
    BY DEF WritePartial
  <1>2. /\ call' = call /\ BlockStands /\ Running /\ split' = split
        /\ \A u \in Threads : phase'[u] = (IF u = t THEN "exit" ELSE phase[u])
    BY <1>1, Leaves
  <1>3. DOMAIN partial = Splits /\ split \in DOMAIN partial
    BY <1>2 DEF Exact, Data, Stage, Running
  <1>4. DOMAIN partial' = DOMAIN partial /\ \A s \in Splits : s # split => partial'[s] = partial[s]
    BY <1>1, <1>3
  <1>5. ASSUME NEW r \in Rows
        PROVE  /\ partial'[split][r].m = (IF r = t THEN mSh[r] ELSE partial[split][r].m)
               /\ partial'[split][r].l = (IF r = t THEN lSh[r] ELSE partial[split][r].l)
               /\ \A d \in Channels : partial'[split][r].acc[d] =
                      IF Mine(t, r * HeadDim + d) THEN acc[<<r, d>>] ELSE partial[split][r].acc[d]
    <2>1. partial'[split][r] =
              [m |-> IF r = t THEN mSh[r] ELSE partial[split][r].m,
               l |-> IF r = t THEN lSh[r] ELSE partial[split][r].l,
               acc |-> [d \in Channels |->
                           IF Mine(t, r * HeadDim + d) THEN acc[<<r, d>>]
                           ELSE partial[split][r].acc[d]]]
      BY <1>1, <1>3
    <2> QED BY <2>1
  <1>6. ASSUME NEW u \in Threads, NEW r \in Rows, NEW d \in Channels
        PROVE  (WrittenStands(u, r, d))'
    <2>1. acc' = acc /\ lSh' = lSh /\ mSh' = mSh /\ NumSplits' = NumSplits
      BY <1>1, <1>2, Frame DEF shared
    <2>2. WrittenStands(u, r, d)
      BY <1>2 DEF BlockStands
    <2>3. phase'[u] = "exit" /\ u = r =>
              partial'[split][r].m = mSh[r] /\ partial'[split][r].l = lSh[r]
      BY <1>1, <1>2, <1>5, <2>2 DEF WrittenStands
    <2>4. phase'[u] = "exit" /\ Mine(u, r * HeadDim + d) =>
              partial'[split][r].acc[d] = acc[<<r, d>>]
      BY <1>1, <1>2, <1>5, <2>2 DEF WrittenStands
    <2>5. ~(NumSplits = 1)
      BY <1>1
    <2> QED BY <1>2, <2>1, <2>3, <2>4, <2>5 DEF WrittenStands, Mine
  <1> QED BY <1>1, <1>3, <1>4, <1>6, WriteStep

-----------------------------------------------------------------------------
(* The barrier *)

LEMMA SyncStep ==
    ASSUME Exact, SyncThreads
    PROVE  /\ \E p \in SyncAfter : \E b : \A t \in DOMAIN phase :
                  /\ phase[t] = p /\ tile0[t] = b /\ arrived[t] /\ arrived'[t] = FALSE
                  /\ phase'[t] = Following(p, b)[1] /\ tile0'[t] = Following(p, b)[2]
           /\ DOMAIN phase' = DOMAIN phase /\ split # NoBlock
           /\ UNCHANGED <<call, todo, split, shared, partial, mRed, lRed, out>>
           /\ \/ Running /\ split \notin todo /\ DOMAIN phase = Threads
                    /\ \A t \in Threads : phase[t] \notin {"reduce", "merge"}
              \/ split = Combine /\ todo = {} /\ NumSplits > 1 /\ DOMAIN phase = Channels
                    /\ \A t \in Channels : phase[t] \in {"reduce", "merge", "exit"}
  <1>1. /\ \A t, u \in DOMAIN arrived :
               arrived[t] /\ phase[t] = phase[u] /\ tile0[t] = tile0[u]
        /\ arrived' = [t \in DOMAIN arrived |-> FALSE]
        /\ phase' = [t \in DOMAIN phase |-> Following(phase[t], tile0[t])[1]]
        /\ tile0' = [t \in DOMAIN tile0 |-> Following(phase[t], tile0[t])[2]]
        /\ UNCHANGED <<call, todo, split, shared, partial, mRed, lRed, out>>
        /\ split # NoBlock
    BY DEF SyncThreads
  <1>2. /\ DOMAIN arrived = DOMAIN phase /\ DOMAIN tile0 = DOMAIN phase
        /\ IInv /\ Stage
    BY DEF Exact, IInv, Types, Data
  <1>3. \/ Running /\ split \notin todo /\ DOMAIN phase = Threads
              /\ \A t \in Threads : phase[t] \notin {"reduce", "merge"}
        \/ split = Combine /\ todo = {} /\ NumSplits > 1 /\ DOMAIN phase = Channels
              /\ \A t \in Channels : phase[t] \in {"reduce", "merge", "exit"}
    BY <1>1, <1>2 DEF Stage
  <1>4. 0 \in Threads /\ 0 \in Channels
    BY Sizes DEF Threads, Channels
  <1>5. PICK v \in DOMAIN phase : arrived[v]
    BY <1>1, <1>2, <1>3, <1>4
  <1>6. Together
    BY <1>2, <1>5 DEF IInv, Leaving
  <1>7. PICK p \in SyncAfter : \A t \in DOMAIN phase : phase[t] = p
    BY <1>6 DEF Together
  <1>8. PICK b : \A t \in DOMAIN phase : tile0[t] = b
    BY <1>1, <1>2, <1>5
  <1>9. \A t \in DOMAIN phase :
            /\ phase[t] = p /\ tile0[t] = b /\ arrived[t] /\ arrived'[t] = FALSE
            /\ phase'[t] = Following(p, b)[1] /\ tile0'[t] = Following(p, b)[2]
    BY <1>1, <1>2, <1>7, <1>8
  <1>10. DOMAIN phase' = DOMAIN phase
    BY <1>1
  <1>11. \E q \in SyncAfter : \E c : \A t \in DOMAIN phase :
             /\ phase[t] = q /\ tile0[t] = c /\ arrived[t] /\ arrived'[t] = FALSE
             /\ phase'[t] = Following(q, c)[1] /\ tile0'[t] = Following(q, c)[2]
    BY <1>9
  <1> QED BY <1>1, <1>3, <1>10, <1>11

\* Where the phases of a split lead.
LEMMA FollowingIs ==
    ASSUME IInv, Running, NEW b,
           NEW p \in {"load_q", "rope", "load", "score", "softmax", "accumulate"}
    PROVE  /\ p = "load_q" => Following(p, b) = <<"rope", b>>
           /\ p = "rope" => Following(p, b) = <<IF KvStart < KvEnd THEN "load" ELSE "write", KvStart>>
           /\ p = "load" => Following(p, b) = <<"score", b>>
           /\ p = "score" => Following(p, b) = <<"softmax", b>>
           /\ p = "softmax" => Following(p, b) = <<"accumulate", b>>
           /\ p = "accumulate" =>
                  Following(p, b) = <<IF b + KvTile < KvEnd THEN "load" ELSE "write", b + KvTile>>
  BY DEF Following

\* The barrier of a split: what its threads have loaded, scored, softmaxed and
\* accumulated is all there.
LEMMA SyncBlock ==
    ASSUME Exact, SyncThreads, Running PROVE Data'
  <1>1. IInv /\ Data /\ Stage /\ BlockStands /\ split # Combine
    BY RunFacts DEF Exact, Data
  <1>2. /\ DOMAIN phase = Threads /\ split \notin todo
        /\ \A t \in Threads : phase[t] \notin {"reduce", "merge"}
        /\ DOMAIN phase' = DOMAIN phase /\ split # NoBlock
        /\ UNCHANGED <<call, todo, split, shared, partial, mRed, lRed, out>>
    BY <1>1, SyncStep
  <1>3. 0 \in Threads
    BY Sizes DEF Threads
  <1>3a. PICK p \in SyncAfter : \E b : \A t \in DOMAIN phase :
            /\ phase[t] = p /\ tile0[t] = b /\ arrived[t] /\ arrived'[t] = FALSE
            /\ phase'[t] = Following(p, b)[1] /\ tile0'[t] = Following(p, b)[2]
    BY SyncStep
  <1>4. PICK b : p \in SyncAfter /\ \A t \in Threads :
            /\ phase[t] = p /\ tile0[t] = b /\ arrived[t] /\ arrived'[t] = FALSE
            /\ phase'[t] = Following(p, b)[1] /\ tile0'[t] = Following(p, b)[2]
    BY <1>2, <1>3a
  <1>5. p \in {"load_q", "rope", "load", "score", "softmax", "accumulate"}
    BY <1>2, <1>3, <1>4 DEF SyncAfter
  <1>6. b \in Nat
    BY <1>1, <1>3, <1>4 DEF BlockStands, Progress
  <1>7. PICK q, c : Following(p, b) = <<q, c>>
    BY <1>1, <1>5, FollowingIs
  <1>8. /\ p = "load_q" => q = "rope" /\ c = b
        /\ p = "rope" => q = (IF KvStart < KvEnd THEN "load" ELSE "write") /\ c = KvStart
        /\ p = "load" => q = "score" /\ c = b
        /\ p = "score" => q = "softmax" /\ c = b
        /\ p = "softmax" => q = "accumulate" /\ c = b
        /\ p = "accumulate" =>
               q = (IF b + KvTile < KvEnd THEN "load" ELSE "write") /\ c = b + KvTile
    BY <1>1, <1>5, <1>7, FollowingIs
  <1>9. q \in {"rope", "load", "score", "softmax", "accumulate", "write"}
    BY <1>5, <1>8
  <1>10. \A t \in Threads : phase'[t] = q /\ tile0'[t] = c /\ arrived'[t] = FALSE
    BY <1>4, <1>7
  <1>11. /\ Rows' = Rows /\ NumSplits' = NumSplits /\ Splits' = Splits
         /\ (Running' <=> Running) /\ KvStart' = KvStart /\ KvEnd' = KvEnd
    BY <1>2, Frame, FrameBlock
  <1>12. Stage'
    BY <1>1, <1>2, <1>9, <1>10, <1>11 DEF Stage
  <1>13. PartsStand'
    BY <1>1, <1>2, PartsSame DEF Data
  <1>14. OutputStands' /\ split' # Combine
    BY <1>1, <1>2 DEF OutputStands, Done
  <1>15. Shapes'
    BY <1>1, <1>2, <1>11 DEF BlockStands, Shapes, shared
  <1>16. Progress'
    <2>1. /\ p \in {"load_q", "rope"} => b = 0
          /\ p \in {"load", "score", "softmax", "accumulate"} => KvStart <= b /\ b < KvEnd
      BY <1>1, <1>3, <1>4 DEF BlockStands, Progress
    <2>2. KvStart \in Nat /\ KvEnd \in Nat /\ KvTile \in Nat
      BY <1>1, RunFacts, Sizes
    <2>3. /\ c \in Nat
          /\ q = "rope" => c = 0
          /\ q \in {"load", "score", "softmax", "accumulate"} => KvStart <= c /\ c < KvEnd
          /\ q = "write" => c >= KvEnd
      BY <1>5, <1>6, <1>8, <2>1, <2>2
    <2> QED BY <1>9, <1>10, <1>11, <2>3 DEF Progress
  <1>17. ASSUME NEW u \in Threads, NEW r \in Rows, NEW d \in Channels
         PROVE  (QueryStands(u, r, d))'
    <2>1. r \in Nat /\ d \in Nat
      BY <1>1, RowFacts, Naturals
    <2>2. CASE p = "load_q"
      <3>1. PICK v \in Threads : Mine(v, r * HeadDim + d)
        BY <2>1, IndexNat, MinerExists
      <3>2. qSh'[<<r, d>>] = "raw"
        BY <1>1, <1>2, <1>4, <2>2, <3>1 DEF BlockStands, QueryStands, shared
      <3> QED BY <1>8, <1>10, <2>2, <3>2 DEF QueryStands
    <2>3. CASE p # "load_q"
      <3>1. qSh[<<r, d>>] = "rotated"
        <4>1. CASE p = "rope"
          <5>1. d % Half \in Nat
            BY <2>1, Sizes, Places
          <5>2. PICK v \in Threads : Mine(v, r * Half + (d % Half))
            BY <2>1, <5>1, IndexNat, MinerExists
          <5> QED BY <1>1, <1>4, <4>1, <5>2 DEF BlockStands, QueryStands
        <4>2. CASE p # "rope"
          BY <1>1, <1>4, <1>5, <2>3, <4>2 DEF BlockStands, QueryStands
        <4> QED BY <4>1, <4>2
      <3>2. q \notin {"load_q", "rope"}
        BY <1>5, <1>8, <2>3
      <3> QED BY <1>2, <1>10, <3>1, <3>2 DEF QueryStands, shared
    <2> QED BY <2>2, <2>3
  <1>18. ASSUME NEW u \in Threads, NEW r \in Rows, NEW d \in Channels
         PROVE  (AccStands(u, r, d))'
    <2>1. r \in Nat /\ d \in Nat /\ r \in Threads
      BY <1>1, RowFacts, Naturals
    <2>2. CASE p = "softmax"
      <3>1. Behind(r, b, d)
        <4>1. AccStands(r, r, d)
          BY <1>1, <2>1 DEF BlockStands
        <4>2. phase[r] = "softmax" /\ arrived[r] /\ tile0[r] = b
          BY <1>4, <2>1, <2>2
        <4> QED BY <4>1, <4>2 DEF AccStands
      <3>2. (Behind(r, b, d))'
        BY <1>2, <3>1, BehindSame DEF shared
      <3>3. (Behind(r, tile0[u], d))'
        BY <1>8, <1>10, <2>2, <3>2 DEF Behind, Below
      <3> QED BY <1>8, <1>10, <2>2, <3>3 DEF AccStands
    <2>3. CASE p # "softmax"
      <3>1. acc[<<r, d>>] = lSh[r]
        <4>1. CASE p = "load_q"
          <5>1. PICK v \in Threads : Mine(v, r * HeadDim + d)
            BY <2>1, IndexNat, MinerExists
          <5>2. acc[<<r, d>>] = NoTerms
            BY <1>1, <1>4, <4>1, <5>1 DEF BlockStands, AccStands
          <5>3. SumIs(r, Below(r, 0), mSh[r], lSh[r])
            <6>1. KeysBehind(r) = 0 /\ RowStands(r)
              BY <1>1, <1>4, <2>1, <4>1 DEF BlockStands, Progress, KeysBehind, PastSoftmax
            <6> QED BY <1>4, <2>1, <6>1 DEF RowStands
          <5>4. Below(r, 0) = {}
            BY <1>1, NothingBelow
          <5> QED BY <5>2, <5>3, <5>4 DEF SumIs
        <4>2. CASE p = "accumulate"
          <5>1. PICK v \in Threads : Mine(v, d)
            BY <2>1, MinerExists
          <5> QED BY <1>1, <1>4, <4>2, <5>1 DEF BlockStands, AccStands
        <4>3. CASE p \in {"rope", "load", "score"}
          BY <1>1, <1>4, <4>3 DEF BlockStands, AccStands
        <4> QED BY <1>5, <2>3, <4>1, <4>2, <4>3
      <3>2. q \notin {"load_q", "accumulate"}
        BY <1>5, <1>8, <2>3
      <3> QED BY <1>2, <1>10, <3>1, <3>2 DEF AccStands, shared
    <2> QED BY <2>2, <2>3
  <1>19. \A u \in Threads, r \in Rows, d \in Channels : (WrittenStands(u, r, d))'
    BY <1>9, <1>10 DEF WrittenStands
  <1>20. ASSUME NEW u \in Threads, NEW kt \in TileRows, NEW d \in Channels
         PROVE  (TileStands(u, kt, d))'
    <2>1. kt \in Nat /\ d \in Nat
      BY Naturals
    <2>2. CASE p \in {"load", "score", "softmax"}
      <3>1. PICK v \in Threads : Mine(v, kt * HeadDim + d)
        BY <2>1, IndexNat, MinerExists
      <3>2. kSh[<<kt, d>>] = TileKey(v, kt) /\ vSh[<<kt, d>>] = TileKey(v, kt)
        BY <1>1, <1>4, <2>2, <3>1 DEF BlockStands, TileStands
      <3>3. TileKey(v, kt) = TileKey(u, kt)
        BY <1>4 DEF TileKey
      <3>4. (TileKey(u, kt))' = TileKey(u, kt)
        BY <1>2, <1>4, <1>8, <1>10, <2>2, TileKeySame
      <3> QED BY <1>2, <3>2, <3>3, <3>4 DEF TileStands, shared
    <2>3. CASE p \notin {"load", "score", "softmax"}
      <3>1. q \notin {"score", "softmax", "accumulate"}
        BY <1>5, <1>8, <2>3
      <3> QED BY <1>10, <3>1 DEF TileStands
    <2> QED BY <2>2, <2>3
  <1>21. ASSUME NEW u \in Threads, NEW r \in Rows, NEW kt \in TileRows
         PROVE  (ScoresStand(u, r, kt))'
    <2>1. PICK top : top = mSh[r]
      OBVIOUS
    <2>2. r \in Nat /\ kt \in Nat /\ r \in Threads
      BY <1>1, RowFacts, Naturals
    <2>3. (Term(r, b, kt, top))' = Term(r, b, kt, top) /\ (Term(r, b, kt, 0))' = Term(r, b, kt, 0)
      BY <1>2, FrameBlock
    <2>4. CASE p = "score"
      <3>1. PICK v \in Threads : Mine(v, r * KvTile + kt)
        BY <2>2, IndexNat, MinerExists
      <3>2. scores[<<r, kt>>] = Term(r, b, kt, 0)
        BY <1>1, <1>4, <2>4, <3>1 DEF BlockStands, ScoresStand
      <3>3. tile0'[u] = b /\ phase'[u] = "softmax" /\ arrived'[u] = FALSE
        BY <1>8, <1>10, <2>4
      <3>4. (Term(r, tile0[u], kt, 0))' = Term(r, b, kt, 0)
        BY <2>3, <3>3 DEF Term, Masked, RowScores
      <3> QED BY <1>2, <3>2, <3>3, <3>4 DEF ScoresStand, shared
    <2>5. CASE p = "softmax"
      <3>1. scores[<<r, kt>>] = Term(r, b, kt, top)
        BY <1>1, <1>4, <2>1, <2>2, <2>5 DEF BlockStands, ScoresStand
      <3>2. tile0'[u] = b /\ phase'[u] = "accumulate" /\ mSh'[r] = top
        BY <1>2, <1>8, <1>10, <2>1, <2>5 DEF shared
      <3>3. (Term(r, tile0[u], kt, mSh[r]))' = Term(r, b, kt, top)
        BY <2>3, <3>2 DEF Term, Masked, RowScores
      <3> QED BY <1>2, <3>1, <3>2, <3>3 DEF ScoresStand, shared
    <2>6. CASE p \notin {"score", "softmax"}
      <3>1. q \notin {"softmax", "accumulate"}
        BY <1>5, <1>8, <2>6
      <3> QED BY <1>10, <3>1 DEF ScoresStand
    <2> QED BY <2>4, <2>5, <2>6
  <1>22. ASSUME NEW r \in Rows PROVE (RowStands(r))'
    <2>1. r \in Threads /\ RowStands(r)
      BY <1>1, RowFacts DEF BlockStands
    <2>2. (KeysBehind(r))' = IF q = "accumulate" THEN c + KvTile ELSE c
      BY <1>10, <2>1 DEF KeysBehind, PastSoftmax
    <2>3. KeysBehind(r) = IF p \in {"softmax", "accumulate"} THEN b + KvTile ELSE b
      BY <1>4, <2>1 DEF KeysBehind, PastSoftmax
    <2>4. CASE p = "rope"
      <3>1. SumIs(r, Below(r, 0), mSh[r], lSh[r])
        <4>1. KeysBehind(r) = 0
          BY <1>1, <1>4, <2>1, <2>3, <2>4 DEF BlockStands, Progress
        <4> QED BY <1>4, <2>1, <2>4, <4>1 DEF RowStands
      <3>2. Below(r, 0) = {} /\ Below(r, KvStart) = {}
        BY <1>1, NothingBelow, RunFacts
      <3>3. SumIs(r, Below(r, KvStart), mSh'[r], lSh'[r])
        BY <1>2, <3>1, <3>2 DEF shared
      <3>4. (KeysBehind(r))' = KvStart
        BY <1>8, <2>2, <2>4
      <3> QED BY <1>2, <3>3, <3>4, RowFrom
    <2>5. CASE p # "rope"
      <3>1. (KeysBehind(r))' = KeysBehind(r)
        BY <1>5, <1>8, <2>2, <2>3, <2>5
      <3> QED BY <1>2, <1>4, <2>1, <3>1, RowSame DEF shared
    <2> QED BY <2>4, <2>5
  <1> QED BY <1>11, <1>12, <1>13, <1>14, <1>15, <1>16, <1>17, <1>18, <1>19, <1>20, <1>21, <1>22,
             BlockData

\* The barrier of the combine block.
LEMMA SyncCombine ==
    ASSUME Exact, SyncThreads, split = Combine PROVE Data'
  <1>1. IInv /\ Data /\ Stage /\ CombineStands
    BY DEF Exact, Data
  <1>2. ~Running /\ split # NoBlock
    BY <1>1, RunFacts DEF Combine, NoBlock
  <1>3. /\ todo = {} /\ NumSplits > 1 /\ DOMAIN phase = Channels
        /\ \A t \in Channels : phase[t] \in {"reduce", "merge", "exit"}
        /\ DOMAIN phase' = DOMAIN phase
        /\ UNCHANGED <<call, todo, split, shared, partial, mRed, lRed, out>>
    BY <1>2, SyncStep
  <1>3a. PICK p \in SyncAfter : \E b : \A t \in DOMAIN phase :
            /\ phase[t] = p /\ tile0[t] = b /\ arrived[t] /\ arrived'[t] = FALSE
            /\ phase'[t] = Following(p, b)[1] /\ tile0'[t] = Following(p, b)[2]
    BY SyncStep
  <1>4. PICK b : p \in SyncAfter /\ \A t \in Channels :
            /\ phase[t] = p /\ tile0[t] = b /\ arrived[t] /\ arrived'[t] = FALSE
            /\ phase'[t] = Following(p, b)[1] /\ tile0'[t] = Following(p, b)[2]
    BY <1>3, <1>3a
  <1>5. 0 \in Channels
    BY Sizes DEF Channels
  <1>6. p = "reduce"
    BY <1>3, <1>4, <1>5 DEF SyncAfter
  <1>7. \A t \in Channels : phase'[t] = "merge"
    <2>1. Following("reduce", b)[1] = "merge"
      BY DEF Following
    <2> QED BY <1>4, <1>6, <2>1
  <1>8. Rows' = Rows /\ NumSplits' = NumSplits /\ Splits' = Splits
    BY <1>3, Frame
  <1>9. Stage'
    BY <1>1, <1>3, <1>7, <1>8 DEF Stage
  <1>10. PartsStand'
    BY <1>1, <1>3, PartsSame DEF Data
  <1>11. OutputStands' /\ ~Running'
    BY <1>2, <1>3, <1>8 DEF OutputStands, Done, Running
  <1>12. ASSUME NEW r \in Rows
         PROVE  /\ (ReducedStands(r))'
                /\ \A d \in Channels : phase'[d] # "exit"
    <2>1. mRed[r] \in Finite /\ lRed[r] = SumOver(0 .. Last(r), RowScores(r), mRed[r])
      BY <1>1, <1>4, RowFacts DEF CombineStands, ReducedStands
    <2>2. mRed'[r] \in Finite /\ lRed'[r] = SumOver(0 .. Last(r), RowScores(r), mRed'[r])
      BY <1>3, <2>1
    <2>3. (Last(r))' = Last(r) /\ (RowScores(r))' = RowScores(r)
      BY <1>3, Frame
    <2>4. (SumOver(0 .. Last(r), RowScores(r), mRed[r]))' = SumOver(0 .. Last(r), RowScores(r), mRed'[r])
      BY <2>3 DEF SumOver
    <2> QED BY <1>7, <2>2, <2>4 DEF ReducedStands
  <1>13. CombineStands'
    BY <1>8, <1>12 DEF CombineStands
  <1> QED BY <1>9, <1>10, <1>11, <1>13 DEF Data

LEMMA SyncData == ASSUME Exact, SyncThreads PROVE Data'
  BY SyncStep, SyncBlock, SyncCombine

-----------------------------------------------------------------------------
(* Blocks start and end *)

LEMMA NotASplit == ASSUME IInv PROVE NoBlock \notin Splits /\ Combine \notin Splits
  BY SplitFacts DEF Splits, NoBlock, Combine

LEMMA StartData ==
    ASSUME Exact, NEW s \in todo, StartBlock(s) PROVE Data'
  <1>1. /\ split = NoBlock /\ split' = s /\ todo' = todo \ {s}
        /\ UNCHANGED <<call, partial, mRed, lRed, out>> /\ FreshBlock
    BY DEF StartBlock
  <1>2. IInv /\ Data /\ Stage
    BY DEF Exact, Data
  <1>3. s \in Splits /\ s # NoBlock /\ s # Combine
    <2>1. s \in Splits
      BY <1>2 DEF Stage
    <2> QED BY <1>2, <2>1, NotASplit
  <1>4. /\ DOMAIN phase' = Threads
        /\ \A t \in Threads : phase'[t] = "load_q" /\ arrived'[t] = FALSE /\ tile0'[t] = 0
    BY <1>1 DEF FreshBlock
  <1>5. Rows' = Rows /\ NumSplits' = NumSplits /\ Splits' = Splits
    BY <1>1, Frame
  <1>6. Stage'
    BY <1>1, <1>2, <1>3, <1>4, <1>5 DEF Stage, Running
  <1>7. PartsStand'
    <2>1. \A x \in Splits : x \notin todo' \cup {split'} => x \notin todo \cup {split}
      BY <1>1, <1>2, NotASplit
    <2> QED BY <1>1, <1>2, <2>1, PartsSame DEF Data
  <1>8. OutputStands' /\ split' # Combine
    BY <1>1, <1>3 DEF OutputStands, Done
  <1>9. Shapes'
    BY <1>1, <1>5 DEF FreshBlock, Shapes
  <1>10. Progress'
    BY <1>4 DEF Progress
  <1>11. \A u \in Threads, r \in Rows, d \in Channels :
             (QueryStands(u, r, d))' /\ (AccStands(u, r, d))' /\ (WrittenStands(u, r, d))'
    BY <1>4 DEF QueryStands, AccStands, WrittenStands
  <1>12. \A u \in Threads, kt \in TileRows, d \in Channels : (TileStands(u, kt, d))'
    BY <1>4 DEF TileStands
  <1>13. \A u \in Threads, r \in Rows, kt \in TileRows : (ScoresStand(u, r, kt))'
    BY <1>4 DEF ScoresStand
  <1>14. ASSUME NEW r \in Rows PROVE (RowStands(r))'
    <2>1. r \in Threads
      BY <1>2, RowFacts
    <2> QED BY <1>4, <2>1 DEF RowStands
  <1> QED BY <1>5, <1>6, <1>7, <1>8, <1>9, <1>10, <1>11, <1>12, <1>13, <1>14, BlockData

\* A block that has ended has the running softmax of every row over its split,
\* with the accumulators relative to the same maximum.
LEMMA BlockEnds ==
    ASSUME Exact, Running, \A t \in Threads : phase[t] = "exit", NEW r \in Rows
    PROVE  /\ SumIs(r, KeysIn(r, split), mSh[r], lSh[r])
           /\ \A d \in Channels : acc[<<r, d>>] = lSh[r]
           /\ \A d \in Channels : \E t \in Threads : Mine(t, r * HeadDim + d)
  <1>1. IInv /\ BlockStands /\ r \in Threads /\ r \in Nat
    BY RowFacts DEF Exact, Data
  <1>2. PICK n : n = tile0[r]
    OBVIOUS
  <1>3. n \in Nat /\ n >= KvEnd
    BY <1>1, <1>2 DEF BlockStands, Progress
  <1>4. SumIs(r, Below(r, n), mSh[r], lSh[r])
    <2>1. RowStands(r) /\ phase[r] = "exit"
      BY <1>1 DEF BlockStands
    <2>2. KeysBehind(r) = n
      BY <1>2, <2>1 DEF KeysBehind, PastSoftmax
    <2> QED BY <2>1, <2>2 DEF RowStands
  <1>5. Below(r, n) = KeysIn(r, split)
    <2>0. KeysIn(r, split) \subseteq Keys
      BY DEF KeysIn
    <2> SUFFICES ASSUME NEW k \in KeysIn(r, split) PROVE k < n
      BY <2>0 DEF Below
    <2>1. k \in Nat
      BY KeysNat DEF KeysIn
    <2>2. k < KvEnd /\ KvEnd \in Nat
      BY <1>1, <1>3, <2>1, BelowIs, RunFacts
    <2> QED BY <1>3, <2>1, <2>2
  <1>6. ASSUME NEW d \in Channels
        PROVE  acc[<<r, d>>] = lSh[r] /\ \E t \in Threads : Mine(t, r * HeadDim + d)
    <2>1. r * HeadDim + d \in Nat
      BY <1>1, Naturals, IndexNat
    <2>2. \E t \in Threads : Mine(t, r * HeadDim + d)
      BY <2>1, MinerExists
    <2>3. AccStands(r, r, d)
      BY <1>1 DEF BlockStands
    <2> QED BY <1>1, <2>2, <2>3 DEF AccStands
  <1> QED BY <1>4, <1>5, <1>6

\* The only block of a short context sees the whole of it.
LEMMA OneSplit ==
    ASSUME IInv, Running, NumSplits = 1, NEW r \in Rows
    PROVE  KeysIn(r, split) = 0 .. Last(r) /\ KeysIn(r, split) # {}
  <1>1. split = 0
    BY DEF Running, Splits
  <1>2. SplitLen \in Nat /\ call.len <= SplitLen
    <2>1. SplitLen \in Nat /\ call.len <= NumSplits * SplitLen
      BY SplitFacts
    <2>2. \A x \in Nat : 1 * x = x
      OBVIOUS
    <2> QED BY <2>1, <2>2
  <1>3. Last(r) \in Nat /\ Last(r) < call.len /\ call.len \in Nat /\ call.len <= MaxSeq
    BY RowFacts, CallFacts
  <1>4. ASSUME NEW k PROVE k \in KeysIn(r, split) <=> k \in 0 .. Last(r)
    <2>1. CASE k \in Nat
      <3>1. k <= Last(r) => k \in Keys
        BY <1>3, <2>1, Sizes DEF Keys
      <3>2. 0 * SplitLen = 0 /\ 0 + SplitLen = SplitLen
        BY <1>2
      <3>3. k \in KeysIn(r, split) <=> k \in Keys /\ 0 <= k /\ k < SplitLen /\ k <= Last(r)
        BY <1>1, <3>2 DEF KeysIn
      <3> QED BY <1>2, <1>3, <2>1, <3>1, <3>3
    <2>2. CASE k \notin Nat
      BY <1>3, <2>2, KeysNat DEF KeysIn
    <2> QED BY <2>1, <2>2
  <1>5. 0 \in 0 .. Last(r)
    BY <1>3
  <1> QED BY <1>4, <1>5

LEMMA EndData == ASSUME Exact, EndBlock PROVE Data'
  <1>1. /\ Running /\ \A t \in Threads : phase[t] = "exit"
        /\ split' = IF todo = {} THEN (IF NumSplits > 1 THEN Combine ELSE NoBlock) ELSE NoBlock
        /\ IF split' = Combine
           THEN /\ phase' = [t \in Channels |-> "reduce"]
                /\ arrived' = [t \in Channels |-> FALSE]
                /\ tile0' = [t \in Channels |-> 0]
           ELSE UNCHANGED threads
        /\ UNCHANGED <<call, todo, shared, partial, mRed, lRed, out>>
    BY DEF EndBlock, Running, Splits
  <1>2. IInv /\ Data /\ Stage /\ BlockStands
    BY <1>1 DEF Exact, Data
  <1>3. split \in Splits /\ split # NoBlock /\ split # Combine /\ NoBlock # Combine
        /\ NoBlock \notin Splits /\ Combine \notin Splits
    BY <1>1, <1>2, NotASplit, RunFacts DEF NoBlock, Combine, Running
  <1>4. split \notin todo /\ DOMAIN phase = Threads
    BY <1>2, <1>3 DEF Stage
  <1>5. Rows' = Rows /\ NumSplits' = NumSplits /\ Splits' = Splits /\ NumSplits \in Nat \ {0}
    BY <1>1, <1>2, Frame, SplitFacts
  <1>6. ~Running'
    BY <1>1, <1>3, <1>5 DEF Running
  <1>7. PartsStand'
    <2>1. ASSUME NEW s \in Splits, NEW r \in Rows, NumSplits > 1, s \notin todo
          PROVE  (PartStands(s, r))'
      <3>1. PartStands(s, r)
        <4>1. CASE s = split
          <5>1. /\ SumIs(r, KeysIn(r, split), mSh[r], lSh[r])
                /\ \A d \in Channels : acc[<<r, d>>] = lSh[r]
                /\ \A d \in Channels : \E t \in Threads : Mine(t, r * HeadDim + d)
            BY <1>1, BlockEnds
          <5>2. r \in Threads /\ 0 \in Channels
            BY <1>2, RowFacts, Sizes DEF Channels
          <5>3. partial[split][r].m = mSh[r] /\ partial[split][r].l = lSh[r]
            <6>1. WrittenStands(r, r, 0)
              BY <1>2, <5>2 DEF BlockStands
            <6> QED BY <1>1, <2>1, <5>2, <6>1 DEF WrittenStands
          <5>4. ASSUME NEW d \in Channels PROVE partial[split][r].acc[d] = partial[split][r].l
            <6>1. PICK t \in Threads : Mine(t, r * HeadDim + d)
              BY <5>1
            <6>2. WrittenStands(t, r, d)
              BY <1>2 DEF BlockStands
            <6>3. partial[split][r].acc[d] = acc[<<r, d>>]
              BY <1>1, <2>1, <6>1, <6>2 DEF WrittenStands
            <6> QED BY <5>1, <5>3, <6>3
          <5> QED BY <4>1, <5>1, <5>3, <5>4 DEF PartStands
        <4>2. CASE s # split
          BY <1>2, <2>1, <4>2 DEF Data, PartsStand
        <4> QED BY <4>1, <4>2
      <3> QED BY <1>1, <3>1, PartSame
    <2> QED BY <1>1, <1>5, <2>1 DEF PartsStand
  <1>8. CASE split' = Combine
    <2>1. /\ DOMAIN phase' = Channels /\ todo = {} /\ NumSplits > 1
          /\ \A t \in Channels : phase'[t] = "reduce" /\ arrived'[t] = FALSE
      BY <1>1, <1>3, <1>8
    <2>2. Stage'
      BY <1>1, <1>2, <1>5, <1>8, <2>1 DEF Stage
    <2>3. OutputStands'
      BY <1>3, <1>8 DEF OutputStands, Done
    <2>4. CombineStands'
      <3>1. ASSUME NEW r \in Rows PROVE r \in Channels
        BY <1>2, RowFacts
      <3> QED BY <1>5, <2>1, <3>1 DEF CombineStands, ReducedStands
    <2> QED BY <1>6, <1>7, <2>2, <2>3, <2>4 DEF Data
  <1>9. CASE split' # Combine
    <2>1. /\ split' = NoBlock /\ (todo # {} \/ NumSplits = 1)
          /\ UNCHANGED <<phase, arrived, tile0>>
      BY <1>1, <1>5, <1>9 DEF threads
    <2>2. Stage'
      BY <1>1, <1>2, <1>4, <1>5, <2>1 DEF Stage
    <2>3. OutputStands'
      <3> SUFFICES ASSUME todo' = {}, NEW r \in Rows, NEW d \in Channels PROVE (Final(r, d))'
        BY <1>5 DEF OutputStands, Done
      <3>1. NumSplits = 1
        BY <1>1, <2>1
      <3>2. /\ SumIs(r, KeysIn(r, split), mSh[r], lSh[r])
            /\ acc[<<r, d>>] = lSh[r]
            /\ \E t \in Threads : Mine(t, r * HeadDim + d)
        BY <1>1, BlockEnds
      <3>3. PICK top \in Finite : lSh[r] = SumOver(0 .. Last(r), RowScores(r), top)
        BY <1>1, <1>2, <3>1, <3>2, OneSplit DEF SumIs
      <3>4. out[<<r, d>>] = [acc |-> acc[<<r, d>>], l |-> lSh[r]]
        <4>1. PICK t \in Threads : Mine(t, r * HeadDim + d)
          BY <3>2
        <4>2. WrittenStands(t, r, d)
          BY <1>2 DEF BlockStands
        <4> QED BY <1>1, <3>1, <4>1, <4>2 DEF WrittenStands
      <3>5. Final(r, d)
        BY <3>2, <3>3, <3>4 DEF Final
      <3> QED BY <1>1, <3>5, FinalSame
    <2> QED BY <1>6, <1>7, <1>9, <2>2, <2>3 DEF Data
  <1> QED BY <1>8, <1>9

-----------------------------------------------------------------------------
(* The combine block *)

LEMMA InCombine ==
    ASSUME Exact, NEW t \in DOMAIN phase, phase[t] \in {"reduce", "merge"}
    PROVE  /\ split = Combine /\ todo = {} /\ NumSplits > 1 /\ DOMAIN phase = Channels
           /\ \A u \in Channels : phase[u] \in {"reduce", "merge", "exit"}
           /\ t \in Channels /\ split # NoBlock /\ ~Running /\ CombineStands
           /\ \A s \in Splits, r \in Rows : PartStands(s, r)
  <1>1. IInv /\ Data /\ Stage
    BY DEF Exact, Data
  <1>2. phase # <<>>
    <2>1. DOMAIN <<>> = {}
      OBVIOUS
    <2> QED BY <2>1
  <1>3. /\ split = Combine /\ todo = {} /\ NumSplits > 1 /\ DOMAIN phase = Channels
        /\ \A u \in Channels : phase[u] \in {"reduce", "merge", "exit"}
    BY <1>1, <1>2 DEF Stage
  <1>4. split # NoBlock /\ ~Running /\ Combine \notin Splits
    BY <1>1, <1>3, NotASplit DEF Combine, NoBlock, Running
  <1>5. \A s \in Splits, r \in Rows : PartStands(s, r)
    BY <1>1, <1>3, <1>4 DEF Data, PartsStand
  <1>6. CombineStands
    BY <1>1, <1>3 DEF Data
  <1> QED BY <1>3, <1>4, <1>5, <1>6

\* A key is in one split: the one its index falls to.
LEMMA SplitOf ==
    ASSUME IInv, NEW r \in Rows, NEW k \in Keys, NEW s \in Splits
    PROVE  /\ k \in KeysIn(r, s) <=> k <= Last(r) /\ s = k \div SplitLen
           /\ k <= Last(r) => k \div SplitLen \in Splits
           /\ k \in KeysIn(r, s) => RowScores(r)[k] \in Finite
           /\ k <= Last(r) <=> k \in 0 .. Last(r)
  <1>1. PICK L : L = SplitLen
    OBVIOUS
  <1>2. /\ L \in Nat \ {0} /\ NumSplits \in Nat \ {0} /\ call.len <= NumSplits * L
        /\ NumSplits * L \in Nat
    BY <1>1, SplitFacts
  <1>3. k \in Nat /\ s \in Nat /\ Last(r) \in Nat /\ Last(r) < call.len /\ call.len \in Nat
    BY <1>2, KeysNat, RowFacts, CallFacts DEF Splits
  <1>4. PICK q, x : q = k \div L /\ x = k % L
    OBVIOUS
  <1>5. q \in Nat /\ x \in 0 .. L - 1 /\ k = q * L + x
    BY <1>2, <1>3, <1>4, Places
  <1>6. s * L <= k /\ k < s * L + L <=> s = q
    <2>1. s * L \in Nat /\ q * L \in Nat
      BY <1>2, <1>3, <1>5, ProductNat
    <2>2. s = q => s * L <= k /\ k < s * L + L
      BY <1>2, <1>5, <2>1
    <2>3. s * L <= k /\ k < s * L + L => s = q
      <3> SUFFICES ASSUME s * L <= k, k < s * L + L PROVE s = q
        OBVIOUS
      <3>1. k - s * L \in 0 .. L - 1
        BY <1>2, <1>3, <2>1
      <3>2. s * L + (k - s * L) = q * L + x
        BY <1>3, <1>5, <2>1
      <3> QED BY <1>2, <1>3, <1>5, <3>1, <3>2, OnePlace
    <2> QED BY <2>2, <2>3
  <1>7. k \in KeysIn(r, s) <=> k <= Last(r) /\ s = q
    BY <1>1, <1>6 DEF KeysIn
  <1>8. k <= Last(r) => q \in Splits
    <2> SUFFICES ASSUME k <= Last(r) PROVE q \in Splits
      OBVIOUS
    <2>1. k < NumSplits * L
      BY <1>2, <1>3
    <2>2. k \div L \in 0 .. NumSplits - 1
      BY <1>2, <1>3, <2>1, PlaceRow
    <2> QED BY <1>4, <2>2 DEF Splits
  <1>9. k \in KeysIn(r, s) => RowScores(r)[k] \in Finite
    BY <1>3, <1>7, FiniteScores
  <1> QED BY <1>1, <1>3, <1>4, <1>7, <1>8, <1>9

\* The partial sums of the splits, moved to one maximum, are the sum of the row.
LEMMA MergedIs ==
    ASSUME IInv, DOMAIN partial = Splits, NEW r \in Rows, NEW top \in Finite, NEW part,
           \A s \in Splits : SumIs(r, KeysIn(r, s), partial[s][r].m, part[s])
    PROVE  Merged(r, top, part) = SumOver(0 .. Last(r), RowScores(r), top)
  <1> DEFINE with(k) == {s \in DOMAIN partial : partial[s][r].m # NegInf /\ part[s][k] # NegInf}
             merged(k) == IF with(k) = {} THEN NegInf
                          ELSE IF Cardinality(with(k)) > 1 THEN Junk
                          ELSE LET s == CHOOSE x \in with(k) : TRUE
                               IN  part[s][k] + (partial[s][r].m - top)
  <1>1. ASSUME NEW k \in Keys, NEW s \in Splits
        PROVE  /\ s \in with(k) <=> k \in KeysIn(r, s)
               /\ k \in KeysIn(r, s) =>
                      partial[s][r].m \in Finite /\ part[s][k] = RowScores(r)[k] - partial[s][r].m
    <2>1. SumIs(r, KeysIn(r, s), partial[s][r].m, part[s])
      OBVIOUS
    <2>2. CASE k \in KeysIn(r, s)
      <3>1. partial[s][r].m \in Finite /\ part[s] = SumOver(KeysIn(r, s), RowScores(r), partial[s][r].m)
        BY <2>1, <2>2 DEF SumIs
      <3>2. part[s][k] = RowScores(r)[k] - partial[s][r].m
        BY <2>2, <3>1 DEF SumOver
      <3>3. RowScores(r)[k] \in Finite
        BY <2>2, SplitOf
      <3>4. part[s][k] # NegInf /\ partial[s][r].m # NegInf
        BY <3>1, <3>2, <3>3, Sentinels
      <3> QED BY <2>2, <3>1, <3>2, <3>4
    <2>3. CASE k \notin KeysIn(r, s)
      <3>1. CASE KeysIn(r, s) = {}
        BY <2>1, <2>3, <3>1 DEF SumIs
      <3>2. CASE KeysIn(r, s) # {}
        <4>1. part[s] = SumOver(KeysIn(r, s), RowScores(r), partial[s][r].m)
          BY <2>1, <3>2 DEF SumIs
        <4>2. part[s][k] = NegInf
          BY <2>3, <4>1 DEF SumOver
        <4> QED BY <2>3, <4>2
      <3> QED BY <3>1, <3>2
    <2> QED BY <2>2, <2>3
  <1>2. ASSUME NEW k \in Keys
        PROVE  merged(k) = IF k \in 0 .. Last(r) THEN RowScores(r)[k] - top ELSE NegInf
    <2>0. 0 \in Splits
      BY SplitFacts DEF Splits
    <2>1. PICK q : q = k \div SplitLen
      OBVIOUS
    <2>2. CASE k \in 0 .. Last(r)
      <3>1. q \in Splits
        BY <2>0, <2>1, <2>2, SplitOf
      <3>2. \A s \in Splits : k \in KeysIn(r, s) <=> s = q
        BY <2>1, <2>2, SplitOf
      <3>3. with(k) = {q}
        BY <1>1, <3>1, <3>2
      <3>4. Cardinality({q}) = 1 /\ ~(1 > 1) /\ (CHOOSE x \in {q} : TRUE) = q
        <4>1. Cardinality({q}) = 1
          BY FS_Singleton
        <4> QED BY <4>1
      <3>5. PICK a, b : a = RowScores(r)[k] /\ b = partial[q][r].m
        OBVIOUS
      <3>6. a \in Finite /\ b \in Finite /\ part[q][k] = a - b
        BY <1>1, <3>1, <3>2, <3>5, SplitOf
      <3>7. (a - b) + (b - top) = a - top
        <4>1. a \in Int /\ b \in Int /\ top \in Int
          BY <3>6, Sentinels
        <4> QED BY <4>1
      <3> HIDE DEF with
      <3>8. merged(k) = part[q][k] + (partial[q][r].m - top)
        BY <3>3, <3>4
      <3> QED BY <2>2, <3>5, <3>6, <3>7, <3>8
    <2>3. CASE k \notin 0 .. Last(r)
      <3>1. with(k) = {}
        BY <1>1, <2>3, SplitOf
      <3> HIDE DEF with
      <3> QED BY <2>3, <3>1
    <2> QED BY <2>2, <2>3
  <1>3. Merged(r, top, part) = [k \in Keys |-> merged(k)]
    BY DEF Merged
  <1> HIDE DEF merged
  <1> QED BY <1>2, <1>3 DEF SumOver

\* The largest of the maxima of a row, and the denominator relative to it.
LEMMA ReduceData ==
    ASSUME Exact, NEW t \in DOMAIN phase, Reduce(t) PROVE Data'
  <1>1. /\ Finish(t, "reduce") /\ UNCHANGED <<shared, partial, out>>
        /\ t \notin Rows => UNCHANGED <<mRed, lRed>>
    BY DEF Reduce
  <1>2. "reduce" \in SyncAfter /\ IInv /\ Data /\ Stage /\ phase[t] = "reduce"
    BY <1>1 DEF SyncAfter, Exact, Data, Finish
  <1>3. /\ split = Combine /\ todo = {} /\ NumSplits > 1 /\ DOMAIN phase = Channels
        /\ t \in Channels /\ split # NoBlock /\ ~Running /\ CombineStands
        /\ \A s \in Splits, r \in Rows : PartStands(s, r)
    BY <1>2, InCombine
  <1>4. /\ \A u \in Channels : phase[u] = "reduce" /\ phase'[u] = "reduce"
        /\ UNCHANGED <<call, todo, split, phase, tile0>> /\ ~arrived[t]
        /\ \A u \in Channels : arrived'[u] = (u = t \/ arrived[u])
    BY <1>1, <1>2, <1>3, Waits
  <1>5. Rows' = Rows /\ NumSplits' = NumSplits /\ Splits' = Splits
    BY <1>4, Frame
  <1>6. DOMAIN mRed = Rows /\ DOMAIN lRed = Rows /\ DOMAIN partial = Splits
    BY <1>2 DEF Stage
  <1>7. t \in Rows =>
            /\ mRed'[t] \in Finite
            /\ lRed'[t] = SumOver(0 .. Last(t), RowScores(t), mRed'[t])
    <2> SUFFICES ASSUME t \in Rows
                 PROVE  /\ mRed'[t] \in Finite
                        /\ lRed'[t] = SumOver(0 .. Last(t), RowScores(t), mRed'[t])
      OBVIOUS
    <2> DEFINE ms == {partial[s][t].m : s \in DOMAIN partial}
               m == CHOOSE x \in ms : \A y \in ms : x >= y
               part == [s \in DOMAIN partial |-> partial[s][t].l]
    <2>1. mRed' = [mRed EXCEPT ![t] = m] /\ lRed' = [lRed EXCEPT ![t] = Merged(t, m, part)]
      BY DEF Reduce
    <2>2. \A s \in Splits : SumIs(t, KeysIn(t, s), partial[s][t].m, partial[s][t].l)
      BY <1>3 DEF PartStands
    <2>3. ms \subseteq Finite \cup {NegInf}
      BY <1>6, <2>2 DEF SumIs
    <2>4. ms \cap Finite # {}
      <3>1. 0 \in Splits /\ 0 \in Keys /\ 0 <= Last(t)
        <4>1. NumSplits \in Nat \ {0} /\ MaxSeq \in Nat /\ call.len \in 1 .. MaxSeq /\ Last(t) \in Nat
          BY <1>2, SplitFacts, CallFacts, RowFacts, Sizes
        <4> QED BY <4>1 DEF Splits, Keys
      <3>2. PICK q \in Splits : q = 0 \div SplitLen
        BY <1>2, <3>1, SplitOf
      <3>3. 0 \in KeysIn(t, q)
        BY <1>2, <3>1, <3>2, SplitOf
      <3>4. partial[q][t].m \in Finite
        BY <2>2, <3>2, <3>3 DEF SumIs
      <3> QED BY <1>6, <3>4
    <2> HIDE DEF ms
    <2>5. m \in Finite
      BY <2>3, <2>4, MaximumIs
    <2> HIDE DEF m
    <2>6. \A s \in Splits : SumIs(t, KeysIn(t, s), partial[s][t].m, part[s])
      BY <1>6, <2>2
    <2> HIDE DEF part
    <2>7. Merged(t, m, part) = SumOver(0 .. Last(t), RowScores(t), m)
      BY <1>2, <1>6, <2>5, <2>6, MergedIs
    <2>8. mRed'[t] = m /\ lRed'[t] = Merged(t, m, part)
      BY <1>6, <2>1
    <2> QED BY <2>5, <2>7, <2>8
  <1>8. /\ \A r \in Rows : r # t => mRed'[r] = mRed[r] /\ lRed'[r] = lRed[r]
        /\ DOMAIN mRed' = Rows /\ DOMAIN lRed' = Rows
    <2>1. CASE t \notin Rows
      BY <1>1, <1>6, <2>1
    <2>2. CASE t \in Rows
      <3>1. \E a, b : mRed' = [mRed EXCEPT ![t] = a] /\ lRed' = [lRed EXCEPT ![t] = b]
        BY <2>2 DEF Reduce
      <3> QED BY <1>6, <3>1
    <2> QED BY <2>1, <2>2
  <1>9. Stage'
    BY <1>1, <1>2, <1>3, <1>4, <1>5, <1>8 DEF Stage
  <1>10. PartsStand'
    BY <1>1, <1>2, <1>4, PartsSame DEF Data
  <1>11. OutputStands' /\ ~Running'
    BY <1>3, <1>4, <1>5 DEF OutputStands, Done, Running
  <1>12. ASSUME NEW r \in Rows PROVE (ReducedStands(r))' /\ \A d \in Channels : phase'[d] # "exit"
    <2>1. r \in Channels
      BY <1>2, RowFacts
    <2>2. arrived'[r] =>
              mRed'[r] \in Finite /\ lRed'[r] = SumOver(0 .. Last(r), RowScores(r), mRed'[r])
      <3>1. CASE r = t
        BY <1>7, <3>1
      <3>2. CASE r # t
        <4>1. arrived[r] =>
                  mRed[r] \in Finite /\ lRed[r] = SumOver(0 .. Last(r), RowScores(r), mRed[r])
          BY <1>3 DEF CombineStands, ReducedStands
        <4> QED BY <1>4, <1>8, <2>1, <3>2, <4>1
      <3> QED BY <3>1, <3>2
    <2>3. (Last(r))' = Last(r) /\ (RowScores(r))' = RowScores(r)
      BY <1>4, Frame
    <2>4. (SumOver(0 .. Last(r), RowScores(r), mRed[r]))' = SumOver(0 .. Last(r), RowScores(r), mRed'[r])
      BY <2>3 DEF SumOver
    <2> QED BY <1>4, <2>1, <2>2, <2>4 DEF ReducedStands
  <1>13. CombineStands'
    BY <1>5, <1>12 DEF CombineStands
  <1> QED BY <1>9, <1>10, <1>11, <1>13 DEF Data

LEMMA FinalFrom ==
    ASSUME call' = call, NEW r, NEW d, NEW top \in Finite, NEW sum,
           sum = SumOver(0 .. Last(r), RowScores(r), top), out'[<<r, d>>] = [acc |-> sum, l |-> sum]
    PROVE  (Final(r, d))'
  BY Frame DEF Final, SumOver

\* A lane merges its channel of every row.
LEMMA MergeData ==
    ASSUME Exact, NEW t \in DOMAIN phase, Merge(t) PROVE Data'
  <1>1. /\ Finish(t, "merge") /\ UNCHANGED <<shared, partial, mRed, lRed>>
        /\ out' = [i \in DOMAIN out |->
                      IF i[2] = t
                      THEN [acc |-> Merged(i[1], mRed[i[1]],
                                           [s \in DOMAIN partial |-> partial[s][i[1]].acc[t]]),
                            l |-> lRed[i[1]]]
                      ELSE out[i]]
    BY DEF Merge
  <1>2. IInv /\ Data /\ Stage /\ phase[t] = "merge" /\ "merge" \notin SyncAfter
    BY <1>1 DEF SyncAfter, Exact, Data, Finish
  <1>3. /\ split = Combine /\ todo = {} /\ NumSplits > 1 /\ DOMAIN phase = Channels
        /\ t \in Channels /\ split # NoBlock /\ ~Running /\ CombineStands
        /\ \A u \in Channels : phase[u] \in {"reduce", "merge", "exit"}
        /\ \A s \in Splits, r \in Rows : PartStands(s, r)
    BY <1>2, InCombine
  <1>4. Leaving
    BY <1>2 DEF IInv, Together
  <1>5. /\ UNCHANGED <<call, todo, split, arrived>>
        /\ phase' = [phase EXCEPT ![t] = Following("merge", tile0[t])[1]]
    BY <1>1, <1>2 DEF Finish
  <1>6. Following("merge", tile0[t])[1] = "exit"
    BY DEF Following
  <1>7. /\ DOMAIN phase' = Channels
        /\ \A u \in Channels : phase'[u] = (IF u = t THEN "exit" ELSE phase[u])
        /\ \A u \in Channels : phase[u] # "reduce" /\ phase'[u] \in {"merge", "exit"}
    BY <1>3, <1>4, <1>5, <1>6 DEF Leaving
  <1>8. Rows' = Rows /\ NumSplits' = NumSplits /\ Splits' = Splits
    BY <1>5, Frame
  <1>9. DOMAIN partial = Splits /\ DOMAIN out = Rows \X Channels
    BY <1>2 DEF Stage
  <1>10. Stage'
    <2>1. DOMAIN out' = DOMAIN out
      BY <1>1
    <2> QED BY <1>1, <1>2, <1>3, <1>5, <1>7, <1>8, <2>1 DEF Stage
  <1>11. PartsStand'
    BY <1>1, <1>2, <1>5, PartsSame DEF Data
  <1>12. OutputStands' /\ ~Running'
    BY <1>3, <1>5, <1>8 DEF OutputStands, Done, Running
  <1>13. ASSUME NEW r \in Rows
         PROVE  mRed[r] \in Finite /\ lRed[r] = SumOver(0 .. Last(r), RowScores(r), mRed[r])
    BY <1>2, <1>3, <1>7, RowFacts DEF CombineStands, ReducedStands
  <1>14. ASSUME NEW r \in Rows PROVE (ReducedStands(r))'
    <2>1. (Last(r))' = Last(r) /\ (RowScores(r))' = RowScores(r)
      BY <1>5, Frame
    <2>2. (SumOver(0 .. Last(r), RowScores(r), mRed[r]))' = SumOver(0 .. Last(r), RowScores(r), mRed[r])
      BY <1>1, <2>1 DEF SumOver
    <2> QED BY <1>1, <1>13, <2>2 DEF ReducedStands
  <1>15. ASSUME NEW r \in Rows, NEW d \in Channels, phase'[d] = "exit" PROVE (Final(r, d))'
    <2>1. <<r, d>> \in DOMAIN out /\ <<r, d>>[1] = r /\ <<r, d>>[2] = d
      BY <1>9
    <2>2. CASE d = t
      <3> DEFINE part == [s \in DOMAIN partial |-> partial[s][r].acc[t]]
      <3>1. out'[<<r, d>>] = [acc |-> Merged(r, mRed[r], part), l |-> lRed[r]]
        BY <1>1, <2>1, <2>2
      <3>2. \A s \in Splits : SumIs(r, KeysIn(r, s), partial[s][r].m, part[s])
        <4>1. \A s \in Splits : SumIs(r, KeysIn(r, s), partial[s][r].m, partial[s][r].l)
                                /\ partial[s][r].acc[t] = partial[s][r].l
          BY <1>3 DEF PartStands
        <4> QED BY <1>9, <4>1
      <3> HIDE DEF part
      <3>3. Merged(r, mRed[r], part) = SumOver(0 .. Last(r), RowScores(r), mRed[r])
        BY <1>2, <1>9, <1>13, <3>2, MergedIs
      <3>4. out'[<<r, d>>] = [acc |-> lRed[r], l |-> lRed[r]]
        BY <1>13, <3>1, <3>3
      <3> QED BY <1>5, <1>13, <3>4, FinalFrom
    <2>3. CASE d # t
      <3>1. out'[<<r, d>>] = out[<<r, d>>]
        BY <1>1, <2>1, <2>3
      <3>2. Final(r, d)
        BY <1>3, <1>7, <1>15, <2>3 DEF CombineStands
      <3> QED BY <1>5, <3>1, <3>2, FinalSame
    <2> QED BY <2>2, <2>3
  <1>16. CombineStands'
    BY <1>8, <1>14, <1>15 DEF CombineStands
  <1> QED BY <1>10, <1>11, <1>12, <1>16 DEF Data

LEMMA EndCombineData == ASSUME Exact, EndCombine PROVE Data'
  <1>1. /\ split = Combine /\ \A t \in Channels : phase[t] = "exit"
        /\ split' = NoBlock
        /\ UNCHANGED <<call, todo, threads, shared, partial, mRed, lRed, out>>
    BY DEF EndCombine
  <1>2. IInv /\ Data /\ Stage /\ CombineStands
    BY <1>1 DEF Exact, Data
  <1>3. NoBlock \notin Splits /\ Combine \notin Splits /\ Combine # NoBlock
    BY <1>2, NotASplit DEF NoBlock, Combine
  <1>4. Rows' = Rows /\ NumSplits' = NumSplits /\ Splits' = Splits
    BY <1>1, Frame
  <1>5. todo = {} /\ NumSplits > 1 /\ DOMAIN phase = Channels
    BY <1>1, <1>2, <1>3 DEF Stage, Running
  <1>6. UNCHANGED <<phase, arrived, tile0>>
    BY <1>1 DEF threads
  <1>7. Stage'
    BY <1>1, <1>2, <1>4, <1>5, <1>6 DEF Stage
  <1>8. PartsStand'
    <2>1. \A x \in Splits : x \notin todo' \cup {split'} => x \notin todo \cup {split}
      BY <1>1, <1>3
    <2> QED BY <1>1, <1>2, <2>1, PartsSame DEF Data
  <1>9. OutputStands'
    <2>1. ASSUME NEW r \in Rows, NEW d \in Channels PROVE (Final(r, d))'
      <3>1. Final(r, d)
        BY <1>1, <1>2 DEF CombineStands
      <3> QED BY <1>1, <3>1, FinalSame
    <2> QED BY <1>4, <2>1 DEF OutputStands
  <1>10. ~Running' /\ split' # Combine
    BY <1>1, <1>3, <1>4 DEF Running
  <1> QED BY <1>7, <1>8, <1>9, <1>10 DEF Data

-----------------------------------------------------------------------------
(* The output is exact *)

LEMMA InitData == Init => Data
  <1> SUFFICES ASSUME Init PROVE Data
    OBVIOUS
  <1>1. IInv
    BY InitIInv
  <1>2. /\ split = NoBlock /\ todo = Splits /\ phase = <<>>
        /\ DOMAIN partial = Splits /\ DOMAIN out = Rows \X Channels
        /\ DOMAIN mRed = Rows /\ DOMAIN lRed = Rows
    BY DEF Init, Splits
  <1>3. ~Running /\ split # Combine
    BY <1>1, <1>2, NotASplit DEF Running, NoBlock, Combine
  <1>4. Stage
    BY <1>2 DEF Stage
  <1>5. PartsStand /\ OutputStands
    BY <1>2 DEF PartsStand, OutputStands, Done
  <1> QED BY <1>3, <1>4, <1>5 DEF Data

LEMMA StutterData == ASSUME Exact, UNCHANGED vars PROVE Data'
  <1>1. /\ UNCHANGED <<call, todo, split, phase, arrived, tile0>>
        /\ UNCHANGED <<qSh, kSh, vSh, scores, mSh, lSh, corrSh, acc>>
        /\ UNCHANGED <<partial, mRed, lRed, out>>
    BY DEF vars, threads, shared
  <1>2. IInv /\ Data /\ Stage
    BY DEF Exact, Data
  <1>3. /\ Rows' = Rows /\ NumSplits' = NumSplits /\ Splits' = Splits
        /\ (Running' <=> Running) /\ KvStart' = KvStart /\ KvEnd' = KvEnd
    BY <1>1, Frame, FrameBlock
  <1>4. Stage'
    BY <1>1, <1>2, <1>3 DEF Stage
  <1>5. PartsStand'
    BY <1>1, <1>2, PartsSame DEF Data
  <1>6. \A r, d : Final(r, d) => (Final(r, d))'
    BY <1>1, FinalSame
  <1>7. OutputStands'
    BY <1>1, <1>2, <1>3, <1>6 DEF Data, OutputStands, Done
  <1>8. CASE Running
    <2>1. BlockStands /\ split' # Combine
      BY <1>1, <1>2, <1>8, RunFacts DEF Data
    <2>2. Shapes' /\ Progress'
      BY <1>1, <1>3, <2>1 DEF BlockStands, Shapes, Progress
    <2>3. ASSUME NEW u \in Threads, NEW r \in Rows, NEW d \in Channels
          PROVE  (QueryStands(u, r, d))' /\ (AccStands(u, r, d))' /\ (WrittenStands(u, r, d))'
      <3>1. QueryStands(u, r, d) /\ AccStands(u, r, d) /\ WrittenStands(u, r, d)
        BY <2>1 DEF BlockStands
      <3>2. Behind(r, tile0[u], d) => (Behind(r, tile0[u], d))'
        <4>1. PICK n : n = tile0[u]
          OBVIOUS
        <4>2. Behind(r, n, d) => (Behind(r, n, d))'
          BY <1>1, BehindSame
        <4> QED BY <1>1, <4>1, <4>2 DEF Behind, Below
      <3>3. (AccStands(u, r, d))'
        BY <1>1, <3>1, <3>2 DEF AccStands, Mine
      <3>4. (WrittenStands(u, r, d))'
        BY <1>1, <1>3, <3>1 DEF WrittenStands, Mine
      <3>5. (QueryStands(u, r, d))'
        BY <1>1, <3>1 DEF QueryStands, Mine
      <3> QED BY <3>3, <3>4, <3>5
    <2>4. ASSUME NEW u \in Threads, NEW kt \in TileRows, NEW d \in Channels
          PROVE  (TileStands(u, kt, d))'
      <3>1. TileStands(u, kt, d)
        BY <2>1 DEF BlockStands
      <3>2. (TileKey(u, kt))' = TileKey(u, kt)
        BY <1>1, TileKeySame
      <3> QED BY <1>1, <3>1, <3>2 DEF TileStands, Mine
    <2>5. ASSUME NEW u \in Threads, NEW r \in Rows, NEW kt \in TileRows
          PROVE  (ScoresStand(u, r, kt))'
      <3>1. ScoresStand(u, r, kt)
        BY <2>1 DEF BlockStands
      <3>2. PICK n, top : n = tile0[u] /\ top = mSh[r]
        OBVIOUS
      <3>3. (Term(r, n, kt, top))' = Term(r, n, kt, top) /\ (Term(r, n, kt, 0))' = Term(r, n, kt, 0)
        BY <1>1, FrameBlock
      <3>4. tile0'[u] = n /\ mSh'[r] = top
        BY <1>1, <3>2
      <3>5. /\ (Term(r, tile0[u], kt, mSh[r]))' = Term(r, tile0[u], kt, mSh[r])
            /\ (Term(r, tile0[u], kt, 0))' = Term(r, tile0[u], kt, 0)
        BY <3>2, <3>3, <3>4 DEF Term, Masked, RowScores
      <3> QED BY <1>1, <3>1, <3>5 DEF ScoresStand, Mine
    <2>6. ASSUME NEW r \in Rows PROVE (RowStands(r))'
      <3>1. RowStands(r) /\ (KeysBehind(r))' = KeysBehind(r)
        BY <1>1, <2>1 DEF BlockStands, KeysBehind, PastSoftmax
      <3>2. CASE phase[r] # "load_q" \/ arrived[r]
        BY <1>1, <3>1, <3>2, RowSame
      <3>3. CASE ~(phase[r] # "load_q" \/ arrived[r])
        BY <1>1, <3>3 DEF RowStands
      <3> QED BY <3>2, <3>3
    <2> QED BY <1>3, <1>4, <1>5, <1>7, <2>1, <2>2, <2>3, <2>4, <2>5, <2>6, BlockData
  <1>9. CASE ~Running
    <2>1. split = Combine => CombineStands'
      <3> SUFFICES ASSUME split = Combine PROVE CombineStands'
        OBVIOUS
      <3>1. ASSUME NEW r \in Rows
            PROVE  (ReducedStands(r))' /\ \A d \in Channels : phase'[d] = "exit" => (Final(r, d))'
        <4>1. ReducedStands(r) /\ \A d \in Channels : phase[d] = "exit" => Final(r, d)
          BY <1>2 DEF Data, CombineStands
        <4>2. (Last(r))' = Last(r) /\ (RowScores(r))' = RowScores(r)
          BY <1>1, Frame
        <4>3. (SumOver(0 .. Last(r), RowScores(r), mRed[r]))' = SumOver(0 .. Last(r), RowScores(r), mRed[r])
          BY <1>1, <4>2 DEF SumOver
        <4>4. (ReducedStands(r))'
          BY <1>1, <4>1, <4>3 DEF ReducedStands
        <4> QED BY <1>1, <1>6, <4>1, <4>4
      <3> QED BY <1>3, <3>1 DEF CombineStands
    <2> QED BY <1>1, <1>3, <1>4, <1>5, <1>7, <1>9, <2>1 DEF Data
  <1> QED BY <1>8, <1>9

LEMMA NextExact == Exact /\ [Next]_vars => Exact'
  <1> SUFFICES ASSUME Exact, [Next]_vars PROVE Data'
    BY NextIInv DEF Exact
  <1>1. CASE \E s \in todo : StartBlock(s)
    BY <1>1, StartData
  <1>2. ASSUME NEW t \in DOMAIN phase, ThreadStep(t) PROVE Data'
    BY <1>2, LoadQData, RopeData, LoadTileData, ScoresData, SoftmaxData, AccumulateData,
       WriteOutData, WritePartialData, ReduceData, MergeData DEF ThreadStep
  <1>3. CASE SyncThreads
    BY <1>3, SyncData
  <1>4. CASE EndBlock
    BY <1>4, EndData
  <1>5. CASE EndCombine
    BY <1>5, EndCombineData
  <1>6. CASE UNCHANGED vars
    BY <1>6, StutterData
  <1> QED BY <1>1, <1>2, <1>3, <1>4, <1>5, <1>6 DEF Next

\* Every row that has its result has the softmax of its scores.
LEMMA ExactOutput == Exact => OutputExact
  <1> SUFFICES ASSUME Exact, Done, NEW i \in Rows \X Channels
      PROVE  IsSoftmax(out[i].acc, out[i].l, LAMBDA k : Score(call.shape, i[1], k),
                       call.len - call.rows + i[1] + 1)
    BY DEF OutputExact
  <1>1. IInv /\ Data
    BY DEF Exact
  <1>2. PICK x \in Rows, d \in Channels : i = <<x, d>>
    OBVIOUS
  <1>3. Final(x, d)
    BY <1>1 DEF Data, OutputStands
  <1>4. PICK top, f, n, sum :
            /\ top \in Finite /\ f = RowScores(x) /\ n = call.len - call.rows + x + 1
            /\ sum = SumOver(0 .. n - 1, f, top)
            /\ out[i] = [acc |-> sum, l |-> sum]
    <2>1. call.len \in Nat /\ call.rows \in Nat /\ x \in Nat
      BY <1>1, CallFacts, RowFacts
    <2>2. Last(x) = (call.len - call.rows + x + 1) - 1
      BY <2>1 DEF Last
    <2> QED BY <1>2, <1>3, <2>2 DEF Final
  <1>5. n \in 1 .. MaxSeq /\ n <= call.len /\ call.len \in Nat
    <2>1. /\ call.len \in Nat /\ call.len <= MaxSeq /\ call.rows \in Nat /\ MaxSeq \in Nat
          /\ x \in Nat /\ Last(x) \in Nat /\ Last(x) < call.len
      BY <1>1, CallFacts, RowFacts, Sizes
    <2>2. n = Last(x) + 1
      BY <1>4, <2>1 DEF Last
    <2> QED BY <2>1, <2>2
  <1>6. \A k \in 0 .. n - 1 : k \in Keys /\ f[k] \in Finite /\ f[k] = Score(call.shape, x, k)
    <2> SUFFICES ASSUME NEW k \in 0 .. n - 1
                 PROVE  k \in Keys /\ f[k] \in Finite /\ f[k] = Score(call.shape, x, k)
      OBVIOUS
    <2>1. k \in Nat /\ k < call.len
      BY <1>5
    <2>2. k \in Keys /\ RowScores(x)[k] \in Finite
      BY <1>1, <2>1, FiniteScores
    <2> QED BY <1>4, <2>2 DEF RowScores
  <1>7. /\ \A k \in Keys : (sum[k] # NegInf) <=> (k < n)
        /\ \A k \in 0 .. n - 1 : sum[k] - f[k] = sum[0] - f[0]
    <2>1. /\ MaxSeq \in Nat /\ n \in 1 .. MaxSeq /\ top \in Finite
          /\ \A k \in 0 .. n - 1 : f[k] \in Finite
      BY <1>4, <1>5, <1>6, Sizes
    <2>2. LET whole == SumOver(0 .. n - 1, f, top) IN
          /\ \A k \in Keys : (whole[k] # NegInf) <=> (k < n)
          /\ \A k \in 0 .. n - 1 : whole[k] - f[k] = whole[0] - f[0]
      BY <2>1, WholeSum
    <2> QED BY <1>4, <2>2
  <1>8. \A k \in 0 .. n - 1 :
            sum[k] - Score(call.shape, x, k) = sum[0] - Score(call.shape, x, 0)
    <2>1. 0 \in 0 .. n - 1
      BY <1>5, Sizes
    <2> QED BY <1>6, <1>7, <2>1
  <1>9. out[i].acc = sum /\ out[i].l = sum /\ i[1] = x
    BY <1>2, <1>4
  <1> QED BY <1>4, <1>7, <1>8, <1>9 DEF IsSoftmax

\* Whatever the number of threads, channels, rows and splits, however long the
\* text, and in whatever order the threads and the blocks run, every output of a
\* decode or verify launch is exactly the softmax of its row's scores over its own
\* key and those before it, weighing the values of the same keys: a single block
\* computes it, and the combine kernel recovers it from the blocks of the splits.
THEOREM SoftmaxOfTheText == Spec => []OutputExact
  <1>1. Init => Exact
    BY InitIInv, InitData DEF Exact
  <1> QED BY <1>1, NextExact, ExactOutput, PTL DEF Spec
=============================================================================
