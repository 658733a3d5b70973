------------------------ MODULE FlashAttention_proofs ------------------------
(***************************************************************************)
(* The warps of flash_attention_kernel never race and never part at a      *)
(* barrier, and every query row of a call ends with exactly the softmax of *)
(* its scores, for every number of warps, rows, keys and channels of a     *)
(* tile and every list of calls.                                           *)
(*                                                                         *)
(* Races: between two barriers all the warps of a block are in one phase   *)
(* with one tile (IInv), so RaceFree only has to compare what two warps do *)
(* in the same phase, and there a word has one warp: the one its index is  *)
(* assigned to by the loop over the threads, or the one that owns its row. *)
(* The only phases the warps are in apart are after the last barrier,      *)
(* where none touches shared memory.                                       *)
(*                                                                         *)
(* Results: Data says, of each phase, what the block has made by then: the *)
(* queries loaded and rotated, the keys and values of the tile at their    *)
(* places, the scores of the keys that take part, and after n tiles in     *)
(* each row the sum over the keys of those tiles the row may see, relative *)
(* to one finite maximum (Folded).  A tile folded in by a warp keeps that  *)
(* (RowFolds): the sum so far moves to the new maximum (Rescaled) and the  *)
(* tile's is over other keys (Added).  The last tile reaches past the last *)
(* query of the block (WholeRow), so what is stored is over all of them.   *)
(***************************************************************************)
EXTENDS FlashAttention, FiniteSetTheorems, NaturalsInduction,
        WellFoundedInduction, TLAPS

-----------------------------------------------------------------------------
(* The running softmax: what OnlineSoftmax computes.  A sum over some keys
   relative to one maximum can be moved to another (Rescaled), and two sums over
   different keys relative to one maximum add up to the sum over both (Added). *)

\* The sum over the keys S, of scores f, relative to the maximum mx.
SumOver(S, f, mx) == [k \in Keys |-> IF k \in S THEN f[k] - mx ELSE NegInf]

-----------------------------------------------------------------------------
(* Maxima *)

LEMMA Sentinels ==
    /\ MaxScore \in Nat /\ NegInf \in Int /\ NegInf \notin Finite /\ Finite \subseteq Int
    /\ \A x \in Finite : NegInf < x
    /\ \A x, y \in Finite : x - y # NegInf /\ x - y \in Int
  BY SoftmaxAssumption DEF NegInf, Finite

\* A set of natural numbers has a least element.
LEMMA LeastExists ==
    ASSUME NEW T, T \subseteq Nat, T # {}
    PROVE  \E x \in T : \A y \in T : x <= y
  <1>1. IsWellFoundedOn(OpToRel(<, Nat), Nat)
    BY NatLessThanWellFounded
  <1>2. PICK x \in T : \A y \in T : ~(<<y, x>> \in OpToRel(<, Nat))
    BY <1>1, WFMin
  <1>3. \A y \in T : ~(y < x)
    BY <1>2 DEF OpToRel
  <1> QED BY <1>3

\* A bounded set of integers has a largest element.
LEMMA LargestExists ==
    ASSUME NEW S, S \subseteq Int, S # {}, NEW B \in Int, \A x \in S : x <= B
    PROVE  \E e \in S : \A f \in S : e >= f
  <1> DEFINE T == {B - x : x \in S}
  <1>0. \A x \in S : B - x \in Nat
    OBVIOUS
  <1>1. T \subseteq Nat /\ T # {}
    <2>1. PICK x \in S : TRUE
      OBVIOUS
    <2>2. B - x \in T
      BY <2>1
    <2> QED BY <1>0, <2>2
  <1>2. PICK y \in T : \A z \in T : y <= z
    BY <1>1, LeastExists
  <1>3. PICK e \in S : y = B - e
    BY <1>2
  <1>4. \A f \in S : B - f \in T
    OBVIOUS
  <1>5. \A f \in S : B - e <= B - f
    BY <1>2, <1>3, <1>4
  <1>6. ASSUME NEW f \in S PROVE e >= f
    <2>1. e \in Int /\ f \in Int /\ B - e <= B - f
      BY <1>5
    <2> QED BY <2>1
  <1> QED
    BY <1>6

\* The maximum of scores some of which take part is one of those.
LEMMA MaximumIs ==
    ASSUME NEW S, S \subseteq Finite \cup {NegInf}, S \cap Finite # {}
    PROVE  /\ (CHOOSE e \in S : \A f \in S : e >= f) \in S
           /\ (CHOOSE e \in S : \A f \in S : e >= f) \in Finite
  <1>1. \E e \in S : \A f \in S : e >= f
    <2>1. S \subseteq Int /\ S # {} /\ \A x \in S : x <= MaxScore
      BY Sentinels DEF Finite
    <2>2. MaxScore \in Int
      BY Sentinels
    <2> QED BY <2>1, <2>2, LargestExists, Zenon
  <1> DEFINE mx == CHOOSE e \in S : \A f \in S : e >= f
  <1>2. mx \in S /\ \A f \in S : mx >= f
    BY <1>1
  <1> HIDE DEF mx
  <1>3. PICK x \in S : x \in Finite
    OBVIOUS
  <1>4. mx >= x /\ NegInf < x
    BY <1>2, <1>3, Sentinels
  <1>5. mx # NegInf
    BY <1>3, <1>4, Sentinels
  <1>6. mx \in Finite
    BY <1>2, <1>5
  <1> QED BY <1>2, <1>6 DEF mx

-----------------------------------------------------------------------------
(* Sums *)

\* A sum over no key is no sum, relative to anything.
LEMMA EmptySum ==
    ASSUME NEW f, NEW mx PROVE SumOver({}, f, mx) = NoTerms
  BY DEF SumOver, NoTerms

LEMMA ScaledEmpty ==
    ASSUME NEW x PROVE Scale(NoTerms, x) = NoTerms
  BY DEF Scale, NoTerms

\* The factor of the two maxima moves a sum from one to the other.
LEMMA Rescaled ==
    ASSUME NEW S, NEW f, NEW mx \in Finite, NEW n \in Finite,
           \A k \in S \cap Keys : f[k] \in Finite
    PROVE  Scale(SumOver(S, f, mx), Factor(mx, n)) = SumOver(S, f, n)
  <1>1. Factor(mx, n) = mx - n /\ mx - n # NegInf /\ mx \in Int /\ n \in Int
    BY Sentinels DEF Factor
  <1>2. ASSUME NEW k \in Keys, k \in S
        PROVE  f[k] - mx # NegInf /\ f[k] \in Int /\ (f[k] - mx) + (mx - n) = f[k] - n
    <2>1. f[k] \in Finite
      BY <1>2
    <2>2. f[k] \in Int /\ f[k] - mx # NegInf
      BY <2>1, Sentinels
    <2> QED BY <1>1, <2>2
  <1>3. ASSUME NEW k \in Keys
        PROVE  Scale(SumOver(S, f, mx), Factor(mx, n))[k] = SumOver(S, f, n)[k]
    BY <1>1, <1>2 DEF Scale, SumOver
  <1> QED BY <1>3 DEF Scale, SumOver

\* Sums over different keys add up.
LEMMA Added ==
    ASSUME NEW S, NEW T, S \cap T = {}, NEW f, NEW n \in Finite,
           \A k \in (S \cup T) \cap Keys : f[k] \in Finite
    PROVE  Plus(SumOver(S, f, n), SumOver(T, f, n)) = SumOver(S \cup T, f, n)
  <1>1. ASSUME NEW k \in Keys, k \in S \cup T PROVE f[k] - n # NegInf
    BY <1>1, Sentinels
  <1>2. ASSUME NEW k \in Keys
        PROVE  Plus(SumOver(S, f, n), SumOver(T, f, n))[k] = SumOver(S \cup T, f, n)[k]
    BY <1>1 DEF Plus, SumOver
  <1> QED BY <1>2 DEF Plus, SumOver

\* A sum over exactly the keys below n, and itself as the denominator, is the
\* softmax of the scores.
LEMMA WholeSum ==
    ASSUME NEW f, NEW mx \in Finite, NEW n \in 1 .. MaxSeq, MaxSeq \in Nat,
           \A k \in 0 .. n - 1 : f[k] \in Finite
    PROVE  LET sum == SumOver(0 .. n - 1, f, mx) IN
           /\ \A k \in Keys : (sum[k] # NegInf) <=> (k < n)
           /\ \A k \in 0 .. n - 1 : sum[k] - f[k] = sum[0] - f[0]
  <1> DEFINE sum == SumOver(0 .. n - 1, f, mx)
  <1>1. 0 .. n - 1 \subseteq Keys /\ 0 \in 0 .. n - 1
    BY DEF Keys
  <1>2. \A k \in Keys : k \in 0 .. n - 1 <=> k < n
    BY DEF Keys
  <1>3. ASSUME NEW k \in 0 .. n - 1
        PROVE  sum[k] = f[k] - mx /\ sum[k] # NegInf /\ sum[k] - f[k] = -mx
    <2>1. sum[k] = f[k] - mx
      BY <1>1 DEF SumOver
    <2>2. f[k] \in Int /\ mx \in Int /\ f[k] - mx # NegInf
      BY Sentinels
    <2> HIDE DEF sum
    <2> QED BY <2>1, <2>2
  <1>4. ASSUME NEW k \in Keys, k \notin 0 .. n - 1 PROVE sum[k] = NegInf
    BY <1>4 DEF SumOver
  <1> HIDE DEF sum
  <1> QED BY <1>1, <1>2, <1>3, <1>4 DEF sum
-----------------------------------------------------------------------------
(* Indices *)

LEMMA ProductNat == ASSUME NEW a \in Nat, NEW b \in Nat PROVE a * b \in Nat
  OBVIOUS

\* A row ends before the next ones begin.
LEMMA RowEnds ==
    ASSUME NEW P \in Nat, NEW a \in Nat, NEW b \in Nat, a < b
    PROVE  a * P + P <= b * P /\ a * P \in Nat /\ b * P \in Nat
  <1>1. PICK k \in Nat : b = a + 1 + k
    <2>1. b - a - 1 \in Nat /\ b = a + 1 + (b - a - 1)
      OBVIOUS
    <2> QED BY <2>1
  <1>2. b * P = a * P + P + k * P
    BY <1>1
  <1>3. k * P \in Nat /\ a * P \in Nat /\ b * P \in Nat
    BY ProductNat
  <1> QED BY <1>2, <1>3

\* An index of a two-dimensional array has one row and one column.
LEMMA OnePlace ==
    ASSUME NEW P \in Nat, NEW a \in Nat, NEW b \in Nat,
           NEW x \in 0 .. P - 1, NEW y \in 0 .. P - 1, a * P + x = b * P + y
    PROVE  a = b /\ x = y
  <1>1. x \in Nat /\ y \in Nat /\ x < P /\ y < P /\ a * P \in Nat /\ b * P \in Nat
    BY ProductNat
  <1>2. CASE a < b
    <2>1. a * P + P <= b * P
      BY <1>2, RowEnds
    <2> QED BY <1>1, <2>1
  <1>3. CASE b < a
    <2>1. b * P + P <= a * P
      BY <1>3, RowEnds
    <2> QED BY <1>1, <2>1
  <1>4. CASE a = b
    BY <1>1, <1>4
  <1> QED BY <1>2, <1>3, <1>4

\* A place has a row and a column.
LEMMA Places ==
    ASSUME NEW P \in Nat \ {0}, NEW x \in Nat
    PROVE  /\ x \div P \in Nat /\ x % P \in 0 .. P - 1
           /\ x = (x \div P) * P + (x % P)
  OBVIOUS

LEMMA PlaceOf ==
    ASSUME NEW P \in Nat \ {0}, NEW a \in Nat, NEW d \in 0 .. P - 1
    PROVE  (a * P + d) \div P = a /\ (a * P + d) % P = d
  <1>1. a * P + d \in Nat
    BY ProductNat
  <1> DEFINE x == a * P + d
  <1>2. /\ x \div P \in Nat /\ x % P \in 0 .. P - 1
        /\ (x \div P) * P + (x % P) = a * P + d
    BY <1>1, Places
  <1> HIDE DEF x
  <1>3. x \div P = a /\ x % P = d
    BY <1>2, OnePlace
  <1> QED BY <1>3 DEF x

\* Places of n rows.
LEMMA PlaceBound ==
    ASSUME NEW P \in Nat, NEW n \in Nat, NEW a \in 0 .. n - 1, NEW d \in 0 .. P - 1
    PROVE  a * P + d \in 0 .. n * P - 1
  <1>1. a * P + P <= n * P /\ a * P \in Nat /\ n * P \in Nat
    BY RowEnds
  <1> QED BY <1>1

\* A place of n rows is in one of them.
LEMMA PlaceRow ==
    ASSUME NEW P \in Nat \ {0}, NEW n \in Nat, NEW x \in Nat, x < n * P
    PROVE  x \div P \in 0 .. n - 1
  <1> DEFINE a == x \div P
  <1>1. a \in Nat /\ x % P \in 0 .. P - 1 /\ x = a * P + (x % P)
    BY Places
  <1> HIDE DEF a
  <1>2. a * P \in Nat /\ n * P \in Nat
    BY <1>1, ProductNat
  <1>3. ~(n < a) /\ a # n
    <2>1. n < a => n * P + P <= a * P
      BY <1>1, RowEnds
    <2>2. a * P <= x
      BY <1>1, <1>2
    <2> QED BY <1>1, <1>2, <2>1, <2>2
  <1> QED BY <1>1, <1>3 DEF a

\* As many rows of P as hold n places.
LEMMA CeilDivIs ==
    ASSUME NEW n \in Nat, NEW P \in Nat \ {0}
    PROVE  /\ CeilDiv(n, P) \in Nat /\ n <= CeilDiv(n, P) * P
           /\ \A k \in Nat : k < CeilDiv(n, P) => k * P < n
           /\ n > 0 => CeilDiv(n, P) > 0
  <1> DEFINE x == n + P - 1
             c == x \div P
  <1>1. x \in Nat
    OBVIOUS
  <1>2. c \in Nat /\ x % P \in 0 .. P - 1 /\ x = c * P + (x % P)
    BY <1>1, Places
  <1>3. c * P \in Nat
    BY <1>2, ProductNat
  <1>4. CeilDiv(n, P) = c
    BY DEF CeilDiv
  <1>5. n <= c * P /\ c * P <= n + P - 1
    <2> HIDE DEF c
    <2> QED BY <1>2, <1>3
  <1> HIDE DEF c
  <1>6. ASSUME NEW k \in Nat, k < c PROVE k * P < n
    <2>1. k * P + P <= c * P /\ k * P \in Nat
      BY <1>2, <1>6, RowEnds
    <2> QED BY <1>3, <1>5, <2>1
  <1>7. ASSUME n > 0 PROVE c > 0
    <2>1. CASE c = 0
      BY <1>5, <1>7, <2>1
    <2> QED BY <1>2, <2>1
  <1> QED BY <1>2, <1>4, <1>5, <1>6, <1>7

-----------------------------------------------------------------------------
(* The states of a block *)

Phases == SyncAfter \cup {"idle", "store", "exit"}

Types ==
    /\ todo \subseteq Nat
    /\ block \in Nat \cup {NoBlock}
    /\ phase \in [Warps -> Phases]
    /\ arrived \in [Warps -> BOOLEAN]
    /\ kvBlock \in [Warps -> Nat]

\* Between two launches of a block no warp is anywhere.
Idle ==
    /\ block = NoBlock
    /\ \A w \in Warps : phase[w] = "idle" /\ ~arrived[w]

\* All warps are between the same two barriers, with the same tile.
Together ==
    /\ block # NoBlock
    /\ \E p \in SyncAfter : \A w \in Warps : phase[w] = p
    /\ \A w, u \in Warps : kvBlock[w] = kvBlock[u]

\* All warps are past the last barrier.
Leaving ==
    /\ block # NoBlock
    /\ \A w \in Warps : phase[w] \in {"store", "exit"} /\ ~arrived[w]

IInv == Types /\ (Idle \/ Together \/ Leaving)

-----------------------------------------------------------------------------
(* Addresses *)

\* An element of p_tile is of one row.
LEMMA OneRow ==
    ASSUME NEW r \in Rows, NEW q \in Rows, NEW x \in TileRows, NEW y \in TileRows,
           PAddr(r, x) = PAddr(q, y)
    PROVE  r = q
  <1>1. /\ PStride \in Nat /\ KvBlock \in Nat /\ KvBlock <= PStride
        /\ NumWarps \in Nat /\ RowsPerWarp \in Nat
    BY FlashAssumption
  <1>2. QBlock \in Nat
    BY <1>1, ProductNat DEF QBlock
  <1>3. r \in Nat /\ q \in Nat /\ x \in 0 .. PStride - 1 /\ y \in 0 .. PStride - 1
    BY <1>1, <1>2 DEF Rows, TileRows
  <1>4. r * PStride + x = q * PStride + y
    BY DEF PAddr
  <1> QED BY <1>1, <1>3, <1>4, OnePlace

\* A word of a loop over the threads is of one warp.
LEMMA SliceApart ==
    ASSUME NEW w \in Warps, NEW u \in Warps, w # u, NEW a, NEW n, NEW b, NEW k
    PROVE  SliceOf(w, a, n) \cap SliceOf(u, b, k) = {}
  BY DEF SliceOf, Mine

\* Words of two arrays are different words.
LEMMA NamesApart ==
    ASSUME NEW w, NEW u, NEW a, NEW n, NEW b, NEW k, a # b
    PROVE  SliceOf(w, a, n) \cap SliceOf(u, b, k) = {}
  BY DEF SliceOf

\* An element of p_tile is of one warp.
LEMMA ProbabilitiesApart ==
    ASSUME NEW w \in Warps, NEW u \in Warps, w # u
    PROVE  POf(w) \cap POf(u) = {}
  <1> SUFFICES ASSUME NEW i \in POf(w), i \in POf(u) PROVE FALSE
    OBVIOUS
  <1>1. PICK r \in {x \in Rows : Owns(w, x)}, kt \in TileRows : i = <<"kp", PAddr(r, kt)>>
    BY DEF POf
  <1>2. PICK q \in {x \in Rows : Owns(u, x)}, jt \in TileRows : i = <<"kp", PAddr(q, jt)>>
    BY DEF POf
  <1>3. PAddr(r, kt) = PAddr(q, jt)
    BY <1>1, <1>2
  <1>4. r = q
    BY <1>1, <1>2, <1>3, OneRow
  <1> QED BY <1>1, <1>2, <1>4 DEF Owns

\* The probabilities are not where the values are.
LEMMA ValuesApart ==
    ASSUME NEW w, NEW n
    PROVE  POf(w) \cap Words("v", n) = {}
  BY DEF POf, Words

-----------------------------------------------------------------------------
(* RaceFree of the states of the invariant *)

\* Two warps in the same phase touch different words, or only read.
LEMMA SamePhaseApart ==
    ASSUME NEW p \in Phases, NEW w \in Warps, NEW u \in Warps, w # u,
           phase[w] = p, phase[u] = p
    PROVE  Writes(w) \cap (Reads(u) \cup Writes(u)) = {}
  <1>1. CASE p = "load_q"
    <2>1. /\ Writes(w) = SliceOf(w, "q", QBlock * HeadDim)
          /\ Writes(u) = SliceOf(u, "q", QBlock * HeadDim) /\ Reads(u) = {}
      BY <1>1 DEF Writes, Reads
    <2>2. SliceOf(w, "q", QBlock * HeadDim) \cap SliceOf(u, "q", QBlock * HeadDim) = {}
      BY SliceApart
    <2> QED BY <2>1, <2>2
  <1>2. CASE p = "rope"
    <2> DEFINE Pair(j) == (j \div HeadDim) * Half + ((j % HeadDim) % Half)
               Of(v) == {<<"q", i>> : i \in {j \in 0 .. QBlock * HeadDim - 1 : Mine(v, Pair(j))}}
    <2>1. Writes(w) = Of(w) /\ Writes(u) = Of(u) /\ Reads(u) = {}
      BY <1>2 DEF Writes, Reads
    <2>2. Of(w) \cap Of(u) = {}
      <3> HIDE DEF Pair
      <3> QED BY DEF Mine
    <2> HIDE DEF Of
    <2> QED BY <2>1, <2>2
  <1>3. CASE p = "load"
    <2> DEFINE K(v) == SliceOf(v, "kp", KvBlock * HeadDim)
               V(v) == SliceOf(v, "v", KvBlock * HeadDim)
    <2>1. Writes(w) = K(w) \cup V(w) /\ Writes(u) = K(u) \cup V(u) /\ Reads(u) = {}
      BY <1>3 DEF Writes, Reads
    <2>2. K(w) \cap K(u) = {} /\ V(w) \cap V(u) = {}
      BY SliceApart
    <2>3. K(w) \cap V(u) = {} /\ V(w) \cap K(u) = {}
      BY NamesApart
    <2> HIDE DEF K, V
    <2> QED BY <2>1, <2>2, <2>3
  <1>4. CASE p = "accumulate"
    <2>1. /\ Writes(w) = POf(w) /\ Writes(u) = POf(u)
          /\ Reads(u) = POf(u) \cup Words("v", KvBlock * HeadDim)
      BY <1>4 DEF Writes, Reads
    <2>2. POf(w) \cap POf(u) = {} /\ POf(w) \cap Words("v", KvBlock * HeadDim) = {}
      BY ProbabilitiesApart, ValuesApart
    <2> QED BY <2>1, <2>2
  <1>5. CASE p \notin {"load_q", "rope", "load", "accumulate"}
    <2>1. Writes(w) = {}
      BY <1>5 DEF Writes
    <2> QED BY <2>1
  <1> QED BY <1>1, <1>2, <1>3, <1>4, <1>5

\* After the last barrier nothing is written.
LEMMA SilentAfterTheLast ==
    ASSUME NEW w \in Warps, phase[w] \in {"idle", "store", "exit"}
    PROVE  Writes(w) = {}
  BY DEF Writes

LEMMA RaceFreeOfIInv == IInv => RaceFree
  <1> SUFFICES ASSUME IInv, NEW w \in Warps, NEW u \in Warps
      PROVE  /\ w # u /\ ~arrived[w] /\ ~arrived[u] =>
                    Writes(w) \cap (Reads(u) \cup Writes(u)) = {}
             /\ arrived[w] => phase[u] # "exit"
             /\ arrived[w] /\ arrived[u] => phase[w] = phase[u] /\ kvBlock[w] = kvBlock[u]
    BY DEF RaceFree
  <1>1. CASE Idle
    <2>1. Writes(w) = {} /\ ~arrived[w]
      BY <1>1, SilentAfterTheLast DEF Idle
    <2> QED BY <2>1
  <1>2. CASE Together
    <2>1. PICK p \in SyncAfter : phase[w] = p /\ phase[u] = p
      BY <1>2 DEF Together
    <2>2. p \in Phases /\ p # "exit"
      BY DEF Phases, SyncAfter
    <2>3. kvBlock[w] = kvBlock[u]
      BY <1>2 DEF Together
    <2>4. w # u => Writes(w) \cap (Reads(u) \cup Writes(u)) = {}
      BY <2>1, <2>2, SamePhaseApart
    <2> QED BY <2>1, <2>2, <2>3, <2>4
  <1>3. CASE Leaving
    <2>1. Writes(w) = {} /\ ~arrived[w]
      BY <1>3, SilentAfterTheLast DEF Leaving
    <2> QED BY <2>1
  <1> QED BY <1>1, <1>2, <1>3 DEF IInv

-----------------------------------------------------------------------------
(* The invariant is one *)

LEMMA SomeWarp == 0 \in Warps
  BY FlashAssumption DEF Warps

LEMMA InitIInv == Init => IInv
  <1> SUFFICES ASSUME Init PROVE IInv
    OBVIOUS
  <1>1. todo \subseteq Nat
    BY DEF Init
  <1>2. /\ block = NoBlock
        /\ phase \in [Warps -> Phases] /\ arrived \in [Warps -> BOOLEAN]
        /\ kvBlock \in [Warps -> Nat]
        /\ \A w \in Warps : phase[w] = "idle" /\ ~arrived[w]
    BY DEF Init, Phases
  <1> QED BY <1>1, <1>2 DEF IInv, Types, Idle

\* A block starts with every warp at its first phase.
LEMMA StartKeeps ==
    ASSUME IInv, NEW b \in todo, StartBlock(b) PROVE IInv'
  <1>1. /\ b \in Nat /\ todo \subseteq Nat /\ block = NoBlock
        /\ block' = b /\ todo' = todo \ {b}
        /\ phase' = [w \in Warps |-> "load_q"] /\ kvBlock' = [w \in Warps |-> 0]
        /\ arrived' = arrived
    BY DEF IInv, Types, StartBlock
  <1>2. Types'
    <2>1. arrived' \in [Warps -> BOOLEAN]
      BY <1>1 DEF IInv, Types
    <2>2. phase' \in [Warps -> Phases]
      BY <1>1 DEF Phases, SyncAfter
    <2>3. kvBlock' \in [Warps -> Nat] /\ todo' \subseteq Nat /\ block' \in Nat \cup {NoBlock}
      BY <1>1
    <2> QED BY <2>1, <2>2, <2>3 DEF Types
  <1>3. Together'
    <2>1. block' # NoBlock
      BY <1>1 DEF NoBlock
    <2>2. "load_q" \in SyncAfter
      BY DEF SyncAfter
    <2> QED BY <1>1, <2>1, <2>2 DEF Together
  <1> QED BY <1>2, <1>3 DEF IInv

\* A warp that finishes a phase before a barrier waits; one past the last
\* barrier goes on to leave.
LEMMA FinishKeeps ==
    ASSUME IInv, NEW w \in Warps,
           NEW p \in SyncAfter \cup {"store"}, Finish(w, p)
    PROVE  IInv'
  <1>1. /\ phase[w] = p /\ ~arrived[w]
        /\ UNCHANGED <<todo, block>>
    BY DEF Finish
  <1>2. CASE p \in SyncAfter
    <2>1. /\ arrived' = [arrived EXCEPT ![w] = TRUE]
          /\ phase' = phase /\ kvBlock' = kvBlock
      BY <1>2 DEF Finish
    <2>2. arrived' \in [Warps -> BOOLEAN]
      BY <2>1 DEF IInv, Types
    <2>3. Types'
      BY <1>1, <2>1, <2>2 DEF IInv, Types
    <2>4. Together
      <3>1. ~Idle
        BY <1>1, <1>2 DEF Idle, SyncAfter
      <3>2. ~Leaving
        BY <1>1, <1>2 DEF Leaving, SyncAfter
      <3> QED BY <3>1, <3>2 DEF IInv
    <2>5. Together'
      BY <1>1, <2>1, <2>4 DEF Together
    <2> QED BY <2>3, <2>5 DEF IInv
  <1>3. CASE p = "store"
    <2>1. p \notin SyncAfter
      BY <1>3 DEF SyncAfter
    <2>2. /\ phase' = [phase EXCEPT ![w] = Following(p, kvBlock[w])[1]]
          /\ kvBlock' = [kvBlock EXCEPT ![w] = Following(p, kvBlock[w])[2]]
          /\ arrived' = arrived
      BY <2>1 DEF Finish
    <2>3. Following(p, kvBlock[w]) = <<"exit", kvBlock[w]>>
      BY <1>3 DEF Following
    <2>4. /\ phase' = [phase EXCEPT ![w] = "exit"]
          /\ kvBlock' = [kvBlock EXCEPT ![w] = kvBlock[w]]
      BY <2>2, <2>3
    <2>5. phase' \in [Warps -> Phases]
      BY <2>4 DEF IInv, Types, Phases
    <2>6. kvBlock' \in [Warps -> Nat]
      BY <2>4 DEF IInv, Types
    <2>7. Types'
      BY <1>1, <2>2, <2>5, <2>6 DEF IInv, Types
    <2>8. Leaving
      <3>1. ~Idle
        BY <1>1, <1>3 DEF Idle
      <3>2. ~Together
        BY <1>1, <2>1 DEF Together
      <3> QED BY <3>1, <3>2 DEF IInv
    <2>9. Leaving'
      BY <1>1, <2>2, <2>4, <2>8 DEF Leaving, IInv, Types
    <2> QED BY <2>7, <2>9 DEF IInv
  <1> QED BY <1>2, <1>3

\* The barrier lets all warps through to the same phase.
LEMMA SyncKeeps == ASSUME IInv, SyncThreads PROVE IInv'
  <1>1. /\ \A w, u \in Warps : arrived[w] /\ phase[w] = phase[u] /\ kvBlock[w] = kvBlock[u]
        /\ arrived' = [w \in Warps |-> FALSE]
        /\ phase' = [w \in Warps |-> Following(phase[w], kvBlock[w])[1]]
        /\ kvBlock' = [w \in Warps |-> Following(phase[w], kvBlock[w])[2]]
        /\ UNCHANGED <<todo, block>>
    BY DEF SyncThreads
  <1>2. Together
    BY <1>1, SomeWarp DEF IInv, Idle, Leaving
  <1>3. PICK p \in SyncAfter : \A w \in Warps : phase[w] = p
    BY <1>2 DEF Together
  <1>4. PICK b \in Nat : \A w \in Warps : kvBlock[w] = b
    <2>1. kvBlock[0] \in Nat
      BY SomeWarp DEF IInv, Types
    <2> QED BY <1>1, <2>1, SomeWarp
  <1>5. PICK q, c : Following(p, b) = <<q, c>> /\ q \in SyncAfter \cup {"store"} /\ c \in Nat
    <2>1. Following(p, b) = <<"rope", b>> \/ Following(p, b) = <<"load", b>>
          \/ Following(p, b) = <<"store", b>> \/ Following(p, b) = <<"scores", b>>
          \/ Following(p, b) = <<"accumulate", b>> \/ Following(p, b) = <<"load", b + 1>>
          \/ Following(p, b) = <<"store", b + 1>>
      BY <1>3 DEF Following, SyncAfter
    <2>2. b + 1 \in Nat
      BY <1>4
    <2>3. {"rope", "load", "store", "scores", "accumulate"} \subseteq SyncAfter \cup {"store"}
      BY DEF SyncAfter
    <2> QED BY <1>4, <2>1, <2>2, <2>3
  <1>6. phase' = [w \in Warps |-> q] /\ kvBlock' = [w \in Warps |-> c]
    BY <1>1, <1>3, <1>4, <1>5
  <1>7. Types'
    <2>1. phase' \in [Warps -> Phases]
      BY <1>5, <1>6 DEF Phases
    <2>2. kvBlock' \in [Warps -> Nat] /\ arrived' \in [Warps -> BOOLEAN]
      BY <1>1, <1>5, <1>6
    <2> QED BY <1>1, <2>1, <2>2 DEF IInv, Types
  <1>8. block' # NoBlock
    BY <1>1, <1>2 DEF Together
  <1>9. CASE q \in SyncAfter
    BY <1>6, <1>7, <1>8, <1>9 DEF IInv, Together
  <1>10. CASE q = "store"
    BY <1>1, <1>6, <1>7, <1>8, <1>10 DEF IInv, Leaving
  <1> QED BY <1>5, <1>9, <1>10

\* A block ends when all its warps have left.
LEMMA EndKeeps == ASSUME IInv, EndBlock PROVE IInv'
  <1>1. /\ \A w \in Warps : phase[w] = "exit"
        /\ block' = NoBlock /\ phase' = [w \in Warps |-> "idle"]
        /\ UNCHANGED <<todo, arrived, kvBlock>>
    BY DEF EndBlock
  <1>2. Types'
    <2>1. phase' \in [Warps -> Phases]
      BY <1>1 DEF Phases
    <2> QED BY <1>1, <2>1 DEF IInv, Types
  <1>3. Leaving
    BY <1>1, SomeWarp DEF IInv, Idle, Together, SyncAfter
  <1>4. Idle'
    BY <1>1, <1>3 DEF Idle, Leaving
  <1> QED BY <1>2, <1>4 DEF IInv

LEMMA NextIInv == IInv /\ [Next]_vars => IInv'
  <1> SUFFICES ASSUME IInv, [Next]_vars PROVE IInv'
    OBVIOUS
  <1>1. CASE \E b \in todo : StartBlock(b)
    BY <1>1, StartKeeps
  <1>2. ASSUME NEW w \in Warps, WarpStep(w) PROVE IInv'
    <2>1. \E p \in SyncAfter \cup {"store"} : Finish(w, p)
      <3>1. {"load_q", "rope", "load", "scores", "accumulate"} \subseteq SyncAfter
        BY DEF SyncAfter
      <3> QED BY <1>2, <3>1 DEF WarpStep, LoadQ, Rope, LoadTile, Scores, Accumulate, Store
    <2> QED BY <2>1, FinishKeeps
  <1>3. CASE SyncThreads
    BY <1>3, SyncKeeps
  <1>4. CASE EndBlock
    BY <1>4, EndKeeps
  <1>5. CASE UNCHANGED vars
    <2>1. UNCHANGED <<todo, block, phase, arrived, kvBlock>>
      BY <1>5 DEF vars, warps
    <2> QED BY <2>1 DEF IInv, Types, Idle, Together, Leaving
  <1> QED BY <1>1, <1>2, <1>3, <1>4, <1>5 DEF Next

\* For every number of warps and every size of tile, the warps of a block are
\* between the same two barriers with the same tile until the last.
THEOREM Invariance == Spec => []IInv
  BY InitIInv, NextIInv, PTL DEF Spec

\* For every number of warps, every tile and every stride of p_tile, no two
\* warps of flash_attention_kernel touch the same word of shared memory between
\* two barriers unless both read it, and no warp waits at a barrier another one
\* waits past or has left the kernel without.
THEOREM NoRace == Spec => []RaceFree
  BY Invariance, RaceFreeOfIInv, PTL

-----------------------------------------------------------------------------
(* What the block has computed so far *)

Shapes ==
    /\ call \in Calls
    /\ DOMAIN qTile = Rows \X Channels
    /\ DOMAIN kp = 0 .. KpSize - 1
    /\ DOMAIN vTile = TileRows \X Channels
    /\ DOMAIN s = Rows \X TileRows
    /\ DOMAIN o = Rows \X Channels
    /\ DOMAIN out = (0 .. call.rows - 1) \X Channels

\* The rows of the block that are queries; what the others hold is never stored.
Query(r) == Row(r) < call.rows

\* The tiles a warp has behind it.
Progress ==
    \A w \in Warps :
        /\ phase[w] \in {"load_q", "rope"} => kvBlock[w] = 0
        /\ phase[w] \in {"load", "scores", "accumulate"} => kvBlock[w] < NumKvBlocks
        /\ phase[w] \in {"store", "exit"} => kvBlock[w] = NumKvBlocks

\* The queries, loaded and then rotated.
QueriesStand ==
    \A w \in Warps, r \in Rows, d \in Channels : Query(r) =>
        /\ phase[w] = "load_q" /\ arrived[w] /\ Mine(w, r * HeadDim + d) =>
               qTile[<<r, d>>] = "raw"
        /\ phase[w] = "rope" /\ Mine(w, r * Half + (d % Half)) =>
               qTile[<<r, d>>] = IF arrived[w] THEN "rotated" ELSE "raw"
        /\ phase[w] \in {"load", "scores", "accumulate"} => qTile[<<r, d>>] = "rotated"

\* The keys, until they are overwritten, and the values of the tile.
TileStands(w, kt, d) ==
    /\ phase[w] = "load" /\ arrived[w] /\ Mine(w, KAddr(kt, d)) =>
           kp[KAddr(kt, d)] = KHalf(TileKey(w, kt), d) /\ vTile[<<kt, d>>] = TileKey(w, kt)
    /\ phase[w] = "scores" => kp[KAddr(kt, d)] = KHalf(TileKey(w, kt), d)
    /\ phase[w] \in {"scores", "accumulate"} => vTile[<<kt, d>>] = TileKey(w, kt)

TilesStand ==
    \A w \in Warps, kt \in TileRows, d \in Channels : TileStands(w, kt, d)

RowScores(x) == [k \in Keys |-> Score(call.shape, x, k)]

\* The scores of the tile that take part, in the registers of their row's warp.
ScoresStand ==
    \A w \in Warps, r \in Rows, kt \in TileRows :
        /\ Owns(w, r) /\ Query(r) /\ ~Masked(w, r, kt)
        /\ (phase[w] = "scores" /\ arrived[w]) \/ phase[w] = "accumulate"
        => s[<<r, kt>>] = [key |-> TileKey(w, kt), e |-> RowScores(Row(r))[TileKey(w, kt)]]

\* The keys of row r among the first n of the text.
Below(r, n) == {k \in Keys : k < n /\ k <= QPosFirst + r}

\* The running softmax of row r after n tiles.
Folded(r, n) ==
    IF n = 0 THEN m[r] = NegInf /\ l[r] = NoTerms /\ \A d \in Channels : o[<<r, d>>] = NoTerms
    ELSE /\ m[r] \in Finite
         /\ l[r] = SumOver(Below(r, n * KvBlock), RowScores(Row(r)), m[r])
         /\ \A d \in Channels : o[<<r, d>>] = l[r]

\* The tiles warp w has folded in.
TilesOf(w) == IF phase[w] = "accumulate" /\ arrived[w] THEN kvBlock[w] + 1 ELSE kvBlock[w]

SumsStand ==
    block # NoBlock =>
        \A w \in Warps, r \in Rows : Owns(w, r) /\ Query(r) => Folded(r, TilesOf(w))

\* Query row x of the call has its result: the sum over its own key and those
\* before it, relative to some maximum, and the same as its denominator.
Final(x, d) ==
    \E top \in Finite :
        LET sum == SumOver(0 .. call.len - call.rows + x, RowScores(x), top)
        IN  out[<<x, d>>] = [o |-> sum, l |-> sum]

\* The rows of the blocks that have run, and those a warp of this one has stored.
OutputStands ==
    \A x \in 0 .. call.rows - 1, d \in Channels :
        /\ x \div QBlock \notin todo \cup {block} => Final(x, d)
        /\ \A r \in Rows, w \in Warps :
               block # NoBlock /\ Row(r) = x /\ Owns(w, r) /\ phase[w] = "exit" => Final(x, d)

Data == Shapes /\ Progress /\ QueriesStand /\ TilesStand /\ ScoresStand /\ SumsStand /\ OutputStands

Exact == IInv /\ Data

-----------------------------------------------------------------------------
(* Sizes, rows and tiles *)

LEMMA Sizes ==
    /\ NumWarps \in Nat \ {0} /\ RowsPerWarp \in Nat \ {0} /\ HeadDim \in Nat \ {0}
    /\ KvBlock \in Nat \ {0} /\ QBlock \in Nat \ {0} /\ MaxSeq \in Nat
    /\ Half \in Nat \ {0} /\ HeadDim = Half + Half
    /\ KvBlock * HeadDim \in Nat /\ KpSize \in Nat /\ KvBlock * HeadDim <= KpSize
  <1>1. /\ NumWarps \in Nat \ {0} /\ RowsPerWarp \in Nat \ {0} /\ HeadDim \in Nat \ {0}
        /\ KvBlock \in Nat \ {0} /\ MaxSeq \in Nat /\ PStride \in Nat /\ HeadDim % 2 = 0
    BY FlashAssumption, SoftmaxAssumption
  <1>2. QBlock \in Nat \ {0}
    <2>1. 0 * RowsPerWarp + RowsPerWarp <= NumWarps * RowsPerWarp
      BY <1>1, RowEnds
    <2>2. NumWarps * RowsPerWarp \in Nat
      BY <1>1, ProductNat
    <2> QED BY <1>1, <2>1, <2>2 DEF QBlock
  <1>3. Half \in Nat \ {0} /\ HeadDim = Half + Half
    BY <1>1 DEF Half
  <1>4. KvBlock * HeadDim \in Nat /\ QBlock * PStride \in Nat
    BY <1>1, <1>2, ProductNat
  <1> QED BY <1>1, <1>2, <1>3, <1>4 DEF KpSize

LEMMA CallFacts ==
    ASSUME Shapes
    PROVE  /\ call.len \in 1 .. MaxSeq /\ call.rows \in 1 .. call.len
           /\ call.len \in Nat /\ call.rows \in Nat
           /\ \A r \in 0 .. call.rows - 1, k \in 0 .. call.len - 1 :
                  Score(call.shape, r, k) \in Finite
  BY FlashAssumption, Sizes DEF Shapes

\* Where the block's rows and keys are.
LEMMA BlockFacts ==
    ASSUME Shapes, block \in Nat
    PROVE  /\ QRowStart \in Nat /\ QPosFirst \in Nat
           /\ KvLimit \in Nat /\ KvLimit <= call.len
           /\ NumKvBlocks \in Nat /\ NumKvBlocks > 0 /\ KvLimit <= NumKvBlocks * KvBlock
           /\ NumKvBlocks * KvBlock \in Nat
  <1>1. QRowStart \in Nat
    BY Sizes, ProductNat DEF QRowStart
  <1>2. QPosFirst \in Nat
    BY <1>1, CallFacts DEF QPosFirst
  <1>3. KvLimit \in Nat /\ KvLimit <= call.len /\ KvLimit > 0
    BY <1>2, CallFacts, Sizes DEF KvLimit
  <1>4. NumKvBlocks \in Nat /\ NumKvBlocks > 0 /\ KvLimit <= NumKvBlocks * KvBlock
    BY <1>3, Sizes, CeilDivIs DEF NumKvBlocks
  <1>5. NumKvBlocks * KvBlock \in Nat
    BY <1>4, Sizes, ProductNat
  <1> QED BY <1>1, <1>2, <1>3, <1>4, <1>5

\* A query row is a row of the call, at its place in the text.
LEMMA QueryFacts ==
    ASSUME Shapes, block \in Nat, NEW r \in Rows, Query(r)
    PROVE  /\ r \in Nat /\ Row(r) \in 0 .. call.rows - 1
           /\ QPosFirst + r = call.len - call.rows + Row(r)
           /\ QPosFirst + r \in Nat /\ QPosFirst + r < KvLimit
  <1>1. r \in Nat /\ r < QBlock
    BY Sizes DEF Rows
  <1>2. QRowStart \in Nat /\ QPosFirst \in Nat
    BY BlockFacts
  <1>3. Row(r) \in 0 .. call.rows - 1
    BY <1>1, <1>2, CallFacts DEF Query, Row
  <1>4. QPosFirst + r = call.len - call.rows + Row(r)
    BY <1>1, <1>2, CallFacts DEF QPosFirst, Row
  <1>5. QPosFirst + r < call.len
    BY <1>3, <1>4, CallFacts
  <1> QED BY <1>1, <1>2, <1>3, <1>4, <1>5, Sizes DEF KvLimit

\* The scores of a query row over the text are finite.
LEMMA FiniteScores ==
    ASSUME Shapes, NEW x \in 0 .. call.rows - 1, NEW k \in Nat, k < call.len
    PROVE  k \in Keys /\ RowScores(x)[k] \in Finite
  <1>1. k \in Keys /\ k \in 0 .. call.len - 1
    BY CallFacts, Sizes DEF Keys
  <1> QED BY <1>1, CallFacts DEF RowScores

\* A warp of a fragment row, and a warp of a loop index.
LEMMA OwnerExists ==
    ASSUME NEW r \in Rows
    PROVE  \E w \in Warps : Owns(w, r)
  <1>1. r \in Nat /\ r < NumWarps * RowsPerWarp
    BY Sizes DEF Rows, QBlock
  <1> DEFINE w == r \div RowsPerWarp
  <1>4. w \in Warps
    BY <1>1, Sizes, PlaceRow DEF Warps
  <1>5. Owns(w, r)
    BY DEF Owns
  <1> QED BY <1>4, <1>5

LEMMA MinerExists ==
    ASSUME NEW i \in Nat
    PROVE  \E w \in Warps : Mine(w, i)
  <1>1. i % NumWarps \in Warps
    BY Sizes, Places DEF Warps
  <1> QED BY <1>1 DEF Mine

LEMMA IndexNat ==
    ASSUME NEW r \in Nat, NEW d \in Nat
    PROVE  r * HeadDim + d \in Nat /\ r * Half + d \in Nat
  <1>1. r * HeadDim \in Nat /\ r * Half \in Nat
    BY Sizes, ProductNat
  <1> QED BY <1>1

\* An element of k_tile is in the shared array and is read back as it is.
LEMMA KeyPlace ==
    ASSUME NEW kt \in TileRows, NEW d \in Channels
    PROVE  /\ KAddr(kt, d) \in 0 .. KpSize - 1 /\ KAddr(kt, d) < KvBlock * HeadDim
           /\ KAddr(kt, d) \div HeadDim = kt /\ KAddr(kt, d) % HeadDim = d
           /\ KAddr(kt, d) \in Nat
  <1>1. kt \in 0 .. KvBlock - 1 /\ d \in 0 .. HeadDim - 1 /\ kt \in Nat
    BY Sizes DEF TileRows, Channels
  <1>2. kt * HeadDim + d \in 0 .. KvBlock * HeadDim - 1
    <2>1. KvBlock \in Nat /\ HeadDim \in Nat
      BY Sizes
    <2> QED BY <1>1, <2>1, PlaceBound
  <1>3. (kt * HeadDim + d) \div HeadDim = kt /\ (kt * HeadDim + d) % HeadDim = d
    <2>1. HeadDim \in Nat \ {0}
      BY Sizes
    <2> QED BY <1>1, <2>1, PlaceOf
  <1>4. KpSize \in Int /\ KvBlock * HeadDim <= KpSize /\ KvBlock * HeadDim \in Nat
    BY Sizes
  <1>5. PICK x : x = kt * HeadDim + d
    OBVIOUS
  <1>6. x \in Nat /\ x < KvBlock * HeadDim /\ x \in 0 .. KpSize - 1
    BY <1>2, <1>4, <1>5
  <1> QED BY <1>3, <1>5, <1>6 DEF KAddr

\* The state of a warp that is between two barriers is that of all.
LEMMA AllAt ==
    ASSUME IInv, NEW w \in Warps, phase[w] \in SyncAfter
    PROVE  /\ \A u \in Warps : phase[u] = phase[w] /\ kvBlock[u] = kvBlock[w]
           /\ block \in Nat /\ block # NoBlock /\ kvBlock[w] \in Nat
  <1>1. phase[w] \notin {"idle", "store", "exit"}
    BY DEF SyncAfter
  <1>2. Together
    BY <1>1 DEF IInv, Idle, Leaving
  <1> QED BY <1>2 DEF IInv, Types, Together

\* A warp at a barrier: the others are there or on their way.
LEMMA Waits ==
    ASSUME IInv, NEW w \in Warps, NEW p \in SyncAfter, Finish(w, p)
    PROVE  /\ \A u \in Warps : phase[u] = p /\ kvBlock[u] = kvBlock[w]
           /\ ~arrived[w] /\ block \in Nat /\ block # NoBlock /\ kvBlock[w] \in Nat
           /\ UNCHANGED <<call, todo, block, phase, kvBlock>>
           /\ \A u \in Warps : arrived'[u] = (u = w \/ arrived[u])
  <1>1. phase[w] = p /\ ~arrived[w] /\ UNCHANGED <<call, todo, block, phase, kvBlock>>
        /\ arrived' = [arrived EXCEPT ![w] = TRUE]
    BY DEF Finish
  <1>2. \A u \in Warps : arrived'[u] = (u = w \/ arrived[u])
    <2>1. arrived \in [Warps -> BOOLEAN]
      BY DEF IInv, Types
    <2> QED BY <1>1, <2>1
  <1> QED BY <1>1, <1>2, AllAt

-----------------------------------------------------------------------------
(* What an action leaves as it was *)

LEMMA Frame ==
    ASSUME call' = call, block' = block
    PROVE  /\ \A r : Row(r)' = Row(r) /\ (Query(r)' <=> Query(r))
           /\ QPosFirst' = QPosFirst /\ NumKvBlocks' = NumKvBlocks
           /\ \A x : RowScores(x)' = RowScores(x)
           /\ \A r, n : Below(r, n)' = Below(r, n)
  BY DEF Row, Query, QRowStart, QPosFirst, NumKvBlocks, KvLimit, RowScores, Below

LEMMA FrameTiles ==
    ASSUME call' = call, block' = block, kvBlock' = kvBlock
    PROVE  /\ \A w, kt : TileKey(w, kt)' = TileKey(w, kt)
           /\ \A w, r, kt : Masked(w, r, kt)' <=> Masked(w, r, kt)
  <1>1. QPosFirst' = QPosFirst
    BY Frame
  <1> QED BY <1>1 DEF TileKey, Masked

LEMMA ProgressSame ==
    ASSUME Progress, UNCHANGED <<call, block, phase, kvBlock>>
    PROVE  Progress'
  <1>1. NumKvBlocks' = NumKvBlocks
    BY Frame
  <1> QED BY <1>1 DEF Progress

LEMMA ShapesSame ==
    ASSUME Shapes, call' = call, DOMAIN qTile' = DOMAIN qTile, DOMAIN kp' = DOMAIN kp,
           DOMAIN vTile' = DOMAIN vTile, DOMAIN s' = DOMAIN s, DOMAIN o' = DOMAIN o,
           DOMAIN out' = DOMAIN out
    PROVE  Shapes'
  BY DEF Shapes

LEMMA QueriesSame ==
    ASSUME QueriesStand, UNCHANGED <<call, block, qTile>>,
           \A w \in Warps : /\ phase'[w] = "load_q" /\ arrived'[w] =>
                                   phase[w] = "load_q" /\ arrived[w]
                            /\ phase'[w] = "rope" => phase[w] = "rope" /\ arrived'[w] = arrived[w]
                            /\ phase'[w] \in {"load", "scores", "accumulate"} =>
                                   phase[w] \in {"load", "scores", "accumulate"}
    PROVE  QueriesStand'
  <1>1. \A r : Query(r)' <=> Query(r)
    BY Frame
  <1> QED BY <1>1 DEF QueriesStand

\* The tiles only matter from the load to the end of their use.
LEMMA TilesSame ==
    ASSUME TilesStand, UNCHANGED <<call, block, kvBlock, vTile>>,
           \A w \in Warps :
               /\ phase'[w] \in {"load", "scores"} => kp' = kp
               /\ phase'[w] = "load" /\ arrived'[w] => phase[w] = "load" /\ arrived[w]
               /\ phase'[w] = "scores" => phase[w] = "scores"
               /\ phase'[w] \in {"scores", "accumulate"} => phase[w] \in {"scores", "accumulate"}
    PROVE  TilesStand'
  <1>1. \A w, kt : TileKey(w, kt)' = TileKey(w, kt)
    BY FrameTiles
  <1>2. ASSUME NEW w \in Warps, NEW kt \in TileRows, NEW d \in Channels
        PROVE  TileStands(w, kt, d)'
    <2>1. TileStands(w, kt, d) /\ TileKey(w, kt)' = TileKey(w, kt)
      BY <1>1 DEF TilesStand
    <2>2. CASE phase'[w] = "load"
      BY <2>1, <2>2 DEF TileStands, Mine, KAddr, KHalf
    <2>3. CASE phase'[w] = "scores"
      <3>1. phase[w] = "scores" /\ kp' = kp
        BY <2>3
      <3> QED BY <2>1, <2>3, <3>1 DEF TileStands, Mine, KAddr, KHalf
    <2>4. CASE phase'[w] = "accumulate"
      BY <2>1, <2>4 DEF TileStands, Mine, KAddr, KHalf
    <2>5. CASE phase'[w] \notin {"load", "scores", "accumulate"}
      BY <2>5 DEF TileStands, Mine, KAddr, KHalf
    <2> QED BY <2>2, <2>3, <2>4, <2>5
  <1> QED BY <1>2 DEF TilesStand

LEMMA ScoresSame ==
    ASSUME ScoresStand, UNCHANGED <<call, block, kvBlock, s>>,
           \A w \in Warps : /\ phase'[w] = "scores" /\ arrived'[w] => phase[w] = "scores" /\ arrived[w]
                            /\ phase'[w] = "accumulate" =>
                                   phase[w] = "accumulate" \/ (phase[w] = "scores" /\ arrived[w])
    PROVE  ScoresStand'
  <1>1. /\ \A w, kt : TileKey(w, kt)' = TileKey(w, kt)
        /\ \A w, r, kt : Masked(w, r, kt)' <=> Masked(w, r, kt)
    BY FrameTiles
  <1>2. /\ \A r : Row(r)' = Row(r) /\ (Query(r)' <=> Query(r))
        /\ \A x : RowScores(x)' = RowScores(x)
    BY Frame
  <1> QED BY <1>1, <1>2 DEF ScoresStand

LEMMA FoldedSame ==
    ASSUME call' = call, block' = block, NEW r, NEW n, Folded(r, n),
           m'[r] = m[r], l'[r] = l[r], \A d \in Channels : o'[<<r, d>>] = o[<<r, d>>]
    PROVE  Folded(r, n)'
  <1>1. /\ Row(r)' = Row(r) /\ RowScores(Row(r))' = RowScores(Row(r))
        /\ Below(r, n * KvBlock)' = Below(r, n * KvBlock)
    BY Frame
  <1> QED BY <1>1 DEF Folded

LEMMA SumsSame ==
    ASSUME SumsStand, UNCHANGED <<call, block, m, l, o>>,
           \A w \in Warps : TilesOf(w)' = TilesOf(w)
    PROVE  SumsStand'
  <1>1. \A r : Query(r)' <=> Query(r)
    BY Frame
  <1> SUFFICES ASSUME block # NoBlock, NEW w \in Warps, NEW r \in Rows, Owns(w, r), Query(r)
               PROVE  Folded(r, TilesOf(w))'
    BY <1>1 DEF SumsStand
  <1>2. PICK n : n = TilesOf(w)
    OBVIOUS
  <1>3. Folded(r, n)
    BY <1>2 DEF SumsStand
  <1>4. Folded(r, n)'
    BY <1>3, FoldedSame
  <1>5. TilesOf(w)' = n
    BY <1>2
  <1> QED BY <1>4, <1>5 DEF Folded

LEMMA FinalSame ==
    ASSUME call' = call, NEW x, NEW d, Final(x, d), out'[<<x, d>>] = out[<<x, d>>]
    PROVE  Final(x, d)'
  BY DEF Final, RowScores

LEMMA OutputSame ==
    ASSUME OutputStands, UNCHANGED <<call, todo, block, out>>,
           \A w \in Warps : phase'[w] = "exit" => phase[w] = "exit"
    PROVE  OutputStands'
  <1>1. \A r : Row(r)' = Row(r)
    BY Frame
  <1>2. ASSUME NEW x \in 0 .. call.rows - 1, NEW d \in Channels, Final(x, d)
        PROVE  Final(x, d)'
    BY <1>2, FinalSame
  <1> QED BY <1>1, <1>2 DEF OutputStands

-----------------------------------------------------------------------------
(* The phases before the sums *)

\* The queries a warp loads are those it has to; the others are not touched.
LEMMA LoadQData ==
    ASSUME Exact, NEW w \in Warps, LoadQ(w) PROVE Data'
  <1>1. /\ Finish(w, "load_q") /\ UNCHANGED <<kp, vTile, s, m, l, o, out>>
        /\ qTile' = [i \in DOMAIN qTile |->
                        IF ~Mine(w, i[1] * HeadDim + i[2]) THEN qTile[i]
                        ELSE IF Row(i[1]) < call.rows THEN "raw" ELSE "zero"]
    BY DEF LoadQ, registers
  <1>2. "load_q" \in SyncAfter /\ IInv /\ Data
    BY DEF SyncAfter, Exact
  <1>3. /\ \A u \in Warps : phase[u] = "load_q" /\ phase'[u] = "load_q"
        /\ UNCHANGED <<call, todo, block, phase, kvBlock>>
        /\ \A u \in Warps : arrived'[u] = (u = w \/ arrived[u])
    BY <1>1, <1>2, Waits
  <1>4. Shapes' /\ Progress'
    BY <1>1, <1>2, <1>3, ShapesSame, ProgressSame DEF Data
  <1>5. QueriesStand'
    <2> SUFFICES ASSUME NEW u \in Warps, NEW r \in Rows, NEW d \in Channels, Query(r),
                        arrived'[u], Mine(u, r * HeadDim + d)
                 PROVE  qTile'[<<r, d>>] = "raw"
      <3>1. \A r \in Rows : Query(r)' <=> Query(r)
        BY <1>3, Frame
      <3> QED BY <1>3, <3>1 DEF QueriesStand, Mine
    <2>1. <<r, d>> \in DOMAIN qTile
      BY <1>2 DEF Data, Shapes
    <2>2. qTile'[<<r, d>>] = IF ~Mine(w, r * HeadDim + d) THEN qTile[<<r, d>>]
                             ELSE IF Row(r) < call.rows THEN "raw" ELSE "zero"
      BY <1>1, <2>1
    <2>3. CASE u = w
      BY <2>2, <2>3 DEF Query
    <2>4. CASE u # w
      <3>1. arrived[u] /\ ~Mine(w, r * HeadDim + d)
        BY <1>3, <2>4 DEF Mine
      <3>2. qTile[<<r, d>>] = "raw"
        BY <1>2, <1>3, <3>1 DEF Data, QueriesStand
      <3> QED BY <2>2, <3>1, <3>2
    <2> QED BY <2>3, <2>4
  <1>6. TilesStand' /\ ScoresStand'
    BY <1>3 DEF TilesStand, TileStands, ScoresStand
  <1>7. SumsStand'
    <2>1. \A u \in Warps : TilesOf(u)' = TilesOf(u)
      BY <1>3 DEF TilesOf
    <2> QED BY <1>1, <1>2, <1>3, <2>1, SumsSame DEF Data
  <1>8. OutputStands'
    BY <1>1, <1>2, <1>3, OutputSame DEF Data
  <1> QED BY <1>4, <1>5, <1>6, <1>7, <1>8 DEF Data

\* A pair of channels is rotated by one warp, from what was loaded.
LEMMA RopeData ==
    ASSUME Exact, NEW w \in Warps, Rope(w) PROVE Data'
  <1>1. /\ Finish(w, "rope") /\ UNCHANGED <<kp, vTile, s, m, l, o, out>>
        /\ qTile' = [i \in DOMAIN qTile |->
                        LET d == i[2] % Half IN
                        IF ~Mine(w, i[1] * Half + d) \/ Row(i[1]) >= call.rows THEN qTile[i]
                        ELSE IF qTile[<<i[1], d>>] = "raw" /\ qTile[<<i[1], d + Half>>] = "raw"
                        THEN "rotated" ELSE "junk"]
    BY DEF Rope, registers
  <1>2. "rope" \in SyncAfter /\ IInv /\ Data
    BY DEF SyncAfter, Exact
  <1>3. /\ \A u \in Warps : phase[u] = "rope" /\ phase'[u] = "rope"
        /\ UNCHANGED <<call, todo, block, phase, kvBlock>> /\ ~arrived[w] /\ block \in Nat
        /\ \A u \in Warps : arrived'[u] = (u = w \/ arrived[u])
    BY <1>1, <1>2, Waits
  <1>4. Shapes' /\ Progress'
    BY <1>1, <1>2, <1>3, ShapesSame, ProgressSame DEF Data
  <1>5. QueriesStand'
    <2> SUFFICES ASSUME NEW u \in Warps, NEW r \in Rows, NEW d \in Channels, Query(r),
                        Mine(u, r * Half + (d % Half))
                 PROVE  qTile'[<<r, d>>] = IF arrived'[u] THEN "rotated" ELSE "raw"
      <3>1. \A r \in Rows : Query(r)' <=> Query(r)
        BY <1>3, Frame
      <3> QED BY <1>3, <3>1 DEF QueriesStand, Mine
    <2>1. <<r, d>> \in DOMAIN qTile
      BY <1>2 DEF Data, Shapes
    <2>2. PICK e \in Channels : e = d % Half /\ e + Half \in Channels
                                /\ e % Half = e /\ (e + Half) % Half = e
      <3>1. d \in Nat
        BY Sizes DEF Channels
      <3>2. d % Half \in 0 .. Half - 1
        BY <3>1, Sizes, Places
      <3>3. PICK e \in 0 .. Half - 1 : e = d % Half
        BY <3>2
      <3>4. (1 * Half + e) % Half = e /\ (0 * Half + e) % Half = e
        BY <3>3, Sizes, PlaceOf
      <3>5. 1 * Half + e = e + Half /\ 0 * Half + e = e
        BY <3>3, Sizes
      <3> QED BY <3>3, <3>4, <3>5, Sizes DEF Channels
    <2>3. \A f \in Channels, v \in Warps :
              f % Half = e /\ Mine(v, r * Half + e) =>
                  qTile[<<r, f>>] = IF arrived[v] THEN "rotated" ELSE "raw"
      BY <1>2, <1>3 DEF Data, QueriesStand
    <2>4. Row(r) < call.rows /\ ~(Row(r) >= call.rows)
      <3>1. Row(r) \in 0 .. call.rows - 1
        BY <1>2, <1>3, QueryFacts DEF Data
      <3> QED BY <1>2, <3>1, CallFacts DEF Data
    <2>7. qTile'[<<r, d>>] =
              IF ~Mine(w, r * Half + e) \/ Row(r) >= call.rows THEN qTile[<<r, d>>]
              ELSE IF qTile[<<r, e>>] = "raw" /\ qTile[<<r, e + Half>>] = "raw"
              THEN "rotated" ELSE "junk"
      <3>1. <<r, d>>[1] = r /\ <<r, d>>[2] = d
        OBVIOUS
      <3> QED BY <1>1, <2>1, <2>2, <3>1
    <2>5. CASE u = w
      <3>1. qTile[<<r, e>>] = "raw" /\ qTile[<<r, e + Half>>] = "raw"
        BY <1>3, <2>2, <2>3, <2>5
      <3>2. qTile'[<<r, d>>] = "rotated"
        BY <2>2, <2>4, <2>5, <2>7, <3>1
      <3> QED BY <1>3, <2>5, <3>2
    <2>6. CASE u # w
      <3>1. ~Mine(w, r * Half + e)
        BY <2>2, <2>6 DEF Mine
      <3>2. qTile'[<<r, d>>] = qTile[<<r, d>>]
        BY <2>7, <3>1
      <3>3. arrived'[u] <=> arrived[u]
        BY <1>3, <2>6
      <3> QED BY <2>2, <2>3, <3>2, <3>3
    <2> QED BY <2>5, <2>6
  <1>6. TilesStand' /\ ScoresStand'
    BY <1>3 DEF TilesStand, TileStands, ScoresStand
  <1>7. SumsStand'
    <2>1. \A u \in Warps : TilesOf(u)' = TilesOf(u)
      BY <1>3 DEF TilesOf
    <2> QED BY <1>1, <1>2, <1>3, <2>1, SumsSame DEF Data
  <1>8. OutputStands'
    BY <1>1, <1>2, <1>3, OutputSame DEF Data
  <1> QED BY <1>4, <1>5, <1>6, <1>7, <1>8 DEF Data

\* Keys and values of the tile, each at its place.
LEMMA LoadTileData ==
    ASSUME Exact, NEW w \in Warps, LoadTile(w) PROVE Data'
  <1>1. /\ Finish(w, "load") /\ UNCHANGED <<qTile, s, m, l, o, out>>
        /\ kp' = [a \in DOMAIN kp |->
                     IF a < KvBlock * HeadDim /\ Mine(w, a)
                     THEN KHalf(TileKey(w, a \div HeadDim), a % HeadDim) ELSE kp[a]]
        /\ vTile' = [i \in DOMAIN vTile |->
                        IF Mine(w, i[1] * HeadDim + i[2]) THEN TileKey(w, i[1]) ELSE vTile[i]]
    BY DEF LoadTile, registers
  <1>2. "load" \in SyncAfter /\ IInv /\ Data
    BY DEF SyncAfter, Exact
  <1>3. /\ \A u \in Warps : phase[u] = "load" /\ phase'[u] = "load" /\ kvBlock[u] = kvBlock[w]
        /\ UNCHANGED <<call, todo, block, phase, kvBlock>>
        /\ \A u \in Warps : arrived'[u] = (u = w \/ arrived[u])
    BY <1>1, <1>2, Waits
  <1>4. Shapes' /\ Progress'
    BY <1>1, <1>2, <1>3, ShapesSame, ProgressSame DEF Data
  <1>5. TilesStand'
    <2> SUFFICES ASSUME NEW u \in Warps, NEW kt \in TileRows, NEW d \in Channels
                 PROVE  TileStands(u, kt, d)'
      BY DEF TilesStand
    <2> DEFINE a == KAddr(kt, d)
    <2>1. a \in DOMAIN kp /\ a < KvBlock * HeadDim /\ a \div HeadDim = kt /\ a % HeadDim = d
      BY <1>2, KeyPlace DEF Data, Shapes
    <2>2. <<kt, d>> \in DOMAIN vTile /\ a = kt * HeadDim + d
      BY <1>2 DEF Data, Shapes, KAddr
    <2>3. TileKey(u, kt)' = TileKey(u, kt) /\ TileKey(u, kt) = TileKey(w, kt)
      BY <1>3, FrameTiles DEF TileKey
    <2> HIDE DEF a
    <2>4. Mine(w, a) => kp'[a] = KHalf(TileKey(w, kt), d) /\ vTile'[<<kt, d>>] = TileKey(w, kt)
      BY <1>1, <2>1, <2>2
    <2>5. ~Mine(w, a) => kp'[a] = kp[a] /\ vTile'[<<kt, d>>] = vTile[<<kt, d>>]
      BY <1>1, <2>1, <2>2
    <2>6. arrived[u] /\ Mine(u, a) => kp[a] = KHalf(TileKey(u, kt), d) /\ vTile[<<kt, d>>] = TileKey(u, kt)
      BY <1>2, <1>3 DEF Data, TilesStand, TileStands, a
    <2>7. arrived'[u] /\ Mine(u, a) => kp'[a] = KHalf(TileKey(u, kt), d) /\ vTile'[<<kt, d>>] = TileKey(u, kt)
      BY <1>3, <2>3, <2>4, <2>5, <2>6
    <2> QED BY <1>3, <2>3, <2>7 DEF TileStands, a, KAddr, Mine, KHalf
  <1>6. QueriesStand'
    BY <1>1, <1>2, <1>3, QueriesSame DEF Data
  <1>9. ScoresStand'
    BY <1>3 DEF ScoresStand
  <1>7. SumsStand'
    <2>1. \A u \in Warps : TilesOf(u)' = TilesOf(u)
      BY <1>3 DEF TilesOf
    <2> QED BY <1>1, <1>2, <1>3, <2>1, SumsSame DEF Data
  <1>8. OutputStands'
    BY <1>1, <1>2, <1>3, OutputSame DEF Data
  <1> QED BY <1>4, <1>5, <1>6, <1>7, <1>8, <1>9 DEF Data

\* A key that takes part is of the text, and stands where the tile says.
LEMMA UnmaskedKey ==
    ASSUME Shapes, block \in Nat, NEW w \in Warps, kvBlock[w] \in Nat,
           NEW r \in Rows, Query(r), NEW kt \in TileRows
    PROVE  LET k == kvBlock[w] * KvBlock + kt IN
           /\ k \in Nat
           /\ ~Masked(w, r, kt) <=> k <= QPosFirst + r
           /\ ~Masked(w, r, kt) => TileKey(w, kt) = k /\ k < call.len /\ k \in Keys
  <1>1. kvBlock[w] * KvBlock \in Nat /\ kt \in Nat
    BY Sizes, ProductNat DEF TileRows
  <1> DEFINE k == kvBlock[w] * KvBlock + kt
  <1>2. k \in Nat
    BY <1>1
  <1>3. QPosFirst + r \in Nat /\ QPosFirst + r < call.len
    BY QueryFacts, BlockFacts, CallFacts
  <1>4. TileKey(w, kt) = IF k < call.len THEN k ELSE Zero
    BY DEF TileKey
  <1>5. Masked(w, r, kt) <=> (k > QPosFirst + r \/ k >= call.len)
    BY DEF Masked
  <1> HIDE DEF k
  <1>6. k < call.len => k \in Keys
    BY <1>2, FiniteScores, CallFacts, Sizes DEF Keys
  <1>7. ~Masked(w, r, kt) <=> k <= QPosFirst + r
    BY <1>2, <1>3, <1>5, CallFacts
  <1>8. k <= QPosFirst + r => k < call.len
    BY <1>2, <1>3, CallFacts
  <1> QED BY <1>2, <1>4, <1>6, <1>7, <1>8 DEF k

\* The scores of a warp's rows, from the rotated queries and the keys of the tile.
LEMMA ScoresData ==
    ASSUME Exact, NEW w \in Warps, Scores(w) PROVE Data'
  <1>1. /\ Finish(w, "scores") /\ UNCHANGED <<qTile, kp, vTile, m, l, o, out>>
        /\ s' = [i \in DOMAIN s |-> IF Owns(w, i[1]) THEN Dot(i[1], i[2]) ELSE s[i]]
    BY DEF Scores
  <1>2. "scores" \in SyncAfter /\ IInv /\ Data
    BY DEF SyncAfter, Exact
  <1>3. /\ \A u \in Warps : phase[u] = "scores" /\ phase'[u] = "scores" /\ kvBlock[u] = kvBlock[w]
        /\ UNCHANGED <<call, todo, block, phase, kvBlock>> /\ block \in Nat
        /\ kvBlock[w] \in Nat
        /\ \A u \in Warps : arrived'[u] = (u = w \/ arrived[u])
    BY <1>1, <1>2, Waits
  <1>4. Shapes' /\ Progress'
    BY <1>1, <1>2, <1>3, ShapesSame, ProgressSame DEF Data
  <1>5. ASSUME NEW r \in Rows, NEW kt \in TileRows, Query(r), ~Masked(w, r, kt)
        PROVE  Dot(r, kt) = [key |-> TileKey(w, kt), e |-> RowScores(Row(r))[TileKey(w, kt)]]
    <2> DEFINE key == TileKey(w, kt)
    <2>1. key \in Keys /\ key # Zero
      <3>1. key \in Keys
        BY <1>2, <1>3, <1>5, UnmaskedKey DEF Data
      <3> QED BY <3>1, Sizes DEF Keys, Zero
    <2>2. \A d \in Channels : kp[KAddr(kt, d)] = KHalf(key, d)
      BY <1>2, <1>3 DEF Data, TilesStand, TileStands
    <2>3. \A d \in Channels : qTile[<<r, d>>] = "rotated"
      BY <1>2, <1>3, <1>5 DEF Data, QueriesStand
    <2>4. 0 \in Channels
      BY Sizes DEF Channels
    <2> HIDE DEF key
    <2>5. kp[KAddr(kt, 0)] = KHalf(key, 0)
      BY <2>2, <2>4
    <2>6. KHalf(key, 0).key = key /\ KHalf(key, 0).kind = "k"
      BY DEF KHalf
    <2>7. ~(\A d \in Channels : qTile[<<r, d>>] = "zero")
      BY <2>3, <2>4
    <2>8. Dot(r, kt) = [key |-> key, e |-> Score(call.shape, Row(r), key)]
      BY <2>1, <2>2, <2>3, <2>5, <2>6, <2>7 DEF Dot
    <2>9. RowScores(Row(r))[key] = Score(call.shape, Row(r), key)
      BY <2>1 DEF RowScores
    <2> QED BY <2>8, <2>9 DEF key
  <1>6. ScoresStand'
    <2>1. /\ \A u, kt : TileKey(u, kt)' = TileKey(u, kt)
          /\ \A u, r, kt : Masked(u, r, kt)' <=> Masked(u, r, kt)
      BY <1>3, FrameTiles
    <2>2. /\ \A r : Row(r)' = Row(r) /\ (Query(r)' <=> Query(r))
          /\ \A x : RowScores(x)' = RowScores(x)
      BY <1>3, Frame
    <2>3. ASSUME NEW u \in Warps, NEW r \in Rows, NEW kt \in TileRows, Owns(u, r), Query(r),
                 ~Masked(u, r, kt), arrived'[u]
          PROVE  s'[<<r, kt>>] = [key |-> TileKey(u, kt), e |-> RowScores(Row(r))[TileKey(u, kt)]]
      <3>1. <<r, kt>> \in DOMAIN s
        BY <1>2 DEF Data, Shapes
      <3>2. s'[<<r, kt>>] = IF Owns(w, r) THEN Dot(r, kt) ELSE s[<<r, kt>>]
        <4>1. <<r, kt>>[1] = r /\ <<r, kt>>[2] = kt
          OBVIOUS
        <4> QED BY <1>1, <3>1, <4>1
      <3>3. CASE u = w
        BY <1>5, <2>3, <3>2, <3>3
      <3>4. CASE u # w
        <4>1. arrived[u] /\ ~Owns(w, r)
          BY <1>3, <2>3, <3>4 DEF Owns
        <4> QED BY <1>2, <1>3, <2>3, <3>2, <4>1 DEF Data, ScoresStand
      <3> QED BY <3>3, <3>4
    <2> QED BY <1>3, <2>1, <2>2, <2>3 DEF ScoresStand, Owns
  <1>9. QueriesStand'
    BY <1>1, <1>2, <1>3, QueriesSame DEF Data
  <1>10. TilesStand'
    BY <1>1, <1>2, <1>3, TilesSame DEF Data
  <1>7. SumsStand'
    <2>1. \A u \in Warps : TilesOf(u)' = TilesOf(u)
      BY <1>3 DEF TilesOf
    <2> QED BY <1>1, <1>2, <1>3, <2>1, SumsSame DEF Data
  <1>8. OutputStands'
    BY <1>1, <1>2, <1>3, OutputSame DEF Data
  <1> QED BY <1>4, <1>6, <1>7, <1>8, <1>9, <1>10 DEF Data

-----------------------------------------------------------------------------
(* The running softmax *)

\* The keys tile n brings to row r.
Tile(r, n) == Below(r, (n + 1) * KvBlock) \ Below(r, n * KvBlock)

LEMMA TileBounds ==
    ASSUME NEW n \in Nat
    PROVE  (n + 1) * KvBlock = n * KvBlock + KvBlock /\ n * KvBlock \in Nat
  BY Sizes, ProductNat

\* Each key of the tile has one probability, and the others none.
LEMMA ProbFacts ==
    ASSUME Shapes, block \in Nat, NEW w \in Warps, kvBlock[w] \in Nat,
           NEW r \in Rows, Query(r), NEW kt \in TileRows, NEW key,
           key = kvBlock[w] * KvBlock + kt,
           ~Masked(w, r, kt) => s[<<r, kt>>] = [key |-> key, e |-> RowScores(Row(r))[key]]
    PROVE  /\ Masked(w, r, kt) => /\ Seen(w, r)[kt].e = NegInf
                                  /\ Prob(w, r, kt) = PHalf(Zero, NegInf)
           /\ ~Masked(w, r, kt) =>
                  /\ Seen(w, r)[kt].e = RowScores(Row(r))[key]
                  /\ RowScores(Row(r))[key] \in Finite
                  /\ Prob(w, r, kt) = PHalf(key, RowScores(Row(r))[key] - NewMax(w, r))
  <1>1. Seen(w, r)[kt] = IF Masked(w, r, kt) THEN [key |-> Zero, e |-> NegInf] ELSE s[<<r, kt>>]
    BY DEF Seen
  <1>2. CASE Masked(w, r, kt)
    <2>1. Seen(w, r)[kt].e = NegInf
      BY <1>1, <1>2
    <2> QED BY <1>2, <2>1 DEF Prob
  <1>3. CASE ~Masked(w, r, kt)
    <2>1. Seen(w, r)[kt].e = RowScores(Row(r))[key] /\ Seen(w, r)[kt].key = key
      BY <1>1, <1>3
    <2>2. key \in Nat /\ key < call.len
      BY <1>3, UnmaskedKey
    <2>3. Row(r) \in 0 .. call.rows - 1
      BY QueryFacts
    <2>4. RowScores(Row(r))[key] \in Finite
      BY <2>2, <2>3, FiniteScores
    <2>5. Seen(w, r)[kt].e # NegInf
      BY <2>1, <2>4, Sentinels
    <2> QED BY <1>3, <2>1, <2>4, <2>5 DEF Prob
  <1> QED BY <1>2, <1>3

\* Terms of a tile are those of the scores f relative to top, each for its key.
TermsOf(w, r, term, f, top) ==
    \A kt \in TileRows :
        /\ Masked(w, r, kt) => Prob(w, r, kt).key = Zero
        /\ ~Masked(w, r, kt) => /\ Prob(w, r, kt).key = kvBlock[w] * KvBlock + kt
                                /\ term[kt] = f[kvBlock[w] * KvBlock + kt] - top

LEMMA TileSumIs ==
    ASSUME Shapes, block \in Nat, NEW w \in Warps, kvBlock[w] \in Nat,
           NEW r \in Rows, Query(r), NEW f, NEW top, NEW term, TermsOf(w, r, term, f, top)
    PROVE  TileSum(w, r, term) = SumOver(Tile(r, kvBlock[w]), f, top)
  <1> DEFINE n == kvBlock[w]
             base == n * KvBlock
             mine(k) == {kt \in TileRows : Prob(w, r, kt).key = k}
  <1>0. \A kt \in TileRows :
            /\ Masked(w, r, kt) => Prob(w, r, kt).key = Zero
            /\ ~Masked(w, r, kt) => /\ Prob(w, r, kt).key = base + kt
                                    /\ term[kt] = f[base + kt] - top
    BY DEF TermsOf
  <1>1. base \in Nat /\ (n + 1) * KvBlock = base + KvBlock
    BY TileBounds
  <1>2. QPosFirst + r \in Nat
    BY QueryFacts
  <1>3. \A kt \in TileRows : /\ base + kt \in Nat /\ kt \in Nat /\ kt < KvBlock
                             /\ ~Masked(w, r, kt) <=> base + kt <= QPosFirst + r
    <2>1. \A kt \in TileRows : kt \in Nat /\ kt < KvBlock
      BY Sizes DEF TileRows
    <2> QED BY <1>1, <2>1, UnmaskedKey
  <1>4. \A k \in Keys : k \in Nat
    BY Sizes DEF Keys
  <1>5. \A k \in Keys : k \in Tile(r, n) <=> base <= k /\ k < base + KvBlock /\ k <= QPosFirst + r
    BY <1>1, <1>2, <1>4 DEF Tile, Below
  <1> HIDE DEF base
  <1>6. ASSUME NEW k \in Keys, k \in Tile(r, n)
        PROVE  /\ k - base \in TileRows /\ mine(k) = {k - base}
               /\ term[k - base] = f[k] - top
    <2>1. k - base \in TileRows /\ base + (k - base) = k
      BY <1>1, <1>4, <1>5, <1>6, Sizes DEF TileRows
    <2>2. ~Masked(w, r, k - base)
      BY <1>3, <1>5, <1>6, <2>1
    <2>3. Prob(w, r, k - base).key = k /\ term[k - base] = f[k] - top
      BY <1>0, <2>1, <2>2
    <2>4. ASSUME NEW kt \in TileRows, Prob(w, r, kt).key = k PROVE kt = k - base
      <3>1. k # Zero
        BY <1>4 DEF Zero
      <3>2. k = base + kt
        BY <1>0, <2>4, <3>1
      <3> QED BY <1>1, <1>3, <3>2
    <2> QED BY <2>1, <2>3, <2>4
  <1>7. ASSUME NEW k \in Keys, k \notin Tile(r, n) PROVE mine(k) = {}
    <2> SUFFICES ASSUME NEW kt \in TileRows, Prob(w, r, kt).key = k PROVE FALSE
      OBVIOUS
    <2>1. k # Zero
      BY <1>4 DEF Zero
    <2>2. ~Masked(w, r, kt) /\ k = base + kt
      BY <1>0, <2>1
    <2> QED BY <1>1, <1>3, <1>5, <1>7, <2>2, Sizes
  <1>8. ASSUME NEW k \in Keys
        PROVE  (IF mine(k) = {} THEN NegInf
                ELSE IF Cardinality(mine(k)) = 1 THEN term[CHOOSE kt \in mine(k) : TRUE] ELSE Junk)
               = IF k \in Tile(r, n) THEN f[k] - top ELSE NegInf
    <2>1. CASE k \in Tile(r, n)
      <3>1. mine(k) = {k - base} /\ term[k - base] = f[k] - top
        BY <1>6, <2>1
      <3>2. Cardinality({k - base}) = 1
        BY FS_Singleton
      <3>3. (CHOOSE kt \in {k - base} : TRUE) = k - base
        OBVIOUS
      <3> HIDE DEF mine
      <3> QED BY <2>1, <3>1, <3>2, <3>3
    <2>2. CASE k \notin Tile(r, n)
      BY <1>7, <2>2
    <2> QED BY <2>1, <2>2
  <1> QED BY <1>8 DEF TileSum, SumOver

\* The largest score so far is a score: key 0 is in the first tile of every row.
LEMMA NewMaxFinite ==
    ASSUME Shapes, block \in Nat, NEW w \in Warps, kvBlock[w] \in Nat,
           NEW r \in Rows, Query(r), m[r] \in Finite \/ (m[r] = NegInf /\ kvBlock[w] = 0),
           \A kt \in TileRows :
               /\ Masked(w, r, kt) => Seen(w, r)[kt].e = NegInf
               /\ ~Masked(w, r, kt) => Seen(w, r)[kt].e \in Finite
    PROVE  NewMax(w, r) \in Finite
  <1> DEFINE es == {Seen(w, r)[kt].e : kt \in TileRows} \cup {m[r]}
  <1>1. es \subseteq Finite \cup {NegInf}
    OBVIOUS
  <1>2. es \cap Finite # {}
    <2>1. CASE m[r] \in Finite
      BY <2>1
    <2>2. CASE kvBlock[w] = 0
      <3>1. 0 \in TileRows /\ 0 * KvBlock + 0 = 0
        BY Sizes DEF TileRows
      <3>2. ~Masked(w, r, 0)
        <4>1. 0 <= QPosFirst + r
          BY QueryFacts
        <4> QED BY <2>2, <3>1, <4>1, UnmaskedKey
      <3> QED BY <3>1, <3>2
    <2> QED BY <2>1, <2>2
  <1>3. NewMax(w, r) = CHOOSE e \in es : \A f \in es : e >= f
    BY DEF NewMax
  <1> HIDE DEF es
  <1> QED BY <1>1, <1>2, <1>3, MaximumIs

\* A tile more: the sums so far, moved to the new maximum, and the tile's.
LEMMA SumGrows ==
    ASSUME Shapes, block \in Nat, NEW r \in Rows, Query(r), NEW n \in Nat,
           NEW sum, NEW old, NEW top \in Finite,
           IF n = 0 THEN old = NegInf /\ sum = NoTerms
           ELSE old \in Finite /\ sum = SumOver(Below(r, n * KvBlock), RowScores(Row(r)), old)
    PROVE  Plus(Scale(sum, Factor(old, top)), SumOver(Tile(r, n), RowScores(Row(r)), top))
           = SumOver(Below(r, (n + 1) * KvBlock), RowScores(Row(r)), top)
  <1> DEFINE f == RowScores(Row(r))
             S == Below(r, n * KvBlock)
             T == Tile(r, n)
             U == Below(r, (n + 1) * KvBlock)
  <1>1. n * KvBlock \in Nat /\ (n + 1) * KvBlock = n * KvBlock + KvBlock
    BY TileBounds
  <1>2. S \subseteq U /\ T = U \ S
    BY <1>1, Sizes DEF Tile, Below, Keys
  <1>3. \A k \in U : f[k] \in Finite
    <2>1. QPosFirst + r < call.len /\ QPosFirst + r \in Nat /\ Row(r) \in 0 .. call.rows - 1
      BY QueryFacts, BlockFacts, CallFacts
    <2>2. \A k \in U : k \in Nat /\ k < call.len
      BY <2>1, CallFacts, Sizes DEF Below, Keys
    <2> QED BY <2>1, <2>2, FiniteScores
  <1>4. Scale(sum, Factor(old, top)) = SumOver(S, f, top)
    <2>1. CASE n = 0
      <3>1. S = {}
        BY <2>1, Sizes DEF Below, Keys
      <3>2. Scale(sum, Factor(old, top)) = NoTerms
        BY <2>1, ScaledEmpty
      <3>3. SumOver({}, f, top) = NoTerms
        BY EmptySum
      <3> QED BY <3>1, <3>2, <3>3
    <2>2. CASE n # 0
      <3>1. old \in Finite /\ sum = SumOver(S, f, old)
        BY <2>2
      <3>2. \A k \in S \cap Keys : f[k] \in Finite
        BY <1>2, <1>3
      <3> HIDE DEF f, S
      <3> QED BY <3>1, <3>2, Rescaled
    <2> QED BY <2>1, <2>2
  <1>5. S \cap T = {} /\ S \cup T = U
    BY <1>2
  <1>6. \A k \in (S \cup T) \cap Keys : f[k] \in Finite
    BY <1>3, <1>5
  <1> HIDE DEF f, S, T, U
  <1>7. Plus(SumOver(S, f, top), SumOver(T, f, top)) = SumOver(S \cup T, f, top)
    BY <1>5, <1>6, Added
  <1> QED BY <1>4, <1>5, <1>7 DEF f, S, T, U

\* What a warp folds into one of its rows.
LEMMA RowFolds ==
    ASSUME Shapes, ScoresStand, TilesStand, block \in Nat, NEW w \in Warps,
           phase[w] = "accumulate", kvBlock[w] \in Nat,
           NEW r \in Rows, Owns(w, r), Query(r), Folded(r, kvBlock[w])
    PROVE  LET whole == SumOver(Below(r, (kvBlock[w] + 1) * KvBlock), RowScores(Row(r)), NewMax(w, r))
           IN  /\ NewMax(w, r) \in Finite
               /\ Plus(Scale(l[r], Alpha(w, r)),
                       TileSum(w, r, [kt \in TileRows |-> Prob(w, r, kt).e])) = whole
               /\ \A d \in Channels :
                      Plus(Scale(o[<<r, d>>], Alpha(w, r)),
                           TileSum(w, r, [kt \in TileRows |-> Weight(w, r, d, kt)])) = whole
  <1> DEFINE n == kvBlock[w]
             f == RowScores(Row(r))
             top == NewMax(w, r)
             tile == SumOver(Tile(r, n), f, top)
             whole == SumOver(Below(r, (n + 1) * KvBlock), f, top)
             key(kt) == n * KvBlock + kt
  <1>1. /\ n = 0 => m[r] = NegInf /\ l[r] = NoTerms
        /\ n # 0 => m[r] \in Finite /\ l[r] = SumOver(Below(r, n * KvBlock), f, m[r])
        /\ \A d \in Channels : o[<<r, d>>] = l[r]
    BY DEF Folded
  <1>2. ASSUME NEW kt \in TileRows
        PROVE  /\ Masked(w, r, kt) => /\ Seen(w, r)[kt].e = NegInf
                                      /\ Prob(w, r, kt) = PHalf(Zero, NegInf)
               /\ ~Masked(w, r, kt) => /\ Seen(w, r)[kt].e \in Finite
                                       /\ Prob(w, r, kt) = PHalf(key(kt), f[key(kt)] - top)
                                       /\ TileKey(w, kt) = key(kt)
    <2>1. ~Masked(w, r, kt) => TileKey(w, kt) = key(kt)
      BY UnmaskedKey
    <2>2. ~Masked(w, r, kt) => s[<<r, kt>>] = [key |-> key(kt), e |-> f[key(kt)]]
      BY <2>1 DEF ScoresStand
    <2>3. PICK k : k = key(kt)
      OBVIOUS
    <2>4. /\ Masked(w, r, kt) => /\ Seen(w, r)[kt].e = NegInf
                                 /\ Prob(w, r, kt) = PHalf(Zero, NegInf)
          /\ ~Masked(w, r, kt) =>
                 /\ Seen(w, r)[kt].e = RowScores(Row(r))[k]
                 /\ RowScores(Row(r))[k] \in Finite
                 /\ Prob(w, r, kt) = PHalf(k, RowScores(Row(r))[k] - NewMax(w, r))
      <3>1. k = kvBlock[w] * KvBlock + kt
        BY <2>3
      <3>2. ~Masked(w, r, kt) => s[<<r, kt>>] = [key |-> k, e |-> RowScores(Row(r))[k]]
        BY <2>2, <2>3
      <3> QED BY <3>1, <3>2, ProbFacts
    <2> QED BY <2>1, <2>3, <2>4
  <1>3. top \in Finite
    BY <1>1, <1>2, NewMaxFinite
  <1>4. ASSUME NEW kt \in TileRows
        PROVE  /\ Prob(w, r, kt).key = IF Masked(w, r, kt) THEN Zero ELSE key(kt)
               /\ ~Masked(w, r, kt) => Prob(w, r, kt).e = f[key(kt)] - top
    <2> HIDE DEF top, f, key
    <2>1. PHalf(Zero, NegInf).key = Zero
      BY DEF PHalf
    <2>2. PHalf(key(kt), f[key(kt)] - top).key = key(kt)
          /\ PHalf(key(kt), f[key(kt)] - top).e = f[key(kt)] - top
      BY DEF PHalf
    <2> QED BY <1>2, <2>1, <2>2
  <1>5. ASSUME NEW term, \A kt \in TileRows : ~Masked(w, r, kt) => term[kt] = f[key(kt)] - top
        PROVE  TileSum(w, r, term) = tile
    <2>1. TermsOf(w, r, term, f, top)
      BY <1>4, <1>5 DEF TermsOf
    <2> HIDE DEF f, top
    <2>2. TileSum(w, r, term) = SumOver(Tile(r, kvBlock[w]), f, top)
      BY <2>1, TileSumIs
    <2> QED BY <2>2
  <1>6. Plus(Scale(l[r], Factor(m[r], top)), tile) = whole
    <2>1. n \in Nat
      OBVIOUS
    <2>2. IF n = 0 THEN m[r] = NegInf /\ l[r] = NoTerms
          ELSE m[r] \in Finite /\ l[r] = SumOver(Below(r, n * KvBlock), RowScores(Row(r)), m[r])
      BY <1>1
    <2> HIDE DEF n, top
    <2>3. Plus(Scale(l[r], Factor(m[r], top)), SumOver(Tile(r, n), RowScores(Row(r)), top))
          = SumOver(Below(r, (n + 1) * KvBlock), RowScores(Row(r)), top)
      BY <1>3, <2>1, <2>2, SumGrows
    <2> QED BY <2>3
  <1>7. Alpha(w, r) = Factor(m[r], top)
    BY DEF Alpha
  <1>8. TileSum(w, r, [kt \in TileRows |-> Prob(w, r, kt).e]) = tile
    <2> DEFINE term == [kt \in TileRows |-> Prob(w, r, kt).e]
    <2>1. \A kt \in TileRows : ~Masked(w, r, kt) => term[kt] = f[key(kt)] - top
      BY <1>4
    <2> HIDE DEF term, tile
    <2>2. TileSum(w, r, term) = tile
      BY <1>5, <2>1
    <2> QED BY <2>2 DEF term
  <1>9. ASSUME NEW d \in Channels
        PROVE  TileSum(w, r, [kt \in TileRows |-> Weight(w, r, d, kt)]) = tile
    <2> DEFINE term == [kt \in TileRows |-> Weight(w, r, d, kt)]
    <2>1. ASSUME NEW kt \in TileRows, ~Masked(w, r, kt) PROVE term[kt] = f[key(kt)] - top
      <3>1. vTile[<<kt, d>>] = key(kt)
        BY <1>2, <2>1 DEF TilesStand, TileStands
      <3>2. Prob(w, r, kt).key = key(kt) /\ Prob(w, r, kt).e = f[key(kt)] - top
        BY <1>4, <2>1
      <3> HIDE DEF f, key, top
      <3>3. Weight(w, r, d, kt) = f[key(kt)] - top
        BY <3>1, <3>2 DEF Weight
      <3> QED BY <3>3
    <2> HIDE DEF term, tile
    <2>2. TileSum(w, r, term) = tile
      BY <1>5, <2>1
    <2> QED BY <2>2 DEF term
  <1> HIDE DEF top, tile, whole
  <1>10. Plus(Scale(l[r], Alpha(w, r)), TileSum(w, r, [kt \in TileRows |-> Prob(w, r, kt).e])) = whole
    BY <1>6, <1>7, <1>8
  <1>11. ASSUME NEW d \in Channels
         PROVE  Plus(Scale(o[<<r, d>>], Alpha(w, r)),
                     TileSum(w, r, [kt \in TileRows |-> Weight(w, r, d, kt)])) = whole
    BY <1>1, <1>6, <1>7, <1>9
  <1> QED BY <1>3, <1>10, <1>11 DEF top, whole

\* A warp folds the tile into its rows; the rows of the others, and the values,
\* stay as they are, and the keys it overwrites are dead.
LEMMA AccumulateData ==
    ASSUME Exact, NEW w \in Warps, Accumulate(w) PROVE Data'
  <1>1. /\ Finish(w, "accumulate") /\ UNCHANGED <<qTile, vTile, s, out>>
        /\ m' = [r \in Rows |-> IF Owns(w, r) THEN NewMax(w, r) ELSE m[r]]
        /\ l' = [r \in Rows |-> IF Owns(w, r)
                    THEN Plus(Scale(l[r], Alpha(w, r)),
                              TileSum(w, r, [kt \in TileRows |-> Prob(w, r, kt).e]))
                    ELSE l[r]]
        /\ o' = [i \in DOMAIN o |-> IF Owns(w, i[1])
                    THEN Plus(Scale(o[i], Alpha(w, i[1])),
                              TileSum(w, i[1], [kt \in TileRows |-> Weight(w, i[1], i[2], kt)]))
                    ELSE o[i]]
        /\ DOMAIN kp' = DOMAIN kp
    BY DEF Accumulate
  <1>2. "accumulate" \in SyncAfter /\ IInv /\ Data
    BY DEF SyncAfter, Exact
  <1>3. /\ \A u \in Warps : /\ phase[u] = "accumulate" /\ phase'[u] = "accumulate"
                            /\ kvBlock[u] = kvBlock[w] /\ kvBlock'[u] = kvBlock[w]
        /\ UNCHANGED <<call, todo, block, phase, kvBlock>> /\ block \in Nat /\ block # NoBlock
        /\ kvBlock[w] \in Nat /\ ~arrived[w]
        /\ \A u \in Warps : arrived'[u] = (u = w \/ arrived[u])
    BY <1>1, <1>2, Waits
  <1>4. Shapes' /\ Progress'
    BY <1>1, <1>2, <1>3, ShapesSame, ProgressSame DEF Data
  <1>5. ASSUME NEW r \in Rows, NEW d \in Channels
        PROVE  o'[<<r, d>>] = IF Owns(w, r)
                    THEN Plus(Scale(o[<<r, d>>], Alpha(w, r)),
                              TileSum(w, r, [kt \in TileRows |-> Weight(w, r, d, kt)]))
                    ELSE o[<<r, d>>]
    <2>1. <<r, d>> \in DOMAIN o
      BY <1>2 DEF Data, Shapes
    <2>2. <<r, d>>[1] = r /\ <<r, d>>[2] = d
      OBVIOUS
    <2> QED BY <1>1, <2>1, <2>2
  <1>6. SumsStand'
    <2>1. \A r : Query(r)' <=> Query(r)
      BY <1>3, Frame
    <2> SUFFICES ASSUME NEW u \in Warps, NEW r \in Rows, Owns(u, r), Query(r)
                 PROVE  Folded(r, TilesOf(u))'
      BY <2>1 DEF SumsStand, Owns
    <2>2. PICK n : n = TilesOf(u)
      OBVIOUS
    <2>3. Folded(r, n)
      BY <1>2, <1>3, <2>2 DEF Data, SumsStand
    <2>4. CASE u = w
      <3>1. n = kvBlock[w]
        BY <1>3, <2>2, <2>4 DEF TilesOf
      <3>2. TilesOf(u)' = n + 1
        BY <1>3, <2>4, <3>1 DEF TilesOf
      <3> DEFINE whole == SumOver(Below(r, (kvBlock[w] + 1) * KvBlock), RowScores(Row(r)), NewMax(w, r))
      <3>3. /\ NewMax(w, r) \in Finite
            /\ Plus(Scale(l[r], Alpha(w, r)),
                    TileSum(w, r, [kt \in TileRows |-> Prob(w, r, kt).e])) = whole
            /\ \A d \in Channels :
                   Plus(Scale(o[<<r, d>>], Alpha(w, r)),
                        TileSum(w, r, [kt \in TileRows |-> Weight(w, r, d, kt)])) = whole
        <4>1. Shapes /\ ScoresStand /\ TilesStand
          BY <1>2 DEF Data
        <4> QED BY <1>3, <2>3, <2>4, <3>1, <4>1, RowFolds
      <3> HIDE DEF whole
      <3>4. m'[r] = NewMax(w, r) /\ l'[r] = whole /\ \A d \in Channels : o'[<<r, d>>] = whole
        BY <1>1, <1>5, <2>4, <3>3
      <3>5. /\ (Row(r))' = Row(r) /\ (RowScores(Row(r)))' = RowScores(Row(r))
            /\ (Below(r, (n + 1) * KvBlock))' = Below(r, (n + 1) * KvBlock)
        BY <1>3, Frame
      <3>6. /\ m'[r] \in Finite
            /\ l'[r] = SumOver((Below(r, (n + 1) * KvBlock))', (RowScores(Row(r)))', m'[r])
            /\ \A d \in Channels : o'[<<r, d>>] = l'[r]
        BY <3>1, <3>3, <3>4, <3>5 DEF whole
      <3>7. n + 1 # 0
        BY <1>3, <3>1
      <3>8. Folded(r, n + 1)'
        BY <3>6, <3>7 DEF Folded, SumOver
      <3> QED BY <3>2, <3>8 DEF Folded
    <2>5. CASE u # w
      <3>1. ~Owns(w, r)
        BY <2>5 DEF Owns
      <3>2. m'[r] = m[r] /\ l'[r] = l[r] /\ \A d \in Channels : o'[<<r, d>>] = o[<<r, d>>]
        <4>1. m'[r] = m[r] /\ l'[r] = l[r]
          BY <1>1, <3>1
        <4>2. \A d \in Channels : o'[<<r, d>>] = o[<<r, d>>]
          BY <1>5, <3>1
        <4> QED BY <4>1, <4>2
      <3>3. TilesOf(u)' = n
        BY <1>3, <2>2, <2>5 DEF TilesOf
      <3>4. Folded(r, n)'
        BY <1>3, <2>3, <3>2, FoldedSame
      <3> QED BY <3>3, <3>4 DEF Folded
    <2> QED BY <2>4, <2>5
  <1>7. QueriesStand'
    BY <1>1, <1>2, <1>3, QueriesSame DEF Data
  <1>8. TilesStand'
    BY <1>1, <1>2, <1>3, TilesSame DEF Data
  <1>9. ScoresStand'
    BY <1>1, <1>2, <1>3, ScoresSame DEF Data
  <1>10. OutputStands'
    BY <1>1, <1>2, <1>3, OutputSame DEF Data
  <1> QED BY <1>4, <1>6, <1>7, <1>8, <1>9, <1>10 DEF Data

-----------------------------------------------------------------------------
(* The results *)

\* The tiles of a block hold all the keys of its query rows.
LEMMA WholeRow ==
    ASSUME Shapes, block \in Nat, NEW r \in Rows, Query(r)
    PROVE  Below(r, NumKvBlocks * KvBlock) = 0 .. call.len - call.rows + Row(r)
  <1>1. /\ QPosFirst + r = call.len - call.rows + Row(r) /\ QPosFirst + r \in Nat
        /\ QPosFirst + r < KvLimit
    BY QueryFacts
  <1>2. /\ KvLimit \in Nat /\ KvLimit <= call.len /\ NumKvBlocks * KvBlock \in Nat
        /\ KvLimit <= NumKvBlocks * KvBlock
    BY BlockFacts
  <1> DEFINE p == QPosFirst + r
             n == NumKvBlocks * KvBlock
  <1>3. \A k \in Keys : k \in Nat
    BY Sizes DEF Keys
  <1>4. p \in Nat /\ n \in Nat /\ p < n /\ p < call.len /\ call.len \in Nat /\ call.len <= MaxSeq
    BY <1>1, <1>2, CallFacts
  <1>5. Below(r, n) = {k \in Keys : k < n /\ k <= p}
    BY DEF Below
  <1> HIDE DEF p, n
  <1>6. {k \in Keys : k < n /\ k <= p} = 0 .. p
    <2>1. ASSUME NEW k \in 0 .. p PROVE k \in Keys /\ k < n /\ k <= p
      BY <1>4, Sizes DEF Keys
    <2>2. ASSUME NEW k \in Keys, k <= p PROVE k \in 0 .. p
      BY <1>3, <1>4, <2>2
    <2> QED BY <2>1, <2>2
  <1> QED BY <1>1, <1>5, <1>6 DEF p, n

\* What a warp stores is the result of its row; the others' results stay.
LEMMA StoreData ==
    ASSUME Exact, NEW w \in Warps, Store(w) PROVE Data'
  <1>1. /\ Finish(w, "store") /\ UNCHANGED <<qTile, kp, vTile, s, m, l, o>>
        /\ out' = [i \in DOMAIN out |->
                      LET r == i[1] - QRowStart
                      IN  IF r \in Rows /\ Owns(w, r) THEN [o |-> o[<<r, i[2]>>], l |-> l[r]]
                          ELSE out[i]]
    BY DEF Store, registers
  <1>2. IInv /\ Data /\ "store" \notin SyncAfter
    BY DEF SyncAfter, Exact
  <1>3. /\ phase[w] = "store" /\ UNCHANGED <<call, todo, block, arrived>>
        /\ phase' = [phase EXCEPT ![w] = Following("store", kvBlock[w])[1]]
        /\ kvBlock' = [kvBlock EXCEPT ![w] = Following("store", kvBlock[w])[2]]
    BY <1>1, <1>2 DEF Finish
  <1>4. Following("store", kvBlock[w]) = <<"exit", kvBlock[w]>>
    BY DEF Following
  <1>5. Leaving /\ block \in Nat
    <2>1. ~Idle /\ ~Together
      BY <1>2, <1>3 DEF Idle, Together
    <2> QED BY <1>2, <2>1 DEF IInv, Types, Leaving
  <1>6. /\ kvBlock' = kvBlock
        /\ \A u \in Warps : /\ phase[u] \in {"store", "exit"} /\ ~arrived[u] /\ ~arrived'[u]
                            /\ phase'[u] = IF u = w THEN "exit" ELSE phase[u]
    <2>1. kvBlock \in [Warps -> Nat] /\ phase \in [Warps -> Phases]
      BY <1>2 DEF IInv, Types
    <2>2. phase' = [phase EXCEPT ![w] = "exit"] /\ kvBlock' = [kvBlock EXCEPT ![w] = kvBlock[w]]
      <3>1. Following("store", kvBlock[w])[1] = "exit" /\ Following("store", kvBlock[w])[2] = kvBlock[w]
        BY <1>4
      <3> HIDE DEF Following
      <3> QED BY <1>3, <3>1
    <2> QED BY <1>3, <1>5, <2>1, <2>2 DEF Leaving
  <1>7. Shapes'
    <2>1. DOMAIN out' = DOMAIN out
      BY <1>1
    <2> QED BY <1>1, <1>2, <1>3, <2>1, ShapesSame DEF Data
  <1>8. Progress'
    <2>1. NumKvBlocks' = NumKvBlocks
      BY <1>3, Frame
    <2>2. \A u \in Warps : kvBlock[u] = NumKvBlocks
      BY <1>2, <1>6 DEF Data, Progress
    <2>3. \A u \in Warps : phase'[u] \in {"store", "exit"}
      BY <1>6
    <2> QED BY <1>6, <2>1, <2>2, <2>3 DEF Progress
  <1>9. QueriesStand' /\ TilesStand' /\ ScoresStand'
    <2>1. \A u \in Warps : phase'[u] \in {"store", "exit"}
      BY <1>6
    <2> QED BY <2>1 DEF QueriesStand, TilesStand, TileStands, ScoresStand
  <1>10. SumsStand'
    <2>1. \A u \in Warps : TilesOf(u)' = TilesOf(u)
      BY <1>6 DEF TilesOf
    <2> QED BY <1>1, <1>2, <1>3, <2>1, SumsSame DEF Data
  <1>11. ASSUME NEW x \in 0 .. call.rows - 1, NEW d \in Channels
         PROVE  out'[<<x, d>>] = LET r == x - QRowStart
                                 IN  IF r \in Rows /\ Owns(w, r) THEN [o |-> o[<<r, d>>], l |-> l[r]]
                                     ELSE out[<<x, d>>]
    <2>1. <<x, d>> \in DOMAIN out /\ <<x, d>>[1] = x /\ <<x, d>>[2] = d
      BY <1>2 DEF Data, Shapes
    <2> QED BY <1>1, <2>1
  <1>12. ASSUME NEW r \in Rows, NEW x, x = Row(r)
         PROVE  x - QRowStart = r
    <2>1. QRowStart \in Nat /\ r \in Nat
      BY <1>2, <1>5, BlockFacts, Sizes DEF Data, Rows
    <2> QED BY <1>12, <2>1 DEF Row
  <1>13. ASSUME NEW x \in 0 .. call.rows - 1, NEW d \in Channels,
                NEW r \in Rows, x = Row(r), Owns(w, r)
         PROVE  Final(x, d)'
    <2>1. Query(r)
      BY <1>2, <1>13, CallFacts DEF Query, Data
    <2>2. Folded(r, NumKvBlocks) /\ NumKvBlocks # 0
      <3>1. TilesOf(w) = NumKvBlocks
        BY <1>2, <1>3 DEF TilesOf, Data, Progress
      <3>2. NumKvBlocks # 0 /\ block # NoBlock
        BY <1>2, <1>5, BlockFacts DEF Data, NoBlock
      <3> QED BY <1>2, <1>13, <2>1, <3>1, <3>2 DEF Data, SumsStand
    <2>3. PICK top, sum : /\ top = m[r] /\ top \in Finite
                          /\ sum = SumOver(0 .. call.len - call.rows + x, RowScores(x), top)
                          /\ l[r] = sum /\ o[<<r, d>>] = sum
      <3>1. Below(r, NumKvBlocks * KvBlock) = 0 .. call.len - call.rows + x
        BY <1>2, <1>5, <1>13, <2>1, WholeRow DEF Data
      <3> QED BY <1>13, <2>2, <3>1 DEF Folded
    <2>4. out'[<<x, d>>] = [o |-> sum, l |-> sum]
      BY <1>11, <1>12, <1>13, <2>3
    <2>5. call' = call /\ RowScores(x)' = RowScores(x)
      BY <1>3, Frame
    <2>6. sum = SumOver(0 .. call'.len - call'.rows + x, (RowScores(x))', top)
      BY <2>3, <2>5
    <2> QED BY <2>3, <2>4, <2>6 DEF Final, SumOver
  <1>14. ASSUME NEW x \in 0 .. call.rows - 1, NEW d \in Channels, Final(x, d)
         PROVE  Final(x, d)'
    <2>1. CASE x - QRowStart \in Rows /\ Owns(w, x - QRowStart)
      <3>1. x = Row(x - QRowStart)
        <4>1. QRowStart \in Nat /\ x \in Int
          BY <1>2, <1>5, BlockFacts DEF Data
        <4> QED BY <4>1 DEF Row
      <3> QED BY <1>13, <2>1, <3>1
    <2>2. CASE ~(x - QRowStart \in Rows /\ Owns(w, x - QRowStart))
      <3>1. out'[<<x, d>>] = out[<<x, d>>]
        BY <1>11, <2>2
      <3> QED BY <1>3, <1>14, <3>1, FinalSame
    <2> QED BY <2>1, <2>2
  <1>15. OutputStands'
    <2>1. \A r : Row(r)' = Row(r)
      BY <1>3, Frame
    <2> SUFFICES ASSUME NEW x \in 0 .. call.rows - 1, NEW d \in Channels
                 PROVE  /\ x \div QBlock \notin todo \cup {block} => Final(x, d)'
                        /\ \A r \in Rows, u \in Warps :
                               block # NoBlock /\ Row(r) = x /\ Owns(u, r) /\ phase'[u] = "exit"
                               => Final(x, d)'
      BY <1>3, <2>1 DEF OutputStands, Owns
    <2>2. x \div QBlock \notin todo \cup {block} => Final(x, d)'
      BY <1>2, <1>14 DEF Data, OutputStands
    <2>3. ASSUME NEW r \in Rows, NEW u \in Warps,
                 block # NoBlock, Row(r) = x, Owns(u, r), phase'[u] = "exit"
          PROVE  Final(x, d)'
      <3>1. CASE u = w
        BY <1>13, <2>3, <3>1
      <3>2. CASE u # w
        <4>1. Final(x, d)
          BY <1>2, <1>6, <2>3, <3>2 DEF Data, OutputStands
        <4> QED BY <1>14, <4>1
      <3> QED BY <3>1, <3>2
    <2> QED BY <2>2, <2>3
  <1> QED BY <1>7, <1>8, <1>9, <1>10, <1>15 DEF Data

-----------------------------------------------------------------------------
(* The barriers, the blocks *)

\* All the warps pass a barrier together, to the phase that follows.
LEMMA SyncStep ==
    ASSUME Exact, SyncThreads
    PROVE  \E p \in SyncAfter, b \in Nat :
               /\ \A w \in Warps : /\ phase[w] = p /\ kvBlock[w] = b /\ arrived[w]
                                   /\ phase'[w] = Following(p, b)[1] /\ kvBlock'[w] = Following(p, b)[2]
                                   /\ ~arrived'[w]
               /\ block \in Nat /\ block # NoBlock
               /\ UNCHANGED <<call, todo, block, qTile, kp, vTile, s, m, l, o, out>>
  <1>1. /\ \A w, u \in Warps : arrived[w] /\ phase[w] = phase[u] /\ kvBlock[w] = kvBlock[u]
        /\ arrived' = [w \in Warps |-> FALSE]
        /\ phase' = [w \in Warps |-> Following(phase[w], kvBlock[w])[1]]
        /\ kvBlock' = [w \in Warps |-> Following(phase[w], kvBlock[w])[2]]
        /\ UNCHANGED <<call, todo, block, qTile, kp, vTile, s, m, l, o, out>>
    BY DEF SyncThreads, registers
  <1>2. Together /\ block \in Nat
    <2>1. Together
      BY <1>1, SomeWarp DEF Exact, IInv, Idle, Leaving
    <2> QED BY <2>1 DEF Exact, IInv, Types, Together
  <1>3. PICK p \in SyncAfter : \A w \in Warps : phase[w] = p
    BY <1>2 DEF Together
  <1>4. PICK b \in Nat : \A w \in Warps : kvBlock[w] = b
    <2>1. kvBlock[0] \in Nat
      BY SomeWarp DEF Exact, IInv, Types
    <2> QED BY <1>1, <2>1, SomeWarp
  <1>5. \A w \in Warps : /\ phase[w] = p /\ kvBlock[w] = b /\ arrived[w]
                         /\ phase'[w] = Following(p, b)[1] /\ kvBlock'[w] = Following(p, b)[2]
                         /\ ~arrived'[w]
    <2> SUFFICES ASSUME NEW w \in Warps
                 PROVE  /\ phase[w] = p /\ kvBlock[w] = b /\ arrived[w]
                        /\ phase'[w] = Following(p, b)[1] /\ kvBlock'[w] = Following(p, b)[2]
                        /\ ~arrived'[w]
      OBVIOUS
    <2>1. phase[w] = p /\ kvBlock[w] = b /\ arrived[w]
      BY <1>1, <1>3, <1>4
    <2>2. phase'[w] = Following(phase[w], kvBlock[w])[1] /\ kvBlock'[w] = Following(phase[w], kvBlock[w])[2]
      BY <1>1
    <2>3. ~arrived'[w]
      BY <1>1
    <2> QED BY <2>1, <2>2, <2>3
  <1>6. block # NoBlock
    BY <1>2 DEF Together
  <1> QED BY <1>1, <1>2, <1>5, <1>6

\* Each phase finds what the one before it made, all of it.
LEMMA SyncData ==
    ASSUME Exact, SyncThreads PROVE Data'
  <1>1. PICK p \in SyncAfter, b \in Nat :
            /\ \A w \in Warps : /\ phase[w] = p /\ kvBlock[w] = b /\ arrived[w]
                                /\ phase'[w] = Following(p, b)[1] /\ kvBlock'[w] = Following(p, b)[2]
                                /\ ~arrived'[w]
            /\ block \in Nat /\ block # NoBlock
            /\ UNCHANGED <<call, todo, block, qTile, kp, vTile, s, m, l, o, out>>
    BY SyncStep
  <1>2. IInv /\ Data
    BY DEF Exact
  <1>3. NumKvBlocks \in Nat /\ NumKvBlocks > 0 /\ NumKvBlocks' = NumKvBlocks
    BY <1>1, <1>2, BlockFacts, Frame DEF Data
  <1>4. /\ p \in {"load_q", "rope"} => b = 0
        /\ p \in {"load", "scores", "accumulate"} => b < NumKvBlocks
    BY <1>1, <1>2, SomeWarp DEF Data, Progress
  <1>5. PICK q, c :
            /\ Following(p, b)[1] = q /\ Following(p, b)[2] = c
            /\ \/ p = "load_q" /\ q = "rope" /\ c = b
               \/ p = "rope" /\ q = "load" /\ c = b
               \/ p = "load" /\ q = "scores" /\ c = b
               \/ p = "scores" /\ q = "accumulate" /\ c = b
               \/ p = "accumulate" /\ c = b + 1 /\ q = IF b + 1 < NumKvBlocks THEN "load" ELSE "store"
    <2>1. CASE p = "load_q"
      <3>1. Following(p, b) = <<"rope", b>>
        BY <2>1 DEF Following
      <3> QED BY <2>1, <3>1
    <2>2. CASE p = "rope"
      <3>1. Following(p, b) = <<"load", b>>
        BY <1>3, <1>4, <2>2 DEF Following
      <3> QED BY <2>2, <3>1
    <2>3. CASE p = "load"
      <3>1. Following(p, b) = <<"scores", b>>
        BY <2>3 DEF Following
      <3> QED BY <2>3, <3>1
    <2>4. CASE p = "scores"
      <3>1. Following(p, b) = <<"accumulate", b>>
        BY <2>4 DEF Following
      <3> QED BY <2>4, <3>1
    <2>5. CASE p = "accumulate"
      <3>1. Following(p, b) = <<IF b + 1 < NumKvBlocks THEN "load" ELSE "store", b + 1>>
        BY <2>5 DEF Following
      <3> QED BY <2>5, <3>1
    <2> QED BY <2>1, <2>2, <2>3, <2>4, <2>5 DEF SyncAfter
  <1>6. \A w \in Warps : /\ phase[w] = p /\ kvBlock[w] = b /\ arrived[w]
                         /\ phase'[w] = q /\ kvBlock'[w] = c /\ ~arrived'[w]
    BY <1>1, <1>5
  <1>7. Shapes'
    BY <1>1, <1>2, ShapesSame DEF Data
  <1>8. Progress'
    <2> SUFFICES ASSUME NEW w \in Warps
                 PROVE  /\ q \in {"load_q", "rope"} => c = 0
                        /\ q \in {"load", "scores", "accumulate"} => c < NumKvBlocks
                        /\ q \in {"store", "exit"} => c = NumKvBlocks
      BY <1>3, <1>6 DEF Progress
    <2> QED BY <1>3, <1>4, <1>5
  <1>9. \A r : (Query(r))' <=> Query(r)
    BY <1>1, Frame
  <1>10. QueriesStand'
    <2> SUFFICES ASSUME NEW w \in Warps, NEW r \in Rows, NEW d \in Channels, Query(r)
                 PROVE  /\ q = "rope" => qTile[<<r, d>>] = "raw"
                        /\ q \in {"load", "scores", "accumulate"} => qTile[<<r, d>>] = "rotated"
      BY <1>1, <1>6, <1>9 DEF QueriesStand, Mine
    <2>1. r \in Nat /\ d \in Nat /\ d % Half \in Nat
      <3>1. r \in Nat /\ d \in Nat
        BY Sizes DEF Rows, Channels
      <3> QED BY <3>1, Sizes, Places
    <2>2. CASE p = "load_q"
      <3>1. PICK v \in Warps : Mine(v, r * HeadDim + d)
        BY <2>1, IndexNat, MinerExists
      <3>2. qTile[<<r, d>>] = "raw"
        BY <1>2, <1>6, <2>2, <3>1 DEF Data, QueriesStand
      <3> QED BY <1>5, <2>2, <3>2
    <2>3. CASE p = "rope"
      <3>1. PICK v \in Warps : Mine(v, r * Half + (d % Half))
        BY <2>1, IndexNat, MinerExists
      <3>2. qTile[<<r, d>>] = "rotated"
        BY <1>2, <1>6, <2>3, <3>1 DEF Data, QueriesStand
      <3> QED BY <1>5, <2>3, <3>2
    <2>4. CASE p \in {"load", "scores", "accumulate"}
      <3>1. qTile[<<r, d>>] = "rotated"
        BY <1>2, <1>6, <2>4 DEF Data, QueriesStand
      <3> QED BY <1>5, <2>4, <3>1
    <2> QED BY <2>2, <2>3, <2>4 DEF SyncAfter
  <1>11. c = b => /\ \A w \in Warps : \A kt : /\ (TileKey(w, kt))' = TileKey(w, kt)
                                              /\ \A v \in Warps : TileKey(v, kt) = TileKey(w, kt)
                  /\ \A w \in Warps : \A r, kt : (Masked(w, r, kt))' <=> Masked(w, r, kt)
    <2>1. QPosFirst' = QPosFirst
      BY <1>1, Frame
    <2> QED BY <1>1, <1>6, <2>1 DEF TileKey, Masked
  <1>12. TilesStand'
    <2> SUFFICES ASSUME NEW w \in Warps, NEW kt \in TileRows, NEW d \in Channels
                 PROVE  (TileStands(w, kt, d))'
      BY DEF TilesStand
    <2>1. CASE q \in {"scores", "accumulate"}
      <3>1. TileKey(w, kt)' = TileKey(w, kt) /\ \A v \in Warps : TileKey(v, kt) = TileKey(w, kt)
        BY <1>5, <1>11, <2>1
      <3>2. /\ q = "scores" => kp[KAddr(kt, d)] = KHalf(TileKey(w, kt), d)
            /\ vTile[<<kt, d>>] = TileKey(w, kt)
        <4>1. CASE p = "load"
          <5>1. PICK v \in Warps : Mine(v, KAddr(kt, d))
            BY KeyPlace, MinerExists
          <5> QED BY <1>2, <1>6, <3>1, <4>1, <5>1 DEF Data, TilesStand, TileStands
        <4>2. CASE p = "scores"
          BY <1>2, <1>5, <1>6, <4>2 DEF Data, TilesStand, TileStands
        <4> QED BY <1>5, <2>1, <4>1, <4>2
      <3> QED BY <1>1, <1>6, <2>1, <3>1, <3>2 DEF TileStands, KAddr, Mine, KHalf
    <2>2. CASE q \notin {"scores", "accumulate"}
      BY <1>6, <2>2 DEF TileStands
    <2> QED BY <2>1, <2>2
  <1>13. ScoresStand'
    <2>1. CASE q = "accumulate"
      <3>1. p = "scores" /\ c = b
        BY <1>5, <2>1
      <3>2. /\ \A r : (Row(r))' = Row(r)
            /\ \A x : (RowScores(x))' = RowScores(x)
        BY <1>1, Frame
      <3> SUFFICES ASSUME NEW w \in Warps, NEW r \in Rows, NEW kt \in TileRows,
                          Owns(w, r), Query(r), ~Masked(w, r, kt)
                   PROVE  s[<<r, kt>>] = [key |-> TileKey(w, kt), e |-> RowScores(Row(r))[TileKey(w, kt)]]
        BY <1>1, <1>6, <1>9, <1>11, <3>1, <3>2 DEF ScoresStand, Owns
      <3> QED BY <1>2, <1>6, <3>1 DEF Data, ScoresStand
    <2>2. CASE q # "accumulate"
      BY <1>6, <2>2 DEF ScoresStand
    <2> QED BY <2>1, <2>2
  <1>14. SumsStand'
    <2>1. \A w \in Warps : (TilesOf(w))' = TilesOf(w)
      BY <1>5, <1>6 DEF TilesOf
    <2> QED BY <1>1, <1>2, <2>1, SumsSame DEF Data
  <1>15. OutputStands'
    <2>1. q # "exit"
      BY <1>5
    <2> QED BY <1>1, <1>2, <1>6, <2>1, OutputSame DEF Data
  <1> QED BY <1>7, <1>8, <1>10, <1>12, <1>13, <1>14, <1>15 DEF Data

\* A block starts with empty sums; the rows that had their results keep them.
LEMMA StartData ==
    ASSUME Exact, NEW b \in todo, StartBlock(b) PROVE Data'
  <1>1. /\ block = NoBlock /\ block' = b /\ todo' = todo \ {b}
        /\ phase' = [w \in Warps |-> "load_q"] /\ kvBlock' = [w \in Warps |-> 0]
        /\ m' = [r \in Rows |-> NegInf] /\ l' = [r \in Rows |-> NoTerms]
        /\ o' = [i \in Rows \X Channels |-> NoTerms]
        /\ UNCHANGED <<call, arrived, qTile, kp, vTile, s, out>>
    BY DEF StartBlock
  <1>2. IInv /\ Data /\ b \in Nat
    BY DEF Exact, IInv, Types
  <1>3. \A w \in Warps : phase'[w] = "load_q" /\ kvBlock'[w] = 0 /\ ~arrived'[w]
    <2>1. Idle
      BY <1>1, <1>2 DEF IInv, Together, Leaving
    <2> QED BY <1>1, <2>1 DEF Idle
  <1>4. Shapes'
    <2>1. DOMAIN o' = DOMAIN o
      BY <1>1, <1>2 DEF Data, Shapes
    <2> QED BY <1>1, <1>2, <2>1, ShapesSame DEF Data
  <1>5. Progress' /\ QueriesStand' /\ TilesStand' /\ ScoresStand'
    BY <1>3 DEF Progress, QueriesStand, TilesStand, TileStands, ScoresStand
  <1>6. SumsStand'
    <2>1. ASSUME NEW r \in Rows PROVE (Folded(r, 0))'
      <3>1. m'[r] = NegInf /\ l'[r] = NoTerms
        BY <1>1
      <3>2. ASSUME NEW d \in Channels PROVE o'[<<r, d>>] = NoTerms
        BY <1>1
      <3> QED BY <3>1, <3>2 DEF Folded, NoTerms, NegInf
    <2>2. \A w \in Warps : (TilesOf(w))' = 0
      BY <1>3 DEF TilesOf
    <2>3. ASSUME NEW r \in Rows, NEW w \in Warps PROVE (Folded(r, TilesOf(w)))'
      BY <2>1, <2>2 DEF Folded
    <2> QED BY <2>3 DEF SumsStand, Owns
  <1>7. OutputStands'
    <2> SUFFICES ASSUME NEW x \in 0 .. call.rows - 1, NEW d \in Channels,
                        x \div QBlock \notin todo' \cup {block'}
                 PROVE  (Final(x, d))'
      BY <1>1, <1>3 DEF OutputStands
    <2>1. x \div QBlock \in Nat
      <3>1. x \in Nat
        BY <1>2, CallFacts DEF Data
      <3> QED BY <3>1, Sizes, Places
    <2>2. x \div QBlock \notin todo \cup {block}
      BY <1>1, <2>1 DEF NoBlock
    <2>3. Final(x, d)
      BY <1>2, <2>2 DEF Data, OutputStands
    <2> QED BY <1>1, <2>3, FinalSame
  <1> QED BY <1>4, <1>5, <1>6, <1>7 DEF Data

\* A block ends with every row of it stored.
LEMMA EndData ==
    ASSUME Exact, EndBlock PROVE Data'
  <1>1. /\ block # NoBlock /\ block' = NoBlock
        /\ \A w \in Warps : phase[w] = "exit"
        /\ phase' = [w \in Warps |-> "idle"]
        /\ UNCHANGED <<call, todo, arrived, kvBlock, qTile, kp, vTile, s, m, l, o, out>>
    BY DEF EndBlock, registers
  <1>2. IInv /\ Data
    BY DEF Exact
  <1>3. block \in Nat
    BY <1>1, <1>2 DEF IInv, Types
  <1>4. \A w \in Warps : phase'[w] = "idle"
    BY <1>1
  <1>5. Shapes'
    BY <1>1, <1>2, ShapesSame DEF Data
  <1>6. Progress' /\ QueriesStand' /\ TilesStand' /\ ScoresStand' /\ SumsStand'
    BY <1>1, <1>4 DEF Progress, QueriesStand, TilesStand, TileStands, ScoresStand, SumsStand
  <1>7. OutputStands'
    <2> SUFFICES ASSUME NEW x \in 0 .. call.rows - 1, NEW d \in Channels, x \div QBlock \notin todo
                 PROVE  (Final(x, d))'
      BY <1>1, <1>4 DEF OutputStands
    <2>1. Final(x, d)
      <3>1. CASE x \div QBlock = block
        <4> DEFINE r == x % QBlock
        <4>1. x \in Nat
          BY <1>2, CallFacts DEF Data
        <4>2. r \in Rows /\ x = block * QBlock + r
          BY <3>1, <4>1, Sizes, Places DEF Rows
        <4> HIDE DEF r
        <4>3. Row(r) = x
          BY <4>2 DEF Row, QRowStart
        <4>4. PICK w \in Warps : Owns(w, r)
          BY <4>2, OwnerExists
        <4> QED BY <1>1, <1>2, <4>2, <4>3, <4>4 DEF Data, OutputStands
      <3>2. CASE x \div QBlock # block
        BY <1>2, <3>2 DEF Data, OutputStands
      <3> QED BY <3>1, <3>2
    <2> QED BY <1>1, <2>1, FinalSame
  <1> QED BY <1>5, <1>6, <1>7 DEF Data

\* At the launch every row is of a block still to run.
LEMMA InitData == Init => Data
  <1> SUFFICES ASSUME Init PROVE Data
    OBVIOUS
  <1>1. Shapes
    BY DEF Init, Shapes
  <1>2. block = NoBlock /\ todo = 0 .. NumBlocks - 1 /\ \A w \in Warps : phase[w] = "idle"
    BY DEF Init
  <1>3. Progress /\ QueriesStand /\ TilesStand /\ ScoresStand /\ SumsStand
    BY <1>2 DEF Progress, QueriesStand, TilesStand, TileStands, ScoresStand, SumsStand
  <1>4. ASSUME NEW x \in 0 .. call.rows - 1 PROVE x \div QBlock \in todo
    <2>1. NumBlocks \in Nat /\ call.rows <= NumBlocks * QBlock /\ NumBlocks * QBlock \in Nat
      <3>1. NumBlocks \in Nat /\ call.rows <= NumBlocks * QBlock
        BY <1>1, CallFacts, Sizes, CeilDivIs DEF NumBlocks
      <3> QED BY <3>1, Sizes, ProductNat
    <2>2. x \in Nat /\ x < NumBlocks * QBlock
      BY <1>1, <2>1, CallFacts
    <2> QED BY <1>2, <2>1, <2>2, Sizes, PlaceRow
  <1>5. OutputStands
    BY <1>2, <1>4 DEF OutputStands
  <1> QED BY <1>1, <1>3, <1>5 DEF Data

LEMMA StutterData == ASSUME Exact, UNCHANGED vars PROVE Data'
  <1>1. /\ UNCHANGED <<call, todo, block, phase, arrived, kvBlock>>
        /\ UNCHANGED <<qTile, kp, vTile, s, m, l, o, out>>
    BY DEF vars, warps, registers
  <1>2. Data
    BY DEF Exact
  <1>3. Shapes' /\ Progress'
    BY <1>1, <1>2, ShapesSame, ProgressSame DEF Data
  <1>4. QueriesStand' /\ TilesStand' /\ ScoresStand'
    BY <1>1, <1>2, QueriesSame, TilesSame, ScoresSame DEF Data
  <1>5. SumsStand'
    <2>1. \A u \in Warps : TilesOf(u)' = TilesOf(u)
      BY <1>1 DEF TilesOf
    <2> QED BY <1>1, <1>2, <2>1, SumsSame DEF Data
  <1>6. OutputStands'
    BY <1>1, <1>2, OutputSame DEF Data
  <1> QED BY <1>3, <1>4, <1>5, <1>6 DEF Data

LEMMA NextExact == Exact /\ [Next]_vars => Exact'
  <1> SUFFICES ASSUME Exact, [Next]_vars PROVE Data'
    BY NextIInv DEF Exact
  <1>1. CASE \E b \in todo : StartBlock(b)
    BY <1>1, StartData
  <1>2. ASSUME NEW w \in Warps, WarpStep(w) PROVE Data'
    BY <1>2, LoadQData, RopeData, LoadTileData, ScoresData, AccumulateData, StoreData DEF WarpStep
  <1>3. CASE SyncThreads
    BY <1>3, SyncData
  <1>4. CASE EndBlock
    BY <1>4, EndData
  <1>5. CASE UNCHANGED vars
    BY <1>5, StutterData
  <1> QED BY <1>1, <1>2, <1>3, <1>4, <1>5 DEF Next

\* Every row that has its result has the softmax of its scores.
LEMMA ExactOutput == Exact => OutputExact
  <1> SUFFICES ASSUME Exact, Done, NEW i \in DOMAIN out
      PROVE  IsSoftmax(out[i].o, out[i].l, LAMBDA k : Score(call.shape, i[1], k),
                       call.len - call.rows + i[1] + 1)
    BY DEF OutputExact
  <1>1. Data /\ block = NoBlock /\ todo = {}
    BY DEF Exact, Done
  <1>2. PICK x \in 0 .. call.rows - 1, d \in Channels : i = <<x, d>>
    BY <1>1 DEF Data, Shapes
  <1>3. x \in Nat /\ x \div QBlock \in Nat
    <2>1. x \in Nat
      BY <1>1, CallFacts DEF Data
    <2> QED BY <2>1, Sizes, Places
  <1>4. Final(x, d)
    BY <1>1, <1>3 DEF Data, OutputStands, NoBlock
  <1>5. PICK top, f, n, sum :
            /\ top \in Finite /\ f = RowScores(x) /\ n = call.len - call.rows + x + 1
            /\ sum = SumOver(0 .. n - 1, f, top)
            /\ out[i] = [o |-> sum, l |-> sum]
    <2>1. call.len - call.rows + x = (call.len - call.rows + x + 1) - 1
      BY <1>1, CallFacts DEF Data
    <2> QED BY <1>2, <1>4, <2>1 DEF Final
  <1>6. n \in 1 .. MaxSeq /\ n <= call.len
    <2>1. call.len \in Nat /\ call.len <= MaxSeq /\ call.rows \in Nat /\ x \in Nat /\ x < call.rows
      BY <1>1, CallFacts, Sizes DEF Data
    <2>2. call.rows <= call.len
      <3>1. call.rows \in 1 .. call.len
        BY <1>1, CallFacts DEF Data
      <3> QED BY <3>1
    <2>3. n = call.len - call.rows + x + 1
      BY <1>5
    <2>4. n \in Nat /\ n > 0 /\ n <= call.len
      BY <2>1, <2>2, <2>3
    <2> QED BY <2>1, <2>4, Sizes
  <1>7. \A k \in 0 .. n - 1 : k \in Keys /\ f[k] \in Finite /\ f[k] = Score(call.shape, x, k)
    <2> SUFFICES ASSUME NEW k \in 0 .. n - 1
                 PROVE  k \in Keys /\ f[k] \in Finite /\ f[k] = Score(call.shape, x, k)
      OBVIOUS
    <2>1. k \in Nat /\ k < call.len
      BY <1>1, <1>6, CallFacts DEF Data
    <2>2. k \in Keys /\ RowScores(x)[k] \in Finite
      BY <1>1, <2>1, FiniteScores DEF Data
    <2> QED BY <1>5, <2>2 DEF RowScores
  <1>8. /\ \A k \in Keys : (sum[k] # NegInf) <=> (k < n)
        /\ \A k \in 0 .. n - 1 : sum[k] - f[k] = sum[0] - f[0]
    <2>1. /\ MaxSeq \in Nat /\ n \in 1 .. MaxSeq /\ top \in Finite
          /\ \A k \in 0 .. n - 1 : f[k] \in Finite
      BY <1>5, <1>6, <1>7, Sizes
    <2>2. LET whole == SumOver(0 .. n - 1, f, top) IN
          /\ \A k \in Keys : (whole[k] # NegInf) <=> (k < n)
          /\ \A k \in 0 .. n - 1 : whole[k] - f[k] = whole[0] - f[0]
      BY <2>1, WholeSum
    <2> QED BY <1>5, <2>2
  <1>9. \A k \in 0 .. n - 1 :
            sum[k] - Score(call.shape, x, k) = sum[0] - Score(call.shape, x, 0)
    <2>1. 0 \in 0 .. n - 1
      BY <1>6, Sizes
    <2> QED BY <1>7, <1>8, <2>1
  <1>10. out[i].o = sum /\ out[i].l = sum /\ i[1] = x
    BY <1>2, <1>5
  <1> QED BY <1>5, <1>8, <1>9, <1>10 DEF IsSoftmax

\* Whatever the number of warps, the sizes of the tiles and the lengths of the
\* call, and in whatever order the warps and the blocks run, every query row of a
\* launch of flash_attention_kernel ends with exactly the softmax of its scores
\* over its own key and those before it, weighing the values of the same keys.
THEOREM SoftmaxOfTheText == Spec => []OutputExact
  <1>1. Init => Exact
    BY InitIInv, InitData DEF Exact
  <1> QED BY <1>1, NextExact, ExactOutput, PTL DEF Spec
=============================================================================
