--------------------------- MODULE FlashAttention ---------------------------
(***************************************************************************)
(* Prefill attention of one query head (flash_attention_kernel of          *)
(* production_kernels/target/attention/kernel.cu): blocks of query rows    *)
(* that stream the keys through a tile of shared memory which the          *)
(* probabilities then overwrite.                                           *)
(*                                                                         *)
(* What a warp does between two __syncthreads is one action: its lanes     *)
(* meet at every shuffle, matrix operation and __syncwarp in between.      *)
(* RaceFree is what makes that grain enough across warps.                  *)
(***************************************************************************)
EXTENDS OnlineSoftmax, FiniteSets

CONSTANTS NumWarps, RowsPerWarp, HeadDim, KvBlock,
          PStride,         \* halves between two rows of p_tile
          Calls,           \* launches: [len |-> cur_len, rows |-> seq_len, shape]
          Score(_, _, _)   \* of a shape of call: row, key -> q . k * scale

ASSUME FlashAssumption ==
    /\ {NumWarps, RowsPerWarp, HeadDim, KvBlock} \subseteq Nat \ {0}
    /\ HeadDim % 2 = 0 /\ PStride \in Nat /\ PStride >= KvBlock
    /\ \A c \in Calls :
           /\ c.len \in 1 .. MaxSeq /\ c.rows \in 1 .. c.len
           /\ \A r \in 0 .. c.rows - 1, k \in 0 .. c.len - 1 : Score(c.shape, r, k) \in Finite

VARIABLES call,
          todo, block,               \* blocks still to run; the one that runs
          phase, arrived, kvBlock,   \* per warp: where it is
          qTile, kp, vTile,          \* shared memory; kp is k_tile and p_tile
          s, m, l, o,                \* registers of the warps, by row
          out

warps == <<phase, arrived, kvBlock>>
registers == <<s, m, l, o>>
vars == <<call, todo, block, warps, qTile, kp, vTile, registers, out>>

QBlock == NumWarps * RowsPerWarp
Warps == 0 .. NumWarps - 1
Rows == 0 .. QBlock - 1
Channels == 0 .. HeadDim - 1
Half == HeadDim \div 2
TileRows == 0 .. KvBlock - 1

NoBlock == -1
Zero == -1        \* a zero-filled row of a tile

\* The items a warp takes of a loop over all the threads of the block.
Mine(w, i) == i % NumWarps = w

\* The rows of the matrix fragments a warp holds.
Owns(w, r) == r \div RowsPerWarp = w

-----------------------------------------------------------------------------
(* Shared memory of k_tile and p_tile: one array of halves *)

KAddr(kt, d) == kt * HeadDim + d
PAddr(r, kt) == r * PStride + kt

KpSize == IF KvBlock * HeadDim > QBlock * PStride
          THEN KvBlock * HeadDim ELSE QBlock * PStride

JunkHalf == [kind |-> "junk"]
KHalf(key, d) == [kind |-> "k", key |-> key, d |-> d]
PHalf(key, e) == [kind |-> "p", key |-> key, e |-> e]

-----------------------------------------------------------------------------
(* Where the rows and the keys of a block are *)

QRowStart == block * QBlock
Row(r) == QRowStart + r
QPosFirst == call.len - call.rows + QRowStart

\* Mutant: the keys of the first row only.
KvLimitOfFirstRow == IF QPosFirst + 1 < call.len THEN QPosFirst + 1 ELSE call.len

KvLimit == IF QPosFirst + QBlock < call.len THEN QPosFirst + QBlock ELSE call.len
NumKvBlocks == CeilDiv(KvLimit, KvBlock)

NumBlocks == CeilDiv(call.rows, QBlock)

UnsetSum == [k \in Keys |-> Junk]
JunkScore == [key |-> Zero, e |-> Junk]

Init ==
    /\ call \in Calls
    /\ todo = 0 .. NumBlocks - 1
    /\ block = NoBlock
    /\ phase = [w \in Warps |-> "idle"]
    /\ arrived = [w \in Warps |-> FALSE]
    /\ kvBlock = [w \in Warps |-> 0]
    /\ qTile = [i \in Rows \X Channels |-> "junk"]
    /\ kp = [a \in 0 .. KpSize - 1 |-> JunkHalf]
    /\ vTile = [i \in TileRows \X Channels |-> Zero]
    /\ s = [i \in Rows \X TileRows |-> JunkScore]
    /\ m = [r \in Rows |-> NegInf]
    /\ l = [r \in Rows |-> NoTerms]
    /\ o = [i \in Rows \X Channels |-> NoTerms]
    /\ out = [i \in (0 .. call.rows - 1) \X Channels |-> [o |-> UnsetSum, l |-> UnsetSum]]

\* A block starts with its registers cleared; its shared memory is whatever
\* the block before it left.
StartBlock(b) ==
    /\ block = NoBlock /\ b \in todo
    /\ block' = b /\ todo' = todo \ {b}
    /\ phase' = [w \in Warps |-> "load_q"]
    /\ kvBlock' = [w \in Warps |-> 0]
    /\ m' = [r \in Rows |-> NegInf]
    /\ l' = [r \in Rows |-> NoTerms]
    /\ o' = [i \in Rows \X Channels |-> NoTerms]
    /\ UNCHANGED <<call, arrived, qTile, kp, vTile, s, out>>

-----------------------------------------------------------------------------
(* The warps *)

\* Mutant: the barrier between the last use of k_tile and the first of p_tile
\* is gone.
SyncAfterButScores == {"load_q", "rope", "load", "accumulate"}

\* The phases a __syncthreads ends.
SyncAfter == {"load_q", "rope", "load", "scores", "accumulate"}

Following(p, b) ==
    CASE p = "load_q" -> <<"rope", b>>
      [] p = "rope" -> <<IF b < NumKvBlocks THEN "load" ELSE "store", b>>
      [] p = "load" -> <<"scores", b>>
      [] p = "scores" -> <<"accumulate", b>>
      [] p = "accumulate" -> <<IF b + 1 < NumKvBlocks THEN "load" ELSE "store", b + 1>>
      [] p = "store" -> <<"exit", b>>

\* Warp w finishes phase p: it waits at the barrier if there is one.
Finish(w, p) ==
    /\ phase[w] = p /\ ~arrived[w]
    /\ IF p \in SyncAfter
       THEN /\ arrived' = [arrived EXCEPT ![w] = TRUE]
            /\ UNCHANGED <<phase, kvBlock>>
       ELSE /\ phase' = [phase EXCEPT ![w] = Following(p, kvBlock[w])[1]]
            /\ kvBlock' = [kvBlock EXCEPT ![w] = Following(p, kvBlock[w])[2]]
            /\ UNCHANGED arrived
    /\ UNCHANGED <<call, todo, block>>

\* Undefined unless all warps reach the same barrier; a block that does not
\* hangs here.
SyncThreads ==
    /\ \A w, u \in Warps : arrived[w] /\ phase[w] = phase[u] /\ kvBlock[w] = kvBlock[u]
    /\ arrived' = [w \in Warps |-> FALSE]
    /\ phase' = [w \in Warps |-> Following(phase[w], kvBlock[w])[1]]
    /\ kvBlock' = [w \in Warps |-> Following(phase[w], kvBlock[w])[2]]
    /\ UNCHANGED <<call, todo, block, qTile, kp, vTile, registers, out>>

\* Rows past the end of the queries are filled with zeros.
LoadQ(w) ==
    /\ Finish(w, "load_q")
    /\ qTile' = [i \in DOMAIN qTile |->
                    IF ~Mine(w, i[1] * HeadDim + i[2]) THEN qTile[i]
                    ELSE IF Row(i[1]) < call.rows THEN "raw" ELSE "zero"]
    /\ UNCHANGED <<kp, vTile, registers, out>>

\* rotate_half mixes channel d with d + D/2, in place; a zero row is skipped.
Rope(w) ==
    /\ Finish(w, "rope")
    /\ qTile' = [i \in DOMAIN qTile |->
                    LET d == i[2] % Half IN
                    IF ~Mine(w, i[1] * Half + d) \/ Row(i[1]) >= call.rows THEN qTile[i]
                    ELSE IF qTile[<<i[1], d>>] = "raw" /\ qTile[<<i[1], d + Half>>] = "raw"
                    THEN "rotated" ELSE "junk"]
    /\ UNCHANGED <<kp, vTile, registers, out>>

TileKey(w, kt) ==
    LET k == kvBlock[w] * KvBlock + kt IN IF k < call.len THEN k ELSE Zero

LoadTile(w) ==
    /\ Finish(w, "load")
    /\ kp' = [a \in DOMAIN kp |->
                 IF a < KvBlock * HeadDim /\ Mine(w, a)
                 THEN KHalf(TileKey(w, a \div HeadDim), a % HeadDim) ELSE kp[a]]
    /\ vTile' = [i \in DOMAIN vTile |->
                    IF Mine(w, i[1] * HeadDim + i[2]) THEN TileKey(w, i[1]) ELSE vTile[i]]
    /\ UNCHANGED <<qTile, registers, out>>

\* A row that is not stored has score 0 with every key it is given.
Dot(r, kt) ==
    LET half == kp[KAddr(kt, 0)] IN
    IF half.kind = "k" /\ \A d \in Channels : kp[KAddr(kt, d)] = KHalf(half.key, d)
    THEN IF half.key = Zero \/ \A d \in Channels : qTile[<<r, d>>] = "zero"
         THEN [key |-> half.key, e |-> 0]
         ELSE IF \A d \in Channels : qTile[<<r, d>>] = "rotated"
         THEN [key |-> half.key, e |-> Score(call.shape, Row(r), half.key)]
         ELSE JunkScore
    ELSE JunkScore

\* S = Q K^T, into registers: k_tile is dead after the barrier that follows.
Scores(w) ==
    /\ Finish(w, "scores")
    /\ s' = [i \in DOMAIN s |-> IF Owns(w, i[1]) THEN Dot(i[1], i[2]) ELSE s[i]]
    /\ UNCHANGED <<qTile, kp, vTile, m, l, o, out>>

Masked(w, r, kt) ==
    LET kPos == kvBlock[w] * KvBlock + kt
    IN  kPos > QPosFirst + r \/ kPos >= call.len

\* The scores of row r that take part.
Seen(w, r) == [kt \in TileRows |-> IF Masked(w, r, kt) THEN [key |-> Zero, e |-> NegInf]
                                   ELSE s[<<r, kt>>]]

NewMax(w, r) ==
    LET es == {Seen(w, r)[kt].e : kt \in TileRows} \cup {m[r]}
    IN  CHOOSE e \in es : \A f \in es : e >= f

Prob(w, r, kt) ==
    LET x == Seen(w, r)[kt]
    IN  IF x.e = NegInf THEN PHalf(Zero, NegInf) ELSE PHalf(x.key, x.e - NewMax(w, r))

Alpha(w, r) == Factor(m[r], NewMax(w, r))

\* The sum of a tile: each key k has the term of its place in it.
TileSum(w, r, term) ==
    [k \in Keys |->
        LET mine == {kt \in TileRows : Prob(w, r, kt).key = k}
        IN  IF mine = {} THEN NegInf
            ELSE IF Cardinality(mine) = 1 THEN term[CHOOSE kt \in mine : TRUE] ELSE Junk]

\* The p_tile a warp reads back for its matrix product is what it wrote, and
\* the value a probability weighs must be of its key.
Weight(w, r, d, kt) ==
    IF vTile[<<kt, d>>] = Prob(w, r, kt).key THEN Prob(w, r, kt).e ELSE Junk

\* Masks, updates the running softmax of its rows, writes their probabilities
\* over k_tile and adds P V.
Accumulate(w) ==
    /\ Finish(w, "accumulate")
    /\ m' = [r \in Rows |-> IF Owns(w, r) THEN NewMax(w, r) ELSE m[r]]
    /\ l' = [r \in Rows |-> IF Owns(w, r)
                THEN Plus(Scale(l[r], Alpha(w, r)), TileSum(w, r, [kt \in TileRows |-> Prob(w, r, kt).e]))
                ELSE l[r]]
    /\ o' = [i \in DOMAIN o |-> IF Owns(w, i[1])
                THEN Plus(Scale(o[i], Alpha(w, i[1])),
                          TileSum(w, i[1], [kt \in TileRows |-> Weight(w, i[1], i[2], kt)]))
                ELSE o[i]]
    /\ kp' = [a \in DOMAIN kp |->
                 LET r == a \div PStride
                     kt == a % PStride
                 IN  IF r \in Rows /\ Owns(w, r) /\ kt < KvBlock THEN Prob(w, r, kt) ELSE kp[a]]
    /\ UNCHANGED <<qTile, vTile, s, out>>

\* Normalizes its rows by l and stores those that are queries.
Store(w) ==
    /\ Finish(w, "store")
    /\ out' = [i \in DOMAIN out |->
                  LET r == i[1] - QRowStart
                  IN  IF r \in Rows /\ Owns(w, r) THEN [o |-> o[<<r, i[2]>>], l |-> l[r]]
                      ELSE out[i]]
    /\ UNCHANGED <<qTile, kp, vTile, registers>>

EndBlock ==
    /\ block # NoBlock
    /\ \A w \in Warps : phase[w] = "exit"
    /\ block' = NoBlock
    /\ phase' = [w \in Warps |-> "idle"]
    /\ UNCHANGED <<call, todo, arrived, kvBlock, qTile, kp, vTile, registers, out>>

-----------------------------------------------------------------------------
WarpStep(w) ==
    \/ LoadQ(w) \/ Rope(w) \/ LoadTile(w) \/ Scores(w) \/ Accumulate(w) \/ Store(w)

Next ==
    \/ \E b \in todo : StartBlock(b)
    \/ \E w \in Warps : WarpStep(w)
    \/ SyncThreads
    \/ EndBlock

Spec == Init /\ [][Next]_vars

-----------------------------------------------------------------------------
(* Properties *)

Done == block = NoBlock /\ todo = {}

\* Every query row of the call, in whatever block, ends with exactly the
\* softmax of its scores over its own key and those before it, weighing the
\* values of the same keys: fused_attn_forward computes causal attention.
OutputExact ==
    Done => \A i \in DOMAIN out :
                IsSoftmax(out[i].o, out[i].l, LAMBDA k : Score(call.shape, i[1], k),
                          call.len - call.rows + i[1] + 1)

\* The words of shared memory a warp touches in the phase it is in.
Words(name, n) == {<<name, i>> : i \in 0 .. n - 1}
SliceOf(w, name, n) == {<<name, i>> : i \in {j \in 0 .. n - 1 : Mine(w, j)}}
QOf(w) == {<<"q", r * HeadDim + d>> : r \in {x \in Rows : Owns(w, x)}, d \in Channels}
POf(w) == {<<"kp", PAddr(r, kt)>> : r \in {x \in Rows : Owns(w, x)}, kt \in TileRows}

Writes(w) ==
    CASE phase[w] = "load_q" -> SliceOf(w, "q", QBlock * HeadDim)
      [] phase[w] = "rope" -> {<<"q", i>> : i \in {j \in 0 .. QBlock * HeadDim - 1 :
                Mine(w, (j \div HeadDim) * Half + ((j % HeadDim) % Half))}}
      [] phase[w] = "load" -> SliceOf(w, "kp", KvBlock * HeadDim) \cup SliceOf(w, "v", KvBlock * HeadDim)
      [] phase[w] = "accumulate" -> POf(w)
      [] OTHER -> {}

Reads(w) ==
    CASE phase[w] = "scores" -> QOf(w) \cup Words("kp", KvBlock * HeadDim)
      [] phase[w] = "accumulate" -> POf(w) \cup Words("v", KvBlock * HeadDim)
      [] OTHER -> {}

\* Two warps that may run at the same time never touch the same word of shared
\* memory unless both only read it: no probability lands on a key another warp
\* still multiplies, no key on a probability.  And a warp never waits at a barrier
\* that another one waits past or has left the kernel without.
RaceFree ==
    \A w, u \in Warps :
        /\ w # u /\ ~arrived[w] /\ ~arrived[u] =>
               Writes(w) \cap (Reads(u) \cup Writes(u)) = {}
        /\ arrived[w] => phase[u] # "exit"
        /\ arrived[w] /\ arrived[u] => phase[w] = phase[u] /\ kvBlock[w] = kvBlock[u]
=============================================================================
