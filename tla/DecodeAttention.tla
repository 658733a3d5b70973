--------------------------- MODULE DecodeAttention ---------------------------
(***************************************************************************)
(* Decode and verify attention of one query head (the small-query kernels  *)
(* of production_kernels/target/attention/kernel.cu): split-KV blocks that *)
(* stream their part of the cache through shared memory, and the kernel    *)
(* that combines their partial results, or the single block of a short     *)
(* context.                                                                *)
(*                                                                         *)
(* What a thread does between two __syncthreads is one action; RaceFree    *)
(* is what makes that grain enough.  Blocks write nothing another block    *)
(* touches, so they run one after the other here, in any order.            *)
(***************************************************************************)
EXTENDS OnlineSoftmax, FiniteSets

CONSTANTS NumThreads, HeadDim, KvTile,
          Calls,           \* launches: [len, rows, dev, shape]
          Score(_, _, _),  \* of a shape of call: row, key -> q . k * scale
          DesiredSplits,   \* ceil(TARGET_BLOCKS / heads)
          MinSplitLen, MaxSplits

ASSUME DecodeAssumption ==
    /\ {NumThreads, HeadDim, KvTile, MinSplitLen, DesiredSplits, MaxSplits}
           \subseteq Nat \ {0}
    /\ HeadDim % 2 = 0
    /\ \A c \in Calls : /\ c.len \in 1 .. MaxSeq /\ c.rows \in 1 .. c.len
                        /\ c.rows <= NumThreads /\ c.rows <= HeadDim
                        /\ \A r \in 0 .. c.rows - 1, k \in 0 .. c.len - 1 :
                               Score(c.shape, r, k) \in Finite

VARIABLES call,
          todo, split,              \* blocks still to run; the one that runs
          phase, arrived, tile0,    \* per thread: where it is
          qSh, kSh, vSh, scores,    \* shared memory of the block
          mSh, lSh, corrSh, acc,
          partial,                  \* scratch of the splits
          mRed, lRed,               \* shared memory of the combine block
          out

threads == <<phase, arrived, tile0>>
shared == <<qSh, kSh, vSh, scores, mSh, lSh, corrSh, acc>>
vars == <<call, todo, split, threads, shared, partial, mRed, lRed, out>>

Threads == 0 .. NumThreads - 1
Channels == 0 .. HeadDim - 1
Half == HeadDim \div 2
TileRows == 0 .. KvTile - 1
Rows == 0 .. call.rows - 1

Zero == -1            \* a zero-filled row of the tile
NoKey == -2           \* uninitialized shared memory
Combine == -1         \* the combine block, after every split
NoBlock == -2

\* The items i, i + NumThreads, ... of a grid-stride loop over n.
Mine(t, i) == i % NumThreads = t

-----------------------------------------------------------------------------
(* The host *)

Clamp(x, lo, hi) == IF x < lo THEN lo ELSE IF x > hi THEN hi ELSE x

ChooseNumSplits(len) ==
    LET byLen == CeilDiv(len, MinSplitLen)
    IN  Clamp(IF DesiredSplits < byLen THEN DesiredSplits ELSE byLen, 1, MaxSplits)

\* A captured launch cannot depend on cur_len.
NumSplits == ChooseNumSplits(IF call.dev THEN MaxSeq ELSE call.len)

\* Mutant: the tail of the cache is left out.
SplitLenFloor == KvTile * CeilDiv(call.len \div NumSplits, KvTile)

SplitLen == KvTile * CeilDiv(CeilDiv(call.len, NumSplits), KvTile)

KvStart == split * SplitLen

KvEnd == IF KvStart + SplitLen < call.len THEN KvStart + SplitLen ELSE call.len

JunkScore == [key |-> NoKey, e |-> Junk]
UnsetSum == [k \in Keys |-> Junk]
Unset == [m |-> Junk, l |-> UnsetSum, acc |-> [d \in Channels |-> UnsetSum]]

\* Shared memory as a block finds it.
FreshBlock ==
    /\ phase' = [t \in Threads |-> "load_q"]
    /\ arrived' = [t \in Threads |-> FALSE]
    /\ tile0' = [t \in Threads |-> 0]
    /\ qSh' = [i \in Rows \X Channels |-> "junk"]
    /\ kSh' = [i \in TileRows \X Channels |-> NoKey]
    /\ vSh' = [i \in TileRows \X Channels |-> NoKey]
    /\ scores' = [i \in Rows \X TileRows |-> JunkScore]
    /\ mSh' = [r \in Rows |-> Junk]
    /\ lSh' = [r \in Rows |-> UnsetSum]
    /\ corrSh' = [r \in Rows |-> Junk]
    /\ acc' = [i \in Rows \X Channels |-> UnsetSum]

Init ==
    /\ call \in Calls
    /\ todo = 0 .. NumSplits - 1
    /\ split = NoBlock
    /\ phase = <<>> /\ arrived = <<>> /\ tile0 = <<>>
    /\ qSh = <<>> /\ kSh = <<>> /\ vSh = <<>> /\ scores = <<>>
    /\ mSh = <<>> /\ lSh = <<>> /\ corrSh = <<>> /\ acc = <<>>
    /\ partial = [s \in 0 .. NumSplits - 1 |-> [r \in Rows |-> Unset]]
    /\ mRed = [r \in Rows |-> Junk] /\ lRed = [r \in Rows |-> UnsetSum]
    /\ out = [i \in Rows \X Channels |-> [acc |-> UnsetSum, l |-> UnsetSum]]

StartBlock(s) ==
    /\ split = NoBlock /\ s \in todo
    /\ split' = s /\ todo' = todo \ {s}
    /\ FreshBlock
    /\ UNCHANGED <<call, partial, mRed, lRed, out>>

-----------------------------------------------------------------------------
(* A block of decode_attn_split_kernel, or of decode_attn_kernel when there *)
(* is one split                                                             *)

\* Mutant: no barrier after the last use of a tile.
SyncAfterButLast == {"load_q", "rope", "load", "score", "softmax", "reduce"}

\* The phases a __syncthreads ends.
SyncAfter == {"load_q", "rope", "load", "score", "softmax", "accumulate", "reduce"}

\* Where a thread goes after a phase, and with which tile.
Following(p, tile) ==
    CASE p = "load_q" -> <<"rope", tile>>
      [] p = "rope" -> <<IF KvStart < KvEnd THEN "load" ELSE "write", KvStart>>
      [] p = "load" -> <<"score", tile>>
      [] p = "score" -> <<"softmax", tile>>
      [] p = "softmax" -> <<"accumulate", tile>>
      [] p = "accumulate" ->
            <<IF tile + KvTile < KvEnd THEN "load" ELSE "write", tile + KvTile>>
      [] p = "reduce" -> <<"merge", tile>>
      [] OTHER -> <<"exit", tile>>

\* Thread t finishes phase p: it waits at the barrier if there is one.
Finish(t, p) ==
    /\ phase[t] = p /\ ~arrived[t]
    /\ IF p \in SyncAfter
       THEN /\ arrived' = [arrived EXCEPT ![t] = TRUE]
            /\ UNCHANGED <<phase, tile0>>
       ELSE /\ phase' = [phase EXCEPT ![t] = Following(p, tile0[t])[1]]
            /\ tile0' = [tile0 EXCEPT ![t] = Following(p, tile0[t])[2]]
            /\ UNCHANGED arrived
    /\ UNCHANGED <<call, todo, split>>

\* Undefined unless all threads reach the same barrier; a block that does not
\* hangs here.
SyncThreads ==
    /\ split # NoBlock
    /\ \A t, u \in DOMAIN arrived :
           arrived[t] /\ phase[t] = phase[u] /\ tile0[t] = tile0[u]
    /\ arrived' = [t \in DOMAIN arrived |-> FALSE]
    /\ phase' = [t \in DOMAIN phase |-> Following(phase[t], tile0[t])[1]]
    /\ tile0' = [t \in DOMAIN tile0 |-> Following(phase[t], tile0[t])[2]]
    /\ UNCHANGED <<call, todo, split, shared, partial, mRed, lRed, out>>

LoadQ(t) ==
    /\ Finish(t, "load_q")
    /\ qSh' = [i \in DOMAIN qSh |-> IF Mine(t, i[1] * HeadDim + i[2]) THEN "raw" ELSE qSh[i]]
    /\ acc' = [i \in DOMAIN acc |-> IF Mine(t, i[1] * HeadDim + i[2]) THEN NoTerms ELSE acc[i]]
    /\ mSh' = [r \in Rows |-> IF r = t THEN NegInf ELSE mSh[r]]
    /\ lSh' = [r \in Rows |-> IF r = t THEN NoTerms ELSE lSh[r]]
    /\ UNCHANGED <<kSh, vSh, scores, corrSh, partial, mRed, lRed, out>>

\* rotate_half mixes channel d with d + D/2, in place.
Rope(t) ==
    /\ Finish(t, "rope")
    /\ qSh' = [i \in DOMAIN qSh |->
                  LET d == i[2] % Half IN
                  IF ~Mine(t, i[1] * Half + d) THEN qSh[i]
                  ELSE IF qSh[<<i[1], d>>] = "raw" /\ qSh[<<i[1], d + Half>>] = "raw"
                  THEN "rotated" ELSE "junk"]
    /\ UNCHANGED <<kSh, vSh, scores, mSh, lSh, corrSh, acc, partial, mRed, lRed, out>>

\* The cache row a tile row holds.
TileKey(t, kt) == IF tile0[t] + kt < KvEnd THEN tile0[t] + kt ELSE Zero

LoadTile(t) ==
    LET Loaded(sh) == [i \in DOMAIN sh |->
                          IF Mine(t, i[1] * HeadDim + i[2]) THEN TileKey(t, i[1]) ELSE sh[i]]
    IN  /\ Finish(t, "load")
        /\ kSh' = Loaded(kSh) /\ vSh' = Loaded(vSh)
        /\ UNCHANGED <<qSh, scores, mSh, lSh, corrSh, acc, partial, mRed, lRed, out>>

Masked(r, kpos) == kpos > call.len - call.rows + r \/ kpos >= KvEnd

Dot(r, kt) ==
    LET k == kSh[<<kt, 0>>] IN
    IF /\ \A d \in Channels : qSh[<<r, d>>] = "rotated" /\ kSh[<<kt, d>>] = k
       /\ k \in Keys
    THEN [key |-> k, e |-> Score(call.shape, r, k)]
    ELSE JunkScore

Scores(t) ==
    /\ Finish(t, "score")
    /\ scores' = [i \in DOMAIN scores |->
                     IF ~Mine(t, i[1] * KvTile + i[2]) THEN scores[i]
                     ELSE IF Masked(i[1], tile0[t] + i[2]) THEN [key |-> Zero, e |-> NegInf]
                     ELSE Dot(i[1], i[2])]
    /\ UNCHANGED <<qSh, kSh, vSh, mSh, lSh, corrSh, acc, partial, mRed, lRed, out>>

\* The terms of a row's tile: scores[r][kt] of the keys it is not masked for.
TileMax(r) ==
    LET es == {scores[<<r, kt>>].e : kt \in TileRows}
    IN  CHOOSE e \in es : \A f \in es : e >= f

\* corr * l + the probabilities of the tile, each of a key of its own.
RowSum(l, corr, probs) ==
    Plus(Scale(l, corr),
         [k \in Keys |-> IF \E kt \in TileRows : probs[kt].key = k
                         THEN (CHOOSE p \in {probs[kt] : kt \in TileRows} : p.key = k).e
                         ELSE NegInf])

\* Thread r updates row r, overwriting its scores with probabilities.
Softmax(t) ==
    /\ Finish(t, "softmax")
    /\ IF t \notin Rows THEN UNCHANGED <<scores, mSh, lSh, corrSh>>
       ELSE LET new == Larger(mSh[t], TileMax(t))
                Prob(s) == IF s.e = NegInf \/ new = NegInf THEN [key |-> Zero, e |-> NegInf]
                           ELSE [s EXCEPT !.e = @ - new]
                probs == [kt \in TileRows |-> Prob(scores[<<t, kt>>])]
            IN  /\ scores' = [i \in DOMAIN scores |->
                                 IF i[1] = t THEN probs[i[2]] ELSE scores[i]]
                /\ mSh' = [mSh EXCEPT ![t] = new]
                /\ corrSh' = [corrSh EXCEPT ![t] = Factor(mSh[t], new)]
                /\ lSh' = [lSh EXCEPT ![t] = RowSum(@, Factor(mSh[t], new), probs)]
    /\ UNCHANGED <<qSh, kSh, vSh, acc, partial, mRed, lRed, out>>

\* P @ V for one row and channel: a probability and the value it weighs must
\* be of the same key, and no key may come twice.
Weighted(r, d) ==
    [k \in Keys |->
        LET mine == {kt \in TileRows : scores[<<r, kt>>].key = k}
        IN  IF mine = {} THEN NegInf
            ELSE IF Cardinality(mine) = 1 /\ \A kt \in mine : vSh[<<kt, d>>] = k
            THEN scores[<<r, CHOOSE kt \in mine : TRUE>>].e
            ELSE Junk]

Accumulate(t) ==
    /\ Finish(t, "accumulate")
    /\ acc' = [i \in DOMAIN acc |->
                  IF Mine(t, i[2]) THEN Plus(Scale(acc[i], corrSh[i[1]]), Weighted(i[1], i[2]))
                  ELSE acc[i]]
    /\ UNCHANGED <<qSh, kSh, vSh, scores, mSh, lSh, corrSh, partial, mRed, lRed, out>>

\* The single block of a short context normalizes and writes the output.
WriteOut(t) ==
    /\ NumSplits = 1
    /\ Finish(t, "write")
    /\ out' = [i \in DOMAIN out |->
                  IF Mine(t, i[1] * HeadDim + i[2]) THEN [acc |-> acc[i], l |-> lSh[i[1]]]
                  ELSE out[i]]
    /\ UNCHANGED <<shared, partial, mRed, lRed>>

\* A block of several writes what it has, unnormalized.
WritePartial(t) ==
    /\ NumSplits > 1
    /\ Finish(t, "write")
    /\ partial' = [partial EXCEPT ![split] = [r \in Rows |->
                          [m |-> IF r = t THEN mSh[r] ELSE @[r].m,
                           l |-> IF r = t THEN lSh[r] ELSE @[r].l,
                           acc |-> [d \in Channels |->
                                       IF Mine(t, r * HeadDim + d) THEN acc[<<r, d>>]
                                       ELSE @[r].acc[d]]]]]
    /\ UNCHANGED <<shared, mRed, lRed, out>>

EndBlock ==
    /\ split \in 0 .. NumSplits - 1
    /\ \A t \in Threads : phase[t] = "exit"
    /\ split' = IF todo = {} THEN (IF NumSplits > 1 THEN Combine ELSE NoBlock)
                ELSE NoBlock
    /\ IF split' = Combine
       THEN /\ phase' = [t \in Channels |-> "reduce"]
            /\ arrived' = [t \in Channels |-> FALSE]
            /\ tile0' = [t \in Channels |-> 0]
       ELSE UNCHANGED threads
    /\ UNCHANGED <<call, todo, shared, partial, mRed, lRed, out>>

-----------------------------------------------------------------------------
(* decode_attn_combine_kernel: one lane per channel *)

\* The sum over the splits of exp(m_i - m) times the part each has.
Merged(r, m, part) ==
    [k \in Keys |->
        LET with == {s \in DOMAIN partial : partial[s][r].m # NegInf /\ part[s][k] # NegInf}
        IN  IF with = {} THEN NegInf
            ELSE IF Cardinality(with) > 1 THEN Junk
            ELSE LET s == CHOOSE x \in with : TRUE
                 IN  part[s][k] + (partial[s][r].m - m)]

Reduce(t) ==
    /\ Finish(t, "reduce")
    /\ IF t \notin Rows THEN UNCHANGED <<mRed, lRed>>
       ELSE LET ms == {partial[s][t].m : s \in DOMAIN partial}
                m == CHOOSE x \in ms : \A y \in ms : x >= y
            IN  /\ mRed' = [mRed EXCEPT ![t] = m]
                /\ lRed' = [lRed EXCEPT ![t] = Merged(t, m, [s \in DOMAIN partial |-> partial[s][t].l])]
    /\ UNCHANGED <<shared, partial, out>>

Merge(t) ==
    /\ Finish(t, "merge")
    /\ out' = [i \in DOMAIN out |->
                  IF i[2] = t
                  THEN [acc |-> Merged(i[1], mRed[i[1]],
                                       [s \in DOMAIN partial |-> partial[s][i[1]].acc[t]]),
                        l |-> lRed[i[1]]]
                  ELSE out[i]]
    /\ UNCHANGED <<shared, partial, mRed, lRed>>

EndCombine ==
    /\ split = Combine
    /\ \A t \in Channels : phase[t] = "exit"
    /\ split' = NoBlock
    /\ UNCHANGED <<call, todo, threads, shared, partial, mRed, lRed, out>>

-----------------------------------------------------------------------------
ThreadStep(t) ==
    \/ LoadQ(t) \/ Rope(t) \/ LoadTile(t) \/ Scores(t) \/ Softmax(t) \/ Accumulate(t)
    \/ WriteOut(t) \/ WritePartial(t) \/ Reduce(t) \/ Merge(t)

Next ==
    \/ \E s \in todo : StartBlock(s)
    \/ \E t \in DOMAIN phase : ThreadStep(t)
    \/ SyncThreads
    \/ EndBlock
    \/ EndCombine

Spec == Init /\ [][Next]_vars

-----------------------------------------------------------------------------
(* Properties *)

Done == split = NoBlock /\ todo = {} /\ phase # <<>>

\* The output of every row is exactly the softmax of its scores over its own
\* key and those before it, weighing the values of the same keys, however the
\* cache was split: decode_attn_forward computes causal attention.
OutputExact ==
    Done => \A i \in Rows \X Channels :
                IsSoftmax(out[i].acc, out[i].l, LAMBDA k : Score(call.shape, i[1], k),
                          call.len - call.rows + i[1] + 1)

\* What a thread reads and writes in the phase it is in.
SliceOf(t, n, name) == {<<name, i>> : i \in {j \in 0 .. n - 1 : Mine(t, j)}}
AllOf(n, name) == {<<name, i>> : i \in 0 .. n - 1}
RowOf(t, name) == IF t \in Rows THEN {<<name, t>>} ELSE {}
ScoresOf(t) == IF t \in Rows THEN {<<"scores", t * KvTile + kt>> : kt \in TileRows} ELSE {}
AccOf(t) == {<<"acc", r * HeadDim + d>> : r \in Rows, d \in {c \in Channels : Mine(t, c)}}

Writes(t) ==
    CASE phase[t] = "load_q" -> SliceOf(t, call.rows * HeadDim, "q")
            \cup SliceOf(t, call.rows * HeadDim, "acc") \cup RowOf(t, "m") \cup RowOf(t, "l")
      [] phase[t] = "rope" -> {<<"q", i>> : i \in {j \in 0 .. call.rows * HeadDim - 1 :
            Mine(t, (j \div HeadDim) * Half + ((j % HeadDim) % Half))}}
      [] phase[t] = "load" -> SliceOf(t, KvTile * HeadDim, "k") \cup SliceOf(t, KvTile * HeadDim, "v")
      [] phase[t] = "score" -> SliceOf(t, call.rows * KvTile, "scores")
      [] phase[t] = "softmax" ->
            ScoresOf(t) \cup RowOf(t, "m") \cup RowOf(t, "l") \cup RowOf(t, "corr")
      [] phase[t] = "accumulate" -> AccOf(t)
      [] phase[t] = "reduce" -> RowOf(t, "mred") \cup RowOf(t, "lred")
      [] OTHER -> {}

Reads(t) ==
    CASE phase[t] = "score" -> AllOf(call.rows * HeadDim, "q") \cup AllOf(KvTile * HeadDim, "k")
      [] phase[t] = "accumulate" ->
            AllOf(call.rows * KvTile, "scores") \cup AllOf(call.rows, "corr")
            \cup {<<"v", kt * HeadDim + d>> : kt \in TileRows, d \in {c \in Channels : Mine(t, c)}}
      [] phase[t] = "write" -> AllOf(call.rows, "m") \cup AllOf(call.rows, "l")
            \cup SliceOf(t, call.rows * HeadDim, "acc")
      [] phase[t] = "merge" -> AllOf(call.rows, "mred") \cup AllOf(call.rows, "lred")
      [] OTHER -> {}

\* Two threads that may run at the same time never touch the same word of
\* shared memory unless both only read it; and a thread never waits at a barrier
\* that another one waits past or has left the kernel without.
RaceFree ==
    \A t, u \in DOMAIN phase :
        /\ t # u /\ ~arrived[t] /\ ~arrived[u] =>
               Writes(t) \cap (Reads(u) \cup Writes(u)) = {}
        /\ arrived[t] => phase[u] # "exit"
        /\ arrived[t] /\ arrived[u] => phase[t] = phase[u] /\ tile0[t] = tile0[u]
=============================================================================
