--------------------------- MODULE DecoderForward ---------------------------
(***************************************************************************)
(* One forward of the runtime, from token ids to logits, operation by      *)
(* operation (runtime/executor.py _run_attention ... decode_step): the     *)
(* stacked projections and their split, the rotary tables, the kernel that *)
(* rotates and scatters keys and values into the cache, the attention      *)
(* kernel each mode picks and how far it looks, the configured order of a  *)
(* layer's steps, and what the kernels refuse.  The same actions run on    *)
(* the Hugging Face engine, for the cached generation of the baselines.    *)
(*                                                                         *)
(* abs is the executor as KVExecutor, and with it SpecDecode, sees it:     *)
(* the text of each slot.  It takes KVExecutor's steps, and every row and  *)
(* slot computed here has to be the reference's for the text abs gives it. *)
(***************************************************************************)
EXTENDS Qwen2Reference, KernelContract

CONSTANTS Token, NoToken,
          Launches,    \* engine, configuration, layer order, batch and buffer length,
                       \* and the tokens, prompt and draft lengths, layers and paths tried
          VecLanes     \* elements the kernel copies of V at once

VARIABLES launch,
          e,           \* the executor: cursor, its device copy, the cache of each layer, p_1
          past,        \* the Hugging Face cache
          abs,         \* the executor, or the cache, as KVExecutor has it
          out,         \* the last forward: logits, their texts, the rows after each layer
          refused      \* why a forward was given up

vars == <<launch, e, past, abs, out, refused>>

Kv == INSTANCE KVExecutor

MAX_VERIFY_GAMMA == 8

LayerOrder ==
    <<"input_rmsnorm", "attention", "residual_add", "post_attn_rmsnorm", "swiglu_mlp", "residual_add">>

Empty == <<>>           \* None, where rows are optional; the zeros of a slot
Garbage == <<"garbage">>

-----------------------------------------------------------------------------
(* The rotary tables and the scatter into the cache *)

\* Row p of the tables: the frequencies at p, twice.
BuildRopeTables(maxSeq) == [p \in 0 .. maxSeq - 1 |-> [d \in Lanes |-> <<p, d % Half>>]]

RopeRows(maxSeq, start, n) == [s \in 0 .. n - 1 |-> BuildRopeTables(maxSeq)[start + s]]

(***************************************************************************)
(* rope_kv_write_kernel, one block per key-value head (batch 1).  Source   *)
(* and destination are flat: [head, row, lane] and [head, slot, lane].     *)
(***************************************************************************)
WrittenK(maxSeq, n, writePos, cos) ==
    UNION {LET s == i \div Half  d == i % Half
               koff == bh * n * HeadLanes + s * HeadLanes
               doff == bh * maxSeq * HeadLanes + writePos * HeadLanes + s * HeadLanes
               x0 == koff + d  x1 == koff + d + Half
               angle == cos[s][d]
           IN  {<<doff + d, {<<"plus", x0, "cos", angle>>, <<"minus", x1, "sin", angle>>}>>,
                <<doff + d + Half, {<<"plus", x1, "cos", angle>>, <<"plus", x0, "sin", angle>>}>>} :
           <<bh, i>> \in KvHeads \X (0 .. n * Half - 1)}

\* Mutant: the destination is computed as if the cache held the new rows only.
WrittenVPacked(maxSeq, n, writePos) ==
    LET vecs == HeadLanes \div VecLanes
    IN  {<<bh * n * vecs + writePos * vecs + i, bh * n * vecs + i>> :
             <<bh, i>> \in KvHeads \X (0 .. n * vecs - 1)}

\* Vectors of V are copied.
WrittenV(maxSeq, n, writePos) ==
    LET vecs == HeadLanes \div VecLanes
    IN  {<<bh * maxSeq * vecs + writePos * vecs + i, bh * n * vecs + i>> :
             <<bh, i>> \in KvHeads \X (0 .. n * vecs - 1)}

\* The writes to each [head, slot] row of a cache whose rows have `width` places.
RowOf(maxSeq, width, dest) == <<dest \div (maxSeq * width), (dest \div width) % maxSeq>>
WritesTo(writes, maxSeq, width, at) ==
    {<<w[1] % width, w[2]>> : w \in {x \in writes : RowOf(maxSeq, width, x[1]) = at}}
Touched(writes, maxSeq, width) == {RowOf(maxSeq, width, w[1]) : w \in writes}

\* A touched row of the K cache: the source row that arrived there whole and
\* rotated as the reference rotates it, if there is one.
KRows(writes, maxSeq, n, cos, new) ==
    LET Position(src) == cos[src[2]][0][1]
        Expected(src) ==
            LET lanes == [d \in Lanes |-> (src[1] * n + src[2]) * HeadLanes + d]
                rotated == ApplyRotaryPosEmb(lanes, RotaryEmbedding(Position(src)))
            IN  {<<d, rotated[d]>> : d \in Lanes}
        expected == {<<src, Expected(src)>> : src \in KvHeads \X (0 .. n - 1)}
        Arrived(at) ==
            LET got == WritesTo(writes, maxSeq, HeadLanes, at)
            IN  {x[1] : x \in {y \in expected : y[2] = got}}
    IN  [at \in Touched(writes, maxSeq, HeadLanes) |->
            IF Arrived(at) = {} THEN Garbage
            ELSE LET src == CHOOSE y \in Arrived(at) : TRUE IN Rotated(Position(src), new[src])]

VRows(writes, maxSeq, n, new) ==
    LET vecs == HeadLanes \div VecLanes
        Arrived(at) ==
            LET got == WritesTo(writes, maxSeq, vecs, at)
            IN  {src \in KvHeads \X (0 .. n - 1) :
                    got = {<<i, (src[1] * n + src[2]) * vecs + i>> : i \in 0 .. vecs - 1}}
    IN  [at \in Touched(writes, maxSeq, vecs) |->
            IF Arrived(at) = {} THEN Garbage ELSE new[CHOOSE src \in Arrived(at) : TRUE]]

-----------------------------------------------------------------------------
(* Attention *)

StackQkv == [h \in 1 .. NumHeads |-> <<"q_proj", h - 1>>]
            \o [h \in 1 .. NumKvHeads |-> <<"k_proj", h - 1>>]
            \o [h \in 1 .. NumKvHeads |-> <<"v_proj", h - 1>>]

QkvProjection(layer, x) ==
    [c \in DOMAIN StackQkv |-> HeadOf(StackQkv[c][1], layer, StackQkv[c][2], x)]

KvHeadOf(h) == h \div (NumHeads \div NumKvHeads)

\* Mutant: the prefill kernel is told the cursor's length, verify the forward's.
CurLenOfRows(mode, writePos, n) == n

CurLen(mode, writePos, n) == IF mode = "PREFILL" THEN n ELSE writePos + n

\* All three kernels put their last row at the last of the cur_len slots.
KeysOf(n, curLen, i) == 0 .. curLen - n + i

(***************************************************************************)
(* _run_attention on the rows xs.  The path for CUDA graphs reads the      *)
(* cursor from the device, where its caller has just put it.               *)
(***************************************************************************)
RunAttention(kv, layer, xs, maxSeq, pos, mode) ==
    LET n == Len(xs)
        qkv == [i \in 1 .. n |-> QkvProjection(layer, xs[i])]
        cos == RopeRows(maxSeq, pos, n)
        newK == [src \in KvHeads \X (0 .. n - 1) |-> qkv[src[2] + 1][NumHeads + 1 + src[1]]]
        newV == [src \in KvHeads \X (0 .. n - 1) |->
                    qkv[src[2] + 1][NumHeads + NumKvHeads + 1 + src[1]]]
        cacheK == KRows(WrittenK(maxSeq, n, pos, cos), maxSeq, n, cos, newK) @@ kv[layer].k
        cacheV == VRows(WrittenV(maxSeq, n, pos), maxSeq, n, newV) @@ kv[layer].v
        Context(i) ==
            [h \in Heads |->
                Attend(Rotated(cos[i][0][1], qkv[i + 1][h + 1]),
                       {<<j, cacheK[<<KvHeadOf(h), j>>], cacheV[<<KvHeadOf(h), j>>]>> :
                           j \in KeysOf(n, CurLen(mode, pos, n), i)})]
    IN  [out |-> Evaluated([i \in 1 .. n |-> <<"o_proj", layer, Context(i - 1)>>]),
         kv |-> [kv EXCEPT ![layer] = [k |-> cacheK, v |-> cacheV]]]

-----------------------------------------------------------------------------
(* One decoder layer, in the configured order *)

\* A raise leaves the keys and values the layer has written by then.
Fail(run, why) == [run EXCEPT !.error = why]

\* A run holds the rows in flight, hidden, and the optional residual_2,
\* attn_out, mlp_out and normed, Empty where the code has None.
Sums(xs, ys) == Evaluated([i \in DOMAIN xs |-> Add(xs[i], ys[i])])

\* Mutant: every residual_add adds to the rows in flight.
ResidualAddToHidden(run, x) ==
    IF run.residual2 = Empty
    THEN IF run.attn = Empty THEN Fail(run, "residual_add before attention")
         ELSE [run EXCEPT !.hidden = Sums(run.hidden, run.attn), !.residual2 = Sums(run.hidden, run.attn)]
    ELSE IF run.mlp = Empty THEN Fail(run, "second residual_add before swiglu_mlp")
         ELSE [run EXCEPT !.hidden = Sums(run.hidden, run.mlp)]

\* The first adds attention to the layer's input x, any further one the MLP to that sum.
ResidualAdd(run, x) ==
    IF run.residual2 = Empty
    THEN IF run.attn = Empty THEN Fail(run, "residual_add before attention")
         ELSE [run EXCEPT !.hidden = Sums(x, run.attn), !.residual2 = Sums(x, run.attn)]
    ELSE IF run.mlp = Empty THEN Fail(run, "second residual_add before swiglu_mlp")
         ELSE [run EXCEPT !.hidden = Sums(run.residual2, run.mlp)]

LayerStep(run, step, x, layer, maxSeq, pos, mode) ==
    IF run.error # "" THEN run
    ELSE CASE step = "input_rmsnorm" ->
                [run EXCEPT !.normed = Evaluated([i \in DOMAIN x |->
                    RMSNorm(<<"input_layernorm", layer>>, run.hidden[i])])]
           [] step = "attention" ->
                IF run.normed = Empty THEN Fail(run, "attention before input_rmsnorm")
                ELSE LET With(attention) == [run EXCEPT !.attn = attention.out, !.kv = attention.kv]
                     IN  With(RunAttention(run.kv, layer, run.normed, maxSeq, pos, mode))
           [] step = "residual_add" -> ResidualAdd(run, x)
           [] step = "post_attn_rmsnorm" ->
                [run EXCEPT !.normed = Evaluated([i \in DOMAIN x |->
                    RMSNorm(<<"post_attention_layernorm", layer>>, run.hidden[i])])]
           [] step = "swiglu_mlp" ->
                IF run.normed = Empty THEN Fail(run, "swiglu_mlp before post_attn_rmsnorm")
                ELSE [run EXCEPT !.mlp = Evaluated([i \in DOMAIN x |-> MLP(layer, run.normed[i])])]
           [] OTHER -> Fail(run, "unknown layer_order step")

DecoderLayer(order, kv, layer, x, maxSeq, pos, mode) ==
    FoldLeft(LAMBDA run, step : LayerStep(run, step, x, layer, maxSeq, pos, mode),
             [hidden |-> x, residual2 |-> Empty, attn |-> Empty, mlp |-> Empty,
              normed |-> Empty, kv |-> kv, error |-> ""],
             order)

-----------------------------------------------------------------------------
(* The stack *)

\* The layers, the last norm and the head.  texts[i] ends with row i; blocks
\* are the rows each layer was given and returned.
ForwardStack(order, kv, ids, texts, maxSeq, pos, mode) ==
    LET After(run, l, block) ==
            [rows |-> Evaluated([i \in DOMAIN ids |-> Named(l, texts[i], block.hidden[i])]),
             blocks |-> Append(run.blocks, [x |-> run.rows, out |-> block.hidden]),
             kv |-> block.kv, error |-> block.error]
        Layer(run, l) ==
            IF run.error # "" THEN run
            ELSE After(run, l, DecoderLayer(order, run.kv, l - 1, run.rows, maxSeq, pos, mode))
        WithLogits(run) ==
            [logits |-> [i \in DOMAIN ids |-> LmHead(RMSNorm("norm", run.rows[i]))],
             blocks |-> run.blocks, kv |-> run.kv, error |-> run.error]
    IN  WithLogits(FoldLeft(Layer, [rows |-> [i \in DOMAIN ids |-> Embed(ids[i])],
                                    blocks |-> <<>>, kv |-> kv, error |-> ""],
                            [l \in 1 .. NumLayers |-> l]))

NoOut == [texts |-> <<>>, logits |-> <<>>, blocks |-> <<>>]

Zeros(max) ==
    [layer \in LayerIds |-> [k |-> [at \in KvHeads \X (0 .. max - 1) |-> Empty],
                             v |-> [at \in KvHeads \X (0 .. max - 1) |-> Empty]]]

ResetKvCache(max) == [pos |-> 0, dev |-> 0, kv |-> Zeros(max), p1 |-> Empty]

ValidateInputIds(x, n) == x.pos + n <= launch.max

AdvanceCachePos(x, n) ==
    [x EXCEPT !.pos = x.pos + n, !.dev = IF n = 1 THEN x.dev + 1 ELSE x.pos + n]

Init ==
    /\ launch \in Launches
    /\ e = ResetKvCache(launch.max)
    /\ past = [layer \in LayerIds |-> NoPast]
    /\ abs = Kv!NewExecutor(launch.max)
    /\ out = NoOut
    /\ refused = {}

Refuse(why, executor, view) ==
    /\ refused' = why /\ e' = executor /\ abs' = view /\ out' = NoOut
    /\ UNCHANGED <<launch, past>>

(***************************************************************************)
(* One forward over ids.  x and a are the executor and KVExecutor's view   *)
(* of it, after the call's own reset; next is what KVExecutor makes of the *)
(* whole call.  The kernels that can refuse do so before the first layer   *)
(* has written anything; an order may be refused later.                    *)
(***************************************************************************)
Forward(ids, x, a, next, mode, static, keepRow) ==
    LET n == Len(ids)
        texts == [i \in 1 .. n |-> Kv!Row(a, ids, i)]
        prepared == IF static THEN [x EXCEPT !.dev = x.pos] ELSE x
    IN  IF ~ValidateInputIds(x, n) THEN Refuse({"overflow"}, x, a)
        ELSE \E refusals \in {Refusals(launch.cfg, launch.role, launch.batch, launch.max,
                                       n, x.pos, mode, static)} :
             IF refusals # {} THEN Refuse(refusals, prepared, a)
             ELSE \E run \in {ForwardStack(launch.order, x.kv, ids, texts, launch.max, x.pos, mode)} :
                  IF run.error # "" THEN Refuse({run.error}, [x EXCEPT !.kv = run.kv], a)
                  ELSE /\ e' = [AdvanceCachePos(prepared, n) EXCEPT
                                   !.kv = run.kv, !.p1 = IF keepRow THEN run.logits[n] ELSE x.p1]
                       /\ abs' = next
                       /\ out' = [texts |-> texts, logits |-> run.logits, blocks |-> run.blocks]
                       /\ refused' = {}
                       /\ UNCHANGED <<launch, past>>

-----------------------------------------------------------------------------
(* The calls *)

Runtime == launch.engine = "runtime"

Prefill(ids) ==
    LET x == ResetKvCache(launch.max)  a == Kv!ResetKvCache(abs) IN
    /\ Runtime
    /\ Forward(ids, x, a, Kv!Prefill(abs, ids), "PREFILL", FALSE, TRUE)

\* path: eager; static, the forward of verify_gamma_graph and decode_step_static;
\* or commit, commit_pending_bonus, which keeps the row it computed.
VerifyGamma(drafts, bonus, path) ==
    LET ids == IF bonus = NoToken THEN drafts ELSE <<bonus>> \o drafts IN
    /\ Runtime /\ e.p1 # Empty /\ path # "commit"
    /\ Len(drafts) \in 1 .. MAX_VERIFY_GAMMA
    /\ Forward(ids, e, abs, Kv!Forward(abs, ids), "VERIFY", path = "static", FALSE)

DecodeStep(token, path) ==
    /\ Runtime
    /\ Forward(<<token>>, e, abs,
               IF path = "commit" THEN Kv!CommitPendingBonus([abs EXCEPT !.pending = token])
               ELSE Kv!DecodeStep(abs, token),
               "DECODE", path = "static", path = "commit")

\* run_decoder_layer, for parity tests: one layer writes at the cursor, which
\* stays.  Nothing but the write kernel checks the room left.
RunDecoderLayer(ids, layer, mode) ==
    LET n == Len(ids)
    IN  /\ Runtime
        /\ mode = "DECODE" => n = 1
        /\ \E refusals \in {Refusals(launch.cfg, launch.role, launch.batch, launch.max,
                                     n, e.pos, mode, FALSE)} :
              IF refusals # {}
              THEN refused' = (IF e.pos + n > launch.max THEN {"overflow"} ELSE refusals) /\ e' = e
              ELSE \E run \in {DecoderLayer(launch.order, e.kv, layer,
                                          [i \in 1 .. n |-> Embed(ids[i])], launch.max, e.pos, mode)} :
                      /\ refused' = IF run.error # "" THEN {run.error} ELSE {}
                      /\ e' = [e EXCEPT !.kv = run.kv]
        /\ out' = NoOut
        /\ UNCHANGED <<launch, past, abs>>

\* The callers only rewind.
RollbackCache(to) ==
    /\ Runtime
    /\ e' = [e EXCEPT !.pos = to, !.dev = to]
    /\ abs' = Kv!RollbackCache(abs, to)
    /\ out' = NoOut /\ refused' = {}
    /\ UNCHANGED <<launch, past>>

(***************************************************************************)
(* The Hugging Face engine, as the baseline's greedy_decode and the parity *)
(* tests' generate call it: the prompt, then a token at a time.  Its cache *)
(* grows without limit, launch.max bounds the model.                       *)
(***************************************************************************)
HfForward(text, before, view) ==
    /\ ~Runtime /\ Len(text) <= launch.max
    /\ \E run \in {CausalLMForward(launch.engine, text, before)} :
          LET n == Len(run.logits) IN
          /\ past' = run.past
          /\ out' = [texts |-> [i \in 1 .. n |-> SubSeq(text, 1, Len(text) - n + i)],
                     logits |-> run.logits, blocks |-> <<>>]
    /\ abs' = view
    /\ UNCHANGED <<launch, e, refused>>

HfPrefill(ids) == HfForward(ids, [layer \in LayerIds |-> NoPast], Kv!Prefill(abs, ids))

Text == IF abs.pos = 0 THEN <<>> ELSE abs.kv[abs.pos - 1]

HfStep(token) ==
    /\ abs.pos > 0
    /\ HfForward(Append(Text, token), past, Kv!DecodeStep(abs, token))

Prompts == UNION {[1 .. n -> launch.tokens] : n \in launch.prompts}
Drafts == UNION {[1 .. n -> launch.tokens] : n \in launch.drafts}

Next ==
    \/ \E ids \in Prompts : Prefill(ids) \/ HfPrefill(ids)
    \/ \E drafts \in Drafts, bonus \in launch.tokens \cup {NoToken}, path \in launch.paths :
            VerifyGamma(drafts, bonus, path)
    \/ \E token \in launch.tokens, path \in launch.paths : DecodeStep(token, path)
    \/ \E token \in launch.tokens, layer \in launch.layers, mode \in {"PREFILL", "DECODE"} :
            RunDecoderLayer(<<token>>, layer, mode)
    \/ \E to \in 0 .. e.pos : RollbackCache(to)
    \/ \E token \in launch.tokens : HfStep(token)

Spec == Init /\ [][Next]_vars

-----------------------------------------------------------------------------
(* Properties *)

Shipped == launch.order = LayerOrder

(***************************************************************************)
(* Every row of logits is the reference's for the text that ends with its  *)
(* token, whichever of the prefill, verify and decode kernels computed it, *)
(* eagerly or on the path of a CUDA graph, after whatever prefills,        *)
(* verifies and rollbacks came before; and so is every row the Hugging     *)
(* Face engine computes with its cache, with either attention.             *)
(***************************************************************************)
LogitsAreReference ==
    Shipped => \A i \in DOMAIN out.texts : out.logits[i] = ReferenceLogits(out.texts[i])

\* The keys and values of a text's last token in one layer and head.
ReferenceKey(layer, h, text) ==
    Rotated(Len(text) - 1,
            HeadOf("k_proj", layer, h,
                   RMSNorm(<<"input_layernorm", layer>>, Name(layer, text))))
ReferenceValue(layer, h, text) ==
    HeadOf("v_proj", layer, h, RMSNorm(<<"input_layernorm", layer>>, Name(layer, text)))

(***************************************************************************)
(* The tensors implement KVExecutor, the view the decoding loop is         *)
(* verified with: the same cursor and mirror, the same p_1, and below the  *)
(* cursor every layer and head holds the rotated key and the value of the  *)
(* text KVExecutor has in the slot, at the slot's own position.            *)
(***************************************************************************)
ImplementsKVExecutor ==
    Runtime /\ Shipped =>
        /\ e.pos = abs.pos /\ e.dev = abs.dev
        /\ e.p1 = IF abs.p1 = Kv!NoRow THEN Empty ELSE ReferenceLogits(abs.p1)
        /\ \A s \in 0 .. e.pos - 1, layer \in LayerIds, h \in KvHeads :
              /\ Len(abs.kv[s]) = s + 1
              /\ e.kv[layer].k[<<h, s>>] = ReferenceKey(layer, h, abs.kv[s])
              /\ e.kv[layer].v[<<h, s>>] = ReferenceValue(layer, h, abs.kv[s])

(***************************************************************************)
(* Whatever order is configured, a forward that is not refused keeps the   *)
(* residual stream: each layer returns its rows, or adds its attention to  *)
(* them once, or that and its MLP once.  A repeated residual_add must not  *)
(* add the same output twice.                                              *)
(***************************************************************************)
ResidualKept ==
    \A l \in DOMAIN out.blocks : \A i \in DOMAIN out.blocks[l].x :
        LET x == out.blocks[l].x[i]
            y == out.blocks[l].out[i]
            IsSum(z) == z[1] = "add"
            Attended(z) == IsSum(z) /\ z[2] = x /\ z[3][1] = "o_proj"
        IN  y = x \/ Attended(y) \/ (IsSum(y) /\ Attended(y[2]) /\ y[3][1] = "mlp")

(***************************************************************************)
(* With one sequence, the only batch the tests and tools use, no kernel of *)
(* either model refuses what the executor gives it: for every length up to *)
(* a bundled verify of gamma 8, at every cursor, eagerly or captured.      *)
(***************************************************************************)
BatchOneNeverRefused == launch.batch = 1 /\ Shipped => refused \subseteq {"overflow"}
=============================================================================
