--------------------------- MODULE KernelContract ---------------------------
(***************************************************************************)
(* What the kernels of one forward require of their arguments: the checks  *)
(* of the extensions, the Python functions in front of them, and the       *)
(* tensors the executor hands over, as shapes with a contiguity flag.      *)
(* Element types and devices are left out: one executor has one of each.   *)
(***************************************************************************)
EXTENDS MemoryPlan

\* A fresh tensor, or one that was made contiguous.
Tensor(shape) == [shape |-> shape, contiguous |-> TRUE]

Contiguous(tensors) == \A t \in tensors : t.contiguous
Dim(t) == Len(t.shape)
Size(t, d) == t.shape[IF d < 0 THEN Dim(t) + d + 1 ELSE d + 1]

MaxVerify == 9
Roles == {"target", "draft"}
TemplatedHeadDim == [role \in Roles |-> IF role = "target" THEN 128 ELSE 64]

-----------------------------------------------------------------------------
(* The extensions' names *)

TargetAttentionExports ==
    {"qkv_proj_forward", "rope_kv_write_forward", "rope_kv_write_forward_dev",
     "fused_attn_forward", "decode_attn_forward", "small_q_attn_forward",
     "decode_attn_forward_dev", "small_q_attn_forward_dev", "o_proj_forward"}

\* The two source trees declare their functions separately.
DraftAttentionExports ==
    {"qkv_proj_forward", "rope_kv_write_forward", "rope_kv_write_forward_dev",
     "fused_attn_forward", "decode_attn_forward", "decode_attn_forward_dev",
     "small_q_attn_forward", "small_q_attn_forward_dev", "o_proj_forward"}

AttentionExports(role) ==
    IF role = "target" THEN TargetAttentionExports ELSE DraftAttentionExports

\* The Python functions, each of which calls the export of its name.
TargetAttentionFunctions ==
    {"qkv_proj_forward", "rope_kv_write_forward", "rope_kv_write_forward_dev",
     "fused_attn_forward", "decode_attn_forward", "small_q_attn_forward",
     "decode_attn_forward_dev", "small_q_attn_forward_dev", "o_proj_forward"}
DraftAttentionFunctions ==
    {"qkv_proj_forward", "rope_kv_write_forward", "rope_kv_write_forward_dev",
     "fused_attn_forward", "decode_attn_forward", "small_q_attn_forward",
     "decode_attn_forward_dev", "small_q_attn_forward_dev", "o_proj_forward"}

Callable(role) ==
    (IF role = "target" THEN TargetAttentionFunctions ELSE DraftAttentionFunctions)
        \cap AttentionExports(role)

-----------------------------------------------------------------------------
(* The checks *)

QkvProj(x, w, b) ==
    /\ Contiguous({x, w, b})
    /\ Dim(x) = 2 /\ Dim(w) = 2 /\ Dim(b) = 1
    /\ Size(w, 1) = Size(x, 1)
    /\ Size(b, 0) = Size(w, 0)

\* One row of the tables for each new token; V's shape is not looked at.
RopeKvWriteCheck(newK, newV, cacheK, cacheV, cos) ==
    /\ Contiguous({newK, newV, cacheK, cacheV, cos})
    /\ Dim(newK) = 4 /\ Dim(cacheK) = 4
    /\ \A d \in {0, 1, 3} : Size(newK, d) = Size(cacheK, d)
    /\ Size(cos, -1) = Size(newK, 3)
    /\ Size(cos, -2) = Size(newK, 2)
    /\ Size(newK, 3) % 8 = 0

RopeKvWriteForward(newK, newV, cacheK, cacheV, writePos, cos) ==
    /\ RopeKvWriteCheck(newK, newV, cacheK, cacheV, cos)
    /\ writePos >= 0
    /\ writePos + Size(newK, 2) <= Size(cacheK, 2)

FusedAttn(q, cacheK, cacheV, curLen, cos) ==
    /\ Contiguous({q, cacheK, cacheV, cos})
    /\ Dim(q) = 4 /\ Dim(cacheK) = 4 /\ Dim(cacheV) = 4
    /\ \A d \in {0, 3} : Size(q, d) = Size(cacheK, d) /\ Size(q, d) = Size(cacheV, d)
    /\ Size(q, 1) % Size(cacheK, 1) = 0
    /\ 0 < curLen /\ curLen <= Size(cacheK, 2)
    /\ Size(cos, -1) = Size(q, 3) /\ Size(cos, -2) = Size(q, 2)

DecodeAttnCheck(role, q, cacheK, cacheV, cos) ==
    /\ Contiguous({q, cacheK, cacheV, cos})
    /\ Dim(q) = 4 /\ Dim(cacheK) = 4
    /\ cacheK.shape = cacheV.shape
    /\ Size(q, 0) = Size(cacheK, 0)
    /\ Size(q, 3) = TemplatedHeadDim[role] /\ Size(cacheK, 3) = TemplatedHeadDim[role]
    /\ Size(q, 1) % Size(cacheK, 1) = 0
    /\ Size(cos, -1) = Size(q, 3) /\ Size(cos, -2) = Size(q, 2)

InCache(q, cacheK, curLen) == Size(q, 2) <= curLen /\ curLen <= Size(cacheK, 2)

\* The switch over compiled query lengths; each source tree has its own.
TargetDispatched == {1, 2, 3, 4, 5, 6, 7, 8, 9}

\* Mutant: one case is missing.
DraftDispatchedShort == {1, 2, 3, 4, 6, 7, 8, 9}
DraftDispatched == {1, 2, 3, 4, 5, 6, 7, 8, 9}

Dispatched(role, q) ==
    Size(q, 2) \in IF role = "target" THEN TargetDispatched ELSE DraftDispatched

DecodeAttn(role, q, cacheK, cacheV, curLen, cos) ==
    /\ DecodeAttnCheck(role, q, cacheK, cacheV, cos)
    /\ Size(q, 2) = 1
    /\ InCache(q, cacheK, curLen)
    /\ Dispatched(role, q)

SmallQAttn(role, q, cacheK, cacheV, curLen, cos) ==
    /\ DecodeAttnCheck(role, q, cacheK, cacheV, cos)
    /\ Size(q, 2) \in 1 .. MaxVerify
    /\ InCache(q, cacheK, curLen)
    /\ Dispatched(role, q)

\* The device-side variants cannot look at their length.
DecodeAttnDev(role, q, cacheK, cacheV, cos) ==
    DecodeAttnCheck(role, q, cacheK, cacheV, cos) /\ Size(q, 2) = 1 /\ Dispatched(role, q)

SmallQAttnDev(role, q, cacheK, cacheV, cos) ==
    /\ DecodeAttnCheck(role, q, cacheK, cacheV, cos)
    /\ Size(q, 2) \in 1 .. MaxVerify
    /\ Dispatched(role, q)

OProj(x, w) ==
    /\ Contiguous({x, w})
    /\ Dim(x) = 2 /\ Dim(w) = 2
    /\ Size(w, 1) = Size(x, 1)

EmbeddingForward(ids, weight) == Contiguous({ids, weight}) /\ Dim(weight) = 2

RmsNormForward(x, weight) ==
    Contiguous({x, weight}) /\ Dim(x) = 3 /\ Size(x, 2) % 8 = 0

\* A three-dimensional input is flattened on the way in and restored on the way out.
Flattened(x) == Tensor(<<Size(x, 0) * Size(x, 1), Size(x, 2)>>)

SwigluForward(x, gate, up, down) ==
    LET flat == Flattened(x) IN
    /\ Contiguous({flat, gate, up, down})
    /\ Size(gate, 1) = Size(flat, 1)
    /\ up.shape = gate.shape
    /\ Size(down, 0) = Size(flat, 1) /\ Size(down, 1) = Size(gate, 0)
    /\ Size(gate, 0) % 8 = 0

ResidualAddForward(a, b) ==
    /\ Contiguous({a, b})
    /\ a.shape = b.shape
    /\ (Size(a, 0) * Size(a, 1) * Size(a, 2)) % 8 = 0

LmHeadForward(hidden, weight) ==
    LET flat == Flattened(hidden)
    IN  Contiguous({flat, weight}) /\ Dim(weight) = 2 /\ Size(flat, 1) = Size(weight, 1)

-----------------------------------------------------------------------------
(* What the executor passes *)

\* A slice of the table stops at its end; one copy stands for every sequence
\* of the batch, so with more than one the rows are no longer contiguous.
RopeEmbeddings(cfg, batch, maxSeq, start, length) ==
    [shape |-> <<batch, Smaller(start + length, maxSeq) - Smaller(start, maxSeq), HeadDim(cfg)>>,
     contiguous |-> batch = 1]

StaticRope(cfg, batch, seqLen) ==
    [shape |-> <<batch, seqLen, HeadDim(cfg)>>, contiguous |-> batch = 1]

StackedQkv(cfg) == Tensor(<<cfg.hidden_size + 2 * KvDim(cfg), cfg.hidden_size>>)

(***************************************************************************)
(* The kernels _run_attention calls and whether each takes its arguments;  *)
(* static is the path a CUDA graph captures.                               *)
(***************************************************************************)
AttentionCalls(cfg, role, batch, maxSeq, seqLen, pos, mode, static) ==
    LET hidden  == cfg.hidden_size
        flat    == Tensor(<<batch * seqLen, hidden>>)
        q       == Tensor(QStates(batch, seqLen, cfg))
        k       == Tensor(KvStates(batch, seqLen, cfg))
        cache   == Tensor(Tail(KvCache(batch, maxSeq, cfg)))
        cos     == IF static THEN StaticRope(cfg, batch, seqLen)
                   ELSE RopeEmbeddings(cfg, batch, maxSeq, pos, seqLen)
        written == pos + seqLen
        Call(name, ok) == <<name, name \in Callable(role) /\ ok>>
    IN  {Call("qkv_proj_forward",
              QkvProj(flat, StackedQkv(cfg), Tensor(<<hidden + 2 * KvDim(cfg)>>))),
         Call("o_proj_forward", OProj(flat, Tensor(<<hidden, hidden>>)))}
        \cup
        IF static
        THEN {Call("rope_kv_write_forward_dev", RopeKvWriteCheck(k, k, cache, cache, cos)),
              IF seqLen = 1
              THEN Call("decode_attn_forward_dev", DecodeAttnDev(role, q, cache, cache, cos))
              ELSE Call("small_q_attn_forward_dev", SmallQAttnDev(role, q, cache, cache, cos))}
        ELSE {Call("rope_kv_write_forward", RopeKvWriteForward(k, k, cache, cache, pos, cos)),
              IF mode = "PREFILL"
              THEN Call("fused_attn_forward", FusedAttn(q, cache, cache, seqLen, cos))
              ELSE IF mode = "VERIFY" /\ seqLen > 1
              THEN Call("small_q_attn_forward", SmallQAttn(role, q, cache, cache, written, cos))
              ELSE Call("decode_attn_forward", DecodeAttn(role, q, cache, cache, written, cos))}

\* The other kernels of the stack, whatever the mode.
StackCalls(cfg, batch, seqLen) ==
    LET w == [name \in DOMAIN WeightShapes(cfg) |-> Tensor(WeightShapes(cfg)[name])]
        x == Tensor(Hidden(batch, seqLen, cfg))
        lmHead == IF cfg.tie_word_embeddings THEN w.embed_tokens ELSE w.lm_head
    IN  {<<"embedding_forward", EmbeddingForward(Tensor(<<batch, seqLen>>), w.embed_tokens)>>,
         <<"rmsnorm_forward", RmsNormForward(x, w.input_layernorm)>>,
         <<"residual_add_forward", ResidualAddForward(x, x)>>,
         <<"swiglu_forward", SwigluForward(x, w.gate_proj, w.up_proj, w.down_proj)>>,
         <<"lm_head_forward", LmHeadForward(x, lmHead)>>}

Refusals(cfg, role, batch, maxSeq, seqLen, pos, mode, static) ==
    {call[1] : call \in {c \in AttentionCalls(cfg, role, batch, maxSeq, seqLen, pos, mode, static)
                                   \cup StackCalls(cfg, batch, seqLen) : ~c[2]}}
=============================================================================
