----------------------------- MODULE MemoryPlan -----------------------------
(***************************************************************************)
(* The configuration, the shapes that follow from it and the memory plan   *)
(* (runtime/core/config.py, shapes.py, memory.py), as operators on a       *)
(* configuration record.                                                   *)
(*                                                                         *)
(* Memory is counted in units of 16 bytes, eight fp16 elements, so that a  *)
(* 24 GiB device fits TLC's integers; every last dimension of the shipped  *)
(* configurations is a multiple of eight.  The 8-byte cursor takes a unit. *)
(***************************************************************************)
EXTENDS Integers, Sequences, SequencesExt

Mib == 65536               \* 1024 * 1024 bytes
ElemsPerUnit == 8

-----------------------------------------------------------------------------
(* config.py *)

\* The fields that memory depends on.
RuntimeConfigs ==
    [hidden_size : Nat \ {0}, intermediate_size : Nat, num_hidden_layers : Nat,
     num_attention_heads : Nat \ {0}, num_key_value_heads : Nat, vocab_size : Nat,
     tie_word_embeddings : BOOLEAN, max_position_embeddings : Nat]

HeadDim(cfg) == cfg.hidden_size \div cfg.num_attention_heads
KvDim(cfg) == cfg.num_key_value_heads * HeadDim(cfg)

\* validate says nothing of layer_order, kernel_set or kv_cache_layout.
Validate(cfg) ==
    /\ cfg.hidden_size % cfg.num_attention_heads = 0
    /\ cfg.num_attention_heads % cfg.num_key_value_heads = 0

-----------------------------------------------------------------------------
(* shapes.py *)

Hidden(batch, seq, cfg) == <<batch, seq, cfg.hidden_size>>
QStates(batch, seq, cfg) == <<batch, cfg.num_attention_heads, seq, HeadDim(cfg)>>
KvStates(batch, seq, cfg) == <<batch, cfg.num_key_value_heads, seq, HeadDim(cfg)>>
Logits(batch, seq, cfg) == <<batch, seq, cfg.vocab_size>>

\* Padded so that a row is a multiple of 16 bytes.
KvCacheHeadDim(cfg) ==
    ((HeadDim(cfg) + ElemsPerUnit - 1) \div ElemsPerUnit) * ElemsPerUnit

KvCache(batch, maxSeq, cfg) ==
    <<cfg.num_hidden_layers, batch, cfg.num_key_value_heads, maxSeq, KvCacheHeadDim(cfg)>>

RopeTable(maxSeq, cfg) == <<maxSeq, HeadDim(cfg)>>

\* Elements, counted in units: the last dimension is the one divided.
Nbytes(shape) ==
    LET product[i \in 0 .. Len(shape) - 1] == IF i = 0 THEN 1 ELSE product[i - 1] * shape[i]
    IN  product[Len(shape) - 1] * (shape[Len(shape)] \div ElemsPerUnit)

CachePositionBytes == 1

LayerWeights ==
    {"q_proj", "k_proj", "v_proj", "o_proj", "gate_proj", "up_proj", "down_proj",
     "q_proj_bias", "k_proj_bias", "v_proj_bias", "input_layernorm", "post_attention_layernorm"}

WeightShapes(cfg) ==
    LET h == cfg.hidden_size  i == cfg.intermediate_size  kv == KvDim(cfg) IN
    [embed_tokens |-> <<cfg.vocab_size, h>>, final_norm |-> <<h>>, lm_head |-> <<cfg.vocab_size, h>>,
     q_proj |-> <<h, h>>, k_proj |-> <<kv, h>>, v_proj |-> <<kv, h>>, o_proj |-> <<h, h>>,
     gate_proj |-> <<i, h>>, up_proj |-> <<i, h>>, down_proj |-> <<h, i>>,
     q_proj_bias |-> <<h>>, k_proj_bias |-> <<kv>>, v_proj_bias |-> <<kv>>,
     input_layernorm |-> <<h>>, post_attention_layernorm |-> <<h>>]

UnitsOf(shapes, names) == FoldSet(LAMBDA name, sum : Nbytes(shapes[name]) + sum, 0, names)

TotalWeightBytes(cfg) ==
    UnitsOf(WeightShapes(cfg), {"embed_tokens", "final_norm"}
                                   \cup IF cfg.tie_word_embeddings THEN {} ELSE {"lm_head"})
        + cfg.num_hidden_layers * UnitsOf(WeightShapes(cfg), LayerWeights)

-----------------------------------------------------------------------------
(* memory.py *)

PlannedBuffers(cfg, batch, maxSeq) ==
    [hidden_ping |-> Hidden(batch, maxSeq, cfg), hidden_pong |-> Hidden(batch, maxSeq, cfg),
     q_states |-> QStates(batch, maxSeq, cfg),
     k_states |-> KvStates(batch, maxSeq, cfg), v_states |-> KvStates(batch, maxSeq, cfg),
     mlp_gate |-> <<batch, maxSeq, cfg.intermediate_size>>,
     logits |-> Logits(batch, maxSeq, cfg),
     kv_cache_keys |-> KvCache(batch, maxSeq, cfg), kv_cache_values |-> KvCache(batch, maxSeq, cfg),
     rope_cos |-> RopeTable(maxSeq, cfg), rope_sin |-> RopeTable(maxSeq, cfg)]

PlanRuntimeBytes(cfg, batch, maxSeq) ==
    LET buffers == PlannedBuffers(cfg, batch, maxSeq)
    IN  UnitsOf(buffers, DOMAIN buffers) + CachePositionBytes

RuntimeBytesPerSeq(cfg, batch) == PlanRuntimeBytes(cfg, batch, 1) - CachePositionBytes

Smaller(a, b) == IF a < b THEN a ELSE b

\* Mutant: the budget is rounded up.
MaxSeqLenRoundedUp(cfg, budget, batch) ==
    IF budget <= 0 THEN 0
    ELSE Smaller(budget \div RuntimeBytesPerSeq(cfg, batch) + 1, cfg.max_position_embeddings)

MaxSeqLenForBudget(cfg, budget, batch) ==
    IF budget <= 0 THEN 0
    ELSE Smaller(budget \div RuntimeBytesPerSeq(cfg, batch), cfg.max_position_embeddings)

MaxSeqLenAfterWeights(cfg, freeVram, batch, reserve) ==
    LET budget == freeVram - reserve IN
    [buffer_budget |-> budget, max_seq_len |-> MaxSeqLenForBudget(cfg, budget, batch)]
=============================================================================
