--------------------------- MODULE Qwen2Reference ---------------------------
(***************************************************************************)
(* The reference model, kernel_dev/models/modeling_qwen2.py, as operators  *)
(* on terms: a row of activations is the expression that computes it.      *)
(*                                                                         *)
(* A term grows with every layer, so the row the reference computes after  *)
(* l blocks for the last token of a text has a name, Name(l, text), and an *)
(* expression is replaced by the name when it is the one the reference     *)
(* evaluates for it (Named).  Any other expression stays as it is.         *)
(***************************************************************************)
EXTENDS Integers, Sequences, SequencesExt

CONSTANTS NumLayers, NumHeads, NumKvHeads,
          HeadLanes      \* elements of one head

ASSUME ReferenceAssumption ==
    /\ NumLayers \in Nat \ {0} /\ NumHeads \in Nat \ {0} /\ NumKvHeads \in Nat \ {0}
    /\ NumHeads % NumKvHeads = 0
    /\ HeadLanes \in Nat \ {0} /\ HeadLanes % 2 = 0

LayerIds == 0 .. NumLayers - 1
Heads == 0 .. NumHeads - 1
KvHeads == 0 .. NumKvHeads - 1
Lanes == 0 .. HeadLanes - 1
Half == HeadLanes \div 2

\* The same sequence; TLC evaluates its elements here, once.
Evaluated(xs) == SubSeq(xs, 1, Len(xs))

-----------------------------------------------------------------------------
(* The operations *)

Embed(token) == <<"embed", token>>
RMSNorm(weight, x) == <<"rmsnorm", weight, x>>
MLP(layer, x) == <<"mlp", layer, x>>
Add(a, b) == <<"add", a, b>>
HeadOf(weight, layer, head, x) == <<weight, layer, head, x>>
LmHead(x) == <<"lm_head", x>>

\* cos and sin of one position: the frequencies twice, one half after the other.
RotaryEmbedding(position) == [d \in Lanes |-> <<position, d % Half>>]

RotateHalf(x) ==
    [d \in Lanes |-> IF d < Half THEN <<"minus", x[d + Half]>> ELSE <<"plus", x[d - Half]>>]

\* x * cos + rotate_half(x) * sin, lane by lane.
ApplyRotaryPosEmb(x, angle) ==
    [d \in Lanes |-> {<<"plus", x[d], "cos", angle[d]>>,
                      <<RotateHalf(x)[d][1], RotateHalf(x)[d][2], "sin", angle[d]>>}]

\* The whole head, rotated as ApplyRotaryPosEmb rotates its lanes.
Rotated(position, x) == <<"rotated", position, x>>

\* The key-value head an attention head reads: each is repeated in place.
RepeatKv(head) == head \div (NumHeads \div NumKvHeads)

\* softmax(q k) v over the pairs of keys and values that are not masked.
Attend(q, pairs) == <<"attend", q, pairs>>

-----------------------------------------------------------------------------
(* The mask.  Rows and keys count from 0; cachePosition[i] is row i's place. *)

PrepareCausalMask(seqLen, targetLen, cachePosition) ==
    {<<i, j>> \in (0 .. seqLen - 1) \X (0 .. targetLen - 1) :
        (seqLen # 1 => j > i) /\ j > cachePosition[i + 1]}

\* transformers: no mask is needed for one query, or for queries without a past.
IgnoreCausalMaskSdpa(seqLen, past) == seqLen = 1 \/ past = 0

\* Without a mask, sdpa is asked to be causal when there is more than one row.
SdpaIsCausal(seqLen, mask) == mask = "none" /\ seqLen > 1

Mask(impl, seqLen, past) ==
    IF impl = "sdpa" /\ IgnoreCausalMaskSdpa(seqLen, past) THEN "none" ELSE "causal"

\* The keys row i attends to; a mask is cut to the keys there are.
Visible(impl, seqLen, past, cachePosition, i) ==
    LET keys == 0 .. past + seqLen - 1 IN
    IF Mask(impl, seqLen, past) = "none"
    THEN {j \in keys : SdpaIsCausal(seqLen, "none") => j <= i}
    ELSE {j \in keys : <<i, j>> \notin PrepareCausalMask(seqLen, past + seqLen + 1, cachePosition)}

-----------------------------------------------------------------------------
(* One block.  past is what the cache holds of this layer: for each key-   *)
(* value head, its keys and its values.                                    *)

NoPast == [c \in 1 .. NumKvHeads |-> [k |-> <<>>, v |-> <<>>]]

AttentionForward(impl, layer, xs, positions, past) ==
    LET n == Len(xs)
        seen == Len(past[1].k)
        kv == Evaluated([c \in 1 .. NumKvHeads |->
                  [k |-> past[c].k \o [i \in 1 .. n |->
                             Rotated(positions[i], HeadOf("k_proj", layer, c - 1, xs[i]))],
                   v |-> past[c].v \o [i \in 1 .. n |-> HeadOf("v_proj", layer, c - 1, xs[i])]]])
        cachePosition == [i \in 1 .. n |-> seen + i - 1]
        Row(i) == [h \in Heads |->
                      Attend(Rotated(positions[i], HeadOf("q_proj", layer, h, xs[i])),
                             {<<j, kv[RepeatKv(h) + 1].k[j + 1], kv[RepeatKv(h) + 1].v[j + 1]>> :
                                 j \in Visible(impl, n, seen, cachePosition, i - 1)})]
    IN  [out |-> [i \in 1 .. n |-> <<"o_proj", layer, Row(i)>>], past |-> kv]

DecoderLayerForward(impl, layer, xs, positions, past) ==
    LET n == Len(xs)
        normed == [i \in 1 .. n |-> RMSNorm(<<"input_layernorm", layer>>, xs[i])]
        WithMLP(residual) ==
            Add(residual, MLP(layer, RMSNorm(<<"post_attention_layernorm", layer>>, residual)))
        Block(attn) == [out |-> [i \in 1 .. n |-> WithMLP(Add(xs[i], attn.out[i]))],
                        past |-> attn.past]
    IN  Block(AttentionForward(impl, layer, normed, positions, past))

-----------------------------------------------------------------------------
(* The whole model over a text, without a cache, eager *)

Name(layer, text) == IF layer = 0 THEN Embed(Last(text)) ELSE <<"hidden", layer, text>>

\* The expression Name(layer, text) stands for.
ReferenceRow(layer, text) ==
    DecoderLayerForward("eager", layer - 1,
                        [i \in 1 .. Len(text) |-> Name(layer - 1, SubSeq(text, 1, i))],
                        [i \in 1 .. Len(text) |-> i - 1], NoPast).out[Len(text)]

Named(layer, text, term) == IF term = ReferenceRow(layer, text) THEN Name(layer, text) ELSE term

ReferenceLogits(text) == LmHead(RMSNorm("norm", Name(NumLayers, text)))

-----------------------------------------------------------------------------
(* Generation with the cache, as model.generate drives it *)

\* The tokens the cache has not seen, and the positions of a text without padding.
PrepareInputsForGeneration(inputIds, seen) ==
    [ids |-> SubSeq(inputIds, seen + 1, Len(inputIds)),
     positions |-> [i \in 1 .. Len(inputIds) - seen |-> seen + i - 1]]

\* The layers in turn; texts[i] is the text that ends with row i.
ModelForward(impl, inputs, texts, past) ==
    LET After(run, layer, block) ==
            [rows |-> Evaluated([i \in DOMAIN block.out |-> Named(layer + 1, texts[i], block.out[i])]),
             past |-> [run.past EXCEPT ![layer] = block.past]]
        Layer(run, layer) ==
            After(run, layer, DecoderLayerForward(impl, layer, run.rows, inputs.positions, past[layer]))
    IN  FoldLeft(Layer,
                 [rows |-> [i \in DOMAIN inputs.ids |-> Embed(inputs.ids[i])], past |-> past],
                 [l \in 1 .. NumLayers |-> l - 1])

\* The generation loop asks for all rows; the past goes with the answer.
CausalLMForward(impl, inputIds, past) ==
    LET seen == Len(past[0][1].k)
        inputs == PrepareInputsForGeneration(inputIds, seen)
        texts == [i \in DOMAIN inputs.ids |-> SubSeq(inputIds, 1, seen + i)]
        WithLogits(run) ==
            [logits |-> [i \in DOMAIN run.rows |-> LmHead(RMSNorm("norm", run.rows[i]))],
             past |-> run.past]
    IN  WithLogits(ModelForward(impl, inputs, texts, past))
=============================================================================
