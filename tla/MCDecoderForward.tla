-------------------------- MODULE MCDecoderForward --------------------------
(* Two layers of four heads over two key-value heads; the shipped models'  *)
(* dimensions for what the kernels check.                                  *)
EXTENDS DecoderForward

CONSTANTS t1, t2, t3

Symmetric == Permutations({t1, t2})

Cfg7B ==
    [hidden_size |-> 3584, intermediate_size |-> 18944, num_hidden_layers |-> 28,
     num_attention_heads |-> 28, num_key_value_heads |-> 4, vocab_size |-> 152064,
     tie_word_embeddings |-> FALSE, max_position_embeddings |-> 32768]
Cfg05B ==
    [hidden_size |-> 896, intermediate_size |-> 4864, num_hidden_layers |-> 24,
     num_attention_heads |-> 14, num_key_value_heads |-> 2, vocab_size |-> 151936,
     tie_word_embeddings |-> TRUE, max_position_embeddings |-> 32768]

Launched(engine, role, order, batch, max, tokens, prompts, drafts, layers, paths) ==
    [engine |-> engine, role |-> role, cfg |-> IF role = "target" THEN Cfg7B ELSE Cfg05B,
     order |-> order, batch |-> batch, max |-> max, tokens |-> tokens,
     prompts |-> prompts, drafts |-> drafts, layers |-> layers, paths |-> paths]

Steps == ToSet(LayerOrder)
Places == DOMAIN LayerOrder

\* The orders one edit away from the shipped one.
EditedOrders ==
    {RemoveAt(LayerOrder, i) : i \in Places}
        \cup {InsertAt(LayerOrder, i, step) : i \in 1 .. Len(LayerOrder) + 1, step \in Steps \cup {"unknown"}}
        \cup {[LayerOrder EXCEPT ![i] = LayerOrder[j], ![j] = LayerOrder[i]] : i, j \in Places}

MCLaunches ==
    {Launched("runtime", "target", LayerOrder, 1, 3, {t1, t2}, {1}, {2}, {}, {"eager"})}
        \cup {Launched(engine, "target", LayerOrder, 1, 4, {t1, t2}, {1, 3}, {}, {}, {}) :
                  engine \in {"eager", "sdpa"}}
        \cup {Launched("runtime", role, LayerOrder, 1, gamma + 2, {t3}, {1}, {gamma}, {}, {"eager", "static"}) :
                  role \in Roles, gamma \in 1 .. 8}
        \cup {Launched("runtime", "target", LayerOrder, 1, 3, {t3}, {1, 2}, {1, 2}, LayerIds, {"eager", "static", "commit"})}
        \cup {Launched("runtime", "target", order, 1, 2, {t3}, {1}, {1}, {}, {"eager"}) : order \in EditedOrders}
=============================================================================
