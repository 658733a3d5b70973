---------------------------- MODULE MCBenchSuite ----------------------------
(* The shipped configurations on GPUs of 24 GiB, with checkpoints as they  *)
(* are and as they may be damaged.                                         *)
EXTENDS BenchSuite

Cfg7B ==
    [hidden_size |-> 3584, intermediate_size |-> 18944, num_hidden_layers |-> 28,
     num_attention_heads |-> 28, num_key_value_heads |-> 4, vocab_size |-> 152064,
     tie_word_embeddings |-> FALSE, max_position_embeddings |-> 32768]
Cfg05B ==
    [hidden_size |-> 896, intermediate_size |-> 4864, num_hidden_layers |-> 24,
     num_attention_heads |-> 14, num_key_value_heads |-> 2, vocab_size |-> 151936,
     tie_word_embeddings |-> TRUE, max_position_embeddings |-> 32768]

MCTotalMemory == 24 * 1024 * Mib

Single(tensors) == [dir |-> TRUE, index |-> {}, files |-> SingleFile :> tensors]
Good(cfg) == Single(ExpectedKeys(cfg))

\* Two shards; the second starts at the last layer and holds what is left over.
Sharded(cfg) ==
    LET tensors == ExpectedKeys(cfg)
        late == {key \in DOMAIN tensors : key[1] = cfg.num_hidden_layers - 1}
    IN  [dir |-> TRUE, index |-> {1, 2},
         files |-> 1 :> [key \in DOMAIN tensors \ late |-> tensors[key]]
                       @@ 2 :> [key \in late |-> tensors[key]]]

Wrong == <<8>>
LmHead == <<Outside, "lm_head">>

Disks(cfg) ==
    {Good(cfg), Sharded(cfg),
     [Good(cfg) EXCEPT !.dir = FALSE],
     [Sharded(cfg) EXCEPT !.files = 1 :> @[1]],                 \* a shard is gone
     [Sharded(cfg) EXCEPT !.index = {1}],                       \* not in the index
     [Sharded(cfg) EXCEPT !.index = {}],                        \* no index
     Single(LmHead :> <<cfg.vocab_size, cfg.hidden_size>> @@ ExpectedKeys(cfg)),
     Single(ExpectedKeys(cfg) @@ (<<Outside, "extra">> :> Wrong))}
    \cup {Single([ExpectedKeys(cfg) EXCEPT ![key] = Wrong]) :
              key \in {<<Outside, "final_norm">>, <<cfg.num_hidden_layers - 1, "k_proj">>}}
    \cup {Single([key \in DOMAIN ExpectedKeys(cfg) \ {gone} |-> ExpectedKeys(cfg)[key]]) :
              gone \in {<<Outside, "embed_tokens">>, <<0, "q_proj_bias">>}}
    \cup {[Sharded(cfg) EXCEPT !.files[2] = @ @@ (<<0, "o_proj">> :> Wrong)]}

Base == [program |-> "", args |-> <<>>, target |-> Cfg7B, draft |-> Cfg05B,
         targetDisk |-> Sharded(Cfg7B), draftDisk |-> Good(Cfg05B),
         device |-> 0, batch |-> 1, reserve |-> 512 * Mib]

Only(model) == [model |-> model]
Planned(model) == [Base EXCEPT !.program = "planned", !.args = Only(model)]

Loads ==
    {[Planned("target") EXCEPT !.targetDisk = d] : d \in Disks(Cfg7B)}
        \cup {[Planned("draft") EXCEPT !.draftDisk = d] : d \in Disks(Cfg05B)}
        \cup {[Planned("target") EXCEPT !.target.num_key_value_heads = 3],
              [Planned("draft") EXCEPT !.draft = Cfg7B, !.draftDisk = Good(Cfg7B)],
              [Planned("draft") EXCEPT !.draft.hidden_size = 840, !.draftDisk =
                   Good([Cfg05B EXCEPT !.hidden_size = 840])]}

Plans == {[Planned(model) EXCEPT !.reserve = r * Mib, !.batch = b, !.device = d] :
              model \in {"target", "draft"}, r \in {0, 512, 1024, 9216, 12288}, b \in {0, 1, 2}, d \in Devices}

Fixed == {[Base EXCEPT !.program = p] :
              p \in {"phase4_graph_decode", "draft_graph_decode", "phase0_graph_probe",
                     "phase0_graph_diag", "spec_decode_bench"}}

Captures ==
    {[Base EXCEPT !.program = "profile_forward", !.batch = b,
        !.args = [model |-> m, seq |-> s, steps |-> k, forward |-> f, gamma |-> g]] :
        m \in {"target", "draft"}, s \in {1, 512}, k \in {1, 8, 20}, f \in {"decode", "verify"},
        g \in {1, 4, 8, 9}, b \in {1, 2}}

Sweeps ==
    {[Base EXCEPT !.program = "sweep",
        !.args = [model |-> m, seqs |-> q, steps |-> k, reps |-> r]] :
        m \in {"target", "draft"}, q \in {<<128, 512, 1024, 2048>>, <<64, 1>>, <<7>>},
        k \in {1, 8, 32}, r \in {0, 3}}

Specdecs ==
    {[Base EXCEPT !.program = "specdec_bench",
        !.args = [prompts |-> <<40, 90>>, gammas |-> g, n |-> n, warmup |-> t[1], trials |-> t[2],
                  maxSeq |-> m, phases |-> p]] :
        g \in {<<2, 8>>, <<9>>}, n \in {0, 128}, t \in {<<1, 0>>, <<1, 1>>, <<-1, 1>>}, m \in {0, 225, 226, 2048},
        p \in {{"single"}, {"mpi"}, {"single", "mpi"}}}

MCLaunches == Loads \cup Plans \cup Fixed \cup Captures \cup Sweeps \cup Specdecs
MCPlannedLaunches == {Planned("target"), Planned("draft")}
=============================================================================
