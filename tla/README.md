# Speculative decoding for Qwen2.5: TLA+ models and proofs

The program under `src/` decodes text with a large target model (7B) helped by a
small draft model (0.5B), on one GPU or on two GPUs driven by two MPI ranks. Its own
parts are a KV-cache executor, the speculative protocol on top of it, CUDA-graph
variants of the forwards, hand-written kernels, a memory plan, and the prototypes,
benchmarks and tools around them. This directory holds TLA+ models of those parts, TLC
configurations that check them, and proofs checked by TLAPS. Paths below are relative
to `src/`.

Run a configuration with `tlc -config SpecDecode_dirty.cfg MCSpecDecode` and a proof
module with `tlapm SpecDecode_proofs.tla`. `PROJECT.json` lists the components, the
runs with their properties, the source lines behind each definition, the hazards the
properties are aimed at, and for every property a small bug in the model of the code
that breaks it.

## 1. The system

| Component | State it keeps | Operations | Interacts with |
|---|---|---|---|
| Executor, `runtime/executor.py` | host cursor `_cache_pos`, its device mirror `buffers.cache_position`, KV slots, `_p1_logits`, `_pending_bonus` | `prefill`, `decode_step`, `verify_gamma`, `rollback_cache`, `defer_bonus_token`, `take_pending_bonus`, `commit_pending_bonus` | called by the target step and the draft runner; launches kernels |
| Target step, `runtime/speculative/target_step.py` | none | one VERIFY forward, accept / reject, rollback, defer the bonus; flush | executor, sampler |
| Draft runner, `draft_runner.py` | `_last_logits`, `_prefix_len` | `prefill`, `generate_drafts`, `apply_target_feedback` | its own executor |
| Single-process driver, `spec_decode.py` | token list | rounds until n tokens exist, then flush | both of the above |
| Sampler, `sampler.py` | none | `sample_from_probs`, `speculative_acceptance` | target step, draft runner |
| Two-rank coordinator, `mpi_coordinator.py`, `mpi_protocol.py` | per rank: text, step, executor | payload (ids, logits) one way, result the other, barrier, gather, exit code | MPI |
| Graph executor, `executor_graph.py`, `buffers.py` | static buffers, captured graphs, live output buffers | `decode_step_static`, `decode_step_graph`, `verify_gamma_graph`, capture on a second stream | CUDA streams; same KV cache as the eager calls |
| Buffers, `buffers.py` | KV cache, rotary tables, activation and graph buffers | allocation, rows of the rotary tables | executor |
| Attention kernels, `production_kernels/*/attention/kernel.cu` | shared memory, split scratch | prefill flash attention; decode / verify attention, split over the cache and combined; rotary embedding and KV write | KV cache |
| Other kernels (rmsnorm, swiglu, residual, embedding, head) | none | element-wise or block reductions, cuBLAS | executor |
| Bindings and wrappers, `production_kernels/*/*/bindings.cpp`, `ops.py` | none | argument checks, dispatch | executor, kernels |
| Configuration, shapes, memory plan, weights, `core/` | configuration, weights | layer order, `validate`, byte counts, longest sequence for a budget, `load_weights` | executor, tools |
| Mock prototype and transfer benchmark, `mpi_prototype/` | per rank: prefix, deferred bonus, timing lists | the protocol over mock distributions; timed transfers | MPI |
| Benchmark workers, `benchmarks/_specdec_worker.py` | executors reused by every trial | single-process and two-rank trials, barriers, results | coordinator, driver |
| Benchmarks and tools, `benchmarks/`, `tools/` | executors, kept logits | eager against graph comparisons, profiles, sweeps, the Hugging Face baseline | executor, memory plan |
| `kernel_dev/` | none | earlier kernels, the Hugging Face model they are compared with | |
| Build and cluster scripts | none | compiling, SLURM jobs | |

What is hard about it:

- **Two caches, two cursors.** `rollback_cache` moves only a cursor; rejected keys and
  values stay behind. The target keeps the last token of the text *deferred* (its
  key is not in the cache yet) and bundles it with the next verify, the draft
  commits it at once. Every index in the protocol is right only if these two
  conventions stay exactly one token apart, through acceptances, refusals, raises and
  the next request on the same executors.
- **Partial failures.** `prefill` resets before it checks that the prompt fits,
  `take_pending_bonus` pops before `verify_gamma` validates, the draft may refuse a
  token the target has already accepted.
- **Two ranks** that each believe to know the other's text, blocking sends that may or
  may not return before they are received, and a rank that raises without telling.
- **An asynchronous device.** A replayed graph reads static buffers when it runs, not
  when it is called; its output buffer is shared with other graphs; capture warms up
  on another stream, writing the same KV cache.
- **Memory.** The plan, the shapes, the weights check and the executor each write the
  same sizes and names down separately, and several models may share a device.
- **Kernels.** Splits that may be empty, padded tiles, shared memory reused between
  barriers, scratch that is not initialized.
- **Sampling**, where a mistake only changes a distribution.

For each component the correctness properties are: the executor and the protocol
never attend to a stale slot, compare distributions of the same text, emit only what
the target could have said, never run out of slots they have, and end; a forward
computes the reference model's logits whichever kernels it picks; the ranks stay
in lockstep and do not deadlock; the graph paths are indistinguishable from the
eager ones; the kernels compute exactly causal softmax attention without races; the
sampler keeps the target's distribution; a planned length is the longest that fits; a
benchmark measures and compares what it says it does, inside the buffers it allocated.

## 2. Modules

| Module | Models | Uses |
|---|---|---|
| `KVExecutor` | one executor, as operators on a record | |
| `AbstractDecode` | what a caller of `speculative_generate` is promised | |
| `SpecDecode` | driver, target step and draft runner over two executors | `KVExecutor`, refines `AbstractDecode` |
| `LockstepText` | what the two ranks do to their texts | |
| `MpiSpecDecode` | both rank programs and their messages | `KVExecutor`, refines `LockstepText` |
| `GraphExecutor` | static and graph calls on two device streams | `KVExecutor` as the eager reference |
| `OnlineSoftmax` | exact arithmetic of a running softmax | |
| `DecodeAttention` | small-query attention: split kernel, single block, combine | `OnlineSoftmax` |
| `FlashAttention` | prefill attention | `OnlineSoftmax` |
| `Sampler` | accept / reject, adjusted distribution, resampling | |
| `Qwen2Reference` | the Hugging Face model, on symbolic terms | |
| `MemoryPlan` | configuration, shapes, bytes, the longest sequence for a budget | |
| `KernelContract` | what every kernel call requires of its arguments, and what the executor passes | `MemoryPlan` |
| `DecoderForward` | one forward, from token ids to logits, and the calls around it | `KernelContract`, `Qwen2Reference`; implements `KVExecutor` |
| `RankPrograms` | mock prototype, transfer benchmark and benchmark worker, on two ranks | |
| `BenchSuite` | bring-up from a checkpoint, and the single-rank programs | `MemoryPlan` |
| `MC*` | the small instance of each, for TLC | |
| `KVExecutor_proofs` | lemmas about the executor and about texts | TLAPS |
| `SpecDecode_proofs` | theorems about the single-process driver | `KVExecutor_proofs` |
| `MpiSpecDecode_proofs` | theorems about the two ranks: channels (counts, sizes, types) and data (texts, rows, caches, budget, exit code, refinement) | `KVExecutor_proofs` |
| `GraphExecutor_proofs` | the graph executor computes what the eager one does | `KVExecutor_proofs` |
| `FlashAttention_proofs`, `DecodeAttention_proofs` | the attention kernels have no race and compute the softmax of the text | TLAPS |
| `FiniteSums_proofs` | speculation keeps the target's distribution; the planned length is tight, what is looked up was validated, no program outgrows its buffers | TLAPS |
| `RankPrograms_proofs` | theorems about the prototype, the transfer benchmark and the worker | TLAPS |

**Executor.** A KV slot holds the token sequence its key and value were computed from,
and a row of logits is the context attention read to compute it. That is all the
protocol can tell apart, and it shows staleness directly: a slot is right exactly
when it holds the prefix of the text that ends there (`Coherent`). `Forward` is
`_forward_stack` with the cursor update of `_advance_cache_pos`, including its two
ways to move the device mirror (`add_` for one token, `fill_` for several).

**Protocol.** `SpecDecode` has one action per executor call of
`speculative_generate`, in program order (`pc`), and one more for each place where
that call raises. `AcceptDrafts` is everything `target_speculative_step` does after
the rows are known: choose n, roll back, defer the bonus, extend the text. A draft
that fails the test may be refused for any reason when sampling (`Accepts`); the
probabilities are the subject of `Sampler`. `Support` gives the tokens the target's
distribution can produce; that an accepted token is always in it relies on
`rng.random()` not returning 0.0 (see findings). A new request may start after a
return or a raise, as `benchmarks/_specdec_worker.py` serves them, so caches start dirty.

**Ranks.** In `MpiSpecDecode` a rank's computation between two MPI calls is one action
and a send is two, posting and returning; it returns at once or only after its
receive (`eager`, which MPI chooses and the program cannot know). Messages with one
tag stay in order. A rank that raises stops for good. The target's own verify
overflow has no action: with one `--max-seq` the draft always runs out first, which
is a conjunct of `BudgetSuffices`.

**Graphs.** The host appends operations to a stream, the device takes them off later.
Eager kernels carry their cursor as an argument, captured ones read it from the
device. Every output buffer loses its contents when another graph replays, because
the graphs share a memory pool. `eager` is an executor of `KVExecutor` given the same
calls synchronously, the reference for everything.

**Kernels.** What a thread (`DecodeAttention`) or warp (`FlashAttention`) does between
two barriers is one action. `RaceFree` is what justifies that grain: it checks, on the
words of shared memory touched in each phase, that threads between the same barriers do not
conflict. A barrier only opens when every thread is at that same one, so a divergent
barrier, undefined in CUDA, is a hang here, and `RaceFree` also says that no thread waits
at a barrier another one of its block has left behind or will never reach.
`OnlineSoftmax` keeps, for each key, the exponent of its term in the running sum, so a
key that is missing, counted twice or scaled to the wrong maximum is visible.
Uninitialized shared memory and scratch hold values no kernel may have computed.

**Sampler.** Probabilities are shares of `Unit`, random numbers one of `Grid` values;
`Lossless` counts all drafts and all random numbers and compares the frequencies of the
next token with the target's row, after every accepted prefix. `Grid` is a multiple of
twice every share, so that each threshold falls on an even value and the odd ones, which
`Lossless` counts, are shared out exactly; 0 is not drawn (see findings).

**Forward.** `DecoderForward` opens the box `KVExecutor` draws around a forward. A row of
activations is the expression that computed it; `Qwen2Reference` gives the expression
of the reference model, and a row that is that expression is replaced by a short name,
so that a wrong mask, cache slot, angle, head, residual or weight shows as a row that does
not collapse. `WrittenK` and `WrittenV` compute the flat source and destination of every
element the scatter kernel writes, `KRows` and `VRows` read the cache back by (head,
slot). `LayerStep` interprets the configured `layer_order`, its raises included. The
variable `abs` takes `KVExecutor`'s step for the same call; `ImplementsKVExecutor`
relates the two after every step. It is the link by which the results about `SpecDecode`
reach the tensors. `Refusals` asks `KernelContract` which kernels refuse the shapes of
the shipped models; the arithmetic itself runs on four heads of four lanes.
`run_decoder_layer`, the parity-test entry, leaves the cursor where it is, and
`HfPrefill` / `HfStep` run the reference with its own cache, which checks that the
reference agrees with itself before the runtime is compared with it.

**Rank programs.** In `RankPrograms` each rank stands at an operation (`pc`) of the program
it was launched with; what comes after an operation is a table per program, and the heads
of the loops are operations of their own, with counters (`turn`, `job`). A blocking MPI
call is `posted` and returns later. The n-th collective of one rank meets the n-th of the
other, which is how MPI matches them: two ranks that disagree on what it is would be seen
to mix a barrier with a gather. The worker's target may sample any id of its padded head
(`TargetVocab`); one beyond the draft's vocabulary raises on rank 1 when it has counted the
round and before it rolls back (`CannotEmbed`), and rank 0 then waits for good.

**Bring-up and benchmarks.** `BenchSuite` takes a program as phases of processes: load
(`LoadRaw`, `ValidateWeights`), plan, allocate, stack the QKV weights, then the calls the
program makes, each an executor step on cursor and buffer length. `held` counts device
memory, in units of 16 bytes. A comparison keeps, with each logits row, the calls since
the prefill that led to it.

## 3. Runs

| Run | States | Question |
|---|---|---|
| `spec_dirty` | 16 thousand | Two requests in a row, the second on dirty caches, target cache the smaller one: stale slots, row alignment, output, capacity, refinement of `AbstractDecode` |
| `spec_tight` | 7 thousand | Requests that do not all fit, draft cache the smaller one: the inductive invariant, and that every request ends |
| `mpi_ranks` | 36 thousand | All interleavings of the two ranks, all sends blocking or all free to return early: channels, payloads, caches, lockstep, exit code, termination |
| `graph_streams` | 721 thousand | Any mix of five eager, static and graph calls with the device any distance behind |
| `decode_attn` | 41 thousand | Every launch on a cache of seven slots, eager and captured, one to three splits, every order of threads and blocks |
| `flash_attn` | 6.5 thousand | Every prefill or tail of a text of up to seven keys, two warps, four tiles |
| `sampler` | 2.2 thousand | All rows of thirds: three tokens with one draft, two tokens with two |
| `rank_programs` | 319 thousand | The mock prototype, the transfer benchmark and the two-rank worker, 639 launches: rounds agree, nothing is timed across a barrier, samples pair up, caches suffice, both ranks end or one has left on one of four errors the other does not meet |
| `mock_rows` | violation | The accept test of the prototype uses the row each draft was drawn from |
| `forward` | 4.2 thousand | Every order of prefill, verify, decode, single layers and rollbacks, eager and static, against the reference; bundles of every length from one to nine for both models; every layer order one edit from the shipped one; both attentions of the Hugging Face model |
| `bench` | 7 thousand | Every single-rank program, checkpoint and argument list: planned lengths, names and shapes the forward looks up, buffers, comparisons |
| `planned_length` | violation | The 7B model comes up at the length its own budget plans |

The deepest of these properties, each found by reading what two places of the code
assume of each other: `RowsAligned` and `CacheMatchesText` (target and draft one token
apart), `RefinesAbstract` and `RefinesLockstep`, `SettledLikeEager` (whatever the streams
do, the device ends where the eager executor is), `OutputExact` with `RaceFree`,
`Lossless`, `ImplementsKVExecutor`, `NothingCrossesABarrier`, `PlannedLengthTight`.

Bounds, and why they are enough to matter:

- Three tokens, of which the draft can embed two, so that the target can produce one
  the draft must refuse. `Argmax` and `Support` depend on the whole context, so a row
  computed from a wrong context gives a wrong token and not the right one by luck.
- gamma up to 3 and up to 4 new tokens: rounds that accept none, some and all drafts,
  with and without a bundled bonus, in any order. Caches of 5 to 7 slots: every call
  that can overflow does in one of the two runs (target verify, flush and prefill in
  `spec_dirty`, draft decode, feedback and both prefills in `spec_tight`), while
  requests within the budget exist in both. `MaxJobs = 2` makes the second request find
  whatever a first one can leave.
- `mpi_ranks`: 0, 2 and 3 steps, one prompt too long for the cache, caches that some
  command lines overflow. Two steps are the least for a round with a bundled bonus.
- `graph_streams`: `MaxCalls = 5` is enough to prefill, capture two graphs, come back to
  the first and copy a row; `WarmUps = 2` to run the warm-up on what a warm-up left.
- Kernels: a cache of seven slots, tiles of two keys, up to three splits: an empty
  split, a partial tile, and one or several tiles in a split all occur. Scores rise, fall
  or jump, so that the running maximum changes in every way.
- `sampler`: shares of one third reject, accept and resample in every combination, with
  rows that have no share for a token on either side; `Grid` is the least that puts every
  threshold on an even value.
- `forward`: two layers, four heads over two key-value heads (grouped attention has to
  pick the right one), four lanes (two rotated pairs), vectors of two lanes. Two tokens
  and three slots give every order of calls with different texts in the same slot; one
  token and up to ten slots give, for the target and for the draft, a bundle of every
  length from one to nine, the longest the verify kernels take, so that each case of the
  two dispatch switches is asked for.
- `rank_programs`: up to two rounds, two jobs, two trials after one warm-up, zero to two
  GPUs; worker caches from too small for the prompt to large enough; a target vocabulary
  of one id the draft can embed and one it cannot, so that every round may end in a bonus
  the draft refuses. `LeavesAlone` names the errors only one rank meets: no GPU of its
  own, no timed trial, a cache too small, a bonus it cannot embed. `BothEnd` asks that
  without one of these having happened both ranks end, whatever the launch.
- `bench`: the real dimensions and 24 GiB; 13 checkpoints per model (a missing,
  duplicated, misshapen or surplus tensor, a missing shard, index or directory), five
  reserves, two batches, two devices, and for each program the arguments on both sides of
  each of its comparisons. `TotalMemory` is in units of 16 bytes because TLC's integers
  have 32 bits.

Deadlock checking is off where the modelled program may stop: requests are used up
(`MaxJobs`, `MaxCalls`), launches end, and a rank that raised leaves its peer waiting for
good, which is what the code does. That nothing stops too early is the business of
`EveryRequestEnds`, `EndsUnlessRaised`, `BothEnd` and, for the kernels,
the barrier part of `RaceFree`. In `forward` it is on: there is always a next call.

Fairness is weak fairness of: the steps of the single-process driver (a sequential
program, `SpecDecode`); each rank's own steps, which are disabled while an MPI call
cannot return (`MpiSpecDecode`, `RankPrograms`). None is assumed for starting requests. No liveness is
claimed of the device streams or the kernels.

## 4. Proofs

`SpecDecode_proofs` proves for every vocabulary, target, request set, cache size and
number of requests (under `NoTokenAssumption` and `SpecDecodeAssumption`):

| Theorem | States |
|---|---|
| `TypeCorrect` | `TypeOK`: the cursors stay inside the caches |
| `NoStaleSlot` | `CacheMatchesText`: no forward attends to a stale slot |
| `AcceptanceAligned` | `RowsAligned`: p_i and q_i follow the same text |
| `OutputIsTargets` | `OutputSanctioned`: every token is one the target could produce |
| `CapacityBound` | `BudgetSuffices`: prompt + n + gamma slots are enough |
| `CursorAgreement` | `CursorsAgree`, `FeedbackAgrees`, `DeferNeverRaises` |
| `ReturnCorrect` | `ReturnsWhatWasAsked` |
| `Invariance` | `IInv` itself |
| `Refinement` | `RefinesAbstract`: the driver implements `AbstractDecode` |

The argument. None of these is inductive alone: rows are aligned because the caches
match the text, the caches match because the cursors stand where they should, and the
cursors stand there because of what each phase of a round has done. `IInv` is the
conjunction of the properties with three strengthenings: `LoopInv` (a running request has
not raised, how long its text is, and that a round only starts while tokens are missing),
`DraftingInv` (how far the drafting of a round has come and what each collected row
follows) and `RoundInv` (where the target's cursor and the kept rows stand in each
phase). `InitInv` shows it initially; there is one lemma per action (`StartJobInv`,
`DraftDecodeInv`, `VerifyGammaInv`, `AcceptDraftsInv`, ...) and `NextInv` puts them
together. `KVExecutor_proofs` holds the facts about the executor they rest on: a row read
over a coherent cache is a prefix of the text (`RowIsPrefix`), a forward extends coherence
(`ForwardCoherent`), a rollback keeps it (`RollbackOnly`, `CoherentShorter`), and coherence
depends only on the prefix below the cursor (`CoherentAgree`). `StepRefines` maps
each step to one of `AbstractDecode` or a stutter: only `AcceptDrafts` emits, only the
flush returns.

`MpiSpecDecode_proofs` proves, for every vocabulary, job, cache size, prompt and choice
of eager sends (under `MpiAssumption`):

| Theorem | States |
|---|---|
| `ProtocolHolds` | `ProtocolInv`: types, what each channel holds, one round in flight, sizes of payloads and results, cursors inside the caches |

The argument. The interesting conjunct is `OneRoundInFlight`: no two messages of a
kind are ever under way, and no payload together with a result, whatever MPI does with a
send and whichever rank stops. It is not inductive. What is, is
counting: each channel holds exactly what the sender has sent minus what the receiver has
read, both read off the program counters and the round numbers (`ChannelsCount`). With
the types, all lengths are natural numbers, so neither rank can be ahead by more than
the order of its own program allows, and `CountsBound` derives `OneRoundInFlight` from
the six counts by arithmetic alone. `Core` (types, counts, `RoundsAndSizes`) is
preserved by each action (`GenerateDraftsCore`, `RecvResultCore`, `TargetStepCore`, ...);
frame lemmas (`TargetFrame`, `DraftFrame`, `NetFrame`, `ChannelMoveCore`) carry the parts
an action does not touch. `KVExecutor_proofs` adds the types of what an executor call
returns (`ForwardType`, `PrefillType`, `CommitType`).

It also proves, under the same assumptions and for every sampler:

| Theorem | States |
|---|---|
| `Agreement` | `AgreementInv`, the inductive invariant |
| `RanksAgree` | `MessagesAgree`: each message is what its reader takes it for, and the texts are a round apart at most |
| `NoStaleSlot` | `CachesMatchText`: both caches hold their text, whatever was rolled back |
| `CapacityBound` | `BudgetSuffices`: prompt + steps (gamma + 1) slots and neither rank raises |
| `ExitCode` | `ExitCodeMeans`: exit 0 only with equal texts of the length asked for |
| `Refinement` | `RefinesLockstep`: the ranks implement `LockstepText` |

The argument. A payload outlives the program counter that sent it, so the agreement of the
ranks cannot be said of their variables alone: `AgreementInv` (in `MpiSpecDecode`, next to
the properties) says, for each phase, what a rank holds that the other still has to read.
`Lead` is the longer of the two texts, `RoundsMade` the rounds in it; `TextBounds` bounds
its length by the rounds made, `TargetStands` and `DraftStands` say where cursor, cache,
bonus and rows stand in each phase, `TextsInStep` and `MessagesCurrent` relate the two
ranks and what is under way. From the counts of `Core` follows which rank leads, so a
message can be compared with the variables of its sender. Each action has a lemma
(`GenerateDraftsAgrees`, `TargetStepAgrees`, `ApplyTargetFeedbackAgrees`, ...), each raise
one that shows the budget was too small. TLC checked
`AgreementInv` on the instance of `mpi_ranks` before it was proved.

`GraphExecutor_proofs` proves, for every set of graphs, cache size, number of rows and of
warm-ups, and any number of calls:

| Theorem | States |
|---|---|
| `Invariance` | `IInv`, the inductive invariant |
| `Clones` | `ClonesWhatEagerReturns` |
| `Settled` | `SettledLikeEager` |
| `CommittedSlotsSafe` | `WarmUpHarmless` |

The argument. While the device is behind, its memory says nothing of what the host has
been promised; what must hold is that running the operations still queued leads there.
`Runs(d, q, e)` says that the queue `q`, started on the memory `d`, ends in `e` with every
operation finding what it needs: a replay its prepared input, a copy the logits it was
promised. `Foreseen` is: the main stream runs from now to a memory that `Agrees` with the
eager executor's cache, cursor and device position, or, during a capture, to one where the
captured call is still `Due`. Host calls extend the queue (`Enqueue`), the device takes its head (`RunsHead`),
and both keep it. `Streams` describes the queues themselves (no event is waited for that
the other stream will not record), and that a warm-up only rewrites the slots of its own
call with the rows it computes again (`ForwardTwice`). TLC checked `IInv` on the 721
thousand states of `graph_streams` first.

`FlashAttention_proofs` and `DecodeAttention_proofs` prove, for every number of warps or
threads, every tile, head dimension and split, and every list of calls whose scores lie
within `MaxScore` (under `SoftmaxAssumption` and `FlashAssumption` or `DecodeAssumption`):

| Theorem | States |
|---|---|
| `Invariance` | `IInv`, where the threads of a block are |
| `NoRace` | `RaceFree`: no conflicting accesses between two barriers, no divergent barrier |
| `SoftmaxOfTheText` | `OutputExact`: each output is the softmax of its row over the keys it may see |

`NoRace`. The threads of a block are between the same two barriers with the same tile
(`Together`), or past the last one (`Leaving`), where nothing is written. In one phase
each word has one writer: the thread its index falls to in a loop over the threads, the
warp that owns its row, the thread of its channel. That a row and a column determine an
address (`OnePlace`, `OneRow`) needs `PStride >= KvBlock`, which the kernel's padding gives.

`SoftmaxOfTheText`. The invariant `Exact` is `IInv` with `Data`, which says what the block
has in its shared memory in each phase. After n tiles the sum of a row is the sum over the
keys of those tiles the row may see, relative to one finite maximum, or there is no such key
yet, the maximum is -inf and the sum empty. A tile keeps that: the sum so far moves to the
new maximum (`Rescaled`), the tile's is over other keys (`Added`), and each key has one
place in the tile (`RowFolds`, `RowTerms`, `WeightedTerms`). In the prefill kernel a warp
does this for its own rows. In the decode kernel the thread of a row moves the denominator
and the threads of the channels the accumulators, one barrier later: between the two an
accumulator is one tile behind and `corr` is what makes up for it (`Behind`). A block that
has ended holds the softmax of the keys of its split (`PartStands`, which also covers a
split past the row's last key, whose maximum is -inf); every key is in exactly one split
(`SplitOf`), so the combine kernel's sums are those of the whole text (`MergedIs`), and a
single block's split is the whole text (`OneSplit`). The maximum of a tile and the
split of a key exist because a bounded set of integers has a largest element and by
division (`LargestExists`, `PlaceRow`). TLC checked `Data` on every state of `decode_attn`
and `flash_attn` first. `MaxScore` only places -inf below every score and every difference
of two: any bound will do. Both modules begin with the same lemmas about running sums and
about indices, each about the `OnlineSoftmax` of its own instance.

`FiniteSums_proofs` proves of the sampler, for every vocabulary, gamma, pair of models and grid of random
numbers (under `SamplerAssumption`):

| Theorem | States |
|---|---|
| `Invariance` | `IInv`: the case stays, the drafts are ones the draft's rows can give, a result is one of `speculative_acceptance` |
| `NoTokenIsImpossible` | `NoImpossibleToken`: no token of share 0 is accepted, resampled or drawn |
| `NothingIsLost` | `Lossless`: after whatever was accepted the next token has the distribution of the target's row |

The argument. `Lossless` compares counts over all drafts and all random numbers, so most of
the work is counting. The folds behind `Mass`, `Count` and `DraftWeight` are shown to be
functions on the subsets of a finite set (`FoldExists`, `FoldStep`), from which sums can be
taken class by class (`SumByClass`) and elements counted by what they map to
(`CountFibers`); induction over those subsets is by a least counterexample
(`FiniteInduction`), as the library's induction schemes are out of reach. Then, after j
accepted drafts: a row gives a token by as many odd random numbers as its share
(`SampledOften`); a draft passes its test by min(p, q) out of q of them (`PassedOften`);
every pair of the next test and the last random number comes equally often among the runs
that accept j drafts (`PairsAlike`); and the drafts that go on with y weigh as much as q says
(`ClassesWeigh`). So t comes min(p, q) times as an accepted draft and, weighted by the mass
of the rejected, max(0, p - q) times as a replacement (`GivingCounted`, `GivenInAll`): p in
all (`CountBefore`). When every draft is accepted the last token is drawn from p itself
(`LastAlike`, `CountAtEnd`). `Lossless` is about exact shares; the rounding of fp32 softmax
and of the running cdf is outside it.

Both specifications are read by this module, for the sums they share: that is why the
next-state relation of `Sampler` is `SamplerNext` and its specification `SamplerSpec`.
It also proves of the single-rank programs, for every GPU size and every launch, its
configurations, checkpoint, batch, reserve, device and arguments (under `BenchAssumption`):

| Theorem | States |
|---|---|
| `ProgramInvariance` | `ProgramInv`, the inductive invariant |
| `PlannedLengthIsTight` | `PlannedLengthTight`: the planned length leaves the reserve, but for the cursor, and one slot more would not |
| `OnlyValidatedIsLookedUp` | `LooksUpOnlyValidated`: names and shapes of what a forward looks up, and the total of the weights |
| `PlanIsLinear` | the buffers of n positions take n times those of one, and the cursor |
| `CallsInvariance` | `CallsInv`, the inductive invariant of the calls |
| `NoProgramOutgrowsItsBuffers` | `FitsItsBuffers`: no call of a program outgrows the buffers it sized, for all prompts, steps, gammas and repetitions |
| `ComparisonsAreFair` | `ComparesAtSameState`: eager and graphed logits that are compared follow the same calls |

The argument. The eleven buffers of the plan are linear in the length one by one
(`BufferBytesOf`), so their sum is (`PlanIsLinear`), and the quotient of budget and slope is
the longest length (`BudgetIsTight`). That says something of a program because nothing else
comes up on the process between the budget and the buffers, which is `PlanKept`; together
with `ModelsKnown` (a model has the fields its launch gave it, and what it has loaded was
validated) it is inductive: calls move cursors only (`CursorsMove`), and each stage of
bring-up has a lemma (`LoadKeeps`, `BudgetKeeps`, `BuffersKeep`, `ExecutorKeeps`).
`LoadedIsTotal` adds the tensors layer by layer, as `memory_report` does, and as
`total_weight_bytes` does.

A program's calls are a list as long as its arguments make it, put together by concatenating,
repeating and flattening, so what it does to the cursor needs induction over that list. It is
done on outlines: an outline bounds the cursor of the target (or only) model from above and,
where a comparison needs it, tells what its logits and the logits set aside follow. `Way(calls, s, t, limit)` says
that the calls lead from outline s to outline t in buffers as long as `limit` holds. One lemma
for each way of building a list (`WayJoins`, `WayFlat`, `WayRepeats`), one for each call
(`PrefillWay` to `GenerateWay`) and one for each program (`GraphDecodeFits`, `ProbeFits`,
`DiagFits`, `SpecDecodeFits`, `SpecdecFits`, `CaptureFits`, `SweepFits`) give that every phase of
every launch is a way from the empty cache (`PhasesFit`). `CallsInv` says that the calls left
are a way from an outline of where the program stands, unless it has been asked for more than
its buffers are sure to hold; each call takes one step of the way (`CallsGoOn`), and bringing
a model up leaves cursors alone (`BringUpGoes`). What a speculative generation needs is at
most prompt, new tokens and gamma. That a way exists is nothing TLC can
look for; it checks what `CallsInv` is for, the two properties, on the launches of `bench`.

Of `BenchAssumption` the proofs use that configurations, batches and reserves are numbers,
that a hidden row is at least 16 bytes, the unit memory is counted in, and that lengths are
not negative: `seq`, `gamma` and `seqs` (torch.randint raises), the number of tokens to
generate, and the sweep's decode steps. The last two argparse would take and the programs are
not meant for: a sweep of -10 steps sizes its buffers shorter than its prompt. All other
arguments are any integers.

`RankPrograms_proofs` proves, for every set of command lines, vocabulary and choice of eager
sends (under `RankAssumption`):

| Theorem | States |
|---|---|
| `Invariance` | `IInv`, the inductive invariant of the three programs |
| `TextsAgree` | `PrefixesAgree`: after equally many rounds the prototype's texts differ by the deferred token only, and its mismatch exit is never taken |
| `TargetVerifiesDraftText` | `VerifiesDraftText`: the rows the mock target verifies with are of the draft's text |
| `BarriersKeepApart` | `NothingCrossesABarrier`: the ranks meet in the same collectives in the same order, and no message is under way across one or behind another of its kind |
| `SamplesOfOneIteration` | `SamplesPaired`: the k-th entries of the gathered lists are all of iteration warmup + k |
| `WorkerNeverOverflows` | `WorkerFits`: with room for prompt, new tokens and gamma no cache fills up in any job; rank 0 raises only on the median of nothing, rank 1 only on a bonus the draft cannot embed |

The argument. The position of a rank gives, by the table of its program, how many
collectives it has entered and which (`MainEntered`, `BenchEntered`, `WorkerCollectives`); a
collective is left only when both have entered it, so the ranks are at most one apart, and
what lies between two collectives is the same stretch of program on both. Inside a stretch
the messages of each kind are counted by the two positions, as for the coordinator above:
one is under way or none, and it is the last one made. On that rest the data: the text a
rank has after so many rounds, the iteration a sample is of, and for the worker that cursor
and text have grown by what was accepted (`Counting`), so that a job that may start has
room to end. A rank that has raised or left keeps its counts, which covers the launches where one
rank goes and the other waits. TLC checked the parts of `IInv` on the launches of
`rank_programs` before they were proved.

Only model-checked:

- Liveness (`EveryRequestEnds`, `EndsUnlessRaised`, `BothEnd`), which is out
  of the prover's reach.
- `DecoderForward` (`LogitsAreReference`, `ImplementsKVExecutor`, `ResidualKept`,
  `BatchOneNeverRefused`): a row is a term as deep as the layers and lanes that made it, and
  what it is follows by induction over how it was built, which is out of the prover's
  reach. The run goes through every order of calls and the layer orders around the shipped one.
## 5. Findings

Two runs show a disagreement between the code and what the repository says of it:

1. `mock_rows`: `draft_gamma` of the prototype appends a row before the loop and draws draft i
   from a further one, so the accept test, which takes row i, uses the distribution of
   the draft before (`mpi_prototype/mock_models.py:46-53`; the rule is in
   `docs/speculative_decoding.md:24-25`). The prototype compares lengths and texts only.
2. `planned_length`: the executor stacks a copy of the QKV weights of every layer after the
   buffers are allocated (`runtime/executor.py:42-63, 114`), 882 MiB for the 7B model. The
   plan counts no copies and reserves 512 MiB, so the model does not come up at the
   length `vram_budget` plans for "production buffer sizing" (`core/weights.py:168`).

Read off the models, without a run of their own:

- `new_prefix_len` is one more than its docstring says when a bonus was bundled
  (`runtime/speculative/target_step.py:105`, `types.py:32-33`); its value is the length of
  the text, as the draft needs (`CursorsAgree`).
- The draft never generates ahead; the coordinator's docstring announces an overlap
  (`mpi_coordinator.py:9-11` against `:115`).
- `decode_step_static` is called numerically identical to `decode_step`, but a static launch
  takes its splits from `max_seq` and sums in other groups (`executor_graph.py:81-82`,
  `kernel.cu:1110`).
- With `--greedy` the coordinator drafts by argmax and tests the drafts against full rows
  (`mpi_coordinator.py:110`), which `docs/speculative_decoding.md:15` forbids.
- `rng.random()` may be 0.0, and then `r <= cdf` returns the first token though its
  probability is zero (`sampler.py:31`); `Sampler` leaves that one number out.
- `vram_budget` asks cuda:0, whichever device the model is on (`core/weights.py:236`);
  `PlannedLengthTight` holds for models on that device.
- The slope of `max_seq_len_for_budget` leaves out the 8-byte cursor
  (`core/memory.py:84`), hence the `CachePositionBytes` in `PlannedLengthTight`.
- A batch of two or more is always refused: the expanded rotary rows are not contiguous
  (`buffers.py:147`, `kernel.cu:153`). `profile_forward --batch 2` raises.
- The rotary write checks the shapes of the new keys and the key cache only, and its
  device variant cannot check the cursor (`kernel.cu:146-183`).
- `_specdec_worker` and `spec_decode_bench` put two models on one device, against
  `core/weights.py:3-6`, and the worker computes a budget it does not use (`:48`).
- A bonus in the padded tail of the target's head makes rank 1 of the worker raise after
  both ranks counted the round (`draft_runner.py:115-122`), and rank 0 wait for good.
- Comments of `profile_forward` say that prefill validates before it resets
  (`profile_forward.py:132-133, 176-178`); it resets first (`executor.py:418`), as the
  models do.
- No timed trial (`trials = 0`) makes rank 0 raise in `median` while rank 1 returns
  (`_specdec_worker.py:212`); one visible GPU makes rank 1 alone leave.
- The accept rate of a benchmark row is its last trial's, its time the median.
- `run_decoder_layer` does not call `_validate_input_ids`: only the write kernel keeps a
  single layer inside the cache. `rollback_cache` takes a position past the cursor.
- `validate` does not look at `layer_order`; an order without `post_attn_rmsnorm` is accepted
  and runs the MLP on the normed input (`executor.py:374-375`). `ResidualKept` holds for it.
- The ping-pong activation buffers are allocated, planned for and used by no forward.
- The baseline divides by n - 1 steps and counts the first token; it yields one token
  when asked for none (`hf_baseline.py:80-114`).

## 6. Not modelled

- Rounding: values are exact. Two computations that add the same terms count as equal.
- Lanes of a warp and matrix fragments in `FlashAttention`: lanes meet at every
  shuffle and `__syncwarp`, so a warp is the unit.
- The insides of the rmsnorm, swiglu, residual and embedding kernels and of the cuBLAS
  calls: each is a row-wise function, a term of `DecoderForward`. Their argument
  checks are modelled.
- The forwarding of arguments in bindings and wrappers; the fp16 and device checks, as one
  executor has one of each.
- The kernels, wrappers, just-in-time builds and micro-benchmarks under `kernel_dev/`,
  earlier copies of the production kernels. The draft's attention kernel is the
  target's with another `HeadDim`.
- Timing, statistics, report formatting, profiling ranges and environment checks of the
  benchmarks and tools; argument parsing.
- Tensor contents of a checkpoint: a tensor is its name and shape.
- `setup.py`, SLURM and shell scripts: building and job submission.

## 7. Plan

Done: the executor and the protocol, the ranks and the graphs with their proofs, the
attention kernels with the proofs that they do not race and compute the softmax, the
sampler with the proof that it loses nothing, the prototype, transfer benchmark and worker
with their proofs, the forward, the memory plan and bring-up with the proof that the plan is
tight, and the remaining programs.

The theorem to prove next: that the scatter of `DecoderForward` touches exactly the new slots
of each head, once.

To model, if it is to go further: the block reduction of rmsnorm and the vector / tail
split of the element-wise kernels.
