----------------------------- MODULE BenchSuite -----------------------------
(***************************************************************************)
(* The single-rank programs of the repository, from a checkpoint on disk   *)
(* to their last forward: runtime/core/weights.py and runtime/buffers.py   *)
(* bring executors up, and runtime/benchmarks, runtime/tools drive them.   *)
(*                                                                         *)
(* A program is a list of phases, each a set of processes that own the     *)
(* GPUs until they exit: the models they bring up, in order, and then the  *)
(* list of calls they make.  An executor is its cursor, the length of its  *)
(* buffers and the calls its logits came from; what a forward computes is  *)
(* DecoderForward's concern.  Memory is counted as in MemoryPlan.          *)
(***************************************************************************)
EXTENDS MemoryPlan

CONSTANTS Launches,      \* programs with their arguments, checkpoints and devices
          TotalMemory    \* of each GPU

Devices == {0, 1}

Programs == {"phase4_graph_decode", "draft_graph_decode", "phase0_graph_probe", "phase0_graph_diag",
             "spec_decode_bench", "specdec_bench", "profile_forward", "sweep", "planned"}

\* The arguments of the programs that take some.  Lengths and what is generated
\* or stepped are counts; the others are any integers.
CaptureArguments(a) == a.seq \in Nat /\ a.steps \in Int /\ a.gamma \in Nat
SweepArguments(a) == a.seqs \in Seq(Nat) /\ a.steps \in Nat /\ a.reps \in Int
SpecdecArguments(a) ==
    /\ a.prompts \in Seq(Nat) /\ a.gammas \in Seq(Int) /\ a.gammas # <<>>
    /\ a.n \in Nat /\ a.warmup \in Int /\ a.trials \in Int /\ a.maxSeq \in Int

Launchable(l) ==
    /\ l.program \in Programs
    /\ \A cfg \in {l.target, l.draft} : cfg \in RuntimeConfigs /\ cfg.hidden_size >= ElemsPerUnit
    /\ l.batch \in Int /\ l.reserve \in Int
    /\ l.program = "profile_forward" => CaptureArguments(l.args)
    /\ l.program = "sweep" => SweepArguments(l.args)
    /\ l.program = "specdec_bench" => SpecdecArguments(l.args)

ASSUME BenchAssumption == TotalMemory \in Nat /\ \A l \in Launches : Launchable(l)

VARIABLES launch,
          phase,     \* the phase running
          models,    \* the models of the phase, as far as they are up
          held,      \* process -> device -> memory its allocator has reserved
          todo,      \* the calls left
          kept,      \* the logits set aside for a comparison
          compared,  \* pairs of logits compared
          error,     \* why the phase stopped, "" while it has not
          outcomes   \* of the phases that ended

vars == <<launch, phase, models, held, todo, kept, compared, error, outcomes>>

-----------------------------------------------------------------------------
(* Checkpoints.  A disk maps file names, numbers that sort as the names do,*)
(* to the tensors in them; index lists the files of the weight map.        *)

Outside == -1     \* in place of a layer's number

FinalNames(cfg) ==
    {"embed_tokens", "final_norm"} \cup IF cfg.tie_word_embeddings THEN {} ELSE {"lm_head"}

ExpectedKeys(cfg) ==
    LET shapes == WeightShapes(cfg)
        layers == (0 .. cfg.num_hidden_layers - 1) \X LayerWeights
        names == ({Outside} \X FinalNames(cfg)) \cup layers
    IN  [key \in names |-> shapes[key[2]]]

SingleFile == 0

\* The files to read; {} when there is nothing to load.
ShardFiles(disk) ==
    IF disk.index # {} THEN disk.index
    ELSE IF SingleFile \in DOMAIN disk.files THEN {SingleFile} ELSE {}

\* Of tensors stored twice, the last file's counts.
LoadRaw(disk) ==
    FoldLeft(LAMBDA tensors, file : disk.files[file] @@ tensors, <<>>,
             SetToSortSeq(ShardFiles(disk), <))

\* Mutant: tensors are looked for, their shapes are not compared.
ValidateWeightsNames(weights, cfg) ==
    LET expected == ExpectedKeys(cfg) IN
    /\ DOMAIN expected \subseteq DOMAIN weights
    /\ cfg.tie_word_embeddings => <<Outside, "lm_head">> \notin DOMAIN weights

ValidateWeights(weights, cfg) ==
    LET expected == ExpectedKeys(cfg) IN
    /\ DOMAIN expected \subseteq DOMAIN weights
    /\ \A key \in DOMAIN expected : weights[key] = expected[key]
    /\ cfg.tie_word_embeddings => <<Outside, "lm_head">> \notin DOMAIN weights

\* What load_weights raises, "" if it returns.
LoadError(cfg, disk) ==
    CASE ~Validate(cfg) -> "invalid config"
      [] ~disk.dir \/ ShardFiles(disk) = {} -> "not found"
      [] ~ShardFiles(disk) \subseteq DOMAIN disk.files -> "not found"
      [] ~ValidateWeights(LoadRaw(disk), cfg) -> "invalid weights"
      [] OTHER -> ""

\* Only the expected tensors go to the device.
LoadWeights(cfg, disk) ==
    LET raw == LoadRaw(disk) IN [key \in DOMAIN ExpectedKeys(cfg) |-> raw[key]]

\* memory_report, layer by layer.
LoadedBytes(weights) ==
    LET OfLayer(layer) ==
            LET names == {key[2] : key \in {k \in DOMAIN weights : k[1] = layer}}
            IN  UnitsOf([name \in names |-> weights[<<layer, name>>]], names)
    IN  FoldSet(LAMBDA layer, sum : OfLayer(layer) + sum, 0, {key[1] : key \in DOMAIN weights})

-----------------------------------------------------------------------------
(* Memory *)

HeldOn(device) == FoldSet(LAMBDA p, sum : held[p][device] + sum, 0, DOMAIN held)

\* A process sees what its own allocator holds.
FreeBytes(proc, device) == TotalMemory - held[proc][device]

\* load_weights_on_gpu passes vram_budget no device: the snapshot is of cuda:0.
BudgetDevice == 0

VramBudget(m) ==
    MaxSeqLenAfterWeights(m.cfg, FreeBytes(m.proc, BudgetDevice), m.batch, m.reserve)

BufferBytes(m) == PlanRuntimeBytes(m.cfg, m.batch, m.max)

\* What allocate_buffers raises.
AllocateError(m) ==
    CASE m.batch <= 0 \/ m.max <= 0 -> "not positive"
      [] KvCacheHeadDim(m.cfg) # HeadDim(m.cfg) -> "padded head"
      [] OTHER -> ""

\* The stacked projections of every layer are copies, beside the weights.
StackedBytes(cfg) ==
    LET rows == cfg.hidden_size + 2 * KvDim(cfg)
    IN  cfg.num_hidden_layers * (Nbytes(<<rows, cfg.hidden_size>>) + Nbytes(<<rows>>))

AttnHeadDim == [target |-> 128, draft |-> 64]

\* The tensors a forward looks up by name.
LmHeadWeight(cfg) == IF cfg.tie_word_embeddings THEN "embed_tokens" ELSE "lm_head"
LookedUp(cfg) ==
    ({Outside} \X {"embed_tokens", "final_norm", LmHeadWeight(cfg)})
        \cup ((0 .. cfg.num_hidden_layers - 1) \X LayerWeights)

-----------------------------------------------------------------------------
(* The calls of the programs *)

Call(name, m, n) == <<[call |-> name, m |-> m, n |-> n]>>
Repeat(n, calls) == FlattenSeq([i \in 1 .. n |-> calls])

Prefill(m, n) == Call("prefill", m, n)
Decode(m, tokens, n) == Call(tokens, m, n)

\* _time_loop feeds each token back, _time_host_dispatch always the same one.
TimeLoop(m, n) == Decode(m, "argmax", n)
TimeHostDispatch(m, n) == Decode(m, "same", n)

\* Mutant: the second forward goes on from the first.
CorrectnessOneMore(prompt) ==
    Prefill(1, prompt) \o Decode(1, "same", 1) \o Call("keep", 1, 0)
        \o Decode(1, "same", 1) \o Call("check", 1, 0)

\* Next-token logits after the prompt, eager and then from the graph.
Correctness(prompt) ==
    Prefill(1, prompt) \o Decode(1, "same", 1) \o Call("keep", 1, 0)
        \o Prefill(1, prompt) \o Decode(1, "same", 1) \o Call("check", 1, 0)

\* Eager then graphed, each warmed up at the prompt's end; then the dispatch cost.
GraphDecode(prompt, warmup, n, dispatch) ==
    Repeat(2, Prefill(1, prompt) \o Decode(1, "same", warmup) \o TimeLoop(1, n))
        \o Prefill(1, prompt) \o TimeHostDispatch(1, dispatch)
        \o Prefill(1, prompt) \o Decode(1, "same", 1)
        \o Prefill(1, prompt) \o TimeHostDispatch(1, dispatch)
        \o Correctness(prompt)

DraftGraphDecode == GraphDecode(32, 8, 256, 64)
Phase4GraphDecode == GraphDecode(32, 4, 128, 64)

\* A decode forward at a fixed cursor; a capture runs nothing.
FixedForward == Call("fixed", 1, 1)

Phase0Probe ==
    Prefill(1, 32) \o TimeLoop(1, 4) \o TimeLoop(1, 64)
        \o Prefill(1, 32) \o FixedForward \o Call("keep", 1, 0) \o Repeat(4, FixedForward)
        \o Repeat(3, FixedForward \o Call("check", 1, 0))

\* The forward by itself, and three pieces of it: eager, warmed up, replayed.
Phase0Diag == Prefill(1, 32) \o Repeat(1 + 3 * (1 + 3 + 2), FixedForward)

\* The first token comes from the prefill.
GreedyExtend(m, prompt, n) ==
    IF n = 0 THEN <<>> ELSE Prefill(m, prompt) \o TimeLoop(m, n - 1)

SpeculativeGenerate(prompt, n, gamma) ==
    <<[call |-> "generate", m |-> 1, n |-> n, prompt |-> prompt, gamma |-> gamma]>>

\* Each measured once warm, the draft's graph off and then on.
SpecDecodeBench ==
    Repeat(2, GreedyExtend(1, 10, 96)) \o Repeat(4, SpeculativeGenerate(10, 96, 4))

Bigger(a, b) == IF a > b THEN a ELSE b

\* _timed, which takes the median of the trials; range() of a negative is empty.
Timed(a, calls) ==
    Repeat(Bigger(a.warmup, 0) + Bigger(a.trials, 0), calls) \o Call("median", 1, a.trials)

BaselineDecode(prompt, n) == Prefill(1, prompt) \o TimeLoop(1, n - 1)

RunSingle(a) ==
    FlattenSeq([p \in DOMAIN a.prompts |->
        Timed(a, BaselineDecode(a.prompts[p], a.n))
            \o FlattenSeq([g \in DOMAIN a.gammas |->
                   Timed(a, SpeculativeGenerate(a.prompts[p], a.n, a.gammas[g]))])])

\* The two-rank phase, whose protocol is RankPrograms'.
RunMpi(a) ==
    FlattenSeq([p \in DOMAIN a.prompts |-> FlattenSeq([g \in DOMAIN a.gammas |->
        Timed(a, SpeculativeGenerate(a.prompts[p], a.n, a.gammas[g]))])])

\* Mutant: a verify step is taken to write one token.
CaptureLengthOfSteps(a) == a.seq + Bigger(a.steps, 8) + 8

CaptureLength(a) ==
    a.seq + Bigger(a.steps, 8) * (IF a.forward = "decode" THEN 1 ELSE a.gamma) + 8

\* profile_forward: warm up, reset, then the captured prefill and steps.
ProfileForward(a) ==
    LET Steps(k) == IF a.forward = "decode" THEN TimeLoop(1, k)
                    ELSE Repeat(k, Call("verify", 1, a.gamma))
    IN  Prefill(1, a.seq) \o Steps(8) \o Call("reset", 1, 0) \o Prefill(1, a.seq) \o Steps(a.steps)

SweepLength(a) == FoldSeq(Bigger, 0, a.seqs) + a.steps + 8

\* benchmark_forward_sweep over the prompt lengths, on one set of buffers.
Sweep(a) ==
    FlattenSeq([i \in DOMAIN a.seqs |->
        Call("reset", 1, 0) \o Prefill(1, a.seqs[i]) \o TimeLoop(1, 8)
            \o Repeat(a.reps, Call("reset", 1, 0) \o Prefill(1, a.seqs[i]))
            \o Call("median", 1, a.reps) \o TimeLoop(1, a.steps)])

-----------------------------------------------------------------------------
(* The phases of a launch *)

Model(cfg, disk, kernels, device, proc, max, l) ==
    [cfg |-> cfg, disk |-> disk, kernels |-> kernels, device |-> device, proc |-> proc, max |-> max,
     batch |-> l.batch, reserve |-> l.reserve, planned |-> l.program = "planned",
     stage |-> "disk", weights |-> <<>>, pos |-> 0, from |-> <<>>]

Target(l, device, proc, max) == Model(l.target, l.targetDisk, "target", device, proc, max, l)
Draft(l, device, proc, max) == Model(l.draft, l.draftDisk, "draft", device, proc, max, l)

\* specdec_bench.py runs its worker once on one GPU and once on two ranks.
SpecdecBench(l) ==
    LET single == [models |-> <<Target(l, 0, 0, l.args.maxSeq), Draft(l, 0, 0, l.args.maxSeq)>>,
                   calls |-> RunSingle(l.args)]
        mpi    == [models |-> <<Target(l, 0, 0, l.args.maxSeq), Draft(l, 1, 1, l.args.maxSeq)>>,
                   calls |-> RunMpi(l.args)]
    IN  IF \E g \in ToSet(l.args.gammas) : g \notin 1 .. 8 THEN <<>>
        ELSE (IF "single" \in l.args.phases THEN <<single>> ELSE <<>>)
                 \o (IF "mpi" \in l.args.phases THEN <<mpi>> ELSE <<>>)

Phases(l) ==
    LET One(model, calls) == <<[models |-> <<model>>, calls |-> calls]>>
        Only(max) == IF l.args.model = "target" THEN Target(l, l.device, 0, max)
                     ELSE Draft(l, l.device, 0, max)
    IN  CASE l.program = "phase4_graph_decode" -> One(Target(l, 0, 0, 512), Phase4GraphDecode)
          [] l.program = "draft_graph_decode" -> One(Draft(l, 0, 0, 512), DraftGraphDecode)
          [] l.program = "phase0_graph_probe" -> One(Target(l, 0, 0, 256), Phase0Probe)
          [] l.program = "phase0_graph_diag" -> One(Target(l, 0, 0, 256), Phase0Diag)
          [] l.program = "spec_decode_bench" ->
                 <<[models |-> <<Target(l, 0, 0, 512), Draft(l, 0, 0, 512)>>, calls |-> SpecDecodeBench]>>
          [] l.program = "specdec_bench" -> SpecdecBench(l)
          [] l.program = "profile_forward" -> One(Only(CaptureLength(l.args)), ProfileForward(l.args))
          [] l.program = "sweep" -> One(Only(SweepLength(l.args)), Sweep(l.args))
          [] l.program = "planned" -> One(Only(0), Prefill(1, 1))

NothingHeld == [p \in {0, 1} |-> [d \in Devices |-> 0]]

Init ==
    /\ launch \in Launches
    /\ phase = 1
    /\ models = IF Phases(launch) = <<>> THEN <<>> ELSE Phases(launch)[1].models
    /\ todo = IF Phases(launch) = <<>> THEN <<>> ELSE Phases(launch)[1].calls
    /\ held = NothingHeld
    /\ kept = <<>> /\ compared = {} /\ error = "" /\ outcomes = <<>>

-----------------------------------------------------------------------------
(* Bringing a model up *)

Fail(why) == error' = why /\ UNCHANGED <<models, held>>

\* An allocation of bytes by model i's process, after which the model is m.
Allocate(i, bytes, m) ==
    IF bytes > TotalMemory - HeldOn(m.device) THEN Fail("out of memory")
    ELSE /\ held' = [held EXCEPT ![m.proc][m.device] = @ + bytes]
         /\ models' = [models EXCEPT ![i] = m]
         /\ UNCHANGED error

\* Model i is the next to come up, and is at this stage.
Turn(i, stage) ==
    /\ error = "" /\ models[i].stage = stage
    /\ \A j \in 1 .. i - 1 : models[j].stage = "ready"

LoadWeightsOnGpu(i) ==
    LET m == models[i]  why == LoadError(m.cfg, m.disk) IN
    /\ Turn(i, "disk")
    /\ IF why # "" THEN Fail(why)
       ELSE LET weights == LoadWeights(m.cfg, m.disk)
            IN  Allocate(i, LoadedBytes(weights), [m EXCEPT !.stage = "weights", !.weights = weights])
    /\ UNCHANGED <<launch, phase, todo, kept, compared, outcomes>>

\* The programs have lengths of their own and drop the budget; planning for no
\* sequence raises all the same.
TakeBudget(i) ==
    LET m == models[i] IN
    /\ Turn(i, "weights")
    /\ IF m.batch <= 0 THEN Fail("not positive")
       ELSE /\ models' = [models EXCEPT ![i].stage = "budget",
                             ![i].max = IF m.planned THEN VramBudget(m).max_seq_len ELSE m.max]
            /\ UNCHANGED <<held, error>>
    /\ UNCHANGED <<launch, phase, todo, kept, compared, outcomes>>

AllocateBuffers(i) ==
    LET m == models[i]  why == AllocateError(m) IN
    /\ Turn(i, "budget")
    /\ IF why # "" THEN Fail(why) ELSE Allocate(i, BufferBytes(m), [m EXCEPT !.stage = "buffers"])
    /\ UNCHANGED <<launch, phase, todo, kept, compared, outcomes>>

NewExecutor(i) ==
    LET m == models[i] IN
    /\ Turn(i, "buffers")
    /\ IF HeadDim(m.cfg) # AttnHeadDim[m.kernels] THEN Fail("wrong kernels")
       ELSE Allocate(i, StackedBytes(m.cfg), [m EXCEPT !.stage = "ready"])
    /\ UNCHANGED <<launch, phase, todo, kept, compared, outcomes>>

-----------------------------------------------------------------------------
(* The calls *)

At(name) ==
    /\ error = "" /\ todo # <<>> /\ Head(todo).call = name
    /\ \A i \in DOMAIN models : models[i].stage = "ready"

Done == todo' = Tail(todo) /\ UNCHANGED <<launch, phase, held, outcomes>>

\* n rows after x; the kernels take one sequence only.
ForwardError(m, x, n) ==
    CASE x.pos + n > m.max -> "overflow"
      [] m.batch # 1 -> "refused"
      [] OTHER -> ""

\* The cursor moves by n unless the forward raises; from is what its logits follow.
Advance(i, x, n, from) ==
    /\ error' = ForwardError(models[i], x, n)
    /\ models' = [models EXCEPT ![i] = IF error' = "" THEN [x EXCEPT !.pos = @ + n, !.from = from] ELSE x]
    /\ UNCHANGED <<kept, compared>>
    /\ Done

\* prefill empties the cache before it looks for room.
PrefillCall ==
    /\ At("prefill")
    /\ LET c == Head(todo) IN Advance(c.m, [models[c.m] EXCEPT !.pos = 0, !.from = <<>>], c.n, <<c.n>>)

\* n decode steps, eager or graphed; they raise where the first without room does.
DecodeCalls(tokens) ==
    /\ At(tokens)
    /\ LET c == Head(todo)  x == models[c.m]
       IN  Advance(c.m, x, Bigger(c.n, 0), Append(x.from, <<tokens, c.n>>))

VerifyGamma ==
    /\ At("verify")
    /\ LET c == Head(todo)  x == models[c.m] IN
       IF c.n \in 1 .. 8 THEN Advance(c.m, x, c.n, Append(x.from, <<"verify", c.n>>))
       ELSE error' = "bad gamma" /\ UNCHANGED <<models, kept, compared>> /\ Done

ResetKvCache ==
    /\ At("reset")
    /\ models' = [models EXCEPT ![Head(todo).m].pos = 0, ![Head(todo).m].from = <<>>]
    /\ UNCHANGED <<error, kept, compared>>
    /\ Done

\* The probe sets the host cursor itself and leaves it there.
FixedCall ==
    /\ At("fixed")
    /\ LET c == Head(todo) IN error' = ForwardError(models[c.m], models[c.m], c.n)
    /\ UNCHANGED <<models, kept, compared>>
    /\ Done

Keep ==
    /\ At("keep")
    /\ kept' = models[Head(todo).m].from
    /\ UNCHANGED <<models, error, compared>>
    /\ Done

Compare ==
    /\ At("check")
    /\ compared' = compared \cup {<<kept, models[Head(todo).m].from>>}
    /\ UNCHANGED <<models, error, kept>>
    /\ Done

(***************************************************************************)
(* speculative_generate, up to its last round, which starts with `missing` *)
(* tokens to go, drafts gamma and accepts some.  Each executor needs room  *)
(* for the drafts, and for the accepted ones with the bonus after them     *)
(* (SpecDecode); the rounds before need less.                              *)
(***************************************************************************)
GenerateCall(missing, accepted) ==
    LET c == Head(todo)
        start == c.prompt + c.n - missing
        reached == IF c.n = 0 THEN c.prompt ELSE start + accepted + 1
        needed == IF c.n = 0 THEN c.prompt ELSE Bigger(start + c.gamma, reached)
    IN  /\ At("generate")
        /\ IF c.n = 0 THEN missing = 1 /\ accepted = 0
           ELSE missing <= c.n /\ accepted \in missing - 1 .. c.gamma
        /\ error' = IF models[1].batch # 1 THEN "refused"
                    ELSE IF \E i \in DOMAIN models : needed > models[i].max THEN "overflow" ELSE ""
        /\ models' = IF error' # "" THEN models
                     ELSE [i \in DOMAIN models |-> [models[i] EXCEPT !.pos = reached, !.from = <<>>]]
        /\ UNCHANGED <<kept, compared>>
        /\ Done

\* statistics.median, and the assert in _time_prefill.
Median ==
    /\ At("median")
    /\ error' = IF Head(todo).n > 0 THEN "" ELSE "no samples"
    /\ UNCHANGED <<models, kept, compared>>
    /\ Done

\* The phase's processes exit, done or with a traceback; the next may start.
EndPhase ==
    LET phases == Phases(launch)  more == phase < Len(phases) IN
    /\ phase <= Len(phases)
    /\ error # "" \/ todo = <<>>
    /\ outcomes' = Append(outcomes, error)
    /\ phase' = phase + 1
    /\ held' = NothingHeld
    /\ models' = IF more THEN phases[phase + 1].models ELSE <<>>
    /\ todo' = IF more THEN phases[phase + 1].calls ELSE <<>>
    /\ kept' = <<>> /\ error' = ""
    /\ UNCHANGED <<launch, compared>>

Next ==
    \/ \E i \in DOMAIN models :
           LoadWeightsOnGpu(i) \/ TakeBudget(i) \/ AllocateBuffers(i) \/ NewExecutor(i)
    \/ PrefillCall \/ DecodeCalls("argmax") \/ DecodeCalls("same") \/ VerifyGamma
    \/ ResetKvCache \/ FixedCall \/ Keep \/ Compare \/ Median
    \/ \E accepted \in 0 .. 8 : \E missing \in 1 .. accepted + 1 : GenerateCall(missing, accepted)
    \/ EndPhase

Spec == Init /\ [][Next]_vars

-----------------------------------------------------------------------------
(* Properties *)

(***************************************************************************)
(* The planned length is the longest that leaves the reserve: with its     *)
(* buffers allocated the device has the reserve free, but for the cursor   *)
(* that the slope leaves out, and one more slot would go below the reserve *)
(* or past the model's own limit (max_seq_len_for_budget).  Of a model on  *)
(* the device the budget looks at.                                         *)
(***************************************************************************)
PlannedLengthTight ==
    \A i \in DOMAIN models :
        LET m == models[i]
            free == FreeBytes(m.proc, m.device)
            slot == PlanRuntimeBytes(m.cfg, m.batch, m.max + 1) - PlanRuntimeBytes(m.cfg, m.batch, m.max)
        IN  m.planned /\ m.stage = "buffers" /\ m.device = BudgetDevice =>
                /\ free >= m.reserve - CachePositionBytes
                /\ free - slot < m.reserve \/ m.max = m.cfg.max_position_embeddings

(***************************************************************************)
(* Whatever the checkpoint's files hold, an executor that comes up finds   *)
(* each tensor its forward looks up, in the shape its configuration gives  *)
(* it: the names validate_weights checks and the names the executor uses   *)
(* are written down separately.  And the weights take the memory that      *)
(* total_weight_bytes, a third list, says.                                 *)
(***************************************************************************)
LooksUpOnlyValidated ==
    \A i \in DOMAIN models :
        LET m == models[i] IN
        m.stage = "ready" =>
            /\ \A key \in LookedUp(m.cfg) :
                   key \in DOMAIN m.weights /\ m.weights[key] = WeightShapes(m.cfg)[key[2]]
            /\ LoadedBytes(m.weights) = TotalWeightBytes(m.cfg)

\* The generations that are asked for more than the buffers are sure to hold.
AsksTooMuch(l) ==
    /\ l.program = "specdec_bench"
    /\ \E p \in ToSet(l.args.prompts), g \in ToSet(l.args.gammas) : p + l.args.n + g > l.args.maxSeq

(***************************************************************************)
(* No program outgrows the buffers it has sized for itself, whatever its   *)
(* arguments (Launchable): warm-ups, timed loops, rounds that overshoot    *)
(* and prefills over a full cache included.  Only specdec_bench takes its  *)
(* length as an argument of its own.                                       *)
(***************************************************************************)
FitsItsBuffers == error = "overflow" => AsksTooMuch(launch)

\* Logits that a program compares, eager and graphed, followed the same calls
\* since the prefill, so that a difference is the graph's.
ComparesAtSameState == \A pair \in compared : pair[1] = pair[2]

\* A model brought up at the length its budget gives fits its GPU ("production
\* buffer sizing", vram_budget).
PlannedBringUpFits == error # "out of memory"
=============================================================================
