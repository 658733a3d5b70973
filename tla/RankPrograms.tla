---------------------------- MODULE RankPrograms ----------------------------
(***************************************************************************)
(* The other two-rank programs of the repository: the model-free prototype *)
(* (mpi_prototype/main.py), the transfer benchmark                         *)
(* (mpi_prototype/benchmark.py) and the benchmark worker                   *)
(* (runtime/benchmarks/_specdec_worker.py, run_mpi).                       *)
(*                                                                         *)
(* Each rank stands at an operation of its program; its loops count their  *)
(* turns.  A blocking operation is posted and returns later.  The n-th     *)
(* collective a rank enters meets the n-th of the other.                   *)
(***************************************************************************)
EXTENDS Integers, Sequences

CONSTANTS Launches,  \* command lines, with what the cluster and MPI provide
          Token      \* the mock vocabulary

TARGET_RANK == 0
DRAFT_RANK == 1
Ranks == {TARGET_RANK, DRAFT_RANK}
Messages == {"ids", "logits", "result"}
Timings == {"draft_d2h", "draft_mpi", "target_mpi", "target_h2d", "target_send", "draft_recv"}

\* Counts on a command line are natural numbers; the prototype's programs
\* check gamma themselves, the worker's caller has (specdec_bench.py).
ASSUME RankAssumption ==
    /\ Token \subseteq Nat
    /\ \A l \in Launches :
           /\ l.prog \in {"main", "benchmark", "worker"} /\ l.prefix \in Seq(Token)
           /\ {l.steps, l.warmup, l.trials, l.jobs, l.nNew, l.maxSeq, l.devices, l.size} \subseteq Nat
           /\ l.gamma \in Int /\ (l.prog = "worker" => l.gamma \in Nat)
           /\ l.requireGpu \in BOOLEAN /\ l.sameGpu \in BOOLEAN /\ l.eager \subseteq Messages

\* Ids the worker's target may sample, and those the draft can embed: the head
\* of the target is padded beyond the draft's vocabulary.
TargetVocab == {0, 1}
DraftVocab == {0}

NoToken == -1
Running == -1
Raised == 9

VARIABLES launch,    \* the command line
          pc,        \* rank -> the operation it stands at
          posted,    \* rank -> that operation is posted, and has not returned
          turn, job, \* rank -> turns begun of its loop, and of its loop over jobs
          entered,   \* rank -> the collectives entered, with what it brought
          net,       \* kind -> messages posted and not yet received
          exit,      \* rank -> its exit status
          text,      \* rank -> prefix (mock)
          pending,   \* the target's deferred bonus
          payload,   \* rank -> draft ids, logits rows, and the rows drawn from
          result,    \* rank -> the target's answer
          accepted,  \* rank -> drafts accepted in each round of this job
          clen,      \* rank -> length of the text (worker)
          cursor,    \* rank -> its KV cursor (worker)
          samples    \* rank -> timing -> iterations sampled (benchmark)

vars == <<launch, pc, posted, turn, job, entered, net, exit, text, pending, payload, result,
          accepted, clen, cursor, samples>>
data == <<text, pending, payload, result, accepted, clen, cursor, samples>>

-----------------------------------------------------------------------------
(* The programs: the operation after p, on rank r.  The heads of the loops  *)
(* are operations of their own.                                             *)

\* bind_rank_to_cuda, then every rank learns every device id.
GpuCheck(p) ==
    CASE p = "bind" -> "bind_barrier"
      [] p = "bind_barrier" -> "device"
      [] p = "device" -> "distinct"
      [] p = "distinct" -> "distinct_barrier"

TargetLoop(p) ==
    CASE p = "recv_ids" -> "recv_logits"
      [] p = "recv_logits" -> "verify_and_accept"
      [] p = "verify_and_accept" -> "send_result"
      [] p = "send_result" -> "steps"
      [] p = "flush" -> "end_barrier"

DraftLoop(p) ==
    CASE p = "draft_gamma" -> "send_ids"
      [] p = "send_ids" -> "send_logits"
      [] p = "send_logits" -> "recv_result"
      [] p = "recv_result" -> "sync_draft_prefix"
      [] p = "sync_draft_prefix" -> "steps"

MainProgram(p, r) ==
    CASE p = "check" -> IF launch.requireGpu THEN "bind" ELSE "steps"
      [] p \in {"bind", "bind_barrier", "device", "distinct"} -> GpuCheck(p)
      [] p = "distinct_barrier" -> "steps"
      [] p = "end_barrier" -> "prefix"
      [] p = "prefix" -> IF r = TARGET_RANK THEN "compare" ELSE "return"
      [] p \in {"compare", "return"} -> "return"
      [] OTHER -> IF r = TARGET_RANK THEN TargetLoop(p) ELSE DraftLoop(p)

\* Mutant: the iterations of one direction are not kept apart.
RunDraftToTargetNoBarrier(p) ==
    CASE p = "make_payload" -> "send_ids"
      [] p = "send_ids" -> "send_logits"
      [] p = "recv_ids" -> "recv_logits"
      [] p \in {"send_logits", "recv_logits"} -> "sample_to_target"
      [] p = "sample_to_target" -> "to_target"

RunDraftToTarget(p) ==
    CASE p = "make_payload" -> "send_ids"
      [] p = "send_ids" -> "send_logits"
      [] p = "recv_ids" -> "recv_logits"
      [] p \in {"send_logits", "recv_logits"} -> "sample_to_target"
      [] p = "sample_to_target" -> "to_target_barrier"
      [] p = "to_target_barrier" -> "to_target"

RunTargetToDraft(p, r) ==
    CASE p = "make_result" -> IF r = TARGET_RANK THEN "send_result" ELSE "recv_result"
      [] p \in {"send_result", "recv_result"} -> "sample_to_draft"
      [] p = "sample_to_draft" -> "to_draft_barrier"
      [] p = "to_draft_barrier" -> "to_draft"

GatherTimes(p, r) ==
    CASE p = "draft_d2h" -> "draft_mpi"
      [] p = "draft_mpi" -> "target_mpi"
      [] p = "target_mpi" -> "target_h2d"
      [] p = "target_h2d" -> "target_send"
      [] p = "target_send" -> "draft_recv"
      [] p = "draft_recv" -> IF r = TARGET_RANK THEN "summarise" ELSE "return"

BenchmarkProgram(p, r) ==
    CASE p = "check" -> "bind"
      [] p \in {"bind", "bind_barrier", "device", "distinct"} -> GpuCheck(p)
      [] p = "distinct_barrier" -> "to_target"
      [] p = "end_barrier" -> "draft_d2h"
      [] p \in Timings -> GatherTimes(p, r)
      [] p \in {"summarise", "return"} -> "return"
      [] p \in {"make_result", "send_result", "recv_result", "sample_to_draft", "to_draft_barrier"} ->
             RunTargetToDraft(p, r)
      [] OTHER -> RunDraftToTarget(p)

TargetRound(p) ==
    CASE p = "recv_ids" -> "recv_logits"
      [] p = "recv_logits" -> "speculative_step"
      [] p = "speculative_step" -> "send_result"
      [] p = "send_result" -> "round"

DraftRound(p) ==
    CASE p = "generate_drafts" -> "send_ids"
      [] p = "send_ids" -> "send_logits"
      [] p = "send_logits" -> "recv_result"
      [] p = "recv_result" -> "apply_target_feedback"
      [] p = "apply_target_feedback" -> "round"

\* One timed generation.
MpiRunJob(p, r) ==
    CASE p = "start_barrier" -> "prefill"
      [] p = "prefill" -> "round"
      [] p = "flush" -> "stop_barrier"
      [] p = "stop_barrier" -> "runs"
      [] OTHER -> IF r = TARGET_RANK THEN TargetRound(p) ELSE DraftRound(p)

RunMpi(p, r) ==
    CASE p = "check" -> "bind"
      [] p = "bind" -> "jobs"
      [] p = "median" -> "jobs"
      [] p = "return" -> "return"
      [] OTHER -> MpiRunJob(p, r)

Following(p, r) ==
    CASE launch.prog = "main" -> MainProgram(p, r)
      [] launch.prog = "benchmark" -> BenchmarkProgram(p, r)
      [] launch.prog = "worker" -> RunMpi(p, r)

\* The loops: how many turns, the first operation of a turn, the one after them.
Loops == {"steps", "to_target", "to_draft", "runs"}

Turns(p) == IF p = "steps" THEN launch.steps ELSE launch.warmup + launch.trials

FirstOf(p, r) ==
    CASE p = "steps" -> IF r = TARGET_RANK THEN "recv_ids" ELSE "draft_gamma"
      [] p = "to_target" -> IF r = TARGET_RANK THEN "recv_ids" ELSE "make_payload"
      [] p = "to_draft" -> "make_result"
      [] p = "runs" -> "start_barrier"

AfterLoop(p, r) ==
    CASE p = "steps" -> IF r = TARGET_RANK THEN "flush" ELSE "end_barrier"
      [] p = "to_target" -> "to_draft"
      [] p = "to_draft" -> "end_barrier"
      [] p = "runs" -> IF r = TARGET_RANK THEN "median" ELSE "jobs"

Barriers == {"bind_barrier", "distinct_barrier", "to_target_barrier", "to_draft_barrier",
             "start_barrier", "stop_barrier", "end_barrier"}
Collectives == Barriers \cup {"device", "prefix"} \cup Timings

NoResult == [n |-> 0, bonus |-> NoToken, prefix |-> 0, cacheAfter |-> 0]

Init ==
    /\ launch \in Launches
    /\ pc = [r \in Ranks |-> "check"]
    /\ posted = [r \in Ranks |-> FALSE]
    /\ turn = [r \in Ranks |-> 0] /\ job = [r \in Ranks |-> 0]
    /\ entered = [r \in Ranks |-> <<>>]
    /\ net = [m \in Messages |-> <<>>]
    /\ exit = [r \in Ranks |-> Running]
    /\ text = [r \in Ranks |-> launch.prefix]
    /\ pending = NoToken
    /\ payload = [r \in Ranks |-> [ids |-> <<>>, logits |-> <<>>, drawn |-> <<>>]]
    /\ result = [r \in Ranks |-> NoResult]
    /\ accepted = [r \in Ranks |-> <<>>]
    /\ clen = [r \in Ranks |-> 0] /\ cursor = [r \in Ranks |-> 0]
    /\ samples = [r \in Ranks |-> [t \in Timings |-> <<>>]]

-----------------------------------------------------------------------------
(* Running an operation *)

At(r, p) == exit[r] = Running /\ pc[r] = p
Other(r) == 1 - r

Continue(r) == pc' = [pc EXCEPT ![r] = Following(@, r)]
Done(r) == Continue(r) /\ UNCHANGED <<posted, turn, job, exit>>

\* A rank that leaves does so after what the operation has done.
Leave(r, status) ==
    /\ exit' = [exit EXCEPT ![r] = status]
    /\ Continue(r)
    /\ UNCHANGED <<posted, turn, job>>

\* The head of `for ... in range(...)`.
For(r, p) ==
    /\ At(r, p)
    /\ IF turn[r] < Turns(p)
       THEN pc' = [pc EXCEPT ![r] = FirstOf(p, r)] /\ turn' = [turn EXCEPT ![r] = @ + 1]
       ELSE pc' = [pc EXCEPT ![r] = AfterLoop(p, r)] /\ turn' = [turn EXCEPT ![r] = 0]
    /\ UNCHANGED <<launch, posted, job, entered, net, exit, data>>

\* Exactly two ranks; the prototype and its benchmark bound gamma, the worker
\* first asks for any GPU at all.
Check(r) ==
    /\ At(r, "check")
    /\ CASE launch.prog = "worker" /\ launch.devices = 0 -> Leave(r, 2)
         [] launch.prog # "worker" /\ launch.gamma \notin 1 .. 7 -> Leave(r, 1)
         [] OTHER -> IF launch.size # 2 THEN Leave(r, 1) ELSE Done(r)
    /\ UNCHANGED <<launch, entered, net, data>>

BindRankToCuda(r) ==
    /\ At(r, "bind")
    /\ IF r >= launch.devices THEN Leave(r, IF launch.prog = "worker" THEN 1 ELSE 3) ELSE Done(r)
    /\ UNCHANGED <<launch, entered, net, data>>

\* What _device_id answers: both ranks may see the same physical GPU.
DeviceId(r) == IF launch.sameGpu THEN 0 ELSE r

Brings(r, what) ==
    CASE what = "device" -> <<DeviceId(r)>>
      [] what = "prefix" -> text[r]
      [] what \in Timings -> samples[r][what]
      [] OTHER -> <<>>

Enter(r) ==
    /\ exit[r] = Running /\ pc[r] \in Collectives /\ ~posted[r]
    /\ entered' = [entered EXCEPT ![r] =
                       Append(@, [what |-> pc[r], brought |-> Brings(r, pc[r])])]
    /\ posted' = [posted EXCEPT ![r] = TRUE]
    /\ UNCHANGED <<launch, pc, turn, job, net, exit, data>>

\* A gather lets the ranks that only contribute go at once.
OnlyContributes(r, what) == r # TARGET_RANK /\ what \in {"prefix"} \cup Timings

Returns(r) ==
    /\ posted' = [posted EXCEPT ![r] = FALSE]
    /\ Continue(r)
    /\ UNCHANGED <<launch, turn, job, entered, net, exit, data>>

LeaveCollective(r) ==
    /\ pc[r] \in Collectives /\ posted[r]
    /\ OnlyContributes(r, pc[r]) \/ Len(entered[Other(r)]) >= Len(entered[r])
    /\ Returns(r)

\* What the other rank brought to the collective this one has just left.
FromOther(r) == entered[Other(r)][Len(entered[r])].brought

VerifyDistinctGpus(r) ==
    /\ At(r, "distinct")
    /\ IF FromOther(r) = <<DeviceId(r)>> THEN Leave(r, 3) ELSE Done(r)
    /\ UNCHANGED <<launch, entered, net, data>>

\* comm.Send: posted now, returning at once or when the message is taken.
Post(r, m, message) ==
    /\ ~posted[r]
    /\ net' = [net EXCEPT ![m] = Append(@, message)]
    /\ posted' = [posted EXCEPT ![r] = TRUE]
    /\ UNCHANGED <<launch, pc, turn, job, entered, exit, data>>

SendDraftIds == At(DRAFT_RANK, "send_ids") /\ Post(DRAFT_RANK, "ids", payload[DRAFT_RANK].ids)

\* Logits go second, as bytes, under their own tag.
SendDraftLogits ==
    At(DRAFT_RANK, "send_logits") /\ Post(DRAFT_RANK, "logits", payload[DRAFT_RANK].logits)

SendTargetResult ==
    At(TARGET_RANK, "send_result") /\ Post(TARGET_RANK, "result", result[TARGET_RANK])

Sends == [send_ids |-> "ids", send_logits |-> "logits", send_result |-> "result"]

SendReturns(r, p) ==
    /\ pc[r] = p /\ posted[r]
    /\ Sends[p] \in launch.eager \/ net[Sends[p]] = <<>>
    /\ Returns(r)

Receive(m) == net[m] # <<>> /\ net' = [net EXCEPT ![m] = Tail(@)]

RecvDraftIds ==
    /\ At(TARGET_RANK, "recv_ids") /\ Receive("ids")
    /\ payload' = [payload EXCEPT ![TARGET_RANK].ids = Head(net["ids"])]
    /\ Done(TARGET_RANK)
    /\ UNCHANGED <<launch, entered, text, pending, result, accepted, clen, cursor, samples>>

RecvDraftLogits ==
    /\ At(TARGET_RANK, "recv_logits") /\ Receive("logits")
    /\ payload' = [payload EXCEPT ![TARGET_RANK].logits = Head(net["logits"])]
    /\ Done(TARGET_RANK)
    /\ UNCHANGED <<launch, entered, text, pending, result, accepted, clen, cursor, samples>>

RecvTargetResult ==
    /\ At(DRAFT_RANK, "recv_result") /\ Receive("result")
    /\ result' = [result EXCEPT ![DRAFT_RANK] = Head(net["result"])]
    /\ Done(DRAFT_RANK)
    /\ UNCHANGED <<launch, entered, text, pending, payload, accepted, clen, cursor, samples>>

-----------------------------------------------------------------------------
(* The prototype: a row of logits is the text and position it stands for *)

MockLogits(prefix, position) == [text |-> prefix, position |-> position]

\* Token i is drawn from the row of its own text, kept one place further on.
DraftGamma(ids) ==
    /\ At(DRAFT_RANK, "draft_gamma")
    /\ LET drawn == [i \in 1 .. launch.gamma |->
                        MockLogits(text[DRAFT_RANK] \o SubSeq(ids, 1, i - 1), i)]
       IN  payload' = [payload EXCEPT ![DRAFT_RANK] =
               [ids |-> ids, logits |-> <<MockLogits(text[DRAFT_RANK], 0)>> \o drawn,
                drawn |-> drawn]]
    /\ Done(DRAFT_RANK)
    /\ UNCHANGED <<launch, entered, net, text, pending, result, accepted, clen, cursor, samples>>

Bonus == IF pending = NoToken THEN <<>> ELSE <<pending>>

\* Mutant: the bundled bonus is left out of the texts verified.
TargetPRowsNoBonus(ids) ==
    [i \in 1 .. Len(ids) + 1 |-> MockLogits(text[TARGET_RANK] \o SubSeq(ids, 1, i - 1), i - 1)]

TargetPRows(ids) ==
    [i \in 1 .. Len(ids) + 1 |->
        LET extended == text[TARGET_RANK] \o Bonus \o SubSeq(ids, 1, i - 1)
        IN  MockLogits(extended, IF pending = NoToken THEN i - 1 ELSE Len(extended) - 1)]

\* speculative_acceptance: softmax leaves every token some mass, so any number
\* of drafts may pass and any token may be the bonus.
SpeculativeAcceptance(ids) == (0 .. Len(ids)) \X Token

VerifyAndAccept(n, bonus) ==
    /\ At(TARGET_RANK, "verify_and_accept")
    /\ <<n, bonus>> \in SpeculativeAcceptance(payload[TARGET_RANK].ids)
    /\ text' = [text EXCEPT ![TARGET_RANK] =
                    @ \o Bonus \o SubSeq(payload[TARGET_RANK].ids, 1, n)]
    /\ pending' = bonus
    /\ result' = [result EXCEPT ![TARGET_RANK] =
                    [n |-> n, bonus |-> bonus, prefix |-> Len(text[TARGET_RANK]),
                     cacheAfter |-> Len(text[TARGET_RANK]) + Len(Bonus) + n]]
    /\ accepted' = [accepted EXCEPT ![TARGET_RANK] = Append(@, n)]
    /\ Done(TARGET_RANK)
    /\ UNCHANGED <<launch, entered, net, payload, clen, cursor, samples>>

\* Mutant: the token deferred last time is dropped when the text is rebuilt.
SyncedNoExtra(r) ==
    SubSeq(text[DRAFT_RANK], 1, r.prefix)
        \o SubSeq(payload[DRAFT_RANK].ids, 1, r.n) \o <<r.bonus>>

\* The text up to the target's cursor, the token deferred last time if this
\* verification bundled it, the accepted drafts, the bonus.
Synced(r) ==
    LET extra == IF r.cacheAfter > r.prefix + r.n /\ Len(text[DRAFT_RANK]) > r.prefix
                 THEN <<text[DRAFT_RANK][r.prefix + 1]>> ELSE <<>>
    IN  SubSeq(text[DRAFT_RANK], 1, r.prefix) \o extra
            \o SubSeq(payload[DRAFT_RANK].ids, 1, r.n) \o <<r.bonus>>

SyncDraftPrefix ==
    /\ At(DRAFT_RANK, "sync_draft_prefix")
    /\ text' = [text EXCEPT ![DRAFT_RANK] = Synced(result[DRAFT_RANK])]
    /\ accepted' = [accepted EXCEPT ![DRAFT_RANK] = Append(@, result[DRAFT_RANK].n)]
    /\ Done(DRAFT_RANK)
    /\ UNCHANGED <<launch, entered, net, pending, payload, result, clen, cursor, samples>>

\* Rank 0 compares the gathered texts.
Compare ==
    /\ At(TARGET_RANK, "compare")
    /\ IF FromOther(TARGET_RANK) # text[TARGET_RANK] THEN Leave(TARGET_RANK, 2)
       ELSE Done(TARGET_RANK)
    /\ UNCHANGED <<launch, entered, net, data>>

-----------------------------------------------------------------------------
(* The transfer benchmark: a message is the iteration that made it *)

MakePayload ==
    /\ At(DRAFT_RANK, "make_payload")
    /\ payload' = [payload EXCEPT ![DRAFT_RANK] =
                       [ids |-> <<turn[DRAFT_RANK]>>, logits |-> <<turn[DRAFT_RANK]>>,
                        drawn |-> <<>>]]
    /\ Done(DRAFT_RANK)
    /\ UNCHANGED <<launch, entered, net, text, pending, result, accepted, clen, cursor, samples>>

MakeResult(r) ==
    /\ At(r, "make_result")
    /\ result' = [result EXCEPT ![r] = [@ EXCEPT !.n = (turn[r] - 1) % 4, !.bonus = turn[r]]]
    /\ Done(r)
    /\ UNCHANGED <<launch, entered, net, text, pending, payload, accepted, clen, cursor, samples>>

\* With or without the copy to the GPU the target appends to both lists.
Lists(r, p) ==
    IF p = "sample_to_target"
    THEN IF r = TARGET_RANK THEN {"target_mpi", "target_h2d"} ELSE {"draft_d2h", "draft_mpi"}
    ELSE IF r = TARGET_RANK THEN {"target_send"} ELSE {"draft_recv"}

\* Mutant: the draft samples its warm-up iterations too.
TakeSampleAll(r, p) ==
    /\ At(r, p)
    /\ samples' = [samples EXCEPT ![r] =
                       [t \in Timings |-> IF t \in Lists(r, p) /\ (turn[r] > launch.warmup \/ r = DRAFT_RANK)
                                          THEN Append(@[t], turn[r]) ELSE @[t]]]
    /\ Done(r)
    /\ UNCHANGED <<launch, entered, net, text, pending, payload, result, accepted, clen, cursor>>

\* The first `warmup` iterations are not sampled.
TakeSample(r, p) ==
    /\ At(r, p)
    /\ samples' = [samples EXCEPT ![r] =
                       [t \in Timings |-> IF t \in Lists(r, p) /\ turn[r] > launch.warmup
                                          THEN Append(@[t], turn[r]) ELSE @[t]]]
    /\ Done(r)
    /\ UNCHANGED <<launch, entered, net, text, pending, payload, result, accepted, clen, cursor>>

\* _gather_times on the root: its own part, then the draft's.
Gathered(t) ==
    LET k == CHOOSE k \in DOMAIN entered[TARGET_RANK] : entered[TARGET_RANK][k].what = t
    IN  entered[TARGET_RANK][k].brought \o entered[DRAFT_RANK][k].brought

\* The lists are zipped with strict=True.
Summarise ==
    /\ At(TARGET_RANK, "summarise")
    /\ IF \A t, u \in Timings : Len(Gathered(t)) = Len(Gathered(u))
       THEN Done(TARGET_RANK) ELSE Leave(TARGET_RANK, Raised)
    /\ UNCHANGED <<launch, entered, net, data>>

-----------------------------------------------------------------------------
(* The benchmark worker: texts as their lengths, caches as their cursors *)

PromptLen == Len(launch.prefix)

\* A forward of s rows; one that finds no room raises.
Forward(r, s) == cursor' = [cursor EXCEPT ![r] = @ + s]
Fits(r, s) == cursor[r] + s <= launch.maxSeq
RaisesUnless(r, fits) == IF fits THEN Done(r) ELSE Leave(r, Raised)

\* Every prompt with every gamma.
Jobs(r) ==
    /\ At(r, "jobs")
    /\ IF job[r] < launch.jobs
       THEN pc' = [pc EXCEPT ![r] = "runs"] /\ job' = [job EXCEPT ![r] = @ + 1]
       ELSE pc' = [pc EXCEPT ![r] = "return"] /\ UNCHANGED job
    /\ UNCHANGED <<launch, posted, turn, entered, net, exit, data>>

JobPrefill(r) ==
    /\ At(r, "prefill")
    /\ accepted' = [accepted EXCEPT ![r] = <<>>]
    /\ clen' = [clen EXCEPT ![r] = PromptLen]
    /\ cursor' = [cursor EXCEPT ![r] = PromptLen]
    /\ pending' = IF r = TARGET_RANK THEN NoToken ELSE pending
    /\ RaisesUnless(r, PromptLen <= launch.maxSeq)
    /\ UNCHANGED <<launch, entered, net, text, payload, result, samples>>

FirstOfRound(r) == IF r = TARGET_RANK THEN "recv_ids" ELSE "generate_drafts"
AfterRounds(r) == IF r = TARGET_RANK THEN "flush" ELSE "stop_barrier"

\* Mutant: the draft stops as soon as one token is missing.
RoundDraftShort(r) ==
    /\ At(r, "round")
    /\ pc' = [pc EXCEPT ![r] = IF clen[r] - PromptLen < launch.nNew - r THEN FirstOfRound(r) ELSE AfterRounds(r)]
    /\ UNCHANGED <<launch, posted, turn, job, entered, net, exit, data>>

Round(r) ==
    /\ At(r, "round")
    /\ pc' = [pc EXCEPT ![r] = IF clen[r] - PromptLen < launch.nNew THEN FirstOfRound(r) ELSE AfterRounds(r)]
    /\ UNCHANGED <<launch, posted, turn, job, entered, net, exit, data>>

GenerateDrafts ==
    /\ At(DRAFT_RANK, "generate_drafts")
    /\ Forward(DRAFT_RANK, launch.gamma)
    /\ RaisesUnless(DRAFT_RANK, Fits(DRAFT_RANK, launch.gamma))
    /\ UNCHANGED <<launch, entered, net, text, pending, payload, result, accepted, clen, samples>>

\* The target counts a round once its answer is out; nobody else sees the count.
Counts(r, n) ==
    /\ accepted' = [accepted EXCEPT ![r] = Append(@, n)]
    /\ clen' = [clen EXCEPT ![r] = @ + n + 1]

SpeculativeStep(n, bonus) ==
    /\ At(TARGET_RANK, "speculative_step")
    /\ n <= launch.gamma
    /\ cursor' = [cursor EXCEPT ![TARGET_RANK] = @ + Len(Bonus) + n]
    /\ pending' = bonus
    /\ result' = [result EXCEPT ![TARGET_RANK] = [n |-> n, bonus |-> bonus,
                      prefix |-> cursor[TARGET_RANK],
                      cacheAfter |-> cursor[TARGET_RANK] + Len(Bonus) + n]]
    /\ Counts(TARGET_RANK, n)
    /\ RaisesUnless(TARGET_RANK, Fits(TARGET_RANK, Len(Bonus) + launch.gamma))
    /\ UNCHANGED <<launch, entered, net, text, payload, samples>>

\* The target's answer holds a padded id, which the draft cannot embed.
CannotEmbed == result[DRAFT_RANK].bonus \in TargetVocab \ DraftVocab

\* Mutant: the refused drafts stay in the draft's cache.
FeedbackNoRollback ==
    /\ At(DRAFT_RANK, "apply_target_feedback")
    /\ Counts(DRAFT_RANK, result[DRAFT_RANK].n)
    /\ IF CannotEmbed THEN UNCHANGED cursor ELSE Forward(DRAFT_RANK, 1)
    /\ RaisesUnless(DRAFT_RANK, ~CannotEmbed /\ Fits(DRAFT_RANK, 1))
    /\ UNCHANGED <<launch, entered, net, text, pending, payload, result, samples>>

\* Roll back to the accepted drafts and decode the bonus.  A bonus the draft
\* cannot embed raises before the rollback, when the round is counted.
ApplyTargetFeedback ==
    /\ At(DRAFT_RANK, "apply_target_feedback")
    /\ Counts(DRAFT_RANK, result[DRAFT_RANK].n)
    /\ IF CannotEmbed THEN UNCHANGED cursor
       ELSE cursor' = [cursor EXCEPT ![DRAFT_RANK] = @ - launch.gamma + result[DRAFT_RANK].n + 1]
    /\ RaisesUnless(DRAFT_RANK, ~CannotEmbed /\ cursor'[DRAFT_RANK] <= launch.maxSeq)
    /\ UNCHANGED <<launch, entered, net, text, pending, payload, result, samples>>

\* statistics.median refuses an empty list.
Median ==
    /\ At(TARGET_RANK, "median")
    /\ RaisesUnless(TARGET_RANK, launch.trials > 0)
    /\ UNCHANGED <<launch, entered, net, data>>

\* The prototype appends the last deferred token, the target decodes it.
FlushPendingBonus ==
    /\ At(TARGET_RANK, "flush")
    /\ pending' = NoToken
    /\ IF launch.prog = "main"
       THEN /\ text' = [text EXCEPT ![TARGET_RANK] = @ \o Bonus]
            /\ Done(TARGET_RANK)
            /\ UNCHANGED cursor
       ELSE /\ Forward(TARGET_RANK, Len(Bonus))
            /\ RaisesUnless(TARGET_RANK, Fits(TARGET_RANK, Len(Bonus)))
            /\ UNCHANGED text
    /\ UNCHANGED <<launch, entered, net, payload, result, accepted, clen, samples>>

Return(r) ==
    /\ At(r, "return")
    /\ Leave(r, 0)
    /\ UNCHANGED <<launch, entered, net, data>>

-----------------------------------------------------------------------------
Step(r) ==
    \/ Check(r) \/ BindRankToCuda(r) \/ Enter(r) \/ LeaveCollective(r) \/ VerifyDistinctGpus(r)
    \/ MakeResult(r) \/ Jobs(r) \/ JobPrefill(r) \/ Round(r) \/ Return(r)
    \/ \E p \in Loops : For(r, p)
    \/ \E p \in {"sample_to_target", "sample_to_draft"} : TakeSample(r, p)
    \/ \E p \in DOMAIN Sends : SendReturns(r, p)

TargetStep ==
    \/ Step(TARGET_RANK) \/ RecvDraftIds \/ RecvDraftLogits \/ SendTargetResult
    \/ Compare \/ Summarise \/ Median \/ FlushPendingBonus
    \/ \E n \in 0 .. launch.gamma :
           \/ \E b \in TargetVocab : SpeculativeStep(n, b)
           \/ \E b \in Token : VerifyAndAccept(n, b)

DraftStep ==
    \/ Step(DRAFT_RANK) \/ SendDraftIds \/ SendDraftLogits \/ RecvTargetResult
    \/ MakePayload \/ GenerateDrafts \/ SyncDraftPrefix \/ ApplyTargetFeedback
    \/ \E ids \in [1 .. launch.gamma -> Token] : DraftGamma(ids)

Next == TargetStep \/ DraftStep

Spec == Init /\ [][Next]_vars
FairSpec == Spec /\ WF_vars(TargetStep) /\ WF_vars(DraftStep)

-----------------------------------------------------------------------------
(* Properties *)

\* The two copies of the prototype's text: after the same number of rounds the
\* draft's is the target's followed by the token the target has deferred, and
\* rank 0 never finds a mismatch (exit 2).
PrefixesAgree ==
    launch.prog = "main" =>
        /\ Len(accepted[TARGET_RANK]) = Len(accepted[DRAFT_RANK]) =>
               text[DRAFT_RANK] = text[TARGET_RANK] \o Bonus
        /\ exit[TARGET_RANK] # 2

\* Row i of the target stands for the draft's own text followed by the first
\* i - 1 drafts, though the target holds the text without its last token
\* (_target_p_rows, "aligned with target verify_gamma + sampler").
VerifiesDraftText ==
    At(TARGET_RANK, "verify_and_accept") =>
        LET ids == payload[TARGET_RANK].ids
        IN  \A i \in 1 .. Len(ids) + 1 :
                TargetPRows(ids)[i].text = text[DRAFT_RANK] \o SubSeq(ids, 1, i - 1)

\* The distribution that decides on draft i is the one draft i was drawn from
\* (docs/speculative_decoding.md, step 1).  mock_models.py:46 sends an extra
\* row in front, so row i belongs to the draft before.
AcceptsFromDrawnRow ==
    At(TARGET_RANK, "verify_and_accept") =>
        \A i \in 1 .. launch.gamma :
            payload[TARGET_RANK].logits[i] = payload[DRAFT_RANK].drawn[i]

\* Collectives keep what is timed apart: the ranks meet in the same ones in the
\* same order, no message crosses one, and none waits behind another of its
\* kind, so no send or receive is timed with a neighbouring iteration's traffic.
NothingCrossesABarrier ==
    /\ \A k \in DOMAIN entered[TARGET_RANK] \cap DOMAIN entered[DRAFT_RANK] :
           entered[TARGET_RANK][k].what = entered[DRAFT_RANK][k].what
    /\ Len(entered[TARGET_RANK]) > Len(entered[DRAFT_RANK]) =>
           net["ids"] = <<>> /\ net["logits"] = <<>>
    /\ Len(entered[DRAFT_RANK]) > Len(entered[TARGET_RANK]) => net["result"] = <<>>
    /\ \A m \in Messages : Len(net[m]) <= 1

\* The k-th sample of every timing list is of the same iteration, so adding
\* them up (benchmark.py:343, 364) adds times of one iteration and no strict
\* zip raises; the message timed is the one that iteration made.
SamplesPaired ==
    /\ At(TARGET_RANK, "summarise") =>
           \A t \in Timings : Gathered(t) = [k \in 1 .. launch.trials |-> launch.warmup + k]
    /\ At(TARGET_RANK, "sample_to_target") =>
           /\ payload[TARGET_RANK].ids = <<turn[TARGET_RANK]>>
           /\ payload[TARGET_RANK].logits = <<turn[TARGET_RANK]>>
    /\ At(DRAFT_RANK, "sample_to_draft") => result[DRAFT_RANK].bonus = turn[DRAFT_RANK]

\* A worker given room for the prompt, the tokens asked for and gamma more
\* never finds a cache full, however the rounds fall: rank 0 raises only on the
\* median of nothing, rank 1 only on a bonus it cannot embed.
HasRoom == PromptLen + launch.nNew + launch.gamma <= launch.maxSeq

WorkerFits ==
    launch.prog = "worker" /\ HasRoom =>
        /\ exit[TARGET_RANK] = Raised => launch.trials = 0
        /\ exit[DRAFT_RANK] = Raised => CannotEmbed

\* Rank r has left on an error the other rank does not meet: rank 1 without a
\* GPU of its own, rank 0 with no timed trial, either with too small a cache,
\* the draft with a bonus it cannot embed (draft_runner.py:115).
LeavesAlone(r) ==
    \/ r = DRAFT_RANK /\ exit[r] \in {1, 3} /\ launch.devices = 1
    \/ r = TARGET_RANK /\ exit[r] = Raised /\ launch.trials = 0
    \/ exit[r] = Raised /\ launch.prog = "worker" /\ ~HasRoom
    \/ r = DRAFT_RANK /\ exit[r] = Raised /\ CannotEmbed

\* Every launch ends on both ranks, or one of them has left on an error only it
\* meets; nothing else makes a rank wait for good.
BothEnd == <>((\A r \in Ranks : exit[r] # Running) \/ (\E r \in Ranks : LeavesAlone(r)))
=============================================================================
