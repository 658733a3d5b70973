------------------------ MODULE RankPrograms_proofs ------------------------
(***************************************************************************)
(* Proofs about the two-rank programs of RankPrograms, for every command   *)
(* line.  Each program has an inductive invariant of its own, of the same  *)
(* three parts: where a rank stands says how many collectives it has       *)
(* entered; where the two ranks stand says how many messages of each kind  *)
(* are under way; and the messages under way are the last ones made.       *)
(***************************************************************************)
EXTENDS RankPrograms, SequenceTheorems, TLAPS

-----------------------------------------------------------------------------
(* Types *)

Gpu == {"bind", "bind_barrier", "device", "distinct", "distinct_barrier"}
Before == {"check"} \cup Gpu

MainTarget ==
    Before \cup {"steps", "recv_ids", "recv_logits", "verify_and_accept", "send_result",
                 "flush", "end_barrier", "prefix", "compare", "return"}
MainDraft ==
    Before \cup {"steps", "draft_gamma", "send_ids", "send_logits", "recv_result",
                 "sync_draft_prefix", "end_barrier", "prefix", "return"}

ToTarget == {"to_target", "make_payload", "send_ids", "send_logits", "recv_ids", "recv_logits",
             "sample_to_target", "to_target_barrier"}
ToDraft == {"to_draft", "make_result", "send_result", "recv_result", "sample_to_draft",
            "to_draft_barrier"}
Ended == {"summarise", "return"} \cup Timings

BenchTarget ==
    Before \cup (ToTarget \ {"make_payload", "send_ids", "send_logits"})
           \cup (ToDraft \ {"recv_result"}) \cup {"end_barrier"} \cup Ended
BenchDraft ==
    Before \cup (ToTarget \ {"recv_ids", "recv_logits"})
           \cup (ToDraft \ {"send_result"}) \cup {"end_barrier"} \cup (Ended \ {"summarise"})

Idle == {"check", "bind", "jobs", "runs", "median", "return"}
TargetBody == {"recv_ids", "recv_logits", "speculative_step"}
DraftBody == {"generate_drafts", "send_ids", "send_logits", "recv_result", "apply_target_feedback"}
InRun == {"round", "send_result", "flush", "stop_barrier"} \cup TargetBody \cup DraftBody

WorkerTarget == Idle \cup {"start_barrier", "prefill"} \cup (InRun \ DraftBody)
WorkerDraft == (Idle \ {"median"}) \cup {"start_barrier", "prefill", "round", "stop_barrier"}
                    \cup DraftBody

Operations == MainTarget \cup MainDraft \cup BenchTarget \cup BenchDraft
                  \cup WorkerTarget \cup WorkerDraft

Answers == [n : Nat, bonus : Nat \cup {NoToken}, prefix : Nat, cacheAfter : Nat]
Rows == Nat \cup [text : Seq(Token), position : Nat]
Payloads == [ids : Seq(Nat), logits : Seq(Rows), drawn : Seq(Rows)]
Entries == [what : Collectives, brought : Seq(Nat)]

\* The sets of values of the variables.
ControlOK ==
    /\ launch \in Launches
    /\ pc \in [Ranks -> Operations]
    /\ posted \in [Ranks -> BOOLEAN]
    /\ turn \in [Ranks -> Nat] /\ job \in [Ranks -> Nat]
    /\ exit \in [Ranks -> {Running, 0, 1, 2, 3, Raised}]

QueuesOK ==
    /\ entered \in [Ranks -> Seq(Entries)]
    /\ net \in [Messages -> Seq(Seq(Rows) \cup Answers)]
    /\ net["ids"] \in Seq(Seq(Nat)) /\ net["logits"] \in Seq(Seq(Rows))
    /\ net["result"] \in Seq(Answers)

DataOK ==
    /\ text \in [Ranks -> Seq(Token)]
    /\ pending \in Nat \cup {NoToken}
    /\ payload \in [Ranks -> Payloads]
    /\ result \in [Ranks -> Answers]
    /\ accepted \in [Ranks -> Seq(Nat)]
    /\ clen \in [Ranks -> Nat] /\ cursor \in [Ranks -> Nat]
    /\ samples \in [Ranks -> [Timings -> Seq(Nat)]]

TypeOK == ControlOK /\ QueuesOK /\ DataOK

-----------------------------------------------------------------------------
(* Shared parts of the invariants *)

\* Only a blocking operation stays posted.
PostedOK ==
    \A r \in Ranks : posted[r] => pc[r] \in Collectives \cup {"send_ids", "send_logits", "send_result"}

\* A rank past the argument check has had them checked.
CheckedOK ==
    \A r \in Ranks : exit[r] = Running /\ pc[r] # "check" /\ launch.prog # "worker" =>
                         launch.gamma \in 1 .. 7

\* Collectives entered, without and with the one the rank now waits in.
GpuEntered(p) ==
    IF p \in {"check", "bind", "bind_barrier"} THEN 0 ELSE IF p = "device" THEN 1 ELSE 2
Now(r) == IF posted[r] /\ pc[r] \in Collectives THEN 1 ELSE 0

\* How far into its round a rank is: messages sent (the draft's two, the
\* target's) and received that the rounds it has finished do not count.
DraftIds ==
    IF \/ pc[DRAFT_RANK] = "send_ids" /\ posted[DRAFT_RANK]
       \/ pc[DRAFT_RANK] \in {"send_logits", "recv_result", "sync_draft_prefix",
                              "apply_target_feedback"}
    THEN 1 ELSE 0
DraftLogits ==
    IF \/ pc[DRAFT_RANK] = "send_logits" /\ posted[DRAFT_RANK]
       \/ pc[DRAFT_RANK] \in {"recv_result", "sync_draft_prefix", "apply_target_feedback"}
    THEN 1 ELSE 0
DraftResult == IF pc[DRAFT_RANK] \in {"sync_draft_prefix", "apply_target_feedback"} THEN 1 ELSE 0
TargetIds ==
    IF pc[TARGET_RANK] \in {"recv_logits", "verify_and_accept", "speculative_step"} THEN 1 ELSE 0
TargetLogits ==
    IF pc[TARGET_RANK] \in {"verify_and_accept", "speculative_step"} THEN 1 ELSE 0
TargetOwes == IF pc[TARGET_RANK] = "send_result" /\ ~posted[TARGET_RANK] THEN 1 ELSE 0

\* What has been sent and not received is under way, after so many rounds.
Traffic(target, draft) ==
    /\ Len(net["ids"]) = (draft + DraftIds) - (target + TargetIds)
    /\ Len(net["logits"]) = (draft + DraftLogits) - (target + TargetLogits)
    /\ Len(net["result"]) = (target - TargetOwes) - (draft + DraftResult)

-----------------------------------------------------------------------------
(* The prototype *)

G0 == IF launch.requireGpu THEN 3 ELSE 0

MainLabels ==
    /\ pc[TARGET_RANK] \in MainTarget /\ pc[DRAFT_RANK] \in MainDraft
    /\ \A r \in Ranks : pc[r] \in Gpu => launch.requireGpu

MainEntered(p) ==
    IF p \in Before THEN GpuEntered(p)
    ELSE IF p = "prefix" THEN G0 + 1
    ELSE IF p \in {"compare", "return"} THEN G0 + 2 ELSE G0

MainAt(k) ==
    IF k = G0 + 1 THEN "end_barrier" ELSE IF k = G0 + 2 THEN "prefix"
    ELSE IF k = 1 THEN "bind_barrier" ELSE IF k = 2 THEN "device" ELSE "distinct_barrier"

MainCollectives == \A r \in Ranks : Len(entered[r]) = MainEntered(pc[r]) + Now(r)
MainNames == \A r \in Ranks : \A k \in 1 .. Len(entered[r]) : entered[r][k].what = MainAt(k)

\* Turns begun and rounds finished, at operation p.
MainTurn(p, begun, finished) ==
    /\ p \in Before => begun = 0 /\ finished = 0
    /\ p \in {"steps", "send_result"} => begun = finished /\ begun <= launch.steps
    /\ p \in {"recv_ids", "recv_logits", "verify_and_accept", "draft_gamma", "send_ids",
              "send_logits", "recv_result", "sync_draft_prefix"} =>
           begun = finished + 1 /\ begun <= launch.steps
    /\ p \in {"flush", "end_barrier", "prefix", "compare", "return"} => finished = launch.steps
MainTurns == \A r \in Ranks : MainTurn(pc[r], turn[r], Len(accepted[r]))

MainTraffic == Traffic(Len(accepted[TARGET_RANK]), Len(accepted[DRAFT_RANK]))

\* The drafts the target has are the draft's, and so is the answer.
MainMessages ==
    /\ payload[DRAFT_RANK].ids \in Seq(Token) /\ pending \in Token \cup {NoToken}
    /\ net["ids"] # <<>> => net["ids"] = <<payload[DRAFT_RANK].ids>>
    /\ pc[TARGET_RANK] \in {"recv_logits", "verify_and_accept"} =>
           payload[TARGET_RANK].ids = payload[DRAFT_RANK].ids
    /\ net["result"] # <<>> => net["result"] = <<result[TARGET_RANK]>>
    /\ pc[DRAFT_RANK] = "sync_draft_prefix" => result[DRAFT_RANK] = result[TARGET_RANK]

\* Equal rounds, equal texts; a round ahead, the answer makes up for it.
MainTexts ==
    /\ Len(accepted[TARGET_RANK]) = Len(accepted[DRAFT_RANK]) =>
           text[DRAFT_RANK] = text[TARGET_RANK] \o Bonus
    /\ Len(accepted[TARGET_RANK]) = Len(accepted[DRAFT_RANK]) + 1 =>
           Synced(result[TARGET_RANK]) = text[TARGET_RANK] \o Bonus

\* What the draft brings to the last gather is its final text.
MainGathered ==
    /\ pc[TARGET_RANK] \in {"end_barrier", "prefix", "compare", "return"} => pending = NoToken
    /\ pc[TARGET_RANK] = "compare" => Len(entered[DRAFT_RANK]) >= G0 + 2
    /\ Len(entered[DRAFT_RANK]) = G0 + 2 /\ pc[DRAFT_RANK] \in {"prefix", "return"} =>
           entered[DRAFT_RANK][G0 + 2].brought = text[DRAFT_RANK]
    /\ exit[TARGET_RANK] # 2

MainInv ==
    /\ MainLabels /\ MainCollectives /\ MainNames /\ MainTurns /\ MainTraffic /\ MainMessages
    /\ MainTexts /\ MainGathered
-----------------------------------------------------------------------------
(* The transfer benchmark *)

N == launch.warmup + launch.trials

BenchLabels == pc[TARGET_RANK] \in BenchTarget /\ pc[DRAFT_RANK] \in BenchDraft

GatherIndex(p) ==
    IF p = "draft_d2h" THEN 0 ELSE IF p = "draft_mpi" THEN 1 ELSE IF p = "target_mpi" THEN 2
    ELSE IF p = "target_h2d" THEN 3 ELSE IF p = "target_send" THEN 4 ELSE 5

\* The collectives a rank has behind it at operation p of turn t.
BenchEntered(p, t) ==
    IF p \in Before THEN GpuEntered(p)
    ELSE IF p \in ToTarget THEN 3 + (IF p = "to_target" THEN t ELSE t - 1)
    ELSE IF p \in ToDraft THEN 3 + N + (IF p = "to_draft" THEN t ELSE t - 1)
    ELSE IF p = "end_barrier" THEN 3 + N + N
    ELSE IF p \in Timings THEN 4 + N + N + GatherIndex(p) ELSE 10 + N + N

BenchAt(k) ==
    IF k = 1 THEN "bind_barrier" ELSE IF k = 2 THEN "device" ELSE IF k = 3 THEN "distinct_barrier"
    ELSE IF k <= 3 + N THEN "to_target_barrier" ELSE IF k <= 3 + N + N THEN "to_draft_barrier"
    ELSE IF k = 4 + N + N THEN "end_barrier" ELSE IF k = 5 + N + N THEN "draft_d2h"
    ELSE IF k = 6 + N + N THEN "draft_mpi" ELSE IF k = 7 + N + N THEN "target_mpi"
    ELSE IF k = 8 + N + N THEN "target_h2d" ELSE IF k = 9 + N + N THEN "target_send"
    ELSE "draft_recv"

BenchCollectives ==
    \A r \in Ranks : Len(entered[r]) = BenchEntered(pc[r], turn[r]) + Now(r)
BenchNames == \A r \in Ranks : \A k \in 1 .. Len(entered[r]) : entered[r][k].what = BenchAt(k)

BenchTurns ==
    \A r \in Ranks :
        /\ pc[r] \in Before => turn[r] = 0
        /\ turn[r] <= N
        /\ pc[r] \in (ToTarget \cup ToDraft) \ {"to_target", "to_draft"} => turn[r] >= 1

\* No rank is ahead by more than the collective it waits in, but for the
\* gathers at the end, which let the draft go.
BenchGate ==
    /\ Len(entered[TARGET_RANK]) - Now(TARGET_RANK) <= Len(entered[DRAFT_RANK])
    /\ pc[DRAFT_RANK] \notin Ended =>
           Len(entered[DRAFT_RANK]) - Now(DRAFT_RANK) <= Len(entered[TARGET_RANK])
    /\ pc[DRAFT_RANK] \in Ended => 4 + N + N <= Len(entered[TARGET_RANK])

\* Messages made, sent and received, by the turns begun.
Sent1(p, t, here) ==
    IF p \in Before THEN 0 ELSE IF p \in ToTarget THEN (IF here THEN t - 1 ELSE t) ELSE N
Sent2(p, t, here) ==
    IF p \in Before \cup ToTarget THEN 0
    ELSE IF p \in ToDraft THEN (IF here THEN t - 1 ELSE t) ELSE N

BenchIdsOut ==
    Sent1(pc[DRAFT_RANK], turn[DRAFT_RANK],
          \/ pc[DRAFT_RANK] = "make_payload"
          \/ pc[DRAFT_RANK] = "send_ids" /\ ~posted[DRAFT_RANK])
BenchLogitsOut ==
    Sent1(pc[DRAFT_RANK], turn[DRAFT_RANK],
          \/ pc[DRAFT_RANK] \in {"make_payload", "send_ids"}
          \/ pc[DRAFT_RANK] = "send_logits" /\ ~posted[DRAFT_RANK])
BenchIdsTaken == Sent1(pc[TARGET_RANK], turn[TARGET_RANK], pc[TARGET_RANK] = "recv_ids")
BenchLogitsTaken ==
    Sent1(pc[TARGET_RANK], turn[TARGET_RANK], pc[TARGET_RANK] \in {"recv_ids", "recv_logits"})
BenchResultsOut ==
    Sent2(pc[TARGET_RANK], turn[TARGET_RANK],
          \/ pc[TARGET_RANK] = "make_result"
          \/ pc[TARGET_RANK] = "send_result" /\ ~posted[TARGET_RANK])
BenchResultsTaken ==
    Sent2(pc[DRAFT_RANK], turn[DRAFT_RANK], pc[DRAFT_RANK] \in {"make_result", "recv_result"})

BenchTraffic ==
    /\ Len(net["ids"]) = BenchIdsOut - BenchIdsTaken
    /\ Len(net["logits"]) = BenchLogitsOut - BenchLogitsTaken
    /\ Len(net["result"]) = BenchResultsOut - BenchResultsTaken

\* A message is the number of the iteration that made it.
BenchMessages ==
    /\ pc[DRAFT_RANK] \in {"send_ids", "send_logits"} =>
           /\ payload[DRAFT_RANK].ids = <<turn[DRAFT_RANK]>>
           /\ payload[DRAFT_RANK].logits = <<turn[DRAFT_RANK]>>
    /\ pc[TARGET_RANK] = "send_result" => result[TARGET_RANK].bonus = turn[TARGET_RANK]
    /\ net["ids"] # <<>> => Head(net["ids"]) = <<BenchIdsOut>>
    /\ net["logits"] # <<>> => Head(net["logits"]) = <<BenchLogitsOut>>
    /\ net["result"] # <<>> => Head(net["result"]).bonus = BenchResultsOut
    /\ pc[TARGET_RANK] \in {"recv_logits", "sample_to_target"} =>
           payload[TARGET_RANK].ids = <<turn[TARGET_RANK]>>
    /\ pc[TARGET_RANK] = "sample_to_target" => payload[TARGET_RANK].logits = <<turn[TARGET_RANK]>>
    /\ pc[DRAFT_RANK] = "sample_to_draft" => result[DRAFT_RANK].bonus = turn[DRAFT_RANK]

\* Iterations of either direction, and of list t, that rank r has gone past.
Past1(r) == Sent1(pc[r], turn[r], pc[r] \notin {"to_target", "to_target_barrier"})
Past2(r) == Sent2(pc[r], turn[r], pc[r] \notin {"to_draft", "to_draft_barrier"})
Sampled(r, t) ==
    IF t \in Lists(r, "sample_to_target") THEN Past1(r)
    ELSE IF t \in Lists(r, "sample_to_draft") THEN Past2(r) ELSE 0

BenchSamples ==
    \A r \in Ranks, t \in Timings :
        samples[r][t] = [k \in 1 .. Sampled(r, t) - launch.warmup |-> launch.warmup + k]

\* What is gathered at the end are these lists.
BenchGathered ==
    \A r \in Ranks : \A k \in 1 .. Len(entered[r]) :
        k > 4 + N + N => entered[r][k].brought = samples[r][entered[r][k].what]

BenchInv ==
    /\ BenchLabels /\ BenchCollectives /\ BenchNames /\ BenchTurns /\ BenchGate /\ BenchTraffic
    /\ BenchMessages /\ BenchSamples /\ BenchGathered

-----------------------------------------------------------------------------
(* The benchmark worker *)

WorkerLabels == pc[TARGET_RANK] \in WorkerTarget /\ pc[DRAFT_RANK] \in WorkerDraft

\* Collectives come in pairs, one on either side of a timed generation.
Inside(p) == IF p \in InRun \cup {"prefill"} THEN 1 ELSE 0
WorkerAt(k) == IF k % 2 = 1 THEN "start_barrier" ELSE "stop_barrier"

WorkerCollectives ==
    \A r \in Ranks : \E k \in 0 .. Len(entered[r]) :
        Len(entered[r]) = (k + k) + Inside(pc[r]) + Now(r)
WorkerNames == \A r \in Ranks : \A k \in 1 .. Len(entered[r]) : entered[r][k].what = WorkerAt(k)

WorkerGate == \A r \in Ranks : Len(entered[r]) - Now(r) <= Len(entered[Other(r)])

\* A rank's rounds count until both ranks have come to the end of the generation.
Over(r) ==
    pc[r] = "stop_barrier" /\ posted[r] /\ Len(entered[Other(r)]) >= Len(entered[r])
Counting(r) == pc[r] \in InRun /\ ~Over(r)
Rounds(r) == IF Counting(r) THEN Len(accepted[r]) ELSE 0
Written(r) == IF Counting(r) THEN clen[r] ELSE PromptLen

WorkerTraffic == Traffic(Rounds(TARGET_RANK), Rounds(DRAFT_RANK))

WorkerMessages ==
    /\ result[TARGET_RANK].n <= launch.gamma
    /\ net["result"] # <<>> => net["result"] = <<result[TARGET_RANK]>>
    /\ pc[DRAFT_RANK] = "apply_target_feedback" => result[DRAFT_RANK] = result[TARGET_RANK]

\* Equal rounds, equal lengths; a round ahead, the answer makes up for it.
WorkerTexts ==
    /\ Rounds(TARGET_RANK) = Rounds(DRAFT_RANK) => Written(TARGET_RANK) = Written(DRAFT_RANK)
    /\ Rounds(TARGET_RANK) = Rounds(DRAFT_RANK) + 1 =>
           Written(TARGET_RANK) = Written(DRAFT_RANK) + result[TARGET_RANK].n + 1

\* A cursor follows the text: behind by the deferred bonus, ahead by the drafts.
TargetCursor == pc[TARGET_RANK] \in InRun => cursor[TARGET_RANK] + Len(Bonus) = clen[TARGET_RANK]
Ahead(p) == IF p \in DraftBody \ {"generate_drafts"} THEN launch.gamma ELSE 0
DraftCursor ==
    pc[DRAFT_RANK] \in InRun /\ exit[DRAFT_RANK] # Raised =>
        cursor[DRAFT_RANK] = clen[DRAFT_RANK] + Ahead(pc[DRAFT_RANK])
WorkerCursors == TargetCursor /\ DraftCursor

\* A round begins only while a token is missing.
RoomAt(p, written) ==
    p \in InRun =>
        /\ written <= PromptLen + launch.nNew + launch.gamma
        /\ p \in TargetBody \cup DraftBody => written < PromptLen + launch.nNew
        /\ p \in {"flush", "stop_barrier"} => written >= PromptLen + launch.nNew
WorkerRoom == \A r \in Ranks : RoomAt(pc[r], clen[r])

WorkerInv ==
    /\ WorkerLabels /\ WorkerCollectives /\ WorkerNames /\ WorkerGate /\ WorkerTraffic /\ WorkerMessages
    /\ WorkerTexts /\ WorkerCursors /\ WorkerRoom /\ WorkerFits

-----------------------------------------------------------------------------
IInv ==
    /\ TypeOK /\ PostedOK /\ CheckedOK
    /\ launch.prog = "main" => MainInv
    /\ launch.prog = "benchmark" => BenchInv
    /\ launch.prog = "worker" => WorkerInv

-----------------------------------------------------------------------------
(* What the assumption says of the command line at hand *)

LEMMA LaunchFacts ==
    ASSUME launch \in Launches
    PROVE  /\ launch.prog \in {"main", "benchmark", "worker"}
           /\ launch.prefix \in Seq(Token)
           /\ launch.steps \in Nat /\ launch.warmup \in Nat /\ launch.trials \in Nat
           /\ launch.jobs \in Nat /\ launch.nNew \in Nat /\ launch.maxSeq \in Nat
           /\ launch.devices \in Nat /\ launch.size \in Nat
           /\ launch.gamma \in Int /\ (launch.prog = "worker" => launch.gamma \in Nat)
           /\ launch.requireGpu \in BOOLEAN
  BY RankAssumption

LEMMA Queues ==
    ASSUME NEW S, NEW s \in Seq(S)
    PROVE  /\ Len(s) \in Nat
           /\ s = <<>> => Len(s) = 0
           /\ s # <<>> => /\ Len(s) > 0 /\ Head(s) \in S /\ Tail(s) \in Seq(S)
                          /\ Len(Tail(s)) = Len(s) - 1
           /\ \A x \in S : Append(s, x) \in Seq(S) /\ Len(Append(s, x)) = Len(s) + 1
           /\ \A x : s = <<x>> => Head(s) = x /\ Tail(s) = <<>>
  OBVIOUS

LEMMA LastTaken ==
    ASSUME NEW S, NEW s \in Seq(S), Len(s) = 1 PROVE Tail(s) = <<>>
  <1>1. Tail(s) \in Seq(S) /\ Len(Tail(s)) = 0
    OBVIOUS
  <1> QED BY <1>1, EmptySeq

LEMMA FunctionIsSeq ==
    ASSUME NEW S, NEW g \in Nat, NEW f \in [1 .. g -> S]
    PROVE  f \in Seq(S) /\ Len(f) = g
  OBVIOUS

LEMMA BonusType ==
    ASSUME pending \in Nat \cup {NoToken}
    PROVE  /\ Bonus \in Seq(Nat) /\ Len(Bonus) = IF pending = NoToken THEN 0 ELSE 1
           /\ pending = NoToken => Bonus = <<>>
           /\ pending \in Token \cup {NoToken} => Bonus \in Seq(Token)
  BY DEF Bonus, NoToken

\* A step keeps the types when the next operation is one, the prototype's text
\* is one and the worker's cursor does not fall below zero, which the programs'
\* own invariants tell.
LEMMA ControlStep ==
    ASSUME TypeOK, Next, pc' \in [Ranks -> Operations] PROVE ControlOK'
  <1> USE DEF TARGET_RANK, DRAFT_RANK, Ranks
  <1>1. \A r \in Ranks : Done(r) /\ UNCHANGED launch => ControlOK'
    BY DEF TypeOK, ControlOK, Done
  <1>2. \A r \in Ranks, s \in {0, 1, 2, 3, Raised} : Leave(r, s) /\ UNCHANGED launch => ControlOK'
    BY DEF TypeOK, ControlOK, Leave
  <1>3. \A r \in Ranks, s \in {0, 1, 2, 3, Raised}, f \in BOOLEAN :
            RaisesUnless(r, f) /\ UNCHANGED launch => ControlOK'
    BY <1>1, <1>2 DEF RaisesUnless
  <1>p. ASSUME NEW r \in Ranks, NEW b \in BOOLEAN, posted' = [posted EXCEPT ![r] = b],
               UNCHANGED <<launch, turn, job, exit>>
        PROVE  ControlOK'
    BY <1>p DEF TypeOK, ControlOK
  <1>4. ASSUME NEW r \in Ranks, Step(r) PROVE ControlOK'
    <2>1. Check(r) \/ BindRankToCuda(r) \/ VerifyDistinctGpus(r) \/ Return(r) => ControlOK'
      BY <1>1, <1>2 DEF Check, BindRankToCuda, VerifyDistinctGpus, Return
    <2>2. Jobs(r) \/ Round(r) => ControlOK'
      BY DEF TypeOK, ControlOK, Jobs, Round
    <2>3. ASSUME NEW p, For(r, p) PROVE ControlOK'
      BY <2>3 DEF TypeOK, ControlOK, For
    <2>4. ASSUME NEW p, SendReturns(r, p) PROVE ControlOK'
      BY <1>p, <2>4 DEF SendReturns, Returns
    <2>5. LeaveCollective(r) \/ Enter(r) => ControlOK'
      BY <1>p DEF LeaveCollective, Returns, Enter
    <2>6. MakeResult(r) \/ JobPrefill(r) => ControlOK'
      BY <1>1, <1>2 DEF MakeResult, JobPrefill, RaisesUnless
    <2>7. ASSUME NEW p, TakeSample(r, p) PROVE ControlOK'
      BY <1>1, <2>7 DEF TakeSample
    <2> QED BY <1>4, <2>1, <2>2, <2>3, <2>4, <2>5, <2>6, <2>7 DEF Step
  <1>5. RecvDraftIds \/ RecvDraftLogits \/ RecvTargetResult => ControlOK'
    BY <1>1 DEF RecvDraftIds, RecvDraftLogits, RecvTargetResult
  <1>6. SendDraftIds \/ SendDraftLogits \/ SendTargetResult => ControlOK'
    BY <1>p DEF SendDraftIds, SendDraftLogits, SendTargetResult, Post
  <1>7. Compare \/ Summarise \/ Median => ControlOK'
    BY <1>1, <1>2 DEF Compare, Summarise, Median, RaisesUnless
  <1>8. FlushPendingBonus \/ GenerateDrafts \/ ApplyTargetFeedback => ControlOK'
    BY <1>1, <1>2 DEF FlushPendingBonus, GenerateDrafts, ApplyTargetFeedback, RaisesUnless
  <1>9. MakePayload \/ SyncDraftPrefix => ControlOK'
    BY <1>1 DEF MakePayload, SyncDraftPrefix
  <1>10. \A n, b : SpeculativeStep(n, b) \/ VerifyAndAccept(n, b) => ControlOK'
    BY <1>1, <1>2 DEF SpeculativeStep, VerifyAndAccept, RaisesUnless
  <1>11. \A ids : DraftGamma(ids) => ControlOK'
    BY <1>1 DEF DraftGamma
  <1> QED BY <1>4, <1>5, <1>6, <1>7, <1>8, <1>9, <1>10, <1>11 DEF Next, TargetStep, DraftStep

\* What a rank brings to a collective.
LEMMA BringsType ==
    ASSUME TypeOK, NEW r \in Ranks, NEW p \in Collectives
    PROVE  [what |-> p, brought |-> Brings(r, p)] \in Entries
  <1>1. Brings(r, p) \in Seq(Nat)
    <2>1. CASE p = "device"
      BY <2>1 DEF Brings, DeviceId, Ranks, TARGET_RANK, DRAFT_RANK, Timings
    <2>2. CASE p = "prefix"
      <3>1. text[r] \in Seq(Token) /\ Token \subseteq Nat
        BY RankAssumption DEF TypeOK, DataOK
      <3>2. text[r] \in Seq(Nat)
        BY <3>1, SeqMonotonic
      <3> QED BY <2>2, <3>2 DEF Brings, Timings
    <2>3. CASE p \in Timings
      <3>1. samples[r][p] \in Seq(Nat)
        BY <2>3 DEF TypeOK, DataOK
      <3> QED BY <2>3, <3>1 DEF Brings, Timings
    <2>4. CASE p \in Barriers
      BY <2>4 DEF Brings, Barriers, Timings
    <2> QED BY <2>1, <2>2, <2>3, <2>4 DEF Collectives
  <1> QED BY <1>1 DEF Entries

LEMMA QueuesStep ==
    ASSUME TypeOK, Next PROVE QueuesOK'
  <1> USE DEF TARGET_RANK, DRAFT_RANK, Ranks
  <1>1. UNCHANGED <<entered, net>> => QueuesOK'
    BY DEF TypeOK, QueuesOK
  <1>2. ASSUME NEW r \in Ranks, Enter(r) PROVE QueuesOK'
    <2> DEFINE e == [what |-> pc[r], brought |-> Brings(r, pc[r])]
    <2>1. e \in Entries
      BY <1>2, BringsType DEF Enter
    <2>2. entered' = [entered EXCEPT ![r] = Append(@, e)] /\ UNCHANGED net
      BY <1>2 DEF Enter
    <2> HIDE DEF e
    <2>3. entered' \in [Ranks -> Seq(Entries)]
      BY <2>1, <2>2 DEF TypeOK, QueuesOK
    <2> QED BY <2>2, <2>3 DEF TypeOK, QueuesOK
  <1>3. ASSUME NEW r \in Ranks, Step(r) PROVE QueuesOK'
    <2>1. Check(r) \/ BindRankToCuda(r) \/ VerifyDistinctGpus(r) \/ Return(r) \/ Jobs(r) \/ Round(r)
              => UNCHANGED <<entered, net>>
      BY DEF Check, BindRankToCuda, VerifyDistinctGpus, Return, Jobs, Round
    <2>2. ASSUME NEW p, For(r, p) \/ SendReturns(r, p) \/ TakeSample(r, p)
          PROVE  UNCHANGED <<entered, net>>
      BY <2>2 DEF For, SendReturns, Returns, TakeSample
    <2>3. LeaveCollective(r) \/ MakeResult(r) \/ JobPrefill(r) => UNCHANGED <<entered, net>>
      BY DEF LeaveCollective, Returns, MakeResult, JobPrefill
    <2> QED BY <1>1, <1>2, <1>3, <2>1, <2>2, <2>3 DEF Step
  <1>4. RecvDraftIds \/ RecvDraftLogits \/ RecvTargetResult => QueuesOK'
    <2>1. ASSUME NEW m \in Messages, NEW S, Receive(m), net[m] \in Seq(S)
          PROVE  net' = [net EXCEPT ![m] = Tail(@)] /\ Tail(net[m]) \in Seq(S)
      BY <2>1, Queues DEF Receive
    <2>2. net \in [Messages -> Seq(Seq(Rows) \cup Answers)]
      BY DEF TypeOK, QueuesOK
    <2>3. \A m \in Messages : net[m] \in Seq(Seq(Rows) \cup Answers)
      BY <2>2
    <2>4. net["ids"] \in Seq(Seq(Nat)) /\ net["logits"] \in Seq(Seq(Rows))
              /\ net["result"] \in Seq(Answers)
      BY DEF TypeOK, QueuesOK
    <2>5. ASSUME NEW m \in Messages, Receive(m) PROVE net' \in [Messages -> Seq(Seq(Rows) \cup Answers)]
      BY <2>1, <2>2, <2>3, <2>5
    <2>6. CASE RecvDraftIds
      <3>1. Receive("ids") /\ UNCHANGED entered
        BY <2>6 DEF RecvDraftIds
      <3> QED BY <2>1, <2>2, <2>4, <2>5, <3>1 DEF TypeOK, QueuesOK, Messages
    <2>7. CASE RecvDraftLogits
      <3>1. Receive("logits") /\ UNCHANGED entered
        BY <2>7 DEF RecvDraftLogits
      <3> QED BY <2>1, <2>2, <2>4, <2>5, <3>1 DEF TypeOK, QueuesOK, Messages
    <2>8. CASE RecvTargetResult
      <3>1. Receive("result") /\ UNCHANGED entered
        BY <2>8 DEF RecvTargetResult
      <3> QED BY <2>1, <2>2, <2>4, <2>5, <3>1 DEF TypeOK, QueuesOK, Messages
    <2> QED BY <2>6, <2>7, <2>8
  <1>5. SendDraftIds \/ SendDraftLogits \/ SendTargetResult => QueuesOK'
    <2>1. /\ payload[1].ids \in Seq(Nat) /\ payload[1].logits \in Seq(Rows) /\ result[0] \in Answers
          /\ Seq(Nat) \subseteq Seq(Rows)
      BY SeqMonotonic DEF TypeOK, DataOK, Payloads, Rows
    <2>3. /\ net \in [Messages -> Seq(Seq(Rows) \cup Answers)]
          /\ net["ids"] \in Seq(Seq(Nat)) /\ net["logits"] \in Seq(Seq(Rows))
          /\ net["result"] \in Seq(Answers)
      BY DEF TypeOK, QueuesOK
    <2>4. ASSUME NEW m \in Messages, NEW x \in Seq(Rows) \cup Answers,
                 net' = [net EXCEPT ![m] = Append(@, x)]
          PROVE  net' \in [Messages -> Seq(Seq(Rows) \cup Answers)]
      <3>1. net[m] \in Seq(Seq(Rows) \cup Answers)
        BY <2>3
      <3>2. Append(net[m], x) \in Seq(Seq(Rows) \cup Answers)
        BY <3>1, AppendProperties
      <3> QED BY <2>3, <2>4, <3>2
    <2>5. CASE SendDraftIds
      <3>1. net' = [net EXCEPT !["ids"] = Append(@, payload[1].ids)] /\ UNCHANGED entered
        BY <2>5 DEF SendDraftIds, Post
      <3>2. Append(net["ids"], payload[1].ids) \in Seq(Seq(Nat))
        BY <2>1, <2>3, AppendProperties
      <3>3. net' \in [Messages -> Seq(Seq(Rows) \cup Answers)]
        BY <2>1, <2>4, <3>1 DEF Messages
      <3> QED BY <2>3, <3>1, <3>2, <3>3 DEF TypeOK, QueuesOK, Messages
    <2>6. CASE SendDraftLogits
      <3>1. net' = [net EXCEPT !["logits"] = Append(@, payload[1].logits)] /\ UNCHANGED entered
        BY <2>6 DEF SendDraftLogits, Post
      <3>2. Append(net["logits"], payload[1].logits) \in Seq(Seq(Rows))
        BY <2>1, <2>3, AppendProperties
      <3>3. net' \in [Messages -> Seq(Seq(Rows) \cup Answers)]
        BY <2>1, <2>4, <3>1 DEF Messages
      <3> QED BY <2>3, <3>1, <3>2, <3>3 DEF TypeOK, QueuesOK, Messages
    <2>7. CASE SendTargetResult
      <3>1. net' = [net EXCEPT !["result"] = Append(@, result[0])] /\ UNCHANGED entered
        BY <2>7 DEF SendTargetResult, Post
      <3>2. Append(net["result"], result[0]) \in Seq(Answers)
        BY <2>1, <2>3, AppendProperties
      <3>3. net' \in [Messages -> Seq(Seq(Rows) \cup Answers)]
        BY <2>1, <2>4, <3>1 DEF Messages
      <3> QED BY <2>3, <3>1, <3>2, <3>3 DEF TypeOK, QueuesOK, Messages
    <2> QED BY <2>5, <2>6, <2>7
  <1>6. Compare \/ Summarise \/ Median \/ FlushPendingBonus => UNCHANGED <<entered, net>>
    BY DEF Compare, Summarise, Median, FlushPendingBonus
  <1>7. GenerateDrafts \/ ApplyTargetFeedback \/ MakePayload \/ SyncDraftPrefix
            => UNCHANGED <<entered, net>>
    BY DEF GenerateDrafts, ApplyTargetFeedback, MakePayload, SyncDraftPrefix
  <1>8. /\ \A n, b : SpeculativeStep(n, b) \/ VerifyAndAccept(n, b) => UNCHANGED <<entered, net>>
        /\ \A ids : DraftGamma(ids) => UNCHANGED <<entered, net>>
    BY DEF SpeculativeStep, VerifyAndAccept, DraftGamma
  <1> QED BY <1>1, <1>3, <1>4, <1>5, <1>6, <1>7, <1>8 DEF Next, TargetStep, DraftStep

LEMMA PostedStep ==
    ASSUME TypeOK, PostedOK, Next PROVE PostedOK'
  <1> USE DEF TARGET_RANK, DRAFT_RANK, Ranks
  <1> DEFINE Blocking == Collectives \cup {"send_ids", "send_logits", "send_result"}
  <1>1. ASSUME NEW r \in Ranks, exit[r] = Running, pc[r] \notin Blocking, UNCHANGED posted,
               NEW q, pc' = [pc EXCEPT ![r] = q]
        PROVE  PostedOK'
    BY <1>1 DEF TypeOK, ControlOK, PostedOK
  <1>2. ASSUME NEW r \in Ranks, NEW q, pc' = [pc EXCEPT ![r] = q], posted' = [posted EXCEPT ![r] = FALSE]
        PROVE  PostedOK'
    BY <1>2 DEF TypeOK, ControlOK, PostedOK
  <1>3. ASSUME NEW r \in Ranks, pc[r] \in Blocking, posted' = [posted EXCEPT ![r] = TRUE], UNCHANGED pc
        PROVE  PostedOK'
    BY <1>3 DEF TypeOK, ControlOK, PostedOK
  <1>4. ASSUME NEW r \in Ranks, NEW p, At(r, p), p \notin Blocking,
               Done(r) \/ \E s : Leave(r, s)
        PROVE  PostedOK'
    BY <1>1, <1>4 DEF At, Done, Leave, Continue
  <1> USE DEF Collectives, Barriers, Timings
  <1>5. ASSUME NEW r \in Ranks, Step(r) PROVE PostedOK'
    <2>1. Check(r) \/ BindRankToCuda(r) \/ VerifyDistinctGpus(r) \/ Return(r) => PostedOK'
      BY <1>4 DEF Check, BindRankToCuda, VerifyDistinctGpus, Return
    <2>2. Jobs(r) \/ Round(r) => PostedOK'
      BY <1>1 DEF Jobs, Round, At
    <2>3. ASSUME NEW p \in Loops, For(r, p) PROVE PostedOK'
      BY <1>1, <2>3 DEF For, At, Loops
    <2>4. ASSUME NEW p, SendReturns(r, p) PROVE PostedOK'
      BY <1>2, <2>4 DEF SendReturns, Returns, Continue
    <2>5. LeaveCollective(r) => PostedOK'
      BY <1>2 DEF LeaveCollective, Returns, Continue
    <2>6. Enter(r) => PostedOK'
      BY <1>3 DEF Enter
    <2>7. MakeResult(r) \/ JobPrefill(r) => PostedOK'
      BY <1>4 DEF MakeResult, JobPrefill, RaisesUnless
    <2>8. ASSUME NEW p \in {"sample_to_target", "sample_to_draft"}, TakeSample(r, p) PROVE PostedOK'
      BY <1>4, <2>8 DEF TakeSample
    <2> QED BY <1>5, <2>1, <2>2, <2>3, <2>4, <2>5, <2>6, <2>7, <2>8 DEF Step
  <1>6. RecvDraftIds \/ RecvDraftLogits \/ RecvTargetResult => PostedOK'
    BY <1>4 DEF RecvDraftIds, RecvDraftLogits, RecvTargetResult
  <1>7. SendDraftIds \/ SendDraftLogits \/ SendTargetResult => PostedOK'
    BY <1>3 DEF SendDraftIds, SendDraftLogits, SendTargetResult, Post, At
  <1>8. Compare \/ Summarise \/ Median \/ FlushPendingBonus => PostedOK'
    BY <1>4 DEF Compare, Summarise, Median, FlushPendingBonus, RaisesUnless
  <1>9. GenerateDrafts \/ ApplyTargetFeedback \/ MakePayload \/ SyncDraftPrefix => PostedOK'
    BY <1>4 DEF GenerateDrafts, ApplyTargetFeedback, MakePayload, SyncDraftPrefix, RaisesUnless
  <1>10. /\ \A n, b : SpeculativeStep(n, b) \/ VerifyAndAccept(n, b) => PostedOK'
         /\ \A ids : DraftGamma(ids) => PostedOK'
    BY <1>4 DEF SpeculativeStep, VerifyAndAccept, DraftGamma, RaisesUnless
  <1> QED BY <1>5, <1>6, <1>7, <1>8, <1>9, <1>10 DEF Next, TargetStep, DraftStep

LEMMA CheckedStep ==
    ASSUME TypeOK, CheckedOK, Next PROVE CheckedOK'
  <1> USE DEF TARGET_RANK, DRAFT_RANK, Ranks
  <1>1. ASSUME NEW r \in Ranks, pc[r] # "check", NEW q, pc' = [pc EXCEPT ![r] = q],
               UNCHANGED launch,
               exit' = exit \/ \E s \in {0, 1, 2, 3, Raised} : exit' = [exit EXCEPT ![r] = s]
        PROVE  CheckedOK'
    BY <1>1 DEF TypeOK, ControlOK, CheckedOK, Running, Raised
  <1>2. UNCHANGED <<launch, pc, exit>> => CheckedOK'
    BY DEF CheckedOK
  <1>3. ASSUME NEW r \in Ranks, NEW p, At(r, p), p # "check", UNCHANGED launch,
               Done(r) \/ \E s \in {0, 1, 2, 3, Raised} : Leave(r, s)
        PROVE  CheckedOK'
    BY <1>1, <1>3 DEF At, Done, Leave, Continue
  <1>4. ASSUME NEW r \in Ranks, Check(r) PROVE CheckedOK'
    <2>1. ASSUME NEW s \in {0, 1, 2, 3, Raised}, Leave(r, s), UNCHANGED launch PROVE CheckedOK'
      BY <2>1 DEF Leave, Continue, TypeOK, ControlOK, CheckedOK, Running, Raised
    <2>2. CASE Done(r) /\ UNCHANGED launch /\ (launch.prog # "worker" => launch.gamma \in 1 .. 7)
      BY <2>2 DEF Done, Continue, TypeOK, ControlOK, CheckedOK
    <2> QED BY <1>4, <2>1, <2>2 DEF Check
  <1>5. ASSUME NEW r \in Ranks, Step(r) PROVE CheckedOK'
    <2>1. BindRankToCuda(r) \/ VerifyDistinctGpus(r) \/ Return(r) => CheckedOK'
      BY <1>3 DEF BindRankToCuda, VerifyDistinctGpus, Return
    <2>2. Jobs(r) \/ Round(r) => CheckedOK'
      BY <1>1 DEF Jobs, Round, At
    <2>3. ASSUME NEW p \in Loops, For(r, p) PROVE CheckedOK'
      BY <1>1, <2>3 DEF For, At, Loops
    <2>4. ASSUME NEW p \in DOMAIN Sends, SendReturns(r, p) PROVE CheckedOK'
      BY <1>1, <2>4 DEF SendReturns, Returns, Continue, Sends
    <2>5. LeaveCollective(r) => CheckedOK'
      BY <1>1 DEF LeaveCollective, Returns, Continue, Collectives, Barriers, Timings
    <2>6. Enter(r) => CheckedOK'
      BY <1>2 DEF Enter
    <2>7. MakeResult(r) \/ JobPrefill(r) => CheckedOK'
      BY <1>3 DEF MakeResult, JobPrefill, RaisesUnless
    <2>8. ASSUME NEW p \in {"sample_to_target", "sample_to_draft"}, TakeSample(r, p) PROVE CheckedOK'
      BY <1>3, <2>8 DEF TakeSample
    <2> QED BY <1>4, <1>5, <2>1, <2>2, <2>3, <2>4, <2>5, <2>6, <2>7, <2>8 DEF Step
  <1>6. RecvDraftIds \/ RecvDraftLogits \/ RecvTargetResult => CheckedOK'
    BY <1>3 DEF RecvDraftIds, RecvDraftLogits, RecvTargetResult
  <1>7. SendDraftIds \/ SendDraftLogits \/ SendTargetResult => CheckedOK'
    BY <1>2 DEF SendDraftIds, SendDraftLogits, SendTargetResult, Post
  <1>8. Compare \/ Summarise \/ Median \/ FlushPendingBonus => CheckedOK'
    BY <1>3 DEF Compare, Summarise, Median, FlushPendingBonus, RaisesUnless
  <1>9. GenerateDrafts \/ ApplyTargetFeedback \/ MakePayload \/ SyncDraftPrefix => CheckedOK'
    BY <1>3 DEF GenerateDrafts, ApplyTargetFeedback, MakePayload, SyncDraftPrefix, RaisesUnless
  <1>10. /\ \A n, b : SpeculativeStep(n, b) \/ VerifyAndAccept(n, b) => CheckedOK'
         /\ \A ids : DraftGamma(ids) => CheckedOK'
    BY <1>3 DEF SpeculativeStep, VerifyAndAccept, DraftGamma, RaisesUnless
  <1> QED BY <1>5, <1>6, <1>7, <1>8, <1>9, <1>10 DEF Next, TargetStep, DraftStep

\* The prototype's text and the worker's cursor need the programs' own
\* invariants.
LEMMA DataStep ==
    ASSUME TypeOK, CheckedOK, Next, pc[DRAFT_RANK] = "draft_gamma" => launch.prog = "main",
           text' \in [Ranks -> Seq(Token)], cursor' \in [Ranks -> Nat]
    PROVE  DataOK'
  <1> USE DEF TARGET_RANK, DRAFT_RANK, Ranks
  <1>0. LET d == <<pending, payload, result, accepted, clen, samples>> IN UNCHANGED d => DataOK'
    BY DEF TypeOK, DataOK
  <1>1. ASSUME NEW r \in Ranks, Step(r) PROVE DataOK'
    <2>1. Check(r) \/ BindRankToCuda(r) \/ VerifyDistinctGpus(r) \/ Return(r) \/ Jobs(r) \/ Round(r)
              \/ LeaveCollective(r) \/ Enter(r)
          => DataOK'
      BY <1>0 DEF Check, BindRankToCuda, VerifyDistinctGpus, Return, Jobs, Round, LeaveCollective,
                  Enter, Returns, data
    <2>2. ASSUME NEW p, For(r, p) \/ SendReturns(r, p) PROVE DataOK'
      BY <1>0, <2>2 DEF For, SendReturns, Returns, data
    <2>3. MakeResult(r) => DataOK'
      <3> SUFFICES ASSUME MakeResult(r) PROVE DataOK'
        OBVIOUS
      <3> DEFINE x == [result[r] EXCEPT !.n = (turn[r] - 1) % 4, !.bonus = turn[r]]
      <3>1. result[r] \in Answers /\ turn[r] \in Nat
        BY DEF TypeOK, DataOK, ControlOK
      <3>2. (turn[r] - 1) % 4 \in Nat
        BY <3>1
      <3>3. x \in Answers
        BY <3>1, <3>2 DEF Answers
      <3>4. result' = [result EXCEPT ![r] = x]
        BY DEF MakeResult
      <3> HIDE DEF x
      <3> QED BY <3>3, <3>4 DEF TypeOK, DataOK, MakeResult
    <2>4. JobPrefill(r) => DataOK'
      <3> SUFFICES ASSUME JobPrefill(r) PROVE DataOK'
        OBVIOUS
      <3>1. PromptLen \in Nat
        <4>1. launch \in Launches
          BY DEF TypeOK, ControlOK
        <4>2. launch.prefix \in Seq(Token)
          BY <4>1, LaunchFacts
        <4> QED BY <4>2 DEF PromptLen
      <3> QED BY <3>1 DEF TypeOK, DataOK, JobPrefill
    <2>5. ASSUME NEW p, TakeSample(r, p) PROVE DataOK'
      <3>1. turn[r] \in Nat /\ \A t \in Timings : samples[r][t] \in Seq(Nat)
        BY DEF TypeOK, DataOK, ControlOK
      <3>2. \A t \in Timings : Append(samples[r][t], turn[r]) \in Seq(Nat)
        BY <3>1
      <3>3. samples' \in [Ranks -> [Timings -> Seq(Nat)]]
        BY <2>5, <3>1, <3>2 DEF TakeSample, TypeOK, DataOK
      <3> QED BY <2>5, <3>3 DEF TakeSample, TypeOK, DataOK
    <2> QED BY <1>1, <2>1, <2>2, <2>3, <2>4, <2>5 DEF Step
  <1>2. RecvDraftIds => DataOK'
    <2> SUFFICES ASSUME RecvDraftIds PROVE DataOK'
      OBVIOUS
    <2>1. Head(net["ids"]) \in Seq(Nat)
      BY Queues DEF RecvDraftIds, Receive, TypeOK, QueuesOK
    <2>2. payload' \in [Ranks -> Payloads]
      BY <2>1 DEF RecvDraftIds, TypeOK, DataOK, Payloads
    <2> QED BY <2>2 DEF RecvDraftIds, TypeOK, DataOK
  <1>3. RecvDraftLogits => DataOK'
    <2> SUFFICES ASSUME RecvDraftLogits PROVE DataOK'
      OBVIOUS
    <2>1. Head(net["logits"]) \in Seq(Rows)
      BY Queues DEF RecvDraftLogits, Receive, TypeOK, QueuesOK
    <2>2. payload' \in [Ranks -> Payloads]
      BY <2>1 DEF RecvDraftLogits, TypeOK, DataOK, Payloads
    <2> QED BY <2>2 DEF RecvDraftLogits, TypeOK, DataOK
  <1>4. RecvTargetResult => DataOK'
    <2> SUFFICES ASSUME RecvTargetResult PROVE DataOK'
      OBVIOUS
    <2>1. Head(net["result"]) \in Answers
      BY Queues DEF RecvTargetResult, Receive, TypeOK, QueuesOK
    <2> QED BY <2>1 DEF RecvTargetResult, TypeOK, DataOK
  <1>5. SendDraftIds \/ SendDraftLogits \/ SendTargetResult \/ Compare \/ Summarise \/ Median => DataOK'
    BY <1>0 DEF SendDraftIds, SendDraftLogits, SendTargetResult, Post, Compare, Summarise, Median, data
  <1>6. FlushPendingBonus \/ GenerateDrafts => DataOK'
    BY DEF FlushPendingBonus, GenerateDrafts, TypeOK, DataOK
  <1>7. MakePayload => DataOK'
    <2> SUFFICES ASSUME MakePayload PROVE DataOK'
      OBVIOUS
    <2> DEFINE x == [ids |-> <<turn[1]>>, logits |-> <<turn[1]>>, drawn |-> <<>>]
    <2>1. turn[1] \in Nat /\ turn[1] \in Rows
      BY DEF TypeOK, ControlOK, Rows
    <2>2. x \in Payloads
      BY <2>1 DEF Payloads
    <2>3. payload' = [payload EXCEPT ![1] = x]
      BY DEF MakePayload
    <2> HIDE DEF x
    <2>4. payload' \in [Ranks -> Payloads]
      BY <2>2, <2>3 DEF TypeOK, DataOK
    <2> QED BY <2>4 DEF MakePayload, TypeOK, DataOK
  <1>8. SyncDraftPrefix \/ ApplyTargetFeedback => DataOK'
    <2>1. result[1].n \in Nat /\ accepted[1] \in Seq(Nat) /\ clen[1] \in Nat
      BY DEF TypeOK, DataOK, Answers
    <2>2. Append(accepted[1], result[1].n) \in Seq(Nat) /\ clen[1] + result[1].n + 1 \in Nat
      BY <2>1
    <2>3. SyncDraftPrefix => DataOK'
      <3> SUFFICES ASSUME SyncDraftPrefix PROVE DataOK'
        OBVIOUS
      <3> DEFINE w == Append(accepted[1], result[1].n)
      <3>1. w \in Seq(Nat)
        BY <2>2
      <3>2. accepted' = [accepted EXCEPT ![1] = w]
        BY DEF SyncDraftPrefix
      <3> HIDE DEF w
      <3>3. accepted' \in [Ranks -> Seq(Nat)]
        BY <3>1, <3>2 DEF TypeOK, DataOK
      <3> QED BY <3>3 DEF SyncDraftPrefix, TypeOK, DataOK
    <2>4. ApplyTargetFeedback => DataOK'
      <3> SUFFICES ASSUME ApplyTargetFeedback PROVE DataOK'
        OBVIOUS
      <3>1. accepted' \in [Ranks -> Seq(Nat)] /\ clen' \in [Ranks -> Nat]
        BY <2>2 DEF ApplyTargetFeedback, Counts, TypeOK, DataOK
      <3> QED BY <3>1 DEF ApplyTargetFeedback, TypeOK, DataOK
    <2> QED BY <2>3, <2>4
  <1>9. ASSUME NEW n \in 0 .. launch.gamma, NEW b \in TargetVocab, SpeculativeStep(n, b) PROVE DataOK'
    <2>a. b \in Nat
      BY DEF TargetVocab
    <2>1. n \in Nat /\ accepted[0] \in Seq(Nat) /\ clen[0] \in Nat /\ cursor[0] \in Nat
      BY DEF TypeOK, DataOK
    <2>2. Append(accepted[0], n) \in Seq(Nat) /\ clen[0] + n + 1 \in Nat
      BY <2>1
    <2>b. Len(Bonus) \in Nat
      BY BonusType DEF TypeOK, DataOK
    <2>3. [n |-> n, bonus |-> b, prefix |-> cursor[0], cacheAfter |-> cursor[0] + Len(Bonus) + n]
              \in Answers
      BY <2>1, <2>a, <2>b DEF Answers
    <2> QED BY <1>9, <2>a, <2>2, <2>3 DEF SpeculativeStep, Counts, TypeOK, DataOK
  <1>10. ASSUME NEW n \in 0 .. launch.gamma, NEW b \in Token, VerifyAndAccept(n, b) PROVE DataOK'
    <2>1. n \in Nat /\ accepted[0] \in Seq(Nat) /\ text[0] \in Seq(Token)
      BY DEF TypeOK, DataOK
    <2>2. Append(accepted[0], n) \in Seq(Nat) /\ b \in Nat
      BY <2>1, RankAssumption
    <2>3. [n |-> n, bonus |-> b, prefix |-> Len(text[0]), cacheAfter |-> Len(text[0]) + Len(Bonus) + n]
              \in Answers
      <3>1. Len(text[0]) \in Nat
        BY <2>1
      <3>2. Len(Bonus) \in Nat
        BY BonusType DEF TypeOK, DataOK
      <3>3. n \in Nat /\ b \in Nat
        BY <2>1, <2>2
      <3> DEFINE u == Len(Bonus)  v == Len(text[0])
      <3> HIDE DEF u, v
      <3>4. u \in Nat /\ v \in Nat
        BY <3>1, <3>2 DEF u, v
      <3>5. [n |-> n, bonus |-> b, prefix |-> v, cacheAfter |-> v + u + n] \in Answers
        BY <3>3, <3>4 DEF Answers
      <3> QED BY <3>5 DEF u, v
    <2> QED BY <1>10, <2>2, <2>3 DEF VerifyAndAccept, TypeOK, DataOK
  <1>11. ASSUME NEW ids \in [1 .. launch.gamma -> Token], DraftGamma(ids) PROVE DataOK'
    <2>1. launch.gamma \in 1 .. 7 /\ Token \subseteq Nat /\ text[1] \in Seq(Token)
      BY <1>11, RankAssumption DEF DraftGamma, At, TypeOK, DataOK, CheckedOK
    <2>2. ids \in Seq(Token) /\ ids \in Seq(Nat) /\ Len(ids) = launch.gamma
      <3>1. launch.gamma \in Nat
        BY <2>1
      <3>2. ids \in Seq(Token) /\ Len(ids) = launch.gamma
        BY <3>1, FunctionIsSeq
      <3> QED BY <2>1, <3>2, SeqMonotonic
    <2>3. \A i \in 1 .. launch.gamma : text[1] \o SubSeq(ids, 1, i - 1) \in Seq(Token)
      BY <2>1, <2>2
    <2> DEFINE drawn == [i \in 1 .. launch.gamma |-> MockLogits(text[1] \o SubSeq(ids, 1, i - 1), i)]
               x == [ids |-> ids, logits |-> <<MockLogits(text[1], 0)>> \o drawn, drawn |-> drawn]
    <2>4. drawn \in Seq(Rows)
      <3>1. drawn \in [1 .. launch.gamma -> Rows]
        BY <2>1, <2>3 DEF MockLogits, Rows
      <3>2. launch.gamma \in Nat
        BY <2>1
      <3> HIDE DEF drawn
      <3> QED BY <3>1, <3>2, FunctionIsSeq
    <2>5. <<MockLogits(text[1], 0)>> \in Seq(Rows)
      BY <2>1 DEF MockLogits, Rows
    <2>6. payload' = [payload EXCEPT ![1] = x]
      BY <1>11 DEF DraftGamma
    <2> HIDE DEF drawn
    <2>7. x \in Payloads
      BY <2>2, <2>4, <2>5 DEF Payloads
    <2> HIDE DEF x
    <2>8. payload' \in [Ranks -> Payloads]
      BY <2>6, <2>7 DEF TypeOK, DataOK
    <2> QED BY <1>11, <2>8 DEF DraftGamma, TypeOK, DataOK
  <1> QED BY <1>1, <1>2, <1>3, <1>4, <1>5, <1>6, <1>7, <1>8, <1>9, <1>10, <1>11
           DEF Next, TargetStep, DraftStep

\* Where the two ranks stand decides how far apart they are.
LEMMA Offsets ==
    /\ DraftIds \in 0 .. 1 /\ DraftLogits \in 0 .. DraftIds /\ DraftResult \in 0 .. DraftLogits
    /\ TargetIds \in 0 .. 1 /\ TargetLogits \in 0 .. TargetIds /\ TargetOwes \in 0 .. 1 - TargetIds
  <1>1. DraftIds \in 0 .. 1 /\ TargetIds \in 0 .. 1 /\ DraftLogits \in 0 .. 1 /\ TargetLogits \in 0 .. 1
            /\ DraftResult \in 0 .. 1 /\ TargetOwes \in 0 .. 1
    BY DEF DraftIds, DraftLogits, DraftResult, TargetIds, TargetLogits, TargetOwes
  <1>2. DraftLogits = 1 => DraftIds = 1
    BY DEF DraftIds, DraftLogits
  <1>3. DraftResult = 1 => DraftLogits = 1
    BY DEF DraftResult, DraftLogits
  <1>4. TargetLogits = 1 => TargetIds = 1
    BY DEF TargetLogits, TargetIds
  <1>5. TargetIds = 1 => TargetOwes = 0
    BY DEF TargetOwes, TargetIds
  <1> QED BY <1>1, <1>2, <1>3, <1>4, <1>5

LEMMA Whole ==
    /\ DraftIds \in Int /\ DraftLogits \in Int /\ DraftResult \in Int
    /\ TargetIds \in Int /\ TargetLogits \in Int /\ TargetOwes \in Int
  BY DEF DraftIds, DraftLogits, DraftResult, TargetIds, TargetLogits, TargetOwes

LEMMA Apart ==
    ASSUME TypeOK, NEW target \in Nat, NEW draft \in Nat, Traffic(target, draft)
    PROVE  /\ \A m \in Messages : Len(net[m]) <= 1 /\ (net[m] # <<>> => Len(net[m]) > 0)
           /\ target >= draft /\ target <= draft + 1
           /\ TargetLogits = 1 => target = draft /\ DraftLogits = 1 /\ DraftResult = 0
           /\ DraftResult = 1 => target = draft + 1
           /\ DraftIds = 0 => target = draft /\ TargetIds = 0 /\ TargetOwes = 0
           /\ net["ids"] # <<>> => target = draft /\ DraftIds = 1 /\ TargetIds = 0
           /\ net["logits"] # <<>> => target = draft /\ DraftIds = 1 /\ TargetLogits = 0
           /\ net["result"] # <<>> => target = draft + 1 /\ DraftResult = 0 /\ TargetOwes = 0
  <1>1. /\ Len(net["ids"]) \in Nat /\ Len(net["logits"]) \in Nat /\ Len(net["result"]) \in Nat
        /\ net["ids"] # <<>> => Len(net["ids"]) > 0
        /\ net["logits"] # <<>> => Len(net["logits"]) > 0
        /\ net["result"] # <<>> => Len(net["result"]) > 0
    BY Queues DEF TypeOK, QueuesOK
  <1> DEFINE i == Len(net["ids"])  l == Len(net["logits"])  a == Len(net["result"])
  <1>2. /\ i = (draft + DraftIds) - (target + TargetIds)
        /\ l = (draft + DraftLogits) - (target + TargetLogits)
        /\ a = (target - TargetOwes) - (draft + DraftResult)
    BY DEF Traffic
  <1> HIDE DEF i, l, a
  <1>3. i \in Nat /\ l \in Nat /\ a \in Nat
    BY <1>1 DEF i, l, a
  <1>4. target >= draft
    BY <1>2, <1>3, Offsets
  <1>4b. target <= draft + 1
    BY <1>2, <1>3, Offsets
  <1>5. i <= 1 /\ l <= 1 /\ a <= 1
    BY <1>2, <1>3, Offsets
  <1>6. /\ TargetLogits = 1 => target = draft /\ DraftLogits = 1 /\ DraftResult = 0
        /\ DraftResult = 1 => target = draft + 1
        /\ DraftIds = 0 => target = draft /\ TargetIds = 0 /\ TargetOwes = 0
    BY <1>2, <1>3, Offsets
  <1>7. /\ i > 0 => target = draft /\ DraftIds = 1 /\ TargetIds = 0
        /\ l > 0 => target = draft /\ DraftIds = 1 /\ TargetLogits = 0
        /\ a > 0 => target = draft + 1 /\ DraftResult = 0 /\ TargetOwes = 0
    BY <1>2, <1>3, Offsets
  <1>8. Len(net["ids"]) <= 1 /\ Len(net["logits"]) <= 1 /\ Len(net["result"]) <= 1
    BY <1>5 DEF i, l, a
  <1>9. \A m \in Messages : Len(net[m]) <= 1 /\ (net[m] # <<>> => Len(net[m]) > 0)
    <2> SUFFICES ASSUME NEW m \in Messages
                 PROVE  Len(net[m]) <= 1 /\ (net[m] # <<>> => Len(net[m]) > 0)
      OBVIOUS
    <2>1. CASE m = "ids"
      BY <1>1, <1>8, <2>1
    <2>2. CASE m = "logits"
      BY <1>1, <1>8, <2>2
    <2>3. CASE m = "result"
      BY <1>1, <1>8, <2>3
    <2> QED BY <2>1, <2>2, <2>3 DEF Messages
  <1>10. net["ids"] # <<>> => i > 0
    BY <1>1 DEF i
  <1>11. net["result"] # <<>> => a > 0
    BY <1>1 DEF a
  <1>12. net["logits"] # <<>> => l > 0
    BY <1>1 DEF l
  <1> QED BY <1>4, <1>4b, <1>6, <1>7, <1>9, <1>10, <1>11, <1>12

-----------------------------------------------------------------------------
(* The prototype *)

MainPaths ==
    /\ \A r \in Ranks :
           /\ Following("check", r) = IF launch.requireGpu THEN "bind" ELSE "steps"
           /\ Following("bind", r) = "bind_barrier" /\ Following("bind_barrier", r) = "device"
           /\ Following("device", r) = "distinct" /\ Following("distinct", r) = "distinct_barrier"
           /\ Following("distinct_barrier", r) = "steps" /\ Following("end_barrier", r) = "prefix"
           /\ Following("return", r) = "return"
    /\ Following("prefix", TARGET_RANK) = "compare" /\ Following("prefix", DRAFT_RANK) = "return"
    /\ Following("compare", TARGET_RANK) = "return"
    /\ Following("recv_ids", TARGET_RANK) = "recv_logits"
    /\ Following("recv_logits", TARGET_RANK) = "verify_and_accept"
    /\ Following("verify_and_accept", TARGET_RANK) = "send_result"
    /\ Following("send_result", TARGET_RANK) = "steps"
    /\ Following("flush", TARGET_RANK) = "end_barrier"
    /\ Following("draft_gamma", DRAFT_RANK) = "send_ids"
    /\ Following("send_ids", DRAFT_RANK) = "send_logits"
    /\ Following("send_logits", DRAFT_RANK) = "recv_result"
    /\ Following("recv_result", DRAFT_RANK) = "sync_draft_prefix"
    /\ Following("sync_draft_prefix", DRAFT_RANK) = "steps"

\* The prototype's program, operation by operation.
LEMMA MainFollowing ==
    ASSUME launch.prog = "main" PROVE MainPaths
  BY DEF MainPaths, Following, MainProgram, GpuCheck, TargetLoop, DraftLoop, Ranks, TARGET_RANK,
         DRAFT_RANK

\* Rebuilding the text from the answer to a verification gives the verified
\* text, the accepted drafts and the bonus.
LEMMA SyncedText ==
    ASSUME NEW t \in Seq(Token), NEW b \in {<<>>} \cup {<<y>> : y \in Token},
           NEW ids \in Seq(Token), NEW n \in 0 .. Len(ids), NEW x \in Token,
           text[DRAFT_RANK] = t \o b, payload[DRAFT_RANK].ids = ids
    PROVE  Synced([n |-> n, bonus |-> x, prefix |-> Len(t), cacheAfter |-> Len(t) + Len(b) + n])
               = (t \o b \o SubSeq(ids, 1, n)) \o <<x>>
  <1> DEFINE a == [n |-> n, bonus |-> x, prefix |-> Len(t), cacheAfter |-> Len(t) + Len(b) + n]
             extra == IF a.cacheAfter > a.prefix + a.n /\ Len(t \o b) > a.prefix
                      THEN <<(t \o b)[a.prefix + 1]>> ELSE <<>>
  <1>1. SubSeq(t \o b, 1, Len(t)) = t
    OBVIOUS
  <1>2. extra = b
    <2>1. CASE b = <<>>
      BY <2>1
    <2>2. ASSUME NEW y \in Token, b = <<y>> PROVE extra = b
      BY <2>2
    <2> QED BY <2>1, <2>2
  <1>3. Synced(a) = SubSeq(t \o b, 1, Len(t)) \o extra \o SubSeq(ids, 1, n) \o <<x>>
    BY DEF Synced
  <1> QED BY <1>1, <1>2, <1>3

MainState == TypeOK /\ PostedOK /\ CheckedOK /\ launch.prog = "main" /\ MainInv
MainAgain ==
    /\ launch.prog = "main" /\ MainInv
    /\ pc \in [Ranks -> Operations] /\ text \in [Ranks -> Seq(Token)] /\ cursor \in [Ranks -> Nat]

LEMMA MainApart ==
    ASSUME MainState
    PROVE  /\ Len(accepted[0]) \in Nat /\ Len(accepted[1]) \in Nat
           /\ Traffic(Len(accepted[0]), Len(accepted[1]))
  BY DEF MainState, MainInv, MainTraffic, TypeOK, DataOK, Ranks, TARGET_RANK, DRAFT_RANK

LEMMA TargetStands ==
    ASSUME pc'[0] = pc[0], posted'[0] = posted[0]
    PROVE  TargetIds' = TargetIds /\ TargetLogits' = TargetLogits /\ TargetOwes' = TargetOwes
  BY DEF TargetIds, TargetLogits, TargetOwes, TARGET_RANK

LEMMA DraftStands ==
    ASSUME pc'[1] = pc[1], posted'[1] = posted[1]
    PROVE  DraftIds' = DraftIds /\ DraftLogits' = DraftLogits /\ DraftResult' = DraftResult
  BY DEF DraftIds, DraftLogits, DraftResult, DRAFT_RANK

\* The ranks' conditions, for a step of rank r from p to q.
LEMMA MainMoves ==
    ASSUME MainState, NEW r \in Ranks, NEW q \in IF r = 0 THEN MainTarget ELSE MainDraft,
           pc' = [pc EXCEPT ![r] = q], UNCHANGED launch, q \in Gpu => launch.requireGpu
    PROVE  MainLabels' /\ pc' \in [Ranks -> Operations]
  <1> USE DEF TARGET_RANK, DRAFT_RANK, Ranks
  <1>1. pc \in [Ranks -> Operations] /\ MainLabels
    BY DEF MainState, TypeOK, ControlOK, MainInv
  <1>2. q \in Operations
    BY DEF Operations
  <1>3. pc'[0] \in MainTarget /\ pc'[1] \in MainDraft
    BY <1>1 DEF MainLabels
  <1>4. \A s \in Ranks : pc'[s] \in Gpu => launch.requireGpu
    BY <1>1 DEF MainLabels
  <1>5. MainLabels'
    BY <1>3, <1>4 DEF MainLabels
  <1> QED BY <1>1, <1>2, <1>5

LEMMA MainWithin ==
    ASSUME MainState, NEW r \in Ranks, NEW q, pc' = [pc EXCEPT ![r] = q],
           UNCHANGED <<launch, entered>>,
           MainEntered(pc[r]) + Now(r) = MainEntered(q) + Now(r)',
           posted'[1 - r] = posted[1 - r]
    PROVE  MainCollectives' /\ MainNames'
  <1> USE DEF TARGET_RANK, DRAFT_RANK, Ranks
  <1>1. pc \in [Ranks -> Operations] /\ MainCollectives /\ MainNames
    BY DEF MainState, TypeOK, ControlOK, MainInv
  <1>2. pc'[r] = q /\ pc'[1 - r] = pc[1 - r] /\ Now(1 - r)' = Now(1 - r)
    BY <1>1 DEF Now
  <1>3. \A p : MainEntered(p)' = MainEntered(p)
    BY DEF MainEntered, G0
  <1>4. \A s \in Ranks : Len(entered'[s]) = MainEntered(pc'[s]) + Now(s)'
    BY <1>1, <1>2 DEF MainCollectives
  <1>5. MainCollectives'
    BY <1>3, <1>4 DEF MainCollectives
  <1>6. MainNames'
    BY <1>1 DEF MainNames, MainAt, G0
  <1> QED BY <1>5, <1>6

LEMMA MainTextsSame ==
    ASSUME MainState, UNCHANGED <<text, pending, accepted>>, payload'[1] = payload[1],
           result'[0] = result[0]
    PROVE  MainTexts'
  <1>1. MainTexts /\ Bonus' = Bonus
    BY DEF MainState, MainInv, Bonus
  <1>2. \A a : Synced(a)' = Synced(a)
    BY DEF Synced, DRAFT_RANK
  <1> QED BY <1>1, <1>2 DEF MainTexts, TARGET_RANK, DRAFT_RANK

LEMMA MainTurnsStep ==
    ASSUME MainState, NEW r \in Ranks, NEW q, pc' = [pc EXCEPT ![r] = q], UNCHANGED launch,
           turn'[1 - r] = turn[1 - r], accepted'[1 - r] = accepted[1 - r],
           MainTurn(q, turn'[r], Len(accepted'[r]))
    PROVE  MainTurns'
  <1> USE DEF TARGET_RANK, DRAFT_RANK, Ranks
  <1>1. pc \in [Ranks -> Operations] /\ MainTurns
    BY DEF MainState, TypeOK, ControlOK, MainInv
  <1>2. pc'[r] = q /\ pc'[1 - r] = pc[1 - r]
    BY <1>1
  <1>3. \A p, b, f : MainTurn(p, b, f)' = MainTurn(p, b, f)
    BY DEF MainTurn
  <1>4. \A s \in Ranks : MainTurn(pc'[s], turn'[s], Len(accepted'[s]))
    BY <1>1, <1>2 DEF MainTurns
  <1> QED BY <1>3, <1>4 DEF MainTurns

\* Operations at which a rank has no message of its round behind it.
Level == Operations \ {"send_ids", "send_logits", "recv_result", "sync_draft_prefix",
                       "apply_target_feedback", "recv_logits", "verify_and_accept",
                       "speculative_step", "send_result"}

LEMMA LevelOffsets ==
    ASSUME TypeOK, NEW r \in Ranks, NEW q \in Level, pc[r] \in Level, pc' = [pc EXCEPT ![r] = q],
           posted'[1 - r] = posted[1 - r]
    PROVE  /\ DraftIds' = DraftIds /\ DraftLogits' = DraftLogits /\ DraftResult' = DraftResult
           /\ TargetIds' = TargetIds /\ TargetLogits' = TargetLogits /\ TargetOwes' = TargetOwes
  <1> USE DEF TARGET_RANK, DRAFT_RANK, Ranks
  <1>1. pc \in [Ranks -> Operations]
    BY DEF TypeOK, ControlOK
  <1>2. CASE r = 0
    <2>1. pc'[1] = pc[1] /\ posted'[1] = posted[1]
      BY <1>1, <1>2
    <2>2. pc[0] \in Level /\ pc'[0] \in Level
      BY <1>1, <1>2
    <2>3. TargetIds' = TargetIds /\ TargetLogits' = TargetLogits /\ TargetOwes' = TargetOwes
      BY <2>2 DEF TargetIds, TargetLogits, TargetOwes, Level
    <2> QED BY <2>1, <2>3, DraftStands
  <1>3. CASE r = 1
    <2>1. pc'[0] = pc[0] /\ posted'[0] = posted[0]
      BY <1>1, <1>3
    <2>2. pc[1] \in Level /\ pc'[1] \in Level
      BY <1>1, <1>3
    <2>3. DraftIds' = DraftIds /\ DraftLogits' = DraftLogits /\ DraftResult' = DraftResult
      BY <2>2 DEF DraftIds, DraftLogits, DraftResult, Level
    <2> QED BY <2>1, <2>3, TargetStands
  <1> QED BY <1>2, <1>3

\* A step that only moves on, between operations with no message behind.
LEMMA MainQuiet ==
    ASSUME MainState, NEW r \in Ranks, NEW q \in IF r = 0 THEN MainTarget ELSE MainDraft,
           pc' = [pc EXCEPT ![r] = q], q \in Gpu => launch.requireGpu,
           pc[r] \in Level, q \in Level,
           UNCHANGED <<launch, entered, net, data>>,
           posted'[1 - r] = posted[1 - r], turn'[1 - r] = turn[1 - r],
           MainEntered(pc[r]) + Now(r) = MainEntered(q) + Now(r)',
           MainTurn(q, turn'[r], Len(accepted[r])),
           MainGathered'
    PROVE  MainAgain'
  <1> USE DEF TARGET_RANK, DRAFT_RANK, Ranks, data
  <1>1. pc \in [Ranks -> Operations] /\ MainMessages /\ TypeOK
    BY DEF MainState, TypeOK, ControlOK, MainInv
  <1>2. MainLabels' /\ pc' \in [Ranks -> Operations]
    BY MainMoves
  <1>3. MainCollectives' /\ MainNames'
    BY MainWithin
  <1>4. MainTurns'
    BY MainTurnsStep
  <1>5. MainTraffic'
    <2>1. UNCHANGED <<DraftIds, DraftLogits, DraftResult, TargetIds, TargetLogits, TargetOwes>>
      BY <1>1, LevelOffsets
    <2> QED BY <2>1, MainApart DEF MainTraffic, Traffic
  <1>6. MainMessages'
    BY <1>1 DEF MainMessages, Level
  <1>7. MainTexts'
    BY MainTextsSame
  <1> QED BY <1>2, <1>3, <1>4, <1>5, <1>6, <1>7 DEF MainAgain, MainInv, MainState, TypeOK, DataOK

LEMMA MainRecvDraftIds ==
    ASSUME MainState, RecvDraftIds PROVE MainAgain'
  <1> USE DEF TARGET_RANK, DRAFT_RANK, Ranks
  <1>1. /\ pc[0] = "recv_ids" /\ pc' = [pc EXCEPT ![0] = "recv_logits"]
        /\ exit[0] = Running /\ net["ids"] # <<>> /\ net' = [net EXCEPT !["ids"] = Tail(@)]
        /\ payload' = [payload EXCEPT ![0].ids = Head(net["ids"])]
        /\ UNCHANGED <<launch, posted, turn, job, exit, entered, text, pending, result, accepted,
                       clen, cursor, samples>>
    BY MainFollowing DEF MainState, RecvDraftIds, At, Receive, Done, Continue, MainPaths
  <1>2. /\ pc \in [Ranks -> Operations] /\ net["ids"] \in Seq(Seq(Nat))
        /\ payload \in [Ranks -> Payloads] /\ net \in [Messages -> Seq(Seq(Rows) \cup Answers)]
    BY DEF MainState, TypeOK, ControlOK, DataOK, QueuesOK
  <1>3. MainTurns /\ MainMessages /\ MainTexts /\ MainGathered /\ PostedOK
    BY DEF MainState, MainInv
  <1>4. MainLabels' /\ pc' \in [Ranks -> Operations]
    BY <1>1, MainMoves DEF MainTarget, Gpu
  <1>5. MainCollectives' /\ MainNames'
    <2>1. /\ MainEntered(pc[0]) = MainEntered("recv_logits")
          /\ Now(0) = 0 /\ Now(0)' = 0
      BY <1>1, <1>2 DEF MainEntered, Now, Before, Gpu, Collectives, Barriers, Timings
    <2> QED BY <1>1, <2>1, MainWithin
  <1>6. MainTurns'
    <2>1. MainTurn("recv_logits", turn[0], Len(accepted[0]))
      BY <1>1, <1>3 DEF MainTurns, MainTurn, Before, Gpu
    <2> QED BY <1>1, <2>1, MainTurnsStep
  <1>7. MainTraffic'
    <2>1. /\ Len(net'["ids"]) = Len(net["ids"]) - 1
          /\ net'["logits"] = net["logits"] /\ net'["result"] = net["result"]
      BY <1>1, <1>2, Queues DEF Messages
    <2>2. /\ TargetIds = 0 /\ TargetIds' = 1 /\ TargetLogits = 0 /\ TargetLogits' = 0
          /\ TargetOwes = 0 /\ TargetOwes' = 0
      BY <1>1, <1>2 DEF TargetIds, TargetLogits, TargetOwes
    <2>3. DraftIds' = DraftIds /\ DraftLogits' = DraftLogits /\ DraftResult' = DraftResult
      BY <1>1, <1>2, DraftStands
    <2>4. UNCHANGED <<Len(accepted[0]), Len(accepted[1])>>
      BY <1>1
    <2>5. /\ Len(accepted[0]) \in Nat /\ Len(accepted[1]) \in Nat
          /\ Traffic(Len(accepted[0]), Len(accepted[1]))
      BY MainApart
    <2> QED BY <2>1, <2>2, <2>3, <2>4, <2>5, Offsets DEF MainTraffic, Traffic
  <1>8. MainMessages'
    <2>1. Len(net["ids"]) = 1 /\ net["ids"] = <<payload[1].ids>>
      BY <1>1, <1>3, MainApart, Apart DEF MainMessages, Messages, MainState
    <2> QED BY <1>1, <1>2, <1>3, <2>1 DEF MainMessages, Payloads, Messages
  <1>9. MainTexts'
    BY <1>1, <1>2, MainTextsSame
  <1>10. MainGathered'
    BY <1>1, <1>2, <1>3 DEF MainGathered, G0
  <1> QED BY <1>1, <1>4, <1>5, <1>6, <1>7, <1>8, <1>9, <1>10
           DEF MainAgain, MainInv, MainState, TypeOK, DataOK

LEMMA MainMovesOn ==
    ASSUME MainState, NEW r \in Ranks,
           Check(r) \/ BindRankToCuda(r) \/ VerifyDistinctGpus(r) \/ Return(r)
    PROVE  MainAgain'
  <1> USE DEF TARGET_RANK, DRAFT_RANK, Ranks
  <1>1. /\ pc \in [Ranks -> Operations] /\ launch.requireGpu \in BOOLEAN
        /\ MainLabels /\ MainTurns /\ MainGathered /\ PostedOK /\ launch.steps \in Nat
        /\ turn \in [Ranks -> Nat] /\ accepted \in [Ranks -> Seq(Nat)]
        /\ exit \in [Ranks -> {Running, 0, 1, 2, 3, Raised}]
    BY LaunchFacts DEF MainState, TypeOK, ControlOK, DataOK, MainInv
  <1> DEFINE q == Following(pc[r], r)
  <1>2. /\ exit[r] = Running /\ pc[r] \in {"check", "bind", "distinct", "return"}
        /\ pc' = [pc EXCEPT ![r] = q] /\ UNCHANGED <<launch, posted, turn, entered, net, data>>
        /\ exit' = exit \/ \E s \in {0, 1, 3} : exit' = [exit EXCEPT ![r] = s]
    BY DEF MainState, Check, BindRankToCuda, VerifyDistinctGpus, Return, At, Done, Leave, Continue
  <1>3. /\ pc[r] = "check" => q = IF launch.requireGpu THEN "bind" ELSE "steps"
        /\ pc[r] = "bind" => q = "bind_barrier"
        /\ pc[r] = "distinct" => q = "distinct_barrier"
        /\ pc[r] = "return" => q = "return"
    BY <1>1, MainFollowing DEF MainPaths, MainState
  <1> HIDE DEF q
  <1>4. q \in (IF r = 0 THEN MainTarget ELSE MainDraft) /\ pc[r] \in Level /\ q \in Level
    BY <1>1, <1>2, <1>3 DEF MainTarget, MainDraft, Before, Gpu, Level, Operations
  <1>5. q \in Gpu => launch.requireGpu
    BY <1>1, <1>2, <1>3 DEF MainLabels, Gpu
  <1>6. ~posted[r] /\ ~posted'[r] /\ Now(r) = 0 /\ Now(r)' = 0
    BY <1>1, <1>2 DEF PostedOK, Now, Collectives, Barriers, Timings
  <1>7. MainEntered(pc[r]) + Now(r) = MainEntered(q) + Now(r)'
    BY <1>1, <1>2, <1>3, <1>6 DEF MainEntered, GpuEntered, G0, Before, Gpu
  <1>8. MainTurn(q, turn'[r], Len(accepted[r]))
    <2>1. MainTurn(pc[r], turn[r], Len(accepted[r]))
      BY <1>1 DEF MainTurns
    <2>2. turn'[r] = turn[r]
      BY <1>2
    <2>3. CASE pc[r] = "return"
      BY <1>3, <2>1, <2>2, <2>3
    <2>4. CASE pc[r] # "return"
      <3>1. pc[r] \in Before
        BY <1>2, <2>4 DEF Before, Gpu
      <3>2. q \in Before \cup {"steps"}
        BY <1>2, <1>3, <2>4 DEF Before, Gpu
      <3>3. turn[r] = 0 /\ Len(accepted[r]) = 0
        BY <2>1, <3>1 DEF MainTurn
      <3>4. launch.steps \in Nat
        BY <1>1
      <3> QED BY <2>2, <3>2, <3>3, <3>4 DEF MainTurn, Before, Gpu
    <2> QED BY <2>3, <2>4
  <1>9. MainGathered'
    <2>1. pc'[r] = q /\ pc'[1 - r] = pc[1 - r] /\ exit'[0] # 2
      BY <1>1, <1>2 DEF MainGathered
    <2>2. q \in {"end_barrier", "prefix", "compare", "return"} => q = "return" /\ pc[r] = "return"
      BY <1>2, <1>3
    <2> QED BY <1>1, <1>2, <2>1, <2>2 DEF MainGathered, G0, data
  <1> QED BY <1>2, <1>4, <1>5, <1>7, <1>8, <1>9, MainQuiet

LEMMA MainFor ==
    ASSUME MainState, NEW r \in Ranks, NEW p \in Loops, For(r, p)
    PROVE  MainAgain'
  <1> USE DEF TARGET_RANK, DRAFT_RANK, Ranks
  <1>1. /\ pc \in [Ranks -> Operations] /\ turn \in [Ranks -> Nat] /\ accepted \in [Ranks -> Seq(Nat)]
        /\ MainLabels /\ MainTurns /\ MainGathered /\ PostedOK /\ launch.steps \in Nat
    BY LaunchFacts DEF MainState, TypeOK, ControlOK, DataOK, MainInv
  <1>2. p = "steps"
    <2>1. pc[0] \in MainTarget /\ pc[1] \in MainDraft /\ pc[r] = p
      BY <1>1 DEF MainLabels, For, At
    <2> QED BY <2>1 DEF Loops, MainTarget, MainDraft, Before, Gpu
  <1> DEFINE more == turn[r] < launch.steps
             q == IF more THEN (IF r = 0 THEN "recv_ids" ELSE "draft_gamma")
                  ELSE (IF r = 0 THEN "flush" ELSE "end_barrier")
  <1>3. /\ pc[r] = "steps" /\ pc' = [pc EXCEPT ![r] = q]
        /\ turn' = [turn EXCEPT ![r] = IF more THEN @ + 1 ELSE 0]
        /\ UNCHANGED <<launch, posted, job, entered, net, exit, data>>
    BY <1>2 DEF For, At, Turns, FirstOf, AfterLoop
  <1>4. q \in (IF r = 0 THEN MainTarget ELSE MainDraft) /\ pc[r] \in Level /\ q \in Level /\ q \notin Gpu
    BY <1>3 DEF MainTarget, MainDraft, Before, Gpu, Level, Operations
  <1>5. MainEntered(pc[r]) + Now(r) = MainEntered(q) + Now(r)'
    <2>1. Now(r) = 0 /\ Now(r)' = 0
      BY <1>1, <1>3 DEF PostedOK, Now, Collectives, Barriers, Timings
    <2> QED BY <1>3, <2>1 DEF MainEntered, Before, Gpu
  <1>6. MainTurn(q, turn'[r], Len(accepted[r]))
    <2>1. turn[r] = Len(accepted[r]) /\ turn[r] <= launch.steps /\ turn[r] \in Nat
      BY <1>1, <1>3 DEF MainTurns, MainTurn
    <2> QED BY <1>1, <1>3, <2>1 DEF MainTurn, Before, Gpu
  <1>7. MainGathered'
    <2>1. pc'[r] = q /\ pc'[1 - r] = pc[1 - r]
      BY <1>1, <1>3
    <2>2. r = 0 => q \notin {"end_barrier", "prefix", "compare", "return"}
      OBVIOUS
    <2>3. q \notin {"prefix", "return"}
      OBVIOUS
    <2> QED BY <1>1, <1>3, <2>1, <2>2, <2>3 DEF MainGathered, G0, data
  <1> HIDE DEF q
  <1>8. turn'[1 - r] = turn[1 - r]
    BY <1>1, <1>3
  <1> QED BY <1>3, <1>4, <1>5, <1>6, <1>7, <1>8, MainQuiet

LEMMA MainLeaveCollective ==
    ASSUME MainState, NEW r \in Ranks, LeaveCollective(r)
    PROVE  MainAgain'
  <1> USE DEF TARGET_RANK, DRAFT_RANK, Ranks
  <1>1. /\ pc \in [Ranks -> Operations] /\ launch.requireGpu \in BOOLEAN
        /\ MainLabels /\ MainCollectives /\ MainTurns /\ MainGathered /\ PostedOK
        /\ launch.steps \in Nat /\ posted \in [Ranks -> BOOLEAN]
    BY LaunchFacts DEF MainState, TypeOK, ControlOK, DataOK, MainInv
  <1> DEFINE q == Following(pc[r], r)
  <1>2. /\ pc[r] \in Collectives /\ posted[r] /\ posted' = [posted EXCEPT ![r] = FALSE]
        /\ pc' = [pc EXCEPT ![r] = q]
        /\ UNCHANGED <<launch, turn, job, entered, net, exit, data>>
    BY DEF LeaveCollective, Returns, Continue
  <1>3. pc[r] \in {"bind_barrier", "device", "distinct_barrier", "end_barrier", "prefix"}
    BY <1>1, <1>2 DEF MainLabels, MainTarget, MainDraft, Before, Gpu, Collectives, Barriers, Timings
  <1>4. /\ pc[r] = "bind_barrier" => q = "device"
        /\ pc[r] = "device" => q = "distinct"
        /\ pc[r] = "distinct_barrier" => q = "steps"
        /\ pc[r] = "end_barrier" => q = "prefix"
        /\ pc[r] = "prefix" => q = IF r = 0 THEN "compare" ELSE "return"
    BY <1>1, MainFollowing DEF MainPaths, MainState
  <1> HIDE DEF q
  <1>5. q \in (IF r = 0 THEN MainTarget ELSE MainDraft) /\ pc[r] \in Level /\ q \in Level
    BY <1>1, <1>3, <1>4 DEF MainTarget, MainDraft, Before, Gpu, Level, Operations
  <1>6. q \in Gpu => launch.requireGpu
    BY <1>1, <1>3, <1>4 DEF MainLabels, Gpu
  <1>7. ~posted'[r] /\ Now(r) = 1 /\ Now(r)' = 0
    BY <1>1, <1>2 DEF Now
  <1>8. MainEntered(pc[r]) + Now(r) = MainEntered(q) + Now(r)'
    BY <1>1, <1>3, <1>4, <1>7 DEF MainLabels, MainEntered, GpuEntered, G0, Before, Gpu
  <1>9. MainTurn(q, turn'[r], Len(accepted[r]))
    <2>1. MainTurn(pc[r], turn[r], Len(accepted[r]))
      BY <1>1 DEF MainTurns
    <2>2. turn[r] \in Nat /\ Len(accepted[r]) \in Nat
      BY DEF MainState, TypeOK, ControlOK, DataOK
    <2> QED BY <1>1, <1>2, <1>3, <1>4, <2>1, <2>2 DEF MainTurn, Before, Gpu
  <1>10. MainGathered'
    <2>1. pc'[r] = q /\ pc'[1 - r] = pc[1 - r]
      BY <1>1, <1>2
    <2>2. r = 0 /\ q = "compare" => Len(entered[1]) >= G0 + 2
      <3>1. r = 0 /\ q = "compare" => pc[0] = "prefix" /\ Len(entered[1]) >= Len(entered[0])
        BY <1>3, <1>4 DEF LeaveCollective, OnlyContributes, Other
      <3> QED BY <1>1, <1>7, <3>1 DEF MainCollectives, MainEntered, Before, Gpu, G0
    <2>3. r = 0 /\ q \in {"end_barrier", "prefix", "compare", "return"} =>
              pc[r] \in {"end_barrier", "prefix"}
      BY <1>3, <1>4
    <2>4. r = 1 /\ q \in {"prefix", "return"} /\ Len(entered[1]) = G0 + 2 => pc[1] = "prefix"
      <3>1. pc[1] = "end_barrier" /\ r = 1 => Len(entered[1]) = G0 + 1
        BY <1>1, <1>7 DEF MainCollectives, MainEntered, Before, Gpu
      <3> QED BY <1>3, <1>4, <3>1 DEF G0
    <2> QED BY <1>1, <1>2, <2>1, <2>2, <2>3, <2>4 DEF MainGathered, G0, data
  <1>11. posted'[1 - r] = posted[1 - r] /\ turn'[1 - r] = turn[1 - r]
    <2>1. posted \in [Ranks -> BOOLEAN] /\ 1 - r \in Ranks /\ 1 - r # r
      BY <1>1
    <2>2. posted' = [posted EXCEPT ![r] = FALSE] /\ turn' = turn
      BY <1>2
    <2> QED BY <2>1, <2>2
  <1> QED BY <1>2, <1>5, <1>6, <1>8, <1>9, <1>10, <1>11, MainQuiet

LEMMA MainEnteredAt ==
    /\ G0 \in {0, 3} /\ \A p : MainEntered(p) \in Nat
    /\ MainEntered("bind_barrier") = 0 /\ MainEntered("device") = 1
    /\ MainEntered("distinct_barrier") = 2 /\ MainEntered("end_barrier") = G0
    /\ MainEntered("prefix") = G0 + 1 /\ MainEntered("compare") = G0 + 2
    /\ MainEntered("return") = G0 + 2
    /\ \A p \in MainDraft : MainEntered(p) > G0 /\ (p \in Gpu => launch.requireGpu) =>
           p \in {"prefix", "return"}
  <1>1. G0 \in {0, 3}
    BY DEF G0
  <1>2. \A p : MainEntered(p) \in Nat
    BY <1>1 DEF MainEntered, GpuEntered
  <1>3. /\ MainEntered("bind_barrier") = 0 /\ MainEntered("device") = 1
        /\ MainEntered("distinct_barrier") = 2 /\ MainEntered("end_barrier") = G0
        /\ MainEntered("prefix") = G0 + 1 /\ MainEntered("compare") = G0 + 2
        /\ MainEntered("return") = G0 + 2
    BY DEF MainEntered, GpuEntered, Before, Gpu
  <1>4. ASSUME NEW p \in MainDraft, p \in Gpu => launch.requireGpu, p \notin {"prefix", "return"}
        PROVE  MainEntered(p) <= G0
    <2>1. CASE p \in Gpu
      <3>1. G0 = 3
        BY <1>4, <2>1 DEF G0
      <3> QED BY <2>1, <3>1 DEF MainEntered, GpuEntered, Before
    <2>2. CASE p = "check"
      BY <1>1, <2>2 DEF MainEntered, GpuEntered, Before
    <2>3. CASE p \notin Before
      BY <1>1, <1>4, <2>3 DEF MainEntered, MainDraft
    <2> QED BY <2>1, <2>2, <2>3 DEF Before
  <1> QED BY <1>1, <1>2, <1>3, <1>4

\* The last gather brings the target the text it holds itself.
LEMMA MainCompareAgrees ==
    ASSUME MainState, pc[0] = "compare" PROVE FromOther(0) = text[0]
  <1> USE DEF TARGET_RANK, DRAFT_RANK, Ranks
  <1>1. /\ pc \in [Ranks -> Operations] /\ MainLabels /\ MainCollectives /\ MainGathered /\ MainTexts
        /\ PostedOK /\ launch.requireGpu \in BOOLEAN /\ text[0] \in Seq(Token)
    BY LaunchFacts DEF MainState, TypeOK, ControlOK, DataOK, MainInv
  <1>2. Now(0) = 0 /\ Len(entered[0]) = G0 + 2
    <2>1. Now(0) = 0
      BY DEF Now, Collectives, Barriers, Timings
    <2> QED BY <1>1, <2>1, MainEnteredAt DEF MainCollectives
  <1>3. Len(entered[1]) >= G0 + 2 /\ pending = NoToken
    BY <1>1 DEF MainGathered
  <1>4. Len(entered[1]) = MainEntered(pc[1]) + Now(1) /\ Now(1) \in {0, 1}
    BY <1>1 DEF MainCollectives, Now
  <1>5. pc[1] \in {"prefix", "return"} /\ Len(entered[1]) = G0 + 2
    <2>1. MainEntered(pc[1]) > G0
      BY <1>3, <1>4, MainEnteredAt
    <2>2. pc[1] \in {"prefix", "return"}
      BY <1>1, <2>1, MainEnteredAt DEF MainLabels
    <2>3. pc[1] = "return" => Now(1) = 0
      BY DEF Now, Collectives, Barriers, Timings
    <2> QED BY <1>3, <1>4, <2>2, <2>3, MainEnteredAt
  <1>6. entered[1][G0 + 2].brought = text[1]
    BY <1>1, <1>5 DEF MainGathered
  <1>7. Len(accepted[0]) = Len(accepted[1])
    <2>1. DraftIds = 0
      BY <1>5 DEF DraftIds
    <2> QED BY <2>1, MainApart, Apart DEF MainState
  <1>8. text[1] = text[0] \o Bonus /\ Bonus = <<>>
    BY <1>1, <1>3, <1>7 DEF MainTexts, Bonus
  <1> QED BY <1>1, <1>2, <1>6, <1>8 DEF FromOther, Other

LEMMA MainCompare ==
    ASSUME MainState, Compare PROVE MainAgain'
  <1> USE DEF TARGET_RANK, DRAFT_RANK, Ranks
  <1>1. /\ pc \in [Ranks -> Operations] /\ MainLabels /\ MainTurns /\ MainGathered /\ PostedOK
    BY DEF MainState, TypeOK, ControlOK, MainInv
  <1>2. /\ pc[0] = "compare" /\ pc' = [pc EXCEPT ![0] = "return"]
        /\ UNCHANGED <<launch, posted, turn, entered, net, exit, data>>
    BY MainCompareAgrees, MainFollowing DEF Compare, At, Done, Continue, MainState, MainPaths
  <1>3. "return" \in MainTarget /\ pc[0] \in Level /\ "return" \in Level /\ "return" \notin Gpu
    BY <1>2 DEF MainTarget, Gpu, Level, Operations
  <1>4. MainEntered(pc[0]) + Now(0) = MainEntered("return") + Now(0)'
    <2>1. Now(0) = 0 /\ Now(0)' = 0
      BY <1>1, <1>2 DEF PostedOK, Now, Collectives, Barriers, Timings
    <2> QED BY <1>2, <2>1 DEF MainEntered, Before, Gpu
  <1>5. MainTurn("return", turn'[0], Len(accepted[0]))
    BY <1>1, <1>2 DEF MainTurns, MainTurn, Before, Gpu
  <1>6. MainGathered'
    <2>1. pc'[0] = "return" /\ pc'[1] = pc[1]
      BY <1>1, <1>2
    <2> QED BY <1>1, <1>2, <2>1 DEF MainGathered, G0, data
  <1> QED BY <1>2, <1>3, <1>4, <1>5, <1>6, MainQuiet

LEMMA MainEnter ==
    ASSUME MainState, NEW r \in Ranks, Enter(r) PROVE MainAgain'
  <1> USE DEF TARGET_RANK, DRAFT_RANK, Ranks
  <1>1. /\ pc \in [Ranks -> Operations] /\ launch.requireGpu \in BOOLEAN
        /\ MainLabels /\ MainCollectives /\ MainNames /\ MainTurns /\ MainGathered /\ MainMessages
        /\ launch.steps \in Nat /\ posted \in [Ranks -> BOOLEAN]
        /\ entered \in [Ranks -> Seq(Entries)]
    BY LaunchFacts DEF MainState, TypeOK, ControlOK, QueuesOK, DataOK, MainInv
  <1> DEFINE e == [what |-> pc[r], brought |-> Brings(r, pc[r])]
  <1>2. /\ pc[r] \in Collectives /\ ~posted[r] /\ posted' = [posted EXCEPT ![r] = TRUE]
        /\ entered' = [entered EXCEPT ![r] = Append(@, e)]
        /\ UNCHANGED <<launch, pc, turn, job, net, exit, data>>
    BY DEF Enter
  <1>3. pc[r] \in {"bind_barrier", "device", "distinct_barrier", "end_barrier", "prefix"}
    BY <1>1, <1>2 DEF MainLabels, MainTarget, MainDraft, Before, Gpu, Collectives, Barriers, Timings
  <1>4. e \in Entries /\ e.what = pc[r] /\ (pc[r] = "prefix" => e.brought = text[r])
    BY <1>2, BringsType DEF MainState, Brings, Timings
  <1> HIDE DEF e
  <1>5. /\ entered'[1 - r] = entered[1 - r] /\ Len(entered'[r]) = Len(entered[r]) + 1
        /\ entered'[r][Len(entered[r]) + 1] = e
        /\ \A k \in 1 .. Len(entered[r]) : entered'[r][k] = entered[r][k]
    BY <1>1, <1>2, <1>4, AppendProperties
  <1>6. Now(r) = 0 /\ Now(r)' = 1 /\ Now(1 - r)' = Now(1 - r)
    BY <1>1, <1>2 DEF Now
  <1>7. MainCollectives'
    <2>1. \A p : MainEntered(p)' = MainEntered(p)
      BY <1>2 DEF MainEntered, G0
    <2>2. \A s \in Ranks : Len(entered'[s]) = MainEntered(pc[s]) + Now(s)'
      <3>1. /\ Len(entered[r]) = MainEntered(pc[r]) + Now(r)
            /\ Len(entered[1 - r]) = MainEntered(pc[1 - r]) + Now(1 - r)
        BY <1>1 DEF MainCollectives
      <3>2. Len(entered'[r]) = MainEntered(pc[r]) + Now(r)'
        BY <1>5, <1>6, <3>1, MainEnteredAt
      <3>3. Len(entered'[1 - r]) = MainEntered(pc[1 - r]) + Now(1 - r)'
        BY <1>5, <1>6, <3>1
      <3>4. \A s \in Ranks : s = r \/ s = 1 - r
        OBVIOUS
      <3> QED BY <3>2, <3>3, <3>4
    <2> QED BY <1>2, <2>1, <2>2 DEF MainCollectives
  <1>8. MainAt(Len(entered[r]) + 1) = pc[r]
    <2>1. Len(entered[r]) = MainEntered(pc[r])
      <3>1. Len(entered[r]) = MainEntered(pc[r]) + Now(r)
        BY <1>1 DEF MainCollectives
      <3>2. MainEntered(pc[r]) \in Nat /\ Now(r) = 0
        BY <1>6, MainEnteredAt
      <3> QED BY <3>1, <3>2
    <2>2. pc[r] \in {"bind_barrier", "device", "distinct_barrier"} => G0 = 3
      BY <1>1 DEF MainLabels, G0, Gpu
    <2> QED BY <1>3, <2>1, <2>2, MainEnteredAt DEF MainAt
  <1>9. MainNames'
    <2>1. \A k : MainAt(k)' = MainAt(k)
      BY <1>2 DEF MainAt, G0
    <2>2. Len(entered[r]) \in Nat
      BY <1>1
    <2>3. \A k \in 1 .. Len(entered[r]) + 1 : entered'[r][k].what = MainAt(k)
      <3> SUFFICES ASSUME NEW k \in 1 .. Len(entered[r]) + 1
                   PROVE  entered'[r][k].what = MainAt(k)
        OBVIOUS
      <3>1. CASE k = Len(entered[r]) + 1
        BY <1>4, <1>5, <1>8, <3>1
      <3>2. CASE k # Len(entered[r]) + 1
        <4>1. k \in 1 .. Len(entered[r])
          BY <2>2, <3>2
        <4>2. entered[r][k].what = MainAt(k) /\ entered'[r][k] = entered[r][k]
          BY <1>1, <1>5, <4>1 DEF MainNames
        <4> QED BY <4>2
      <3> QED BY <3>1, <3>2
    <2>4. \A s \in Ranks : \A k \in 1 .. Len(entered'[s]) : entered'[s][k].what = MainAt(k)
      BY <1>1, <1>5, <2>3 DEF MainNames
    <2> QED BY <2>1, <2>4 DEF MainNames
  <1>10. MainTraffic'
    <2>1. UNCHANGED <<DraftIds, DraftLogits, DraftResult, TargetIds, TargetLogits, TargetOwes>>
      BY <1>1, <1>2, <1>3 DEF DraftIds, DraftLogits, DraftResult, TargetIds, TargetLogits, TargetOwes
    <2> QED BY <1>2, <2>1, MainApart DEF MainTraffic, Traffic, data
  <1>11. MainGathered'
    <2>1. r = 1 /\ Len(entered'[1]) = G0 + 2 /\ pc[1] \in {"prefix", "return"} =>
              entered'[1][G0 + 2].brought = text[1]
      BY <1>3, <1>4, <1>5
    <2>2. r = 1 => Len(entered[1]) < Len(entered'[1])
      BY <1>1, <1>5
    <2>3. G0' = G0 /\ G0 \in {0, 3}
      BY <1>2 DEF G0
    <2>4. pc[0] = "compare" => Len(entered'[1]) >= G0 + 2
      <3>1. Len(entered[1]) \in Nat /\ Len(entered'[1]) >= Len(entered[1])
        BY <1>1, <1>5
      <3>2. Len(entered'[1]) \in Nat
        BY <1>1, <1>5, <3>1
      <3> QED BY <1>1, <2>3, <3>1, <3>2 DEF MainGathered
    <2>5. Len(entered'[1]) = G0 + 2 /\ pc[1] \in {"prefix", "return"} =>
              entered'[1][G0 + 2].brought = text[1]
      BY <1>1, <1>5, <2>1 DEF MainGathered
    <2> QED BY <1>1, <1>2, <2>3, <2>4, <2>5 DEF MainGathered, data
  <1>12. MainLabels' /\ MainTurns' /\ MainMessages' /\ MainTexts'
    BY <1>1, <1>2, MainTextsSame DEF MainLabels, MainTurns, MainTurn, MainMessages, data
  <1> QED BY <1>1, <1>2, <1>7, <1>9, <1>10, <1>11, <1>12
           DEF MainAgain, MainInv, MainState, TypeOK, ControlOK, DataOK, data

\* A send adds one message to an empty queue.
LEMMA MainSend ==
    ASSUME MainState, SendDraftIds \/ SendDraftLogits \/ SendTargetResult PROVE MainAgain'
  <1> USE DEF TARGET_RANK, DRAFT_RANK, Ranks
  <1>1. /\ pc \in [Ranks -> Operations] /\ posted \in [Ranks -> BOOLEAN] /\ PostedOK /\ TypeOK
        /\ MainLabels /\ MainCollectives /\ MainNames /\ MainTurns /\ MainGathered /\ MainMessages
        /\ net \in [Messages -> Seq(Seq(Rows) \cup Answers)]
        /\ net["ids"] \in Seq(Seq(Nat)) /\ net["logits"] \in Seq(Seq(Rows))
        /\ net["result"] \in Seq(Answers)
        /\ payload[1].ids \in Seq(Nat) /\ payload[1].logits \in Seq(Rows) /\ result[0] \in Answers
    BY DEF MainState, TypeOK, ControlOK, QueuesOK, DataOK, MainInv, Payloads
  <1>2. UNCHANGED <<launch, pc, turn, job, entered, exit, data>>
    BY DEF SendDraftIds, SendDraftLogits, SendTargetResult, Post
  <1>3. \A r \in Ranks : Now(r)' = Now(r)
    <2>1. \A r \in Ranks : posted'[r] = posted[r] \/ pc[r] \in {"send_ids", "send_logits", "send_result"}
      BY <1>1 DEF SendDraftIds, SendDraftLogits, SendTargetResult, Post, At
    <2> QED BY <1>2, <2>1 DEF Now, Collectives, Barriers, Timings
  <1>4. MainLabels' /\ MainCollectives' /\ MainNames' /\ MainTurns' /\ MainTexts' /\ MainGathered'
    <2>1. /\ \A p : MainEntered(p)' = MainEntered(p) /\ \A k : MainAt(k)' = MainAt(k)
          /\ \A p, b, f : MainTurn(p, b, f)' = MainTurn(p, b, f)
      BY <1>2 DEF MainEntered, MainAt, G0, MainTurn
    <2>2. MainLabels' /\ MainCollectives' /\ MainNames' /\ MainTurns'
      BY <1>1, <1>2, <1>3, <2>1 DEF MainLabels, MainCollectives, MainNames, MainTurns, data
    <2> QED BY <1>1, <1>2, <2>2, MainTextsSame DEF MainGathered, G0, data
  <1>5. MainTraffic' /\ MainMessages'
    <2>1. /\ Len(accepted[0]) \in Nat /\ Len(accepted[1]) \in Nat
          /\ Traffic(Len(accepted[0]), Len(accepted[1]))
      BY MainApart
    <2>1b. Len(accepted'[0]) = Len(accepted[0]) /\ Len(accepted'[1]) = Len(accepted[1])
      BY <1>2 DEF data
    <2>2. CASE SendDraftIds
      <3>1. /\ pc[1] = "send_ids" /\ ~posted[1] /\ posted' = [posted EXCEPT ![1] = TRUE]
            /\ net' = [net EXCEPT !["ids"] = Append(@, payload[1].ids)]
        BY <2>2 DEF SendDraftIds, Post, At
      <3>2. /\ net'["ids"] = Append(net["ids"], payload[1].ids)
            /\ net'["logits"] = net["logits"] /\ net'["result"] = net["result"]
            /\ Len(net'["ids"]) = Len(net["ids"]) + 1
        BY <1>1, <3>1, AppendProperties DEF Messages
      <3>3. /\ DraftIds = 0 /\ DraftIds' = 1
            /\ DraftLogits' = DraftLogits /\ DraftResult' = DraftResult /\ TargetIds' = TargetIds
            /\ TargetLogits' = TargetLogits /\ TargetOwes' = TargetOwes
        BY <1>1, <1>2, <3>1 DEF DraftIds, DraftLogits, DraftResult, TargetIds, TargetLogits, TargetOwes
      <3>4. net["ids"] = <<>>
        BY <1>1, <2>1, <3>3, Apart
      <3>5. MainTraffic'
        <4>1. Len(net'["ids"]) = (Len(accepted'[1]) + DraftIds') - (Len(accepted'[0]) + TargetIds')
          BY <2>1, <2>1b, <3>2, <3>3, Whole DEF Traffic
        <4>2. Len(net'["logits"]) = (Len(accepted'[1]) + DraftLogits') - (Len(accepted'[0]) + TargetLogits')
          BY <2>1, <2>1b, <3>2, <3>3, Whole DEF Traffic
        <4>3. Len(net'["result"]) = (Len(accepted'[0]) - TargetOwes') - (Len(accepted'[1]) + DraftResult')
          BY <2>1, <2>1b, <3>2, <3>3, Whole DEF Traffic
        <4> QED BY <4>1, <4>2, <4>3 DEF MainTraffic, Traffic
      <3>6. net'["ids"] = <<payload[1].ids>>
        BY <3>2, <3>4
      <3> QED BY <1>1, <1>2, <3>2, <3>5, <3>6 DEF MainMessages, data
    <2>3. CASE SendDraftLogits
      <3>1. /\ pc[1] = "send_logits" /\ ~posted[1] /\ posted' = [posted EXCEPT ![1] = TRUE]
            /\ net' = [net EXCEPT !["logits"] = Append(@, payload[1].logits)]
        BY <2>3 DEF SendDraftLogits, Post, At
      <3>2. /\ net'["ids"] = net["ids"] /\ net'["result"] = net["result"]
            /\ Len(net'["logits"]) = Len(net["logits"]) + 1
        BY <1>1, <3>1, AppendProperties DEF Messages
      <3>3. /\ DraftLogits = 0 /\ DraftLogits' = 1
            /\ DraftIds' = DraftIds /\ DraftResult' = DraftResult /\ TargetIds' = TargetIds
            /\ TargetLogits' = TargetLogits /\ TargetOwes' = TargetOwes
        BY <1>1, <1>2, <3>1 DEF DraftIds, DraftLogits, DraftResult, TargetIds, TargetLogits, TargetOwes
      <3>4. MainTraffic'
        <4>1. Len(net'["ids"]) = (Len(accepted'[1]) + DraftIds') - (Len(accepted'[0]) + TargetIds')
          BY <2>1, <2>1b, <3>2, <3>3, Whole DEF Traffic
        <4>2. Len(net'["logits"]) = (Len(accepted'[1]) + DraftLogits') - (Len(accepted'[0]) + TargetLogits')
          BY <2>1, <2>1b, <3>2, <3>3, Whole DEF Traffic
        <4>3. Len(net'["result"]) = (Len(accepted'[0]) - TargetOwes') - (Len(accepted'[1]) + DraftResult')
          BY <2>1, <2>1b, <3>2, <3>3, Whole DEF Traffic
        <4> QED BY <4>1, <4>2, <4>3 DEF MainTraffic, Traffic
      <3> QED BY <1>1, <1>2, <3>2, <3>4 DEF MainMessages, data
    <2>4. CASE SendTargetResult
      <3>1. /\ pc[0] = "send_result" /\ ~posted[0] /\ posted' = [posted EXCEPT ![0] = TRUE]
            /\ net' = [net EXCEPT !["result"] = Append(@, result[0])]
        BY <2>4 DEF SendTargetResult, Post, At
      <3>2. /\ net'["result"] = Append(net["result"], result[0])
            /\ net'["logits"] = net["logits"] /\ net'["ids"] = net["ids"]
            /\ Len(net'["result"]) = Len(net["result"]) + 1
        BY <1>1, <3>1, AppendProperties DEF Messages
      <3>3. /\ TargetOwes = 1 /\ TargetOwes' = 0
            /\ DraftIds' = DraftIds /\ DraftLogits' = DraftLogits /\ DraftResult' = DraftResult
            /\ TargetIds' = TargetIds /\ TargetLogits' = TargetLogits
        BY <1>1, <1>2, <3>1 DEF DraftIds, DraftLogits, DraftResult, TargetIds, TargetLogits, TargetOwes
      <3>4. net["result"] = <<>>
        BY <1>1, <2>1, <3>3, Apart
      <3>5. MainTraffic'
        <4>1. Len(net'["ids"]) = (Len(accepted'[1]) + DraftIds') - (Len(accepted'[0]) + TargetIds')
          BY <2>1, <2>1b, <3>2, <3>3, Whole DEF Traffic
        <4>2. Len(net'["logits"]) = (Len(accepted'[1]) + DraftLogits') - (Len(accepted'[0]) + TargetLogits')
          BY <2>1, <2>1b, <3>2, <3>3, Whole DEF Traffic
        <4>3. Len(net'["result"]) = (Len(accepted'[0]) - TargetOwes') - (Len(accepted'[1]) + DraftResult')
          BY <2>1, <2>1b, <3>2, <3>3, Whole DEF Traffic
        <4> QED BY <4>1, <4>2, <4>3 DEF MainTraffic, Traffic
      <3>6. net'["result"] = <<result[0]>>
        BY <3>2, <3>4
      <3> QED BY <1>1, <1>2, <3>2, <3>5, <3>6 DEF MainMessages, data
    <2> QED BY <2>2, <2>3, <2>4
  <1> QED BY <1>1, <1>2, <1>4, <1>5
           DEF MainAgain, MainInv, MainState, TypeOK, ControlOK, DataOK, data

LEMMA MainSendReturns ==
    ASSUME MainState, NEW r \in Ranks, NEW p \in DOMAIN Sends, SendReturns(r, p) PROVE MainAgain'
  <1> USE DEF TARGET_RANK, DRAFT_RANK, Ranks
  <1>1. /\ pc \in [Ranks -> Operations] /\ posted \in [Ranks -> BOOLEAN] /\ TypeOK
        /\ MainLabels /\ MainTurns /\ MainMessages /\ MainGathered
        /\ turn \in [Ranks -> Nat] /\ accepted \in [Ranks -> Seq(Nat)]
    BY DEF MainState, TypeOK, ControlOK, DataOK, MainInv
  <1> DEFINE q == Following(p, r)
  <1>2. /\ pc[r] = p /\ posted[r] /\ posted' = [posted EXCEPT ![r] = FALSE]
        /\ pc' = [pc EXCEPT ![r] = q]
        /\ UNCHANGED <<launch, turn, job, entered, net, exit, data>>
    BY DEF SendReturns, Returns, Continue
  <1>3. \/ r = 1 /\ p = "send_ids" /\ q = "send_logits"
        \/ r = 1 /\ p = "send_logits" /\ q = "recv_result"
        \/ r = 0 /\ p = "send_result" /\ q = "steps"
    <2>1. pc[0] \in MainTarget /\ pc[1] \in MainDraft /\ p \in {"send_ids", "send_logits", "send_result"}
      BY <1>1 DEF MainLabels, Sends
    <2>2. r = 0 => p = "send_result"
      BY <1>2, <2>1 DEF MainTarget, Before, Gpu
    <2>3. r = 1 => p \in {"send_ids", "send_logits"}
      BY <1>2, <2>1 DEF MainDraft, Before, Gpu
    <2> QED BY <2>1, <2>2, <2>3, MainFollowing DEF MainState, MainPaths
  <1> HIDE DEF q
  <1>4. q \in (IF r = 0 THEN MainTarget ELSE MainDraft) /\ q \notin Gpu
    BY <1>3 DEF MainTarget, MainDraft, Before, Gpu
  <1>5. pc'[r] = q /\ pc'[1 - r] = pc[1 - r] /\ posted'[1 - r] = posted[1 - r] /\ ~posted'[r]
    <2>1. 1 - r \in Ranks /\ 1 - r # r
      OBVIOUS
    <2> QED BY <1>1, <1>2, <2>1
  <1>6. MainLabels' /\ pc' \in [Ranks -> Operations]
    BY <1>2, <1>4, MainMoves
  <1>7. MainCollectives' /\ MainNames'
    <2>1. Now(r) = 0 /\ Now(r)' = 0 /\ MainEntered(p) = G0 /\ MainEntered(q) = G0
      BY <1>2, <1>3, <1>5 DEF Now, MainEntered, Before, Gpu, Collectives, Barriers, Timings
    <2>2. MainEntered(pc[r]) + Now(r) = MainEntered(q) + Now(r)'
      BY <1>2, <2>1
    <2> QED BY <1>2, <1>5, <2>2, MainWithin
  <1>8. MainTurns'
    <2>1. MainTurn(p, turn[r], Len(accepted[r]))
      BY <1>1, <1>2 DEF MainTurns
    <2>2. MainTurn(q, turn[r], Len(accepted[r]))
      BY <1>3, <2>1 DEF MainTurn, Before, Gpu
    <2> QED BY <1>2, <2>2, MainTurnsStep DEF data
  <1>9. MainTraffic'
    <2>1. CASE r = 1
      <3>1. UNCHANGED <<TargetIds, TargetLogits, TargetOwes>>
        BY <1>5, <2>1, TargetStands
      <3>2. UNCHANGED <<DraftIds, DraftLogits, DraftResult>>
        BY <1>2, <1>3, <1>5, <2>1 DEF DraftIds, DraftLogits, DraftResult
      <3> QED BY <1>2, <3>1, <3>2, MainApart DEF MainTraffic, Traffic, data
    <2>2. CASE r = 0
      <3>1. UNCHANGED <<DraftIds, DraftLogits, DraftResult>>
        BY <1>5, <2>2, DraftStands
      <3>2. UNCHANGED <<TargetIds, TargetLogits, TargetOwes>>
        BY <1>2, <1>3, <1>5, <2>2 DEF TargetIds, TargetLogits, TargetOwes
      <3> QED BY <1>2, <3>1, <3>2, MainApart DEF MainTraffic, Traffic, data
    <2> QED BY <2>1, <2>2
  <1>10. MainMessages'
    <2>1. pc'[0] \in {"recv_logits", "verify_and_accept"} => pc[0] \in {"recv_logits", "verify_and_accept"}
      BY <1>3, <1>5
    <2>2. pc'[1] = "sync_draft_prefix" => pc[1] = "sync_draft_prefix"
      BY <1>3, <1>5
    <2> QED BY <1>1, <1>2, <2>1, <2>2 DEF MainMessages, data
  <1>11. MainTexts'
    BY <1>2, MainTextsSame DEF data
  <1>12. MainGathered'
    <2>1. q \notin {"end_barrier", "prefix", "compare", "return"}
      BY <1>3
    <2> QED BY <1>1, <1>2, <1>5, <2>1 DEF MainGathered, G0, data
  <1> QED BY <1>2, <1>6, <1>7, <1>8, <1>9, <1>10, <1>11, <1>12
           DEF MainAgain, MainInv, MainState, TypeOK, DataOK, data

LEMMA MainRecvDraftLogits ==
    ASSUME MainState, RecvDraftLogits PROVE MainAgain'
  <1> USE DEF TARGET_RANK, DRAFT_RANK, Ranks
  <1>1. /\ pc[0] = "recv_logits" /\ pc' = [pc EXCEPT ![0] = "verify_and_accept"]
        /\ exit[0] = Running /\ net["logits"] # <<>> /\ net' = [net EXCEPT !["logits"] = Tail(@)]
        /\ payload' = [payload EXCEPT ![0].logits = Head(net["logits"])]
        /\ UNCHANGED <<launch, posted, turn, job, exit, entered, text, pending, result, accepted,
                       clen, cursor, samples>>
    BY MainFollowing DEF MainState, RecvDraftLogits, At, Receive, Done, Continue, MainPaths
  <1>2. /\ pc \in [Ranks -> Operations] /\ net["logits"] \in Seq(Seq(Rows))
        /\ payload \in [Ranks -> Payloads] /\ net \in [Messages -> Seq(Seq(Rows) \cup Answers)]
    BY DEF MainState, TypeOK, ControlOK, DataOK, QueuesOK
  <1>3. MainTurns /\ MainMessages /\ MainTexts /\ MainGathered /\ PostedOK
    BY DEF MainState, MainInv
  <1>4. MainLabels' /\ pc' \in [Ranks -> Operations]
    BY <1>1, MainMoves DEF MainTarget, Gpu
  <1>5. MainCollectives' /\ MainNames'
    <2>1. /\ MainEntered(pc[0]) = MainEntered("verify_and_accept")
          /\ Now(0) = 0 /\ Now(0)' = 0
      BY <1>1, <1>2 DEF MainEntered, Now, Before, Gpu, Collectives, Barriers, Timings
    <2> QED BY <1>1, <2>1, MainWithin
  <1>6. MainTurns'
    <2>1. MainTurn("verify_and_accept", turn[0], Len(accepted[0]))
      BY <1>1, <1>3 DEF MainTurns, MainTurn, Before, Gpu
    <2> QED BY <1>1, <2>1, MainTurnsStep
  <1>7. MainTraffic'
    <2>1. /\ Len(net'["logits"]) = Len(net["logits"]) - 1
          /\ net'["ids"] = net["ids"] /\ net'["result"] = net["result"]
      BY <1>1, <1>2, Queues DEF Messages
    <2>2. /\ TargetIds = 1 /\ TargetIds' = 1 /\ TargetLogits = 0 /\ TargetLogits' = 1
          /\ TargetOwes = 0 /\ TargetOwes' = 0
      BY <1>1, <1>2 DEF TargetIds, TargetLogits, TargetOwes
    <2>3. DraftIds' = DraftIds /\ DraftLogits' = DraftLogits /\ DraftResult' = DraftResult
      BY <1>1, <1>2, DraftStands
    <2>4. UNCHANGED <<Len(accepted[0]), Len(accepted[1])>>
      BY <1>1
    <2>5. /\ Len(accepted[0]) \in Nat /\ Len(accepted[1]) \in Nat
          /\ Traffic(Len(accepted[0]), Len(accepted[1]))
      BY MainApart
    <2> QED BY <2>1, <2>2, <2>3, <2>4, <2>5, Offsets DEF MainTraffic, Traffic
  <1>8. MainMessages'
    BY <1>1, <1>2, <1>3 DEF MainMessages, Payloads, Messages
  <1>9. MainTexts'
    BY <1>1, <1>2, MainTextsSame
  <1>10. MainGathered'
    BY <1>1, <1>2, <1>3 DEF MainGathered, G0
  <1> QED BY <1>1, <1>4, <1>5, <1>6, <1>7, <1>8, <1>9, <1>10
           DEF MainAgain, MainInv, MainState, TypeOK, DataOK

\* The answer the draft receives is the one the target holds.
LEMMA MainRecvTargetResult ==
    ASSUME MainState, RecvTargetResult PROVE MainAgain'
  <1> USE DEF TARGET_RANK, DRAFT_RANK, Ranks
  <1>1. /\ pc[1] = "recv_result" /\ pc' = [pc EXCEPT ![1] = "sync_draft_prefix"]
        /\ exit[1] = Running /\ net["result"] # <<>> /\ net' = [net EXCEPT !["result"] = Tail(@)]
        /\ result' = [result EXCEPT ![1] = Head(net["result"])]
        /\ UNCHANGED <<launch, posted, turn, job, exit, entered, text, pending, payload, accepted,
                       clen, cursor, samples>>
    <2>1. pc[1] = "recv_result"
      BY DEF RecvTargetResult, At
    <2>2. launch.prog = "main"
      BY DEF MainState
    <2> QED BY <2>1, <2>2, MainFollowing DEF RecvTargetResult, At, Receive, Done, Continue, MainPaths
  <1>2. /\ pc \in [Ranks -> Operations] /\ net["result"] \in Seq(Answers)
        /\ result \in [Ranks -> Answers] /\ net \in [Messages -> Seq(Seq(Rows) \cup Answers)]
    BY DEF MainState, TypeOK, ControlOK, DataOK, QueuesOK
  <1>3. MainTurns /\ MainMessages /\ MainTexts /\ MainGathered /\ PostedOK
    BY DEF MainState, MainInv
  <1>4. MainLabels' /\ pc' \in [Ranks -> Operations]
    <2>1. "sync_draft_prefix" \in (IF 1 = 0 THEN MainTarget ELSE MainDraft) /\ "sync_draft_prefix" \notin Gpu
      BY DEF MainDraft, Gpu
    <2>2. 1 \in Ranks /\ pc' = [pc EXCEPT ![1] = "sync_draft_prefix"] /\ UNCHANGED launch
      BY <1>1
    <2> HIDE DEF Ranks
    <2> QED BY <2>1, <2>2, MainMoves
  <1>5. MainCollectives' /\ MainNames'
    <2>1. /\ MainEntered(pc[1]) = MainEntered("sync_draft_prefix")
          /\ Now(1) = 0 /\ Now(1)' = 0
      BY <1>1, <1>2 DEF MainEntered, Now, Before, Gpu, Collectives, Barriers, Timings
    <2> QED BY <1>1, <2>1, MainWithin
  <1>6. MainTurns'
    <2>1. MainTurn("sync_draft_prefix", turn[1], Len(accepted[1]))
      BY <1>1, <1>3 DEF MainTurns, MainTurn, Before, Gpu
    <2> QED BY <1>1, <2>1, MainTurnsStep
  <1>7. MainTraffic'
    <2>1. /\ Len(net'["result"]) = Len(net["result"]) - 1
          /\ net'["ids"] = net["ids"] /\ net'["logits"] = net["logits"]
      BY <1>1, <1>2, Queues DEF Messages
    <2>2. /\ DraftIds = 1 /\ DraftIds' = 1 /\ DraftLogits = 1 /\ DraftLogits' = 1
          /\ DraftResult = 0 /\ DraftResult' = 1
      BY <1>1, <1>2 DEF DraftIds, DraftLogits, DraftResult
    <2>3. TargetIds' = TargetIds /\ TargetLogits' = TargetLogits /\ TargetOwes' = TargetOwes
      BY <1>1, <1>2, TargetStands
    <2>4. UNCHANGED <<Len(accepted[0]), Len(accepted[1])>>
      BY <1>1
    <2>5. /\ Len(accepted[0]) \in Nat /\ Len(accepted[1]) \in Nat
          /\ Traffic(Len(accepted[0]), Len(accepted[1]))
      BY MainApart
    <2> QED BY <2>1, <2>2, <2>3, <2>4, <2>5, Offsets DEF MainTraffic, Traffic
  <1>8. MainMessages'
    <2>1. net["result"] = <<result[0]>>
      BY <1>1, <1>3 DEF MainMessages
    <2>2. Head(net["result"]) = result[0] /\ Tail(net["result"]) = <<>>
      BY <2>1
    <2>3. net'["result"] = <<>> /\ net'["ids"] = net["ids"] /\ result'[1] = result[0] /\ result'[0] = result[0]
      BY <1>1, <1>2, <2>2 DEF Messages
    <2> QED BY <1>1, <1>2, <1>3, <2>3 DEF MainMessages
  <1>9. MainTexts'
    BY <1>1, <1>2, MainTextsSame
  <1>10. MainGathered'
    BY <1>1, <1>2, <1>3 DEF MainGathered, G0
  <1> QED BY <1>1, <1>4, <1>5, <1>6, <1>7, <1>8, <1>9, <1>10
           DEF MainAgain, MainInv, MainState, TypeOK, DataOK

\* A new set of drafts: nothing of an earlier one is under way.
LEMMA MainDraftGamma ==
    ASSUME MainState, NEW ids \in [1 .. launch.gamma -> Token], DraftGamma(ids) PROVE MainAgain'
  <1> USE DEF TARGET_RANK, DRAFT_RANK, Ranks
  <1>1. /\ pc[1] = "draft_gamma" /\ pc' = [pc EXCEPT ![1] = "send_ids"] /\ exit[1] = Running
        /\ UNCHANGED <<launch, posted, turn, job, exit, entered, net, text, pending, result, accepted,
                       clen, cursor, samples>>
    <2>1. pc[1] = "draft_gamma" /\ launch.prog = "main"
      BY DEF DraftGamma, At, MainState
    <2> QED BY <2>1, MainFollowing DEF DraftGamma, At, Done, Continue, MainPaths
  <1>2. /\ pc \in [Ranks -> Operations] /\ payload \in [Ranks -> Payloads] /\ TypeOK
        /\ MainTurns /\ MainMessages /\ MainTexts /\ MainGathered /\ PostedOK
    BY DEF MainState, TypeOK, ControlOK, DataOK, MainInv
  <1>3. ids \in Seq(Token) /\ payload'[1].ids = ids /\ payload'[0] = payload[0]
    <2>1. launch.gamma \in Nat
      BY <1>1 DEF MainState, CheckedOK
    <2>2. ids \in Seq(Token)
      BY <2>1, FunctionIsSeq
    <2> QED BY <1>2, <2>2 DEF DraftGamma
  <1>4. MainLabels' /\ pc' \in [Ranks -> Operations]
    <2>1. "send_ids" \in (IF 1 = 0 THEN MainTarget ELSE MainDraft) /\ "send_ids" \notin Gpu
      BY DEF MainDraft, Gpu
    <2>2. 1 \in Ranks /\ pc' = [pc EXCEPT ![1] = "send_ids"] /\ UNCHANGED launch
      BY <1>1
    <2> HIDE DEF Ranks
    <2> QED BY <2>1, <2>2, MainMoves
  <1>p. ~posted[1]
    BY <1>1, <1>2 DEF PostedOK, Collectives, Barriers, Timings
  <1>5. MainCollectives' /\ MainNames'
    <2>1. /\ MainEntered(pc[1]) = MainEntered("send_ids")
          /\ Now(1) = 0 /\ Now(1)' = 0
      BY <1>1, <1>2, <1>p DEF MainEntered, Now, Before, Gpu
    <2> QED BY <1>1, <2>1, MainWithin
  <1>6. MainTurns'
    <2>1. MainTurn("send_ids", turn[1], Len(accepted[1]))
      BY <1>1, <1>2 DEF MainTurns, MainTurn, Before, Gpu
    <2> QED BY <1>1, <2>1, MainTurnsStep
  <1>7. DraftIds = 0 /\ UNCHANGED <<DraftIds, DraftLogits, DraftResult, TargetIds, TargetLogits, TargetOwes>>
    <2>1. /\ DraftIds = 0 /\ DraftIds' = 0 /\ DraftLogits = 0 /\ DraftLogits' = 0
          /\ DraftResult = 0 /\ DraftResult' = 0
      BY <1>1, <1>2, <1>p DEF DraftIds, DraftLogits, DraftResult
    <2>2. UNCHANGED <<TargetIds, TargetLogits, TargetOwes>>
      BY <1>1, <1>2, TargetStands
    <2> QED BY <2>1, <2>2
  <1>8. MainTraffic'
    BY <1>1, <1>7, MainApart DEF MainTraffic, Traffic
  <1>9. /\ Len(accepted[0]) = Len(accepted[1]) /\ net["ids"] = <<>>
        /\ pc[0] \notin {"recv_logits", "verify_and_accept"} /\ Len(accepted[0]) \in Nat
    <2>1. Len(accepted[0]) = Len(accepted[1]) /\ net["ids"] = <<>> /\ TargetIds = 0 /\ Len(accepted[0]) \in Nat
      BY <1>2, <1>7, MainApart, Apart
    <2> QED BY <2>1 DEF TargetIds
  <1>10. MainMessages'
    <2>1. net'["ids"] = <<>> /\ pc'[0] \notin {"recv_logits", "verify_and_accept"}
              /\ pc'[1] # "sync_draft_prefix"
      BY <1>1, <1>2, <1>9
    <2> QED BY <1>1, <1>2, <1>3, <2>1 DEF MainMessages
  <1>11. MainTexts'
    <2>1. Bonus' = Bonus
      BY <1>1 DEF Bonus
    <2>2. text[1] = text[0] \o Bonus
      BY <1>2, <1>9 DEF MainTexts
    <2>3. Len(accepted'[0]) # Len(accepted'[1]) + 1 /\ text' = text
      BY <1>1, <1>9
    <2> QED BY <2>1, <2>2, <2>3 DEF MainTexts
  <1>12. MainGathered'
    BY <1>1, <1>2 DEF MainGathered, G0
  <1> QED BY <1>1, <1>4, <1>5, <1>6, <1>8, <1>10, <1>11, <1>12
           DEF MainAgain, MainInv, MainState, TypeOK, DataOK

\* The texts verified and the drafts are the draft's own, so the answer makes
\* up for the round the target is now ahead.
LEMMA MainVerifyAndAccept ==
    ASSUME MainState, NEW n \in 0 .. launch.gamma, NEW b \in Token, VerifyAndAccept(n, b)
    PROVE  MainAgain'
  <1> USE DEF TARGET_RANK, DRAFT_RANK, Ranks
  <1> DEFINE ids == payload[0].ids
             a == [n |-> n, bonus |-> b, prefix |-> Len(text[0]),
                   cacheAfter |-> Len(text[0]) + Len(Bonus) + n]
             s == text[0] \o Bonus \o SubSeq(ids, 1, n)
  <1>1. /\ pc[0] = "verify_and_accept" /\ pc' = [pc EXCEPT ![0] = "send_result"] /\ exit[0] = Running
        /\ n \in 0 .. Len(ids) /\ text' = [text EXCEPT ![0] = s] /\ pending' = b
        /\ result' = [result EXCEPT ![0] = a] /\ accepted' = [accepted EXCEPT ![0] = Append(@, n)]
        /\ UNCHANGED <<launch, posted, turn, job, exit, entered, net, payload, clen, cursor, samples>>
    <2>1. pc[0] = "verify_and_accept" /\ launch.prog = "main"
      BY DEF VerifyAndAccept, At, MainState
    <2>2. Following("verify_and_accept", 0) = "send_result"
      BY <2>1, MainFollowing DEF MainPaths
    <2> QED BY <2>1, <2>2 DEF VerifyAndAccept, At, Done, Continue, SpeculativeAcceptance
  <1> HIDE DEF a, s
  <1>2. /\ pc \in [Ranks -> Operations] /\ TypeOK
        /\ text \in [Ranks -> Seq(Token)] /\ result \in [Ranks -> Answers]
        /\ accepted \in [Ranks -> Seq(Nat)] /\ turn \in [Ranks -> Nat]
        /\ MainTurns /\ MainMessages /\ MainTexts /\ MainGathered /\ PostedOK
    BY DEF MainState, TypeOK, ControlOK, DataOK, MainInv
  <1>p. ~posted[0]
    BY <1>1, <1>2 DEF PostedOK, Collectives, Barriers, Timings
  <1>3. ids = payload[1].ids /\ ids \in Seq(Token) /\ Bonus \in {<<>>} \cup {<<y>> : y \in Token}
            /\ Bonus \in Seq(Token)
    BY <1>1, <1>2 DEF MainMessages, Bonus
  <1>4. MainLabels' /\ pc' \in [Ranks -> Operations]
    BY <1>1, MainMoves DEF MainTarget, Gpu
  <1>5. MainCollectives' /\ MainNames'
    <2>1. /\ MainEntered(pc[0]) = MainEntered("send_result")
          /\ Now(0) = 0 /\ Now(0)' = 0
      BY <1>1, <1>2, <1>p DEF MainEntered, Now, Before, Gpu
    <2> QED BY <1>1, <2>1, MainWithin
  <1>6. Len(accepted'[0]) = Len(accepted[0]) + 1 /\ accepted'[1] = accepted[1] /\ Len(accepted[0]) \in Nat
    BY <1>1, <1>2, AppendProperties
  <1>7. MainTurns'
    <2>1. MainTurn("verify_and_accept", turn[0], Len(accepted[0]))
      BY <1>1, <1>2 DEF MainTurns
    <2>2. MainTurn("send_result", turn[0], Len(accepted[0]) + 1)
      BY <1>2, <2>1 DEF MainTurn, Before, Gpu
    <2>3. /\ turn'[1 - 0] = turn[1 - 0] /\ accepted'[1 - 0] = accepted[1 - 0]
          /\ MainTurn("send_result", turn'[0], Len(accepted'[0]))
      BY <1>1, <1>6, <2>2
    <2> QED BY <1>1, <2>3, MainTurnsStep
  <1>8. /\ TargetIds = 1 /\ TargetIds' = 0 /\ TargetLogits = 1 /\ TargetLogits' = 0
        /\ TargetOwes = 0 /\ TargetOwes' = 1
        /\ DraftIds' = DraftIds /\ DraftLogits' = DraftLogits /\ DraftResult' = DraftResult
    <2>1. /\ TargetIds = 1 /\ TargetIds' = 0 /\ TargetLogits = 1 /\ TargetLogits' = 0
          /\ TargetOwes = 0 /\ TargetOwes' = 1
      BY <1>1, <1>2, <1>p DEF TargetIds, TargetLogits, TargetOwes
    <2>2. DraftIds' = DraftIds /\ DraftLogits' = DraftLogits /\ DraftResult' = DraftResult
      BY <1>1, <1>2, DraftStands
    <2> QED BY <2>1, <2>2
  <1>9. MainTraffic'
    <2>1. /\ Len(accepted[0]) \in Nat /\ Len(accepted[1]) \in Nat
          /\ Traffic(Len(accepted[0]), Len(accepted[1]))
      BY MainApart
    <2>2. /\ Len(net'["ids"]) = Len(net["ids"]) /\ Len(net'["logits"]) = Len(net["logits"])
          /\ Len(net'["result"]) = Len(net["result"])
          /\ Len(accepted'[1]) = Len(accepted[1]) /\ Len(accepted'[0]) = Len(accepted[0]) + 1
      BY <1>1, <1>6
    <2>3. Len(net'["ids"]) = (Len(accepted'[1]) + DraftIds') - (Len(accepted'[0]) + TargetIds')
      BY <1>8, <2>1, <2>2, Whole DEF Traffic
    <2>4. Len(net'["logits"]) = (Len(accepted'[1]) + DraftLogits') - (Len(accepted'[0]) + TargetLogits')
      BY <1>8, <2>1, <2>2, Whole DEF Traffic
    <2>5. Len(net'["result"]) = (Len(accepted'[0]) - TargetOwes') - (Len(accepted'[1]) + DraftResult')
      BY <1>8, <2>1, <2>2, Whole DEF Traffic
    <2> QED BY <2>3, <2>4, <2>5 DEF MainTraffic, Traffic
  <1>10. Len(accepted[0]) = Len(accepted[1]) /\ DraftResult = 0 /\ net["result"] = <<>>
    <2>1. Len(accepted[0]) = Len(accepted[1]) /\ DraftResult = 0 /\ Len(accepted[1]) \in Nat
      BY <1>2, <1>8, MainApart, Apart
    <2>2. net["result"] # <<>> => Len(accepted[0]) = Len(accepted[1]) + 1
      BY <1>2, MainApart, Apart
    <2> QED BY <2>1, <2>2
  <1>11. MainMessages'
    <2>1. net'["result"] = <<>> /\ pc'[1] # "sync_draft_prefix"
              /\ pc'[0] \notin {"recv_logits", "verify_and_accept"}
      BY <1>1, <1>2, <1>10 DEF DraftResult
    <2> QED BY <1>1, <1>2, <2>1 DEF MainMessages
  <1>12. MainTexts'
    <2>1. text[1] = text[0] \o Bonus
      BY <1>2, <1>10 DEF MainTexts
    <2>2. Synced(a) = s \o <<b>>
      <3>1. text[0] \in Seq(Token) /\ n \in 0 .. Len(ids) /\ payload[1].ids = ids
        BY <1>1, <1>2, <1>3
      <3> DEFINE t == text[0]  w == Bonus
      <3>2. /\ t \in Seq(Token) /\ w \in {<<>>} \cup {<<y>> : y \in Token} /\ ids \in Seq(Token)
            /\ n \in 0 .. Len(ids) /\ b \in Token /\ text[1] = t \o w /\ payload[1].ids = ids
        BY <1>3, <2>1, <3>1
      <3> HIDE DEF ids, t, w
      <3>3. Synced([n |-> n, bonus |-> b, prefix |-> Len(t), cacheAfter |-> Len(t) + Len(w) + n])
                = (t \o w \o SubSeq(ids, 1, n)) \o <<b>>
        BY <3>2, SyncedText
      <3> QED BY <3>3 DEF a, s, t, w
    <2>3. Synced(result[0])' = Synced(a) /\ text'[0] = s /\ Bonus' = <<b>>
      <3>1. b # NoToken
        BY RankAssumption DEF NoToken
      <3>2. result'[0] = a /\ text'[1] = text[1] /\ text'[0] = s /\ payload'[1] = payload[1] /\ pending' = b
        BY <1>1, <1>2
      <3>3. Synced(result[0])' = Synced(a)
        BY <3>2 DEF Synced
      <3> QED BY <3>1, <3>2, <3>3 DEF Bonus
    <2>4. Synced(result[0])' = text'[0] \o Bonus'
      BY <2>2, <2>3
    <2>5. Len(accepted'[0]) # Len(accepted'[1])
      BY <1>6, <1>10
    <2> QED BY <2>4, <2>5 DEF MainTexts
  <1>13. MainGathered'
    BY <1>1, <1>2 DEF MainGathered, G0
  <1>14. text' \in [Ranks -> Seq(Token)]
    <2>1. text[0] \in Seq(Token) /\ n \in 0 .. Len(ids)
      BY <1>1, <1>2
    <2> HIDE DEF ids
    <2>2. SubSeq(ids, 1, n) \in Seq(Token)
      BY <1>3, <2>1
    <2>3. s \in Seq(Token)
      BY <1>3, <2>1, <2>2 DEF s
    <2> QED BY <1>1, <1>2, <2>3
  <1> QED BY <1>1, <1>4, <1>5, <1>7, <1>9, <1>11, <1>12, <1>13, <1>14
           DEF MainAgain, MainInv, MainState, TypeOK, DataOK

\* The draft's text, rebuilt, is the target's with the deferred bonus.
LEMMA MainSyncDraftPrefix ==
    ASSUME MainState, SyncDraftPrefix PROVE MainAgain'
  <1> USE DEF TARGET_RANK, DRAFT_RANK, Ranks
  <1>1. /\ pc[1] = "sync_draft_prefix" /\ pc' = [pc EXCEPT ![1] = "steps"] /\ exit[1] = Running
        /\ text' = [text EXCEPT ![1] = Synced(result[1])]
        /\ accepted' = [accepted EXCEPT ![1] = Append(@, result[1].n)]
        /\ UNCHANGED <<launch, posted, turn, job, exit, entered, net, pending, payload, result, clen,
                       cursor, samples>>
    <2>1. pc[1] = "sync_draft_prefix" /\ launch.prog = "main"
      BY DEF SyncDraftPrefix, At, MainState
    <2>2. Following("sync_draft_prefix", 1) = "steps"
      BY <2>1, MainFollowing DEF MainPaths
    <2> QED BY <2>1, <2>2 DEF SyncDraftPrefix, At, Done, Continue
  <1>2. /\ pc \in [Ranks -> Operations] /\ TypeOK
        /\ text \in [Ranks -> Seq(Token)] /\ result[1].n \in Nat
        /\ accepted \in [Ranks -> Seq(Nat)] /\ turn \in [Ranks -> Nat]
        /\ MainTurns /\ MainMessages /\ MainTexts /\ MainGathered /\ PostedOK
    BY DEF MainState, TypeOK, ControlOK, DataOK, MainInv, Answers
  <1>p. ~posted[1]
    BY <1>1, <1>2 DEF PostedOK, Collectives, Barriers, Timings
  <1>4. MainLabels' /\ pc' \in [Ranks -> Operations]
    <2>1. "steps" \in (IF 1 = 0 THEN MainTarget ELSE MainDraft) /\ "steps" \notin Gpu
      BY DEF MainDraft, Gpu
    <2>2. 1 \in Ranks /\ pc' = [pc EXCEPT ![1] = "steps"] /\ UNCHANGED launch
      BY <1>1
    <2> HIDE DEF Ranks
    <2> QED BY <2>1, <2>2, MainMoves
  <1>5. MainCollectives' /\ MainNames'
    <2>1. /\ MainEntered(pc[1]) = MainEntered("steps")
          /\ Now(1) = 0 /\ Now(1)' = 0
      BY <1>1, <1>2, <1>p DEF MainEntered, Now, Before, Gpu
    <2> QED BY <1>1, <2>1, MainWithin
  <1>6. Len(accepted'[1]) = Len(accepted[1]) + 1 /\ accepted'[0] = accepted[0] /\ Len(accepted[1]) \in Nat
    BY <1>1, <1>2, AppendProperties
  <1>7. MainTurns'
    <2>1. MainTurn("sync_draft_prefix", turn[1], Len(accepted[1]))
      BY <1>1, <1>2 DEF MainTurns
    <2>2. MainTurn("steps", turn[1], Len(accepted[1]) + 1)
      BY <1>2, <2>1 DEF MainTurn, Before, Gpu
    <2>3. /\ turn'[1 - 1] = turn[1 - 1] /\ accepted'[1 - 1] = accepted[1 - 1]
          /\ MainTurn("steps", turn'[1], Len(accepted'[1]))
      BY <1>1, <1>6, <2>2
    <2> QED BY <1>1, <2>3, MainTurnsStep
  <1>8. /\ DraftIds = 1 /\ DraftIds' = 0 /\ DraftLogits = 1 /\ DraftLogits' = 0
        /\ DraftResult = 1 /\ DraftResult' = 0
        /\ TargetIds' = TargetIds /\ TargetLogits' = TargetLogits /\ TargetOwes' = TargetOwes
    <2>1. /\ DraftIds = 1 /\ DraftIds' = 0 /\ DraftLogits = 1 /\ DraftLogits' = 0
          /\ DraftResult = 1 /\ DraftResult' = 0
      BY <1>1, <1>2, <1>p DEF DraftIds, DraftLogits, DraftResult
    <2>2. TargetIds' = TargetIds /\ TargetLogits' = TargetLogits /\ TargetOwes' = TargetOwes
      BY <1>1, <1>2, TargetStands
    <2> QED BY <2>1, <2>2
  <1>9. MainTraffic'
    <2>1. /\ Len(accepted[0]) \in Nat /\ Len(accepted[1]) \in Nat
          /\ Traffic(Len(accepted[0]), Len(accepted[1]))
      BY MainApart
    <2>2. /\ Len(net'["ids"]) = Len(net["ids"]) /\ Len(net'["logits"]) = Len(net["logits"])
          /\ Len(net'["result"]) = Len(net["result"])
          /\ Len(accepted'[0]) = Len(accepted[0]) /\ Len(accepted'[1]) = Len(accepted[1]) + 1
      BY <1>1, <1>6
    <2>3. Len(net'["ids"]) = (Len(accepted'[1]) + DraftIds') - (Len(accepted'[0]) + TargetIds')
      BY <1>8, <2>1, <2>2, Whole DEF Traffic
    <2>4. Len(net'["logits"]) = (Len(accepted'[1]) + DraftLogits') - (Len(accepted'[0]) + TargetLogits')
      BY <1>8, <2>1, <2>2, Whole DEF Traffic
    <2>5. Len(net'["result"]) = (Len(accepted'[0]) - TargetOwes') - (Len(accepted'[1]) + DraftResult')
      BY <1>8, <2>1, <2>2, Whole DEF Traffic
    <2> QED BY <2>3, <2>4, <2>5 DEF MainTraffic, Traffic
  <1>10. Len(accepted[0]) = Len(accepted[1]) + 1
    BY <1>2, <1>8, MainApart, Apart
  <1>11. text'[1] = text[0] \o Bonus /\ text'[0] = text[0] /\ text[0] \o Bonus \in Seq(Token)
    <2>1. Bonus \in Seq(Token)
      BY <1>2 DEF MainMessages, Bonus
    <2>2. Synced(result[0]) = text[0] \o Bonus
      BY <1>2, <1>10 DEF MainTexts
    <2>3. result[1] = result[0]
      BY <1>1, <1>2 DEF MainMessages
    <2> QED BY <1>1, <1>2, <2>1, <2>2, <2>3
  <1>12. MainTexts'
    <2>1. Bonus' = Bonus
      BY <1>1 DEF Bonus
    <2> QED BY <1>6, <1>10, <1>11, <2>1 DEF MainTexts
  <1>13. MainMessages'
    BY <1>1, <1>2 DEF MainMessages
  <1>14. MainGathered'
    BY <1>1, <1>2 DEF MainGathered, G0
  <1>15. text' \in [Ranks -> Seq(Token)]
    <2>1. Synced(result[1]) \in Seq(Token)
      BY <1>1, <1>2, <1>11
    <2> QED BY <1>1, <1>2, <2>1
  <1> QED BY <1>1, <1>4, <1>5, <1>7, <1>9, <1>12, <1>13, <1>14, <1>15
           DEF MainAgain, MainInv, MainState, TypeOK, DataOK

LEMMA MainFlushPendingBonus ==
    ASSUME MainState, FlushPendingBonus PROVE MainAgain'
  <1> USE DEF TARGET_RANK, DRAFT_RANK, Ranks
  <1>1. /\ pc[0] = "flush" /\ pc' = [pc EXCEPT ![0] = "end_barrier"] /\ exit[0] = Running
        /\ text' = [text EXCEPT ![0] = @ \o Bonus] /\ pending' = NoToken
        /\ UNCHANGED <<launch, posted, turn, job, exit, entered, net, payload, result, accepted, clen,
                       cursor, samples>>
    <2>1. pc[0] = "flush" /\ launch.prog = "main"
      BY DEF FlushPendingBonus, At, MainState
    <2>2. Following("flush", 0) = "end_barrier"
      BY <2>1, MainFollowing DEF MainPaths
    <2> QED BY <2>1, <2>2 DEF FlushPendingBonus, At, Done, Continue
  <1>2. /\ pc \in [Ranks -> Operations] /\ TypeOK
        /\ text \in [Ranks -> Seq(Token)]
        /\ MainTurns /\ MainMessages /\ MainTexts /\ MainGathered /\ PostedOK
    BY DEF MainState, TypeOK, ControlOK, DataOK, MainInv, Answers
  <1>p. ~posted[0]
    BY <1>1, <1>2 DEF PostedOK, Collectives, Barriers, Timings
  <1>4. MainLabels' /\ pc' \in [Ranks -> Operations]
    BY <1>1, MainMoves DEF MainTarget, Gpu
  <1>5. MainCollectives' /\ MainNames'
    <2>1. /\ MainEntered(pc[0]) = MainEntered("end_barrier")
          /\ Now(0) = 0 /\ Now(0)' = 0
      BY <1>1, <1>2, <1>p DEF MainEntered, Now, Before, Gpu
    <2> QED BY <1>1, <2>1, MainWithin
  <1>7. MainTurns'
    <2>1. MainTurn("end_barrier", turn[0], Len(accepted[0]))
      BY <1>1, <1>2 DEF MainTurns, MainTurn, Before, Gpu
    <2> QED BY <1>1, <2>1, MainTurnsStep
  <1>9. MainTraffic'
    <2>1. UNCHANGED <<DraftIds, DraftLogits, DraftResult>>
      BY <1>1, <1>2, DraftStands
    <2>2. UNCHANGED <<TargetIds, TargetLogits, TargetOwes>>
      BY <1>1, <1>2 DEF TargetIds, TargetLogits, TargetOwes
    <2> QED BY <1>1, <2>1, <2>2, MainApart DEF MainTraffic, Traffic
  <1>11. text'[0] = text[0] \o Bonus /\ text'[1] = text[1] /\ text[0] \o Bonus \in Seq(Token)
    <2>1. Bonus \in Seq(Token)
      BY <1>2 DEF MainMessages, Bonus
    <2> QED BY <1>1, <1>2, <2>1
  <1>12. MainTexts'
    <2>1. Bonus' = <<>> /\ (text[0] \o Bonus) \o Bonus' = text[0] \o Bonus
      <3>1. Bonus' = <<>>
        BY <1>1 DEF Bonus
      <3> QED BY <1>11, <3>1
    <2>2. \A x : Synced(x)' = Synced(x)
      <3>1. text'[1] = text[1] /\ payload' = payload
        BY <1>1, <1>11
      <3> QED BY <3>1 DEF Synced
    <2> QED BY <1>1, <1>2, <1>11, <2>1, <2>2 DEF MainTexts
  <1>13. MainMessages'
    BY <1>1, <1>2 DEF MainMessages
  <1>14. MainGathered'
    BY <1>1, <1>2, <1>11 DEF MainGathered, G0
  <1>15. text' \in [Ranks -> Seq(Token)]
    BY <1>1, <1>2, <1>11
  <1> QED BY <1>1, <1>4, <1>5, <1>7, <1>9, <1>12, <1>13, <1>14, <1>15
           DEF MainAgain, MainInv, MainState, TypeOK, DataOK

LEMMA MainStep ==
    ASSUME MainState, Next PROVE MainAgain'
  <1> USE DEF TARGET_RANK, DRAFT_RANK, Ranks
  <1>1. pc[0] \in MainTarget /\ pc[1] \in MainDraft
    BY DEF MainState, MainInv, MainLabels
  <1>2. \A r \in Ranks : pc[r] \notin {"make_result", "jobs", "prefill", "round", "sample_to_target",
                                      "sample_to_draft", "summarise", "median", "speculative_step",
                                      "make_payload", "generate_drafts", "apply_target_feedback"}
    BY <1>1 DEF MainTarget, MainDraft, Before, Gpu
  <1>3. ASSUME NEW r \in Ranks, Step(r) PROVE MainAgain'
    <2>1. ~MakeResult(r) /\ ~Jobs(r) /\ ~JobPrefill(r) /\ ~Round(r)
      BY <1>2 DEF MakeResult, Jobs, JobPrefill, Round, At
    <2>2. \A p \in {"sample_to_target", "sample_to_draft"} : ~TakeSample(r, p)
      BY <1>2 DEF TakeSample, At
    <2> QED BY <1>3, <2>1, <2>2, MainMovesOn, MainFor, MainLeaveCollective, MainEnter, MainSendReturns
             DEF Step
  <1>4. CASE TargetStep
    <2>1. ~Summarise /\ ~Median /\ \A n, b : ~SpeculativeStep(n, b)
      BY <1>2 DEF Summarise, Median, SpeculativeStep, At
    <2> QED BY <1>3, <1>4, <2>1, MainRecvDraftIds, MainRecvDraftLogits, MainSend, MainCompare,
                MainFlushPendingBonus, MainVerifyAndAccept DEF TargetStep
  <1>5. CASE DraftStep
    <2>1. ~MakePayload /\ ~GenerateDrafts /\ ~ApplyTargetFeedback
      BY <1>2 DEF MakePayload, GenerateDrafts, ApplyTargetFeedback, At
    <2> QED BY <1>3, <1>5, <2>1, MainSend, MainRecvTargetResult, MainSyncDraftPrefix, MainDraftGamma
             DEF DraftStep
  <1> QED BY <1>4, <1>5 DEF Next

LEMMA MainInit ==
    ASSUME Init, launch.prog = "main" PROVE MainInv
  <1> USE DEF TARGET_RANK, DRAFT_RANK, Ranks
  <1>1. /\ pc[0] = "check" /\ pc[1] = "check" /\ ~posted[0] /\ ~posted[1]
        /\ turn[0] = 0 /\ turn[1] = 0 /\ entered[0] = <<>> /\ entered[1] = <<>>
        /\ net["ids"] = <<>> /\ net["logits"] = <<>> /\ net["result"] = <<>>
        /\ accepted[0] = <<>> /\ accepted[1] = <<>> /\ exit[0] = Running
        /\ text[0] = launch.prefix /\ text[1] = launch.prefix /\ pending = NoToken
        /\ payload[1].ids = <<>> /\ launch.prefix \in Seq(Token)
    BY LaunchFacts DEF Init, Messages
  <1>2. MainLabels
    BY <1>1 DEF MainLabels, MainTarget, MainDraft, Before, Gpu
  <1>3. MainCollectives /\ MainNames
    <2>1. /\ MainEntered("check") = 0 /\ Now(0) = 0 /\ Now(1) = 0
          /\ Len(entered[0]) = 0 /\ Len(entered[1]) = 0
      BY <1>1 DEF MainEntered, GpuEntered, Before, Now
    <2> QED BY <1>1, <2>1 DEF MainCollectives, MainNames
  <1>4. MainTurns
    BY <1>1 DEF MainTurns, MainTurn, Before
  <1>5. MainTraffic
    <2>1. /\ DraftIds = 0 /\ DraftLogits = 0 /\ DraftResult = 0
          /\ TargetIds = 0 /\ TargetLogits = 0 /\ TargetOwes = 0
      BY <1>1 DEF DraftIds, DraftLogits, DraftResult, TargetIds, TargetLogits, TargetOwes
    <2> QED BY <1>1, <2>1 DEF MainTraffic, Traffic
  <1>6. MainMessages
    BY <1>1 DEF MainMessages
  <1>7. MainTexts
    <2>1. text[1] = text[0] \o Bonus
      BY <1>1 DEF Bonus
    <2> QED BY <1>1, <2>1 DEF MainTexts
  <1>8. MainGathered
    BY <1>1 DEF MainGathered, G0, Running
  <1> QED BY <1>2, <1>3, <1>4, <1>5, <1>6, <1>7, <1>8 DEF MainInv

\* What the invariant says of the properties, for the prototype.
LEMMA MainPrefixesAgree ==
    ASSUME MainState PROVE PrefixesAgree
  BY DEF MainState, MainInv, MainTexts, MainGathered, PrefixesAgree

LEMMA MainVerifiesDraftText ==
    ASSUME MainState PROVE VerifiesDraftText
  <1> USE DEF TARGET_RANK, DRAFT_RANK, Ranks
  <1> SUFFICES ASSUME At(0, "verify_and_accept"), NEW i \in 1 .. Len(payload[0].ids) + 1
               PROVE  TargetPRows(payload[0].ids)[i].text = text[1] \o SubSeq(payload[0].ids, 1, i - 1)
    BY DEF VerifiesDraftText
  <1>1. TypeOK /\ MainTexts /\ pc[0] = "verify_and_accept"
    BY DEF MainState, MainInv, At
  <1>2. TargetLogits = 1
    BY <1>1 DEF TargetLogits
  <1>3. Len(accepted[0]) = Len(accepted[1])
    BY <1>1, <1>2, MainApart, Apart
  <1>4. text[1] = text[0] \o Bonus
    BY <1>1, <1>3 DEF MainTexts
  <1> QED BY <1>4 DEF TargetPRows, MockLogits

\* A rank that is ahead in its collectives has no message of its own under way
\* that the other has still to receive.
LEMMA MainNothingCrossesABarrier ==
    ASSUME MainState PROVE NothingCrossesABarrier
  <1> USE DEF TARGET_RANK, DRAFT_RANK, Ranks
  <1>1. /\ TypeOK /\ pc \in [Ranks -> Operations] /\ MainLabels /\ MainCollectives /\ MainNames
        /\ MainTurns /\ launch.steps \in Nat /\ entered \in [Ranks -> Seq(Entries)]
        /\ Len(accepted[0]) \in Nat /\ Len(accepted[1]) \in Nat
        /\ turn[0] \in Nat /\ turn[1] \in Nat /\ launch.requireGpu \in BOOLEAN
    BY LaunchFacts, MainApart DEF MainState, TypeOK, ControlOK, QueuesOK, DataOK, MainInv
  <1>2. \A k \in DOMAIN entered[0] \cap DOMAIN entered[1] : entered[0][k].what = entered[1][k].what
    <2>1. DOMAIN entered[0] = 1 .. Len(entered[0]) /\ DOMAIN entered[1] = 1 .. Len(entered[1])
      BY <1>1
    <2> QED BY <1>1, <2>1 DEF MainNames
  <1>3. /\ Len(entered[0]) = MainEntered(pc[0]) + Now(0)
        /\ Len(entered[1]) = MainEntered(pc[1]) + Now(1)
        /\ Now(0) \in {0, 1} /\ Now(1) \in {0, 1}
    BY <1>1 DEF MainCollectives, Now
  <1> DEFINE OneRound == {"send_ids", "send_logits", "recv_result", "sync_draft_prefix"}
             Late == {"end_barrier", "prefix", "compare", "return"}
  <1>4. DraftIds = 1 => pc[1] \in OneRound /\ Len(entered[1]) = G0
    <2>1. DraftIds = 1 => pc[1] \in OneRound
      BY <1>1 DEF DraftIds, MainLabels, MainDraft, Before, Gpu
    <2>2. pc[1] \in OneRound => MainEntered(pc[1]) = G0 /\ Now(1) = 0
      BY DEF MainEntered, Now, Before, Gpu, Collectives, Barriers, Timings
    <2> QED BY <1>3, <2>1, <2>2, MainEnteredAt
  <1>5. /\ pc[0] \in Before => Len(entered[0]) <= G0 /\ Len(accepted[0]) = 0
        /\ pc[0] \notin Before \cup Late => Len(entered[0]) = G0
        /\ pc[0] \in Late => Len(accepted[0]) = launch.steps /\ Len(entered[0]) >= G0
    <2>1. ASSUME pc[0] \in Before PROVE Len(entered[0]) <= G0
      <3>1. GpuEntered(pc[0]) + Now(0) <= G0
        BY <1>1, <2>1 DEF GpuEntered, G0, MainLabels, Before, Gpu, Now, Collectives, Barriers, Timings
      <3> QED BY <1>3, <2>1, <3>1 DEF MainEntered
    <2>2. ASSUME pc[0] \notin Before \cup Late PROVE Len(entered[0]) = G0
      <3>1. MainEntered(pc[0]) = G0 /\ Now(0) = 0
        BY <1>1, <2>2 DEF MainLabels, MainTarget, MainEntered, Now, Collectives, Barriers, Timings
      <3> QED BY <1>3, <3>1, MainEnteredAt
    <2>3. ASSUME pc[0] \in Late PROVE Len(entered[0]) >= G0
      BY <1>3, <2>3, MainEnteredAt
    <2>4. /\ pc[0] \in Before => Len(accepted[0]) = 0
          /\ pc[0] \in Late => Len(accepted[0]) = launch.steps
      BY <1>1 DEF MainTurns, MainTurn
    <2> QED BY <2>1, <2>2, <2>3, <2>4
  <1>6. pc[1] \in OneRound => Len(accepted[1]) < launch.steps
    BY <1>1 DEF MainTurns, MainTurn
  <1>7. Len(entered[0]) \in Nat /\ Len(entered[1]) \in Nat
    BY <1>1
  <1>8. ASSUME Len(entered[0]) > Len(entered[1]), DraftIds = 1, Len(accepted[0]) = Len(accepted[1])
        PROVE  FALSE
    <2>1. pc[0] \in Late
      BY <1>4, <1>5, <1>7, <1>8, MainEnteredAt
    <2> QED BY <1>1, <1>4, <1>5, <1>6, <1>8, <2>1
  <1>9. net["ids"] # <<>> \/ net["logits"] # <<>> => DraftIds = 1 /\ Len(accepted[0]) = Len(accepted[1])
    <2>1. net["ids"] # <<>> => DraftIds = 1 /\ Len(accepted[0]) = Len(accepted[1])
      BY <1>1, MainApart, Apart
    <2>2. net["logits"] # <<>> => DraftIds = 1 /\ Len(accepted[0]) = Len(accepted[1])
      BY <1>1, MainApart, Apart
    <2> QED BY <2>1, <2>2
  <1>10. ASSUME net["result"] # <<>> PROVE Len(entered[1]) <= Len(entered[0])
    <2>1. Len(accepted[0]) = Len(accepted[1]) + 1
      BY <1>1, <1>10, MainApart, Apart
    <2>2. DraftIds = 1
      <3>1. DraftIds = 0 => Len(accepted[0]) = Len(accepted[1])
        BY <1>1, MainApart, Apart
      <3> QED BY <1>1, <2>1, <3>1, Offsets
    <2>3. pc[0] \notin Before
      BY <1>1, <1>5, <2>1
    <2> QED BY <1>4, <1>5, <1>7, <2>2, <2>3, MainEnteredAt
  <1>11. \A m \in Messages : Len(net[m]) <= 1
    BY <1>1, MainApart, Apart
  <1> QED BY <1>2, <1>7, <1>8, <1>9, <1>10, <1>11 DEF NothingCrossesABarrier

-----------------------------------------------------------------------------
(* The transfer benchmark *)

BenchPaths ==
    /\ \A r \in Ranks :
           /\ Following("check", r) = "bind" /\ Following("bind", r) = "bind_barrier"
           /\ Following("bind_barrier", r) = "device" /\ Following("device", r) = "distinct"
           /\ Following("distinct", r) = "distinct_barrier"
           /\ Following("distinct_barrier", r) = "to_target"
           /\ Following("sample_to_target", r) = "to_target_barrier"
           /\ Following("to_target_barrier", r) = "to_target"
           /\ Following("sample_to_draft", r) = "to_draft_barrier"
           /\ Following("to_draft_barrier", r) = "to_draft"
           /\ Following("end_barrier", r) = "draft_d2h" /\ Following("draft_d2h", r) = "draft_mpi"
           /\ Following("draft_mpi", r) = "target_mpi" /\ Following("target_mpi", r) = "target_h2d"
           /\ Following("target_h2d", r) = "target_send" /\ Following("target_send", r) = "draft_recv"
           /\ Following("draft_recv", r) = (IF r = TARGET_RANK THEN "summarise" ELSE "return")
           /\ Following("summarise", r) = "return" /\ Following("return", r) = "return"
    /\ Following("recv_ids", TARGET_RANK) = "recv_logits"
    /\ Following("recv_logits", TARGET_RANK) = "sample_to_target"
    /\ Following("make_result", TARGET_RANK) = "send_result"
    /\ Following("send_result", TARGET_RANK) = "sample_to_draft"
    /\ Following("make_payload", DRAFT_RANK) = "send_ids"
    /\ Following("send_ids", DRAFT_RANK) = "send_logits"
    /\ Following("send_logits", DRAFT_RANK) = "sample_to_target"
    /\ Following("make_result", DRAFT_RANK) = "recv_result"
    /\ Following("recv_result", DRAFT_RANK) = "sample_to_draft"

\* The benchmark's program, operation by operation.
LEMMA BenchFollowing ==
    ASSUME launch.prog = "benchmark" PROVE BenchPaths
  BY DEF BenchPaths, Following, BenchmarkProgram, GpuCheck, GatherTimes, RunTargetToDraft,
         RunDraftToTarget, Timings, Ranks, TARGET_RANK, DRAFT_RANK

BenchState == TypeOK /\ PostedOK /\ CheckedOK /\ launch.prog = "benchmark" /\ BenchInv
BenchAgain ==
    /\ launch.prog = "benchmark" /\ BenchInv
    /\ pc \in [Ranks -> Operations] /\ text \in [Ranks -> Seq(Token)] /\ cursor \in [Ranks -> Nat]

LEMMA BenchFacts ==
    ASSUME BenchState
    PROVE  /\ pc \in [Ranks -> Operations] /\ posted \in [Ranks -> BOOLEAN]
           /\ turn \in [Ranks -> Nat] /\ entered \in [Ranks -> Seq(Entries)]
           /\ net \in [Messages -> Seq(Seq(Rows) \cup Answers)]
           /\ net["ids"] \in Seq(Seq(Nat)) /\ net["logits"] \in Seq(Seq(Rows))
           /\ net["result"] \in Seq(Answers)
           /\ payload \in [Ranks -> Payloads] /\ result \in [Ranks -> Answers]
           /\ samples \in [Ranks -> [Timings -> Seq(Nat)]]
           /\ text \in [Ranks -> Seq(Token)] /\ cursor \in [Ranks -> Nat]
           /\ launch.warmup \in Nat /\ launch.trials \in Nat /\ N \in Nat
           /\ Now(0) \in {0, 1} /\ Now(1) \in {0, 1}
           /\ Len(entered[0]) \in Nat /\ Len(entered[1]) \in Nat
  <1>1. launch.warmup \in Nat /\ launch.trials \in Nat /\ N \in Nat
    BY LaunchFacts DEF BenchState, TypeOK, ControlOK, N
  <1>2. entered \in [Ranks -> Seq(Entries)]
    BY DEF BenchState, TypeOK, QueuesOK
  <1>3. /\ pc \in [Ranks -> Operations] /\ posted \in [Ranks -> BOOLEAN] /\ turn \in [Ranks -> Nat]
        /\ net \in [Messages -> Seq(Seq(Rows) \cup Answers)]
        /\ net["ids"] \in Seq(Seq(Nat)) /\ net["logits"] \in Seq(Seq(Rows))
        /\ net["result"] \in Seq(Answers)
    BY DEF BenchState, TypeOK, ControlOK, QueuesOK
  <1>4. /\ payload \in [Ranks -> Payloads] /\ result \in [Ranks -> Answers]
        /\ samples \in [Ranks -> [Timings -> Seq(Nat)]]
        /\ text \in [Ranks -> Seq(Token)] /\ cursor \in [Ranks -> Nat]
    BY DEF BenchState, TypeOK, DataOK
  <1>5. Now(0) \in {0, 1} /\ Now(1) \in {0, 1}
    BY DEF Now
  <1>6. Len(entered[0]) \in Nat /\ Len(entered[1]) \in Nat
    BY <1>2 DEF Ranks, TARGET_RANK, DRAFT_RANK
  <1> QED
    BY <1>1, <1>2, <1>3, <1>4, <1>5, <1>6

\* The collectives behind a rank, operation by operation.
LEMMA BenchEnteredOps ==
    ASSUME NEW t
    PROVE  /\ BenchEntered("check", t) = 0 /\ BenchEntered("bind", t) = 0
           /\ BenchEntered("bind_barrier", t) = 0 /\ BenchEntered("device", t) = 1
           /\ BenchEntered("distinct", t) = 2 /\ BenchEntered("distinct_barrier", t) = 2
           /\ BenchEntered("to_target", t) = 3 + t
           /\ \A p \in ToTarget \ {"to_target"} : BenchEntered(p, t) = 3 + (t - 1)
           /\ BenchEntered("to_draft", t) = 3 + N + t
           /\ \A p \in ToDraft \ {"to_draft"} : BenchEntered(p, t) = 3 + N + (t - 1)
           /\ BenchEntered("end_barrier", t) = 3 + N + N
           /\ BenchEntered("draft_d2h", t) = 4 + N + N + 0
           /\ BenchEntered("draft_mpi", t) = 4 + N + N + 1
           /\ BenchEntered("target_mpi", t) = 4 + N + N + 2
           /\ BenchEntered("target_h2d", t) = 4 + N + N + 3
           /\ BenchEntered("target_send", t) = 4 + N + N + 4
           /\ BenchEntered("draft_recv", t) = 4 + N + N + 5
           /\ BenchEntered("summarise", t) = 10 + N + N /\ BenchEntered("return", t) = 10 + N + N
  <1> USE DEF Before, Gpu
  <1>1. /\ BenchEntered("check", t) = 0 /\ BenchEntered("bind", t) = 0
        /\ BenchEntered("bind_barrier", t) = 0 /\ BenchEntered("device", t) = 1
        /\ BenchEntered("distinct", t) = 2 /\ BenchEntered("distinct_barrier", t) = 2
    BY DEF BenchEntered, GpuEntered
  <1>2. \A p \in ToTarget : p \notin Before
    BY DEF ToTarget
  <1>3. \A p \in ToDraft : p \notin Before \cup ToTarget
    BY DEF ToTarget, ToDraft
  <1>4. /\ BenchEntered("to_target", t) = 3 + t
        /\ \A p \in ToTarget \ {"to_target"} : BenchEntered(p, t) = 3 + (t - 1)
    <2>1. "to_target" \in ToTarget
      BY DEF ToTarget
    <2> HIDE DEF Before
    <2> QED BY <1>2, <2>1 DEF BenchEntered
  <1>5. /\ BenchEntered("to_draft", t) = 3 + N + t
        /\ \A p \in ToDraft \ {"to_draft"} : BenchEntered(p, t) = 3 + N + (t - 1)
    <2>1. "to_draft" \in ToDraft
      BY DEF ToDraft
    <2> HIDE DEF Before
    <2> QED BY <1>3, <2>1 DEF BenchEntered
  <1>6. \A p \in Ended \cup {"end_barrier"} : p \notin Before \cup ToTarget \cup ToDraft
    BY DEF Ended, Timings, ToTarget, ToDraft
  <1>7. \A p \in Timings : p # "end_barrier" /\ p \in Ended
    BY DEF Timings, Ended
  <1>8. \A p \in Timings : BenchEntered(p, t) = 4 + N + N + GatherIndex(p)
    <2> HIDE DEF Before
    <2> QED BY <1>6, <1>7 DEF BenchEntered
  <1>9. /\ GatherIndex("draft_d2h") = 0 /\ GatherIndex("draft_mpi") = 1 /\ GatherIndex("target_mpi") = 2
        /\ GatherIndex("target_h2d") = 3 /\ GatherIndex("target_send") = 4 /\ GatherIndex("draft_recv") = 5
    BY DEF GatherIndex
  <1>10. /\ BenchEntered("end_barrier", t) = 3 + N + N
         /\ BenchEntered("summarise", t) = 10 + N + N /\ BenchEntered("return", t) = 10 + N + N
    <2>1. /\ "summarise" \in Ended \ (Timings \cup {"end_barrier"})
          /\ "return" \in Ended \ (Timings \cup {"end_barrier"})
      BY DEF Ended, Timings
    <2> HIDE DEF Before
    <2> QED BY <1>6, <2>1 DEF BenchEntered
  <1> QED BY <1>1, <1>4, <1>5, <1>8, <1>9, <1>10 DEF Timings

LEMMA BenchEnteredLate ==
    ASSUME NEW p \in BenchTarget \cup BenchDraft, NEW t \in Nat, N \in Nat, p \notin Before \cup ToTarget,
           p \in ToDraft \ {"to_draft"} => t >= 1
    PROVE  /\ BenchEntered(p, t) \in Int /\ BenchEntered(p, t) >= 3 + N
           /\ p \notin ToDraft => BenchEntered(p, t) >= 3 + N + N
  <1>1. CASE p = "to_draft"
    <2>1. BenchEntered(p, t) = 3 + N + t /\ p \in ToDraft
      BY <1>1, BenchEnteredOps DEF ToDraft
    <2> QED BY <2>1
  <1>2. CASE p \in ToDraft \ {"to_draft"}
    <2>1. BenchEntered(p, t) = 3 + N + (t - 1) /\ t >= 1
      BY <1>2, BenchEnteredOps
    <2> QED BY <1>2, <2>1
  <1>3. CASE p \in {"end_barrier", "summarise", "return"}
    <2>1. BenchEntered(p, t) = 3 + N + N \/ BenchEntered(p, t) = 10 + N + N
      BY <1>3, BenchEnteredOps
    <2> QED BY <2>1
  <1>4. CASE p \in Timings
    <2>1. \E k \in 0 .. 5 : BenchEntered(p, t) = 4 + N + N + k
      BY <1>4, BenchEnteredOps DEF Timings
    <2> QED BY <2>1
  <1>5. p \in ToDraft \cup {"end_barrier"} \cup Ended
    BY DEF BenchTarget, BenchDraft
  <1> QED BY <1>1, <1>2, <1>3, <1>4, <1>5 DEF Ended

LEMMA BenchMoves ==
    ASSUME BenchState, NEW r \in Ranks, NEW q \in IF r = 0 THEN BenchTarget ELSE BenchDraft,
           pc' = [pc EXCEPT ![r] = q]
    PROVE  BenchLabels' /\ pc' \in [Ranks -> Operations]
  <1> USE DEF TARGET_RANK, DRAFT_RANK, Ranks
  <1>1. BenchLabels /\ q \in Operations
    BY DEF BenchState, BenchInv, Operations
  <1>2. pc'[0] \in BenchTarget /\ pc'[1] \in BenchDraft
    <2>1. pc \in [Ranks -> Operations]
      BY BenchFacts
    <2>2. CASE r = 0
      <3>1. pc' = [pc EXCEPT ![0] = q]
        BY <2>2
      <3> QED BY <1>1, <2>1, <2>2, <3>1 DEF BenchLabels
    <2>3. CASE r = 1
      <3>1. pc' = [pc EXCEPT ![1] = q]
        BY <2>3
      <3> QED BY <1>1, <2>1, <2>3, <3>1 DEF BenchLabels
    <2> QED BY <2>2, <2>3
  <1> QED BY <1>1, <1>2, BenchFacts DEF BenchLabels

\* A turn of the loop, at operation p.
BenchTurn(p, t) ==
    /\ p \in Before => t = 0
    /\ t <= N
    /\ p \in (ToTarget \cup ToDraft) \ {"to_target", "to_draft"} => t >= 1

LEMMA BenchWithin ==
    ASSUME BenchState, NEW r \in Ranks, NEW q, pc' = [pc EXCEPT ![r] = q],
           UNCHANGED <<launch, entered>>,
           posted'[1 - r] = posted[1 - r], turn'[1 - r] = turn[1 - r],
           BenchEntered(pc[r], turn[r]) + Now(r) = BenchEntered(q, turn'[r]) + Now(r)',
           BenchTurn(q, turn'[r])
    PROVE  BenchCollectives' /\ BenchNames' /\ BenchTurns'
  <1> USE DEF TARGET_RANK, DRAFT_RANK, Ranks
  <1>1. BenchCollectives /\ BenchNames /\ BenchTurns /\ \A s \in Ranks : s = r \/ s = 1 - r
    BY DEF BenchState, BenchInv
  <1>2. pc'[r] = q /\ pc'[1 - r] = pc[1 - r]
    BY BenchFacts
  <1>3. Now(1 - r)' = Now(1 - r) /\ N' = N
    BY <1>2 DEF Now, N
  <1>4. BenchCollectives'
    <2>1. \A p, t : BenchEntered(p, t)' = BenchEntered(p, t)
      BY <1>3 DEF BenchEntered
    <2>2. /\ Len(entered[r]) = BenchEntered(pc[r], turn[r]) + Now(r)
          /\ Len(entered[1 - r]) = BenchEntered(pc[1 - r], turn[1 - r]) + Now(1 - r)
      BY <1>1 DEF BenchCollectives
    <2>3. /\ Len(entered[r]) = BenchEntered(pc'[r], turn'[r]) + Now(r)'
          /\ Len(entered[1 - r]) = BenchEntered(pc'[1 - r], turn'[1 - r]) + Now(1 - r)'
      BY <1>2, <1>3, <2>2
    <2>4. \A s \in Ranks : Len(entered[s]) = BenchEntered(pc'[s], turn'[s]) + Now(s)'
      BY <1>1, <2>3
    <2> QED BY <2>1, <2>4 DEF BenchCollectives
  <1>5. BenchNames'
    BY <1>1, <1>3 DEF BenchNames, BenchAt
  <1>6. BenchTurns'
    BY <1>1, <1>2, <1>3 DEF BenchTurns, BenchTurn
  <1> QED BY <1>4, <1>5, <1>6

LEMMA BenchGateSame ==
    ASSUME BenchState, UNCHANGED <<launch, entered, Now(0), Now(1)>>, pc'[1] \in Ended <=> pc[1] \in Ended
    PROVE  BenchGate'
  BY DEF BenchState, BenchInv, BenchGate, N, TARGET_RANK, DRAFT_RANK

TargetKept ==
    /\ BenchIdsTaken' = BenchIdsTaken /\ BenchLogitsTaken' = BenchLogitsTaken
    /\ BenchResultsOut' = BenchResultsOut /\ Past1(0)' = Past1(0) /\ Past2(0)' = Past2(0)
DraftKept ==
    /\ BenchIdsOut' = BenchIdsOut /\ BenchLogitsOut' = BenchLogitsOut
    /\ BenchResultsTaken' = BenchResultsTaken /\ Past1(1)' = Past1(1) /\ Past2(1)' = Past2(1)

LEMMA BenchTargetStands ==
    ASSUME UNCHANGED launch, pc'[0] = pc[0], posted'[0] = posted[0], turn'[0] = turn[0]
    PROVE  TargetKept
  BY DEF TargetKept, BenchIdsTaken, BenchLogitsTaken, BenchResultsOut, Past1, Past2, Sent1, Sent2, N,
         TARGET_RANK

LEMMA BenchDraftStands ==
    ASSUME UNCHANGED launch, pc'[1] = pc[1], posted'[1] = posted[1], turn'[1] = turn[1]
    PROVE  DraftKept
  BY DEF DraftKept, BenchIdsOut, BenchLogitsOut, BenchResultsTaken, Past1, Past2, Sent1, Sent2, N,
         DRAFT_RANK

LEMMA BenchSamplesSame ==
    ASSUME BenchState, UNCHANGED <<launch, samples, Past1(0), Past1(1), Past2(0), Past2(1)>>
    PROVE  BenchSamples'
  <1> USE DEF TARGET_RANK, DRAFT_RANK, Ranks
  <1>1. BenchSamples
    BY DEF BenchState, BenchInv
  <1>2. \A r \in Ranks : Past1(r)' = Past1(r) /\ Past2(r)' = Past2(r)
    OBVIOUS
  <1>3. \A r \in Ranks, t \in Timings : Sampled(r, t)' = Sampled(r, t)
    BY <1>2 DEF Sampled, Lists
  <1> QED BY <1>1, <1>3 DEF BenchSamples

\* A step that only moves on.
LEMMA BenchQuiet ==
    ASSUME BenchState, NEW r \in Ranks, NEW q \in IF r = 0 THEN BenchTarget ELSE BenchDraft,
           pc' = [pc EXCEPT ![r] = q], UNCHANGED <<launch, entered, net, data>>,
           posted'[1 - r] = posted[1 - r], turn'[1 - r] = turn[1 - r],
           BenchEntered(pc[r], turn[r]) + Now(r) = BenchEntered(q, turn'[r]) + Now(r)',
           BenchTurn(q, turn'[r]), BenchGate',
           r = 0 => TargetKept /\ q \notin {"send_result", "recv_logits", "sample_to_target"},
           r = 1 => /\ DraftKept /\ q # "sample_to_draft"
                    /\ q \in {"send_ids", "send_logits"} =>
                           pc[1] \in {"send_ids", "send_logits"} /\ turn'[1] = turn[1]
    PROVE  BenchAgain'
  <1> USE DEF TARGET_RANK, DRAFT_RANK, Ranks
  <1>1. BenchTraffic /\ BenchMessages /\ BenchGathered
    BY DEF BenchState, BenchInv
  <1>2. BenchLabels' /\ pc' \in [Ranks -> Operations]
    BY BenchMoves
  <1>3. BenchCollectives' /\ BenchNames' /\ BenchTurns'
    BY BenchWithin
  <1>4. pc'[r] = q /\ pc'[1 - r] = pc[1 - r]
    BY BenchFacts
  <1>5. TargetKept /\ DraftKept
    BY <1>4, BenchTargetStands, BenchDraftStands
  <1>6. BenchTraffic' /\ BenchSamples'
    BY <1>1, <1>5, BenchSamplesSame DEF BenchTraffic, TargetKept, DraftKept, data
  <1>7. BenchMessages'
    BY <1>1, <1>4, <1>5 DEF BenchMessages, TargetKept, DraftKept, data
  <1>8. BenchGathered'
    BY <1>1 DEF BenchGathered, N, data
  <1> QED BY <1>2, <1>3, <1>6, <1>7, <1>8, BenchFacts DEF BenchAgain, BenchInv, BenchState, data

\* Between operations before the loops, or after them, the counts stand.
LEMMA BenchOutside ==
    ASSUME BenchState, NEW r \in Ranks, NEW q, pc' = [pc EXCEPT ![r] = q], UNCHANGED launch,
           \/ pc[r] \in Before /\ q \in Before
           \/ pc[r] \in Ended \cup {"end_barrier"} /\ q \in Ended \cup {"end_barrier"}
    PROVE  (r = 0 => TargetKept) /\ (r = 1 => DraftKept)
  <1> USE DEF TARGET_RANK, DRAFT_RANK, Ranks
  <1>1. pc'[r] = q
    BY BenchFacts
  <1>2. /\ pc[r] \in Before <=> pc'[r] \in Before
        /\ pc[r] \notin ToTarget \cup ToDraft /\ pc'[r] \notin ToTarget \cup ToDraft
    BY <1>1 DEF Before, Gpu, ToTarget, ToDraft, Ended, Timings
  <1>3. r = 0 => TargetKept
    <2> SUFFICES ASSUME r = 0 PROVE TargetKept
      OBVIOUS
    <2>1. /\ pc[0] \in Before <=> pc'[0] \in Before
          /\ pc[0] \notin ToTarget \cup ToDraft /\ pc'[0] \notin ToTarget \cup ToDraft
      BY <1>1, <1>2
    <2>2. BenchIdsTaken' = BenchIdsTaken
      BY <2>1 DEF BenchIdsTaken, Sent1, N
    <2>3. BenchLogitsTaken' = BenchLogitsTaken
      BY <2>1 DEF BenchLogitsTaken, Sent1, N
    <2>4. BenchResultsOut' = BenchResultsOut
      BY <2>1 DEF BenchResultsOut, Sent2, N
    <2>5. Past1(0)' = Past1(0)
      BY <2>1 DEF Past1, Sent1, N
    <2>6. Past2(0)' = Past2(0)
      BY <2>1 DEF Past2, Sent2, N
    <2> QED BY <2>2, <2>3, <2>4, <2>5, <2>6 DEF TargetKept
  <1>4. r = 1 => DraftKept
    <2> SUFFICES ASSUME r = 1 PROVE DraftKept
      OBVIOUS
    <2>1. /\ pc[1] \in Before <=> pc'[1] \in Before
          /\ pc[1] \notin ToTarget \cup ToDraft /\ pc'[1] \notin ToTarget \cup ToDraft
      BY <1>1, <1>2
    <2>2. BenchIdsOut' = BenchIdsOut
      BY <2>1 DEF BenchIdsOut, Sent1, N
    <2>3. BenchLogitsOut' = BenchLogitsOut
      BY <2>1 DEF BenchLogitsOut, Sent1, N
    <2>4. BenchResultsTaken' = BenchResultsTaken
      BY <2>1 DEF BenchResultsTaken, Sent2, N
    <2>5. Past1(1)' = Past1(1)
      BY <2>1 DEF Past1, Sent1, N
    <2>6. Past2(1)' = Past2(1)
      BY <2>1 DEF Past2, Sent2, N
    <2> QED BY <2>2, <2>3, <2>4, <2>5, <2>6 DEF DraftKept
  <1> QED BY <1>3, <1>4

LEMMA BenchMovesOn ==
    ASSUME BenchState, NEW r \in Ranks,
           \/ Check(r) \/ BindRankToCuda(r) \/ VerifyDistinctGpus(r) \/ Return(r)
           \/ r = 0 /\ Summarise
    PROVE  BenchAgain'
  <1> USE DEF TARGET_RANK, DRAFT_RANK, Ranks
  <1> DEFINE q == Following(pc[r], r)
  <1>1. /\ pc[r] \in {"check", "bind", "distinct", "return", "summarise"}
        /\ pc[r] = "summarise" => r = 0
        /\ pc' = [pc EXCEPT ![r] = q] /\ UNCHANGED <<launch, posted, turn, entered, net, data>>
    BY DEF Check, BindRankToCuda, VerifyDistinctGpus, Return, Summarise, At, Done, Leave, Continue
  <1>2. /\ pc[r] = "check" => q = "bind"
        /\ pc[r] = "bind" => q = "bind_barrier"
        /\ pc[r] = "distinct" => q = "distinct_barrier"
        /\ pc[r] \in {"return", "summarise"} => q = "return"
    BY BenchFollowing DEF BenchPaths, BenchState
  <1> HIDE DEF q
  <1>3. q \in IF r = 0 THEN BenchTarget ELSE BenchDraft
    BY <1>1, <1>2 DEF BenchTarget, BenchDraft, Before, Gpu, Ended
  <1>4. ~posted[r] /\ Now(r) = 0 /\ Now(r)' = 0
    <2>1. ~posted[r]
      BY <1>1 DEF BenchState, PostedOK, Collectives, Barriers, Timings
    <2> QED BY <1>1, <2>1 DEF Now
  <1>5. BenchEntered(pc[r], turn[r]) + Now(r) = BenchEntered(q, turn'[r]) + Now(r)'
    BY <1>1, <1>2, <1>4
       DEF BenchEntered, GpuEntered, Before, Gpu, ToTarget, ToDraft, Timings
  <1>6. BenchTurn(q, turn'[r])
    <2>1. BenchTurns
      BY DEF BenchState, BenchInv
    <2> QED BY <1>1, <1>2, <2>1 DEF BenchTurns, BenchTurn, Before, Gpu, ToTarget, ToDraft
  <1>7. BenchGate'
    <2>1. Now(0)' = Now(0) /\ Now(1)' = Now(1)
      <3>1. Now(r)' = Now(r)
        BY <1>4
      <3>2. Now(1 - r)' = Now(1 - r)
        BY <1>1, BenchFacts DEF Now
      <3> QED BY <3>1, <3>2
    <2>2. pc'[1] \in Ended <=> pc[1] \in Ended
      BY <1>1, <1>2, BenchFacts DEF Ended, Timings
    <2> QED BY <1>1, <2>1, <2>2, BenchGateSame
  <1>8. (r = 0 => TargetKept) /\ (r = 1 => DraftKept)
    <2>1. \/ pc[r] \in Before /\ q \in Before
          \/ pc[r] \in Ended \cup {"end_barrier"} /\ q \in Ended \cup {"end_barrier"}
      BY <1>1, <1>2 DEF Before, Gpu, Ended
    <2> QED BY <1>1, <2>1, BenchOutside
  <1>9. q \notin {"send_result", "recv_logits", "sample_to_target", "sample_to_draft", "send_ids",
                 "send_logits"}
    BY <1>1, <1>2
  <1> QED BY <1>1, <1>3, <1>5, <1>6, <1>7, <1>8, <1>9, BenchQuiet

LEMMA BenchFor ==
    ASSUME BenchState, NEW r \in Ranks, NEW p \in Loops, For(r, p) PROVE BenchAgain'
  <1> USE DEF TARGET_RANK, DRAFT_RANK, Ranks
  <1>1. BenchLabels /\ BenchTurns
    BY DEF BenchState, BenchInv
  <1>2. p \in {"to_target", "to_draft"} /\ pc[r] = p
    <2>1. pc[0] \in BenchTarget /\ pc[1] \in BenchDraft /\ pc[r] = p
      BY <1>1 DEF BenchLabels, For, At
    <2> QED BY <2>1 DEF Loops, BenchTarget, BenchDraft, Before, Gpu, ToTarget, ToDraft, Ended, Timings
  <1> DEFINE more == turn[r] < N
             first == IF p = "to_draft" THEN "make_result" ELSE IF r = 0 THEN "recv_ids" ELSE "make_payload"
             after == IF p = "to_target" THEN "to_draft" ELSE "end_barrier"
             q == IF more THEN first ELSE after
             u == IF more THEN turn[r] + 1 ELSE 0
  <1>3. /\ pc' = [pc EXCEPT ![r] = q] /\ turn' = [turn EXCEPT ![r] = u]
        /\ UNCHANGED <<launch, posted, job, entered, net, exit, data>>
    BY <1>2 DEF For, At, Turns, FirstOf, AfterLoop, N
  <1>4. /\ turn[r] \in Nat /\ turn[r] <= N /\ (~more => turn[r] = N) /\ turn'[r] = u
        /\ turn'[1 - r] = turn[1 - r] /\ pc'[r] = q
    <2>1. turn[r] \in Nat /\ turn[r] <= N /\ N \in Nat
      BY <1>1, BenchFacts DEF BenchTurns
    <2>2. ~more => turn[r] = N
      BY <2>1
    <2>3. pc \in [Ranks -> Operations] /\ turn \in [Ranks -> Nat] /\ 1 - r \in Ranks /\ 1 - r # r
      BY BenchFacts
    <2> HIDE DEF q, u
    <2>4. turn'[r] = u /\ turn'[1 - r] = turn[1 - r] /\ pc'[r] = q
      BY <1>3, <2>3
    <2> QED BY <2>1, <2>2, <2>4
  <1>5. q \in (IF r = 0 THEN BenchTarget ELSE BenchDraft)
    BY DEF BenchTarget, BenchDraft, Before, Gpu, ToTarget, ToDraft, Ended
  <1>6. ~posted[r] /\ Now(r) = 0 /\ Now(r)' = 0
    <2>1. ~posted[r]
      BY <1>2 DEF BenchState, PostedOK, Collectives, Barriers, Timings
    <2> QED BY <1>3, <2>1 DEF Now
  <1>7. BenchEntered(pc[r], turn[r]) + Now(r) = BenchEntered(q, turn'[r]) + Now(r)'
    <2>1. turn[r] \in Nat /\ N \in Nat
      BY BenchFacts
    <2>2. CASE p = "to_target" /\ more
      <3>1. q \in ToTarget \ {"to_target"} /\ turn'[r] = turn[r] + 1
        BY <1>4, <2>2 DEF ToTarget
      <3>2. BenchEntered(q, turn'[r]) = 3 + (turn'[r] - 1) /\ BenchEntered(p, turn[r]) = 3 + turn[r]
        BY <2>2, <3>1, BenchEnteredOps
      <3> HIDE DEF q
      <3> QED BY <1>2, <1>6, <2>1, <3>1, <3>2
    <2>3. CASE p = "to_target" /\ ~more
      <3>1. q = "to_draft" /\ turn'[r] = 0 /\ turn[r] = N
        BY <1>4, <2>3
      <3>2. BenchEntered(q, turn'[r]) = 3 + N + turn'[r] /\ BenchEntered(p, turn[r]) = 3 + turn[r]
        BY <2>3, <3>1, BenchEnteredOps
      <3> HIDE DEF q
      <3> QED BY <1>2, <1>6, <2>1, <3>1, <3>2
    <2>4. CASE p = "to_draft" /\ more
      <3>1. q \in ToDraft \ {"to_draft"} /\ turn'[r] = turn[r] + 1
        BY <1>4, <2>4 DEF ToDraft
      <3>2. BenchEntered(q, turn'[r]) = 3 + N + (turn'[r] - 1) /\ BenchEntered(p, turn[r]) = 3 + N + turn[r]
        BY <2>4, <3>1, BenchEnteredOps
      <3> HIDE DEF q
      <3> QED BY <1>2, <1>6, <2>1, <3>1, <3>2
    <2>5. CASE p = "to_draft" /\ ~more
      <3>1. q = "end_barrier" /\ turn'[r] = 0 /\ turn[r] = N
        BY <1>4, <2>5
      <3>2. BenchEntered(q, turn'[r]) = 3 + N + N /\ BenchEntered(p, turn[r]) = 3 + N + turn[r]
        BY <2>5, <3>1, BenchEnteredOps
      <3> HIDE DEF q
      <3> QED BY <1>2, <1>6, <2>1, <3>1, <3>2
    <2> QED BY <1>2, <2>2, <2>3, <2>4, <2>5
  <1>8. BenchTurn(q, turn'[r])
    <2>1. N \in Nat
      BY BenchFacts
    <2>2. turn'[r] \in Nat /\ turn'[r] <= N /\ (more => turn'[r] >= 1)
      BY <1>4, <2>1
    <2>3. q \notin Before
      BY DEF Before, Gpu
    <2>4. q \notin {"to_target", "to_draft"} => more \/ q = "end_barrier"
      OBVIOUS
    <2>5. "end_barrier" \notin ToTarget \cup ToDraft
      BY DEF ToTarget, ToDraft
    <2> HIDE DEF q, more, u
    <2> QED BY <2>2, <2>3, <2>4, <2>5 DEF BenchTurn
  <1>9. BenchGate'
    <2>1. Now(0)' = Now(0) /\ Now(1)' = Now(1)
      <3>1. Now(r)' = Now(r)
        BY <1>6
      <3>2. Now(1 - r)' = Now(1 - r)
        BY <1>3, BenchFacts DEF Now
      <3> QED BY <3>1, <3>2
    <2>2. pc'[1] \in Ended <=> pc[1] \in Ended
      BY <1>2, <1>3, BenchFacts DEF Ended, Timings
    <2> QED BY <1>3, <2>1, <2>2, BenchGateSame
  <1>12. /\ r = 0 => TargetKept
         /\ r = 1 => DraftKept
    <2>1. N' = N /\ N \in Nat
      BY <1>3, BenchFacts DEF N
    <2>2. r = 0 => TargetKept
      <3> SUFFICES ASSUME r = 0 PROVE TargetKept
        OBVIOUS
      <3>0. turn[0] \in Nat /\ pc[0] = p
        BY <1>2, BenchFacts
      <3>1. CASE p = "to_target" /\ more
        <4>1. pc[0] = "to_target" /\ pc'[0] = "recv_ids" /\ turn'[0] = turn[0] + 1
          BY <1>2, <1>4, <3>1
        <4> HIDE DEF q, more, first, after, u
        <4> QED BY <2>1, <3>0, <4>1
            DEF TargetKept, DraftKept, BenchIdsTaken, BenchLogitsTaken, BenchResultsOut, BenchIdsOut,
               BenchLogitsOut, BenchResultsTaken, Past1, Past2, Sent1, Sent2, Before, Gpu, ToTarget, ToDraft
      <3>2. CASE p = "to_target" /\ ~more
        <4>1. pc[0] = "to_target" /\ pc'[0] = "to_draft" /\ turn'[0] = 0 /\ turn[0] = N
          BY <1>2, <1>4, <3>2
        <4> HIDE DEF q, more, first, after, u
        <4> QED BY <2>1, <3>0, <4>1
            DEF TargetKept, DraftKept, BenchIdsTaken, BenchLogitsTaken, BenchResultsOut, BenchIdsOut,
               BenchLogitsOut, BenchResultsTaken, Past1, Past2, Sent1, Sent2, Before, Gpu, ToTarget, ToDraft
      <3>3. CASE p = "to_draft" /\ more
        <4>1. pc[0] = "to_draft" /\ pc'[0] = "make_result" /\ turn'[0] = turn[0] + 1
          BY <1>2, <1>4, <3>3
        <4> HIDE DEF q, more, first, after, u
        <4> QED BY <2>1, <3>0, <4>1
            DEF TargetKept, DraftKept, BenchIdsTaken, BenchLogitsTaken, BenchResultsOut, BenchIdsOut,
               BenchLogitsOut, BenchResultsTaken, Past1, Past2, Sent1, Sent2, Before, Gpu, ToTarget, ToDraft
      <3>4. CASE p = "to_draft" /\ ~more
        <4>1. pc[0] = "to_draft" /\ pc'[0] = "end_barrier" /\ turn'[0] = 0 /\ turn[0] = N
          BY <1>2, <1>4, <3>4
        <4> HIDE DEF q, more, first, after, u
        <4> QED BY <2>1, <3>0, <4>1
            DEF TargetKept, DraftKept, BenchIdsTaken, BenchLogitsTaken, BenchResultsOut, BenchIdsOut,
               BenchLogitsOut, BenchResultsTaken, Past1, Past2, Sent1, Sent2, Before, Gpu, ToTarget, ToDraft
      <3> QED BY <1>2, <3>1, <3>2, <3>3, <3>4
    <2>3. r = 1 => DraftKept
      <3> SUFFICES ASSUME r = 1 PROVE DraftKept
        OBVIOUS
      <3>0. turn[1] \in Nat /\ pc[1] = p
        BY <1>2, BenchFacts
      <3>1. CASE p = "to_target" /\ more
        <4>1. pc[1] = "to_target" /\ pc'[1] = "make_payload" /\ turn'[1] = turn[1] + 1
          BY <1>2, <1>4, <3>1
        <4> HIDE DEF q, more, first, after, u
        <4> QED BY <2>1, <3>0, <4>1
            DEF TargetKept, DraftKept, BenchIdsTaken, BenchLogitsTaken, BenchResultsOut, BenchIdsOut,
               BenchLogitsOut, BenchResultsTaken, Past1, Past2, Sent1, Sent2, Before, Gpu, ToTarget, ToDraft
      <3>2. CASE p = "to_target" /\ ~more
        <4>1. pc[1] = "to_target" /\ pc'[1] = "to_draft" /\ turn'[1] = 0 /\ turn[1] = N
          BY <1>2, <1>4, <3>2
        <4> HIDE DEF q, more, first, after, u
        <4> QED BY <2>1, <3>0, <4>1
            DEF TargetKept, DraftKept, BenchIdsTaken, BenchLogitsTaken, BenchResultsOut, BenchIdsOut,
               BenchLogitsOut, BenchResultsTaken, Past1, Past2, Sent1, Sent2, Before, Gpu, ToTarget, ToDraft
      <3>3. CASE p = "to_draft" /\ more
        <4>1. pc[1] = "to_draft" /\ pc'[1] = "make_result" /\ turn'[1] = turn[1] + 1
          BY <1>2, <1>4, <3>3
        <4> HIDE DEF q, more, first, after, u
        <4> QED BY <2>1, <3>0, <4>1
            DEF TargetKept, DraftKept, BenchIdsTaken, BenchLogitsTaken, BenchResultsOut, BenchIdsOut,
               BenchLogitsOut, BenchResultsTaken, Past1, Past2, Sent1, Sent2, Before, Gpu, ToTarget, ToDraft
      <3>4. CASE p = "to_draft" /\ ~more
        <4>1. pc[1] = "to_draft" /\ pc'[1] = "end_barrier" /\ turn'[1] = 0 /\ turn[1] = N
          BY <1>2, <1>4, <3>4
        <4> HIDE DEF q, more, first, after, u
        <4> QED BY <2>1, <3>0, <4>1
            DEF TargetKept, DraftKept, BenchIdsTaken, BenchLogitsTaken, BenchResultsOut, BenchIdsOut,
               BenchLogitsOut, BenchResultsTaken, Past1, Past2, Sent1, Sent2, Before, Gpu, ToTarget, ToDraft
      <3> QED BY <1>2, <3>1, <3>2, <3>3, <3>4
    <2> QED BY <2>2, <2>3
  <1>13. q \notin {"send_result", "recv_logits", "sample_to_target", "sample_to_draft", "send_ids",
                  "send_logits"}
    OBVIOUS
  <1> HIDE DEF q
  <1> QED BY <1>3, <1>4, <1>5, <1>7, <1>8, <1>9, <1>12, <1>13, BenchQuiet

LEMMA BenchLeaveCollective ==
    ASSUME BenchState, NEW r \in Ranks, LeaveCollective(r) PROVE BenchAgain'
  <1> USE DEF TARGET_RANK, DRAFT_RANK, Ranks
  <1>1. BenchLabels /\ BenchTurns /\ BenchCollectives /\ BenchGate
    BY DEF BenchState, BenchInv
  <1> DEFINE q == Following(pc[r], r)
  <1>2. /\ pc[r] \in Collectives /\ posted[r] /\ posted' = [posted EXCEPT ![r] = FALSE]
        /\ pc' = [pc EXCEPT ![r] = q]
        /\ UNCHANGED <<launch, turn, job, entered, net, exit, data>>
    BY DEF LeaveCollective, Returns, Continue
  <1>3. pc[r] \in {"bind_barrier", "device", "distinct_barrier", "to_target_barrier",
                   "to_draft_barrier", "end_barrier"} \cup Timings
    BY <1>1, <1>2 DEF BenchLabels, BenchTarget, BenchDraft, Before, Gpu, ToTarget, ToDraft, Ended,
                      Collectives, Barriers, Timings
  <1>4. /\ pc[r] = "bind_barrier" => q = "device"
        /\ pc[r] = "device" => q = "distinct"
        /\ pc[r] = "distinct_barrier" => q = "to_target"
        /\ pc[r] = "to_target_barrier" => q = "to_target"
        /\ pc[r] = "to_draft_barrier" => q = "to_draft"
        /\ pc[r] = "end_barrier" => q = "draft_d2h"
        /\ pc[r] = "draft_d2h" => q = "draft_mpi"
        /\ pc[r] = "draft_mpi" => q = "target_mpi"
        /\ pc[r] = "target_mpi" => q = "target_h2d"
        /\ pc[r] = "target_h2d" => q = "target_send"
        /\ pc[r] = "target_send" => q = "draft_recv"
        /\ pc[r] = "draft_recv" => q = IF r = 0 THEN "summarise" ELSE "return"
    BY BenchFollowing DEF BenchPaths, BenchState
  <1> HIDE DEF q
  <1>5. q \in IF r = 0 THEN BenchTarget ELSE BenchDraft
    BY <1>1, <1>3, <1>4 DEF BenchTarget, BenchDraft, Before, Gpu, ToTarget, ToDraft, Ended, Timings
  <1>6. /\ posted'[1 - r] = posted[1 - r] /\ turn'[1 - r] = turn[1 - r] /\ ~posted'[r]
        /\ pc'[r] = q /\ pc'[1 - r] = pc[1 - r] /\ Now(r) = 1 /\ Now(r)' = 0 /\ turn'[r] = turn[r]
    <2>1. 1 - r \in Ranks /\ 1 - r # r
      OBVIOUS
    <2>2. posted'[1 - r] = posted[1 - r] /\ ~posted'[r] /\ pc'[r] = q /\ pc'[1 - r] = pc[1 - r]
      BY <1>2, <2>1, BenchFacts
    <2> QED BY <1>2, <2>2 DEF Now
  <1>7. BenchEntered(pc[r], turn[r]) + Now(r) = BenchEntered(q, turn'[r]) + Now(r)'
    <2>1. turn[r] \in Nat /\ N \in Nat
      BY BenchFacts
    <2>2. "to_target_barrier" \in ToTarget \ {"to_target"} /\ "to_draft_barrier" \in ToDraft \ {"to_draft"}
      BY DEF ToTarget, ToDraft
    <2>3. CASE pc[r] \in {"bind_barrier", "device", "distinct_barrier"}
      <3>1. pc[r] = "bind_barrier" => BenchEntered(pc[r], turn[r]) = 0 /\ BenchEntered(q, turn'[r]) = 1
        BY <1>4, BenchEnteredOps
      <3>2. pc[r] = "device" => BenchEntered(pc[r], turn[r]) = 1 /\ BenchEntered(q, turn'[r]) = 2
        BY <1>4, BenchEnteredOps
      <3>3. pc[r] = "distinct_barrier" =>
                BenchEntered(pc[r], turn[r]) = 2 /\ BenchEntered(q, turn'[r]) = 3 + 0
        <4>1. pc[r] = "distinct_barrier" => turn[r] = 0
          BY <1>1 DEF BenchTurns, Before, Gpu
        <4> QED BY <1>4, <1>6, <4>1, BenchEnteredOps
      <3> QED BY <1>6, <2>3, <3>1, <3>2, <3>3
    <2>4. CASE pc[r] \in {"to_target_barrier", "to_draft_barrier"}
      <3>1. pc[r] = "to_target_barrier" =>
                /\ BenchEntered(pc[r], turn[r]) = 3 + (turn[r] - 1)
                /\ BenchEntered(q, turn'[r]) = 3 + turn[r]
        BY <1>4, <1>6, <2>2, BenchEnteredOps
      <3>2. pc[r] = "to_draft_barrier" =>
                /\ BenchEntered(pc[r], turn[r]) = 3 + N + (turn[r] - 1)
                /\ BenchEntered(q, turn'[r]) = 3 + N + turn[r]
        BY <1>4, <1>6, <2>2, BenchEnteredOps
      <3> QED BY <1>6, <2>1, <2>4, <3>1, <3>2
    <2>5. CASE pc[r] \in {"end_barrier", "draft_d2h"}
      BY <1>4, <1>6, <2>1, <2>5, BenchEnteredOps
    <2>6. CASE pc[r] \in {"draft_mpi", "target_mpi"}
      BY <1>4, <1>6, <2>1, <2>6, BenchEnteredOps
    <2>7. CASE pc[r] \in {"target_h2d", "target_send"}
      BY <1>4, <1>6, <2>1, <2>7, BenchEnteredOps
    <2>8. CASE pc[r] = "draft_recv"
      <3>1. q = "summarise" \/ q = "return"
        BY <1>4, <2>8
      <3>2. BenchEntered(pc[r], turn[r]) = 4 + N + N + 5 /\ BenchEntered(q, turn'[r]) = 10 + N + N
        BY <2>8, <3>1, BenchEnteredOps
      <3> QED BY <1>6, <2>1, <3>2
    <2> QED BY <1>3, <2>3, <2>4, <2>5, <2>6, <2>7, <2>8 DEF Timings
  <1>8. BenchTurn(q, turn'[r])
    BY <1>1, <1>3, <1>4, <1>6 DEF BenchTurns, BenchTurn, Before, Gpu, ToTarget, ToDraft, Timings
  <1>9. BenchGate'
    <2>1. Now(1 - r)' = Now(1 - r) /\ N' = N
      BY <1>2, <1>6 DEF Now, N
    <2>2. r = 0 => Len(entered[0]) <= Len(entered[1])
      BY BenchFacts DEF LeaveCollective, OnlyContributes, Other
    <2>3. r = 1 /\ pc[1] \notin Timings => Len(entered[1]) <= Len(entered[0])
      <3>1. pc[1] # "prefix"
        BY <1>1 DEF BenchLabels, BenchDraft, Before, Gpu, ToTarget, ToDraft, Ended, Timings
      <3> QED BY <3>1, BenchFacts DEF LeaveCollective, OnlyContributes, Other
    <2>4. r = 1 /\ pc[1] \in Timings => pc[1] \in Ended /\ q \in Ended
      BY <1>4 DEF Ended, Timings
    <2>5. r = 1 /\ pc[1] = "end_barrier" => Len(entered[1]) = 4 + N + N /\ q \in Ended
      <3>1. r = 1 /\ pc[1] = "end_barrier" => q \in Ended
        BY <1>4 DEF Ended, Timings
      <3>2. pc[1] = "end_barrier" => BenchEntered(pc[1], turn[1]) = 3 + N + N
        BY DEF BenchEntered, Before, Gpu, ToTarget, ToDraft
      <3>3. Len(entered[1]) = BenchEntered(pc[1], turn[1]) + Now(1)
        BY <1>1 DEF BenchCollectives
      <3>4. N \in Nat
        BY BenchFacts
      <3>5. r = 1 /\ pc[1] = "end_barrier" => Len(entered[1]) = 4 + N + N
        BY <1>6, <3>2, <3>3, <3>4
      <3> QED BY <3>1, <3>5
    <2>6. r = 1 /\ pc[1] \notin Timings \cup {"end_barrier"} => q \notin Ended
      BY <1>3, <1>4 DEF Ended, Timings
    <2>7. CASE r = 0
      <3>1. /\ entered' = entered /\ pc'[1] = pc[1] /\ N' = N /\ Now(1)' = Now(1) /\ Now(0)' = 0
            /\ Len(entered[0]) <= Len(entered[1]) /\ Len(entered[0]) \in Nat
        BY <1>2, <1>6, <2>1, <2>2, <2>7, BenchFacts
      <3>2. Len(entered'[0]) - Now(0)' <= Len(entered'[1])
        BY <3>1
      <3>3. /\ pc'[1] \notin Ended => Len(entered'[1]) - Now(1)' <= Len(entered'[0])
            /\ pc'[1] \in Ended => 4 + N' + N' <= Len(entered'[0])
        BY <1>1, <3>1 DEF BenchGate
      <3> QED BY <3>2, <3>3 DEF BenchGate
    <2>8. CASE r = 1
      <3>1. Len(entered'[0]) - Now(0)' <= Len(entered'[1])
        BY <1>1, <1>2, <2>1, <2>8 DEF BenchGate
      <3>2. pc'[1] = q
        BY <1>6, <2>8
      <3>3. q \notin Ended => Len(entered'[1]) - Now(1)' <= Len(entered'[0])
        <4>1. q \notin Ended => Len(entered[1]) <= Len(entered[0])
          BY <2>3, <2>4, <2>8
        <4> QED BY <1>2, <1>6, <2>8, <4>1, BenchFacts
      <3>4. q \in Ended => 4 + N + N <= Len(entered'[0])
        <4>1. CASE pc[1] = "end_barrier"
          <5>1. "end_barrier" \notin Timings
            BY DEF Timings
          <5> QED BY <1>2, <2>3, <2>5, <2>8, <4>1, <5>1
        <4>2. CASE pc[1] \in Timings
          BY <1>1, <1>2, <2>4, <2>8, <4>2 DEF BenchGate
        <4> QED BY <2>6, <2>8, <4>1, <4>2
      <3> QED BY <2>1, <3>1, <3>2, <3>3, <3>4 DEF BenchGate
    <2> QED BY <2>7, <2>8
  <1>10. (r = 0 => TargetKept) /\ (r = 1 => DraftKept)
    <2>1. CASE \/ pc[r] \in Before /\ q \in Before
               \/ pc[r] \in Ended \cup {"end_barrier"} /\ q \in Ended \cup {"end_barrier"}
      BY <1>2, <2>1, BenchOutside
    <2>2. CASE pc[r] \in {"distinct_barrier", "to_target_barrier", "to_draft_barrier"}
      <3>1. /\ turn[r] \in Nat /\ N \in Nat /\ N' = N /\ turn'[r] = turn[r] /\ pc'[r] = q /\ ~posted'[r]
            /\ pc[r] = "distinct_barrier" => turn[r] = 0
        BY <1>1, <1>2, <1>6, BenchFacts DEF BenchTurns, Before, Gpu, N
      <3>2. CASE r = 0
        <4>1. CASE pc[0] = "distinct_barrier"
          BY <1>4, <3>1, <3>2, <4>1
             DEF TargetKept, BenchIdsTaken, BenchLogitsTaken, BenchResultsOut, Past1, Past2, Sent1,
                 Sent2, Before, Gpu, ToTarget, ToDraft
        <4>2. CASE pc[0] \in {"to_target_barrier", "to_draft_barrier"}
          BY <1>4, <3>1, <3>2, <4>2
             DEF TargetKept, BenchIdsTaken, BenchLogitsTaken, BenchResultsOut, Past1, Past2, Sent1,
                 Sent2, Before, Gpu, ToTarget, ToDraft
        <4> QED BY <2>2, <3>2, <4>1, <4>2
      <3>3. CASE r = 1
        <4>1. CASE pc[1] = "distinct_barrier"
          BY <1>4, <3>1, <3>3, <4>1
             DEF DraftKept, BenchIdsOut, BenchLogitsOut, BenchResultsTaken, Past1, Past2, Sent1,
                 Sent2, Before, Gpu, ToTarget, ToDraft
        <4>2. CASE pc[1] \in {"to_target_barrier", "to_draft_barrier"}
          BY <1>4, <3>1, <3>3, <4>2
             DEF DraftKept, BenchIdsOut, BenchLogitsOut, BenchResultsTaken, Past1, Past2, Sent1,
                 Sent2, Before, Gpu, ToTarget, ToDraft
        <4> QED BY <2>2, <3>3, <4>1, <4>2
      <3> QED BY <3>2, <3>3
    <2> QED BY <1>3, <1>4, <2>1, <2>2 DEF Before, Gpu, Ended, Timings
  <1>11. q \notin {"send_result", "recv_logits", "sample_to_target", "sample_to_draft", "send_ids",
                   "send_logits"}
    BY <1>3, <1>4 DEF Timings
  <1> QED BY <1>2, <1>5, <1>6, <1>7, <1>8, <1>9, <1>10, <1>11, BenchQuiet

\* At an operation of the loops the collectives entered tell the turn.
LEMMA BenchSent1 ==
    ASSUME BenchState, NEW r \in Ranks, NEW h \in BOOLEAN,
           pc[r] \in {"to_target", "to_target_barrier"} => ~h
    PROVE  /\ Sent1(pc[r], turn[r], h) \in Nat /\ Sent1(pc[r], turn[r], h) <= N
           /\ \/ Sent1(pc[r], turn[r], h) >= Len(entered[r]) - 3
              \/ Sent1(pc[r], turn[r], h) = N
           /\ \/ Sent1(pc[r], turn[r], h) <= (Len(entered[r]) - Now(r)) - 2
              \/ Sent1(pc[r], turn[r], h) = 0
           /\ pc[r] \in Ended => Sent1(pc[r], turn[r], h) = N
  <1> USE DEF TARGET_RANK, DRAFT_RANK, Ranks
  <1>1. /\ Len(entered[r]) = BenchEntered(pc[r], turn[r]) + Now(r)
        /\ turn[r] \in Nat /\ turn[r] <= N /\ N \in Nat /\ Now(r) \in {0, 1}
        /\ pc[r] \in ToTarget \ {"to_target"} => turn[r] >= 1
        /\ pc[r] \in ToDraft \ {"to_draft"} => turn[r] >= 1
        /\ pc[r] \in (IF r = 0 THEN BenchTarget ELSE BenchDraft)
    BY BenchFacts DEF BenchState, BenchInv, BenchCollectives, BenchTurns, BenchLabels, ToTarget, ToDraft
  <1>2. CASE pc[r] \in Before
    <2>1. GpuEntered(pc[r]) + Now(r) <= 3 /\ GpuEntered(pc[r]) >= 0
      BY <1>1, <1>2 DEF GpuEntered
    <2>2. BenchEntered(pc[r], turn[r]) = GpuEntered(pc[r])
      BY <1>2 DEF BenchEntered
    <2>3. Sent1(pc[r], turn[r], h) = 0 /\ pc[r] \notin Ended
      BY <1>2 DEF Sent1, Before, Gpu, Ended, Timings
    <2> DEFINE e == Len(entered[r])  g == GpuEntered(pc[r])  w == Now(r)
    <2>4. e = g + w /\ g \in Int /\ w \in {0, 1} /\ g + w <= 3 /\ g >= 0
      <3>1. g \in Int
        BY DEF GpuEntered
      <3> QED BY <1>1, <2>1, <2>2, <3>1
    <2> HIDE DEF e, g, w
    <2>5. 0 >= e - 3
      BY <2>4
    <2> QED BY <1>1, <2>3, <2>5 DEF e
  <1>3. CASE pc[r] \in ToTarget
    <2>1. pc[r] \notin Before /\ pc[r] \notin Ended
      BY <1>3 DEF ToTarget, Before, Gpu, Ended, Timings
    <2>2. Now(r) = 1 => pc[r] = "to_target_barrier"
      BY <1>3 DEF Now, ToTarget, Collectives, Barriers, Timings
    <2>3. BenchEntered(pc[r], turn[r]) = 3 + (IF pc[r] = "to_target" THEN turn[r] ELSE turn[r] - 1)
      BY <1>3, <2>1 DEF BenchEntered
    <2>4. Sent1(pc[r], turn[r], h) = IF h THEN turn[r] - 1 ELSE turn[r]
      BY <1>3, <2>1 DEF Sent1
    <2> DEFINE e == Len(entered[r])  w == Now(r)  t == turn[r]  z == Sent1(pc[r], turn[r], h)
               b == BenchEntered(pc[r], turn[r])
    <2>5. e = b + w /\ t \in Nat /\ t <= N /\ N \in Nat /\ w \in {0, 1}
      BY <1>1
    <2>6. pc[r] # "to_target" => t >= 1 /\ b = 3 + (t - 1)
      BY <1>1, <1>3, <2>3
    <2>7. pc[r] = "to_target" => b = 3 + t /\ z = t /\ w = 0
      BY <1>1, <2>2, <2>3, <2>4
    <2>8. pc[r] # "to_target" => z = t \/ (z = t - 1 /\ w = 0)
      BY <1>1, <2>2, <2>4
    <2> HIDE DEF e, w, t, z, b
    <2>9. z \in Nat /\ z <= N
      BY <2>5, <2>6, <2>7, <2>8
    <2>10. z >= e - 3
      BY <2>5, <2>6, <2>7, <2>8
    <2>11. z <= (e - w) - 2
      BY <2>5, <2>6, <2>7, <2>8
    <2> QED BY <2>1, <2>9, <2>10, <2>11 DEF e, w, z
  <1>4. CASE pc[r] \notin Before \cup ToTarget
    <2>1. Sent1(pc[r], turn[r], h) = N
      BY <1>4 DEF Sent1
    <2>2. BenchEntered(pc[r], turn[r]) \in Int /\ BenchEntered(pc[r], turn[r]) >= 3 + N
      BY <1>1, <1>4, BenchEnteredLate
    <2> DEFINE e == Len(entered[r])  w == Now(r)  b == BenchEntered(pc[r], turn[r])
    <2>3. e = b + w /\ N \in Nat /\ w \in {0, 1} /\ b >= 3 + N /\ b \in Int
      BY <1>1, <2>2
    <2> HIDE DEF e, w, b
    <2>4. N <= (e - w) - 2
      BY <2>3
    <2> QED BY <1>1, <2>1, <2>4 DEF e, w
  <1> QED BY <1>2, <1>3, <1>4

LEMMA BenchSent2 ==
    ASSUME BenchState, NEW r \in Ranks, NEW h \in BOOLEAN,
           pc[r] \in {"to_draft", "to_draft_barrier"} => ~h
    PROVE  /\ Sent2(pc[r], turn[r], h) \in Nat /\ Sent2(pc[r], turn[r], h) <= N
           /\ \/ Sent2(pc[r], turn[r], h) >= (Len(entered[r]) - 3) - N
              \/ Sent2(pc[r], turn[r], h) = N
           /\ \/ Sent2(pc[r], turn[r], h) <= ((Len(entered[r]) - Now(r)) - 2) - N
              \/ Sent2(pc[r], turn[r], h) = 0
           /\ pc[r] \in Ended => Sent2(pc[r], turn[r], h) = N
  <1> USE DEF TARGET_RANK, DRAFT_RANK, Ranks
  <1>1. /\ Len(entered[r]) = BenchEntered(pc[r], turn[r]) + Now(r)
        /\ turn[r] \in Nat /\ turn[r] <= N /\ N \in Nat /\ Now(r) \in {0, 1}
        /\ pc[r] \in ToTarget \ {"to_target"} => turn[r] >= 1
        /\ pc[r] \in ToDraft \ {"to_draft"} => turn[r] >= 1
        /\ pc[r] \in (IF r = 0 THEN BenchTarget ELSE BenchDraft)
    BY BenchFacts DEF BenchState, BenchInv, BenchCollectives, BenchTurns, BenchLabels, ToTarget, ToDraft
  <1>2. CASE pc[r] \in Before
    <2>1. GpuEntered(pc[r]) + Now(r) <= 3 /\ GpuEntered(pc[r]) >= 0
      BY <1>1, <1>2 DEF GpuEntered
    <2>2. BenchEntered(pc[r], turn[r]) = GpuEntered(pc[r])
      BY <1>2 DEF BenchEntered
    <2>3. Sent2(pc[r], turn[r], h) = 0 /\ pc[r] \notin Ended
      BY <1>2 DEF Sent2, Before, Gpu, Ended, Timings
    <2> DEFINE e == Len(entered[r])  g == GpuEntered(pc[r])  w == Now(r)
    <2>4. e = g + w /\ g \in Int /\ w \in {0, 1} /\ g + w <= 3 /\ g >= 0 /\ N \in Nat
      <3>1. g \in Int
        BY DEF GpuEntered
      <3> QED BY <1>1, <2>1, <2>2, <3>1
    <2> HIDE DEF e, g, w
    <2>5. 0 >= (e - 3) - N
      BY <2>4
    <2> QED BY <1>1, <2>3, <2>5 DEF e
  <1>3. CASE pc[r] \in ToTarget
    <2>1. pc[r] \notin Before /\ pc[r] \notin Ended
      BY <1>3 DEF ToTarget, Before, Gpu, Ended, Timings
    <2>2. Now(r) = 1 => pc[r] = "to_target_barrier"
      BY <1>3 DEF Now, ToTarget, Collectives, Barriers, Timings
    <2>3. BenchEntered(pc[r], turn[r]) = 3 + (IF pc[r] = "to_target" THEN turn[r] ELSE turn[r] - 1)
      BY <1>3, <2>1 DEF BenchEntered
    <2>4. Sent2(pc[r], turn[r], h) = 0
      BY <1>3 DEF Sent2
    <2> DEFINE e == Len(entered[r])  w == Now(r)  t == turn[r]  b == BenchEntered(pc[r], turn[r])
    <2>5. e = b + w /\ t \in Nat /\ t <= N /\ N \in Nat /\ w \in {0, 1}
      BY <1>1
    <2>6. (b = 3 + t /\ w = 0) \/ b = 3 + (t - 1)
      BY <1>1, <2>2, <2>3
    <2> HIDE DEF e, w, t, b
    <2>7. 0 >= (e - 3) - N
      BY <2>5, <2>6
    <2> QED BY <1>1, <2>1, <2>4, <2>7 DEF e
  <1>4. CASE pc[r] \in ToDraft
    <2>1. pc[r] \notin Before \cup ToTarget /\ pc[r] \notin Ended
      BY <1>4 DEF ToDraft, ToTarget, Before, Gpu, Ended, Timings
    <2>2. Now(r) = 1 => pc[r] = "to_draft_barrier"
      BY <1>4 DEF Now, ToDraft, Collectives, Barriers, Timings
    <2>3. BenchEntered(pc[r], turn[r]) = 3 + N + (IF pc[r] = "to_draft" THEN turn[r] ELSE turn[r] - 1)
      BY <1>4, <2>1 DEF BenchEntered
    <2>4. Sent2(pc[r], turn[r], h) = IF h THEN turn[r] - 1 ELSE turn[r]
      BY <1>4, <2>1 DEF Sent2
    <2> DEFINE e == Len(entered[r])  w == Now(r)  t == turn[r]  z == Sent2(pc[r], turn[r], h)
               b == BenchEntered(pc[r], turn[r])
    <2>5. e = b + w /\ t \in Nat /\ t <= N /\ N \in Nat /\ w \in {0, 1}
      BY <1>1
    <2>6. pc[r] # "to_draft" => t >= 1 /\ b = 3 + N + (t - 1)
      BY <1>1, <1>4, <2>3
    <2>7. pc[r] = "to_draft" => b = 3 + N + t /\ z = t /\ w = 0
      BY <1>1, <2>2, <2>3, <2>4
    <2>8. pc[r] # "to_draft" => z = t \/ (z = t - 1 /\ w = 0)
      BY <1>1, <2>2, <2>4
    <2> HIDE DEF e, w, t, z, b
    <2>9. z \in Nat /\ z <= N
      BY <2>5, <2>6, <2>7, <2>8
    <2>10. z >= (e - 3) - N
      BY <2>5, <2>6, <2>7, <2>8
    <2>11. z <= ((e - w) - 2) - N
      BY <2>5, <2>6, <2>7, <2>8
    <2> QED BY <2>1, <2>9, <2>10, <2>11 DEF e, w, z
  <1>5. CASE pc[r] \notin Before \cup ToTarget \cup ToDraft
    <2>1. Sent2(pc[r], turn[r], h) = N
      BY <1>5 DEF Sent2
    <2>2. BenchEntered(pc[r], turn[r]) \in Int /\ BenchEntered(pc[r], turn[r]) >= 3 + N + N
      BY <1>1, <1>5, BenchEnteredLate
    <2> DEFINE e == Len(entered[r])  w == Now(r)  b == BenchEntered(pc[r], turn[r])
    <2>3. e = b + w /\ N \in Nat /\ w \in {0, 1} /\ b >= 3 + N + N /\ b \in Int
      BY <1>1, <2>2
    <2> HIDE DEF e, w, b
    <2>4. N <= ((e - w) - 2) - N
      BY <2>3
    <2> QED BY <1>1, <2>1, <2>4 DEF e, w
  <1> QED BY <1>2, <1>3, <1>4, <1>5

LEMMA BenchOuts ==
    ASSUME BenchState
    PROVE  /\ BenchIdsOut \in Nat /\ BenchIdsOut <= N
           /\ BenchIdsOut <= (Len(entered[1]) - Now(1)) - 2 \/ BenchIdsOut = 0
           /\ BenchLogitsOut \in Nat /\ BenchLogitsOut <= N
           /\ BenchLogitsOut <= (Len(entered[1]) - Now(1)) - 2 \/ BenchLogitsOut = 0
           /\ BenchResultsOut \in Nat /\ BenchResultsOut <= N
           /\ BenchResultsOut <= ((Len(entered[0]) - Now(0)) - 2) - N \/ BenchResultsOut = 0
  <1> USE DEF TARGET_RANK, DRAFT_RANK, Ranks
  <1>1. /\ BenchIdsOut \in Nat /\ BenchIdsOut <= N
        /\ BenchIdsOut <= (Len(entered[1]) - Now(1)) - 2 \/ BenchIdsOut = 0
    <2> DEFINE h == \/ pc[1] = "make_payload"
                    \/ pc[1] = "send_ids" /\ ~posted[1]
    <2>1. h \in BOOLEAN /\ (pc[1] \in {"to_target", "to_target_barrier"} => ~h)
      OBVIOUS
    <2>2. BenchIdsOut = Sent1(pc[1], turn[1], h)
      BY DEF BenchIdsOut
    <2> HIDE DEF h
    <2> QED BY <2>1, <2>2, BenchSent1
  <1>2. /\ BenchLogitsOut \in Nat /\ BenchLogitsOut <= N
        /\ BenchLogitsOut <= (Len(entered[1]) - Now(1)) - 2 \/ BenchLogitsOut = 0
    <2> DEFINE h == \/ pc[1] \in {"make_payload", "send_ids"}
                    \/ pc[1] = "send_logits" /\ ~posted[1]
    <2>1. h \in BOOLEAN /\ (pc[1] \in {"to_target", "to_target_barrier"} => ~h)
      OBVIOUS
    <2>2. BenchLogitsOut = Sent1(pc[1], turn[1], h)
      BY DEF BenchLogitsOut
    <2> HIDE DEF h
    <2> QED BY <2>1, <2>2, BenchSent1
  <1>3. /\ BenchResultsOut \in Nat /\ BenchResultsOut <= N
        /\ BenchResultsOut <= ((Len(entered[0]) - Now(0)) - 2) - N \/ BenchResultsOut = 0
    <2> DEFINE h == \/ pc[0] = "make_result"
                    \/ pc[0] = "send_result" /\ ~posted[0]
    <2>1. h \in BOOLEAN /\ (pc[0] \in {"to_draft", "to_draft_barrier"} => ~h)
      OBVIOUS
    <2>2. BenchResultsOut = Sent2(pc[0], turn[0], h)
      BY DEF BenchResultsOut
    <2> HIDE DEF h
    <2> QED BY <2>1, <2>2, BenchSent2
  <1> QED BY <1>1, <1>2, <1>3, BenchFacts

LEMMA BenchTakens ==
    ASSUME BenchState
    PROVE  /\ BenchIdsTaken \in Nat /\ (BenchIdsTaken >= Len(entered[0]) - 3 \/ BenchIdsTaken = N)
           /\ BenchLogitsTaken \in Nat
           /\ BenchLogitsTaken >= Len(entered[0]) - 3 \/ BenchLogitsTaken = N
           /\ BenchResultsTaken \in Nat
           /\ BenchResultsTaken >= (Len(entered[1]) - 3) - N \/ BenchResultsTaken = N
  <1> USE DEF TARGET_RANK, DRAFT_RANK, Ranks
  <1>1. BenchIdsTaken \in Nat /\ (BenchIdsTaken >= Len(entered[0]) - 3 \/ BenchIdsTaken = N)
    <2> DEFINE h == pc[0] = "recv_ids"
    <2>1. h \in BOOLEAN /\ (pc[0] \in {"to_target", "to_target_barrier"} => ~h)
      OBVIOUS
    <2>2. BenchIdsTaken = Sent1(pc[0], turn[0], h)
      BY DEF BenchIdsTaken
    <2> HIDE DEF h
    <2> QED BY <2>1, <2>2, BenchSent1
  <1>2. BenchLogitsTaken \in Nat /\ (BenchLogitsTaken >= Len(entered[0]) - 3 \/ BenchLogitsTaken = N)
    <2> DEFINE h == pc[0] \in {"recv_ids", "recv_logits"}
    <2>1. h \in BOOLEAN /\ (pc[0] \in {"to_target", "to_target_barrier"} => ~h)
      OBVIOUS
    <2>2. BenchLogitsTaken = Sent1(pc[0], turn[0], h)
      BY DEF BenchLogitsTaken
    <2> HIDE DEF h
    <2> QED BY <2>1, <2>2, BenchSent1
  <1>3. /\ BenchResultsTaken \in Nat
        /\ BenchResultsTaken >= (Len(entered[1]) - 3) - N \/ BenchResultsTaken = N
    <2> DEFINE h == pc[1] \in {"make_result", "recv_result"}
    <2>1. h \in BOOLEAN /\ (pc[1] \in {"to_draft", "to_draft_barrier"} => ~h)
      OBVIOUS
    <2>2. BenchResultsTaken = Sent2(pc[1], turn[1], h)
      BY DEF BenchResultsTaken
    <2> HIDE DEF h
    <2> QED BY <2>1, <2>2, BenchSent2
  <1> QED BY <1>1, <1>2, <1>3, BenchFacts

\* The collectives keep the senders from running ahead by two messages.
LEMMA BenchFlight ==
    ASSUME BenchState
    PROVE  /\ BenchIdsOut <= BenchIdsTaken + 1 /\ BenchLogitsOut <= BenchLogitsTaken + 1
           /\ BenchResultsOut <= BenchResultsTaken + 1
           /\ Len(entered[0]) > Len(entered[1]) =>
                  BenchIdsOut <= BenchIdsTaken /\ BenchLogitsOut <= BenchLogitsTaken
           /\ Len(entered[1]) > Len(entered[0]) => BenchResultsOut <= BenchResultsTaken
           /\ BenchIdsOut <= (Len(entered[1]) - Now(1)) - 3 => BenchIdsOut <= BenchIdsTaken
           /\ BenchLogitsOut <= (Len(entered[1]) - Now(1)) - 3 => BenchLogitsOut <= BenchLogitsTaken
           /\ BenchResultsOut <= ((Len(entered[0]) - Now(0)) - 3) - N =>
                  BenchResultsOut <= BenchResultsTaken
  <1>1. /\ Len(entered[0]) - Now(0) <= Len(entered[1])
        /\ \/ Len(entered[1]) - Now(1) <= Len(entered[0])
           \/ 4 + N + N <= Len(entered[0])
    BY DEF BenchState, BenchInv, BenchGate, TARGET_RANK, DRAFT_RANK
  <1>2. 4 + N + N <= Len(entered[0]) => BenchIdsTaken = N /\ BenchLogitsTaken = N
    <2>2. 4 + N + N <= Len(entered[0]) => pc[0] \notin Before \cup ToTarget
      <3>1. /\ Len(entered[0]) = BenchEntered(pc[0], turn[0]) + Now(0) /\ N \in Nat
            /\ Now(0) \in {0, 1} /\ turn[0] \in Nat /\ turn[0] <= N
        BY BenchFacts DEF BenchState, BenchInv, BenchCollectives, BenchTurns, Ranks, TARGET_RANK
      <3>2. pc[0] \in Before => BenchEntered(pc[0], turn[0]) <= 2
        BY DEF BenchEntered, GpuEntered
      <3>3. Now(0) = 1 /\ pc[0] \in ToTarget => pc[0] = "to_target_barrier"
        BY DEF Now, ToTarget, Collectives, Barriers, Timings
      <3>4. pc[0] \in ToTarget =>
                BenchEntered(pc[0], turn[0]) <= 3 + N /\ (pc[0] = "to_target_barrier" =>
                                                               BenchEntered(pc[0], turn[0]) <= 2 + N)
        BY <3>1 DEF BenchEntered, ToTarget, Before, Gpu
      <3>5. BenchEntered(pc[0], turn[0]) \in Int
        BY <3>1 DEF BenchEntered, GpuEntered, GatherIndex
      <3> DEFINE e == Len(entered[0])  w == Now(0)  b == BenchEntered(pc[0], turn[0])
      <3>6. /\ e = b + w /\ b \in Int /\ w \in {0, 1} /\ N \in Nat
            /\ pc[0] \in Before => b <= 2
            /\ pc[0] \in ToTarget => b <= 3 + N
        BY <3>1, <3>2, <3>4, <3>5
      <3> HIDE DEF e, w, b
      <3>7. 4 + N + N <= e => pc[0] \notin Before
        BY <3>6
      <3>8. pc[0] \in ToTarget => e <= 3 + N
        <4>1. pc[0] \in ToTarget /\ w = 1 => b <= 2 + N
          BY <3>3, <3>4 DEF w, b
        <4> QED BY <3>6, <4>1
      <3>9. 4 + N + N <= e => pc[0] \notin ToTarget
        BY <3>6, <3>8
      <3> QED BY <3>7, <3>9 DEF e
    <2> QED BY <2>2 DEF BenchIdsTaken, BenchLogitsTaken, Sent1, TARGET_RANK
  <1>3. /\ BenchIdsOut <= BenchIdsTaken + 1
        /\ Len(entered[0]) > Len(entered[1]) => BenchIdsOut <= BenchIdsTaken
        /\ BenchIdsOut <= (Len(entered[1]) - Now(1)) - 3 => BenchIdsOut <= BenchIdsTaken
    <2> DEFINE x == BenchIdsOut  y == BenchIdsTaken  e == Len(entered[1])  f == Len(entered[0])  w == Now(1)
    <2>1. /\ x \in Nat /\ y \in Nat /\ e \in Nat /\ f \in Nat /\ w \in {0, 1} /\ N \in Nat /\ x <= N
          /\ x <= (e - w) - 2 \/ x = 0
          /\ y >= f - 3 \/ y = N
      BY BenchFacts, BenchOuts, BenchTakens
    <2>2. e - w <= f \/ y = N
      BY <1>1, <1>2, <2>1
    <2> HIDE DEF x, y, e, f, w
    <2>3. x <= y + 1
      BY <2>1, <2>2
    <2>4. f > e => x <= y
      BY <2>1, <2>2
    <2>5. x <= (e - w) - 3 => x <= y
      BY <2>1, <2>2
    <2> QED BY <2>3, <2>4, <2>5 DEF x, y, e, f, w
  <1>4. /\ BenchLogitsOut <= BenchLogitsTaken + 1
        /\ Len(entered[0]) > Len(entered[1]) => BenchLogitsOut <= BenchLogitsTaken
        /\ BenchLogitsOut <= (Len(entered[1]) - Now(1)) - 3 => BenchLogitsOut <= BenchLogitsTaken
    <2> DEFINE x == BenchLogitsOut  y == BenchLogitsTaken  e == Len(entered[1])  f == Len(entered[0])  w == Now(1)
    <2>1. /\ x \in Nat /\ y \in Nat /\ e \in Nat /\ f \in Nat /\ w \in {0, 1} /\ N \in Nat /\ x <= N
          /\ x <= (e - w) - 2 \/ x = 0
          /\ y >= f - 3 \/ y = N
      BY BenchFacts, BenchOuts, BenchTakens
    <2>2. e - w <= f \/ y = N
      BY <1>1, <1>2, <2>1
    <2> HIDE DEF x, y, e, f, w
    <2>3. x <= y + 1
      BY <2>1, <2>2
    <2>4. f > e => x <= y
      BY <2>1, <2>2
    <2>5. x <= (e - w) - 3 => x <= y
      BY <2>1, <2>2
    <2> QED BY <2>3, <2>4, <2>5 DEF x, y, e, f, w
  <1>5. /\ BenchResultsOut <= BenchResultsTaken + 1
        /\ Len(entered[1]) > Len(entered[0]) => BenchResultsOut <= BenchResultsTaken
        /\ BenchResultsOut <= ((Len(entered[0]) - Now(0)) - 3) - N => BenchResultsOut <= BenchResultsTaken
    <2> DEFINE x == BenchResultsOut  y == BenchResultsTaken  e == Len(entered[0])  f == Len(entered[1])  w == Now(0)
    <2>1. /\ x \in Nat /\ y \in Nat /\ e \in Nat /\ f \in Nat /\ w \in {0, 1} /\ N \in Nat /\ x <= N
          /\ x <= ((e - w) - 2) - N \/ x = 0
          /\ y >= (f - 3) - N \/ y = N
      BY BenchFacts, BenchOuts, BenchTakens
    <2>2. e - w <= f
      BY <1>1, <1>2, <2>1
    <2> HIDE DEF x, y, e, f, w
    <2>3. x <= y + 1
      BY <2>1, <2>2
    <2>4. f > e => x <= y
      BY <2>1, <2>2
    <2>5. x <= ((e - w) - 3) - N => x <= y
      BY <2>1, <2>2
    <2> QED BY <2>3, <2>4, <2>5 DEF x, y, e, f, w
  <1> QED BY <1>3, <1>4, <1>5

LEMMA BenchQueues ==
    ASSUME BenchState
    PROVE  /\ Len(net["ids"]) = BenchIdsOut - BenchIdsTaken
           /\ Len(net["logits"]) = BenchLogitsOut - BenchLogitsTaken
           /\ Len(net["result"]) = BenchResultsOut - BenchResultsTaken
           /\ net["ids"] # <<>> => BenchIdsOut = BenchIdsTaken + 1 /\ Len(net["ids"]) = 1
           /\ net["logits"] # <<>> => BenchLogitsOut = BenchLogitsTaken + 1 /\ Len(net["logits"]) = 1
           /\ net["result"] # <<>> =>
                  BenchResultsOut = BenchResultsTaken + 1 /\ Len(net["result"]) = 1
  <1>1. BenchTraffic
    BY DEF BenchState, BenchInv
  <1>2. /\ net["ids"] # <<>> => Len(net["ids"]) > 0
        /\ net["logits"] # <<>> => Len(net["logits"]) > 0
        /\ net["result"] # <<>> => Len(net["result"]) > 0
    BY Queues, BenchFacts
  <1>3. /\ BenchIdsOut - BenchIdsTaken > 0 => BenchIdsOut = BenchIdsTaken + 1
        /\ BenchLogitsOut - BenchLogitsTaken > 0 => BenchLogitsOut = BenchLogitsTaken + 1
        /\ BenchResultsOut - BenchResultsTaken > 0 => BenchResultsOut = BenchResultsTaken + 1
    <2>1. /\ BenchIdsOut \in Nat /\ BenchIdsTaken \in Nat /\ BenchLogitsOut \in Nat
          /\ BenchLogitsTaken \in Nat /\ BenchResultsOut \in Nat /\ BenchResultsTaken \in Nat
      BY BenchOuts, BenchTakens
    <2>2. /\ BenchIdsOut <= BenchIdsTaken + 1 /\ BenchLogitsOut <= BenchLogitsTaken + 1
          /\ BenchResultsOut <= BenchResultsTaken + 1
      BY BenchFlight
    <2> QED BY <2>1, <2>2
  <1>4. /\ Len(net["ids"]) = BenchIdsOut - BenchIdsTaken
        /\ Len(net["logits"]) = BenchLogitsOut - BenchLogitsTaken
        /\ Len(net["result"]) = BenchResultsOut - BenchResultsTaken
    BY <1>1 DEF BenchTraffic
  <1>5. /\ BenchIdsOut \in Nat /\ BenchIdsTaken \in Nat /\ BenchLogitsOut \in Nat
        /\ BenchLogitsTaken \in Nat /\ BenchResultsOut \in Nat /\ BenchResultsTaken \in Nat
    BY BenchOuts, BenchTakens
  <1> QED BY <1>2, <1>3, <1>4, <1>5

LEMMA BenchSendKeeps ==
    ASSUME BenchState, UNCHANGED <<launch, pc, turn, entered, data>>,
           \A r \in Ranks : posted'[r] = posted[r] \/ pc[r] \in {"send_ids", "send_logits", "send_result"}
    PROVE  /\ BenchLabels' /\ BenchCollectives' /\ BenchNames' /\ BenchTurns' /\ BenchGate'
           /\ BenchSamples' /\ BenchGathered'
  <1> USE DEF TARGET_RANK, DRAFT_RANK, Ranks
  <1>1. /\ BenchLabels /\ BenchCollectives /\ BenchNames /\ BenchTurns /\ BenchGate /\ BenchGathered
    BY DEF BenchState, BenchInv
  <1>2. \A r \in Ranks : Now(r)' = Now(r)
    BY DEF Now, Collectives, Barriers, Timings
  <1>3. N' = N /\ \A p, t : BenchEntered(p, t)' = BenchEntered(p, t)
    BY DEF N, BenchEntered
  <1>4. BenchLabels' /\ BenchCollectives' /\ BenchNames' /\ BenchTurns' /\ BenchGathered'
    BY <1>1, <1>2, <1>3
       DEF BenchLabels, BenchCollectives, BenchNames, BenchAt, BenchTurns, BenchGathered, data
  <1>5. BenchGate'
    BY <1>2, BenchGateSame
  <1>6. BenchSamples'
    <2>1. UNCHANGED <<Past1(0), Past1(1), Past2(0), Past2(1)>>
      BY <1>3 DEF Past1, Past2, Sent1, Sent2
    <2> QED BY <2>1, BenchSamplesSame DEF data
  <1> QED BY <1>4, <1>5, <1>6

LEMMA BenchSendDraftIds ==
    ASSUME BenchState, SendDraftIds PROVE BenchAgain'
  <1> USE DEF TARGET_RANK, DRAFT_RANK, Ranks
  <1>1. /\ pc[1] = "send_ids" /\ ~posted[1] /\ posted' = [posted EXCEPT ![1] = TRUE]
        /\ net' = [net EXCEPT !["ids"] = Append(@, payload[1].ids)]
        /\ UNCHANGED <<launch, pc, turn, job, entered, exit, data>>
    BY DEF SendDraftIds, Post, At
  <1>2. BenchTraffic /\ BenchMessages /\ BenchCollectives /\ BenchTurns /\ BenchGate
    BY DEF BenchState, BenchInv
  <1>3. posted'[0] = posted[0] /\ posted'[1]
    BY <1>1, BenchFacts
  <1>4. /\ BenchLabels' /\ BenchCollectives' /\ BenchNames' /\ BenchTurns' /\ BenchGate'
        /\ BenchSamples' /\ BenchGathered'
    BY <1>1, <1>3, BenchSendKeeps
  <1>5. /\ BenchIdsOut = turn[1] - 1 /\ BenchIdsOut' = turn[1]
        /\ UNCHANGED <<BenchIdsTaken, BenchLogitsOut, BenchLogitsTaken, BenchResultsOut, BenchResultsTaken>>
    <2>1. BenchIdsOut = turn[1] - 1 /\ BenchIdsOut' = turn[1]
      BY <1>1, <1>3 DEF BenchIdsOut, Sent1, Before, Gpu, ToTarget
    <2>2. UNCHANGED <<BenchIdsTaken, BenchLogitsOut, BenchLogitsTaken, BenchResultsOut, BenchResultsTaken>>
      BY <1>1, <1>3 DEF BenchIdsTaken, BenchLogitsOut, BenchLogitsTaken, BenchResultsOut,
                        BenchResultsTaken, Sent1, Sent2, N
    <2> QED BY <2>1, <2>2
  <1>6. net["ids"] = <<>>
    <2>1. Now(1) = 0 /\ BenchEntered(pc[1], turn[1]) = 3 + (turn[1] - 1)
      BY <1>1 DEF Now, BenchEntered, Before, Gpu, ToTarget
    <2>2. Len(entered[1]) = 3 + (turn[1] - 1) /\ turn[1] \in Nat
      BY <1>2, <2>1, BenchFacts DEF BenchCollectives
    <2>3. BenchIdsOut <= BenchIdsTaken
      BY <1>5, <2>1, <2>2, BenchFlight
    <2> QED BY <2>3, BenchQueues, BenchOuts, BenchTakens
  <1>7. net'["ids"] = <<payload[1].ids>> /\ net'["logits"] = net["logits"] /\ net'["result"] = net["result"]
    BY <1>1, <1>6, BenchFacts DEF Messages
  <1>8. BenchTraffic'
    <2>1. Len(net'["ids"]) = 1 /\ Len(net["ids"]) = 0
      BY <1>6, <1>7
    <2>2. turn[1] \in Nat
      BY BenchFacts
    <2> QED BY <1>2, <1>5, <1>7, <2>1, <2>2, BenchTakens DEF BenchTraffic
  <1>9. BenchMessages'
    <2>1. payload[1].ids = <<turn[1]>>
      BY <1>1, <1>2 DEF BenchMessages
    <2>2. Head(net'["ids"]) = <<BenchIdsOut'>>
      BY <1>5, <1>7, <2>1
    <2> QED BY <1>1, <1>2, <1>5, <1>7, <2>2 DEF BenchMessages, data
  <1> QED BY <1>1, <1>4, <1>8, <1>9, BenchFacts DEF BenchAgain, BenchInv, BenchState, data

LEMMA BenchSendDraftLogits ==
    ASSUME BenchState, SendDraftLogits PROVE BenchAgain'
  <1> USE DEF TARGET_RANK, DRAFT_RANK, Ranks
  <1>1. /\ pc[1] = "send_logits" /\ ~posted[1] /\ posted' = [posted EXCEPT ![1] = TRUE]
        /\ net' = [net EXCEPT !["logits"] = Append(@, payload[1].logits)]
        /\ UNCHANGED <<launch, pc, turn, job, entered, exit, data>>
    BY DEF SendDraftLogits, Post, At
  <1>2. BenchTraffic /\ BenchMessages /\ BenchCollectives /\ BenchTurns /\ BenchGate
    BY DEF BenchState, BenchInv
  <1>3. posted'[0] = posted[0] /\ posted'[1]
    BY <1>1, BenchFacts
  <1>4. /\ BenchLabels' /\ BenchCollectives' /\ BenchNames' /\ BenchTurns' /\ BenchGate'
        /\ BenchSamples' /\ BenchGathered'
    BY <1>1, <1>3, BenchSendKeeps
  <1>5. /\ BenchLogitsOut = turn[1] - 1 /\ BenchLogitsOut' = turn[1]
        /\ UNCHANGED <<BenchIdsTaken, BenchIdsOut, BenchLogitsTaken, BenchResultsOut, BenchResultsTaken>>
    <2>1. BenchLogitsOut = turn[1] - 1 /\ BenchLogitsOut' = turn[1]
      BY <1>1, <1>3 DEF BenchLogitsOut, Sent1, Before, Gpu, ToTarget
    <2>2. UNCHANGED <<BenchIdsTaken, BenchIdsOut, BenchLogitsTaken, BenchResultsOut, BenchResultsTaken>>
      BY <1>1, <1>3 DEF BenchIdsTaken, BenchIdsOut, BenchLogitsTaken, BenchResultsOut,
                        BenchResultsTaken, Sent1, Sent2, N
    <2> QED BY <2>1, <2>2
  <1>6. net["logits"] = <<>>
    <2>1. Now(1) = 0 /\ BenchEntered(pc[1], turn[1]) = 3 + (turn[1] - 1)
      BY <1>1 DEF Now, BenchEntered, Before, Gpu, ToTarget
    <2>2. Len(entered[1]) = 3 + (turn[1] - 1) /\ turn[1] \in Nat
      BY <1>2, <2>1, BenchFacts DEF BenchCollectives
    <2>3. BenchLogitsOut <= BenchLogitsTaken
      BY <1>5, <2>1, <2>2, BenchFlight
    <2> QED BY <2>3, BenchQueues, BenchOuts, BenchTakens
  <1>7. net'["logits"] = <<payload[1].logits>> /\ net'["ids"] = net["ids"] /\ net'["result"] = net["result"]
    BY <1>1, <1>6, BenchFacts DEF Messages
  <1>8. BenchTraffic'
    <2>1. Len(net'["logits"]) = 1 /\ Len(net["logits"]) = 0
      BY <1>6, <1>7
    <2>2. turn[1] \in Nat
      BY BenchFacts
    <2>3. Len(net'["ids"]) = BenchIdsOut' - BenchIdsTaken'
      BY <1>2, <1>5, <1>7 DEF BenchTraffic
    <2>4. Len(net'["result"]) = BenchResultsOut' - BenchResultsTaken'
      BY <1>2, <1>5, <1>7 DEF BenchTraffic
    <2>5. Len(net'["logits"]) = BenchLogitsOut' - BenchLogitsTaken'
      <3>1. Len(net["logits"]) = BenchLogitsOut - BenchLogitsTaken
        BY <1>2 DEF BenchTraffic
      <3>2. BenchLogitsTaken \in Nat /\ BenchLogitsTaken' = BenchLogitsTaken
        BY <1>5, BenchTakens
      <3> DEFINE k == BenchLogitsTaken  t == turn[1]
      <3>3. 0 = (t - 1) - k /\ k \in Nat /\ t \in Nat
        BY <1>5, <2>1, <2>2, <3>1, <3>2
      <3> HIDE DEF k, t
      <3>4. 1 = t - k
        BY <3>3
      <3> QED BY <1>5, <2>1, <3>2, <3>4 DEF k, t
    <2> QED BY <2>3, <2>4, <2>5 DEF BenchTraffic
  <1>9. BenchMessages'
    <2>1. payload[1].logits = <<turn[1]>>
      BY <1>1, <1>2 DEF BenchMessages
    <2>2. Head(net'["logits"]) = <<BenchLogitsOut'>>
      BY <1>5, <1>7, <2>1
    <2> QED BY <1>1, <1>2, <1>5, <1>7, <2>2 DEF BenchMessages, data
  <1> QED BY <1>1, <1>4, <1>8, <1>9, BenchFacts DEF BenchAgain, BenchInv, BenchState, data

LEMMA BenchSendTargetResult ==
    ASSUME BenchState, SendTargetResult PROVE BenchAgain'
  <1> USE DEF TARGET_RANK, DRAFT_RANK, Ranks
  <1>1. /\ pc[0] = "send_result" /\ ~posted[0] /\ posted' = [posted EXCEPT ![0] = TRUE]
        /\ net' = [net EXCEPT !["result"] = Append(@, result[0])]
        /\ UNCHANGED <<launch, pc, turn, job, entered, exit, data>>
    BY DEF SendTargetResult, Post, At
  <1>2. BenchTraffic /\ BenchMessages /\ BenchCollectives /\ BenchTurns /\ BenchGate
    BY DEF BenchState, BenchInv
  <1>3. posted'[1] = posted[1] /\ posted'[0]
    BY <1>1, BenchFacts
  <1>4. /\ BenchLabels' /\ BenchCollectives' /\ BenchNames' /\ BenchTurns' /\ BenchGate'
        /\ BenchSamples' /\ BenchGathered'
    BY <1>1, <1>3, BenchSendKeeps
  <1>5. /\ BenchResultsOut = turn[0] - 1 /\ BenchResultsOut' = turn[0]
        /\ UNCHANGED <<BenchIdsTaken, BenchIdsOut, BenchLogitsTaken, BenchLogitsOut, BenchResultsTaken>>
    <2>1. BenchResultsOut = turn[0] - 1 /\ BenchResultsOut' = turn[0]
      BY <1>1, <1>3 DEF BenchResultsOut, Sent2, Before, Gpu, ToTarget, ToDraft
    <2>2. UNCHANGED <<BenchIdsTaken, BenchIdsOut, BenchLogitsTaken, BenchLogitsOut, BenchResultsTaken>>
      BY <1>1, <1>3 DEF BenchIdsTaken, BenchIdsOut, BenchLogitsTaken, BenchLogitsOut,
                        BenchResultsTaken, Sent1, Sent2, N
    <2> QED BY <2>1, <2>2
  <1>6. net["result"] = <<>>
    <2>1. Now(0) = 0 /\ BenchEntered(pc[0], turn[0]) = 3 + N + (turn[0] - 1)
      BY <1>1 DEF Now, BenchEntered, Before, Gpu, ToTarget, ToDraft
    <2>2. Len(entered[0]) = 3 + N + (turn[0] - 1) /\ turn[0] \in Nat
      BY <1>2, <2>1, BenchFacts DEF BenchCollectives
    <2>3. BenchResultsOut <= BenchResultsTaken
      <3> DEFINE o == BenchResultsOut  k == BenchResultsTaken  n == N  t == turn[0]
                 c == Len(entered[0])  w == Now(0)
      <3>1. n \in Nat
        BY BenchFacts
      <3>2. o = t - 1 /\ w = 0 /\ c = 3 + n + (t - 1) /\ t \in Nat
        BY <1>5, <2>1, <2>2
      <3>3. o <= ((c - w) - 3) - n => o <= k
        BY BenchFlight
      <3> HIDE DEF o, k, n, t, c, w
      <3>4. o <= k
        BY <3>1, <3>2, <3>3
      <3> QED BY <3>4 DEF o, k
    <2> QED BY <2>3, BenchQueues, BenchOuts, BenchTakens
  <1>7. net'["result"] = <<result[0]>> /\ net'["ids"] = net["ids"] /\ net'["logits"] = net["logits"]
    BY <1>1, <1>6, BenchFacts DEF Messages
  <1>8. BenchTraffic'
    <2>1. Len(net'["result"]) = 1 /\ Len(net["result"]) = 0
      BY <1>6, <1>7
    <2>2. turn[0] \in Nat
      BY BenchFacts
    <2> QED BY <1>2, <1>5, <1>7, <2>1, <2>2, BenchTakens DEF BenchTraffic
  <1>9. BenchMessages'
    <2>1. result[0].bonus = turn[0]
      BY <1>1, <1>2 DEF BenchMessages
    <2>2. Head(net'["result"]).bonus = BenchResultsOut'
      BY <1>5, <1>7, <2>1
    <2> QED BY <1>1, <1>2, <1>5, <1>7, <2>2 DEF BenchMessages, data
  <1> QED BY <1>1, <1>4, <1>8, <1>9, BenchFacts DEF BenchAgain, BenchInv, BenchState, data

LEMMA BenchSendReturns ==
    ASSUME BenchState, NEW r \in Ranks, NEW p \in DOMAIN Sends, SendReturns(r, p) PROVE BenchAgain'
  <1> USE DEF TARGET_RANK, DRAFT_RANK, Ranks
  <1>1. BenchLabels /\ BenchTurns /\ BenchCollectives /\ BenchGate
    BY DEF BenchState, BenchInv
  <1> DEFINE q == Following(p, r)
  <1>2. /\ pc[r] = p /\ posted[r] /\ posted' = [posted EXCEPT ![r] = FALSE]
        /\ pc' = [pc EXCEPT ![r] = q]
        /\ UNCHANGED <<launch, turn, job, entered, net, exit, data>>
    BY DEF SendReturns, Returns, Continue
  <1>3. \/ r = 1 /\ p = "send_ids" /\ q = "send_logits"
        \/ r = 1 /\ p = "send_logits" /\ q = "sample_to_target"
        \/ r = 0 /\ p = "send_result" /\ q = "sample_to_draft"
    <2>1. pc[0] \in BenchTarget /\ pc[1] \in BenchDraft /\ p \in {"send_ids", "send_logits", "send_result"}
      BY <1>1 DEF BenchLabels, Sends
    <2>2. r = 0 => p = "send_result"
      BY <1>2, <2>1 DEF BenchTarget, Before, Gpu, ToTarget, ToDraft, Ended, Timings
    <2>3. r = 1 => p \in {"send_ids", "send_logits"}
      BY <1>2, <2>1 DEF BenchDraft, Before, Gpu, ToTarget, ToDraft, Ended, Timings
    <2> QED BY <2>1, <2>2, <2>3, BenchFollowing DEF BenchState, BenchPaths
  <1> HIDE DEF q
  <1>4. q \in (IF r = 0 THEN BenchTarget ELSE BenchDraft)
    BY <1>3 DEF BenchTarget, BenchDraft, ToTarget, ToDraft
  <1>5. /\ pc'[r] = q /\ pc'[1 - r] = pc[1 - r] /\ posted'[1 - r] = posted[1 - r] /\ ~posted'[r]
        /\ turn' = turn
    <2>1. 1 - r \in Ranks /\ 1 - r # r
      OBVIOUS
    <2> QED BY <1>2, <2>1, BenchFacts
  <1>6. Now(r) = 0 /\ Now(r)' = 0 /\ Now(1 - r)' = Now(1 - r)
    BY <1>2, <1>3, <1>5 DEF Now, Collectives, Barriers, Timings
  <1>7. BenchEntered(pc[r], turn[r]) + Now(r) = BenchEntered(q, turn'[r]) + Now(r)'
    BY <1>2, <1>3, <1>5, <1>6 DEF BenchEntered, Before, Gpu, ToTarget, ToDraft
  <1>8. BenchTurn(q, turn'[r])
    BY <1>1, <1>2, <1>3, <1>5 DEF BenchTurns, BenchTurn, Before, Gpu, ToTarget, ToDraft
  <1>9. BenchGate'
    <2>1. Now(0)' = Now(0) /\ Now(1)' = Now(1)
      BY <1>6
    <2>2. pc'[1] \in Ended <=> pc[1] \in Ended
      BY <1>2, <1>3, <1>5 DEF Ended, Timings
    <2> QED BY <1>2, <2>1, <2>2, BenchGateSame
  <1>10. (r = 0 => TargetKept) /\ (r = 1 => DraftKept)
    BY <1>2, <1>3, <1>5
       DEF TargetKept, DraftKept, BenchIdsTaken, BenchLogitsTaken, BenchResultsOut, BenchIdsOut,
           BenchLogitsOut, BenchResultsTaken, Past1, Past2, Sent1, Sent2, N, Before, Gpu, ToTarget,
           ToDraft
  <1>11. /\ r = 0 => TargetKept /\ q \notin {"send_result", "recv_logits", "sample_to_target"}
         /\ r = 1 => /\ DraftKept /\ q # "sample_to_draft"
                     /\ q \in {"send_ids", "send_logits"} =>
                            (pc[1] \in {"send_ids", "send_logits"} /\ turn'[1] = turn[1])
    BY <1>2, <1>3, <1>5, <1>10
  <1>12. posted'[1 - r] = posted[1 - r] /\ turn'[1 - r] = turn[1 - r]
    BY <1>5
  <1> QED BY <1>2, <1>4, <1>7, <1>8, <1>9, <1>11, <1>12, BenchQuiet

\* A step within a turn of a loop.
LEMMA BenchOn ==
    ASSUME BenchState, NEW r \in Ranks, NEW q,
           \/ pc[r] \in ToTarget \ {"to_target"} /\ q \in ToTarget \ {"to_target"}
           \/ pc[r] \in ToDraft \ {"to_draft"} /\ q \in ToDraft \ {"to_draft"},
           pc[r] \notin Collectives \cup {"send_ids", "send_logits", "send_result"},
           q \in IF r = 0 THEN BenchTarget ELSE BenchDraft,
           pc' = [pc EXCEPT ![r] = q], UNCHANGED <<launch, entered, posted, turn>>
    PROVE  /\ pc' \in [Ranks -> Operations] /\ BenchLabels' /\ BenchCollectives' /\ BenchNames'
           /\ BenchTurns' /\ BenchGate'
  <1> USE DEF TARGET_RANK, DRAFT_RANK, Ranks
  <1>1. BenchTurns
    BY DEF BenchState, BenchInv
  <1>2. pc' \in [Ranks -> Operations] /\ BenchLabels'
    BY BenchMoves
  <1>3. ~posted[r] /\ Now(r) = 0 /\ Now(r)' = 0 /\ pc'[r] = q /\ pc'[1 - r] = pc[1 - r]
    <2>1. ~posted[r]
      BY DEF BenchState, PostedOK
    <2> QED BY <2>1, BenchFacts DEF Now
  <1>4. BenchEntered(pc[r], turn[r]) = BenchEntered(q, turn[r])
    BY DEF BenchEntered, Before, Gpu, ToTarget, ToDraft
  <1>5. BenchTurn(q, turn[r])
    BY <1>1 DEF BenchTurns, BenchTurn, ToTarget, ToDraft, Before, Gpu
  <1>6. BenchCollectives' /\ BenchNames' /\ BenchTurns'
    <2>1. BenchEntered(pc[r], turn[r]) + Now(r) = BenchEntered(q, turn'[r]) + Now(r)'
      BY <1>3, <1>4
    <2>2. turn'[r] = turn[r]
      OBVIOUS
    <2> QED BY <1>5, <2>1, <2>2, BenchWithin
  <1>7. BenchGate'
    <2>1. Now(0)' = Now(0) /\ Now(1)' = Now(1)
      <3>1. Now(1 - r)' = Now(1 - r)
        BY <1>3 DEF Now
      <3> QED BY <1>3, <3>1
    <2>2. pc'[1] \in Ended <=> pc[1] \in Ended
      BY <1>3 DEF Ended, Timings, ToTarget, ToDraft
    <2> QED BY <2>1, <2>2, BenchGateSame
  <1> QED BY <1>2, <1>6, <1>7

LEMMA BenchGatheredSame ==
    ASSUME BenchState, UNCHANGED <<launch, entered, samples>> PROVE BenchGathered'
  BY DEF BenchState, BenchInv, BenchGathered, N

LEMMA BenchRecvDraftIds ==
    ASSUME BenchState, RecvDraftIds PROVE BenchAgain'
  <1> USE DEF TARGET_RANK, DRAFT_RANK, Ranks
  <1>1. /\ pc[0] = "recv_ids" /\ pc' = [pc EXCEPT ![0] = "recv_logits"]
        /\ net["ids"] # <<>> /\ net' = [net EXCEPT !["ids"] = Tail(@)]
        /\ payload' = [payload EXCEPT ![0].ids = Head(net["ids"])]
        /\ UNCHANGED <<launch, posted, turn, job, exit, entered, text, pending, result, accepted,
                       clen, cursor, samples>>
    <2>1. pc[0] = "recv_ids" /\ launch.prog = "benchmark"
      BY DEF BenchState, RecvDraftIds, At
    <2>2. Following("recv_ids", 0) = "recv_logits"
      BY <2>1, BenchFollowing DEF BenchPaths
    <2> QED BY <2>1, <2>2 DEF RecvDraftIds, At, Receive, Done, Continue
  <1>2. BenchTraffic /\ BenchMessages
    BY DEF BenchState, BenchInv
  <1>3. pc'[0] = "recv_logits" /\ pc'[1] = pc[1]
    BY <1>1, BenchFacts
  <1>4. /\ pc' \in [Ranks -> Operations] /\ BenchLabels' /\ BenchCollectives' /\ BenchNames'
        /\ BenchTurns' /\ BenchGate'
    BY <1>1, BenchOn DEF ToTarget, ToDraft, BenchTarget, Collectives, Barriers, Timings
  <1>5. DraftKept
    BY <1>1, <1>3, BenchDraftStands
  <1>6. /\ BenchIdsTaken = turn[0] - 1 /\ BenchIdsTaken' = turn[0]
        /\ UNCHANGED <<BenchLogitsTaken, BenchResultsOut, Past1(0), Past2(0)>>
    BY <1>1, <1>3 DEF BenchIdsTaken, BenchLogitsTaken, BenchResultsOut, Past1, Past2, Sent1, Sent2, N,
                      Before, Gpu, ToTarget, ToDraft
  <1>7. /\ BenchIdsOut = turn[0] /\ Len(net["ids"]) = 1 /\ turn[0] \in Nat
        /\ Head(net["ids"]) = <<turn[0]>>
    <2>1. BenchIdsOut = BenchIdsTaken + 1 /\ Len(net["ids"]) = 1 /\ turn[0] \in Nat
      BY <1>1, BenchQueues, BenchFacts
    <2> QED BY <1>1, <1>2, <1>6, <2>1 DEF BenchMessages
  <1>8. net'["ids"] = <<>> /\ net'["logits"] = net["logits"] /\ net'["result"] = net["result"]
    <2>1. Tail(net["ids"]) = <<>>
      BY <1>7, BenchFacts, LastTaken
    <2> QED BY <1>1, <2>1, BenchFacts DEF Messages
  <1>9. BenchTraffic'
    <2>1. Len(net'["ids"]) = 0
      BY <1>8
    <2> QED BY <1>2, <1>5, <1>6, <1>7, <1>8, <2>1 DEF BenchTraffic, DraftKept
  <1>10. BenchMessages'
    <2>1. payload'[0].ids = <<turn[0]>> /\ payload'[1] = payload[1]
      <3>1. payload \in [Ranks -> Payloads]
        BY BenchFacts
      <3> QED BY <1>1, <1>7, <3>1 DEF Payloads
    <2> QED BY <1>1, <1>2, <1>3, <1>5, <1>6, <1>8, <2>1 DEF BenchMessages, DraftKept
  <1>11. BenchSamples' /\ BenchGathered'
    BY <1>1, <1>5, <1>6, BenchSamplesSame, BenchGatheredSame DEF DraftKept
  <1> QED BY <1>1, <1>4, <1>9, <1>10, <1>11, BenchFacts DEF BenchAgain, BenchInv, BenchState

LEMMA BenchRecvDraftLogits ==
    ASSUME BenchState, RecvDraftLogits PROVE BenchAgain'
  <1> USE DEF TARGET_RANK, DRAFT_RANK, Ranks
  <1>1. /\ pc[0] = "recv_logits" /\ pc' = [pc EXCEPT ![0] = "sample_to_target"]
        /\ net["logits"] # <<>> /\ net' = [net EXCEPT !["logits"] = Tail(@)]
        /\ payload' = [payload EXCEPT ![0].logits = Head(net["logits"])]
        /\ UNCHANGED <<launch, posted, turn, job, exit, entered, text, pending, result, accepted,
                       clen, cursor, samples>>
    <2>1. pc[0] = "recv_logits" /\ launch.prog = "benchmark"
      BY DEF BenchState, RecvDraftLogits, At
    <2>2. Following("recv_logits", 0) = "sample_to_target"
      BY <2>1, BenchFollowing DEF BenchPaths
    <2> QED BY <2>1, <2>2 DEF RecvDraftLogits, At, Receive, Done, Continue
  <1>2. BenchTraffic /\ BenchMessages
    BY DEF BenchState, BenchInv
  <1>3. pc'[0] = "sample_to_target" /\ pc'[1] = pc[1]
    BY <1>1, BenchFacts
  <1>4. /\ pc' \in [Ranks -> Operations] /\ BenchLabels' /\ BenchCollectives' /\ BenchNames'
        /\ BenchTurns' /\ BenchGate'
    BY <1>1, BenchOn DEF ToTarget, ToDraft, BenchTarget, Collectives, Barriers, Timings
  <1>5. DraftKept
    BY <1>1, <1>3, BenchDraftStands
  <1>6. /\ BenchLogitsTaken = turn[0] - 1 /\ BenchLogitsTaken' = turn[0]
        /\ UNCHANGED <<BenchIdsTaken, BenchResultsOut, Past1(0), Past2(0)>>
    BY <1>1, <1>3 DEF BenchIdsTaken, BenchLogitsTaken, BenchResultsOut, Past1, Past2, Sent1, Sent2, N,
                      Before, Gpu, ToTarget, ToDraft
  <1>7. /\ BenchLogitsOut = turn[0] /\ Len(net["logits"]) = 1 /\ turn[0] \in Nat
        /\ Head(net["logits"]) = <<turn[0]>>
    <2>1. BenchLogitsOut = BenchLogitsTaken + 1 /\ Len(net["logits"]) = 1 /\ turn[0] \in Nat
      BY <1>1, BenchQueues, BenchFacts
    <2> QED BY <1>1, <1>2, <1>6, <2>1 DEF BenchMessages
  <1>8. net'["logits"] = <<>> /\ net'["ids"] = net["ids"] /\ net'["result"] = net["result"]
    <2>1. Tail(net["logits"]) = <<>>
      BY <1>7, BenchFacts, LastTaken
    <2> QED BY <1>1, <2>1, BenchFacts DEF Messages
  <1>9. BenchTraffic'
    <2>1. Len(net'["logits"]) = 0
      BY <1>8
    <2> QED BY <1>2, <1>5, <1>6, <1>7, <1>8, <2>1 DEF BenchTraffic, DraftKept
  <1>10. BenchMessages'
    <2>1. payload'[0].logits = <<turn[0]>> /\ payload'[0].ids = payload[0].ids /\ payload'[1] = payload[1]
      <3>1. payload \in [Ranks -> Payloads]
        BY BenchFacts
      <3> QED BY <1>1, <1>7, <3>1 DEF Payloads
    <2>2. payload[0].ids = <<turn[0]>>
      BY <1>1, <1>2 DEF BenchMessages
    <2> QED BY <1>1, <1>2, <1>3, <1>5, <1>6, <1>8, <2>1, <2>2 DEF BenchMessages, DraftKept
  <1>11. BenchSamples' /\ BenchGathered'
    BY <1>1, <1>5, <1>6, BenchSamplesSame, BenchGatheredSame DEF DraftKept
  <1> QED BY <1>1, <1>4, <1>9, <1>10, <1>11, BenchFacts DEF BenchAgain, BenchInv, BenchState

LEMMA BenchRecvTargetResult ==
    ASSUME BenchState, RecvTargetResult PROVE BenchAgain'
  <1> USE DEF TARGET_RANK, DRAFT_RANK, Ranks
  <1>1. /\ pc[1] = "recv_result" /\ pc' = [pc EXCEPT ![1] = "sample_to_draft"]
        /\ net["result"] # <<>> /\ net' = [net EXCEPT !["result"] = Tail(@)]
        /\ result' = [result EXCEPT ![1] = Head(net["result"])]
        /\ UNCHANGED <<launch, posted, turn, job, exit, entered, text, pending, payload, accepted,
                       clen, cursor, samples>>
    <2>1. pc[1] = "recv_result" /\ launch.prog = "benchmark"
      BY DEF BenchState, RecvTargetResult, At
    <2>2. Following("recv_result", 1) = "sample_to_draft"
      BY <2>1, BenchFollowing DEF BenchPaths
    <2> QED BY <2>1, <2>2 DEF RecvTargetResult, At, Receive, Done, Continue
  <1>2. BenchTraffic /\ BenchMessages
    BY DEF BenchState, BenchInv
  <1>3. pc'[1] = "sample_to_draft" /\ pc'[0] = pc[0]
    BY <1>1, BenchFacts
  <1>4. /\ pc' \in [Ranks -> Operations] /\ BenchLabels' /\ BenchCollectives' /\ BenchNames'
        /\ BenchTurns' /\ BenchGate'
    <2>1. /\ "recv_result" \in ToDraft \ {"to_draft"} /\ "sample_to_draft" \in ToDraft \ {"to_draft"}
          /\ "sample_to_draft" \in BenchDraft /\ "recv_result" \notin Collectives
      BY DEF ToTarget, ToDraft, BenchDraft, Collectives, Barriers, Timings
    <2>2. "sample_to_draft" \in (IF 1 = 0 THEN BenchTarget ELSE BenchDraft) /\ 1 \in Ranks
      BY <2>1
    <2> HIDE DEF Ranks
    <2> QED BY <1>1, <2>1, <2>2, BenchOn
  <1>5. TargetKept
    BY <1>1, <1>3, BenchTargetStands
  <1>6. /\ BenchResultsTaken = turn[1] - 1 /\ BenchResultsTaken' = turn[1]
        /\ UNCHANGED <<BenchIdsOut, BenchLogitsOut, Past1(1), Past2(1)>>
    BY <1>1, <1>3 DEF BenchResultsTaken, BenchIdsOut, BenchLogitsOut, Past1, Past2, Sent1, Sent2, N,
                      Before, Gpu, ToTarget, ToDraft
  <1>7. /\ BenchResultsOut = turn[1] /\ Len(net["result"]) = 1 /\ turn[1] \in Nat
        /\ Head(net["result"]).bonus = turn[1]
    <2>1. BenchResultsOut = BenchResultsTaken + 1 /\ Len(net["result"]) = 1 /\ turn[1] \in Nat
      BY <1>1, BenchQueues, BenchFacts
    <2> QED BY <1>1, <1>2, <1>6, <2>1 DEF BenchMessages
  <1>8. net'["result"] = <<>> /\ net'["ids"] = net["ids"] /\ net'["logits"] = net["logits"]
    <2>1. Tail(net["result"]) = <<>>
      BY <1>7, BenchFacts, LastTaken
    <2> QED BY <1>1, <2>1, BenchFacts DEF Messages
  <1>9. BenchTraffic'
    <2>1. Len(net'["result"]) = 0
      BY <1>8
    <2> QED BY <1>2, <1>5, <1>6, <1>7, <1>8, <2>1 DEF BenchTraffic, TargetKept
  <1>10. BenchMessages'
    <2>1. result'[1].bonus = turn[1] /\ result'[0] = result[0]
      BY <1>1, <1>7, BenchFacts
    <2> QED BY <1>1, <1>2, <1>3, <1>5, <1>6, <1>8, <2>1 DEF BenchMessages, TargetKept
  <1>11. BenchSamples' /\ BenchGathered'
    BY <1>1, <1>5, <1>6, BenchSamplesSame, BenchGatheredSame DEF TargetKept
  <1> QED BY <1>1, <1>4, <1>9, <1>10, <1>11, BenchFacts DEF BenchAgain, BenchInv, BenchState

LEMMA BenchMakePayload ==
    ASSUME BenchState, MakePayload PROVE BenchAgain'
  <1> USE DEF TARGET_RANK, DRAFT_RANK, Ranks
  <1>1. /\ pc[1] = "make_payload" /\ pc' = [pc EXCEPT ![1] = "send_ids"]
        /\ payload' = [payload EXCEPT ![1] = [ids |-> <<turn[1]>>, logits |-> <<turn[1]>>, drawn |-> <<>>]]
        /\ UNCHANGED <<launch, posted, turn, job, exit, entered, net, text, pending, result, accepted,
                       clen, cursor, samples>>
    <2>1. pc[1] = "make_payload" /\ launch.prog = "benchmark"
      BY DEF BenchState, MakePayload, At
    <2>2. Following("make_payload", 1) = "send_ids"
      BY <2>1, BenchFollowing DEF BenchPaths
    <2> QED BY <2>1, <2>2 DEF MakePayload, At, Done, Continue
  <1>2. BenchTraffic /\ BenchMessages
    BY DEF BenchState, BenchInv
  <1>3. pc'[1] = "send_ids" /\ pc'[0] = pc[0]
    BY <1>1, BenchFacts
  <1>4. /\ pc' \in [Ranks -> Operations] /\ BenchLabels' /\ BenchCollectives' /\ BenchNames'
        /\ BenchTurns' /\ BenchGate'
    <2>1. /\ "make_payload" \in ToTarget \ {"to_target"} /\ "send_ids" \in ToTarget \ {"to_target"}
          /\ "send_ids" \in BenchDraft /\ "make_payload" \notin Collectives
      BY DEF ToTarget, ToDraft, BenchDraft, Collectives, Barriers, Timings
    <2>2. "send_ids" \in (IF 1 = 0 THEN BenchTarget ELSE BenchDraft) /\ 1 \in Ranks
      BY <2>1
    <2> HIDE DEF Ranks
    <2> QED BY <1>1, <2>1, <2>2, BenchOn
  <1>5. TargetKept
    BY <1>1, <1>3, BenchTargetStands
  <1>6. DraftKept
    <2>1. ~posted[1]
      BY <1>1 DEF BenchState, PostedOK, Collectives, Barriers, Timings
    <2> QED BY <1>1, <1>3, <2>1
             DEF DraftKept, BenchResultsTaken, BenchIdsOut, BenchLogitsOut, Past1, Past2, Sent1, Sent2, N,
                 Before, Gpu, ToTarget, ToDraft
  <1>7. BenchTraffic'
    BY <1>1, <1>2, <1>5, <1>6 DEF BenchTraffic, TargetKept, DraftKept
  <1>8. BenchMessages'
    <2>1. payload'[1].ids = <<turn[1]>> /\ payload'[1].logits = <<turn[1]>> /\ payload'[0] = payload[0]
      BY <1>1, BenchFacts
    <2> QED BY <1>1, <1>2, <1>3, <1>5, <1>6, <2>1 DEF BenchMessages, TargetKept, DraftKept
  <1>9. BenchSamples' /\ BenchGathered'
    BY <1>1, <1>5, <1>6, BenchSamplesSame, BenchGatheredSame DEF TargetKept, DraftKept
  <1> QED BY <1>1, <1>4, <1>7, <1>8, <1>9, BenchFacts DEF BenchAgain, BenchInv, BenchState

LEMMA BenchMakeResult ==
    ASSUME BenchState, NEW r \in Ranks, MakeResult(r) PROVE BenchAgain'
  <1> USE DEF TARGET_RANK, DRAFT_RANK, Ranks
  <1> DEFINE q == IF r = 0 THEN "send_result" ELSE "recv_result"
             x == [result[r] EXCEPT !.n = (turn[r] - 1) % 4, !.bonus = turn[r]]
  <1>1. /\ pc[r] = "make_result" /\ pc' = [pc EXCEPT ![r] = q]
        /\ result' = [result EXCEPT ![r] = x]
        /\ UNCHANGED <<launch, posted, turn, job, exit, entered, net, text, pending, payload, accepted,
                       clen, cursor, samples>>
    <2>1. pc[r] = "make_result" /\ launch.prog = "benchmark"
      BY DEF BenchState, MakeResult, At
    <2>2. Following("make_result", r) = q
      BY <2>1, BenchFollowing DEF BenchPaths
    <2> QED BY <2>1, <2>2 DEF MakeResult, At, Done, Continue
  <1>2. x.bonus = turn[r]
    <2>1. result[r] \in Answers
      BY BenchFacts
    <2> QED BY <2>1 DEF Answers
  <1> HIDE DEF x
  <1>3. BenchTraffic /\ BenchMessages
    BY DEF BenchState, BenchInv
  <1>4. pc'[r] = q /\ pc'[1 - r] = pc[1 - r]
    BY <1>1, BenchFacts
  <1>5. /\ pc' \in [Ranks -> Operations] /\ BenchLabels' /\ BenchCollectives' /\ BenchNames'
        /\ BenchTurns' /\ BenchGate'
    BY <1>1, BenchOn DEF ToTarget, ToDraft, BenchTarget, BenchDraft, Collectives, Barriers, Timings
  <1>6. ~posted[r]
    BY <1>1 DEF BenchState, PostedOK, Collectives, Barriers, Timings
  <1>7. TargetKept
    <2>1. CASE r = 0
      BY <1>1, <1>4, <1>6, <2>1
         DEF TargetKept, BenchIdsTaken, BenchLogitsTaken, BenchResultsOut, Past1, Past2, Sent1, Sent2, N,
             Before, Gpu, ToTarget, ToDraft
    <2>2. CASE r = 1
      BY <1>1, <1>4, <2>2, BenchTargetStands
    <2> QED BY <2>1, <2>2
  <1>8. DraftKept
    <2>1. CASE r = 1
      BY <1>1, <1>4, <2>1
         DEF DraftKept, BenchResultsTaken, BenchIdsOut, BenchLogitsOut, Past1, Past2, Sent1, Sent2, N,
             Before, Gpu, ToTarget, ToDraft
    <2>2. CASE r = 0
      BY <1>1, <1>4, <2>2, BenchDraftStands
    <2> QED BY <2>1, <2>2
  <1>9. BenchTraffic'
    BY <1>1, <1>3, <1>7, <1>8 DEF BenchTraffic, TargetKept, DraftKept
  <1>10. BenchMessages'
    <2>1. result'[r].bonus = turn[r] /\ result'[1 - r] = result[1 - r]
      BY <1>1, <1>2, BenchFacts
    <2>2. /\ pc'[0] = "send_result" => result'[0].bonus = turn[0]
          /\ pc'[1] = "sample_to_draft" => result'[1].bonus = turn[1]
      BY <1>3, <1>4, <2>1 DEF BenchMessages
    <2>3. /\ pc'[1] \in {"send_ids", "send_logits"} => pc[1] \in {"send_ids", "send_logits"}
          /\ pc'[0] \in {"recv_logits", "sample_to_target"} => pc[0] = pc'[0]
      BY <1>4
    <2> QED BY <1>1, <1>3, <1>7, <1>8, <2>2, <2>3 DEF BenchMessages, TargetKept, DraftKept
  <1>11. BenchSamples' /\ BenchGathered'
    BY <1>1, <1>7, <1>8, BenchSamplesSame, BenchGatheredSame DEF TargetKept, DraftKept
  <1> QED BY <1>1, <1>5, <1>9, <1>10, <1>11, BenchFacts DEF BenchAgain, BenchInv, BenchState

LEMMA AppendRun ==
    ASSUME NEW w \in Nat, NEW m \in Nat
    PROVE  Append([k \in 1 .. m |-> w + k], (w + m) + 1) = [k \in 1 .. m + 1 |-> w + k]
  <1> DEFINE s == [k \in 1 .. m |-> w + k]
  <1>1. s \in Seq(Nat) /\ Len(s) = m
    <2>1. s \in [1 .. m -> Nat]
      OBVIOUS
    <2> HIDE DEF s
    <2> QED BY <2>1, FunctionIsSeq
  <1>2. \A k \in 1 .. m : s[k] = w + k
    OBVIOUS
  <1> HIDE DEF s
  <1>3. Append(s, (w + m) + 1) = [k \in 1 .. m + 1 |-> w + k]
    BY <1>1, <1>2
  <1> QED BY <1>3 DEF s

\* A sample adds the turn's number to the lists of the direction, after the
\* warm-up.
LEMMA BenchTakeSample ==
    ASSUME BenchState, NEW r \in Ranks, NEW p \in {"sample_to_target", "sample_to_draft"},
           TakeSample(r, p)
    PROVE  BenchAgain'
  <1> USE DEF TARGET_RANK, DRAFT_RANK, Ranks
  <1> DEFINE q == IF p = "sample_to_target" THEN "to_target_barrier" ELSE "to_draft_barrier"
  <1>1. /\ pc[r] = p /\ pc' = [pc EXCEPT ![r] = q]
        /\ samples' = [samples EXCEPT ![r] =
                           [t \in Timings |-> IF t \in Lists(r, p) /\ turn[r] > launch.warmup
                                              THEN Append(@[t], turn[r]) ELSE @[t]]]
        /\ UNCHANGED <<launch, posted, turn, job, exit, entered, net, text, pending, payload, result,
                       accepted, clen, cursor>>
    <2>1. pc[r] = p /\ launch.prog = "benchmark"
      BY DEF BenchState, TakeSample, At
    <2>2. Following(p, r) = q
      BY <2>1, BenchFollowing DEF BenchPaths
    <2> QED BY <2>1, <2>2 DEF TakeSample, At, Done, Continue
  <1>2. BenchTraffic /\ BenchMessages /\ BenchSamples /\ BenchGathered /\ BenchTurns /\ BenchCollectives
    BY DEF BenchState, BenchInv
  <1>3. pc'[r] = q /\ pc'[1 - r] = pc[1 - r]
    BY <1>1, BenchFacts
  <1>4. /\ pc' \in [Ranks -> Operations] /\ BenchLabels' /\ BenchCollectives' /\ BenchNames'
        /\ BenchTurns' /\ BenchGate'
    BY <1>1, BenchOn DEF ToTarget, ToDraft, BenchTarget, BenchDraft, Collectives, Barriers, Timings
  <1>5. UNCHANGED <<BenchIdsTaken, BenchLogitsTaken, BenchResultsOut>>
    BY <1>1, <1>3 DEF BenchIdsTaken, BenchLogitsTaken, BenchResultsOut, Sent1, Sent2, N,
                      Before, Gpu, ToTarget, ToDraft
  <1>6. UNCHANGED <<BenchIdsOut, BenchLogitsOut, BenchResultsTaken>>
    BY <1>1, <1>3 DEF BenchIdsOut, BenchLogitsOut, BenchResultsTaken, Sent1, Sent2, N,
                      Before, Gpu, ToTarget, ToDraft
  <1>7. BenchTraffic'
    BY <1>1, <1>2, <1>5, <1>6 DEF BenchTraffic
  <1>8. BenchMessages'
    <2>1. q \notin {"send_result", "recv_logits", "sample_to_target", "sample_to_draft", "send_ids",
                    "send_logits"}
      OBVIOUS
    <2> HIDE DEF q
    <2> QED BY <1>1, <1>2, <1>3, <1>5, <1>6, <2>1 DEF BenchMessages
  <1>9. turn[r] \in Nat /\ launch.warmup \in Nat /\ turn[r] >= 1
    BY <1>1, <1>2, BenchFacts DEF BenchTurns, ToTarget, ToDraft
  <1>10. BenchSamples'
    <2>1. /\ p = "sample_to_target" => Past1(r) = turn[r] - 1 /\ Past1(r)' = turn[r] /\ Past2(r)' = Past2(r)
          /\ p = "sample_to_draft" => Past2(r) = turn[r] - 1 /\ Past2(r)' = turn[r] /\ Past1(r)' = Past1(r)
      BY <1>1, <1>3 DEF Past1, Past2, Sent1, Sent2, N, Before, Gpu, ToTarget, ToDraft
    <2>2. Past1(1 - r)' = Past1(1 - r) /\ Past2(1 - r)' = Past2(1 - r)
      BY <1>1, <1>3 DEF Past1, Past2, Sent1, Sent2, N
    <2>3. \A t \in Timings : t \in Lists(r, p) => Sampled(r, t) = turn[r] - 1 /\ Sampled(r, t)' = turn[r]
      BY <2>1 DEF Sampled, Lists
    <2>4. \A t \in Timings : t \notin Lists(r, p) => Sampled(r, t)' = Sampled(r, t)
      BY <2>1 DEF Sampled, Lists
    <2>5. \A t \in Timings : Sampled(1 - r, t)' = Sampled(1 - r, t)
      BY <2>2 DEF Sampled, Lists
    <2>6. samples'[1 - r] = samples[1 - r]
      BY <1>1, BenchFacts
    <2>7. \A t \in Timings : samples'[r][t] = IF t \in Lists(r, p) /\ turn[r] > launch.warmup
                                             THEN Append(samples[r][t], turn[r]) ELSE samples[r][t]
      BY <1>1, BenchFacts
    <2>8. ASSUME NEW t \in Timings
          PROVE  samples'[r][t] = [k \in 1 .. Sampled(r, t)' - launch.warmup |-> launch.warmup + k]
      <3>1. samples[r][t] = [k \in 1 .. Sampled(r, t) - launch.warmup |-> launch.warmup + k]
        BY <1>2 DEF BenchSamples
      <3>2. CASE t \notin Lists(r, p)
        BY <2>4, <2>7, <3>1, <3>2
      <3>3. CASE t \in Lists(r, p) /\ turn[r] > launch.warmup
        <4> DEFINE m == (turn[r] - 1) - launch.warmup
        <4>1. m \in Nat /\ turn[r] = (launch.warmup + m) + 1 /\ turn[r] - launch.warmup = m + 1
          BY <1>9, <3>3
        <4>2. samples[r][t] = [k \in 1 .. m |-> launch.warmup + k]
          BY <2>3, <3>1, <3>3
        <4> HIDE DEF m
        <4>3. samples'[r][t] = [k \in 1 .. m + 1 |-> launch.warmup + k]
          <5>1. samples'[r][t] = Append([k \in 1 .. m |-> launch.warmup + k], turn[r])
            BY <2>7, <3>3, <4>2
          <5> DEFINE w == launch.warmup
          <5>2. w \in Nat /\ turn[r] = (w + m) + 1
            BY <1>9, <4>1
          <5>3. samples'[r][t] = Append([k \in 1 .. m |-> w + k], (w + m) + 1)
            BY <5>1, <5>2
          <5> HIDE DEF w
          <5>4. samples'[r][t] = [k \in 1 .. m + 1 |-> w + k]
            BY <4>1, <5>2, <5>3, AppendRun
          <5> QED BY <5>4 DEF w
        <4> QED BY <2>3, <3>3, <4>1, <4>3
      <3>4. CASE t \in Lists(r, p) /\ ~(turn[r] > launch.warmup)
        <4>1. 1 .. (turn[r] - 1) - launch.warmup = {} /\ 1 .. turn[r] - launch.warmup = {}
          BY <1>9, <3>4
        <4> QED BY <2>3, <2>7, <3>1, <3>4, <4>1
      <3> QED BY <3>2, <3>3, <3>4
    <2>9. ASSUME NEW t \in Timings
          PROVE  samples'[1 - r][t] = [k \in 1 .. Sampled(1 - r, t)' - launch.warmup |-> launch.warmup + k]
      BY <1>2, <2>5, <2>6 DEF BenchSamples
    <2>10. \A s \in Ranks, t \in Timings :
               samples'[s][t] = [k \in 1 .. Sampled(s, t)' - launch.warmup |-> launch.warmup + k]
      <3> SUFFICES ASSUME NEW s \in Ranks, NEW t \in Timings
                   PROVE  samples'[s][t] = [k \in 1 .. Sampled(s, t)' - launch.warmup |-> launch.warmup + k]
        OBVIOUS
      <3>1. CASE s = r
        BY <2>8, <3>1
      <3>2. CASE s = 1 - r
        BY <2>9, <3>2
      <3> QED BY <3>1, <3>2
    <2>11. launch' = launch
      BY <1>1
    <2> QED BY <2>10, <2>11 DEF BenchSamples
  <1>11. BenchGathered'
    <2>1. Len(entered[r]) <= 4 + N + N
      <3>1. Now(r) = 0 /\ turn[r] <= N
        BY <1>1, <1>2 DEF Now, Collectives, Barriers, Timings, BenchTurns
      <3>2. BenchEntered(pc[r], turn[r]) <= 4 + N + N
        <4>1. \/ BenchEntered(pc[r], turn[r]) = 3 + (turn[r] - 1)
              \/ BenchEntered(pc[r], turn[r]) = 3 + N + (turn[r] - 1)
          BY <1>1, BenchEnteredOps DEF ToTarget, ToDraft
        <4>2. N \in Nat
          BY BenchFacts
        <4> DEFINE b == BenchEntered(pc[r], turn[r])  t == turn[r]
        <4>3. (b = 3 + (t - 1) \/ b = 3 + N + (t - 1)) /\ t \in Nat /\ t <= N /\ N \in Nat
          BY <1>9, <3>1, <4>1, <4>2
        <4> HIDE DEF b, t
        <4>4. b <= 4 + N + N
          BY <4>3
        <4> QED BY <4>4 DEF b
      <3>3. Len(entered[r]) = BenchEntered(pc[r], turn[r]) + Now(r)
        BY <1>2 DEF BenchCollectives
      <3>4. BenchEntered(pc[r], turn[r]) + 0 = BenchEntered(pc[r], turn[r])
        <4>1. \/ BenchEntered(pc[r], turn[r]) = 3 + (turn[r] - 1)
              \/ BenchEntered(pc[r], turn[r]) = 3 + N + (turn[r] - 1)
          BY <1>1, BenchEnteredOps DEF ToTarget, ToDraft
        <4>2. N \in Nat
          BY BenchFacts
        <4>3. BenchEntered(pc[r], turn[r]) \in Int
          BY <1>9, <4>1, <4>2
        <4> QED BY <4>3
      <3> QED BY <3>1, <3>2, <3>3, <3>4
    <2>2. samples'[1 - r] = samples[1 - r] /\ N' = N
      BY <1>1, BenchFacts DEF N
    <2>3. Len(entered[r]) \in Nat /\ N \in Nat
      BY BenchFacts
    <2>4. \A s \in Ranks, k \in Nat : k \in 1 .. Len(entered[s]) /\ k > 4 + N + N =>
              entered[s][k].brought = samples'[s][entered[s][k].what]
      <3> SUFFICES ASSUME NEW s \in Ranks, NEW k \in Nat, k \in 1 .. Len(entered[s]), k > 4 + N + N
                   PROVE  entered[s][k].brought = samples'[s][entered[s][k].what]
        OBVIOUS
      <3>1. s # r
        BY <2>1, <2>3
      <3>2. s = 1 - r
        BY <3>1
      <3> QED BY <1>2, <2>2, <3>2 DEF BenchGathered
    <2>5. \A s \in Ranks : Len(entered[s]) \in Nat
      BY BenchFacts
    <2>6. \A s \in Ranks : \A k \in 1 .. Len(entered[s]) :
              k > 4 + N + N => entered[s][k].brought = samples'[s][entered[s][k].what]
      BY <2>4, <2>5
    <2>7. entered' = entered
      BY <1>1
    <2> QED BY <2>2, <2>6, <2>7 DEF BenchGathered
  <1> QED BY <1>1, <1>4, <1>7, <1>8, <1>10, <1>11, BenchFacts DEF BenchAgain, BenchInv, BenchState

LEMMA BenchEnter ==
    ASSUME BenchState, NEW r \in Ranks, Enter(r) PROVE BenchAgain'
  <1> USE DEF TARGET_RANK, DRAFT_RANK, Ranks
  <1> DEFINE e == [what |-> pc[r], brought |-> Brings(r, pc[r])]
  <1>1. /\ pc[r] \in Collectives /\ ~posted[r] /\ posted' = [posted EXCEPT ![r] = TRUE]
        /\ entered' = [entered EXCEPT ![r] = Append(@, e)]
        /\ UNCHANGED <<launch, pc, turn, job, net, exit, data>>
    BY DEF Enter
  <1>2. /\ BenchLabels /\ BenchCollectives /\ BenchNames /\ BenchTurns /\ BenchGate /\ BenchTraffic
        /\ BenchMessages /\ BenchGathered /\ TypeOK
    BY DEF BenchState, BenchInv
  <1>3. pc[r] \in {"bind_barrier", "device", "distinct_barrier", "to_target_barrier",
                   "to_draft_barrier", "end_barrier"} \cup Timings
    BY <1>1, <1>2 DEF BenchLabels, BenchTarget, BenchDraft, Before, Gpu, ToTarget, ToDraft, Ended,
                      Collectives, Barriers, Timings
  <1>4. e \in Entries /\ e.what = pc[r] /\ (pc[r] \in Timings => e.brought = samples[r][pc[r]])
    BY <1>1, <1>2, BringsType DEF Brings, Timings
  <1> HIDE DEF e
  <1>5. /\ entered'[1 - r] = entered[1 - r] /\ Len(entered'[r]) = Len(entered[r]) + 1
        /\ entered'[r][Len(entered[r]) + 1] = e
        /\ \A k \in 1 .. Len(entered[r]) : entered'[r][k] = entered[r][k]
    <2>1. entered \in [Ranks -> Seq(Entries)]
      BY BenchFacts
    <2>2. entered'[1 - r] = entered[1 - r] /\ entered'[r] = Append(entered[r], e)
      BY <1>1, <2>1
    <2>3. entered[r] \in Seq(Entries)
      BY <2>1
    <2> QED BY <1>4, <2>2, <2>3, AppendProperties
  <1>6. Now(r) = 0 /\ Now(r)' = 1 /\ Now(1 - r)' = Now(1 - r) /\ N' = N /\ posted'[1 - r] = posted[1 - r]
    <2>1. 1 - r \in Ranks /\ 1 - r # r
      OBVIOUS
    <2>2. posted'[1 - r] = posted[1 - r] /\ posted'[r]
      BY <1>1, <2>1, BenchFacts
    <2> QED BY <1>1, <2>2 DEF Now, N
  <1>7. Len(entered[r]) = BenchEntered(pc[r], turn[r]) /\ Len(entered[r]) \in Nat
    <2>1. Len(entered[r]) = BenchEntered(pc[r], turn[r]) + 0 /\ Len(entered[r]) \in Nat
      BY <1>2, <1>6, BenchFacts DEF BenchCollectives
    <2>2. BenchEntered(pc[r], turn[r]) \in Int
      <3>1. turn[r] \in Nat /\ N \in Nat
        BY BenchFacts
      <3> QED BY <3>1 DEF BenchEntered, GpuEntered, GatherIndex
    <2> QED BY <2>1, <2>2
  <1>8. BenchCollectives'
    <2>1. \A p, t : BenchEntered(p, t)' = BenchEntered(p, t)
      BY <1>6 DEF BenchEntered
    <2>2. Len(entered[1 - r]) = BenchEntered(pc[1 - r], turn[1 - r]) + Now(1 - r)
      BY <1>2 DEF BenchCollectives
    <2>3. Len(entered'[r]) = BenchEntered(pc[r], turn[r]) + Now(r)'
      BY <1>5, <1>6, <1>7
    <2>4. \A s \in Ranks : Len(entered'[s]) = BenchEntered(pc[s], turn[s]) + Now(s)'
      <3>1. \A s \in Ranks : s = r \/ s = 1 - r
        OBVIOUS
      <3> QED BY <1>5, <1>6, <2>2, <2>3, <3>1
    <2> QED BY <1>1, <2>1, <2>4 DEF BenchCollectives
  <1>9. BenchAt(Len(entered[r]) + 1) = pc[r]
    <2>1. turn[r] \in Nat /\ turn[r] <= N /\ N \in Nat
      BY <1>2, BenchFacts DEF BenchTurns
    <2>2. pc[r] \in {"to_target_barrier", "to_draft_barrier"} => turn[r] >= 1
      BY <1>2 DEF BenchTurns, ToTarget, ToDraft
    <2>3. CASE pc[r] \in {"bind_barrier", "device", "distinct_barrier"}
      BY <1>7, <2>3 DEF BenchAt, BenchEntered, GpuEntered, Before, Gpu
    <2>4. CASE pc[r] = "to_target_barrier"
      <3>1. Len(entered[r]) = 3 + (turn[r] - 1)
        BY <1>7, <2>4 DEF BenchEntered, Before, Gpu, ToTarget
      <3> QED BY <2>1, <2>2, <2>4, <3>1 DEF BenchAt
    <2>5. CASE pc[r] = "to_draft_barrier"
      <3>1. Len(entered[r]) = 3 + N + (turn[r] - 1)
        BY <1>7, <2>5 DEF BenchEntered, Before, Gpu, ToTarget, ToDraft
      <3> QED BY <2>1, <2>2, <2>5, <3>1 DEF BenchAt
    <2>6. CASE pc[r] = "end_barrier"
      <3>1. Len(entered[r]) = 3 + N + N
        BY <1>7, <2>6 DEF BenchEntered, Before, Gpu, ToTarget, ToDraft
      <3> QED BY <2>1, <2>6, <3>1 DEF BenchAt
    <2>7. CASE pc[r] \in Timings
      <3>1. Len(entered[r]) = 4 + N + N + GatherIndex(pc[r])
        BY <1>7, <2>7 DEF BenchEntered, Before, Gpu, ToTarget, ToDraft, Timings
      <3> QED BY <2>1, <2>7, <3>1 DEF BenchAt, GatherIndex, Timings
    <2> QED BY <1>3, <2>3, <2>4, <2>5, <2>6, <2>7
  <1>10. BenchNames'
    <2>1. \A k : BenchAt(k)' = BenchAt(k)
      BY <1>6 DEF BenchAt
    <2>2. \A k \in 1 .. Len(entered[r]) + 1 : entered'[r][k].what = BenchAt(k)
      <3> SUFFICES ASSUME NEW k \in 1 .. Len(entered[r]) + 1
                   PROVE  entered'[r][k].what = BenchAt(k)
        OBVIOUS
      <3>1. CASE k = Len(entered[r]) + 1
        BY <1>4, <1>5, <1>9, <3>1
      <3>2. CASE k # Len(entered[r]) + 1
        <4>1. k \in 1 .. Len(entered[r])
          BY <1>7, <3>2
        <4>2. entered[r][k].what = BenchAt(k) /\ entered'[r][k] = entered[r][k]
          BY <1>2, <1>5, <4>1 DEF BenchNames
        <4> QED BY <4>2
      <3> QED BY <3>1, <3>2
    <2>3. \A s \in Ranks : \A k \in 1 .. Len(entered'[s]) : entered'[s][k].what = BenchAt(k)
      BY <1>2, <1>5, <2>2 DEF BenchNames
    <2> QED BY <2>1, <2>3 DEF BenchNames
  <1>11. BenchGate'
    <2>1. Len(entered'[r]) - Now(r)' = Len(entered[r]) - Now(r) /\ Len(entered'[r]) >= Len(entered[r])
      BY <1>5, <1>6, <1>7
    <2>a. Len(entered[0]) \in Nat /\ Len(entered[1]) \in Nat /\ N \in Nat /\ N' = N /\ pc' = pc
      BY <1>1, <1>6, BenchFacts
    <2>b. Now(0) \in {0, 1} /\ Now(1) \in {0, 1} /\ Now(0)' \in {0, 1} /\ Now(1)' \in {0, 1}
      BY DEF Now
    <2>c. \A s \in Ranks : s = r \/ s = 1 - r
      OBVIOUS
    <2>d. \A s \in Ranks : /\ Len(entered'[s]) - Now(s)' = Len(entered[s]) - Now(s)
                           /\ Len(entered'[s]) >= Len(entered[s]) /\ Len(entered'[s]) \in Nat
      <3>1. Len(entered'[1 - r]) = Len(entered[1 - r]) /\ Now(1 - r)' = Now(1 - r)
        BY <1>5, <1>6
      <3>2. Len(entered[1 - r]) \in Nat /\ Len(entered'[r]) \in Nat
        BY <1>5, <2>a
      <3> QED BY <2>1, <2>c, <3>1, <3>2
    <2> DEFINE a == Len(entered[0])  b == Len(entered[1])  w == Now(0)  v == Now(1)
               a1 == Len(entered'[0])  b1 == Len(entered'[1])  w1 == Now(0)'  v1 == Now(1)'
    <2>2. /\ a \in Nat /\ b \in Nat /\ N \in Nat /\ w \in Nat /\ v \in Nat
          /\ a1 \in Nat /\ b1 \in Nat /\ w1 \in Nat /\ v1 \in Nat
          /\ a1 - w1 = a - w /\ a1 >= a /\ b1 - v1 = b - v /\ b1 >= b
      BY <2>a, <2>b, <2>d
    <2>3. /\ a - w <= b
          /\ pc[1] \notin Ended => b - v <= a
          /\ pc[1] \in Ended => 4 + N + N <= a
      BY <1>2 DEF BenchGate
    <2> HIDE DEF a, b, w, v, a1, b1, w1, v1
    <2>4. a1 - w1 <= b1
      BY <2>2, <2>3
    <2>5. pc[1] \notin Ended => b1 - v1 <= a1
      BY <2>2, <2>3
    <2>6. pc[1] \in Ended => 4 + N + N <= a1
      BY <2>2, <2>3
    <2> QED BY <2>4, <2>5, <2>6, <2>a DEF BenchGate, a1, b1, w1, v1
  <1>12. TargetKept /\ DraftKept
    BY <1>1, <1>3, <1>6
       DEF TargetKept, DraftKept, BenchIdsTaken, BenchLogitsTaken, BenchResultsOut, BenchIdsOut,
           BenchLogitsOut, BenchResultsTaken, Past1, Past2, Sent1, Sent2, N, Timings
  <1>13. BenchTraffic' /\ BenchMessages' /\ BenchSamples'
    <2>1. BenchTraffic'
      BY <1>1, <1>2, <1>12 DEF BenchTraffic, TargetKept, DraftKept
    <2>2. BenchMessages'
      BY <1>1, <1>2, <1>12 DEF BenchMessages, TargetKept, DraftKept, data
    <2>3. BenchSamples'
      BY <1>1, <1>12, BenchSamplesSame DEF TargetKept, DraftKept, data
    <2> QED BY <2>1, <2>2, <2>3
  <1>14. BenchGathered'
    <2>1. Len(entered[r]) + 1 > 4 + N + N => pc[r] \in Timings
      <3>1. turn[r] \in Nat /\ turn[r] <= N /\ N \in Nat
        BY <1>2, BenchFacts DEF BenchTurns
      <3>2. pc[r] \notin Timings => BenchEntered(pc[r], turn[r]) <= 3 + N + N
        BY <1>3, <3>1 DEF BenchEntered, GpuEntered, Before, Gpu, ToTarget, ToDraft
      <3> QED BY <1>7, <3>1, <3>2
    <2>2. ASSUME NEW k \in 1 .. Len(entered[r]) + 1, k > 4 + N + N
          PROVE  entered'[r][k].brought = samples[r][entered'[r][k].what]
      <3>1. CASE k = Len(entered[r]) + 1
        BY <1>4, <1>5, <2>1, <2>2, <3>1
      <3>2. CASE k # Len(entered[r]) + 1
        <4>1. k \in 1 .. Len(entered[r])
          BY <1>7, <3>2
        <4>2. entered[r][k].brought = samples[r][entered[r][k].what]
          BY <1>2, <2>2, <4>1 DEF BenchGathered
        <4>3. entered'[r][k] = entered[r][k]
          BY <1>5, <4>1
        <4> QED BY <4>2, <4>3
      <3> QED BY <3>1, <3>2
    <2>3. \A s \in Ranks : \A k \in 1 .. Len(entered'[s]) :
              k > 4 + N + N => entered'[s][k].brought = samples[s][entered'[s][k].what]
      <3>1. \A s \in Ranks : s = r \/ s = 1 - r
        OBVIOUS
      <3>2. \A k \in 1 .. Len(entered'[1 - r]) :
                k > 4 + N + N => entered'[1 - r][k].brought = samples[1 - r][entered'[1 - r][k].what]
        BY <1>2, <1>5 DEF BenchGathered
      <3>3. \A k \in 1 .. Len(entered'[r]) :
                k > 4 + N + N => entered'[r][k].brought = samples[r][entered'[r][k].what]
        BY <1>5, <2>2
      <3> QED BY <3>1, <3>2, <3>3
    <2>4. N' = N /\ samples' = samples
      BY <1>1, <1>6 DEF data
    <2> QED BY <2>3, <2>4 DEF BenchGathered
  <1>15. BenchLabels' /\ BenchTurns'
    BY <1>1, <1>2, <1>6 DEF BenchLabels, BenchTurns
  <1> QED BY <1>1, <1>8, <1>10, <1>11, <1>13, <1>14, <1>15, BenchFacts
           DEF BenchAgain, BenchInv, BenchState, data

LEMMA BenchStep ==
    ASSUME BenchState, Next PROVE BenchAgain'
  <1> USE DEF TARGET_RANK, DRAFT_RANK, Ranks
  <1>1. pc[0] \in BenchTarget /\ pc[1] \in BenchDraft
    BY DEF BenchState, BenchInv, BenchLabels
  <1>2. \A r \in Ranks : pc[r] \notin {"jobs", "prefill", "round", "verify_and_accept", "compare", "median",
                                      "speculative_step", "flush", "generate_drafts", "draft_gamma",
                                      "sync_draft_prefix", "apply_target_feedback"}
    BY <1>1 DEF BenchTarget, BenchDraft, Before, Gpu, ToTarget, ToDraft, Ended, Timings
  <1>3. ASSUME NEW r \in Ranks, Step(r) PROVE BenchAgain'
    <2>1. ~Jobs(r) /\ ~JobPrefill(r) /\ ~Round(r)
      BY <1>2 DEF Jobs, JobPrefill, Round, At
    <2> QED BY <1>3, <2>1, BenchMovesOn, BenchFor, BenchLeaveCollective, BenchEnter, BenchSendReturns,
                BenchMakeResult, BenchTakeSample DEF Step
  <1>4. CASE TargetStep
    <2>1. ~Compare /\ ~Median /\ ~FlushPendingBonus
      BY <1>2 DEF Compare, Median, FlushPendingBonus, At
    <2>2. \A n, b : ~SpeculativeStep(n, b) /\ ~VerifyAndAccept(n, b)
      BY <1>2 DEF SpeculativeStep, VerifyAndAccept, At
    <2>3. Summarise => BenchAgain'
      BY BenchMovesOn
    <2> QED BY <1>3, <1>4, <2>1, <2>2, <2>3, BenchRecvDraftIds, BenchRecvDraftLogits,
                BenchSendTargetResult DEF TargetStep
  <1>5. CASE DraftStep
    <2>1. ~GenerateDrafts /\ ~SyncDraftPrefix /\ ~ApplyTargetFeedback /\ \A ids : ~DraftGamma(ids)
      BY <1>2 DEF GenerateDrafts, SyncDraftPrefix, ApplyTargetFeedback, DraftGamma, At
    <2> QED BY <1>3, <1>5, <2>1, BenchSendDraftIds, BenchSendDraftLogits, BenchRecvTargetResult,
                BenchMakePayload DEF DraftStep
  <1> QED BY <1>4, <1>5 DEF Next

LEMMA BenchInit ==
    ASSUME Init, launch.prog = "benchmark" PROVE BenchInv
  <1> USE DEF TARGET_RANK, DRAFT_RANK, Ranks
  <1>1. /\ pc[0] = "check" /\ pc[1] = "check" /\ ~posted[0] /\ ~posted[1]
        /\ turn[0] = 0 /\ turn[1] = 0 /\ entered[0] = <<>> /\ entered[1] = <<>>
        /\ net["ids"] = <<>> /\ net["logits"] = <<>> /\ net["result"] = <<>>
        /\ samples = [r \in Ranks |-> [t \in Timings |-> <<>>]]
        /\ launch.warmup \in Nat /\ launch.trials \in Nat
    BY LaunchFacts DEF Init, Messages
  <1>2. N \in Nat /\ Now(0) = 0 /\ Now(1) = 0 /\ Len(entered[0]) = 0 /\ Len(entered[1]) = 0
    BY <1>1 DEF N, Now
  <1>3. BenchLabels /\ BenchTurns
    BY <1>1, <1>2 DEF BenchLabels, BenchTarget, BenchDraft, BenchTurns, Before, Gpu, ToTarget, ToDraft
  <1>4. BenchCollectives /\ BenchNames /\ BenchGathered
    <2>1. BenchEntered("check", 0) = 0
      BY BenchEnteredOps
    <2> QED BY <1>1, <1>2, <2>1 DEF BenchCollectives, BenchNames, BenchGathered
  <1>5. BenchGate
    BY <1>1, <1>2 DEF BenchGate, Ended, Timings
  <1>6. /\ BenchIdsOut = 0 /\ BenchIdsTaken = 0 /\ BenchLogitsOut = 0 /\ BenchLogitsTaken = 0
        /\ BenchResultsOut = 0 /\ BenchResultsTaken = 0
        /\ Past1(0) = 0 /\ Past1(1) = 0 /\ Past2(0) = 0 /\ Past2(1) = 0
    BY <1>1 DEF BenchIdsOut, BenchIdsTaken, BenchLogitsOut, BenchLogitsTaken, BenchResultsOut,
                BenchResultsTaken, Past1, Past2, Sent1, Sent2, Before
  <1>7. BenchTraffic /\ BenchMessages
    BY <1>1, <1>6 DEF BenchTraffic, BenchMessages
  <1>8. BenchSamples
    <2>1. \A r \in Ranks, t \in Timings : Sampled(r, t) = 0
      BY <1>6 DEF Sampled
    <2>2. 1 .. 0 - launch.warmup = {}
      BY <1>1
    <2>3. [k \in 1 .. 0 - launch.warmup |-> launch.warmup + k] = <<>>
      BY <2>2
    <2>4. \A r \in Ranks, t \in Timings : samples[r][t] = <<>>
      BY <1>1
    <2> QED BY <2>1, <2>3, <2>4 DEF BenchSamples
  <1> QED BY <1>3, <1>4, <1>5, <1>7, <1>8 DEF BenchInv

\* What the invariant says of the properties, for the benchmark.
LEMMA BenchNothingCrossesABarrier ==
    ASSUME BenchState PROVE NothingCrossesABarrier
  <1> USE DEF TARGET_RANK, DRAFT_RANK, Ranks
  <1>1. \A k \in DOMAIN entered[0] \cap DOMAIN entered[1] : entered[0][k].what = entered[1][k].what
    <2>1. DOMAIN entered[0] = 1 .. Len(entered[0]) /\ DOMAIN entered[1] = 1 .. Len(entered[1])
      BY BenchFacts
    <2>2. BenchNames
      BY DEF BenchState, BenchInv
    <2> QED BY <2>1, <2>2 DEF BenchNames
  <1>2. /\ BenchIdsOut \in Nat /\ BenchIdsTaken \in Nat /\ BenchLogitsOut \in Nat
        /\ BenchLogitsTaken \in Nat /\ BenchResultsOut \in Nat /\ BenchResultsTaken \in Nat
    BY BenchOuts, BenchTakens
  <1>3. Len(entered[0]) > Len(entered[1]) => net["ids"] = <<>> /\ net["logits"] = <<>>
    <2>1. Len(entered[0]) > Len(entered[1]) =>
              BenchIdsOut <= BenchIdsTaken /\ BenchLogitsOut <= BenchLogitsTaken
      BY BenchFlight
    <2>2. net["ids"] # <<>> => BenchIdsOut = BenchIdsTaken + 1
      BY BenchQueues
    <2>3. net["logits"] # <<>> => BenchLogitsOut = BenchLogitsTaken + 1
      BY BenchQueues
    <2> QED BY <1>2, <2>1, <2>2, <2>3
  <1>4. Len(entered[1]) > Len(entered[0]) => net["result"] = <<>>
    <2>1. Len(entered[1]) > Len(entered[0]) => BenchResultsOut <= BenchResultsTaken
      BY BenchFlight
    <2>2. net["result"] # <<>> => BenchResultsOut = BenchResultsTaken + 1
      BY BenchQueues
    <2> QED BY <1>2, <2>1, <2>2
  <1>5. \A m \in Messages : Len(net[m]) <= 1
    <2>1. /\ net["ids"] # <<>> => Len(net["ids"]) = 1
          /\ net["logits"] # <<>> => Len(net["logits"]) = 1
          /\ net["result"] # <<>> => Len(net["result"]) = 1
      BY BenchQueues
    <2>2. \A m \in Messages : net[m] # <<>> => Len(net[m]) = 1
      BY <2>1 DEF Messages
    <2>3. \A m \in Messages : net[m] = <<>> => Len(net[m]) = 0
      OBVIOUS
    <2>4. ASSUME NEW m \in Messages PROVE Len(net[m]) <= 1
      <3>1. Len(net[m]) = 0 \/ Len(net[m]) = 1
        BY <2>2, <2>3
      <3> DEFINE e == Len(net[m])
      <3>2. e = 0 \/ e = 1
        BY <3>1
      <3> HIDE DEF e
      <3>3. e <= 1
        BY <3>2
      <3> QED BY <3>3 DEF e
    <2> QED BY <2>4
  <1> QED BY <1>1, <1>3, <1>4, <1>5 DEF NothingCrossesABarrier

\* Every gather is at one place in the list of collectives.
LEMMA BenchGatherAt ==
    ASSUME N \in Nat, NEW t \in Timings, NEW k \in Nat
    PROVE  BenchAt(5 + N + N + GatherIndex(t)) = t /\ GatherIndex(t) \in 0 .. 5
           /\ (BenchAt(k) = t /\ k <= 10 + N + N => k = 5 + N + N + GatherIndex(t))
  <1>1. GatherIndex(t) \in 0 .. 5
    BY DEF GatherIndex
  <1>2. BenchAt(5 + N + N + GatherIndex(t)) = t
    BY DEF BenchAt, GatherIndex, Timings
  <1>3. BenchAt(k) = t => k > 4 + N + N
    <2>1. t \notin {"bind_barrier", "device", "distinct_barrier", "to_target_barrier",
                    "to_draft_barrier", "end_barrier"}
      BY DEF Timings
    <2> QED BY <2>1 DEF BenchAt
  <1>4. ASSUME BenchAt(k) = t, k > 4 + N + N, k <= 10 + N + N
        PROVE  k = 5 + N + N + GatherIndex(t)
    <2>1. \/ k = 5 + N + N \/ k = 6 + N + N \/ k = 7 + N + N \/ k = 8 + N + N \/ k = 9 + N + N
          \/ k = 10 + N + N
      BY <1>4
    <2>2. /\ BenchAt(5 + N + N) = "draft_d2h" /\ BenchAt(6 + N + N) = "draft_mpi"
          /\ BenchAt(7 + N + N) = "target_mpi" /\ BenchAt(8 + N + N) = "target_h2d"
          /\ BenchAt(9 + N + N) = "target_send" /\ BenchAt(10 + N + N) = "draft_recv"
      BY DEF BenchAt
    <2>3. /\ GatherIndex("draft_d2h") = 0 /\ GatherIndex("draft_mpi") = 1 /\ GatherIndex("target_mpi") = 2
          /\ GatherIndex("target_h2d") = 3 /\ GatherIndex("target_send") = 4
          /\ GatherIndex("draft_recv") = 5
      BY DEF GatherIndex
    <2> QED BY <1>4, <2>1, <2>2, <2>3
  <1> QED BY <1>1, <1>2, <1>3, <1>4

\* When the target summarises both ranks have gathered every list.
LEMMA BenchSamplesPaired ==
    ASSUME BenchState PROVE SamplesPaired
  <1> USE DEF TARGET_RANK, DRAFT_RANK, Ranks
  <1>1. /\ BenchLabels /\ BenchCollectives /\ BenchNames /\ BenchTurns /\ BenchGate
        /\ BenchMessages /\ BenchSamples /\ BenchGathered
    BY DEF BenchState, BenchInv
  <1>2. /\ launch.warmup \in Nat /\ launch.trials \in Nat /\ N \in Nat
        /\ entered \in [Ranks -> Seq(Entries)]
        /\ turn[1] \in Nat /\ turn[1] <= N /\ Now(0) \in {0, 1} /\ Now(1) \in {0, 1}
    BY <1>1, BenchFacts DEF BenchTurns
  <1>3. ASSUME pc[0] = "summarise", NEW t \in Timings
        PROVE  Gathered(t) = [k \in 1 .. launch.trials |-> launch.warmup + k]
    <2>1. Len(entered[0]) = 10 + N + N
      <3>1. BenchEntered(pc[0], turn[0]) = 10 + N + N
        BY <1>3, BenchEnteredOps
      <3>2. Now(0) = 0
        BY <1>3 DEF Now, Collectives, Barriers, Timings
      <3> QED BY <1>1, <1>2, <3>1, <3>2 DEF BenchCollectives
    <2>2. Len(entered[1]) >= 10 + N + N
      <3>1. Now(0) = 0
        BY <1>3 DEF Now, Collectives, Barriers, Timings
      <3> QED BY <1>1, <1>2, <2>1, <3>1 DEF BenchGate
    <2>3. pc[1] \in Ended
      <3>1. Len(entered[1]) = BenchEntered(pc[1], turn[1]) + Now(1)
        BY <1>1 DEF BenchCollectives
      <3>2. CASE pc[1] \in Before
        <4>1. BenchEntered(pc[1], turn[1]) = 0 \/ BenchEntered(pc[1], turn[1]) = 1
                  \/ BenchEntered(pc[1], turn[1]) = 2
          BY <3>2, BenchEnteredOps DEF Before, Gpu
        <4> QED BY <1>2, <2>2, <3>1, <4>1
      <3>3. CASE pc[1] \in ToTarget \cup ToDraft \cup {"end_barrier"}
        <4>1. \/ BenchEntered(pc[1], turn[1]) = 3 + turn[1]
              \/ BenchEntered(pc[1], turn[1]) = 3 + (turn[1] - 1)
              \/ BenchEntered(pc[1], turn[1]) = 3 + N + turn[1]
              \/ BenchEntered(pc[1], turn[1]) = 3 + N + (turn[1] - 1)
              \/ BenchEntered(pc[1], turn[1]) = 3 + N + N
          BY <3>3, BenchEnteredOps
        <4> DEFINE e == Len(entered[1])  b == BenchEntered(pc[1], turn[1])  w == Now(1)  u == turn[1]
        <4>2. /\ e = b + w /\ w \in {0, 1} /\ u \in Nat /\ u <= N /\ N \in Nat
              /\ b = 3 + u \/ b = 3 + (u - 1) \/ b = 3 + N + u \/ b = 3 + N + (u - 1) \/ b = 3 + N + N
          BY <1>2, <3>1, <4>1
        <4> HIDE DEF e, b, w, u
        <4>3. ~(e >= 10 + N + N)
          BY <4>2
        <4> QED BY <2>2, <4>3 DEF e
      <3> QED BY <1>1, <3>2, <3>3 DEF BenchLabels, BenchDraft
    <2>4. \A r \in Ranks : Past1(r) = N /\ Past2(r) = N
      <3>1. pc[0] \in Ended
        BY <1>3 DEF Ended
      <3>2. \A p \in Ended : p \notin Before \cup ToTarget \cup ToDraft
        BY DEF Ended, Timings, Before, Gpu, ToTarget, ToDraft
      <3> QED BY <2>3, <3>1, <3>2 DEF Past1, Past2, Sent1, Sent2
    <2> DEFINE g == 5 + N + N + GatherIndex(t)
    <2>5. g \in Nat /\ g > 4 + N + N /\ g <= 10 + N + N /\ BenchAt(g) = t
      <3>1. GatherIndex(t) \in 0 .. 5 /\ BenchAt(g) = t /\ 0 \in Nat
        BY <1>2, BenchGatherAt
      <3> DEFINE x == GatherIndex(t)
      <3>2. x \in 0 .. 5 /\ N \in Nat /\ g = 5 + N + N + x
        BY <1>2, <3>1
      <3> HIDE DEF g, x
      <3>3. g \in Nat /\ g > 4 + N + N /\ g <= 10 + N + N
        BY <3>2
      <3> QED BY <3>1, <3>3
    <2>6. \A k \in Nat : BenchAt(k) = t /\ k <= 10 + N + N => k = g
      BY <1>2, BenchGatherAt
    <2> HIDE DEF g
    <2>7. g \in 1 .. Len(entered[0]) /\ g \in 1 .. Len(entered[1])
      <3>1. Len(entered[0]) \in Nat /\ Len(entered[1]) \in Nat
        BY <1>2
      <3> QED BY <1>2, <2>1, <2>2, <2>5, <3>1
    <2>8. entered[0][g].what = t /\ entered[1][g].what = t
      BY <1>1, <2>5, <2>7 DEF BenchNames
    <2>9. entered[0][g].brought = samples[0][t] /\ entered[1][g].brought = samples[1][t]
      BY <1>1, <2>5, <2>7, <2>8 DEF BenchGathered
    <2>10. (CHOOSE k \in DOMAIN entered[0] : entered[0][k].what = t) = g
      <3>1. DOMAIN entered[0] = 1 .. Len(entered[0])
        BY <1>2
      <3>2. ASSUME NEW k \in DOMAIN entered[0], entered[0][k].what = t PROVE k = g
        <4>1. k \in Nat /\ k <= 10 + N + N /\ BenchAt(k) = t
          BY <1>1, <1>2, <2>1, <3>1, <3>2 DEF BenchNames
        <4> QED BY <2>6, <4>1
      <3> QED BY <2>7, <2>8, <3>1, <3>2
    <2>11. Gathered(t) = samples[0][t] \o samples[1][t]
      BY <2>9, <2>10 DEF Gathered
    <2>12. \A r \in Ranks : samples[r][t] =
              [k \in 1 .. (IF t \in Lists(r, "sample_to_target") \cup Lists(r, "sample_to_draft")
                          THEN N ELSE 0) - launch.warmup |-> launch.warmup + k]
      BY <1>1, <2>4 DEF BenchSamples, Sampled
    <2>13. N - launch.warmup = launch.trials
      BY <1>2 DEF N
    <2> DEFINE run == [k \in 1 .. launch.trials |-> launch.warmup + k]
    <2>14. [k \in 1 .. 0 - launch.warmup |-> launch.warmup + k] = <<>>
      <3>1. 1 .. 0 - launch.warmup = {}
        BY <1>2
      <3> QED BY <3>1
    <2>15. \/ samples[0][t] = run /\ samples[1][t] = <<>>
           \/ samples[1][t] = run /\ samples[0][t] = <<>>
      <3>1. CASE t \in {"target_mpi", "target_h2d", "target_send"}
        <4>1. /\ t \in Lists(0, "sample_to_target") \cup Lists(0, "sample_to_draft")
              /\ t \notin Lists(1, "sample_to_target") \cup Lists(1, "sample_to_draft")
          BY <3>1 DEF Lists
        <4>2. samples[0][t] = run /\ samples[1][t] = <<>>
          BY <2>12, <2>13, <2>14, <4>1
        <4> QED BY <4>2
      <3>2. CASE t \in {"draft_d2h", "draft_mpi", "draft_recv"}
        <4>1. /\ t \in Lists(1, "sample_to_target") \cup Lists(1, "sample_to_draft")
              /\ t \notin Lists(0, "sample_to_target") \cup Lists(0, "sample_to_draft")
          BY <3>2 DEF Lists
        <4>2. samples[1][t] = run /\ samples[0][t] = <<>>
          BY <2>12, <2>13, <2>14, <4>1
        <4> QED BY <4>2
      <3> QED BY <3>1, <3>2 DEF Timings
    <2>16. run \in Seq(Nat)
      <3>1. run \in [1 .. launch.trials -> Nat]
        BY <1>2
      <3> QED BY <1>2, <3>1, FunctionIsSeq
    <2> HIDE DEF run
    <2>17. Gathered(t) = run
      BY <2>11, <2>15, <2>16, ConcatEmptySeq
    <2> QED BY <2>17 DEF run
  <1> QED BY <1>1, <1>3 DEF SamplesPaired, At, BenchMessages

-----------------------------------------------------------------------------
(* The benchmark worker *)

WorkerPaths ==
    /\ \A r \in Ranks :
           /\ Following("check", r) = "bind" /\ Following("bind", r) = "jobs"
           /\ Following("start_barrier", r) = "prefill" /\ Following("prefill", r) = "round"
           /\ Following("stop_barrier", r) = "runs" /\ Following("return", r) = "return"
    /\ Following("median", TARGET_RANK) = "jobs" /\ Following("flush", TARGET_RANK) = "stop_barrier"
    /\ Following("recv_ids", TARGET_RANK) = "recv_logits"
    /\ Following("recv_logits", TARGET_RANK) = "speculative_step"
    /\ Following("speculative_step", TARGET_RANK) = "send_result"
    /\ Following("send_result", TARGET_RANK) = "round"
    /\ Following("generate_drafts", DRAFT_RANK) = "send_ids"
    /\ Following("send_ids", DRAFT_RANK) = "send_logits"
    /\ Following("send_logits", DRAFT_RANK) = "recv_result"
    /\ Following("recv_result", DRAFT_RANK) = "apply_target_feedback"
    /\ Following("apply_target_feedback", DRAFT_RANK) = "round"

\* The worker's program, operation by operation.
LEMMA WorkerFollowing ==
    ASSUME launch.prog = "worker" PROVE WorkerPaths
  BY DEF WorkerPaths, Following, RunMpi, MpiRunJob, TargetRound, DraftRound, Ranks, TARGET_RANK,
         DRAFT_RANK

WorkerState == TypeOK /\ PostedOK /\ CheckedOK /\ launch.prog = "worker" /\ WorkerInv
WorkerAgain ==
    /\ launch.prog = "worker" /\ WorkerInv
    /\ pc \in [Ranks -> Operations] /\ text \in [Ranks -> Seq(Token)] /\ cursor \in [Ranks -> Nat]

LEMMA WorkerFacts ==
    ASSUME WorkerState
    PROVE  /\ pc \in [Ranks -> Operations] /\ posted \in [Ranks -> BOOLEAN]
           /\ exit \in [Ranks -> {Running, 0, 1, 2, 3, Raised}]
           /\ entered \in [Ranks -> Seq(Entries)]
           /\ net \in [Messages -> Seq(Seq(Rows) \cup Answers)]
           /\ net["ids"] \in Seq(Seq(Nat)) /\ net["logits"] \in Seq(Seq(Rows))
           /\ net["result"] \in Seq(Answers)
           /\ payload \in [Ranks -> Payloads] /\ result \in [Ranks -> Answers]
           /\ accepted \in [Ranks -> Seq(Nat)]
           /\ text \in [Ranks -> Seq(Token)] /\ cursor \in [Ranks -> Nat] /\ clen \in [Ranks -> Nat]
           /\ pending \in Nat \cup {NoToken}
  <1>1. /\ pc \in [Ranks -> Operations] /\ posted \in [Ranks -> BOOLEAN]
        /\ exit \in [Ranks -> {Running, 0, 1, 2, 3, Raised}]
    BY DEF WorkerState, TypeOK, ControlOK
  <1>2. /\ entered \in [Ranks -> Seq(Entries)]
        /\ net \in [Messages -> Seq(Seq(Rows) \cup Answers)]
        /\ net["ids"] \in Seq(Seq(Nat)) /\ net["logits"] \in Seq(Seq(Rows))
        /\ net["result"] \in Seq(Answers)
    BY DEF WorkerState, TypeOK, QueuesOK
  <1>3. /\ payload \in [Ranks -> Payloads] /\ result \in [Ranks -> Answers]
        /\ accepted \in [Ranks -> Seq(Nat)]
        /\ text \in [Ranks -> Seq(Token)] /\ cursor \in [Ranks -> Nat] /\ clen \in [Ranks -> Nat]
        /\ pending \in Nat \cup {NoToken}
    BY DEF WorkerState, TypeOK, DataOK
  <1> QED BY <1>1, <1>2, <1>3

LEMMA WorkerSizes ==
    ASSUME WorkerState
    PROVE  /\ launch.gamma \in Nat /\ launch.nNew \in Nat /\ launch.maxSeq \in Nat
           /\ launch.trials \in Nat /\ PromptLen \in Nat /\ Len(Bonus) \in Nat
           /\ \A r \in Ranks : /\ Rounds(r) \in Nat /\ Written(r) \in Nat /\ Now(r) \in {0, 1}
                               /\ Len(entered[r]) \in Nat /\ Len(accepted[r]) \in Nat
                               /\ clen[r] \in Nat /\ cursor[r] \in Nat
           /\ Traffic(Rounds(0), Rounds(1))
  <1>1. /\ launch.gamma \in Nat /\ launch.nNew \in Nat /\ launch.maxSeq \in Nat
        /\ launch.trials \in Nat /\ PromptLen \in Nat
    BY LaunchFacts DEF WorkerState, TypeOK, ControlOK, PromptLen
  <1>2. Len(Bonus) \in Nat
    BY WorkerFacts, BonusType
  <1>3. \A r \in Ranks : /\ Len(entered[r]) \in Nat /\ Len(accepted[r]) \in Nat
                         /\ clen[r] \in Nat /\ cursor[r] \in Nat
    BY WorkerFacts
  <1>4. \A r \in Ranks : Rounds(r) \in Nat /\ Written(r) \in Nat /\ Now(r) \in {0, 1}
    BY <1>1, <1>3 DEF Rounds, Written, Now
  <1>5. Traffic(Rounds(0), Rounds(1))
    BY DEF WorkerState, WorkerInv, WorkerTraffic, TARGET_RANK, DRAFT_RANK
  <1> QED BY <1>1, <1>2, <1>3, <1>4, <1>5

\* A step of rank r, not in a collective, to operation q.
WorkerGoes(r, q) ==
    /\ q \in IF r = 0 THEN WorkerTarget ELSE WorkerDraft
    /\ pc' = [pc EXCEPT ![r] = q] /\ UNCHANGED <<launch, entered>>
    /\ posted'[1 - r] = posted[1 - r]
    /\ pc[r] \notin Collectives /\ (q \in Collectives => ~posted'[r])
    /\ Inside(q) = Inside(pc[r])

LEMMA WorkerMoves ==
    ASSUME WorkerState, NEW r \in Ranks, NEW q, WorkerGoes(r, q)
    PROVE  /\ WorkerLabels' /\ WorkerCollectives' /\ WorkerNames' /\ WorkerGate'
           /\ pc' \in [Ranks -> Operations] /\ pc'[r] = q /\ pc'[1 - r] = pc[1 - r]
           /\ Counting(1 - r)' = Counting(1 - r)
           /\ Counting(r) <=> pc[r] \in InRun
           /\ Counting(r)' <=> q \in InRun
  <1> USE DEF TARGET_RANK, DRAFT_RANK, Ranks
  <1>1. WorkerLabels /\ WorkerCollectives /\ WorkerNames /\ WorkerGate
    BY DEF WorkerState, WorkerInv
  <1>2. /\ pc' = [pc EXCEPT ![r] = q] /\ UNCHANGED <<launch, entered>>
        /\ posted'[1 - r] = posted[1 - r] /\ pc'[r] = q /\ pc'[1 - r] = pc[1 - r]
    BY WorkerFacts DEF WorkerGoes
  <1>3. WorkerLabels'
    BY <1>1, <1>2 DEF WorkerGoes, WorkerLabels
  <1>4. pc' \in [Ranks -> Operations]
    <2>1. q \in Operations
      BY DEF WorkerGoes, Operations
    <2> QED BY <1>2, <2>1, WorkerFacts
  <1>5. Now(r) = 0 /\ Now(r)' = 0 /\ Now(1 - r)' = Now(1 - r)
    BY <1>2 DEF WorkerGoes, Now
  <1>6. \A s \in Ranks : s = r \/ s = 1 - r
    OBVIOUS
  <1>7. WorkerCollectives'
    <2>1. Inside(pc[r])' = Inside(pc[r]) /\ Inside(pc[1 - r])' = Inside(pc[1 - r])
      BY <1>2 DEF WorkerGoes, Inside
    <2>2. \A s \in Ranks : Inside(pc[s])' = Inside(pc[s]) /\ Now(s)' = Now(s)
      BY <1>5, <1>6, <2>1
    <2> QED BY <1>1, <1>2, <2>2 DEF WorkerCollectives
  <1>8. WorkerNames'
    BY <1>1, <1>2 DEF WorkerNames, WorkerAt
  <1>9. WorkerGate'
    <2>1. \A s \in Ranks : Now(s)' = Now(s)
      BY <1>5, <1>6
    <2> QED BY <1>1, <1>2, <2>1 DEF WorkerGate, Other
  <1>10. Counting(1 - r)' = Counting(1 - r)
    BY <1>2 DEF Counting, Over, Other
  <1>11. (Counting(r) <=> pc[r] \in InRun) /\ (Counting(r)' <=> q \in InRun)
    BY <1>2 DEF WorkerGoes, Counting, Over, Collectives, Barriers
  <1> QED BY <1>2, <1>3, <1>4, <1>7, <1>8, <1>9, <1>10, <1>11

\* What belongs to the other rank stands.
LEMMA WorkerOther ==
    ASSUME WorkerState, NEW r \in Ranks, UNCHANGED launch, pc'[1 - r] = pc[1 - r],
           Counting(1 - r)' = Counting(1 - r), accepted'[1 - r] = accepted[1 - r],
           clen'[1 - r] = clen[1 - r], exit'[1 - r] = exit[1 - r], cursor'[1 - r] = cursor[1 - r], r = 1 => pending' = pending
    PROVE  /\ Rounds(1 - r)' = Rounds(1 - r) /\ Written(1 - r)' = Written(1 - r)
           /\ RoomAt(pc[1 - r], clen[1 - r])'
           /\ r = 0 => DraftCursor'
           /\ r = 1 => TargetCursor'
  <1> USE DEF TARGET_RANK, DRAFT_RANK, Ranks
  <1>1. WorkerRoom /\ TargetCursor /\ DraftCursor
    BY DEF WorkerState, WorkerInv, WorkerCursors
  <1>2. Rounds(1 - r)' = Rounds(1 - r) /\ Written(1 - r)' = Written(1 - r)
    BY DEF Rounds, Written, PromptLen
  <1>3. RoomAt(pc[1 - r], clen[1 - r])'
    BY <1>1 DEF WorkerRoom, RoomAt, PromptLen
  <1>4. r = 0 => DraftCursor'
    BY <1>1 DEF DraftCursor, Ahead
  <1>5. r = 1 => TargetCursor'
    BY <1>1 DEF TargetCursor, Bonus
  <1> QED BY <1>2, <1>3, <1>4, <1>5

\* WorkerFits survives a step unless a rank with room for everything raises for
\* another reason than its own.
LEMMA WorkerFitsStep ==
    ASSUME WorkerState, NEW r \in Ranks, UNCHANGED launch,
           exit[1] # Raised \/ result'[1] = result[1],
           \/ exit' = exit
           \/ \E s \in {0, 1, 2, 3, Raised} :
                  /\ exit' = [exit EXCEPT ![r] = s]
                  /\ s = Raised =>
                        \/ ~(PromptLen + launch.nNew + launch.gamma <= launch.maxSeq)
                        \/ r = 0 /\ launch.trials = 0
                        \/ r = 1 /\ CannotEmbed'
    PROVE  WorkerFits'
  <1> USE DEF TARGET_RANK, DRAFT_RANK, Ranks
  <1>1. WorkerFits
    BY DEF WorkerState, WorkerInv
  <1>2. HasRoom' = HasRoom
    BY DEF HasRoom, PromptLen
  <1>3. exit[1] = Raised => CannotEmbed' = CannotEmbed
    BY DEF CannotEmbed
  <1>4. ASSUME HasRoom, exit'[0] = Raised, exit[0] # Raised PROVE launch.trials = 0
    BY <1>4, WorkerFacts DEF HasRoom
  <1>5. ASSUME HasRoom, exit'[1] = Raised, exit[1] # Raised PROVE CannotEmbed'
    BY <1>5, WorkerFacts DEF HasRoom
  <1>6. ASSUME HasRoom, launch.prog = "worker" PROVE exit'[0] = Raised => launch.trials = 0
    BY <1>1, <1>4, <1>6 DEF WorkerFits
  <1>7. ASSUME HasRoom, launch.prog = "worker" PROVE exit'[1] = Raised => CannotEmbed'
    BY <1>1, <1>3, <1>5, <1>7 DEF WorkerFits
  <1> QED BY <1>2, <1>6, <1>7 DEF WorkerFits

\* A step that only moves on, between operations with no message behind.
LEMMA WorkerQuiet ==
    ASSUME WorkerState, NEW r \in Ranks, NEW q, WorkerGoes(r, q), pc[r] \in Level, q \in Level,
           UNCHANGED <<net, data>>, q \in InRun <=> pc[r] \in InRun, RoomAt(q, clen[r]), WorkerFits',
           exit[r] # Raised, exit'[1 - r] = exit[1 - r]
    PROVE  WorkerAgain'
  <1> USE DEF TARGET_RANK, DRAFT_RANK, Ranks
  <1>1. /\ WorkerLabels' /\ WorkerCollectives' /\ WorkerNames' /\ WorkerGate'
        /\ pc' \in [Ranks -> Operations] /\ pc'[r] = q /\ pc'[1 - r] = pc[1 - r]
        /\ Counting(1 - r)' = Counting(1 - r) /\ Counting(r)' = Counting(r)
    BY WorkerMoves DEF Counting
  <1>2. /\ UNCHANGED launch /\ posted'[1 - r] = posted[1 - r] /\ pc' = [pc EXCEPT ![r] = q]
        /\ accepted' = accepted /\ clen' = clen /\ cursor' = cursor /\ pending' = pending
        /\ result' = result /\ net' = net /\ text' = text /\ payload' = payload
    BY DEF WorkerGoes, data
  <1>3. /\ WorkerMessages /\ WorkerTexts /\ TargetCursor /\ DraftCursor
    BY DEF WorkerState, WorkerInv, WorkerCursors
  <1>4. /\ Rounds(1 - r)' = Rounds(1 - r) /\ Written(1 - r)' = Written(1 - r)
        /\ RoomAt(pc[1 - r], clen[1 - r])' /\ (r = 0 => DraftCursor') /\ (r = 1 => TargetCursor')
    BY <1>1, <1>2, WorkerOther
  <1>5. Rounds(r)' = Rounds(r) /\ Written(r)' = Written(r)
    BY <1>1, <1>2 DEF Rounds, Written, PromptLen
  <1>6. /\ Rounds(0)' = Rounds(0) /\ Rounds(1)' = Rounds(1)
        /\ Written(0)' = Written(0) /\ Written(1)' = Written(1)
    BY <1>4, <1>5
  <1>7. WorkerTraffic'
    <2>1. /\ DraftIds' = DraftIds /\ DraftLogits' = DraftLogits /\ DraftResult' = DraftResult
          /\ TargetIds' = TargetIds /\ TargetLogits' = TargetLogits /\ TargetOwes' = TargetOwes
      BY <1>2, LevelOffsets DEF WorkerState
    <2> QED BY <1>2, <1>6, <2>1, WorkerSizes DEF WorkerTraffic, Traffic
  <1>8. WorkerMessages'
    <2>1. pc'[1] = "apply_target_feedback" => pc[1] = "apply_target_feedback"
      BY <1>1 DEF Level
    <2> QED BY <1>2, <1>3, <2>1 DEF WorkerMessages
  <1>9. WorkerTexts'
    BY <1>2, <1>3, <1>6 DEF WorkerTexts
  <1>10. TargetCursor' /\ DraftCursor'
    <2>1. r = 0 => TargetCursor'
      BY <1>1, <1>2, <1>3 DEF TargetCursor, Bonus
    <2>2. r = 1 => DraftCursor'
      BY <1>1, <1>2, <1>3 DEF DraftCursor, Ahead, Level, DraftBody
    <2> QED BY <1>4, <2>1, <2>2
  <1>11. WorkerRoom'
    <2>1. RoomAt(q, clen[r])' = RoomAt(q, clen[r])
      BY <1>2 DEF RoomAt, PromptLen
    <2>2. RoomAt(pc[r], clen[r])'
      BY <1>1, <1>2, <2>1 DEF RoomAt, PromptLen
    <2> QED BY <1>4, <2>2 DEF WorkerRoom
  <1> QED BY <1>1, <1>2, <1>7, <1>8, <1>9, <1>10, <1>11, WorkerFacts
           DEF WorkerAgain, WorkerInv, WorkerCursors, WorkerState

LEMMA WorkerMovesOn ==
    ASSUME WorkerState, NEW r \in Ranks,
           \/ Check(r) \/ BindRankToCuda(r) \/ Return(r) \/ Jobs(r)
           \/ r = 0 /\ Median
           \/ For(r, "runs")
    PROVE  WorkerAgain'
  <1> USE DEF TARGET_RANK, DRAFT_RANK, Ranks
  <1>1. \E q : /\ pc[r] \in Idle /\ pc[r] \in (IF r = 0 THEN WorkerTarget ELSE WorkerDraft)
               /\ q \in {"bind", "jobs", "runs", "return", "start_barrier", "median"}
               /\ (r = 1 => q # "median")
               /\ pc' = [pc EXCEPT ![r] = q] /\ UNCHANGED <<launch, posted, entered, net, data>>
    <2>1. pc[r] \in (IF r = 0 THEN WorkerTarget ELSE WorkerDraft) /\ launch.prog = "worker"
      BY DEF WorkerState, WorkerInv, WorkerLabels
    <2>2. CASE Check(r) \/ BindRankToCuda(r) \/ Return(r) \/ (r = 0 /\ Median)
      <3>1. /\ pc[r] \in {"check", "bind", "return", "median"} /\ (pc[r] = "median" => r = 0)
            /\ pc' = [pc EXCEPT ![r] = Following(pc[r], r)]
            /\ UNCHANGED <<launch, posted, entered, net, data>>
        BY <2>2 DEF Check, BindRankToCuda, Return, Median, At, RaisesUnless, Leave, Done, Continue
      <3>2. Following(pc[r], r) \in {"bind", "jobs", "return"}
        BY <2>1, <3>1, WorkerFollowing DEF WorkerPaths
      <3> QED BY <2>1, <3>1, <3>2 DEF Idle
    <2>3. CASE Jobs(r)
      BY <2>1, <2>3 DEF Jobs, At, Idle
    <2>4. CASE For(r, "runs")
      <3>1. pc[r] = "runs" /\ UNCHANGED <<launch, posted, entered, net, data>>
        BY <2>4 DEF For, At
      <3>2. \/ pc' = [pc EXCEPT ![r] = FirstOf("runs", r)]
            \/ pc' = [pc EXCEPT ![r] = AfterLoop("runs", r)]
        BY <2>4 DEF For
      <3>3. /\ FirstOf("runs", r) = "start_barrier"
            /\ AfterLoop("runs", r) \in {"median", "jobs"} /\ (r = 1 => AfterLoop("runs", r) = "jobs")
        BY DEF FirstOf, AfterLoop
      <3> QED BY <2>1, <3>1, <3>2, <3>3 DEF Idle
    <2> QED BY <2>2, <2>3, <2>4
  <1> PICK q : /\ pc[r] \in Idle /\ pc[r] \in (IF r = 0 THEN WorkerTarget ELSE WorkerDraft)
               /\ q \in {"bind", "jobs", "runs", "return", "start_barrier", "median"}
               /\ (r = 1 => q # "median")
               /\ pc' = [pc EXCEPT ![r] = q] /\ UNCHANGED <<launch, posted, entered, net, data>>
    BY <1>1
  <1>2. WorkerGoes(r, q)
    <2>1. q \in (IF r = 0 THEN WorkerTarget ELSE WorkerDraft)
      BY DEF WorkerTarget, WorkerDraft, Idle
    <2>2. pc[r] \notin Collectives /\ ~posted[r]
      BY DEF WorkerState, PostedOK, Idle, Collectives, Barriers, Timings
    <2>3. Inside(q) = 0 /\ Inside(pc[r]) = 0
      BY DEF Inside, InRun, Idle, TargetBody, DraftBody
    <2> QED BY <2>1, <2>2, <2>3 DEF WorkerGoes
  <1>3. pc[r] \in Level /\ q \in Level
    BY <1>2, WorkerFacts DEF Level, WorkerGoes, Operations, Idle
  <1>4. q \notin InRun /\ pc[r] \notin InRun /\ RoomAt(q, clen[r])
    BY DEF InRun, Idle, TargetBody, DraftBody, RoomAt
  <1>5. WorkerFits'
    <2>1. \/ exit' = exit
          \/ \E s \in {0, 1, 2, 3, Raised} :
                 /\ exit' = [exit EXCEPT ![r] = s]
                 /\ s = Raised => r = 0 /\ launch.trials = 0
      <3>1. CASE Check(r) \/ BindRankToCuda(r) \/ Return(r)
        BY <3>1 DEF Check, BindRankToCuda, Return, Leave, Done, Raised
      <3>2. CASE r = 0 /\ Median
        <4>1. launch.trials \in Nat
          BY WorkerSizes
        <4> QED BY <3>2, <4>1 DEF Median, RaisesUnless, Leave, Done
      <3>3. CASE Jobs(r) \/ For(r, "runs")
        BY <3>3 DEF Jobs, For
      <3> QED BY <3>1, <3>2, <3>3
    <2>2. result' = result
      BY DEF data
    <2> QED BY <2>1, <2>2, WorkerFitsStep
  <1>6. exit[r] # Raised /\ exit'[1 - r] = exit[1 - r]
    <2>1. exit[r] = Running
      BY DEF Check, BindRankToCuda, Return, Jobs, Median, For, At
    <2>2. exit' = exit \/ \E s : exit' = [exit EXCEPT ![r] = s]
      BY DEF Check, BindRankToCuda, Return, Jobs, Median, For, RaisesUnless, Leave, Done
    <2> QED BY <2>1, <2>2, WorkerFacts DEF Running, Raised
  <1> QED BY <1>2, <1>3, <1>4, <1>5, <1>6, WorkerQuiet

\* A round begins only while a token is missing.
LEMMA WorkerRound ==
    ASSUME WorkerState, NEW r \in Ranks, Round(r) PROVE WorkerAgain'
  <1> USE DEF TARGET_RANK, DRAFT_RANK, Ranks
  <1> DEFINE q == IF clen[r] - PromptLen < launch.nNew THEN FirstOfRound(r) ELSE AfterRounds(r)
  <1>1. /\ pc[r] = "round" /\ pc' = [pc EXCEPT ![r] = q]
        /\ UNCHANGED <<launch, posted, turn, job, entered, net, exit, data>>
    BY DEF Round, At
  <1>2. RoomAt("round", clen[r])
    BY <1>1 DEF WorkerState, WorkerInv, WorkerRoom
  <1>3. /\ clen[r] \in Nat /\ PromptLen \in Nat /\ launch.nNew \in Nat
    BY WorkerSizes
  <1>4. \/ /\ clen[r] < PromptLen + launch.nNew
           /\ q = IF r = 0 THEN "recv_ids" ELSE "generate_drafts"
        \/ /\ clen[r] >= PromptLen + launch.nNew
           /\ q = IF r = 0 THEN "flush" ELSE "stop_barrier"
    BY <1>3 DEF FirstOfRound, AfterRounds
  <1> HIDE DEF q
  <1>5. WorkerGoes(r, q)
    <2>1. q \in (IF r = 0 THEN WorkerTarget ELSE WorkerDraft)
      BY <1>4 DEF WorkerTarget, WorkerDraft, InRun, TargetBody, DraftBody
    <2>2. pc[r] \notin Collectives /\ ~posted[r]
      BY <1>1 DEF WorkerState, PostedOK, Collectives, Barriers, Timings
    <2>3. Inside(q) = 1 /\ Inside(pc[r]) = 1
      BY <1>1, <1>4 DEF Inside, InRun, TargetBody, DraftBody
    <2> QED BY <1>1, <2>1, <2>2, <2>3 DEF WorkerGoes
  <1>6. pc[r] \in Level /\ q \in Level
    BY <1>1, <1>4, <1>5, WorkerFacts DEF Level, WorkerGoes, Operations
  <1>7. q \in InRun /\ pc[r] \in InRun
    BY <1>1, <1>4 DEF InRun, TargetBody, DraftBody
  <1>8. RoomAt(q, clen[r])
    BY <1>2, <1>4 DEF RoomAt, InRun, TargetBody, DraftBody
  <1>9. WorkerFits'
    BY <1>1, WorkerFitsStep DEF data
  <1>10. exit[r] # Raised
    BY DEF Round, At, Running, Raised
  <1> QED BY <1>1, <1>5, <1>6, <1>7, <1>8, <1>9, <1>10, WorkerQuiet

LEMMA WorkerDone ==
    ASSUME WorkerState, NEW r \in Ranks, NEW q, WorkerGoes(r, q),
           accepted'[1 - r] = accepted[1 - r], clen'[1 - r] = clen[1 - r],
           cursor'[1 - r] = cursor[1 - r], exit'[1 - r] = exit[1 - r], r = 1 => pending' = pending, text' = text,
           WorkerTraffic', WorkerMessages', WorkerTexts', r = 0 => TargetCursor',
           r = 1 => DraftCursor', RoomAt(q, clen'[r]), WorkerFits', cursor' \in [Ranks -> Nat]
    PROVE  WorkerAgain'
  <1> USE DEF TARGET_RANK, DRAFT_RANK, Ranks
  <1>1. /\ WorkerLabels' /\ WorkerCollectives' /\ WorkerNames' /\ WorkerGate'
        /\ pc' \in [Ranks -> Operations] /\ pc'[r] = q /\ pc'[1 - r] = pc[1 - r]
        /\ Counting(1 - r)' = Counting(1 - r)
    BY WorkerMoves
  <1>2. UNCHANGED launch
    BY DEF WorkerGoes
  <1>3. RoomAt(pc[1 - r], clen[1 - r])' /\ (r = 0 => DraftCursor') /\ (r = 1 => TargetCursor')
    BY <1>1, <1>2, WorkerOther
  <1>4. WorkerRoom'
    <2>1. RoomAt(pc[r], clen[r])'
      BY <1>1, <1>2 DEF RoomAt, PromptLen
    <2> QED BY <1>3, <2>1 DEF WorkerRoom
  <1>5. WorkerCursors'
    BY <1>3 DEF WorkerCursors
  <1> QED BY <1>1, <1>2, <1>4, <1>5, WorkerFacts DEF WorkerAgain, WorkerInv, WorkerState

LEMMA WorkerPrefill ==
    ASSUME WorkerState, NEW r \in Ranks, JobPrefill(r) PROVE WorkerAgain'
  <1> USE DEF TARGET_RANK, DRAFT_RANK, Ranks
  <1>1. /\ pc[r] = "prefill" /\ pc' = [pc EXCEPT ![r] = "round"]
        /\ accepted' = [accepted EXCEPT ![r] = <<>>] /\ clen' = [clen EXCEPT ![r] = PromptLen]
        /\ cursor' = [cursor EXCEPT ![r] = PromptLen]
        /\ pending' = (IF r = 0 THEN NoToken ELSE pending)
        /\ UNCHANGED <<launch, posted, entered, net, text, payload, result>>
        /\ exit' = exit \/ exit' = [exit EXCEPT ![r] = Raised]
    <2>1. pc[r] = "prefill" /\ launch.prog = "worker"
      BY DEF WorkerState, JobPrefill, At
    <2>2. Following("prefill", r) = "round"
      BY <2>1, WorkerFollowing DEF WorkerPaths
    <2> QED BY <2>1, <2>2 DEF JobPrefill, RaisesUnless, Leave, Done, Continue
  <1>2. WorkerGoes(r, "round")
    <2>1. "round" \in (IF r = 0 THEN WorkerTarget ELSE WorkerDraft)
      BY DEF WorkerTarget, WorkerDraft, InRun, TargetBody, DraftBody
    <2>2. pc[r] \notin Collectives /\ "round" \notin Collectives
      BY <1>1 DEF Collectives, Barriers, Timings
    <2>3. Inside("round") = 1 /\ Inside(pc[r]) = 1
      BY <1>1 DEF Inside, InRun
    <2> QED BY <1>1, <2>1, <2>2, <2>3 DEF WorkerGoes
  <1>3. /\ pc'[r] = "round" /\ pc'[1 - r] = pc[1 - r] /\ Counting(1 - r)' = Counting(1 - r)
        /\ ~Counting(r) /\ Counting(r)'
    <2>1. "round" \in InRun /\ "prefill" \notin InRun
      BY DEF InRun, TargetBody, DraftBody
    <2> QED BY <1>1, <1>2, <2>1, WorkerMoves
  <1>4. /\ accepted'[1 - r] = accepted[1 - r] /\ clen'[1 - r] = clen[1 - r]
        /\ cursor'[1 - r] = cursor[1 - r] /\ exit'[1 - r] = exit[1 - r] /\ (r = 1 => pending' = pending)
        /\ accepted'[r] = <<>> /\ clen'[r] = PromptLen /\ cursor'[r] = PromptLen
    BY <1>1, WorkerFacts
  <1>5. /\ Rounds(0)' = Rounds(0) /\ Rounds(1)' = Rounds(1)
        /\ Written(0)' = Written(0) /\ Written(1)' = Written(1)
    <2>1. Rounds(1 - r)' = Rounds(1 - r) /\ Written(1 - r)' = Written(1 - r)
      BY <1>1, <1>3, <1>4, WorkerOther
    <2>2. Rounds(r)' = Rounds(r) /\ Written(r)' = Written(r)
      BY <1>1, <1>3, <1>4 DEF Rounds, Written
    <2> QED BY <2>1, <2>2
  <1>6. WorkerTraffic'
    <2>1. /\ DraftIds' = DraftIds /\ DraftLogits' = DraftLogits /\ DraftResult' = DraftResult
          /\ TargetIds' = TargetIds /\ TargetLogits' = TargetLogits /\ TargetOwes' = TargetOwes
      <3>1. "round" \in Level /\ "prefill" \in Level
        BY DEF Level, Operations, WorkerTarget, InRun, DraftBody, TargetBody, Idle
      <3> QED BY <1>1, <3>1, LevelOffsets DEF WorkerState
    <2> QED BY <1>1, <1>5, <2>1, WorkerSizes DEF WorkerTraffic, Traffic
  <1>7. WorkerMessages' /\ WorkerTexts'
    <2>1. WorkerMessages /\ WorkerTexts
      BY DEF WorkerState, WorkerInv
    <2>2. pc'[1] = "apply_target_feedback" => pc[1] = "apply_target_feedback"
      BY <1>3
    <2> QED BY <1>1, <1>5, <2>1, <2>2 DEF WorkerMessages, WorkerTexts
  <1>8. PromptLen \in Nat /\ launch.nNew \in Nat /\ launch.gamma \in Nat /\ launch.maxSeq \in Nat
    BY WorkerSizes
  <1>9. r = 0 => TargetCursor'
    <2>1. r = 0 => Bonus' = <<>>
      BY <1>1 DEF Bonus
    <2> QED BY <1>4, <1>8, <2>1 DEF TargetCursor
  <1>10. r = 1 => DraftCursor'
    <2>1. r = 1 => Ahead(pc[1])' = 0
      BY <1>3 DEF Ahead, DraftBody
    <2> QED BY <1>4, <1>8, <2>1 DEF DraftCursor
  <1>11. RoomAt("round", clen'[r])
    BY <1>4, <1>8 DEF RoomAt, TargetBody, DraftBody
  <1>12. WorkerFits'
    <2>1. \/ exit' = exit
          \/ exit' = [exit EXCEPT ![r] = Raised] /\ ~(PromptLen <= launch.maxSeq)
      BY DEF JobPrefill, RaisesUnless, Leave, Done
    <2> QED BY <1>1, <1>8, <2>1, WorkerFitsStep
  <1>13. cursor' \in [Ranks -> Nat]
    BY <1>1, <1>8, WorkerFacts
  <1> QED BY <1>1, <1>2, <1>4, <1>6, <1>7, <1>9, <1>10, <1>11, <1>12, <1>13, WorkerDone

\* A step on, of a rank that stands at p.
LEMMA WorkerGoesOn ==
    ASSUME WorkerState, NEW r \in Ranks, NEW p \in InRun \ {"stop_barrier"}, NEW q \in InRun, pc[r] = p,
           q \in IF r = 0 THEN WorkerTarget ELSE WorkerDraft, pc' = [pc EXCEPT ![r] = q],
           UNCHANGED <<launch, entered>>, posted'[1 - r] = posted[1 - r],
           q = "stop_barrier" => ~posted'[r]
    PROVE  /\ WorkerGoes(r, q) /\ pc'[r] = q /\ pc'[1 - r] = pc[1 - r]
           /\ Counting(1 - r)' = Counting(1 - r) /\ Counting(r) /\ Counting(r)'
  <1>1. p \notin Collectives /\ (q \in Collectives => q = "stop_barrier")
    BY DEF InRun, TargetBody, DraftBody, Collectives, Barriers, Timings
  <1>2. Inside(p) = 1 /\ Inside(q) = 1
    BY DEF Inside
  <1>3. WorkerGoes(r, q)
    BY <1>1, <1>2 DEF WorkerGoes
  <1> QED BY <1>3, WorkerMoves

\* A step within its operations that counts no round.
LEMMA WorkerSame ==
    ASSUME WorkerState, UNCHANGED <<launch, accepted, clen>>, result'[0] = result[0],
           Counting(0)' = Counting(0), Counting(1)' = Counting(1)
    PROVE  /\ Rounds(0)' = Rounds(0) /\ Rounds(1)' = Rounds(1)
           /\ Written(0)' = Written(0) /\ Written(1)' = Written(1) /\ WorkerTexts'
  <1> USE DEF TARGET_RANK, DRAFT_RANK, Ranks
  <1>1. /\ Rounds(0)' = Rounds(0) /\ Rounds(1)' = Rounds(1)
        /\ Written(0)' = Written(0) /\ Written(1)' = Written(1)
    BY DEF Rounds, Written, PromptLen
  <1>2. WorkerTexts
    BY DEF WorkerState, WorkerInv
  <1> QED BY <1>1, <1>2 DEF WorkerTexts

LEMMA WorkerDraftGoes ==
    ASSUME WorkerState, NEW p \in InRun \ {"stop_barrier"}, NEW q \in InRun \cap WorkerDraft,
           pc[1] = p, pc' = [pc EXCEPT ![1] = q], UNCHANGED <<launch, entered>>,
           posted'[0] = posted[0], q = "stop_barrier" => ~posted'[1]
    PROVE  /\ WorkerGoes(1, q) /\ pc'[1] = q /\ pc'[0] = pc[0]
           /\ Counting(0)' = Counting(0) /\ Counting(1) /\ Counting(1)'
  <1> DEFINE r == 1
  <1>1. /\ r \in Ranks /\ pc[r] = p /\ pc' = [pc EXCEPT ![r] = q] /\ posted'[1 - r] = posted[1 - r]
        /\ q \in (IF r = 0 THEN WorkerTarget ELSE WorkerDraft) /\ (q = "stop_barrier" => ~posted'[r])
    BY DEF Ranks, DRAFT_RANK
  <1>2. r = 1 /\ 1 - r = 0
    OBVIOUS
  <1> HIDE DEF r
  <1>3. /\ WorkerGoes(r, q) /\ pc'[r] = q /\ pc'[1 - r] = pc[1 - r]
        /\ Counting(1 - r)' = Counting(1 - r) /\ Counting(r) /\ Counting(r)'
    BY <1>1, WorkerGoesOn
  <1>4. WorkerGoes(1, q) /\ pc'[1] = q /\ pc'[0] = pc[0]
    BY <1>2, <1>3
  <1>5. Counting(0)' = Counting(0) /\ Counting(1) /\ Counting(1)'
    BY <1>2, <1>3
  <1> QED BY <1>4, <1>5

LEMMA WorkerTargetGoes ==
    ASSUME WorkerState, NEW p \in InRun \ {"stop_barrier"}, NEW q \in InRun \cap WorkerTarget,
           pc[0] = p, pc' = [pc EXCEPT ![0] = q], UNCHANGED <<launch, entered>>,
           posted'[1] = posted[1], q = "stop_barrier" => ~posted'[0]
    PROVE  /\ WorkerGoes(0, q) /\ pc'[0] = q /\ pc'[1] = pc[1]
           /\ Counting(1)' = Counting(1) /\ Counting(0) /\ Counting(0)'
  <1> DEFINE r == 0
  <1>1. /\ r \in Ranks /\ pc[r] = p /\ pc' = [pc EXCEPT ![r] = q] /\ posted'[1 - r] = posted[1 - r]
        /\ q \in (IF r = 0 THEN WorkerTarget ELSE WorkerDraft) /\ (q = "stop_barrier" => ~posted'[r])
    BY DEF Ranks, TARGET_RANK
  <1>2. r = 0 /\ 1 - r = 1
    OBVIOUS
  <1> HIDE DEF r
  <1>3. /\ WorkerGoes(r, q) /\ pc'[r] = q /\ pc'[1 - r] = pc[1 - r]
        /\ Counting(1 - r)' = Counting(1 - r) /\ Counting(r) /\ Counting(r)'
    BY <1>1, WorkerGoesOn
  <1>4. WorkerGoes(0, q) /\ pc'[0] = q /\ pc'[1] = pc[1]
    BY <1>2, <1>3
  <1>5. Counting(1)' = Counting(1) /\ Counting(0) /\ Counting(0)'
    BY <1>2, <1>3
  <1> QED BY <1>4, <1>5

LEMMA WorkerDraftDone ==
    ASSUME WorkerState, NEW q, WorkerGoes(1, q), accepted'[0] = accepted[0], clen'[0] = clen[0],
           cursor'[0] = cursor[0], exit'[0] = exit[0], pending' = pending, text' = text, WorkerTraffic', WorkerMessages',
           WorkerTexts', DraftCursor', RoomAt(q, clen'[1]), WorkerFits', cursor' \in [Ranks -> Nat]
    PROVE  WorkerAgain'
  <1> DEFINE r == 1
  <1>1. /\ r \in Ranks /\ r # 0 /\ WorkerGoes(r, q) /\ accepted'[1 - r] = accepted[1 - r]
        /\ clen'[1 - r] = clen[1 - r] /\ cursor'[1 - r] = cursor[1 - r] /\ exit'[1 - r] = exit[1 - r] /\ RoomAt(q, clen'[r])
    BY DEF Ranks, DRAFT_RANK
  <1> HIDE DEF r
  <1> QED BY <1>1, WorkerDone

LEMMA WorkerTargetDone ==
    ASSUME WorkerState, NEW q, WorkerGoes(0, q), accepted'[1] = accepted[1], clen'[1] = clen[1],
           cursor'[1] = cursor[1], exit'[1] = exit[1], text' = text, WorkerTraffic', WorkerMessages',
           WorkerTexts', TargetCursor', RoomAt(q, clen'[0]), WorkerFits', cursor' \in [Ranks -> Nat]
    PROVE  WorkerAgain'
  <1> DEFINE r == 0
  <1>1. /\ r \in Ranks /\ r # 1 /\ WorkerGoes(r, q) /\ accepted'[1 - r] = accepted[1 - r]
        /\ clen'[1 - r] = clen[1 - r] /\ cursor'[1 - r] = cursor[1 - r] /\ exit'[1 - r] = exit[1 - r] /\ RoomAt(q, clen'[r])
    BY DEF Ranks, TARGET_RANK
  <1> HIDE DEF r
  <1> QED BY <1>1, WorkerDone

LEMMA WorkerGenerateDrafts ==
    ASSUME WorkerState, GenerateDrafts PROVE WorkerAgain'
  <1> USE DEF TARGET_RANK, DRAFT_RANK, Ranks
  <1>1. /\ pc[1] = "generate_drafts" /\ pc' = [pc EXCEPT ![1] = "send_ids"]
        /\ cursor' = [cursor EXCEPT ![1] = cursor[1] + launch.gamma]
        /\ UNCHANGED <<launch, posted, entered, net, text, pending, payload, result, accepted, clen>>
        /\ exit[1] # Raised /\ exit'[0] = exit[0]
    <2>1. pc[1] = "generate_drafts" /\ launch.prog = "worker"
      BY DEF WorkerState, GenerateDrafts, At
    <2>2. Following("generate_drafts", 1) = "send_ids"
      BY <2>1, WorkerFollowing DEF WorkerPaths
    <2>3. exit[1] # Raised /\ exit'[0] = exit[0]
      BY WorkerFacts DEF GenerateDrafts, At, RaisesUnless, Leave, Done, Running, Raised
    <2> QED BY <2>1, <2>2, <2>3 DEF GenerateDrafts, RaisesUnless, Leave, Done, Continue, Forward
  <1>2. ~posted[1]
    BY <1>1 DEF WorkerState, PostedOK, Collectives, Barriers, Timings
  <1>3. "generate_drafts" \in InRun \ {"stop_barrier"} /\ "send_ids" \in InRun /\ "send_ids" \in WorkerDraft
    BY DEF InRun, DraftBody, WorkerDraft
  <1>4. /\ WorkerGoes(1, "send_ids") /\ pc'[1] = "send_ids" /\ pc'[0] = pc[0]
        /\ Counting(0)' = Counting(0) /\ Counting(1) /\ Counting(1)'
    BY <1>1, <1>2, <1>3, WorkerDraftGoes
  <1>5. /\ Rounds(0)' = Rounds(0) /\ Rounds(1)' = Rounds(1) /\ WorkerTexts'
    BY <1>1, <1>4, WorkerSame
  <1>6. WorkerTraffic'
    <2>1. TargetIds' = TargetIds /\ TargetLogits' = TargetLogits /\ TargetOwes' = TargetOwes
      BY <1>1, <1>4, TargetStands
    <2>2. DraftIds' = DraftIds /\ DraftLogits' = DraftLogits /\ DraftResult' = DraftResult
      BY <1>1, <1>2, <1>4 DEF DraftIds, DraftLogits, DraftResult
    <2> QED BY <1>1, <1>5, <2>1, <2>2, WorkerSizes DEF WorkerTraffic, Traffic
  <1>7. WorkerMessages'
    BY <1>1, <1>4 DEF WorkerMessages, WorkerState, WorkerInv
  <1>8. /\ PromptLen \in Nat /\ launch.nNew \in Nat /\ launch.gamma \in Nat /\ launch.maxSeq \in Nat
        /\ clen[1] \in Nat /\ cursor[1] \in Nat
    BY WorkerSizes
  <1>9. cursor[1] = clen[1] /\ cursor'[1] = cursor[1] + launch.gamma /\ cursor'[0] = cursor[0]
    <2>1. cursor[1] = clen[1] + Ahead("generate_drafts") /\ Ahead("generate_drafts") = 0
      BY <1>1, <1>3 DEF WorkerState, WorkerInv, WorkerCursors, DraftCursor, Ahead
    <2> QED BY <1>1, <1>8, <2>1, WorkerFacts
  <1>10. DraftCursor'
    <2>1. Ahead(pc[1])' = launch.gamma
      BY <1>1, <1>4 DEF Ahead, DraftBody
    <2> QED BY <1>1, <1>8, <1>9, <2>1 DEF DraftCursor
  <1>11. RoomAt("generate_drafts", clen[1]) /\ RoomAt("send_ids", clen'[1])
    <2>1. RoomAt("generate_drafts", clen[1])
      BY <1>1 DEF WorkerState, WorkerInv, WorkerRoom
    <2> QED BY <1>1, <1>3, <2>1 DEF RoomAt, DraftBody
  <1>12. WorkerFits'
    <2>1. clen[1] < PromptLen + launch.nNew
      BY <1>3, <1>11 DEF RoomAt, DraftBody
    <2>2. \/ exit' = exit
          \/ exit' = [exit EXCEPT ![1] = Raised] /\ ~(cursor[1] + launch.gamma <= launch.maxSeq)
      BY DEF GenerateDrafts, RaisesUnless, Leave, Done, Fits
    <2>3. ~(cursor[1] + launch.gamma <= launch.maxSeq) =>
              ~(PromptLen + launch.nNew + launch.gamma <= launch.maxSeq)
      BY <1>8, <1>9, <2>1
    <2> QED BY <1>1, <2>2, <2>3, WorkerFitsStep
  <1>13. cursor' \in [Ranks -> Nat]
    <2>1. cursor \in [Ranks -> Nat]
      BY WorkerFacts
    <2>2. cursor[1] + launch.gamma \in Nat
      BY <1>8
    <2> QED BY <1>1, <2>1, <2>2
  <1> QED BY <1>1, <1>4, <1>5, <1>6, <1>7, <1>9, <1>10, <1>11, <1>12, <1>13, WorkerDraftDone

LEMMA RoomLeft ==
    ASSUME NEW c \in Nat, NEW p \in Nat, NEW w \in Nat, NEW g \in Nat, NEW n \in 0 .. g, c < p + w
    PROVE  c + n + 1 <= p + w + g /\ c + g <= p + w + g
  OBVIOUS

\* A verification counts a round and owes the draft the answer.
LEMMA WorkerSpeculativeStep ==
    ASSUME WorkerState, NEW n \in 0 .. launch.gamma, NEW bonus \in TargetVocab, SpeculativeStep(n, bonus)
    PROVE  WorkerAgain'
  <1> USE DEF TARGET_RANK, DRAFT_RANK, Ranks
  <1>1. /\ pc[0] = "speculative_step" /\ pc' = [pc EXCEPT ![0] = "send_result"]
        /\ cursor' = [cursor EXCEPT ![0] = cursor[0] + Len(Bonus) + n] /\ pending' = bonus
        /\ result'[0].n = n /\ result'[1] = result[1]
        /\ accepted' = [accepted EXCEPT ![0] = Append(accepted[0], n)]
        /\ clen' = [clen EXCEPT ![0] = clen[0] + n + 1]
        /\ UNCHANGED <<launch, posted, entered, net, text, payload>> /\ exit'[1] = exit[1]
    <2>1. pc[0] = "speculative_step" /\ launch.prog = "worker"
      BY DEF WorkerState, SpeculativeStep, At
    <2>2. Following("speculative_step", 0) = "send_result"
      BY <2>1, WorkerFollowing DEF WorkerPaths
    <2>3. result'[0].n = n /\ result'[1] = result[1]
      BY WorkerFacts DEF SpeculativeStep
    <2>4. exit'[1] = exit[1]
      BY WorkerFacts DEF SpeculativeStep, RaisesUnless, Leave, Done
    <2> QED BY <2>1, <2>2, <2>3, <2>4 DEF SpeculativeStep, RaisesUnless, Leave, Done, Continue, Counts
  <1>2. ~posted[0]
    BY <1>1 DEF WorkerState, PostedOK, Collectives, Barriers, Timings
  <1>3. /\ "speculative_step" \in InRun \ {"stop_barrier"} /\ "speculative_step" \in TargetBody
        /\ "send_result" \in InRun \cap WorkerTarget /\ "send_result" \notin TargetBody \cup DraftBody
    BY DEF InRun, TargetBody, DraftBody, WorkerTarget
  <1>4. /\ WorkerGoes(0, "send_result") /\ pc'[0] = "send_result" /\ pc'[1] = pc[1]
        /\ Counting(1)' = Counting(1) /\ Counting(0) /\ Counting(0)'
    BY <1>1, <1>2, <1>3, WorkerTargetGoes
  <1>5. /\ PromptLen \in Nat /\ launch.nNew \in Nat /\ launch.gamma \in Nat /\ launch.maxSeq \in Nat
        /\ clen[0] \in Nat /\ cursor[0] \in Nat /\ Len(Bonus) \in Nat
        /\ Rounds(0) \in Nat /\ Rounds(1) \in Nat /\ Written(0) \in Nat /\ Written(1) \in Nat
    BY WorkerSizes
  <1>5b. /\ PromptLen \in Nat /\ launch.nNew \in Nat /\ launch.gamma \in Nat /\ launch.maxSeq \in Nat
         /\ clen[0] \in Nat
    BY <1>5
  <1>6. TargetIds = 1 /\ TargetLogits = 1 /\ TargetOwes = 0
    BY <1>1 DEF TargetIds, TargetLogits, TargetOwes
  <1>7. TargetIds' = 0 /\ TargetLogits' = 0 /\ TargetOwes' = 1
    BY <1>1, <1>2, <1>4 DEF TargetIds, TargetLogits, TargetOwes
  <1>8. DraftIds' = DraftIds /\ DraftLogits' = DraftLogits /\ DraftResult' = DraftResult
    BY <1>1, <1>4, DraftStands
  <1>9. /\ Traffic(Rounds(0), Rounds(1)) /\ Rounds(0) = Rounds(1) /\ DraftResult = 0
        /\ net["result"] = <<>>
    <2>1. Traffic(Rounds(0), Rounds(1)) /\ TypeOK
      BY WorkerSizes DEF WorkerState
    <2> QED BY <1>5, <1>6, <2>1, Apart
  <1>10. /\ accepted'[1] = accepted[1] /\ clen'[1] = clen[1] /\ cursor'[1] = cursor[1]
         /\ Len(accepted'[0]) = Len(accepted[0]) + 1 /\ clen'[0] = clen[0] + n + 1
         /\ cursor'[0] = cursor[0] + Len(Bonus) + n
    <2>1. accepted[0] \in Seq(Nat) /\ n \in Nat
      BY <1>5, WorkerFacts
    <2>2. Len(Append(accepted[0], n)) = Len(accepted[0]) + 1
      BY <2>1
    <2> QED BY <1>1, <2>2, WorkerFacts
  <1>11. /\ Rounds(0)' = Rounds(0) + 1 /\ Rounds(1)' = Rounds(1)
         /\ Written(0) = clen[0] /\ Written(0)' = clen[0] + n + 1 /\ Written(1)' = Written(1)
    <2>1. Rounds(0)' = Rounds(0) + 1 /\ Written(0) = clen[0] /\ Written(0)' = clen[0] + n + 1
      BY <1>4, <1>10 DEF Rounds, Written
    <2>2. Rounds(1)' = Rounds(1) /\ Written(1)' = Written(1)
      BY <1>1, <1>4, <1>10 DEF Rounds, Written, PromptLen
    <2> QED BY <2>1, <2>2
  <1>12. WorkerTraffic'
    <2> DEFINE i == Len(net["ids"])  l == Len(net["logits"])  a == Len(net["result"])
               t == Rounds(0)  d == Rounds(1)
    <2>1. /\ i = (d + DraftIds) - (t + TargetIds) /\ l = (d + DraftLogits) - (t + TargetLogits)
          /\ a = (t - TargetOwes) - (d + DraftResult) /\ t \in Int /\ d \in Int
      BY <1>5, <1>9 DEF Traffic
    <2> HIDE DEF i, l, a, t, d
    <2>2. i = (d + DraftIds') - ((t + 1) + TargetIds')
      BY <1>6, <1>7, <1>8, <2>1, Whole
    <2>3. l = (d + DraftLogits') - ((t + 1) + TargetLogits')
      BY <1>6, <1>7, <1>8, <2>1, Whole
    <2>4. a = ((t + 1) - TargetOwes') - (d + DraftResult')
      BY <1>6, <1>7, <1>8, <2>1, Whole
    <2>5. i' = i /\ l' = l /\ a' = a /\ t' = t + 1 /\ d' = d
      BY <1>1, <1>11 DEF i, l, a, t, d
    <2>6. i' = (d' + DraftIds') - (t' + TargetIds') /\ l' = (d' + DraftLogits') - (t' + TargetLogits')
              /\ a' = (t' - TargetOwes') - (d' + DraftResult')
      BY <2>2, <2>3, <2>4, <2>5
    <2> QED BY <2>6 DEF WorkerTraffic, Traffic, i, l, a, t, d
  <1>13. WorkerMessages'
    <2>1. pc[1] # "apply_target_feedback"
      BY <1>9 DEF DraftResult
    <2> QED BY <1>1, <1>4, <1>5, <1>9, <2>1 DEF WorkerMessages
  <1>14. WorkerTexts'
    <2>1. Written(0) = Written(1)
      BY <1>9 DEF WorkerState, WorkerInv, WorkerTexts
    <2> DEFINE t == Rounds(0)  d == Rounds(1)  w == Written(1)
    <2>2. t \in Int /\ w \in Int /\ t = d /\ clen[0] = w /\ n \in Int
      BY <1>5, <1>9, <1>11, <2>1
    <2>3. t' = t + 1 /\ d' = d /\ w' = w
      BY <1>11
    <2>4. Written(0)' = w + n + 1
      BY <1>11, <2>2
    <2> HIDE DEF t, d, w
    <2>5. t' # d' /\ Written(0)' = w' + result'[0].n + 1
      BY <1>1, <2>2, <2>3, <2>4
    <2> QED BY <2>5 DEF WorkerTexts, t, d, w
  <1>15. cursor[0] + Len(Bonus) = clen[0]
    BY <1>1, <1>3 DEF WorkerState, WorkerInv, WorkerCursors, TargetCursor
  <1>16. TargetCursor'
    <2>1. Len(Bonus)' = 1
      BY <1>1 DEF Bonus, NoToken, TargetVocab
    <2> DEFINE b == Len(Bonus)
    <2>2. cursor'[0] = (cursor[0] + b) + n /\ b' = 1
      BY <1>10, <2>1
    <2>3. cursor[0] + b = clen[0] /\ b \in Nat
      BY <1>5, <1>15
    <2> HIDE DEF b
    <2>4. cursor'[0] + b' = clen'[0]
      BY <1>5, <1>10, <2>2, <2>3
    <2> QED BY <2>4 DEF TargetCursor, b
  <1>17. clen[0] < PromptLen + launch.nNew
    BY <1>1, <1>3 DEF WorkerState, WorkerInv, WorkerRoom, RoomAt
  <1>18. RoomAt("send_result", clen'[0])
    <2>1. clen'[0] <= PromptLen + launch.nNew + launch.gamma
      <3>1. clen'[0] = clen[0] + n + 1
        BY <1>10
      <3> QED BY <1>5b, <1>17, <3>1, RoomLeft
    <2> QED BY <1>3, <2>1 DEF RoomAt
  <1>19. WorkerFits'
    <2> DEFINE b == Len(Bonus)
    <2>1. \/ exit' = exit
          \/ exit' = [exit EXCEPT ![0] = Raised] /\ ~(cursor[0] + (b + launch.gamma) <= launch.maxSeq)
      BY DEF SpeculativeStep, RaisesUnless, Leave, Done, Fits
    <2>2. cursor[0] + b = clen[0] /\ b \in Nat
      BY <1>5, <1>15
    <2> HIDE DEF b
    <2>3. ~(cursor[0] + (b + launch.gamma) <= launch.maxSeq) =>
              ~(PromptLen + launch.nNew + launch.gamma <= launch.maxSeq)
      <3>1. clen[0] + launch.gamma <= PromptLen + launch.nNew + launch.gamma
        BY <1>5b, <1>17, RoomLeft
      <3>2. cursor[0] + (b + launch.gamma) = clen[0] + launch.gamma
        BY <1>5, <2>2
      <3> DEFINE x == PromptLen + launch.nNew + launch.gamma  y == clen[0] + launch.gamma
      <3>3. x \in Nat /\ y \in Nat /\ y <= x /\ launch.maxSeq \in Nat
        BY <1>5b, <3>1
      <3> HIDE DEF x, y
      <3>4. ~(y <= launch.maxSeq) => ~(x <= launch.maxSeq)
        BY <3>3
      <3> QED BY <3>2, <3>4 DEF x, y
    <2> QED BY <1>1, <2>1, <2>3, WorkerFitsStep
  <1>20. cursor' \in [Ranks -> Nat]
    <2>1. cursor \in [Ranks -> Nat]
      BY WorkerFacts
    <2>2. cursor[0] + Len(Bonus) + n \in Nat
      BY <1>5
    <2> QED BY <1>1, <2>1, <2>2
  <1> QED BY <1>1, <1>4, <1>10, <1>12, <1>13, <1>14, <1>16, <1>18, <1>19, <1>20, WorkerTargetDone

\* Taking the answer in counts the round the target has counted.
LEMMA WorkerApplyTargetFeedback ==
    ASSUME WorkerState, ApplyTargetFeedback PROVE WorkerAgain'
  <1> USE DEF TARGET_RANK, DRAFT_RANK, Ranks
  <1> DEFINE n == result[1].n
  <1>1. /\ pc[1] = "apply_target_feedback" /\ pc' = [pc EXCEPT ![1] = "round"]
        /\ cursor' = IF CannotEmbed THEN cursor ELSE [cursor EXCEPT ![1] = cursor[1] - launch.gamma + n + 1]
        /\ accepted' = [accepted EXCEPT ![1] = Append(accepted[1], n)]
        /\ clen' = [clen EXCEPT ![1] = clen[1] + n + 1]
        /\ UNCHANGED <<launch, posted, entered, net, text, pending, payload, result>>
        /\ exit[1] # Raised /\ exit'[0] = exit[0] /\ (CannotEmbed => exit'[1] = Raised)
    <2>1. pc[1] = "apply_target_feedback" /\ launch.prog = "worker"
      BY DEF WorkerState, ApplyTargetFeedback, At
    <2>2. Following("apply_target_feedback", 1) = "round"
      BY <2>1, WorkerFollowing DEF WorkerPaths
    <2>3. exit[1] # Raised /\ exit'[0] = exit[0] /\ (CannotEmbed => exit'[1] = Raised)
      BY WorkerFacts DEF ApplyTargetFeedback, At, RaisesUnless, Leave, Done, Running, Raised
    <2> QED BY <2>1, <2>2, <2>3 DEF ApplyTargetFeedback, RaisesUnless, Leave, Done, Continue, Counts
  <1>2. ~posted[1]
    BY <1>1 DEF WorkerState, PostedOK, Collectives, Barriers, Timings
  <1>3. /\ "apply_target_feedback" \in InRun \ {"stop_barrier"} /\ "apply_target_feedback" \in DraftBody
        /\ "round" \in InRun \cap WorkerDraft /\ "round" \notin TargetBody \cup DraftBody
    BY DEF InRun, TargetBody, DraftBody, WorkerDraft
  <1>4. /\ WorkerGoes(1, "round") /\ pc'[1] = "round" /\ pc'[0] = pc[0]
        /\ Counting(0)' = Counting(0) /\ Counting(1) /\ Counting(1)'
    BY <1>1, <1>2, <1>3, WorkerDraftGoes
  <1>5. /\ cursor[1] \in Nat /\ Rounds(0) \in Nat /\ Rounds(1) \in Nat /\ Written(0) \in Nat
        /\ Written(1) \in Nat /\ Traffic(Rounds(0), Rounds(1))
    BY WorkerSizes
  <1>5b. /\ PromptLen \in Nat /\ launch.nNew \in Nat /\ launch.gamma \in Nat /\ launch.maxSeq \in Nat
         /\ clen[1] \in Nat
    BY WorkerSizes
  <1>6. DraftIds = 1 /\ DraftLogits = 1 /\ DraftResult = 1
    BY <1>1 DEF DraftIds, DraftLogits, DraftResult
  <1>7. DraftIds' = 0 /\ DraftLogits' = 0 /\ DraftResult' = 0
    BY <1>4 DEF DraftIds, DraftLogits, DraftResult
  <1>8. TargetIds' = TargetIds /\ TargetLogits' = TargetLogits /\ TargetOwes' = TargetOwes
    BY <1>1, <1>4, TargetStands
  <1>9. Rounds(0) = Rounds(1) + 1
    BY <1>5, <1>6, Apart DEF WorkerState
  <1>10. n = result[0].n /\ n \in 0 .. launch.gamma
    <2>1. WorkerMessages
      BY DEF WorkerState, WorkerInv
    <2>2. n \in Nat
      BY WorkerFacts DEF Answers
    <2> QED BY <1>1, <1>5b, <2>1, <2>2 DEF WorkerMessages
  <1> HIDE DEF n
  <1>11. /\ accepted'[0] = accepted[0] /\ clen'[0] = clen[0] /\ cursor'[0] = cursor[0]
         /\ Len(accepted'[1]) = Len(accepted[1]) + 1 /\ clen'[1] = clen[1] + n + 1
         /\ (~CannotEmbed => cursor'[1] = cursor[1] - launch.gamma + n + 1)
    <2>1. accepted[1] \in Seq(Nat) /\ n \in Nat
      BY <1>10, WorkerFacts
    <2>2. Len(Append(accepted[1], n)) = Len(accepted[1]) + 1
      BY <2>1
    <2> QED BY <1>1, <2>2, WorkerFacts
  <1>12. /\ Rounds(1)' = Rounds(1) + 1 /\ Rounds(0)' = Rounds(0)
         /\ Written(1) = clen[1] /\ Written(1)' = clen[1] + n + 1 /\ Written(0)' = Written(0)
    <2>1. Rounds(1)' = Rounds(1) + 1 /\ Written(1) = clen[1] /\ Written(1)' = clen[1] + n + 1
      BY <1>4, <1>11 DEF Rounds, Written
    <2>2. Rounds(0)' = Rounds(0) /\ Written(0)' = Written(0)
      BY <1>1, <1>4, <1>11 DEF Rounds, Written, PromptLen
    <2> QED BY <2>1, <2>2
  <1>13. WorkerTraffic'
    <2> DEFINE i == Len(net["ids"])  l == Len(net["logits"])  a == Len(net["result"])
               t == Rounds(0)  d == Rounds(1)
    <2>1. /\ i = (d + DraftIds) - (t + TargetIds) /\ l = (d + DraftLogits) - (t + TargetLogits)
          /\ a = (t - TargetOwes) - (d + DraftResult) /\ t \in Int /\ d \in Int
      BY <1>5 DEF Traffic
    <2>2. i' = i /\ l' = l /\ a' = a /\ t' = t /\ d' = d + 1
      BY <1>1, <1>12 DEF i, l, a, t, d
    <2> HIDE DEF i, l, a, t, d
    <2>3. i' = (d' + DraftIds') - (t' + TargetIds')
      BY <1>6, <1>7, <1>8, <2>1, <2>2, Whole
    <2>4. l' = (d' + DraftLogits') - (t' + TargetLogits')
      BY <1>6, <1>7, <1>8, <2>1, <2>2, Whole
    <2>5. a' = (t' - TargetOwes') - (d' + DraftResult')
      BY <1>6, <1>7, <1>8, <2>1, <2>2, Whole
    <2> QED BY <2>3, <2>4, <2>5 DEF WorkerTraffic, Traffic, i, l, a, t, d
  <1>14. WorkerMessages'
    BY <1>1, <1>4 DEF WorkerMessages, WorkerState, WorkerInv
  <1>15. WorkerTexts'
    <2>1. Written(0) = Written(1) + result[0].n + 1
      BY <1>9 DEF WorkerState, WorkerInv, WorkerTexts
    <2>2. Rounds(0)' = Rounds(1)' /\ Written(0)' = Written(1)'
      BY <1>9, <1>10, <1>12, <2>1
    <2>3. Rounds(1)' \in Nat
      BY <1>5, <1>12
    <2> QED BY <2>2, <2>3 DEF WorkerTexts
  <1>16. cursor[1] = clen[1] + launch.gamma /\ (~CannotEmbed => cursor'[1] = clen[1] + n + 1)
    <2>1. cursor[1] = clen[1] + Ahead("apply_target_feedback") /\ Ahead("apply_target_feedback") = launch.gamma
      BY <1>1, <1>3 DEF WorkerState, WorkerInv, WorkerCursors, DraftCursor, Ahead
    <2> QED BY <1>5b, <1>10, <1>11, <2>1
  <1>17. DraftCursor'
    <2>1. Ahead(pc[1])' = 0
      BY <1>3, <1>4 DEF Ahead
    <2>2. exit'[1] # Raised => cursor'[1] = clen'[1]
      BY <1>1, <1>11, <1>16
    <2>3. clen'[1] \in Nat
      BY <1>5b, <1>10, <1>11
    <2>4. exit'[1] # Raised => cursor'[1] = clen'[1] + Ahead(pc[1])'
      BY <2>1, <2>2, <2>3
    <2> QED BY <2>4 DEF DraftCursor
  <1>18. clen[1] < PromptLen + launch.nNew
    BY <1>1, <1>3 DEF WorkerState, WorkerInv, WorkerRoom, RoomAt
  <1>19. clen[1] + n + 1 <= PromptLen + launch.nNew + launch.gamma
    BY <1>5b, <1>10, <1>18, RoomLeft
  <1>20. RoomAt("round", clen'[1])
    BY <1>3, <1>11, <1>19 DEF RoomAt
  <1>21. WorkerFits'
    <2>1. \/ exit' = exit
          \/ exit' = [exit EXCEPT ![1] = Raised] /\ (CannotEmbed \/ ~(cursor'[1] <= launch.maxSeq))
      BY DEF ApplyTargetFeedback, RaisesUnless, Leave, Done
    <2> DEFINE x == PromptLen + launch.nNew + launch.gamma  y == clen[1] + n + 1
    <2>2. x \in Nat /\ y \in Nat /\ y <= x /\ (~CannotEmbed => cursor'[1] = y) /\ launch.maxSeq \in Nat
      BY <1>5b, <1>10, <1>16, <1>19
    <2> HIDE DEF x, y
    <2>3. ~CannotEmbed /\ ~(cursor'[1] <= launch.maxSeq) => ~(x <= launch.maxSeq)
      BY <2>2
    <2>4. CannotEmbed' = CannotEmbed
      BY <1>1 DEF CannotEmbed
    <2> QED BY <1>1, <2>1, <2>3, <2>4, WorkerFitsStep DEF x
  <1>22. cursor' \in [Ranks -> Nat]
    <2>1. cursor \in [Ranks -> Nat]
      BY WorkerFacts
    <2>2. clen[1] + n + 1 \in Nat
      BY <1>5b, <1>10
    <2>3. cursor' = cursor \/ cursor' = [cursor EXCEPT ![1] = clen[1] + n + 1]
      BY <1>1, <1>11, <1>16
    <2> QED BY <2>1, <2>2, <2>3
  <1> QED BY <1>1, <1>4, <1>11, <1>13, <1>14, <1>15, <1>17, <1>20, <1>21, <1>22, WorkerDraftDone

\* The last deferred bonus enters the target's cache.
LEMMA WorkerFlushPendingBonus ==
    ASSUME WorkerState, FlushPendingBonus PROVE WorkerAgain'
  <1> USE DEF TARGET_RANK, DRAFT_RANK, Ranks
  <1>1. /\ pc[0] = "flush" /\ pc' = [pc EXCEPT ![0] = "stop_barrier"] /\ pending' = NoToken
        /\ cursor' = [cursor EXCEPT ![0] = cursor[0] + Len(Bonus)]
        /\ UNCHANGED <<launch, posted, entered, net, text, payload, result, accepted, clen>>
        /\ exit'[1] = exit[1]
    <2>1. pc[0] = "flush" /\ launch.prog = "worker"
      BY DEF WorkerState, FlushPendingBonus, At
    <2>2. Following("flush", 0) = "stop_barrier"
      BY <2>1, WorkerFollowing DEF WorkerPaths
    <2>3. exit'[1] = exit[1]
      BY <2>1, WorkerFacts DEF FlushPendingBonus, RaisesUnless, Leave, Done
    <2> QED BY <2>1, <2>2, <2>3 DEF FlushPendingBonus, RaisesUnless, Leave, Done, Continue, Forward
  <1>2. ~posted[0]
    BY <1>1 DEF WorkerState, PostedOK, Collectives, Barriers, Timings
  <1>3. /\ "flush" \in InRun \ {"stop_barrier"} /\ "stop_barrier" \in InRun \cap WorkerTarget
        /\ "stop_barrier" \notin TargetBody \cup DraftBody
    BY DEF InRun, TargetBody, DraftBody, WorkerTarget
  <1>4. /\ WorkerGoes(0, "stop_barrier") /\ pc'[0] = "stop_barrier" /\ pc'[1] = pc[1]
        /\ Counting(1)' = Counting(1) /\ Counting(0) /\ Counting(0)'
    BY <1>1, <1>2, <1>3, WorkerTargetGoes
  <1>5. /\ Rounds(0)' = Rounds(0) /\ Rounds(1)' = Rounds(1) /\ WorkerTexts'
    BY <1>1, <1>4, WorkerSame
  <1>6. WorkerTraffic'
    <2>1. TargetIds' = TargetIds /\ TargetLogits' = TargetLogits /\ TargetOwes' = TargetOwes
      BY <1>1, <1>2, <1>4 DEF TargetIds, TargetLogits, TargetOwes
    <2>2. DraftIds' = DraftIds /\ DraftLogits' = DraftLogits /\ DraftResult' = DraftResult
      BY <1>1, <1>4, DraftStands
    <2> QED BY <1>1, <1>5, <2>1, <2>2, WorkerSizes DEF WorkerTraffic, Traffic
  <1>7. WorkerMessages'
    BY <1>1, <1>4 DEF WorkerMessages, WorkerState, WorkerInv
  <1>8. cursor[0] \in Nat /\ Len(Bonus) \in Nat /\ clen[0] \in Nat
    BY WorkerSizes
  <1>9. PromptLen \in Nat /\ launch.nNew \in Nat /\ launch.gamma \in Nat /\ launch.maxSeq \in Nat
    BY WorkerSizes
  <1>10. cursor[0] + Len(Bonus) = clen[0]
    BY <1>1, <1>3 DEF WorkerState, WorkerInv, WorkerCursors, TargetCursor
  <1>11. cursor' = [cursor EXCEPT ![0] = clen[0]]
    BY <1>1, <1>10
  <1>12. cursor'[0] = clen[0] /\ cursor'[1] = cursor[1] /\ cursor' \in [Ranks -> Nat]
    BY <1>8, <1>11, WorkerFacts
  <1>13. TargetCursor'
    <2>1. Bonus' = <<>>
      BY <1>1 DEF Bonus
    <2> QED BY <1>1, <1>8, <1>12, <2>1 DEF TargetCursor
  <1>14. RoomAt("flush", clen[0]) /\ RoomAt("stop_barrier", clen'[0])
    <2>1. RoomAt("flush", clen[0])
      BY <1>1 DEF WorkerState, WorkerInv, WorkerRoom
    <2> QED BY <1>1, <1>3, <2>1 DEF RoomAt
  <1>15. WorkerFits'
    <2> DEFINE x == PromptLen + launch.nNew + launch.gamma
    <2>1. \/ exit' = exit
          \/ exit' = [exit EXCEPT ![0] = Raised] /\ ~(cursor[0] + Len(Bonus) <= launch.maxSeq)
      BY DEF WorkerState, FlushPendingBonus, RaisesUnless, Leave, Done, Fits
    <2>2. x \in Nat /\ clen[0] <= x
      BY <1>3, <1>9, <1>14 DEF RoomAt
    <2> HIDE DEF x
    <2>3. ~(clen[0] <= launch.maxSeq) => ~(x <= launch.maxSeq)
      BY <1>8, <1>9, <2>2
    <2> QED BY <1>1, <1>10, <2>1, <2>3, WorkerFitsStep DEF x
  <1> QED BY <1>1, <1>4, <1>5, <1>6, <1>7, <1>12, <1>13, <1>14, <1>15, WorkerTargetDone

\* A step within a round: what it adds to the traffic or takes from it is what
\* the rank is then ahead by.
Carries ==
    /\ Len(net["ids"])' = Len(net["ids"]) + (DraftIds' - DraftIds) - (TargetIds' - TargetIds)
    /\ Len(net["logits"])' =
           Len(net["logits"]) + (DraftLogits' - DraftLogits) - (TargetLogits' - TargetLogits)
    /\ Len(net["result"])' =
           Len(net["result"]) - (TargetOwes' - TargetOwes) - (DraftResult' - DraftResult)

LEMMA WorkerAdvances ==
    ASSUME WorkerState, NEW r \in Ranks, NEW p \in InRun \ {"stop_barrier"},
           NEW q \in InRun \ {"stop_barrier"}, pc[r] = p, pc' = [pc EXCEPT ![r] = q],
           q \in IF r = 0 THEN WorkerTarget ELSE WorkerDraft, posted'[1 - r] = posted[1 - r],
           UNCHANGED <<launch, entered, exit, text, pending, accepted, clen, cursor>>,
           result'[0] = result[0], exit[1] # Raised \/ result'[1] = result[1], r = 1 => Ahead(q) = Ahead(p), RoomAt(q, clen[r]), Carries,
           WorkerMessages'
    PROVE  WorkerAgain'
  <1> USE DEF TARGET_RANK, DRAFT_RANK, Ranks
  <1>1. /\ WorkerGoes(r, q) /\ pc'[r] = q /\ pc'[1 - r] = pc[1 - r]
        /\ Counting(1 - r)' = Counting(1 - r) /\ Counting(r) /\ Counting(r)'
    BY WorkerGoesOn
  <1>2. /\ Rounds(0)' = Rounds(0) /\ Rounds(1)' = Rounds(1) /\ WorkerTexts'
    <2>1. r \in {0, 1}
      OBVIOUS
    <2>2. Counting(0)' = Counting(0) /\ Counting(1)' = Counting(1)
      <3>1. CASE r = 0
        BY <1>1, <3>1 DEF Counting, Over, Other
      <3>2. CASE r = 1
        BY <1>1, <3>2 DEF Counting, Over, Other
      <3> QED BY <2>1, <3>1, <3>2
    <2> QED BY <2>2, WorkerSame
  <1>3. WorkerTraffic'
    <2> DEFINE i == Len(net["ids"])  l == Len(net["logits"])  a == Len(net["result"])
               t == Rounds(0)  d == Rounds(1)
    <2>1. /\ i = (d + DraftIds) - (t + TargetIds) /\ l = (d + DraftLogits) - (t + TargetLogits)
          /\ a = (t - TargetOwes) - (d + DraftResult) /\ t \in Int /\ d \in Int
      BY WorkerSizes DEF Traffic
    <2>2. t' = t /\ d' = d
      BY <1>2 DEF t, d
    <2>3. /\ i' = i + (DraftIds' - DraftIds) - (TargetIds' - TargetIds)
          /\ l' = l + (DraftLogits' - DraftLogits) - (TargetLogits' - TargetLogits)
          /\ a' = a - (TargetOwes' - TargetOwes) - (DraftResult' - DraftResult)
      BY DEF Carries
    <2>4. /\ DraftIds' \in Int /\ DraftLogits' \in Int /\ DraftResult' \in Int
          /\ TargetIds' \in Int /\ TargetLogits' \in Int /\ TargetOwes' \in Int
      BY DEF DraftIds, DraftLogits, DraftResult, TargetIds, TargetLogits, TargetOwes
    <2> HIDE DEF i, l, a, t, d
    <2>5. i' = (d' + DraftIds') - (t' + TargetIds')
      BY <2>1, <2>2, <2>3, <2>4, Whole
    <2>6. l' = (d' + DraftLogits') - (t' + TargetLogits')
      BY <2>1, <2>2, <2>3, <2>4, Whole
    <2>7. a' = (t' - TargetOwes') - (d' + DraftResult')
      BY <2>1, <2>2, <2>3, <2>4, Whole
    <2> QED BY <2>5, <2>6, <2>7 DEF WorkerTraffic, Traffic, i, l, a, t, d
  <1>4. TargetCursor /\ DraftCursor
    BY DEF WorkerState, WorkerInv, WorkerCursors
  <1>5. r = 0 => TargetCursor'
    BY <1>1, <1>4 DEF TargetCursor, Bonus
  <1>6. r = 1 => DraftCursor'
    <2>1. r = 1 => Ahead(pc[1])' = Ahead(pc[1])
      BY <1>1 DEF Ahead
    <2> QED BY <1>1, <1>4, <2>1 DEF DraftCursor
  <1>7. WorkerFits'
    BY WorkerFitsStep
  <1>8. /\ accepted'[1 - r] = accepted[1 - r] /\ clen'[1 - r] = clen[1 - r]
        /\ cursor'[1 - r] = cursor[1 - r] /\ cursor' \in [Ranks -> Nat]
    BY WorkerFacts
  <1> QED BY <1>1, <1>2, <1>3, <1>5, <1>6, <1>7, <1>8, WorkerDone

\* The queues before and after one message is added or taken.
LEMMA WorkerQueues ==
    ASSUME WorkerState, NEW m \in Messages
    PROVE  /\ Len(net["ids"]) \in Int /\ Len(net["logits"]) \in Int /\ Len(net["result"]) \in Int
           /\ \A x : net' = [net EXCEPT ![m] = Append(net[m], x)] =>
                  /\ Len(net'[m]) = Len(net[m]) + 1
                  /\ \A k \in Messages : k # m => net'[k] = net[k]
           /\ Receive(m) => /\ net[m] # <<>> /\ Len(net'[m]) = Len(net[m]) - 1
                            /\ \A k \in Messages : k # m => net'[k] = net[k]
  <1>1. net \in [Messages -> Seq(Seq(Rows) \cup Answers)]
    BY WorkerFacts
  <1>2. Len(net["ids"]) \in Int /\ Len(net["logits"]) \in Int /\ Len(net["result"]) \in Int
    BY <1>1 DEF Messages
  <1>3. ASSUME NEW x, net' = [net EXCEPT ![m] = Append(net[m], x)]
        PROVE  Len(net'[m]) = Len(net[m]) + 1 /\ \A k \in Messages : k # m => net'[k] = net[k]
    <2>1. net'[m] = Append(net[m], x) /\ \A k \in Messages : k # m => net'[k] = net[k]
      BY <1>1, <1>3
    <2>2. net[m] \in Seq((Seq(Rows) \cup Answers) \cup {x})
      BY <1>1
    <2> QED BY <2>1, <2>2
  <1>4. ASSUME Receive(m)
        PROVE  /\ net[m] # <<>> /\ Len(net'[m]) = Len(net[m]) - 1
               /\ \A k \in Messages : k # m => net'[k] = net[k]
    <2>1. /\ net[m] # <<>> /\ net'[m] = Tail(net[m])
          /\ \A k \in Messages : k # m => net'[k] = net[k]
      BY <1>1, <1>4 DEF Receive
    <2>2. Len(Tail(net[m])) = Len(net[m]) - 1
      BY <1>1, <2>1
    <2> QED BY <2>1, <2>2
  <1> QED BY <1>2, <1>3, <1>4

\* A send puts the message under way the rank is now ahead by.
LEMMA WorkerSend ==
    ASSUME WorkerState, SendDraftIds \/ SendDraftLogits \/ SendTargetResult PROVE WorkerAgain'
  <1> USE DEF TARGET_RANK, DRAFT_RANK, Ranks
  <1> DEFINE r == IF SendTargetResult THEN 0 ELSE 1
             m == IF SendTargetResult THEN "result" ELSE IF SendDraftIds THEN "ids" ELSE "logits"
             x == IF SendTargetResult THEN result[0]
                  ELSE IF SendDraftIds THEN payload[1].ids ELSE payload[1].logits
  <1>1. /\ r \in Ranks /\ m \in Messages /\ ~posted[r] /\ posted' = [posted EXCEPT ![r] = TRUE]
        /\ net' = [net EXCEPT ![m] = Append(net[m], x)]
        /\ UNCHANGED <<launch, pc, turn, job, entered, exit, data>>
        /\ \/ r = 1 /\ m = "ids" /\ pc[1] = "send_ids"
           \/ r = 1 /\ m = "logits" /\ pc[1] = "send_logits"
           \/ r = 0 /\ m = "result" /\ pc[0] = "send_result" /\ x = result[0]
    BY DEF SendDraftIds, SendDraftLogits, SendTargetResult, Post, At, Messages
  <1> HIDE DEF r, m, x
  <1>2. posted'[r] /\ posted'[1 - r] = posted[1 - r] /\ pc' = pc
    <2>1. posted \in [Ranks -> BOOLEAN]
      BY WorkerFacts
    <2>2. r \in Ranks /\ posted' = [posted EXCEPT ![r] = TRUE] /\ pc' = pc
      BY <1>1
    <2>3. posted'[r]
      BY <2>1, <2>2
    <2>4. posted'[1 - r] = posted[1 - r]
      <3>1. CASE r = 0
        <4>1. posted' = [posted EXCEPT ![0] = TRUE]
          BY <2>2, <3>1
        <4> QED BY <2>1, <3>1, <4>1
      <3>2. CASE r = 1
        <4>1. posted' = [posted EXCEPT ![1] = TRUE]
          BY <2>2, <3>2
        <4> QED BY <2>1, <3>2, <4>1
      <3> QED BY <2>2, <3>1, <3>2
    <2> QED BY <2>2, <2>3, <2>4
  <1>3. /\ Len(net'[m]) = Len(net[m]) + 1 /\ \A k \in Messages : k # m => net'[k] = net[k]
        /\ Len(net["ids"]) \in Int /\ Len(net["logits"]) \in Int /\ Len(net["result"]) \in Int
    BY <1>1, WorkerQueues
  <1>4. Carries
    <2>1. CASE r = 1 /\ m = "ids" /\ pc[1] = "send_ids"
      <3>1. TargetIds' = TargetIds /\ TargetLogits' = TargetLogits /\ TargetOwes' = TargetOwes
        BY <1>2, <2>1, TargetStands
      <3>2. /\ DraftIds = 0 /\ DraftLogits = 0 /\ DraftResult = 0
            /\ DraftIds' = 1 /\ DraftLogits' = 0 /\ DraftResult' = 0
        BY <1>1, <1>2, <2>1 DEF DraftIds, DraftLogits, DraftResult
      <3>3. /\ Len(net["ids"])' = Len(net["ids"]) + 1 /\ Len(net["logits"])' = Len(net["logits"])
            /\ Len(net["result"])' = Len(net["result"])
        BY <1>3, <2>1 DEF Messages
      <3> QED BY <1>3, <3>1, <3>2, <3>3, Whole DEF Carries
    <2>2. CASE r = 1 /\ m = "logits" /\ pc[1] = "send_logits"
      <3>1. TargetIds' = TargetIds /\ TargetLogits' = TargetLogits /\ TargetOwes' = TargetOwes
        BY <1>2, <2>2, TargetStands
      <3>2. /\ DraftIds = 1 /\ DraftLogits = 0 /\ DraftResult = 0
            /\ DraftIds' = 1 /\ DraftLogits' = 1 /\ DraftResult' = 0
        BY <1>1, <1>2, <2>2 DEF DraftIds, DraftLogits, DraftResult
      <3>3. /\ Len(net["ids"])' = Len(net["ids"]) /\ Len(net["logits"])' = Len(net["logits"]) + 1
            /\ Len(net["result"])' = Len(net["result"])
        BY <1>3, <2>2 DEF Messages
      <3> QED BY <1>3, <3>1, <3>2, <3>3, Whole DEF Carries
    <2>3. CASE r = 0 /\ m = "result" /\ pc[0] = "send_result"
      <3>1. DraftIds' = DraftIds /\ DraftLogits' = DraftLogits /\ DraftResult' = DraftResult
        BY <1>2, <2>3, DraftStands
      <3>2. /\ TargetIds = 0 /\ TargetLogits = 0 /\ TargetOwes = 1
            /\ TargetIds' = 0 /\ TargetLogits' = 0 /\ TargetOwes' = 0
        BY <1>1, <1>2, <2>3 DEF TargetIds, TargetLogits, TargetOwes
      <3>3. /\ Len(net["ids"])' = Len(net["ids"]) /\ Len(net["logits"])' = Len(net["logits"])
            /\ Len(net["result"])' = Len(net["result"]) + 1
        BY <1>3, <2>3 DEF Messages
      <3> QED BY <1>3, <3>1, <3>2, <3>3, Whole DEF Carries
    <2> QED BY <1>1, <2>1, <2>2, <2>3
  <1>5. result' = result
    BY <1>1 DEF data
  <1>6. WorkerMessages'
    <2>1. WorkerMessages
      BY DEF WorkerState, WorkerInv
    <2>2. m # "result" => net'["result"] = net["result"]
      BY <1>3 DEF Messages
    <2>3. m = "result" => net'["result"] = <<result[0]>>
      <3>1. m = "result" => TargetOwes = 1
        BY <1>1 DEF TargetOwes
      <3>2. m = "result" => net["result"] = <<>>
        <4>1. TypeOK /\ Traffic(Rounds(0), Rounds(1)) /\ Rounds(0) \in Nat /\ Rounds(1) \in Nat
          BY WorkerSizes DEF WorkerState
        <4>2. net["result"] # <<>> => TargetOwes = 0
          BY <4>1, Apart
        <4> QED BY <3>1, <4>2
      <3>3. m = "result" => net'["result"] = Append(net["result"], result[0])
        BY <1>1, WorkerFacts
      <3> QED BY <3>2, <3>3
    <2> QED BY <1>1, <1>5, <2>1, <2>2, <2>3 DEF WorkerMessages
  <1>7. /\ pc[r] \in InRun \ {"stop_barrier"} /\ pc[r] \in (IF r = 0 THEN WorkerTarget ELSE WorkerDraft)
        /\ pc' = [pc EXCEPT ![r] = pc[r]] /\ RoomAt(pc[r], clen[r])
    <2>1. pc[r] \in InRun \ {"stop_barrier"}
      BY <1>1 DEF InRun, DraftBody
    <2>2. pc[r] \in (IF r = 0 THEN WorkerTarget ELSE WorkerDraft) /\ RoomAt(pc[r], clen[r])
      BY <1>1 DEF WorkerState, WorkerInv, WorkerLabels, WorkerRoom
    <2>3. pc' = [pc EXCEPT ![r] = pc[r]]
      BY <1>1, <1>2, WorkerFacts
    <2> QED BY <2>1, <2>2, <2>3
  <1> QED BY <1>1, <1>2, <1>4, <1>5, <1>6, <1>7, WorkerAdvances DEF data

\* A send that returns leaves its message counted.
LEMMA WorkerSendReturns ==
    ASSUME WorkerState, NEW r \in Ranks, NEW p \in DOMAIN Sends, SendReturns(r, p)
    PROVE  WorkerAgain'
  <1> USE DEF TARGET_RANK, DRAFT_RANK, Ranks
  <1>1. /\ pc[r] = p /\ posted[r] /\ posted' = [posted EXCEPT ![r] = FALSE]
        /\ pc' = [pc EXCEPT ![r] = Following(p, r)]
        /\ UNCHANGED <<launch, turn, job, entered, net, exit, data>>
    BY DEF SendReturns, Returns, Continue
  <1> DEFINE q == IF p = "send_ids" THEN "send_logits" ELSE IF p = "send_logits" THEN "recv_result"
                  ELSE "round"
  <1>2. \/ r = 1 /\ p = "send_ids" /\ q = "send_logits"
        \/ r = 1 /\ p = "send_logits" /\ q = "recv_result"
        \/ r = 0 /\ p = "send_result" /\ q = "round"
    <2>1. p \in {"send_ids", "send_logits", "send_result"}
      BY DEF Sends
    <2>2. pc[0] \in WorkerTarget /\ pc[1] \in WorkerDraft
      BY DEF WorkerState, WorkerInv, WorkerLabels
    <2>3. "send_ids" \notin WorkerTarget /\ "send_logits" \notin WorkerTarget /\ "send_result" \notin WorkerDraft
      BY DEF WorkerTarget, WorkerDraft, DraftBody, InRun, TargetBody, Idle
    <2> QED BY <1>1, <2>1, <2>2, <2>3
  <1>3. pc' = [pc EXCEPT ![r] = q]
    <2>1. launch.prog = "worker"
      BY DEF WorkerState
    <2>2. Following(p, r) = q
      BY <1>2, <2>1, WorkerFollowing DEF WorkerPaths
    <2> QED BY <1>1, <2>2
  <1> HIDE DEF q
  <1>4. /\ p \in InRun \ {"stop_barrier"} /\ q \in InRun \ {"stop_barrier"}
        /\ q \in (IF r = 0 THEN WorkerTarget ELSE WorkerDraft)
    BY <1>2 DEF InRun, DraftBody, TargetBody, WorkerTarget, WorkerDraft
  <1>5. ~posted'[r] /\ posted'[1 - r] = posted[1 - r] /\ pc'[r] = q /\ pc'[1 - r] = pc[1 - r]
    <2>1. posted \in [Ranks -> BOOLEAN] /\ pc \in [Ranks -> Operations]
      BY WorkerFacts
    <2>2. pc'[r] = q /\ pc'[1 - r] = pc[1 - r]
      BY <1>3, <2>1
    <2>3. posted' = [posted EXCEPT ![r] = FALSE] /\ posted \in [Ranks -> BOOLEAN]
      BY <1>1, WorkerFacts
    <2>4. posted'[1 - r] = posted[1 - r]
      <3>1. CASE r = 0
        <4>1. posted' = [posted EXCEPT ![0] = FALSE]
          BY <2>3, <3>1
        <4> QED BY <2>3, <3>1, <4>1
      <3>2. CASE r = 1
        <4>1. posted' = [posted EXCEPT ![1] = FALSE]
          BY <2>3, <3>2
        <4> QED BY <2>3, <3>2, <4>1
      <3> QED BY <3>1, <3>2
    <2>5. ~posted'[r]
      BY <2>3
    <2> QED BY <2>2, <2>4, <2>5
  <1>6. Carries
    <2>1. CASE r = 1
      <3>1. pc'[0] = pc[0] /\ posted'[0] = posted[0] /\ pc'[1] = q /\ ~posted'[1] /\ posted[1] /\ pc[1] = p
        BY <1>1, <1>5, <2>1
      <3>2. TargetIds' = TargetIds /\ TargetLogits' = TargetLogits /\ TargetOwes' = TargetOwes
        BY <3>1, TargetStands
      <3>3. DraftIds' = DraftIds /\ DraftLogits' = DraftLogits /\ DraftResult' = DraftResult
        BY <1>2, <2>1, <3>1 DEF DraftIds, DraftLogits, DraftResult
      <3>4. Len(net["ids"]) \in Int /\ Len(net["logits"]) \in Int /\ Len(net["result"]) \in Int
        BY WorkerQueues DEF Messages
      <3> QED BY <1>1, <3>2, <3>3, <3>4, Whole DEF Carries
    <2>2. CASE r = 0
      <3>1. pc'[1] = pc[1] /\ posted'[1] = posted[1] /\ pc'[0] = q /\ ~posted'[0] /\ posted[0] /\ pc[0] = p
        BY <1>1, <1>5, <2>2
      <3>2. DraftIds' = DraftIds /\ DraftLogits' = DraftLogits /\ DraftResult' = DraftResult
        BY <3>1, DraftStands
      <3>3. TargetIds' = TargetIds /\ TargetLogits' = TargetLogits /\ TargetOwes' = TargetOwes
        BY <1>2, <2>2, <3>1 DEF TargetIds, TargetLogits, TargetOwes
      <3>4. Len(net["ids"]) \in Int /\ Len(net["logits"]) \in Int /\ Len(net["result"]) \in Int
        BY WorkerQueues DEF Messages
      <3> QED BY <1>1, <3>2, <3>3, <3>4, Whole DEF Carries
    <2> QED BY <2>1, <2>2
  <1>7. r = 1 => Ahead(q) = Ahead(p)
    BY <1>2 DEF Ahead, DraftBody
  <1>8. RoomAt(q, clen[r])
    <2>1. RoomAt(p, clen[r])
      BY <1>1 DEF WorkerState, WorkerInv, WorkerRoom
    <2>2. p = "send_result" \/ p \in DraftBody
      BY <1>2 DEF DraftBody
    <2>3. p = "send_result" => q = "round"
      BY <1>2
    <2> QED BY <1>2, <1>4, <2>1 DEF RoomAt, DraftBody, TargetBody
  <1>9. WorkerMessages'
    <2>1. pc'[1] # "apply_target_feedback" \/ pc'[1] = pc[1]
      BY <1>2, <1>5
    <2> QED BY <1>1, <2>1 DEF WorkerMessages, WorkerState, WorkerInv, data
  <1> QED BY <1>1, <1>3, <1>4, <1>5, <1>6, <1>7, <1>8, <1>9, WorkerAdvances DEF data

\* A receive takes the message the rank is then behind by.
LEMMA WorkerRecvDraft ==
    ASSUME WorkerState, RecvDraftIds \/ RecvDraftLogits PROVE WorkerAgain'
  <1> USE DEF TARGET_RANK, DRAFT_RANK, Ranks
  <1> DEFINE m == IF RecvDraftIds THEN "ids" ELSE "logits"
             p == IF RecvDraftIds THEN "recv_ids" ELSE "recv_logits"
             q == IF RecvDraftIds THEN "recv_logits" ELSE "speculative_step"
  <1>1. /\ \/ m = "ids" /\ p = "recv_ids" /\ q = "recv_logits"
           \/ m = "logits" /\ p = "recv_logits" /\ q = "speculative_step"
        /\ pc[0] = p /\ Receive(m) /\ pc' = [pc EXCEPT ![0] = q]
        /\ UNCHANGED <<launch, posted, entered, exit, text, pending, result, accepted, clen, cursor>>
    <2>1. launch.prog = "worker"
      BY DEF WorkerState
    <2>2. Following("recv_ids", 0) = "recv_logits" /\ Following("recv_logits", 0) = "speculative_step"
      BY <2>1, WorkerFollowing DEF WorkerPaths
    <2> QED BY <2>2 DEF RecvDraftIds, RecvDraftLogits, At, Done, Continue
  <1> HIDE DEF m, p, q
  <1>2. /\ p \in InRun \ {"stop_barrier"} /\ q \in InRun \ {"stop_barrier"} /\ q \in WorkerTarget
        /\ p \in TargetBody /\ q \in TargetBody /\ m \in Messages
    BY <1>1 DEF InRun, TargetBody, DraftBody, WorkerTarget, Messages
  <1>3. pc'[0] = q /\ pc'[1] = pc[1] /\ posted'[1] = posted[1] /\ ~posted[0]
    <2>1. pc'[0] = q /\ pc'[1] = pc[1] /\ posted'[1] = posted[1]
      BY <1>1, WorkerFacts
    <2>2. ~posted[0]
      BY <1>1 DEF WorkerState, PostedOK, Collectives, Barriers, Timings
    <2> QED BY <2>1, <2>2
  <1>4. /\ Len(net'[m]) = Len(net[m]) - 1 /\ \A k \in Messages : k # m => net'[k] = net[k]
        /\ Len(net["ids"]) \in Int /\ Len(net["logits"]) \in Int /\ Len(net["result"]) \in Int
    BY <1>1, <1>2, WorkerQueues
  <1>5. Carries
    <2>1. DraftIds' = DraftIds /\ DraftLogits' = DraftLogits /\ DraftResult' = DraftResult
      BY <1>1, <1>3, DraftStands
    <2>2. CASE m = "ids" /\ p = "recv_ids" /\ q = "recv_logits"
      <3>1. /\ TargetIds = 0 /\ TargetLogits = 0 /\ TargetOwes = 0
            /\ TargetIds' = 1 /\ TargetLogits' = 0 /\ TargetOwes' = 0
        BY <1>1, <1>3, <2>2 DEF TargetIds, TargetLogits, TargetOwes
      <3>2. /\ Len(net["ids"])' = Len(net["ids"]) - 1 /\ Len(net["logits"])' = Len(net["logits"])
            /\ Len(net["result"])' = Len(net["result"])
        BY <1>4, <2>2 DEF Messages
      <3> QED BY <1>4, <2>1, <3>1, <3>2, Whole DEF Carries
    <2>3. CASE m = "logits" /\ p = "recv_logits" /\ q = "speculative_step"
      <3>1. /\ TargetIds = 1 /\ TargetLogits = 0 /\ TargetOwes = 0
            /\ TargetIds' = 1 /\ TargetLogits' = 1 /\ TargetOwes' = 0
        BY <1>1, <1>3, <2>3 DEF TargetIds, TargetLogits, TargetOwes
      <3>2. /\ Len(net["ids"])' = Len(net["ids"]) /\ Len(net["logits"])' = Len(net["logits"]) - 1
            /\ Len(net["result"])' = Len(net["result"])
        BY <1>4, <2>3 DEF Messages
      <3> QED BY <1>4, <2>1, <3>1, <3>2, Whole DEF Carries
    <2> QED BY <1>1, <2>2, <2>3
  <1>6. RoomAt(q, clen[0])
    <2>1. RoomAt(p, clen[0])
      BY <1>1 DEF WorkerState, WorkerInv, WorkerRoom
    <2>2. q \notin {"flush", "stop_barrier"}
      BY <1>1
    <2> QED BY <1>2, <2>1, <2>2 DEF RoomAt
  <1>7. WorkerMessages'
    <2>1. net'["result"] = net["result"]
      BY <1>1, <1>4 DEF Messages
    <2> QED BY <1>1, <1>3, <2>1 DEF WorkerMessages, WorkerState, WorkerInv
  <1> DEFINE r == 0
  <1>8. /\ r \in Ranks /\ r # 1 /\ pc[r] = p /\ pc' = [pc EXCEPT ![r] = q]
        /\ q \in (IF r = 0 THEN WorkerTarget ELSE WorkerDraft) /\ posted'[1 - r] = posted[1 - r]
        /\ RoomAt(q, clen[r])
    BY <1>1, <1>2, <1>3, <1>6
  <1> HIDE DEF r
  <1> QED BY <1>1, <1>2, <1>5, <1>7, <1>8, WorkerAdvances

LEMMA WorkerRecvTargetResult ==
    ASSUME WorkerState, RecvTargetResult PROVE WorkerAgain'
  <1> USE DEF TARGET_RANK, DRAFT_RANK, Ranks
  <1> DEFINE p == "recv_result"  q == "apply_target_feedback"
  <1>1. /\ pc[1] = p /\ Receive("result") /\ pc' = [pc EXCEPT ![1] = q]
        /\ result' = [result EXCEPT ![1] = Head(net["result"])]
        /\ UNCHANGED <<launch, posted, entered, exit, text, pending, payload, accepted, clen, cursor>>
        /\ exit[1] # Raised
    <2>1. launch.prog = "worker"
      BY DEF WorkerState
    <2>2. Following(p, 1) = q
      BY <2>1, WorkerFollowing DEF WorkerPaths
    <2>3. exit[1] # Raised
      BY DEF RecvTargetResult, At, Running, Raised
    <2> QED BY <2>2, <2>3 DEF RecvTargetResult, At, Done, Continue
  <1>2. /\ p \in InRun \ {"stop_barrier"} /\ q \in InRun \ {"stop_barrier"} /\ q \in WorkerDraft
        /\ p \in DraftBody /\ q \in DraftBody /\ Ahead(p) = Ahead(q) /\ "result" \in Messages
    BY DEF InRun, TargetBody, DraftBody, WorkerDraft, Messages, Ahead
  <1>3. pc'[1] = q /\ pc'[0] = pc[0] /\ posted'[0] = posted[0] /\ result'[0] = result[0]
        /\ result'[1] = Head(net["result"])
    BY <1>1, WorkerFacts
  <1>4. /\ Len(net'["result"]) = Len(net["result"]) - 1 /\ net["result"] # <<>>
        /\ net'["ids"] = net["ids"] /\ net'["logits"] = net["logits"]
        /\ Len(net["ids"]) \in Int /\ Len(net["logits"]) \in Int /\ Len(net["result"]) \in Int
    BY <1>1, <1>2, WorkerQueues DEF Messages
  <1>5. Carries
    <2>1. TargetIds' = TargetIds /\ TargetLogits' = TargetLogits /\ TargetOwes' = TargetOwes
      BY <1>1, <1>3, TargetStands
    <2>2. /\ DraftIds = 1 /\ DraftLogits = 1 /\ DraftResult = 0
          /\ DraftIds' = 1 /\ DraftLogits' = 1 /\ DraftResult' = 1
      BY <1>1, <1>3 DEF DraftIds, DraftLogits, DraftResult
    <2> QED BY <1>4, <2>1, <2>2, Whole DEF Carries
  <1>6. RoomAt(q, clen[1])
    <2>1. RoomAt(p, clen[1])
      BY <1>1 DEF WorkerState, WorkerInv, WorkerRoom
    <2> QED BY <1>2, <2>1 DEF RoomAt
  <1>7. WorkerMessages'
    <2>1. WorkerMessages
      BY DEF WorkerState, WorkerInv
    <2>2. net["result"] = <<result[0]>>
      BY <1>4, <2>1 DEF WorkerMessages
    <2>3. result'[1] = result[0] /\ net'["result"] = <<>>
      <3>1. Head(<<result[0]>>) = result[0] /\ Tail(<<result[0]>>) = <<>>
        OBVIOUS
      <3>2. net'["result"] = Tail(net["result"])
        BY <1>1, <1>2, WorkerFacts DEF Receive
      <3> QED BY <1>3, <2>2, <3>1, <3>2
    <2> QED BY <1>1, <1>3, <2>1, <2>3 DEF WorkerMessages
  <1> DEFINE r == 1
  <1>8. /\ r \in Ranks /\ pc[r] = p /\ pc' = [pc EXCEPT ![r] = q]
        /\ q \in (IF r = 0 THEN WorkerTarget ELSE WorkerDraft) /\ posted'[1 - r] = posted[1 - r]
        /\ RoomAt(q, clen[r])
    BY <1>1, <1>2, <1>3, <1>6
  <1> HIDE DEF r, p, q
  <1> QED BY <1>1, <1>2, <1>3, <1>5, <1>7, <1>8, WorkerAdvances

\* Entering a collective: a rank's count of collectives says on which side of
\* the timed generation it is, so the ranks end the generation together.
LEMMA WorkerEntered ==
    ASSUME WorkerState, NEW r \in Ranks
    PROVE  /\ entered[r] \in Seq(Entries) /\ entered[1 - r] \in Seq(Entries)
           /\ Len(entered[r]) \in Nat /\ Len(entered[1 - r]) \in Nat
           /\ \A s \in Ranks : \E k \in Nat : Len(entered[s]) = (k + k) + Inside(pc[s]) + Now(s)
           /\ Len(entered[r]) - Now(r) <= Len(entered[1 - r])
           /\ Len(entered[1 - r]) - Now(1 - r) <= Len(entered[r])
           /\ Inside("start_barrier") = 0 /\ Inside("stop_barrier") = 1
           /\ \A s \in Ranks : pc[s] \in Collectives => pc[s] \in {"start_barrier", "stop_barrier"}
  <1> USE DEF TARGET_RANK, DRAFT_RANK, Ranks
  <1>1. WorkerCollectives /\ WorkerGate /\ WorkerLabels
    BY DEF WorkerState, WorkerInv
  <1>2. /\ entered[r] \in Seq(Entries) /\ entered[1 - r] \in Seq(Entries)
        /\ Len(entered[r]) \in Nat /\ Len(entered[1 - r]) \in Nat
    BY WorkerFacts
  <1>3. \A s \in Ranks : \E k \in Nat : Len(entered[s]) = (k + k) + Inside(pc[s]) + Now(s)
    BY <1>1 DEF WorkerCollectives
  <1>4. /\ Len(entered[r]) - Now(r) <= Len(entered[1 - r])
        /\ Len(entered[1 - r]) - Now(1 - r) <= Len(entered[r])
    <2>1. Other(r) = 1 - r /\ Other(1 - r) = r /\ 1 - r \in Ranks
      BY DEF Other
    <2> QED BY <1>1, <2>1 DEF WorkerGate
  <1>5. Inside("start_barrier") = 0 /\ Inside("stop_barrier") = 1
    BY DEF Inside, InRun, TargetBody, DraftBody
  <1>6. \A s \in Ranks : pc[s] \in Collectives => pc[s] \in {"start_barrier", "stop_barrier"}
    BY <1>1 DEF WorkerLabels, WorkerTarget, WorkerDraft, InRun, TargetBody, DraftBody, Idle, Collectives,
                Barriers, Timings
  <1> QED BY <1>2, <1>3, <1>4, <1>5, <1>6

LEMMA WorkerMeets ==
    ASSUME WorkerState, NEW r \in Ranks, Enter(r)
    PROVE  /\ pc[r] \in {"start_barrier", "stop_barrier"} /\ ~posted[r] /\ pc' = pc
           /\ posted' = [posted EXCEPT ![r] = TRUE] /\ posted'[r] /\ posted'[1 - r] = posted[1 - r]
           /\ entered'[1 - r] = entered[1 - r] /\ Len(entered'[r]) = Len(entered[r]) + 1
           /\ entered'[r][Len(entered[r]) + 1].what = pc[r]
           /\ \A k \in 1 .. Len(entered[r]) : entered'[r][k] = entered[r][k]
           /\ Now(r) = 0 /\ Now(r)' = 1 /\ Now(1 - r)' = Now(1 - r)
  <1> USE DEF TARGET_RANK, DRAFT_RANK, Ranks
  <1> DEFINE e == [what |-> pc[r], brought |-> Brings(r, pc[r])]
  <1>1. /\ pc[r] \in Collectives /\ ~posted[r] /\ posted' = [posted EXCEPT ![r] = TRUE]
        /\ entered' = [entered EXCEPT ![r] = Append(entered[r], e)] /\ pc' = pc
    BY DEF Enter
  <1>2. pc[r] \in {"start_barrier", "stop_barrier"}
    BY <1>1, WorkerEntered
  <1>3. e.what = pc[r]
    OBVIOUS
  <1> HIDE DEF e
  <1>4. /\ entered'[1 - r] = entered[1 - r] /\ entered'[r] = Append(entered[r], e)
    <2>1. entered \in [Ranks -> Seq(Entries)]
      BY WorkerFacts
    <2>2. r \in Ranks /\ 1 - r \in Ranks /\ 1 - r # r
      OBVIOUS
    <2> QED BY <1>1, <2>1, <2>2
  <1>5. /\ Len(entered'[r]) = Len(entered[r]) + 1 /\ entered'[r][Len(entered[r]) + 1] = e
        /\ \A k \in 1 .. Len(entered[r]) : entered'[r][k] = entered[r][k]
    <2>1. entered[r] \in Seq(Entries \cup {e})
      BY WorkerEntered
    <2> QED BY <1>4, <2>1, AppendProperties
  <1>6. posted'[1 - r] = posted[1 - r]
    <2>1. posted \in [Ranks -> BOOLEAN] /\ posted' = [posted EXCEPT ![r] = TRUE]
      BY <1>1, WorkerFacts
    <2>2. CASE r = 0
      <3>1. posted' = [posted EXCEPT ![0] = TRUE]
        BY <2>1, <2>2
      <3> QED BY <2>1, <2>2, <3>1
    <2>3. CASE r = 1
      <3>1. posted' = [posted EXCEPT ![1] = TRUE]
        BY <2>1, <2>3
      <3> QED BY <2>1, <2>3, <3>1
    <2> QED BY <2>2, <2>3
  <1>7. posted'[r]
    <2>1. posted \in [Ranks -> BOOLEAN] /\ posted' = [posted EXCEPT ![r] = TRUE]
      BY <1>1, WorkerFacts
    <2> QED BY <2>1
  <1>8. Now(r) = 0 /\ Now(r)' = 1 /\ Now(1 - r)' = Now(1 - r)
    BY <1>1, <1>6, <1>7 DEF Now
  <1> QED BY <1>1, <1>2, <1>3, <1>4, <1>5, <1>6, <1>7, <1>8

\* Either nobody's count of rounds is disturbed, or both ranks are at the end.
LEMMA WorkerMeetsCounting ==
    ASSUME WorkerState, NEW r \in Ranks, Enter(r)
    PROVE  \/ Counting(r)' = Counting(r) /\ Counting(1 - r)' = Counting(1 - r)
           \/ /\ pc[r] = "stop_barrier" /\ pc[1 - r] = "stop_barrier"
              /\ ~Counting(r)' /\ ~Counting(1 - r)'
  <1> USE DEF TARGET_RANK, DRAFT_RANK, Ranks
  <1> DEFINE a == Len(entered[r])  b == Len(entered[1 - r])
  <1>1. /\ pc[r] \in {"start_barrier", "stop_barrier"} /\ ~posted[r] /\ pc' = pc /\ posted'[r]
        /\ posted'[1 - r] = posted[1 - r] /\ Len(entered'[1 - r]) = b /\ Len(entered'[r]) = a + 1
        /\ Now(r) = 0
    BY WorkerMeets
  <1>2. a \in Nat /\ b \in Nat /\ a <= b /\ b - Now(1 - r) <= a
    BY <1>1, WorkerEntered
  <1>3. \E k \in Nat : a = (k + k) + Inside(pc[r])
    <2>1. \E k \in Nat : a = (k + k) + Inside(pc[r]) + Now(r)
      BY WorkerEntered
    <2>2. Inside(pc[r]) \in Nat
      BY DEF Inside
    <2> QED BY <1>1, <2>1, <2>2
  <1>4. \E k \in Nat : b = (k + k) + Inside(pc[1 - r]) + Now(1 - r)
    <2>1. 1 - r \in Ranks
      OBVIOUS
    <2> QED BY <2>1, WorkerEntered
  <1>5. Over(r)' <=> pc[r] = "stop_barrier" /\ b >= a + 1
    BY <1>1 DEF Over, Other
  <1>6. Over(1 - r) <=> pc[1 - r] = "stop_barrier" /\ posted[1 - r] /\ a >= b
    <2>1. Other(1 - r) = r
      BY DEF Other
    <2> QED BY <2>1 DEF Over
  <1>7. Over(1 - r)' <=> pc[1 - r] = "stop_barrier" /\ posted[1 - r] /\ a + 1 >= b
    <2>1. Other(1 - r) = r
      BY DEF Other
    <2>2. posted'[1 - r] <=> posted[1 - r]
      BY <1>1
    <2> QED BY <1>1, <2>1, <2>2 DEF Over
  <1>8. ~Over(r)
    BY <1>1 DEF Over
  <1> HIDE DEF a, b
  <1>9. pc[1 - r] = "stop_barrier" /\ posted[1 - r] => Now(1 - r) = 1 /\ Inside(pc[1 - r]) = 1
    BY WorkerEntered DEF Now, Collectives, Barriers
  <1>10. CASE pc[r] = "start_barrier"
    <2>1. pc[1 - r] = "stop_barrier" /\ posted[1 - r] => a >= b
      <3> SUFFICES ASSUME pc[1 - r] = "stop_barrier", posted[1 - r] PROVE a >= b
        OBVIOUS
      <3>1. PICK k \in Nat : b = (k + k) + 1 + 1
        BY <1>4, <1>9
      <3>2. PICK j \in Nat : a = j + j
        BY <1>3, <1>10, WorkerEntered
      <3>3. b - 1 <= a
        BY <1>2, <1>9
      <3> QED BY <3>1, <3>2, <3>3
    <2>2. pc[r] \notin InRun
      BY <1>10 DEF InRun, TargetBody, DraftBody
    <2>3. Over(1 - r)' <=> Over(1 - r)
      BY <1>2, <1>6, <1>7, <2>1
    <2> QED BY <1>1, <2>2, <2>3 DEF Counting
  <1>11. CASE pc[r] = "stop_barrier" /\ pc[1 - r] = "stop_barrier" /\ posted[1 - r]
    <2>1. b = a + 1
      <3>1. PICK k \in Nat : b = (k + k) + 1 + 1
        BY <1>4, <1>9, <1>11
      <3>2. PICK j \in Nat : a = (j + j) + 1
        BY <1>3, <1>11, WorkerEntered
      <3>3. b - 1 <= a
        BY <1>2, <1>9, <1>11
      <3> QED BY <1>2, <3>1, <3>2, <3>3
    <2>2. Over(r)' /\ Over(1 - r)'
      BY <1>2, <1>5, <1>7, <1>11, <2>1
    <2> QED BY <1>11, <2>2 DEF Counting
  <1>12. CASE pc[r] = "stop_barrier" /\ ~(pc[1 - r] = "stop_barrier" /\ posted[1 - r])
    <2>1. ~(b >= a + 1)
      <3>1. PICK j \in Nat : a = (j + j) + 1
        BY <1>3, <1>12, WorkerEntered
      <3>2. CASE Now(1 - r) = 0
        BY <1>2, <3>2
      <3>3. CASE Now(1 - r) # 0
        <4>1. Now(1 - r) = 1 /\ pc[1 - r] \in Collectives /\ posted[1 - r]
          BY <3>3 DEF Now
        <4>2. 1 - r \in Ranks
          OBVIOUS
        <4>3. pc[1 - r] = "start_barrier"
          BY <1>12, <4>1, <4>2, WorkerEntered
        <4>4. Inside(pc[1 - r]) = 0
          BY <4>3, WorkerEntered
        <4>5. PICK k \in Nat : b = (k + k) + 0 + 1
          BY <1>4, <4>1, <4>4
        <4>6. b - 1 <= a
          BY <1>2, <4>1
        <4> QED BY <3>1, <4>5, <4>6
      <3> QED BY <3>2, <3>3
    <2>2. ~Over(r)' /\ ~Over(1 - r) /\ ~Over(1 - r)'
      BY <1>5, <1>6, <1>7, <1>12, <2>1
    <2> QED BY <1>1, <1>8, <2>2 DEF Counting
  <1> QED BY <1>1, <1>10, <1>11, <1>12

LEMMA WorkerEnter ==
    ASSUME WorkerState, NEW r \in Ranks, Enter(r) PROVE WorkerAgain'
  <1> USE DEF TARGET_RANK, DRAFT_RANK, Ranks
  <1>1. /\ pc[r] \in {"start_barrier", "stop_barrier"} /\ ~posted[r] /\ pc' = pc /\ posted'[r]
        /\ posted'[1 - r] = posted[1 - r] /\ entered'[1 - r] = entered[1 - r]
        /\ Len(entered'[r]) = Len(entered[r]) + 1
        /\ entered'[r][Len(entered[r]) + 1].what = pc[r]
        /\ \A k \in 1 .. Len(entered[r]) : entered'[r][k] = entered[r][k]
        /\ Now(r) = 0 /\ Now(r)' = 1 /\ Now(1 - r)' = Now(1 - r)
    BY WorkerMeets
  <1>2. UNCHANGED <<launch, pc, turn, job, net, exit, data>>
    BY DEF Enter
  <1>3. /\ WorkerLabels /\ WorkerCollectives /\ WorkerNames /\ WorkerMessages /\ WorkerTexts
        /\ WorkerCursors /\ WorkerRoom /\ WorkerFits /\ launch.prog = "worker"
    BY DEF WorkerState, WorkerInv
  <1>4. /\ Len(entered[r]) \in Nat /\ Len(entered[1 - r]) \in Nat
        /\ Len(entered[r]) <= Len(entered[1 - r])
        /\ Len(entered[1 - r]) - Now(1 - r) <= Len(entered[r])
    BY <1>1, WorkerEntered
  <1>5. PICK k \in Nat : Len(entered[r]) = (k + k) + Inside(pc[r])
    <2>1. \E k \in Nat : Len(entered[r]) = (k + k) + Inside(pc[r]) + Now(r)
      BY WorkerEntered
    <2>2. Inside(pc[r]) \in Nat
      BY DEF Inside
    <2> QED BY <1>1, <2>1, <2>2
  <1>6. \A s \in Ranks : s = r \/ s = 1 - r
    OBVIOUS
  <1>7. WorkerCollectives'
    <2>1. Inside(pc[r]) \in {0, 1}
      BY DEF Inside
    <2>2. k \in 0 .. Len(entered'[r]) /\ Len(entered'[r]) = (k + k) + Inside(pc[r]) + Now(r)'
      BY <1>1, <1>4, <1>5, <2>1
    <2>3. \E j \in 0 .. Len(entered'[1 - r]) :
              Len(entered'[1 - r]) = (j + j) + Inside(pc[1 - r]) + Now(1 - r)'
      BY <1>1, <1>3 DEF WorkerCollectives
    <2>4. \A s \in Ranks : \E j \in 0 .. Len(entered'[s]) :
              Len(entered'[s]) = (j + j) + Inside(pc[s]) + Now(s)'
      BY <1>6, <2>2, <2>3
    <2>5. \A s \in Ranks : Inside(pc[s])' = Inside(pc[s])
      BY <1>1 DEF Inside
    <2> QED BY <2>4, <2>5 DEF WorkerCollectives
  <1>8. WorkerAt(Len(entered[r]) + 1) = pc[r]
    <2> DEFINE n == Len(entered[r])
    <2>1. n = (k + k) + Inside(pc[r])
      BY <1>5
    <2> HIDE DEF n
    <2>2. CASE pc[r] = "start_barrier"
      <3>1. n = k + k
        BY <2>1, <2>2, WorkerEntered
      <3>2. (n + 1) % 2 = 1
        BY <3>1
      <3> QED BY <2>2, <3>2 DEF WorkerAt, n
    <2>3. CASE pc[r] = "stop_barrier"
      <3>1. n = (k + k) + 1
        BY <2>1, <2>3, WorkerEntered
      <3>2. (n + 1) % 2 # 1
        BY <3>1
      <3> QED BY <2>3, <3>2 DEF WorkerAt, n
    <2> QED BY <1>1, <2>2, <2>3
  <1>9. WorkerNames'
    <2>1. \A j \in 1 .. Len(entered[r]) + 1 : entered'[r][j].what = WorkerAt(j)
      <3> SUFFICES ASSUME NEW j \in 1 .. Len(entered[r]) + 1
                   PROVE  entered'[r][j].what = WorkerAt(j)
        OBVIOUS
      <3>1. CASE j = Len(entered[r]) + 1
        BY <1>1, <1>8, <3>1
      <3>2. CASE j # Len(entered[r]) + 1
        <4>1. j \in 1 .. Len(entered[r])
          BY <1>4, <3>2
        <4>2. entered[r][j].what = WorkerAt(j) /\ entered'[r][j] = entered[r][j]
          BY <1>1, <1>3, <4>1 DEF WorkerNames
        <4> QED BY <4>2
      <3> QED BY <3>1, <3>2
    <2>2. \A s \in Ranks : \A j \in 1 .. Len(entered'[s]) : entered'[s][j].what = WorkerAt(j)
      BY <1>1, <1>3, <1>6, <2>1 DEF WorkerNames
    <2>3. \A j : WorkerAt(j)' = WorkerAt(j)
      BY DEF WorkerAt
    <2> QED BY <2>2, <2>3 DEF WorkerNames
  <1>10. WorkerGate'
    <2> DEFINE a == Len(entered[r])  b == Len(entered[1 - r])  w == Now(1 - r)
    <2>1. /\ a \in Nat /\ b \in Nat /\ a <= b /\ b - w <= a /\ w \in {0, 1}
          /\ Len(entered'[r]) = a + 1 /\ Len(entered'[1 - r]) = b
      BY <1>1, <1>4 DEF Now
    <2>2. Now(1 - r)' = w
      BY <1>1
    <2> HIDE DEF a, b, w
    <2>3. /\ Len(entered'[r]) - Now(r)' <= Len(entered'[1 - r])
          /\ Len(entered'[1 - r]) - Now(1 - r)' <= Len(entered'[r])
      BY <1>1, <2>1, <2>2
    <2>4. Other(r) = 1 - r /\ Other(1 - r) = r
      BY DEF Other
    <2>5. \A s \in Ranks : Len(entered'[s]) - Now(s)' <= Len(entered'[Other(s)])
      BY <1>6, <2>3, <2>4
    <2> QED BY <2>5 DEF WorkerGate, Other
  <1>11. /\ DraftIds' = DraftIds /\ DraftLogits' = DraftLogits /\ DraftResult' = DraftResult
         /\ TargetIds' = TargetIds /\ TargetLogits' = TargetLogits /\ TargetOwes' = TargetOwes
    <2>1. r = 0 \/ r = 1
      OBVIOUS
    <2>2. CASE r = 0
      <3>1. /\ DraftIds' = DraftIds /\ DraftLogits' = DraftLogits /\ DraftResult' = DraftResult
        BY <1>1, <2>2, DraftStands
      <3> QED BY <1>1, <2>2, <3>1 DEF TargetIds, TargetLogits, TargetOwes
    <2>3. CASE r = 1
      <3>1. /\ TargetIds' = TargetIds /\ TargetLogits' = TargetLogits /\ TargetOwes' = TargetOwes
        BY <1>1, <2>3, TargetStands
      <3> QED BY <1>1, <2>3, <3>1 DEF DraftIds, DraftLogits, DraftResult
    <2> QED BY <2>1, <2>2, <2>3
  <1>12. WorkerTraffic' /\ WorkerTexts'
    <2>1. CASE Counting(r)' = Counting(r) /\ Counting(1 - r)' = Counting(1 - r)
      <3>1. Counting(0)' = Counting(0) /\ Counting(1)' = Counting(1)
        <4>1. CASE r = 0
          BY <2>1, <4>1 DEF Counting, Over, Other
        <4>2. CASE r = 1
          BY <2>1, <4>2 DEF Counting, Over, Other
        <4> QED BY <4>1, <4>2
      <3>2. Rounds(0)' = Rounds(0) /\ Rounds(1)' = Rounds(1) /\ WorkerTexts'
        BY <1>2, <3>1, WorkerSame DEF data
      <3> QED BY <1>2, <1>11, <3>2, WorkerSizes DEF WorkerTraffic, Traffic
    <2>2. CASE /\ pc[r] = "stop_barrier" /\ pc[1 - r] = "stop_barrier"
               /\ ~Counting(r)' /\ ~Counting(1 - r)'
      <3>1. pc[0] = "stop_barrier" /\ pc[1] = "stop_barrier"
        <4>1. CASE r = 0
          BY <2>2, <4>1
        <4>2. CASE r = 1
          BY <2>2, <4>2
        <4> QED BY <4>1, <4>2
      <3>2. ~Counting(0)' /\ ~Counting(1)'
        <4>1. CASE r = 0
          BY <2>2, <4>1 DEF Counting, Over, Other
        <4>2. CASE r = 1
          BY <2>2, <4>2 DEF Counting, Over, Other
        <4> QED BY <4>1, <4>2
      <3>3. /\ DraftIds = 0 /\ DraftLogits = 0 /\ DraftResult = 0
            /\ TargetIds = 0 /\ TargetLogits = 0 /\ TargetOwes = 0
        BY <3>1 DEF DraftIds, DraftLogits, DraftResult, TargetIds, TargetLogits, TargetOwes
      <3>4. Rounds(0)' = 0 /\ Rounds(1)' = 0 /\ Written(0)' = Written(1)'
        BY <3>2 DEF Rounds, Written
      <3>5. Rounds(0) = Rounds(1)
        BY <3>3, WorkerSizes, Apart DEF WorkerState
      <3> DEFINE i == Len(net["ids"])  l == Len(net["logits"])  x == Len(net["result"])
                 t == Rounds(0)  d == Rounds(1)
      <3>6. /\ i = (d + 0) - (t + 0) /\ l = (d + 0) - (t + 0) /\ x = (t - 0) - (d + 0)
            /\ t \in Int /\ d \in Int /\ t = d
        BY <3>3, <3>5, WorkerSizes DEF Traffic
      <3> HIDE DEF i, l, x, t, d
      <3>7. i = 0 /\ l = 0 /\ x = 0
        BY <3>6
      <3>8. /\ Len(net'["ids"]) = 0 /\ Len(net'["logits"]) = 0 /\ Len(net'["result"]) = 0
        BY <1>2, <3>7 DEF i, l, x
      <3>9. WorkerTraffic'
        <4>1. /\ DraftIds' = 0 /\ DraftLogits' = 0 /\ DraftResult' = 0
              /\ TargetIds' = 0 /\ TargetLogits' = 0 /\ TargetOwes' = 0
          BY <1>11, <3>3
        <4> QED BY <3>4, <3>8, <4>1 DEF WorkerTraffic, Traffic
      <3>10. WorkerTexts'
        <4>1. Rounds(0)' # Rounds(1)' + 1
          BY <3>4
        <4> QED BY <3>4, <4>1 DEF WorkerTexts
      <3> QED BY <3>9, <3>10
    <2> QED BY <2>1, <2>2, WorkerMeetsCounting
  <1>13. WorkerLabels' /\ WorkerMessages'
    BY <1>2, <1>3 DEF WorkerLabels, WorkerMessages, data
  <1>14. WorkerCursors' /\ WorkerRoom'
    BY <1>2, <1>3 DEF WorkerCursors, TargetCursor, DraftCursor, Ahead, WorkerRoom, RoomAt, Bonus,
                      PromptLen, data
  <1>15. WorkerFits'
    BY <1>2, <1>3 DEF WorkerFits, HasRoom, PromptLen, CannotEmbed, data
  <1>16. pc' \in [Ranks -> Operations] /\ text' \in [Ranks -> Seq(Token)] /\ cursor' \in [Ranks -> Nat]
    BY <1>2, WorkerFacts DEF data
  <1> QED BY <1>2, <1>3, <1>7, <1>9, <1>10, <1>12, <1>13, <1>14, <1>15, <1>16
           DEF WorkerAgain, WorkerInv

\* A rank leaves a barrier when both have entered it.
LEMMA WorkerLeaveCollective ==
    ASSUME WorkerState, NEW r \in Ranks, LeaveCollective(r) PROVE WorkerAgain'
  <1> USE DEF TARGET_RANK, DRAFT_RANK, Ranks
  <1> DEFINE q == IF pc[r] = "start_barrier" THEN "prefill" ELSE "runs"
  <1>1. /\ pc[r] \in {"start_barrier", "stop_barrier"} /\ posted[r]
        /\ Len(entered[1 - r]) >= Len(entered[r])
        /\ posted' = [posted EXCEPT ![r] = FALSE] /\ pc' = [pc EXCEPT ![r] = Following(pc[r], r)]
        /\ UNCHANGED <<launch, turn, job, entered, net, exit, data>>
    <2>1. /\ pc[r] \in Collectives /\ posted[r]
          /\ OnlyContributes(r, pc[r]) \/ Len(entered[1 - r]) >= Len(entered[r])
          /\ posted' = [posted EXCEPT ![r] = FALSE] /\ pc' = [pc EXCEPT ![r] = Following(pc[r], r)]
          /\ UNCHANGED <<launch, turn, job, entered, net, exit, data>>
      BY DEF LeaveCollective, Returns, Continue, Other
    <2>2. pc[r] \in {"start_barrier", "stop_barrier"}
      BY <2>1, WorkerEntered
    <2>3. ~OnlyContributes(r, pc[r])
      BY <2>2 DEF OnlyContributes, Timings
    <2> QED BY <2>1, <2>2, <2>3
  <1>2. /\ pc' = [pc EXCEPT ![r] = q] /\ q \in (IF r = 0 THEN WorkerTarget ELSE WorkerDraft)
        /\ q \in Operations /\ q \in Level /\ pc[r] \in Level /\ q \notin InRun
        /\ q \notin Collectives /\ q \in {"prefill", "runs"}
    <2>1. launch.prog = "worker"
      BY DEF WorkerState
    <2>2. Following(pc[r], r) = q
      BY <1>1, <2>1, WorkerFollowing DEF WorkerPaths
    <2>3. q \in (IF r = 0 THEN WorkerTarget ELSE WorkerDraft)
      BY DEF WorkerTarget, WorkerDraft, Idle
    <2>4. q \notin InRun /\ q \notin Collectives
      BY DEF InRun, TargetBody, DraftBody, Collectives, Barriers, Timings
    <2>5. q \in Operations /\ pc[r] \in Operations
      BY <2>3, WorkerFacts DEF Operations
    <2>6. q \in Level /\ pc[r] \in Level
      BY <1>1, <2>5 DEF Level
    <2> QED BY <1>1, <2>2, <2>3, <2>4, <2>5, <2>6
  <1> HIDE DEF q
  <1>3. pc'[r] = q /\ pc'[1 - r] = pc[1 - r] /\ pc' \in [Ranks -> Operations]
    BY <1>2, WorkerFacts
  <1>4. posted'[1 - r] = posted[1 - r]
    <2>1. posted \in [Ranks -> BOOLEAN] /\ posted' = [posted EXCEPT ![r] = FALSE]
      BY <1>1, WorkerFacts
    <2>2. CASE r = 0
      <3>1. posted' = [posted EXCEPT ![0] = FALSE]
        BY <2>1, <2>2
      <3> QED BY <2>1, <2>2, <3>1
    <2>3. CASE r = 1
      <3>1. posted' = [posted EXCEPT ![1] = FALSE]
        BY <2>1, <2>3
      <3> QED BY <2>1, <2>3, <3>1
    <2> QED BY <2>2, <2>3
  <1>5. /\ WorkerLabels /\ WorkerCollectives /\ WorkerNames /\ WorkerGate /\ WorkerMessages
        /\ WorkerTexts /\ TargetCursor /\ DraftCursor /\ WorkerRoom /\ WorkerFits
        /\ launch.prog = "worker"
    BY DEF WorkerState, WorkerInv, WorkerCursors
  <1>6. \A s \in Ranks : s = r \/ s = 1 - r
    OBVIOUS
  <1>7. Now(r) = 1 /\ Now(r)' = 0 /\ Now(1 - r)' = Now(1 - r)
    BY <1>1, <1>2, <1>3, <1>4 DEF Now, Collectives, Barriers
  <1>8. WorkerCollectives'
    <2>1. PICK k \in 0 .. Len(entered[r]) : Len(entered[r]) = (k + k) + Inside(pc[r]) + 1
      BY <1>5, <1>7 DEF WorkerCollectives
    <2>2. Len(entered[r]) \in Nat
      BY WorkerEntered
    <2>3. \E j \in 0 .. Len(entered[r]) : Len(entered[r]) = (j + j) + Inside(q) + Now(r)'
      <3>1. CASE pc[r] = "start_barrier"
        <4>1. Inside(q) = 1 /\ Inside(pc[r]) = 0
          BY <3>1, WorkerEntered DEF Inside, q
        <4> QED BY <1>7, <2>1, <4>1
      <3>2. CASE pc[r] = "stop_barrier"
        <4>1. Inside(q) = 0 /\ Inside(pc[r]) = 1
          BY <1>2, <3>2, WorkerEntered DEF Inside, q
        <4>2. k + 1 \in 0 .. Len(entered[r]) /\ Len(entered[r]) = ((k + 1) + (k + 1)) + Inside(q) + Now(r)'
          BY <1>7, <2>1, <2>2, <4>1
        <4> QED BY <4>2
      <3> QED BY <1>1, <3>1, <3>2
    <2>4. \E j \in 0 .. Len(entered[1 - r]) :
              Len(entered[1 - r]) = (j + j) + Inside(pc[1 - r]) + Now(1 - r)'
      BY <1>5, <1>7 DEF WorkerCollectives
    <2>5. \A s \in Ranks : \E j \in 0 .. Len(entered[s]) :
              Len(entered[s]) = (j + j) + Inside(pc'[s]) + Now(s)'
      BY <1>3, <1>6, <2>3, <2>4
    <2>6. \A s \in Ranks : Inside(pc[s])' = Inside(pc'[s])
      BY DEF Inside
    <2> QED BY <1>1, <2>5, <2>6 DEF WorkerCollectives
  <1>9. WorkerGate'
    <2>1. Len(entered[r]) \in Nat /\ Len(entered[1 - r]) \in Nat
      BY WorkerEntered
    <2>2. Len(entered[r]) - Now(r)' <= Len(entered[1 - r])
      BY <1>1, <1>7, <2>1
    <2>3. Len(entered[1 - r]) - Now(1 - r)' <= Len(entered[r])
      BY <1>7, WorkerEntered
    <2>4. Other(r) = 1 - r /\ Other(1 - r) = r
      BY DEF Other
    <2>5. \A s \in Ranks : Len(entered[s]) - Now(s)' <= Len(entered[Other(s)])
      BY <1>6, <2>2, <2>3, <2>4
    <2> QED BY <1>1, <2>5 DEF WorkerGate, Other
  <1>10. Counting(r)' = Counting(r) /\ Counting(1 - r)' = Counting(1 - r)
    <2>1. ~Counting(r)'
      BY <1>2, <1>3 DEF Counting
    <2>2. ~Counting(r)
      BY <1>1 DEF Counting, Over, Other, InRun, TargetBody, DraftBody
    <2>3. Counting(1 - r)' = Counting(1 - r)
      BY <1>1, <1>3, <1>4 DEF Counting, Over, Other
    <2>4. Counting(r)' = Counting(r)
      BY <2>1, <2>2 DEF Counting
    <2> QED BY <2>3, <2>4
  <1>11. Rounds(0)' = Rounds(0) /\ Rounds(1)' = Rounds(1) /\ WorkerTexts'
    <2>1. Counting(0)' = Counting(0) /\ Counting(1)' = Counting(1)
      <3>1. CASE r = 0
        BY <1>10, <3>1 DEF Counting, Over, Other
      <3>2. CASE r = 1
        BY <1>10, <3>2 DEF Counting, Over, Other
      <3> QED BY <3>1, <3>2
    <2> QED BY <1>1, <2>1, WorkerSame DEF data
  <1>12. WorkerTraffic'
    <2>1. /\ DraftIds' = DraftIds /\ DraftLogits' = DraftLogits /\ DraftResult' = DraftResult
          /\ TargetIds' = TargetIds /\ TargetLogits' = TargetLogits /\ TargetOwes' = TargetOwes
      BY <1>2, <1>4, LevelOffsets DEF WorkerState
    <2> QED BY <1>1, <1>11, <2>1, WorkerSizes DEF WorkerTraffic, Traffic
  <1>13. WorkerMessages'
    <2>1. pc'[1] = "apply_target_feedback" => pc[1] = "apply_target_feedback"
      BY <1>2, <1>3
    <2> QED BY <1>1, <1>5, <2>1 DEF WorkerMessages, data
  <1>14. WorkerLabels' /\ WorkerNames'
    BY <1>1, <1>2, <1>3, <1>5 DEF WorkerLabels, WorkerNames, WorkerAt
  <1>15. WorkerCursors'
    <2>1. TargetCursor'
      BY <1>1, <1>2, <1>3, <1>5 DEF TargetCursor, Bonus, data
    <2>2. DraftCursor'
      BY <1>1, <1>2, <1>3, <1>5 DEF DraftCursor, Ahead, data
    <2> QED BY <2>1, <2>2 DEF WorkerCursors
  <1>16. WorkerRoom'
    <2>1. RoomAt(pc[r], clen[r])'
      BY <1>2, <1>3 DEF RoomAt
    <2>2. RoomAt(pc[1 - r], clen[1 - r])'
      BY <1>1, <1>3, <1>5 DEF WorkerRoom, RoomAt, PromptLen, data
    <2> QED BY <2>1, <2>2 DEF WorkerRoom
  <1>17. WorkerFits'
    BY <1>1, <1>5 DEF WorkerFits, HasRoom, PromptLen, CannotEmbed, data
  <1>18. text' \in [Ranks -> Seq(Token)] /\ cursor' \in [Ranks -> Nat]
    BY <1>1, WorkerFacts DEF data
  <1> QED BY <1>1, <1>3, <1>5, <1>8, <1>9, <1>11, <1>12, <1>13, <1>14, <1>15, <1>16, <1>17, <1>18
           DEF WorkerAgain, WorkerInv

LEMMA WorkerStep ==
    ASSUME WorkerState, Next PROVE WorkerAgain'
  <1> USE DEF TARGET_RANK, DRAFT_RANK, Ranks
  <1>1. pc[0] \in WorkerTarget /\ pc[1] \in WorkerDraft
    BY DEF WorkerState, WorkerInv, WorkerLabels
  <1>2. \A r \in Ranks : pc[r] \notin {"distinct", "make_result", "steps", "to_target", "to_draft",
                                      "sample_to_target", "sample_to_draft", "compare", "summarise",
                                      "verify_and_accept", "make_payload", "sync_draft_prefix",
                                      "draft_gamma"}
    BY <1>1 DEF WorkerTarget, WorkerDraft, InRun, TargetBody, DraftBody, Idle
  <1>3. ASSUME NEW r \in Ranks, Step(r) PROVE WorkerAgain'
    <2>1. ~VerifyDistinctGpus(r) /\ ~MakeResult(r)
      BY <1>2 DEF VerifyDistinctGpus, MakeResult, At
    <2>2. \A p \in {"sample_to_target", "sample_to_draft"} : ~TakeSample(r, p)
      BY <1>2 DEF TakeSample, At
    <2>3. \A p \in Loops : For(r, p) => p = "runs"
      BY <1>2 DEF For, At, Loops
    <2>4. \A p \in Loops : For(r, p) => WorkerAgain'
      BY <2>3, WorkerMovesOn
    <2>5. Check(r) \/ BindRankToCuda(r) \/ Return(r) \/ Jobs(r) => WorkerAgain'
      BY WorkerMovesOn
    <2>6. \A p \in DOMAIN Sends : SendReturns(r, p) => WorkerAgain'
      BY WorkerSendReturns
    <2>7. Enter(r) \/ LeaveCollective(r) \/ JobPrefill(r) \/ Round(r) => WorkerAgain'
      BY WorkerEnter, WorkerLeaveCollective, WorkerPrefill, WorkerRound
    <2> QED BY <1>3, <2>1, <2>2, <2>4, <2>5, <2>6, <2>7 DEF Step
  <1>4. CASE TargetStep
    <2>1. ~Compare /\ ~Summarise /\ \A n, b : ~VerifyAndAccept(n, b)
      BY <1>2 DEF Compare, Summarise, VerifyAndAccept, At
    <2>2. Median => WorkerAgain'
      <3>1. 0 \in Ranks
        OBVIOUS
      <3> QED BY <3>1, WorkerMovesOn
    <2>3. \A n \in 0 .. launch.gamma, b \in TargetVocab : SpeculativeStep(n, b) => WorkerAgain'
      BY WorkerSpeculativeStep
    <2>4. RecvDraftIds \/ RecvDraftLogits \/ SendTargetResult \/ FlushPendingBonus => WorkerAgain'
      BY WorkerRecvDraft, WorkerSend, WorkerFlushPendingBonus
    <2> QED BY <1>3, <1>4, <2>1, <2>2, <2>3, <2>4 DEF TargetStep
  <1>5. CASE DraftStep
    <2>1. ~MakePayload /\ ~SyncDraftPrefix /\ \A ids : ~DraftGamma(ids)
      BY <1>2 DEF MakePayload, SyncDraftPrefix, DraftGamma, At
    <2>2. SendDraftIds \/ SendDraftLogits \/ RecvTargetResult \/ GenerateDrafts \/ ApplyTargetFeedback
              => WorkerAgain'
      BY WorkerSend, WorkerRecvTargetResult, WorkerGenerateDrafts, WorkerApplyTargetFeedback
    <2> QED BY <1>3, <1>5, <2>1, <2>2 DEF DraftStep
  <1> QED BY <1>4, <1>5 DEF Next

LEMMA WorkerInit ==
    ASSUME Init, launch.prog = "worker" PROVE WorkerInv
  <1> USE DEF TARGET_RANK, DRAFT_RANK, Ranks
  <1>1. /\ pc[0] = "check" /\ pc[1] = "check" /\ ~posted[0] /\ ~posted[1]
        /\ entered[0] = <<>> /\ entered[1] = <<>> /\ result[0].n = 0
        /\ net["ids"] = <<>> /\ net["logits"] = <<>> /\ net["result"] = <<>>
        /\ exit[0] = Running /\ exit[1] = Running /\ launch.gamma \in Nat
    BY LaunchFacts DEF Init, Messages, NoResult
  <1>2. "check" \notin InRun
    BY DEF InRun, TargetBody, DraftBody
  <1>3. WorkerLabels
    BY <1>1 DEF WorkerLabels, WorkerTarget, WorkerDraft, Idle
  <1>4. /\ Now(0) = 0 /\ Now(1) = 0 /\ Len(entered[0]) = 0 /\ Len(entered[1]) = 0
        /\ Inside("check") = 0
    BY <1>1, <1>2 DEF Now, Inside
  <1>5. WorkerCollectives
    <2>1. \A r \in Ranks : 0 \in 0 .. Len(entered[r]) /\ Len(entered[r]) = (0 + 0) + Inside(pc[r]) + Now(r)
      BY <1>1, <1>4
    <2> QED BY <2>1 DEF WorkerCollectives
  <1>6. WorkerNames /\ WorkerGate
    BY <1>1, <1>4 DEF WorkerNames, WorkerGate, Other
  <1>7. Rounds(0) = 0 /\ Rounds(1) = 0 /\ Written(0) = PromptLen /\ Written(1) = PromptLen
    BY <1>1, <1>2 DEF Rounds, Written, Counting
  <1>8. WorkerTraffic
    <2>1. /\ DraftIds = 0 /\ DraftLogits = 0 /\ DraftResult = 0
          /\ TargetIds = 0 /\ TargetLogits = 0 /\ TargetOwes = 0
      BY <1>1 DEF DraftIds, DraftLogits, DraftResult, TargetIds, TargetLogits, TargetOwes
    <2> QED BY <1>1, <1>7, <2>1 DEF WorkerTraffic, Traffic
  <1>9. WorkerMessages
    BY <1>1 DEF WorkerMessages
  <1>10. WorkerTexts
    BY <1>7 DEF WorkerTexts
  <1>11. WorkerCursors /\ WorkerRoom
    BY <1>1, <1>2 DEF WorkerCursors, TargetCursor, DraftCursor, WorkerRoom, RoomAt
  <1>12. WorkerFits
    BY <1>1 DEF WorkerFits, Running, Raised
  <1> QED BY <1>3, <1>5, <1>6, <1>8, <1>9, <1>10, <1>11, <1>12 DEF WorkerInv

\* A rank that waits at the end of the generation has every token asked for; so
\* has the other, once it has counted as many rounds.
LEMMA WorkerNothingCrossesABarrier ==
    ASSUME WorkerState PROVE NothingCrossesABarrier
  <1> USE DEF TARGET_RANK, DRAFT_RANK, Ranks
  <1>1. \A k \in DOMAIN entered[0] \cap DOMAIN entered[1] : entered[0][k].what = entered[1][k].what
    <2>1. DOMAIN entered[0] = 1 .. Len(entered[0]) /\ DOMAIN entered[1] = 1 .. Len(entered[1])
      BY WorkerFacts
    <2>2. WorkerNames
      BY DEF WorkerState, WorkerInv
    <2> QED BY <2>1, <2>2 DEF WorkerNames
  <1> DEFINE a == Len(entered[0])  b == Len(entered[1])
  <1>2. /\ a \in Nat /\ b \in Nat /\ a - Now(0) <= b /\ b - Now(1) <= a
        /\ \E k \in Nat : a = (k + k) + Inside(pc[0]) + Now(0)
        /\ \E k \in Nat : b = (k + k) + Inside(pc[1]) + Now(1)
        /\ \A s \in Ranks : pc[s] \in Collectives => pc[s] \in {"start_barrier", "stop_barrier"}
        /\ Inside("start_barrier") = 0 /\ Inside("stop_barrier") = 1
    <2>1. 0 \in Ranks /\ 1 - 0 = 1 /\ 1 \in Ranks
      OBVIOUS
    <2>2. a \in Nat /\ b \in Nat
      BY WorkerSizes
    <2>3. a - Now(0) <= b /\ b - Now(1) <= a
      <3>1. Other(0) = 1 /\ Other(1) = 0
        BY DEF Other
      <3> QED BY <3>1 DEF WorkerState, WorkerInv, WorkerGate
    <2>4. \A s \in Ranks : \E k \in Nat : Len(entered[s]) = (k + k) + Inside(pc[s]) + Now(s)
      BY <2>1, WorkerEntered
    <2> QED BY <2>1, <2>2, <2>3, <2>4, WorkerEntered
  <1>3. Traffic(Rounds(0), Rounds(1)) /\ TypeOK /\ Rounds(0) \in Nat /\ Rounds(1) \in Nat
    BY WorkerSizes DEF WorkerState
  <1>4. pc[1] \in WorkerDraft /\ pc[0] \in WorkerTarget
    BY DEF WorkerState, WorkerInv, WorkerLabels
  <1>5. DraftIds = 1 => pc[1] \in DraftBody
    BY <1>4 DEF DraftIds, WorkerDraft, Idle, DraftBody
  <1>6. pc[1] \in DraftBody => Inside(pc[1]) = 1 /\ Now(1) = 0 /\ Counting(1)
    BY DEF Inside, InRun, DraftBody, Now, Collectives, Barriers, Timings, Counting, Over
  <1> HIDE DEF a, b
  <1>7. ASSUME a > b, DraftIds = 1, Rounds(0) = Rounds(1) PROVE FALSE
    <2>1. Inside(pc[1]) = 1 /\ Now(1) = 0 /\ pc[1] \in DraftBody /\ Counting(1)
      BY <1>5, <1>6, <1>7
    <2>2. Now(0) = 1
      BY <1>2, <1>7 DEF Now
    <2>3. posted[0] /\ pc[0] \in {"start_barrier", "stop_barrier"}
      BY <1>2, <2>2 DEF Now
    <2>4. a = b + 1
      BY <1>2, <1>7, <2>2
    <2>5. PICK k \in Nat : b = (k + k) + 1 + 0
      BY <1>2, <2>1
    <2>6. Inside(pc[0]) = 1
      <3>1. CASE pc[0] = "start_barrier"
        <4>1. PICK j \in Nat : a = (j + j) + 0 + 1
          BY <1>2, <2>2, <3>1
        <4> QED BY <2>4, <2>5, <4>1
      <3>2. CASE pc[0] = "stop_barrier"
        BY <1>2, <3>2
      <3> QED BY <2>3, <3>1, <3>2
    <2>7. pc[0] = "stop_barrier"
      BY <1>2, <2>3, <2>6
    <2>8. Counting(0)
      <3>1. ~(b >= a)
        BY <1>2, <1>7
      <3> QED BY <2>7, <3>1 DEF Counting, Over, Other, InRun, a, b
    <2>9. clen[0] = clen[1]
      <3>1. Written(0) = Written(1)
        BY <1>7 DEF WorkerState, WorkerInv, WorkerTexts
      <3> QED BY <2>1, <2>8, <3>1 DEF Written
    <2>10. RoomAt(pc[0], clen[0]) /\ RoomAt(pc[1], clen[1])
      BY DEF WorkerState, WorkerInv, WorkerRoom
    <2>11. clen[0] >= PromptLen + launch.nNew
      BY <2>7, <2>10 DEF RoomAt, InRun
    <2>12. clen[1] < PromptLen + launch.nNew
      BY <2>1, <2>10 DEF RoomAt, InRun
    <2>13. clen[1] \in Nat /\ PromptLen \in Nat /\ launch.nNew \in Nat
      BY WorkerSizes
    <2> QED BY <2>9, <2>11, <2>12, <2>13
  <1>8. net["ids"] # <<>> \/ net["logits"] # <<>> => DraftIds = 1 /\ Rounds(0) = Rounds(1)
    <2>1. net["ids"] # <<>> => DraftIds = 1 /\ Rounds(0) = Rounds(1)
      BY <1>3, Apart
    <2>2. net["logits"] # <<>> => DraftIds = 1 /\ Rounds(0) = Rounds(1)
      BY <1>3, Apart
    <2> QED BY <2>1, <2>2
  <1>9. ASSUME net["result"] # <<>> PROVE b <= a
    <2>1. Rounds(0) = Rounds(1) + 1
      BY <1>3, <1>9, Apart
    <2>2. DraftIds = 1
      <3>1. DraftIds = 0 => Rounds(0) = Rounds(1)
        BY <1>3, Apart
      <3> QED BY <1>3, <2>1, <3>1, Offsets
    <2>3. Now(1) = 0
      BY <1>5, <1>6, <2>2
    <2> QED BY <1>2, <2>3
  <1>10. \A m \in Messages : Len(net[m]) <= 1
    BY <1>3, Apart
  <1>11. a > b => net["ids"] = <<>> /\ net["logits"] = <<>>
    BY <1>7, <1>8
  <1>12. b > a => net["result"] = <<>>
    BY <1>2, <1>9
  <1> QED BY <1>1, <1>10, <1>11, <1>12 DEF NothingCrossesABarrier, a, b

-----------------------------------------------------------------------------
(* All programs *)

LEMMA TypeInit ==
    ASSUME Init PROVE TypeOK /\ PostedOK /\ CheckedOK
  <1> USE DEF TARGET_RANK, DRAFT_RANK, Ranks
  <1>1. launch \in Launches /\ launch.prefix \in Seq(Token)
    BY LaunchFacts DEF Init
  <1>2. ControlOK
    <2>1. "check" \in Operations
      BY DEF Operations, MainTarget, Before
    <2> QED BY <1>1, <2>1 DEF Init, ControlOK
  <1>3. QueuesOK
    <2>1. <<>> \in Seq(Entries) /\ <<>> \in Seq(Seq(Rows) \cup Answers) /\ <<>> \in Seq(Seq(Nat))
              /\ <<>> \in Seq(Seq(Rows)) /\ <<>> \in Seq(Answers)
      OBVIOUS
    <2>2. entered = [r \in Ranks |-> <<>>] /\ net = [m \in Messages |-> <<>>]
      BY DEF Init
    <2> QED BY <2>1, <2>2 DEF QueuesOK, Messages
  <1>4. DataOK
    <2>1. NoResult \in Answers /\ [ids |-> <<>>, logits |-> <<>>, drawn |-> <<>>] \in Payloads
      BY DEF NoResult, Answers, Payloads
    <2>2. text \in [Ranks -> Seq(Token)]
      BY <1>1 DEF Init
    <2> QED BY <2>1, <2>2 DEF Init, DataOK
  <1>5. PostedOK /\ CheckedOK
    BY DEF Init, PostedOK, CheckedOK
  <1> QED BY <1>2, <1>3, <1>4, <1>5 DEF TypeOK

LEMMA ProgramAgain ==
    ASSUME IInv, Next
    PROVE  /\ pc' \in [Ranks -> Operations] /\ text' \in [Ranks -> Seq(Token)]
           /\ cursor' \in [Ranks -> Nat]
           /\ pc[DRAFT_RANK] = "draft_gamma" => launch.prog = "main"
           /\ launch'.prog = "main" => MainInv'
           /\ launch'.prog = "benchmark" => BenchInv'
           /\ launch'.prog = "worker" => WorkerInv'
  <1>1. launch.prog \in {"main", "benchmark", "worker"}
    BY LaunchFacts DEF IInv, TypeOK, ControlOK
  <1>2. CASE launch.prog = "main"
    <2>1. MainAgain'
      BY <1>2, MainStep DEF IInv, MainState
    <2> QED BY <1>2, <2>1 DEF MainAgain
  <1>3. CASE launch.prog = "benchmark"
    <2>1. BenchState
      BY <1>3 DEF IInv, BenchState
    <2>2. BenchAgain'
      BY <2>1, BenchStep
    <2>3. pc[DRAFT_RANK] # "draft_gamma"
      BY <2>1 DEF BenchState, BenchInv, BenchLabels, BenchDraft, Before, Gpu, ToTarget, ToDraft, Ended,
                  Timings
    <2> QED BY <2>2, <2>3 DEF BenchAgain
  <1>4. CASE launch.prog = "worker"
    <2>1. WorkerState
      BY <1>4 DEF IInv, WorkerState
    <2>2. WorkerAgain'
      BY <2>1, WorkerStep
    <2>3. pc[DRAFT_RANK] # "draft_gamma"
      BY <2>1 DEF WorkerState, WorkerInv, WorkerLabels, WorkerDraft, Idle, DraftBody
    <2> QED BY <2>2, <2>3 DEF WorkerAgain
  <1> QED BY <1>1, <1>2, <1>3, <1>4

LEMMA Stutters ==
    ASSUME IInv, UNCHANGED vars PROVE IInv'
  <1> USE DEF vars
  <1>1. TypeOK' /\ PostedOK' /\ CheckedOK'
    BY DEF IInv, TypeOK, ControlOK, QueuesOK, DataOK, PostedOK, CheckedOK
  <1>2. /\ DraftIds' = DraftIds /\ DraftLogits' = DraftLogits /\ DraftResult' = DraftResult
        /\ TargetIds' = TargetIds /\ TargetLogits' = TargetLogits /\ TargetOwes' = TargetOwes
    BY DEF DraftIds, DraftLogits, DraftResult, TargetIds, TargetLogits, TargetOwes
  <1>3. \A r : Now(r)' = Now(r)
    BY DEF Now
  <1>4. ASSUME MainInv PROVE MainInv'
    <2>1. MainLabels' /\ MainCollectives' /\ MainNames' /\ MainTurns'
      BY <1>3, <1>4 DEF MainInv, MainLabels, MainCollectives, MainEntered, MainNames, MainAt, G0,
                        MainTurns, MainTurn
    <2>2. MainTraffic'
      BY <1>2, <1>4 DEF MainInv, MainTraffic, Traffic
    <2>3. MainMessages' /\ MainTexts' /\ MainGathered'
      BY <1>4 DEF MainInv, MainMessages, MainTexts, MainGathered, Synced, Bonus, G0
    <2> QED BY <2>1, <2>2, <2>3 DEF MainInv
  <1>5. ASSUME BenchInv PROVE BenchInv'
    <2>1. N' = N
      BY DEF N
    <2>2. /\ \A p, t : BenchEntered(p, t)' = BenchEntered(p, t)
          /\ \A k : BenchAt(k)' = BenchAt(k)
          /\ \A p, t, h : Sent1(p, t, h)' = Sent1(p, t, h) /\ Sent2(p, t, h)' = Sent2(p, t, h)
      BY <2>1 DEF BenchEntered, BenchAt, Sent1, Sent2
    <2>3. BenchLabels' /\ BenchCollectives' /\ BenchNames' /\ BenchTurns' /\ BenchGate' /\ BenchGathered'
      BY <1>3, <1>5, <2>1, <2>2 DEF BenchInv, BenchLabels, BenchCollectives, BenchNames, BenchTurns,
                                    BenchGate, BenchGathered
    <2>4. /\ BenchIdsOut' = BenchIdsOut /\ BenchIdsTaken' = BenchIdsTaken
          /\ BenchLogitsOut' = BenchLogitsOut /\ BenchLogitsTaken' = BenchLogitsTaken
          /\ BenchResultsOut' = BenchResultsOut /\ BenchResultsTaken' = BenchResultsTaken
      BY <2>2 DEF BenchIdsOut, BenchIdsTaken, BenchLogitsOut, BenchLogitsTaken, BenchResultsOut,
                  BenchResultsTaken
    <2>5. BenchTraffic' /\ BenchMessages'
      BY <1>5, <2>4 DEF BenchInv, BenchTraffic, BenchMessages
    <2>6. BenchSamples'
      <3>1. \A r, t : Sampled(r, t)' = Sampled(r, t)
        BY <2>2 DEF Sampled, Past1, Past2
      <3> QED BY <1>5, <3>1 DEF BenchInv, BenchSamples
    <2> QED BY <2>3, <2>5, <2>6 DEF BenchInv
  <1>6. ASSUME WorkerInv PROVE WorkerInv'
    <2>1. WorkerLabels' /\ WorkerCollectives' /\ WorkerNames' /\ WorkerGate'
      BY <1>3, <1>6 DEF WorkerInv, WorkerLabels, WorkerCollectives, Inside, WorkerNames, WorkerAt, WorkerGate
    <2>2. /\ Rounds(0)' = Rounds(0) /\ Rounds(1)' = Rounds(1)
          /\ Written(0)' = Written(0) /\ Written(1)' = Written(1)
      BY DEF Rounds, Written, Counting, Over, PromptLen
    <2>3. WorkerTraffic' /\ WorkerTexts'
      BY <1>2, <1>6, <2>2 DEF WorkerInv, WorkerTraffic, Traffic, WorkerTexts, TARGET_RANK, DRAFT_RANK
    <2>4. WorkerMessages' /\ WorkerCursors' /\ WorkerRoom' /\ WorkerFits'
      BY <1>6 DEF WorkerInv, WorkerMessages, WorkerCursors, TargetCursor, DraftCursor, Ahead, WorkerRoom,
                  RoomAt, PromptLen, Bonus, WorkerFits, HasRoom, CannotEmbed
    <2> QED BY <2>1, <2>3, <2>4 DEF WorkerInv
  <1> QED BY <1>1, <1>4, <1>5, <1>6 DEF IInv

\* IInv is an invariant of the three programs, for every list of command lines:
\* where the two ranks stand decides which collectives they have entered and
\* which messages are under way, and what those messages are.
THEOREM Invariance == Spec => []IInv
  <1>1. Init => IInv
    BY TypeInit, MainInit, BenchInit, WorkerInit DEF IInv
  <1>2. IInv /\ [Next]_vars => IInv'
    <2>1. ASSUME IInv, Next PROVE IInv'
      <3>1. /\ pc' \in [Ranks -> Operations] /\ text' \in [Ranks -> Seq(Token)]
            /\ cursor' \in [Ranks -> Nat]
            /\ pc[DRAFT_RANK] = "draft_gamma" => launch.prog = "main"
            /\ launch'.prog = "main" => MainInv'
            /\ launch'.prog = "benchmark" => BenchInv'
            /\ launch'.prog = "worker" => WorkerInv'
        BY <2>1, ProgramAgain
      <3>2. TypeOK /\ PostedOK /\ CheckedOK
        BY <2>1 DEF IInv
      <3>3. ControlOK' /\ QueuesOK' /\ PostedOK' /\ CheckedOK' /\ DataOK'
        BY <2>1, <3>1, <3>2, ControlStep, QueuesStep, PostedStep, CheckedStep, DataStep
      <3> QED BY <3>1, <3>3 DEF IInv, TypeOK
    <2> QED BY <2>1, Stutters
  <1> QED BY <1>1, <1>2, PTL DEF Spec

LEMMA Programs ==
    ASSUME IInv
    PROVE  \/ launch.prog = "main" /\ MainState
           \/ launch.prog = "benchmark" /\ BenchState
           \/ launch.prog = "worker" /\ WorkerState
  <1>1. launch.prog \in {"main", "benchmark", "worker"}
    BY LaunchFacts DEF IInv, TypeOK, ControlOK
  <1> QED BY <1>1 DEF IInv, MainState, BenchState, WorkerState

\* The prototype's two copies of the text: after the same number of rounds the
\* draft's is the target's followed by the deferred bonus, and rank 0's final
\* comparison never finds a mismatch (mpi_prototype/main.py, exit status 2).
THEOREM TextsAgree == Spec => []PrefixesAgree
  <1>1. ASSUME IInv PROVE PrefixesAgree
    BY <1>1, Programs, MainPrefixesAgree DEF PrefixesAgree
  <1> QED BY <1>1, Invariance, PTL

\* Row i of the target's probabilities stands for the draft's own text followed
\* by the first i - 1 drafts, whenever the target verifies (_target_p_rows).
THEOREM TargetVerifiesDraftText == Spec => []VerifiesDraftText
  <1>1. ASSUME IInv PROVE VerifiesDraftText
    <2>1. CASE MainState
      BY <2>1, MainVerifiesDraftText
    <2>2. CASE BenchState
      <3>1. pc[TARGET_RANK] # "verify_and_accept"
        BY <2>2 DEF BenchState, BenchInv, BenchLabels, BenchTarget, Before, Gpu, ToTarget, ToDraft,
                    Ended, Timings
      <3> QED BY <3>1 DEF VerifiesDraftText, At
    <2>3. CASE WorkerState
      <3>1. pc[TARGET_RANK] # "verify_and_accept"
        BY <2>3 DEF WorkerState, WorkerInv, WorkerLabels, WorkerTarget, Idle, InRun, TargetBody
      <3> QED BY <3>1 DEF VerifiesDraftText, At
    <2> QED BY <1>1, <2>1, <2>2, <2>3, Programs
  <1> QED BY <1>1, Invariance, PTL

\* In every program the ranks meet in the same collectives in the same order,
\* no message crosses one, and no message waits behind another of its kind: what
\* is timed between two barriers is the traffic of one iteration.
THEOREM BarriersKeepApart == Spec => []NothingCrossesABarrier
  <1>1. ASSUME IInv PROVE NothingCrossesABarrier
    BY <1>1, Programs, MainNothingCrossesABarrier, BenchNothingCrossesABarrier,
       WorkerNothingCrossesABarrier
  <1> QED BY <1>1, Invariance, PTL

\* When rank 0 of the transfer benchmark adds up the gathered lists, the k-th
\* sample of every list is of iteration warmup + k; and the message it has timed
\* is the one that iteration made (mpi_prototype/benchmark.py).
THEOREM SamplesOfOneIteration == Spec => []SamplesPaired
  <1>1. ASSUME IInv PROVE SamplesPaired
    <2>1. CASE MainState
      <3>1. pc[TARGET_RANK] \notin {"summarise", "sample_to_target"} /\ pc[DRAFT_RANK] # "sample_to_draft"
        BY <2>1 DEF MainState, MainInv, MainLabels, MainTarget, MainDraft, Before, Gpu
      <3> QED BY <3>1 DEF SamplesPaired, At
    <2>2. CASE BenchState
      BY <2>2, BenchSamplesPaired
    <2>3. CASE WorkerState
      <3>1. pc[TARGET_RANK] \notin {"summarise", "sample_to_target"} /\ pc[DRAFT_RANK] # "sample_to_draft"
        BY <2>3 DEF WorkerState, WorkerInv, WorkerLabels, WorkerTarget, WorkerDraft, Idle, InRun,
                    TargetBody, DraftBody
      <3> QED BY <3>1 DEF SamplesPaired, At
    <2> QED BY <1>1, <2>1, <2>2, <2>3, Programs
  <1> QED BY <1>1, Invariance, PTL

\* A worker given room for the prompt, the tokens asked for and gamma more never
\* finds a cache full, however many drafts each round accepts: rank 0 raises
\* only on the median of nothing, rank 1 only on a bonus the draft cannot embed
\* (runtime/benchmarks/_specdec_worker.py, run_mpi; draft_runner.py:115-122).
THEOREM WorkerNeverOverflows == Spec => []WorkerFits
  <1>1. ASSUME IInv PROVE WorkerFits
    BY <1>1, Programs DEF WorkerState, WorkerInv, WorkerFits
  <1> QED BY <1>1, Invariance, PTL

=============================================================================
