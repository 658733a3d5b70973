---------------------------- MODULE MpiSpecDecode ----------------------------
(***************************************************************************)
(* The two-rank coordinator (runtime/speculative/mpi_coordinator.py) over  *)
(* the messages of mpi_protocol.py: rank 0 runs the target, rank 1 the     *)
(* draft, each its own program with its own copy of the text.              *)
(*                                                                         *)
(* What a rank computes between two MPI calls is one action.  A send is    *)
(* two: posting, and returning, which a standard-mode MPI send may do at   *)
(* once (eager) or only once the receive has matched it (rendezvous).      *)
(* A rank that raises stops for good: nothing in the coordinator tells the *)
(* other.                                                                  *)
(***************************************************************************)
EXTENDS KVExecutor

CONSTANTS DraftVocab,   \* ids the draft can embed, a subset of Token
          Jobs,         \* command lines: [prompt, steps, gamma]
          Support(_),   \* the tokens the target's distribution can produce
          MaxSeq,       \* --max-seq, the size of both caches
          EagerSets     \* choices of MPI: the messages whose send returns early

MaxGamma == 7          \* what main lets --gamma be

Messages == {"ids", "logits", "result"}

ASSUME MpiAssumption ==
    /\ DraftVocab \subseteq Token
    /\ MaxSeq \in Nat
    /\ EagerSets \subseteq SUBSET Messages
    /\ Jobs \subseteq [prompt : Seq(DraftVocab) \ {<<>>}, steps : Nat,
                       gamma : 1 .. MaxGamma]

VARIABLES job, eager,
          tpc, target, tCommitted, tStep,       \* rank 0
          tIds, tRows, tResult,                 \* its payload and its answer
          dpc, draft, lastLogits, prefixLen,    \* rank 1
          dCommitted, dStep, dIds, dRows, dResult,
          net,                                  \* sent and not yet received
          exitCode

tLocal == <<tIds, tRows, tResult>>
dLocal == <<lastLogits, prefixLen, dCommitted, dStep, dIds, dRows, dResult>>
setting == <<job, eager>>
targetVars == <<tpc, target, tCommitted, tStep, tLocal>>
draftVars == <<dpc, draft, dLocal>>
vars == <<setting, targetVars, draftVars, net, exitCode>>

NoResult == [n |-> 0, bonus |-> NoToken, prefix |-> 0, cacheAfter |-> 0]
NoExit == 99

Init ==
    /\ job \in Jobs /\ eager \in EagerSets
    /\ tpc = "prefill" /\ dpc = "prefill"
    /\ target = NewExecutor(MaxSeq) /\ draft = NewExecutor(MaxSeq)
    /\ tCommitted = job.prompt /\ dCommitted = job.prompt
    /\ tStep = 0 /\ dStep = 0
    /\ tIds = <<>> /\ tRows = <<>> /\ tResult = NoResult
    /\ lastLogits = NoRow /\ prefixLen = 0
    /\ dIds = <<>> /\ dRows = <<>> /\ dResult = NoResult
    /\ net = [m \in Messages |-> <<>>]
    /\ exitCode = NoExit

-----------------------------------------------------------------------------
(* MPI: messages of one kind are received in the order they are sent. *)

Post(m, value) == net' = [net EXCEPT ![m] = Append(@, value)]

Arrived(m) == net[m] # <<>>
Receive(m) == net' = [net EXCEPT ![m] = Tail(@)]

SendReturns(m) == m \in eager \/ ~Arrived(m)

-----------------------------------------------------------------------------
(* Rank 1, the draft *)

\* The head of `for step in range(args.steps)`.
DraftLoop(step) == IF step < job.steps THEN "generate" ELSE "barrier"

DraftPrefill ==
    /\ dpc = "prefill"
    /\ Len(job.prompt) <= MaxSeq
    /\ draft' = Prefill(draft, job.prompt)
    /\ lastLogits' = Row(ResetKvCache(draft), job.prompt, Len(job.prompt))
    /\ prefixLen' = Len(job.prompt)
    /\ dpc' = DraftLoop(0)
    /\ UNCHANGED <<setting, targetVars, dCommitted, dStep, dIds, dRows, dResult, net, exitCode>>

DraftRaises(where) == dpc' = where

DraftPrefillOverflow ==
    /\ dpc = "prefill"
    /\ Len(job.prompt) > MaxSeq
    /\ draft' = ResetKvCache(draft)
    /\ DraftRaises("raised_prefill")
    /\ UNCHANGED <<setting, targetVars, dLocal, net, exitCode>>

\* Sample and commit gamma drafts, one decode each.
GenerateDrafts(ids) ==
    /\ dpc = "generate"
    /\ Fits(draft, job.gamma)
    /\ prefixLen' = draft.pos
    /\ draft' = Forward(draft, ids)
    /\ dIds' = ids
    /\ dRows' = <<lastLogits>> \o [i \in 1 .. job.gamma |-> Row(draft, ids, i)]
    /\ dpc' = "send_ids"
    /\ UNCHANGED <<setting, targetVars, lastLogits, dCommitted, dStep, dResult, net, exitCode>>

\* The decode that finds the cache full raises; those before it are in.
GenerateOverflow(ids) ==
    /\ dpc = "generate"
    /\ ~Fits(draft, job.gamma)
    /\ prefixLen' = draft.pos
    /\ draft' = Forward(draft, SubSeq(ids, 1, draft.max - draft.pos))
    /\ DraftRaises("raised_generate")
    /\ UNCHANGED <<setting, targetVars, lastLogits, dCommitted, dStep, dIds, dRows,
                   dResult, net, exitCode>>

SendIds ==
    /\ dpc = "send_ids"
    /\ Post("ids", dIds)
    /\ dpc' = "sent_ids"
    /\ UNCHANGED <<setting, targetVars, draft, dLocal, exitCode>>

SendIdsReturns ==
    /\ dpc = "sent_ids"
    /\ SendReturns("ids")
    /\ dpc' = "send_logits"
    /\ UNCHANGED <<setting, targetVars, draft, dLocal, net, exitCode>>

SendLogits ==
    /\ dpc = "send_logits"
    /\ Post("logits", dRows)
    /\ dpc' = "sent_logits"
    /\ UNCHANGED <<setting, targetVars, draft, dLocal, exitCode>>

SendLogitsReturns ==
    /\ dpc = "sent_logits"
    /\ SendReturns("logits")
    /\ dpc' = "await_result"
    /\ UNCHANGED <<setting, targetVars, draft, dLocal, net, exitCode>>

\* Mutant: the answer is looked at but stays in the channel.
RecvResultPeeks ==
    /\ dpc = "await_result"
    /\ Arrived("result")
    /\ LET r == Head(net["result"]) IN
        /\ dResult' = r
        /\ dCommitted' = dCommitted \o SubSeq(dIds, 1, r.n) \o <<r.bonus>>
    /\ dpc' = "feedback"
    /\ UNCHANGED <<setting, targetVars, draft, lastLogits, prefixLen, dStep, dIds, dRows,
                   net, exitCode>>

\* recv_target_result, then the draft's copy of the text grows.
RecvResult ==
    /\ dpc = "await_result"
    /\ Arrived("result")
    /\ Receive("result")
    /\ LET r == Head(net["result"]) IN
        /\ dResult' = r
        /\ dCommitted' = dCommitted \o SubSeq(dIds, 1, r.n) \o <<r.bonus>>
    /\ dpc' = "feedback"
    /\ UNCHANGED <<setting, targetVars, draft, lastLogits, prefixLen, dStep, dIds, dRows, exitCode>>

\* Mutant: the rejected drafts stay.
RolledBackNot == draft

\* The draft's cache without the refused drafts.
RolledBack == RollbackCache(draft, prefixLen + dResult.n)

ApplyTargetFeedback ==
    /\ dpc = "feedback"
    /\ dResult.bonus \in DraftVocab
    /\ Fits(RolledBack, 1)
    /\ draft' = DecodeStep(RolledBack, dResult.bonus)
    /\ lastLogits' = Row(RolledBack, <<dResult.bonus>>, 1)
    /\ prefixLen' = prefixLen + dResult.n + 1
    /\ dStep' = dStep + 1
    /\ dpc' = DraftLoop(dStep + 1)
    /\ UNCHANGED <<setting, targetVars, dCommitted, dIds, dRows, dResult, net, exitCode>>

FeedbackVocabError ==
    /\ dpc = "feedback"
    /\ dResult.bonus \notin DraftVocab
    /\ DraftRaises("raised_vocab")
    /\ UNCHANGED <<setting, targetVars, draft, dLocal, net, exitCode>>

FeedbackOverflow ==
    /\ dpc = "feedback"
    /\ dResult.bonus \in DraftVocab
    /\ ~Fits(RolledBack, 1)
    /\ draft' = RolledBack
    /\ DraftRaises("raised_feedback")
    /\ UNCHANGED <<setting, targetVars, dLocal, net, exitCode>>

-----------------------------------------------------------------------------
(* Rank 0, the target *)

\* Mutant: the target makes one round more than the draft.
TargetLoopOneMore(step) == IF step <= job.steps THEN "await_ids" ELSE "flush"

TargetLoop(step) == IF step < job.steps THEN "await_ids" ELSE "flush"

TargetPrefill ==
    /\ tpc = "prefill"
    /\ Len(job.prompt) <= MaxSeq
    /\ target' = Prefill(target, job.prompt)
    /\ tpc' = TargetLoop(0)
    /\ UNCHANGED <<setting, draftVars, tCommitted, tStep, tLocal, net, exitCode>>

TargetRaises(where) == tpc' = where

TargetPrefillOverflow ==
    /\ tpc = "prefill"
    /\ Len(job.prompt) > MaxSeq
    /\ target' = ResetKvCache(target)
    /\ TargetRaises("raised_prefill")
    /\ UNCHANGED <<setting, draftVars, tCommitted, tStep, tLocal, net, exitCode>>

RecvIds ==
    /\ tpc = "await_ids"
    /\ Arrived("ids")
    /\ Receive("ids")
    /\ tIds' = Head(net["ids"])
    /\ tpc' = "await_logits"
    /\ UNCHANGED <<setting, draftVars, target, tCommitted, tStep, tRows, tResult, exitCode>>

RecvLogits ==
    /\ tpc = "await_logits"
    /\ Arrived("logits")
    /\ Receive("logits")
    /\ tRows' = Head(net["logits"])
    /\ tpc' = "verify"
    /\ UNCHANGED <<setting, draftVars, target, tCommitted, tStep, tIds, tResult, exitCode>>

\* target_speculative_step: the forward over the deferred bonus and the drafts.
VerifyInput ==
    IF target.pending = NoToken THEN tIds ELSE <<target.pending>> \o tIds

\* Mutant: rows read as if no bonus were bundled.
VerifyRowNoBonus(i) ==
    LET taken == TakePendingBonus(target)
    IN  IF i = 1 THEN target.p1 ELSE Row(taken, VerifyInput, i - 1)

\* p_i: the row before draft i.
VerifyRow(i) ==
    LET taken == TakePendingBonus(target)
    IN  IF target.pending # NoToken THEN Row(taken, VerifyInput, i)
        ELSE IF i = 1 THEN target.p1
        ELSE Row(taken, VerifyInput, i - 1)

\* Mutant: the bundled bonus is not counted.
RollbackBaseNoBonus == target.pos

RollbackBase == target.pos + (IF target.pending = NoToken THEN 0 ELSE 1)

\* Accept n drafts and sample the bonus; any token of its distribution may do.
\* The forward has room: the draft has stored the same text (BudgetSuffices).
TargetStep(n, bonus) ==
    /\ tpc = "verify"
    /\ Fits(target, Len(VerifyInput))
    /\ \A i \in 1 .. n : tIds[i] \in Support(VerifyRow(i))
    /\ bonus \in Support(VerifyRow(n + 1))
    /\ target' = DeferBonusToken(
                     RollbackCache(Forward(TakePendingBonus(target), VerifyInput),
                                   RollbackBase + n),
                     bonus)
    /\ tResult' = [n |-> n, bonus |-> bonus, prefix |-> target.pos,
                   cacheAfter |-> RollbackBase + n]
    /\ tpc' = "send_result"
    /\ UNCHANGED <<setting, draftVars, tCommitted, tStep, tIds, tRows, net, exitCode>>

SendResult ==
    /\ tpc = "send_result"
    /\ Post("result", tResult)
    /\ tpc' = "sent_result"
    /\ UNCHANGED <<setting, draftVars, target, tCommitted, tStep, tLocal, exitCode>>

\* Mutant: the target's copy of the text without the bonus.
SendResultKeepsDrafts ==
    /\ tpc = "sent_result"
    /\ SendReturns("result")
    /\ tCommitted' = tCommitted \o SubSeq(tIds, 1, tResult.n)
    /\ tStep' = tStep + 1
    /\ tpc' = TargetLoop(tStep + 1)
    /\ UNCHANGED <<setting, draftVars, target, tLocal, net, exitCode>>

\* The target's copy of the text grows only after its send.
SendResultReturns ==
    /\ tpc = "sent_result"
    /\ SendReturns("result")
    /\ tCommitted' = tCommitted \o SubSeq(tIds, 1, tResult.n) \o <<tResult.bonus>>
    /\ tStep' = tStep + 1
    /\ tpc' = TargetLoop(tStep + 1)
    /\ UNCHANGED <<setting, draftVars, target, tLocal, net, exitCode>>

Flush ==
    /\ tpc = "flush"
    /\ target.pending # NoToken
    /\ Fits(target, 1)
    /\ target' = CommitPendingBonus(target)
    /\ tpc' = "barrier"
    /\ UNCHANGED <<setting, draftVars, tCommitted, tStep, tLocal, net, exitCode>>

NothingToFlush ==
    /\ tpc = "flush"
    /\ target.pending = NoToken
    /\ tpc' = "barrier"
    /\ UNCHANGED <<setting, draftVars, target, tCommitted, tStep, tLocal, net, exitCode>>

FlushOverflow ==
    /\ tpc = "flush"
    /\ target.pending # NoToken
    /\ ~Fits(target, 1)
    /\ target' = TakePendingBonus(target)
    /\ TargetRaises("raised_flush")
    /\ UNCHANGED <<setting, draftVars, tCommitted, tStep, tLocal, net, exitCode>>

-----------------------------------------------------------------------------
(* Both: comm.Barrier(), comm.gather() and the comparison on rank 0 *)

Barrier ==
    /\ tpc = "barrier" /\ dpc = "barrier"
    /\ tpc' = "compare" /\ dpc' = "exit"
    /\ UNCHANGED <<setting, target, tCommitted, tStep, tLocal, draft, dLocal, net, exitCode>>

\* Rank 0 has gathered both texts.
Compare ==
    /\ tpc = "compare"
    /\ IF tCommitted # dCommitted THEN tpc' = "exit" /\ exitCode' = 2
       ELSE IF job.steps = 0      \* the summary divides by args.steps
       THEN TargetRaises("raised_summary") /\ UNCHANGED exitCode
       ELSE tpc' = "exit" /\ exitCode' = 0
    /\ UNCHANGED <<setting, draftVars, target, tCommitted, tStep, tLocal, net>>

-----------------------------------------------------------------------------
DraftTuples == [1 .. job.gamma -> DraftVocab]

DraftNext ==
    \/ DraftPrefill \/ DraftPrefillOverflow
    \/ \E ids \in DraftTuples : GenerateDrafts(ids) \/ GenerateOverflow(ids)
    \/ SendIds \/ SendIdsReturns \/ SendLogits \/ SendLogitsReturns
    \/ RecvResult
    \/ ApplyTargetFeedback \/ FeedbackVocabError \/ FeedbackOverflow

TargetNext ==
    \/ TargetPrefill \/ TargetPrefillOverflow
    \/ RecvIds \/ RecvLogits
    \/ \E n \in 0 .. job.gamma : \E b \in Token : TargetStep(n, b)
    \/ SendResult \/ SendResultReturns
    \/ Flush \/ NothingToFlush \/ FlushOverflow

Collective == Barrier \/ Compare

Next == DraftNext \/ TargetNext \/ Collective

Spec == Init /\ [][Next]_vars

\* A rank keeps running as long as the call it is in can return.
FairSpec == Spec /\ WF_vars(DraftNext) /\ WF_vars(TargetNext) /\ WF_vars(Collective)

-----------------------------------------------------------------------------
(* Properties *)

DraftRaised == dpc \in {"raised_prefill", "raised_generate", "raised_vocab",
                        "raised_feedback"}
TargetRaised == tpc \in {"raised_prefill", "raised_flush", "raised_summary"}

\* The target's text, with the round it is reporting.
Lead ==
    IF tpc \in {"send_result", "sent_result"}
    THEN tCommitted \o SubSeq(tIds, 1, tResult.n) \o <<tResult.bonus>>
    ELSE tCommitted

\* The draft's text, with the drafts its cache already holds.
Drafted ==
    IF dpc \in {"send_ids", "sent_ids", "send_logits", "sent_logits", "await_result"}
    THEN dCommitted \o dIds ELSE dCommitted

Rows == Seq(Token \cup {NoToken})
Results == [n : Nat, bonus : Token, prefix : Nat, cacheAfter : Nat]

TargetTypeOK ==
    /\ tpc \in {"prefill", "await_ids", "await_logits", "verify", "send_result",
                "sent_result", "flush", "barrier", "compare", "exit"} \/ TargetRaised
    /\ target \in Executors(MaxSeq) /\ tCommitted \in Seq(Token)
    /\ tStep \in 0 .. job.steps
    /\ tIds \in Seq(DraftVocab) /\ tRows \in Seq(Rows)
    /\ tResult \in Results \cup {NoResult}

DraftTypeOK ==
    /\ dpc \in {"prefill", "generate", "send_ids", "sent_ids", "send_logits",
                "sent_logits", "await_result", "feedback", "barrier", "exit"}
       \/ DraftRaised
    /\ draft \in Executors(MaxSeq) /\ lastLogits \in Rows
    /\ prefixLen \in 0 .. MaxSeq /\ dCommitted \in Seq(Token)
    /\ dStep \in 0 .. job.steps
    /\ dIds \in Seq(DraftVocab) /\ dRows \in Seq(Rows)
    /\ dResult \in Results \cup {NoResult}

NetTypeOK ==
    /\ DOMAIN net = Messages
    /\ net["ids"] \in Seq(Seq(DraftVocab))
    /\ net["logits"] \in Seq(Seq(Rows))
    /\ net["result"] \in Seq(Results)

\* Every variable has its type: the cursors stay inside the caches.
TypeOK ==
    /\ job \in Jobs /\ eager \in EagerSets /\ exitCode \in {NoExit, 0, 2}
    /\ TargetTypeOK /\ DraftTypeOK /\ NetTypeOK

\* Where in its round a rank has sent or received each message.
DraftHasResult == dpc \in {"feedback", "raised_vocab", "raised_feedback"}
DraftSentLogits == dpc \in {"sent_logits", "await_result"} \/ DraftHasResult
DraftSentIds == dpc \in {"sent_ids", "send_logits"} \/ DraftSentLogits
TargetSentResult == tpc = "sent_result"
TargetHasLogits == tpc \in {"verify", "send_result"} \/ TargetSentResult
TargetHasIds == tpc = "await_logits" \/ TargetHasLogits

\* How many of each it has sent or received, a message a round.
IdsSent == IF DraftSentIds THEN dStep + 1 ELSE dStep
LogitsSent == IF DraftSentLogits THEN dStep + 1 ELSE dStep
ResultsRead == IF DraftHasResult THEN dStep + 1 ELSE dStep
IdsRead == IF TargetHasIds THEN tStep + 1 ELSE tStep
LogitsRead == IF TargetHasLogits THEN tStep + 1 ELSE tStep
ResultsSent == IF TargetSentResult THEN tStep + 1 ELSE tStep

\* A channel holds what one rank has sent and the other not received, as counted
\* from where the two programs stand.
ChannelsCount ==
    /\ Len(net["ids"]) = IdsSent - IdsRead
    /\ Len(net["logits"]) = LogitsSent - LogitsRead
    /\ Len(net["result"]) = ResultsSent - ResultsRead

\* The channels never hold more than the one message the peer waits for: no
\* message overtakes or piles up behind another of its kind, and a payload and
\* a result are never under way together.
OneRoundInFlight ==
    /\ \A m \in Messages : Len(net[m]) <= 1
    /\ Arrived("result") => ~Arrived("ids") /\ ~Arrived("logits")

\* Both ranks make job.steps rounds of gamma drafts, which the draft's cache
\* holds until the answer comes, and no answer accepts more.
TargetRounds ==
    /\ tpc = "prefill" => tStep = 0
    /\ tpc \in {"await_ids", "send_result"} \/ TargetHasIds => tStep < job.steps
    /\ TargetHasIds => Len(tIds) = job.gamma
    /\ tpc \in {"send_result", "sent_result"} =>
          tResult \in Results /\ tResult.n <= job.gamma
    /\ target.dev = target.pos

DraftRounds ==
    /\ dpc = "prefill" => dStep = 0
    /\ dpc \in {"generate", "send_ids"} \/ DraftSentIds => dStep < job.steps
    /\ dpc = "send_ids" \/ (DraftSentIds /\ dpc # "raised_feedback") =>
          Len(dIds) = job.gamma /\ draft.pos = prefixLen + job.gamma
    /\ dpc = "feedback" => dResult.n <= job.gamma
    /\ draft.dev = draft.pos

NetSizes ==
    /\ \A i \in DOMAIN net["ids"] : Len(net["ids"][i]) = job.gamma
    /\ \A i \in DOMAIN net["result"] : net["result"][i].n <= job.gamma

RoundsAndSizes == TargetRounds /\ DraftRounds /\ NetSizes

\* The protocol keeps the two programs in step: the inductive invariant behind
\* the message order, for all sends, eager or not, and every raise.
ProtocolInv == TypeOK /\ ChannelsCount /\ OneRoundInFlight /\ RoundsAndSizes

\* What a rank receives agrees with what it has itself.  Whenever the target
\* verifies, the distributions the draft sent are conditioned on the same text
\* as its own, draft by draft and for the bonus; what the target reports is what
\* the draft derives on its own.
MessagesAgree ==
    /\ tpc = "verify" =>
        /\ Len(tIds) = job.gamma
        /\ \A i \in 1 .. job.gamma + 1 :
            /\ VerifyRow(i) = SubSeq(tCommitted \o tIds, 1, Len(tCommitted) + i - 1)
            /\ tRows[i] = VerifyRow(i)
    /\ dpc = "feedback" =>
        /\ dResult.cacheAfter = prefixLen + dResult.n
        /\ dResult.cacheAfter + 1 = Len(dCommitted)
        /\ dCommitted = Lead

\* Neither rank's forwards ever attend to a stale slot, whatever the other
\* rank is doing in the meantime.
CachesMatchText ==
    /\ ~TargetRaised => Coherent(target, Lead, target.pos)
    /\ ~DraftRaised /\ dpc # "feedback" => Coherent(draft, Drafted, draft.pos)
    /\ dpc = "feedback" => Coherent(draft, dCommitted, prefixLen + dResult.n)

BudgetCovers == Len(job.prompt) + job.steps * (job.gamma + 1) <= MaxSeq

\* --max-seq of prompt + steps * (gamma + 1) never overflows a cache; and whatever
\* --max-seq is, the target has room for what the draft could generate, so its
\* overflow in verify_gamma is never reached.
BudgetSuffices ==
    /\ tpc = "verify" => Fits(target, Len(VerifyInput))
    /\ BudgetCovers =>
        /\ tpc \notin {"raised_prefill", "raised_flush"}
        /\ dpc \notin {"raised_prefill", "raised_generate", "raised_feedback"}

\* Exit code 0 means both ranks made every round, each with its whole text in
\* its cache; the mismatch exit (2) is dead.
ExitCodeMeans ==
    /\ exitCode # 2
    /\ exitCode = 0 =>
        /\ ~DraftRaised
        /\ tCommitted = dCommitted
        /\ target.pos = Len(tCommitted) /\ draft.pos = Len(dCommitted)
        /\ Len(tCommitted) - Len(job.prompt)
              \in job.steps .. job.steps * (job.gamma + 1)

-----------------------------------------------------------------------------
(* The inductive invariant behind the agreement of the two ranks, on top of *)
(* ProtocolInv                                                              *)

\* The target's rounds with the one it is reporting.
RoundsMade == IF tpc \in {"send_result", "sent_result"} THEN tStep + 1 ELSE tStep

\* The two texts are one, but for the round whose answer is under way, which
\* extends the draft's by drafts it still has.
TextsInStep ==
    IF RoundsMade = ResultsRead THEN dCommitted = Lead
    ELSE /\ tResult \in Results /\ tResult.n <= job.gamma
         /\ tResult.cacheAfter = prefixLen + tResult.n
         /\ Lead = dCommitted \o SubSeq(dIds, 1, tResult.n) \o <<tResult.bonus>>

\* What is under way, or received and not yet used, is what its sender has.
MessagesCurrent ==
    /\ Arrived("ids") => Head(net["ids"]) = dIds
    /\ Arrived("logits") => Head(net["logits"]) = dRows
    /\ Arrived("result") => Head(net["result"]) = tResult
    /\ tpc \in {"await_logits", "verify"} => tIds = dIds
    /\ tpc = "verify" => tRows = dRows

\* The target's cache holds its text, or all of it but a deferred bonus.
TargetStands ==
    /\ tpc = "prefill" => target.pos = 0 /\ tCommitted = job.prompt
    /\ ~TargetRaised => Coherent(target, Lead, target.pos)
    /\ tpc # "prefill" /\ ~TargetRaised =>
          IF target.pending = NoToken
          THEN target.pos = Len(Lead) /\ target.p1 = Lead
          ELSE target.pos = Len(Lead) - 1 /\ target.pending = Lead[Len(Lead)]
    /\ tpc \in {"barrier", "compare", "exit"} => target.pending = NoToken
    /\ tpc \in {"flush", "barrier", "compare", "exit"} => tStep = job.steps
    /\ BudgetCovers => tpc \notin {"raised_prefill", "raised_flush"}

\* The draft's cache holds its text and the drafts that wait for their answer,
\* and its rows are conditioned on exactly that.
DraftStands ==
    /\ dpc = "prefill" => draft.pos = 0 /\ dCommitted = job.prompt
    /\ dpc = "generate" => lastLogits = dCommitted
    /\ dpc \in {"generate", "barrier", "exit"} => draft.pos = Len(dCommitted)
    /\ dpc \in {"send_ids", "sent_ids", "send_logits", "sent_logits", "await_result"} =>
          /\ prefixLen = Len(dCommitted)
          /\ \A i \in 1 .. job.gamma + 1 :
                dRows[i] = SubSeq(dCommitted \o dIds, 1, Len(dCommitted) + i - 1)
    /\ dpc = "feedback" =>
          /\ dResult \in Results /\ dResult.cacheAfter = prefixLen + dResult.n
          /\ Len(dCommitted) = prefixLen + dResult.n + 1
          /\ dCommitted[Len(dCommitted)] = dResult.bonus
          /\ Coherent(draft, dCommitted, prefixLen + dResult.n)
    /\ dpc # "feedback" /\ ~DraftRaised => Coherent(draft, Drafted, draft.pos)
    /\ dpc \in {"barrier", "exit"} => dStep = job.steps

\* A round adds one to gamma + 1 tokens, so a budget that covers the longest text
\* is never overrun.
TextBounds ==
    /\ Len(dCommitted) >= Len(job.prompt) + ResultsRead
    /\ Len(dCommitted) <= Len(job.prompt) + ResultsRead * (job.gamma + 1)
    /\ BudgetCovers => dpc \notin {"raised_prefill", "raised_generate", "raised_feedback"}

\* Rank 0 compares only after the barrier, and never finds a difference.
Ending ==
    /\ tpc \in {"compare", "exit"} => dpc = "exit"
    /\ exitCode # NoExit => tpc = "exit" /\ exitCode = 0

AgreementInv ==
    TextsInStep /\ MessagesCurrent /\ TargetStands /\ DraftStands /\ TextBounds /\ Ending

-----------------------------------------------------------------------------
Lockstep == INSTANCE LockstepText
                WITH lead <- Lead, copy <- dCommitted, rounds <- RoundsMade

\* The two copies of the text advance in lockstep, a round at a time.
RefinesLockstep == Lockstep!Spec

\* The ranks never wait for each other for ever: they both exit, or one raised.
EndsUnlessRaised ==
    <>((exitCode # NoExit /\ dpc = "exit") \/ DraftRaised \/ TargetRaised)
=============================================================================
