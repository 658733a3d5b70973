----------------------------- MODULE SpecDecode -----------------------------
(***************************************************************************)
(* Single-process speculative decoding: speculative_generate               *)
(* (runtime/speculative/spec_decode.py) driving a target Qwen2Executor     *)
(* through target_step.py and a draft one through DraftRunner.             *)
(*                                                                         *)
(* One action per executor call the driver makes, in program order (pc),   *)
(* and one more for each place where the call raises.  Requests follow one *)
(* another on the same two executors, after a raise too, as in             *)
(* benchmarks/_specdec_worker.py: the caches start dirty.                  *)
(***************************************************************************)
EXTENDS KVExecutor

CONSTANTS DraftVocab,   \* ids the draft can embed, a subset of Token
          Jobs,         \* requests: [prompt, n, gamma, greedy]
          Argmax(_),    \* the target's greedy token after a context
          Support(_),   \* the tokens its distribution can produce there
          TargetMax,    \* max_seq_len of the target's buffers
          DraftMax,     \* max_seq_len of the draft's buffers
          MaxJobs       \* bound: requests served in one behaviour

MaxVerifyGamma == 8     \* types.MAX_VERIFY_GAMMA

ASSUME SpecDecodeAssumption ==
    /\ DraftVocab \subseteq Token
    /\ TargetMax \in Nat /\ DraftMax \in Nat /\ MaxJobs \in Nat
    /\ Jobs \subseteq [prompt : Seq(DraftVocab) \ {<<>>}, n : Nat,
                       gamma : 1 .. MaxVerifyGamma, greedy : BOOLEAN]

VARIABLES target, draft,  \* the two executor records
          lastLogits,     \* DraftRunner._last_logits: the row q_1 comes from
          prefixLen,      \* DraftRunner._prefix_len
          pc,             \* the next call of the driver
          error,          \* which call raised
          job, nJobs,     \* the request, and how many were started
          out,            \* the driver's token list
          draftIds,       \* x_1 .. of this round
          qRows,          \* q_1 .. of this round
          pAll,           \* p_1 .. of this round
          rollbackBase,   \* target slots committed before the drafts
          result          \* the last SpeculativeStepResult

runnerVars == <<lastLogits, prefixLen>>
roundVars == <<draftIds, qRows, pAll, rollbackBase, result>>
vars == <<target, draft, lastLogits, prefixLen, pc, error, job, nJobs, out,
          draftIds, qRows, pAll, rollbackBase, result>>

NoResult == [n |-> 0, prefix |-> 0, newPrefix |-> 0, cacheAfter |-> 0]

\* What the target may emit after ctx: its argmax when greedy, otherwise
\* any token its distribution gives a nonzero probability.
Allowed(greedy, ctx) == IF greedy THEN {Argmax(ctx)} ELSE Support(ctx)

PromptLen == Len(job.prompt)
NumNew == Len(out) - PromptLen

Init ==
    /\ target = NewExecutor(TargetMax)
    /\ draft = NewExecutor(DraftMax)
    /\ lastLogits = NoRow
    /\ prefixLen = 0
    /\ pc = "idle"
    /\ error = "none"
    /\ job \in Jobs
    /\ nJobs = 0
    /\ out = job.prompt
    /\ draftIds = <<>> /\ qRows = <<>> /\ pAll = <<>>
    /\ rollbackBase = 0
    /\ result = NoResult

-----------------------------------------------------------------------------
Idle == pc \in {"idle", "done", "raised"} /\ nJobs < MaxJobs

\* The locals of a new call; what the last one left is gone.
NewCall(j) ==
    /\ job' = j
    /\ nJobs' = nJobs + 1
    /\ out' = j.prompt
    /\ draftIds' = <<>> /\ qRows' = <<>> /\ pAll' = <<>>
    /\ rollbackBase' = 0
    /\ result' = NoResult

StartJob(j) ==
    /\ Idle
    /\ Len(j.prompt) <= TargetMax
    /\ Len(j.prompt) <= DraftMax
    /\ NewCall(j)
    /\ target' = Prefill(target, j.prompt)
    /\ draft' = Prefill(draft, j.prompt)
    /\ lastLogits' = Row(ResetKvCache(draft), j.prompt, Len(j.prompt))
    /\ prefixLen' = Len(j.prompt)
    /\ pc' = "round"
    /\ error' = "none"

\* A prefill that does not fit raises after its reset.
TargetPrefillOverflow(j) ==
    /\ Idle
    /\ Len(j.prompt) > TargetMax
    /\ NewCall(j)
    /\ target' = ResetKvCache(target)
    /\ pc' = "raised"
    /\ error' = "target prefill"
    /\ UNCHANGED <<draft, runnerVars>>

DraftPrefillOverflow(j) ==
    /\ Idle
    /\ Len(j.prompt) <= TargetMax
    /\ Len(j.prompt) > DraftMax
    /\ NewCall(j)
    /\ target' = Prefill(target, j.prompt)
    /\ draft' = ResetKvCache(draft)
    /\ pc' = "raised"
    /\ error' = "draft prefill"
    /\ UNCHANGED runnerVars

Raise(what) == pc' = "raised" /\ error' = what

-----------------------------------------------------------------------------
(* DraftRunner.generate_drafts *)

BeginRound ==
    /\ pc = "round"
    /\ NumNew < job.n
    /\ prefixLen' = draft.pos
    /\ draftIds' = <<>>
    /\ qRows' = <<lastLogits>>
    /\ pc' = "draft"
    /\ UNCHANGED <<target, draft, lastLogits, error, job, nJobs, out, pAll,
                   rollbackBase, result>>

\* Sample x from the last row and commit it, which yields the next row.
DraftDecode(x) ==
    /\ pc = "draft"
    /\ Fits(draft, 1)
    /\ draft' = DecodeStep(draft, x)
    /\ draftIds' = Append(draftIds, x)
    /\ qRows' = Append(qRows, Row(draft, <<x>>, 1))
    /\ pc' = IF Len(draftIds) + 1 = job.gamma THEN "verify" ELSE "draft"
    /\ UNCHANGED <<target, runnerVars, error, job, nJobs, out, pAll,
                   rollbackBase, result>>

DraftDecodeOverflow ==
    /\ pc = "draft"
    /\ ~Fits(draft, 1)
    /\ Raise("draft decode")
    /\ UNCHANGED <<target, draft, runnerVars, job, nJobs, out, roundVars>>

-----------------------------------------------------------------------------
(* target_speculative_step, _greedy_target_step *)

\* Mutant: the bonus goes last.
VerifyInputBonusLast ==
    IF target.pending = NoToken THEN draftIds ELSE Append(draftIds, target.pending)

\* The ids of the VERIFY forward: the deferred bonus, if any, then the drafts.
VerifyInput ==
    IF target.pending = NoToken THEN draftIds ELSE <<target.pending>> \o draftIds

\* take_pending_bonus, verify_gamma, and the rows p_1 .. p_{gamma+1}: without
\* a bonus p_1 is the row the prefill left.
VerifyGamma ==
    LET bundled == target.pending # NoToken
        taken   == TakePendingBonus(target)
    IN  /\ pc = "verify"
        /\ Fits(target, Len(VerifyInput))
        /\ target' = Forward(taken, VerifyInput)
        /\ pAll' = [j \in 1 .. job.gamma + 1 |->
                       IF bundled THEN Row(taken, VerifyInput, j)
                       ELSE IF j = 1 THEN target.p1
                       ELSE Row(taken, VerifyInput, j - 1)]
        /\ rollbackBase' = target.pos + (IF bundled THEN 1 ELSE 0)
        /\ result' = [NoResult EXCEPT !.prefix = target.pos]
        /\ pc' = "accept"
        /\ UNCHANGED <<draft, runnerVars, error, job, nJobs, out, draftIds, qRows>>

\* The bonus is popped before verify_gamma validates: a raise loses it.
VerifyOverflow ==
    /\ pc = "verify"
    /\ ~Fits(target, Len(VerifyInput))
    /\ target' = TakePendingBonus(target)
    /\ Raise("verify")
    /\ UNCHANGED <<draft, runnerVars, job, nJobs, out, roundVars>>

\* Mutant: the last accepted draft is not tested.
AcceptsUntested(n) ==
    \A i \in 1 .. n - 1 : draftIds[i] \in Allowed(job.greedy, pAll[i])

\* The first n drafts pass the test of their rows; when greedy the next fails it.
\* A sampled draft may be refused although the target could have produced it.
Accepts(n) ==
    /\ \A i \in 1 .. n : draftIds[i] \in Allowed(job.greedy, pAll[i])
    /\ n < job.gamma /\ job.greedy => draftIds[n + 1] # Argmax(pAll[n + 1])

\* Accept n drafts, roll back the others, defer the bonus, extend the text.
AcceptDrafts(n, bonus) ==
    /\ pc = "accept"
    /\ Accepts(n)
    /\ bonus \in Allowed(job.greedy, pAll[n + 1])
    /\ target' = DeferBonusToken(RollbackCache(target, rollbackBase + n), bonus)
    /\ out' = out \o SubSeq(draftIds, 1, n) \o <<bonus>>
    /\ result' = [n |-> n, prefix |-> result.prefix,
                  newPrefix |-> rollbackBase + n + 1,
                  cacheAfter |-> rollbackBase + n]
    /\ pc' = "feedback"
    /\ UNCHANGED <<draft, runnerVars, error, job, nJobs, draftIds, qRows, pAll,
                   rollbackBase>>

-----------------------------------------------------------------------------
(* DraftRunner.apply_target_feedback, with the bonus the driver appended *)

Bonus == out[Len(out)]

\* Mutant: the rejected drafts stay.
DraftNotRolledBack == draft

RolledBackDraft == RollbackCache(draft, prefixLen + result.n)

ApplyTargetFeedback ==
    /\ pc = "feedback"
    /\ Bonus \in DraftVocab
    /\ Fits(RolledBackDraft, 1)
    /\ draft' = DecodeStep(RolledBackDraft, Bonus)
    /\ lastLogits' = Row(RolledBackDraft, <<Bonus>>, 1)
    /\ prefixLen' = prefixLen + result.n + 1
    /\ pc' = "round"
    /\ UNCHANGED <<target, error, job, nJobs, out, roundVars>>

\* The target sampled an id the draft has no embedding for.
FeedbackVocabError ==
    /\ pc = "feedback"
    /\ Bonus \notin DraftVocab
    /\ Raise("vocab")
    /\ UNCHANGED <<target, draft, runnerVars, job, nJobs, out, roundVars>>

FeedbackOverflow ==
    /\ pc = "feedback"
    /\ Bonus \in DraftVocab
    /\ ~Fits(RolledBackDraft, 1)
    /\ draft' = RolledBackDraft
    /\ Raise("feedback")
    /\ UNCHANGED <<target, runnerVars, job, nJobs, out, roundVars>>

-----------------------------------------------------------------------------
(* flush_pending_bonus, after the loop *)

\* Mutants: the loop stops a token short; it only stops on the exact count.
AfterShortLoop == pc = "round" /\ NumNew >= job.n - 1
AfterExactLoop == pc = "round" /\ NumNew = job.n

AfterLoop == pc = "round" /\ NumNew >= job.n

FlushPendingBonus ==
    /\ AfterLoop
    /\ target.pending # NoToken
    /\ Fits(target, 1)
    /\ target' = CommitPendingBonus(target)
    /\ pc' = "done"
    /\ UNCHANGED <<draft, runnerVars, error, job, nJobs, out, roundVars>>

\* Nothing was asked for, so no round ran and nothing is pending.
NothingToFlush ==
    /\ AfterLoop
    /\ target.pending = NoToken
    /\ pc' = "done"
    /\ UNCHANGED <<target, draft, runnerVars, error, job, nJobs, out, roundVars>>

FlushOverflow ==
    /\ AfterLoop
    /\ target.pending # NoToken
    /\ ~Fits(target, 1)
    /\ target' = TakePendingBonus(target)
    /\ Raise("flush")
    /\ UNCHANGED <<draft, runnerVars, job, nJobs, out, roundVars>>

-----------------------------------------------------------------------------
Begin(j) == StartJob(j) \/ TargetPrefillOverflow(j) \/ DraftPrefillOverflow(j)

Step ==
    \/ BeginRound
    \/ \E x \in DraftVocab : DraftDecode(x)
    \/ DraftDecodeOverflow
    \/ VerifyGamma
    \/ VerifyOverflow
    \/ \E n \in 0 .. job.gamma : \E b \in Token : AcceptDrafts(n, b)
    \/ ApplyTargetFeedback
    \/ FeedbackVocabError
    \/ FeedbackOverflow
    \/ FlushPendingBonus
    \/ NothingToFlush
    \/ FlushOverflow

Next == Step \/ \E j \in Jobs : Begin(j)

Spec == Init /\ [][Next]_vars

\* The driver is a sequential program: a call it can make it eventually makes.
FairSpec == Spec /\ WF_vars(Step)

-----------------------------------------------------------------------------
(* Properties *)

Running == pc \notin {"idle", "done", "raised"}

\* The text with the drafts of this round that the draft cache already holds.
Drafted == IF pc \in {"draft", "verify", "accept"} THEN out \o draftIds ELSE out

Rows == Seq(Seq(Token \cup {NoToken}))

\* Every variable has its type: the cursors stay inside the caches.
TypeOK ==
    /\ target \in Executors(TargetMax)
    /\ draft \in Executors(DraftMax)
    /\ lastLogits \in Seq(Token \cup {NoToken})
    /\ prefixLen \in Nat
    /\ pc \in {"idle", "round", "draft", "verify", "accept", "feedback",
               "done", "raised"}
    /\ error \in {"none", "target prefill", "draft prefill", "draft decode",
                  "verify", "vocab", "feedback", "flush"}
    /\ job \in Jobs
    /\ nJobs \in 0 .. MaxJobs
    /\ out \in Seq(Token)
    /\ draftIds \in Seq(DraftVocab)
    /\ qRows \in Rows /\ pAll \in Rows
    /\ rollbackBase \in Nat
    /\ result \in [n : Nat, prefix : Nat, newPrefix : Nat, cacheAfter : Nat]

\* Between rounds the draft has committed the whole text, the target all of it
\* but the deferred bonus, which is the text's last token: the two caches are
\* out of step by exactly the token apply_target_feedback just decoded.
CursorsAgree ==
    /\ target.dev = target.pos /\ draft.dev = draft.pos
    /\ pc = "round" => draft.pos = Len(out)
    /\ pc \in {"round", "draft", "verify"} =>
        /\ target.pos = Len(out) - (IF target.pending = NoToken THEN 0 ELSE 1)
        /\ target.pending # NoToken => target.pending = out[Len(out)]
    /\ pc = "done" => target.pos = Len(out) /\ target.pending = NoToken

\* No forward ever attends to a stale slot: while a request runs, whatever was
\* rejected, rolled back or left by earlier requests, the slots below either
\* cursor hold what a fresh prefill of the text would have put there.
CacheMatchesText ==
    Running \/ pc = "done" =>
        /\ Coherent(target, Drafted, target.pos)
        /\ pc # "feedback" => Coherent(draft, Drafted, draft.pos)
        /\ pc = "feedback" => Coherent(draft, out, prefixLen + result.n)

\* The acceptance test compares distributions after the same text: p_i and q_i
\* are both conditioned on the text and the first i - 1 drafts, for the row
\* prefill left, the bundled bonus row and the bonus row p_{gamma+1} alike.
RowsAligned ==
    pc = "accept" =>
        /\ Len(draftIds) = job.gamma
        /\ \A i \in 1 .. job.gamma + 1 :
            /\ pAll[i] = SubSeq(out \o draftIds, 1, Len(out) + i - 1)
            /\ qRows[i] = pAll[i]

\* Every token the caller gets is one the target could have produced after the
\* text before it; when greedy, the text is the target's own greedy sequence.
OutputSanctioned ==
    \A i \in PromptLen + 1 .. Len(out) :
        out[i] \in Allowed(job.greedy, SubSeq(out, 1, i - 1))

\* defer_bonus_token never finds a bonus pending, so its RuntimeError is dead.
DeferNeverRaises == pc = "accept" => target.pending = NoToken

\* What the target reports and what the draft derives from it agree: the logical
\* length is the text's, and the target's cursor is where the draft rolls back.
FeedbackAgrees ==
    pc = "feedback" =>
        /\ result.newPrefix = Len(out)
        /\ result.cacheAfter = target.pos
        /\ result.cacheAfter = prefixLen + result.n
        /\ prefixLen + result.n <= draft.pos

\* A request whose prompt, tokens and gamma together fit both caches never runs
\* out of slots, in any round, feedback or flush.
BudgetSuffices ==
    /\ PromptLen + job.n + job.gamma <= TargetMax
    /\ PromptLen + job.n + job.gamma <= DraftMax
    => error \in {"none", "vocab"}

\* A request that returns delivers exactly the tokens asked for, and leaves the
\* target ready to continue: its p_1 row follows the whole text.
ReturnsWhatWasAsked ==
    pc = "done" =>
        /\ Len(out) \in PromptLen + job.n .. PromptLen + job.n + job.gamma
        /\ target.p1 = out
        /\ error = "none"

-----------------------------------------------------------------------------
(* What the proofs need besides the properties above *)

\* The state of the text and of the loop.
LoopInv ==
    /\ Running =>
        /\ error = "none"
        /\ Len(out) \in PromptLen .. PromptLen + job.n + job.gamma
    /\ pc \in {"draft", "verify", "accept"} => NumNew < job.n

\* How far the drafting of a round has come, and the rows it collected.
DraftingInv ==
    pc \in {"draft", "verify", "accept"} =>
        /\ prefixLen = Len(out)
        /\ draft.pos = Len(out) + Len(draftIds)
        /\ IF pc = "draft" THEN Len(draftIds) < job.gamma
                           ELSE Len(draftIds) = job.gamma
        /\ Len(qRows) = Len(draftIds) + 1
        /\ \A i \in 1 .. Len(draftIds) + 1 :
               qRows[i] = SubSeq(out \o draftIds, 1, Len(out) + i - 1)

\* Where the cursors stand inside a round, and what the kept rows follow.
RoundInv ==
    /\ pc = "round" => lastLogits = out
    /\ pc \in {"round", "draft", "verify"} /\ target.pending = NoToken
           => target.p1 = out
    /\ pc = "accept" => /\ target.pos = Len(out) + job.gamma
                        /\ rollbackBase = Len(out)
    /\ pc = "feedback" => /\ target.pos = Len(out) - 1
                          /\ target.pending = out[Len(out)]

IInv ==
    /\ TypeOK
    /\ CursorsAgree
    /\ CacheMatchesText
    /\ RowsAligned
    /\ OutputSanctioned
    /\ DeferNeverRaises
    /\ FeedbackAgrees
    /\ BudgetSuffices
    /\ ReturnsWhatWasAsked
    /\ LoopInv
    /\ DraftingInv
    /\ RoundInv

-----------------------------------------------------------------------------
Abs == INSTANCE AbstractDecode
           WITH phase <- IF Running THEN "running" ELSE pc, text <- out

\* The driver implements AbstractDecode.
RefinesAbstract == Abs!Spec

\* Every request that starts returns or raises: each round emits a token.
EveryRequestEnds == Running ~> pc \in {"done", "raised"}
=============================================================================
