-------------------------- MODULE SpecDecode_proofs --------------------------
(***************************************************************************)
(* IInv of SpecDecode is inductive, so its conjuncts hold for every        *)
(* vocabulary, request, cache size and target, and the driver implements   *)
(* AbstractDecode.  One lemma per action of SpecDecode.                    *)
(***************************************************************************)
EXTENDS SpecDecode, KVExecutor_proofs

\* What the assumptions say of one request.
LEMMA JobFacts ==
    ASSUME NEW j \in Jobs
    PROVE  /\ j.prompt \in Seq(Token) /\ Len(j.prompt) \in Nat \ {0}
           /\ j.n \in Nat
           /\ j.gamma \in Nat /\ j.gamma >= 1
           /\ j.greedy \in BOOLEAN
<1>1. j \in [prompt : Seq(DraftVocab) \ {<<>>}, n : Nat,
             gamma : 1 .. MaxVerifyGamma, greedy : BOOLEAN]
  BY SpecDecodeAssumption
<1>2. j.prompt \in Seq(DraftVocab) /\ j.prompt # <<>>
  BY <1>1
<1>3. j.prompt \in Seq(Token) /\ Len(j.prompt) \in Nat \ {0}
  BY <1>2, SpecDecodeAssumption
<1>4. MaxVerifyGamma \in Nat
  BY DEF MaxVerifyGamma
<1>. QED
  BY <1>1, <1>3, <1>4

\* A draft is a token of the target's vocabulary.
LEMMA DraftIsToken == /\ DraftVocab \subseteq Token
                      /\ Seq(DraftVocab) \subseteq Seq(Token)
BY SpecDecodeAssumption

LEMMA MaxFacts == TargetMax \in Nat /\ DraftMax \in Nat /\ MaxJobs \in Nat
BY SpecDecodeAssumption

\* What TypeOK says of the parts the steps read.
LEMMA TypeFacts ==
    ASSUME TypeOK
    PROVE  /\ target \in Executors(TargetMax) /\ draft \in Executors(DraftMax)
           /\ target.pos \in Nat /\ target.pos <= TargetMax
           /\ draft.pos \in Nat /\ draft.pos <= DraftMax
           /\ target.pending \in Token \cup {NoToken}
           /\ target.p1 \in Slots /\ lastLogits \in Slots
           /\ out \in Seq(Token) /\ Len(out) \in Nat
           /\ draftIds \in Seq(Token) /\ Len(draftIds) \in Nat
           /\ out \o draftIds \in Seq(Token)
           /\ Len(out \o draftIds) = Len(out) + Len(draftIds)
           /\ PromptLen \in Nat \ {0} /\ job.n \in Nat
           /\ job.gamma \in Nat /\ job.gamma >= 1
           /\ prefixLen \in Nat /\ result.n \in Nat /\ rollbackBase \in Nat
<1>1. target \in Executors(TargetMax) /\ draft \in Executors(DraftMax)
  BY DEF TypeOK
<1>2. /\ target.pos \in Nat /\ target.pos <= TargetMax
      /\ draft.pos \in Nat /\ draft.pos <= DraftMax
      /\ target.pending \in Token \cup {NoToken}
      /\ target.p1 \in Slots
  BY <1>1, MaxFacts, ExecutorFields
<1>3. out \in Seq(Token) /\ Len(out) \in Nat
  <2>1. out \in Seq(Token)
    BY DEF TypeOK
  <2>. QED
    BY <2>1
<1>4. draftIds \in Seq(Token) /\ Len(draftIds) \in Nat
  <2>1. draftIds \in Seq(DraftVocab)
    BY DEF TypeOK
  <2>2. draftIds \in Seq(Token)
    BY <2>1, DraftIsToken
  <2>. QED
    BY <2>2
<1>5. /\ out \o draftIds \in Seq(Token)
      /\ Len(out \o draftIds) = Len(out) + Len(draftIds)
  BY <1>3, <1>4
<1>6. /\ PromptLen \in Nat \ {0} /\ job.n \in Nat
      /\ job.gamma \in Nat /\ job.gamma >= 1
  BY JobFacts DEF TypeOK, PromptLen
<1>7. /\ prefixLen \in Nat /\ result.n \in Nat /\ rollbackBase \in Nat
      /\ lastLogits \in Slots
  BY DEF TypeOK, Slots
<1>. QED
  BY <1>1, <1>2, <1>3, <1>4, <1>5, <1>6, <1>7

LEMMA InitInv == Init => IInv
<1>. SUFFICES ASSUME Init PROVE IInv
  OBVIOUS
<1>1. /\ target \in Executors(TargetMax) /\ target.dev = target.pos
      /\ draft \in Executors(DraftMax) /\ draft.dev = draft.pos
  BY NewExecutorType, MaxFacts DEF Init
<1>2. pc = "idle" /\ error = "none" /\ job \in Jobs /\ out = job.prompt
  BY DEF Init
<1>3. out \in Seq(Token)
  BY <1>2, JobFacts
<1>4. TypeOK
  <2>1. /\ lastLogits \in Seq(Token \cup {NoToken})
        /\ draftIds \in Seq(DraftVocab)
        /\ qRows \in Rows /\ pAll \in Rows
    BY DEF Init, NoRow, Rows
  <2>2. /\ prefixLen \in Nat /\ nJobs \in 0 .. MaxJobs /\ rollbackBase \in Nat
        /\ result \in [n : Nat, prefix : Nat, newPrefix : Nat, cacheAfter : Nat]
    BY MaxFacts DEF Init, NoResult
  <2>. QED
    BY <1>1, <1>2, <1>3, <2>1, <2>2 DEF TypeOK
<1>5. OutputSanctioned
  BY <1>2, <1>3, JobFacts DEF OutputSanctioned, PromptLen
<1>. QED
  BY <1>1, <1>2, <1>4, <1>5
  DEF IInv, CursorsAgree, CacheMatchesText, RowsAligned, DeferNeverRaises,
      FeedbackAgrees, BudgetSuffices, ReturnsWhatWasAsked, LoopInv,
      DraftingInv, RoundInv, Running

-----------------------------------------------------------------------------
(* A new request *)

\* What every call starts with.
LEMMA NewCallFacts ==
    ASSUME TypeOK, Idle, NEW j \in Jobs, NewCall(j)
    PROVE  /\ job' = j /\ nJobs' \in 0 .. MaxJobs
           /\ out' = j.prompt /\ out' \in Seq(Token)
           /\ draftIds' \in Seq(DraftVocab)
           /\ qRows' \in Rows /\ pAll' \in Rows
           /\ rollbackBase' \in Nat
           /\ result' \in [n : Nat, prefix : Nat, newPrefix : Nat, cacheAfter : Nat]
           /\ OutputSanctioned'
<1>1. job' = j /\ out' = j.prompt /\ nJobs' \in 0 .. MaxJobs
  <2>1. nJobs \in 0 .. MaxJobs /\ nJobs < MaxJobs
    BY DEF Idle, TypeOK
  <2>. QED
    BY <2>1, MaxFacts DEF NewCall
<1>2. out' \in Seq(Token)
  BY <1>1, JobFacts
<1>3. /\ draftIds' \in Seq(DraftVocab)
      /\ qRows' \in Rows /\ pAll' \in Rows
      /\ rollbackBase' \in Nat
      /\ result' \in [n : Nat, prefix : Nat, newPrefix : Nat, cacheAfter : Nat]
  BY DEF NewCall, NoResult, Rows
<1>4. OutputSanctioned'
  BY <1>1, <1>2 DEF OutputSanctioned, PromptLen
<1>. QED
  BY <1>1, <1>2, <1>3, <1>4

LEMMA StartJobInv ==
    ASSUME IInv, NEW j \in Jobs, StartJob(j)
    PROVE  IInv'
<1> USE DEF StartJob
<1>1. TypeOK /\ Idle /\ NewCall(j)
  BY DEF IInv
<1>2. /\ job' = j /\ nJobs' \in 0 .. MaxJobs
      /\ out' = j.prompt /\ out' \in Seq(Token)
      /\ draftIds' \in Seq(DraftVocab)
      /\ qRows' \in Rows /\ pAll' \in Rows
      /\ rollbackBase' \in Nat
      /\ result' \in [n : Nat, prefix : Nat, newPrefix : Nat, cacheAfter : Nat]
      /\ OutputSanctioned'
  BY <1>1, NewCallFacts
<1>3. /\ j.prompt \in Seq(Token) /\ Len(j.prompt) \in Nat \ {0}
      /\ j.n \in Nat /\ j.gamma \in Nat
  BY JobFacts
<1>4. target \in Executors(TargetMax) /\ draft \in Executors(DraftMax)
  BY <1>1 DEF TypeOK
<1>5. /\ target' \in Executors(TargetMax)
      /\ target'.pos = Len(out') /\ target'.dev = Len(out')
      /\ target'.pending = NoToken
      /\ target'.p1 = out'
      /\ Coherent(target', out', Len(out'))
  BY <1>2, <1>3, <1>4, MaxFacts, PrefillCoherent, SMTT(30)
<1>6. /\ draft' \in Executors(DraftMax)
      /\ draft'.pos = Len(out') /\ draft'.dev = Len(out')
      /\ Coherent(draft', out', Len(out'))
      /\ lastLogits' = out'
  BY <1>2, <1>3, <1>4, MaxFacts, PrefillCoherent, SMTT(30)
<1>7. pc' = "round" /\ error' = "none" /\ prefixLen' = Len(out')
  BY <1>2
<1>8. TypeOK'
  <2>1. lastLogits' \in Seq(Token \cup {NoToken})
    BY <1>2, <1>6, WidenSeq DEF Slots
  <2>. QED
    BY <1>2, <1>3, <1>5, <1>6, <1>7, <2>1 DEF TypeOK
<1>9. CursorsAgree'
  BY <1>2, <1>3, <1>5, <1>6, <1>7 DEF CursorsAgree
<1>10. CacheMatchesText'
  BY <1>2, <1>3, <1>5, <1>6, <1>7 DEF CacheMatchesText, Running, Drafted
<1>11. LoopInv'
  BY <1>2, <1>3, <1>7, SMTT(30) DEF LoopInv, Running, PromptLen
<1>12. RoundInv'
  BY <1>5, <1>6, <1>7 DEF RoundInv
<1>. QED
  BY <1>2, <1>7, <1>8, <1>9, <1>10, <1>11, <1>12
  DEF IInv, RowsAligned, DeferNeverRaises, FeedbackAgrees, BudgetSuffices,
      ReturnsWhatWasAsked, DraftingInv

\* A prompt too long for a cache: the call raises after the reset.
LEMMA TargetPrefillOverflowInv ==
    ASSUME IInv, NEW j \in Jobs, TargetPrefillOverflow(j)
    PROVE  IInv'
<1>1. TypeOK /\ CursorsAgree /\ Idle /\ NewCall(j)
  BY DEF IInv, TargetPrefillOverflow
<1>2. /\ job' = j /\ nJobs' \in 0 .. MaxJobs
      /\ out' = j.prompt /\ out' \in Seq(Token)
      /\ draftIds' \in Seq(DraftVocab)
      /\ qRows' \in Rows /\ pAll' \in Rows
      /\ rollbackBase' \in Nat
      /\ result' \in [n : Nat, prefix : Nat, newPrefix : Nat, cacheAfter : Nat]
      /\ OutputSanctioned'
  BY <1>1, NewCallFacts
<1>3. target' \in Executors(TargetMax) /\ target'.dev = target'.pos
  <2>1. target \in Executors(TargetMax)
    BY <1>1 DEF TypeOK
  <2>2. target' = NewExecutor(TargetMax)
    BY <2>1, MaxFacts, ResetType DEF TargetPrefillOverflow
  <2>. QED
    BY <2>2, MaxFacts, NewExecutorType
<1>4. pc' = "raised" /\ error' = "target prefill"
  BY DEF TargetPrefillOverflow
<1>5. draft' = draft /\ lastLogits' = lastLogits /\ prefixLen' = prefixLen
  BY DEF runnerVars, TargetPrefillOverflow
<1>6. TypeOK'
  BY <1>1, <1>2, <1>3, <1>4, <1>5 DEF TypeOK
<1>7. CursorsAgree'
  BY <1>1, <1>3, <1>4, <1>5 DEF CursorsAgree
<1>8. BudgetSuffices'
  <2>0. /\ Len(j.prompt) \in Nat /\ j.n \in Nat /\ j.gamma \in Nat
        /\ Len(j.prompt) > TargetMax
    BY JobFacts DEF TargetPrefillOverflow
  <2>1. ~ Len(j.prompt) + j.n + j.gamma <= TargetMax
    BY <2>0, MaxFacts
  <2>. QED
    BY <2>1, <1>2, Zenon DEF BudgetSuffices, PromptLen
<1>. QED
  BY <1>2, <1>4, <1>6, <1>7, <1>8
  DEF IInv, CacheMatchesText, RowsAligned, DeferNeverRaises, FeedbackAgrees,
      ReturnsWhatWasAsked, LoopInv, DraftingInv, RoundInv, Running

LEMMA DraftPrefillOverflowInv ==
    ASSUME IInv, NEW j \in Jobs, DraftPrefillOverflow(j)
    PROVE  IInv'
<1>1. TypeOK /\ CursorsAgree /\ Idle /\ NewCall(j)
  BY DEF IInv, DraftPrefillOverflow
<1>2. /\ job' = j /\ nJobs' \in 0 .. MaxJobs
      /\ out' = j.prompt /\ out' \in Seq(Token)
      /\ draftIds' \in Seq(DraftVocab)
      /\ qRows' \in Rows /\ pAll' \in Rows
      /\ rollbackBase' \in Nat
      /\ result' \in [n : Nat, prefix : Nat, newPrefix : Nat, cacheAfter : Nat]
      /\ OutputSanctioned'
  BY <1>1, NewCallFacts
<1>3. target \in Executors(TargetMax) /\ draft \in Executors(DraftMax)
  BY <1>1 DEF TypeOK
<1>4. draft' \in Executors(DraftMax) /\ draft'.dev = draft'.pos
  <2>1. draft' = NewExecutor(DraftMax)
    BY <1>3, MaxFacts, ResetType DEF DraftPrefillOverflow
  <2>. QED
    BY <2>1, MaxFacts, NewExecutorType
<1>5. target' \in Executors(TargetMax) /\ target'.dev = target'.pos
  <2>1. j.prompt \in Seq(Token) /\ Len(j.prompt) <= TargetMax
    BY JobFacts DEF DraftPrefillOverflow
  <2>2. target' = Prefill(target, j.prompt)
    BY DEF DraftPrefillOverflow
  <2>. QED
    BY <1>3, <2>1, <2>2, MaxFacts, PrefillCoherent
<1>6. pc' = "raised" /\ error' = "draft prefill"
  BY DEF DraftPrefillOverflow
<1>7. lastLogits' = lastLogits /\ prefixLen' = prefixLen
  BY DEF runnerVars, DraftPrefillOverflow
<1>8. TypeOK'
  BY <1>1, <1>2, <1>4, <1>5, <1>6, <1>7 DEF TypeOK
<1>9. CursorsAgree'
  BY <1>4, <1>5, <1>6 DEF CursorsAgree
<1>10. BudgetSuffices'
  <2>0. /\ Len(j.prompt) \in Nat /\ j.n \in Nat /\ j.gamma \in Nat
        /\ Len(j.prompt) > DraftMax
    BY JobFacts DEF DraftPrefillOverflow
  <2>1. ~ Len(j.prompt) + j.n + j.gamma <= DraftMax
    BY <2>0, MaxFacts
  <2>. QED
    BY <2>1, <1>2, Zenon DEF BudgetSuffices, PromptLen
<1>. QED
  BY <1>2, <1>6, <1>8, <1>9, <1>10
  DEF IInv, CacheMatchesText, RowsAligned, DeferNeverRaises, FeedbackAgrees,
      ReturnsWhatWasAsked, LoopInv, DraftingInv, RoundInv, Running

-----------------------------------------------------------------------------
(* Drafting *)

LEMMA BeginRoundInv ==
    ASSUME IInv, BeginRound
    PROVE  IInv'
<1>1. /\ pc = "round" /\ pc' = "draft" /\ draftIds' = <<>>
      /\ qRows' = <<lastLogits>> /\ prefixLen' = draft.pos
      /\ target' = target /\ draft' = draft /\ lastLogits' = lastLogits
      /\ error' = error /\ job' = job /\ nJobs' = nJobs /\ out' = out
      /\ pAll' = pAll /\ rollbackBase' = rollbackBase /\ result' = result
  BY DEF BeginRound
<1>2. TypeOK /\ CursorsAgree /\ CacheMatchesText /\ OutputSanctioned
      /\ BudgetSuffices /\ LoopInv /\ RoundInv
  BY DEF IInv
<1>3. out \in Seq(Token) /\ lastLogits = out /\ draft.pos = Len(out)
  BY <1>1, <1>2 DEF TypeOK, CursorsAgree, RoundInv
<1>4. out \o <<>> = out /\ SubSeq(out, 1, Len(out)) = out
  BY <1>3
<1>5. job.gamma \in Nat /\ job.gamma >= 1
  BY <1>2, JobFacts DEF TypeOK
<1>6. TypeOK'
  <2>1. prefixLen' \in Nat
    BY <1>1, <1>3
  <2>2. lastLogits \in Slots
    BY <1>2 DEF TypeOK, Slots
  <2>3. draftIds' \in Seq(DraftVocab) /\ qRows' \in Seq(Slots)
    BY <1>1, <2>2
  <2>. QED
    BY <1>1, <1>2, <2>1, <2>3 DEF TypeOK, Rows, Slots
<1>7. CacheMatchesText'
  BY <1>1, <1>2, <1>4 DEF CacheMatchesText, Running, Drafted
<1>8. OutputSanctioned' /\ BudgetSuffices'
  BY <1>1, <1>2 DEF OutputSanctioned, BudgetSuffices, PromptLen
<1>9. LoopInv'
  <2>1. PromptLen' = PromptLen /\ NumNew' = NumNew
    BY <1>1 DEF PromptLen, NumNew
  <2>2. NumNew < job.n
    BY DEF BeginRound
  <2>. QED
    BY <1>1, <1>2, <2>1, <2>2, Zenon DEF LoopInv, Running
<1>10. DraftingInv'
  BY <1>1, <1>3, <1>4, <1>5 DEF DraftingInv
<1>11. CursorsAgree' /\ RoundInv'
  BY <1>1, <1>2 DEF RoundInv, CursorsAgree
<1>. QED
  BY <1>1, <1>6, <1>7, <1>8, <1>9, <1>10, <1>11
  DEF IInv, RowsAligned, DeferNeverRaises, FeedbackAgrees, ReturnsWhatWasAsked

\* A drafted token continues the text in the draft's cache, and adds its row.
LEMMA DraftDecodeInv ==
    ASSUME IInv, NEW x \in DraftVocab, DraftDecode(x)
    PROVE  IInv'
<1> DEFINE T == out \o draftIds
           N == out \o Append(draftIds, x)
<1>1. /\ pc = "draft" /\ Fits(draft, 1)
      /\ draft' = Forward(draft, <<x>>)
      /\ draftIds' = Append(draftIds, x)
      /\ qRows' = Append(qRows, Row(draft, <<x>>, 1))
      /\ pc' = IF Len(draftIds) + 1 = job.gamma THEN "verify" ELSE "draft"
      /\ target' = target /\ lastLogits' = lastLogits /\ prefixLen' = prefixLen
      /\ error' = error /\ job' = job /\ nJobs' = nJobs /\ out' = out
      /\ pAll' = pAll /\ rollbackBase' = rollbackBase /\ result' = result
  BY DEF DraftDecode, DecodeStep, runnerVars
<1>2. TypeOK /\ CursorsAgree /\ CacheMatchesText /\ OutputSanctioned
      /\ BudgetSuffices /\ LoopInv /\ DraftingInv /\ RoundInv
  BY DEF IInv
<1>3. /\ draft \in Executors(DraftMax) /\ draft.pos \in Nat /\ target.pos \in Nat
      /\ out \in Seq(Token) /\ Len(out) \in Nat
      /\ draftIds \in Seq(Token) /\ Len(draftIds) \in Nat
      /\ T \in Seq(Token) /\ Len(T) = Len(out) + Len(draftIds)
      /\ job.gamma \in Nat /\ PromptLen \in Nat /\ job.n \in Nat
  BY <1>2, TypeFacts
<1>4. /\ prefixLen = Len(out)
      /\ draft.pos = Len(out) + Len(draftIds)
      /\ Len(draftIds) < job.gamma
      /\ Len(qRows) = Len(draftIds) + 1
      /\ \A i \in 1 .. Len(draftIds) + 1 : qRows[i] = SubSeq(T, 1, Len(out) + i - 1)
  BY <1>1, <1>2 DEF DraftingInv
<1>5. /\ draft.dev = draft.pos
      /\ Coherent(draft, T, draft.pos)
      /\ Coherent(target, T, target.pos)
      /\ target.pos <= Len(out)
  <2>1. Drafted = T
    BY <1>1 DEF Drafted
  <2>2. Coherent(draft, T, draft.pos) /\ Coherent(target, T, target.pos)
    BY <1>1, <1>2, <2>1, Zenon DEF CacheMatchesText, Running
  <2>. QED
    BY <1>1, <1>2, <1>3, <2>2 DEF CursorsAgree
<1>6. /\ x \in Token /\ <<x>> \in Seq(Token) /\ Len(<<x>>) = 1 /\ <<x>>[1] = x
      /\ Append(draftIds, x) \in Seq(Token)
      /\ Len(Append(draftIds, x)) = Len(draftIds) + 1
  BY <1>3, DraftIsToken
<1>7. /\ N \in Seq(Token) /\ Len(N) = draft.pos + 1
      /\ \A i \in 1 .. draft.pos : T[i] = N[i]
      /\ N[draft.pos + 1] = x
  BY <1>3, <1>4, <1>6
<1> HIDE DEF T, N
<1>8. Coherent(draft, N, draft.pos) /\ Coherent(target, N, target.pos)
  <2>0. draft.pos <= Len(T) /\ draft.pos <= Len(N)
    BY <1>3, <1>4, <1>7
  <2>1. Coherent(draft, N, draft.pos)
    BY <1>3, <1>5, <1>7, <2>0, CoherentAgree
  <2>2. target.pos <= Len(T) /\ target.pos <= Len(N)
        /\ \A i \in 1 .. target.pos : T[i] = N[i]
    BY <1>3, <1>4, <1>5, <1>7
  <2>. QED
    BY <1>3, <1>5, <1>7, <2>1, <2>2, CoherentAgree
<1>9. /\ Forward(draft, <<x>>) \in Executors(DraftMax)
      /\ Forward(draft, <<x>>).pos = draft.pos + 1
      /\ Forward(draft, <<x>>).dev = draft.pos + 1
      /\ Coherent(Forward(draft, <<x>>), N, draft.pos + 1)
      /\ Row(draft, <<x>>, 1) = N /\ N \in Slots
  BY <1>1, <1>3, <1>5, <1>6, <1>7, <1>8, MaxFacts, DecodeCoherent, SMTT(30)
<1>10. draftIds' \in Seq(DraftVocab)
  <2>1. draftIds \in Seq(DraftVocab)
    BY <1>2 DEF TypeOK
  <2>. QED
    BY <1>1, <2>1
<1>11. /\ draft' \in Executors(DraftMax)
       /\ draft'.pos = draft.pos + 1 /\ draft'.dev = draft.pos + 1
       /\ Coherent(draft', N, draft.pos + 1)
  BY <1>1, <1>9
<1>12. /\ qRows \in Seq(Slots) /\ qRows' \in Seq(Slots)
       /\ qRows' = Append(qRows, N)
  <2>1. qRows \in Seq(Slots)
    BY <1>2 DEF TypeOK, Rows, Slots
  <2>2. qRows' = Append(qRows, N)
    BY <1>1, <1>9
  <2>. QED
    BY <1>9, <2>1, <2>2
<1>13. TypeOK'
  BY <1>1, <1>2, <1>10, <1>11, <1>12 DEF TypeOK, Rows, Slots
<1>14. /\ pc' \in {"draft", "verify"}
       /\ pc' = "draft" => Len(draftIds) + 1 < job.gamma
       /\ pc' = "verify" => Len(draftIds) + 1 = job.gamma
  BY <1>1, <1>3, <1>4
<1>15. CursorsAgree'
  BY <1>1, <1>2, <1>11, <1>14 DEF CursorsAgree
<1>16. CacheMatchesText'
  <2>1. Drafted' = N
    BY <1>1, <1>14 DEF Drafted, N
  <2>. QED
    BY <1>1, <1>8, <1>11, <1>14, <2>1, Zenon DEF CacheMatchesText
<1>17. OutputSanctioned' /\ BudgetSuffices'
  BY <1>1, <1>2 DEF OutputSanctioned, BudgetSuffices, PromptLen
<1>18. LoopInv'
  <2>1. PromptLen' = PromptLen /\ NumNew' = NumNew
    BY <1>1 DEF PromptLen, NumNew
  <2>. QED
    BY <1>1, <1>2, <1>14, <2>1, Zenon DEF LoopInv, Running
<1>19. DraftingInv'
  <2>1. Len(draftIds') = Len(draftIds) + 1 /\ Len(qRows') = Len(draftIds) + 2
    BY <1>1, <1>3, <1>4, <1>6, <1>12
  <2>2. ASSUME NEW i \in 1 .. Len(draftIds) + 2
        PROVE  qRows'[i] = SubSeq(N, 1, Len(out) + i - 1)
    <3>2. CASE i = Len(draftIds) + 2
      <4>1. qRows'[i] = N
        BY <1>3, <1>4, <1>12, <3>2
      <4>2. Len(out) + i - 1 = draft.pos + 1
        BY <1>3, <1>4, <3>2
      <4>3. SubSeq(N, 1, draft.pos + 1) = N
        BY <1>3, <1>7
      <4>. QED
        BY <4>1, <4>2, <4>3
    <3>3. CASE i \in 1 .. Len(draftIds) + 1
      <4>1. qRows'[i] = SubSeq(T, 1, Len(out) + i - 1)
        BY <1>3, <1>4, <1>12, <3>3
      <4>2. Len(out) + i - 1 \in Nat /\ Len(out) + i - 1 <= draft.pos
        BY <1>3, <1>4, <3>3
      <4>3. \A k \in 1 .. Len(out) + i - 1 : T[k] = N[k]
        BY <1>3, <1>7, <4>2
      <4>4. Len(out) + i - 1 <= Len(T) /\ Len(out) + i - 1 <= Len(N)
        BY <1>3, <1>4, <1>7, <4>2
      <4>. QED
        BY <1>3, <1>7, <4>1, <4>2, <4>3, <4>4, SamePrefix
    <3>. QED
      BY <1>3, <3>2, <3>3
  <2>3. out' \o draftIds' = N
    BY <1>1 DEF N
  <2>4. (Len(draftIds) + 1) + 1 = Len(draftIds) + 2
        /\ Len(out) + (Len(draftIds) + 1) = draft.pos + 1
    BY <1>3, <1>4
  <2>. QED
    BY <1>1, <1>4, <1>11, <1>14, <2>1, <2>2, <2>3, <2>4 DEF DraftingInv
<1>20. RoundInv'
  BY <1>1, <1>2, <1>14 DEF RoundInv
<1>. QED
  BY <1>13, <1>14, <1>15, <1>16, <1>17, <1>18, <1>19, <1>20
  DEF IInv, RowsAligned, DeferNeverRaises, FeedbackAgrees, ReturnsWhatWasAsked

-----------------------------------------------------------------------------
(* Raising.  The text stays; only the executor whose call raised may move. *)

LEMMA RaiseInv ==
    ASSUME IInv, TypeOK', BudgetSuffices',
           target'.dev = target'.pos, draft'.dev = draft'.pos,
           pc' = "raised", job' = job, out' = out
    PROVE  IInv'
<1>1. OutputSanctioned
  BY DEF IInv
<1>2. OutputSanctioned'
  BY <1>1 DEF OutputSanctioned, PromptLen
<1>3. CursorsAgree'
  BY DEF CursorsAgree
<1>. QED
  BY <1>2, <1>3
  DEF IInv, CacheMatchesText, RowsAligned, DeferNeverRaises, FeedbackAgrees,
      ReturnsWhatWasAsked, LoopInv, DraftingInv, RoundInv, Running

LEMMA DraftDecodeOverflowInv ==
    ASSUME IInv, DraftDecodeOverflow
    PROVE  IInv'
<1>1. /\ pc = "draft" /\ ~Fits(draft, 1)
      /\ pc' = "raised" /\ error' = "draft decode"
      /\ target' = target /\ draft' = draft
      /\ lastLogits' = lastLogits /\ prefixLen' = prefixLen
      /\ job' = job /\ nJobs' = nJobs /\ out' = out
      /\ draftIds' = draftIds /\ qRows' = qRows /\ pAll' = pAll
      /\ rollbackBase' = rollbackBase /\ result' = result
  BY DEF DraftDecodeOverflow, Raise, runnerVars, roundVars
<1>2. TypeOK /\ CursorsAgree /\ LoopInv /\ DraftingInv
  BY DEF IInv
<1>3. TypeOK'
  BY <1>1, <1>2 DEF TypeOK
<1>4. target'.dev = target'.pos /\ draft'.dev = draft'.pos
  BY <1>1, <1>2 DEF CursorsAgree
<1>5. BudgetSuffices'
  <2>1. /\ draft.pos = Len(out) + Len(draftIds) /\ Len(draftIds) < job.gamma
        /\ Len(out) - PromptLen < job.n
    BY <1>1, <1>2 DEF LoopInv, DraftingInv, NumNew
  <2>2. /\ draft.pos \in Nat /\ draft.max = DraftMax
        /\ Len(out) \in Nat /\ Len(draftIds) \in Nat
        /\ job.n \in Nat /\ job.gamma \in Nat /\ PromptLen \in Nat
    BY <1>2, TypeFacts, MaxFacts, ExecutorFields
  <2>3. ~ draft.pos + 1 <= DraftMax
    BY <1>1, <2>2 DEF Fits
  <2>4. ~ PromptLen + job.n + job.gamma <= DraftMax
    BY <2>1, <2>2, <2>3, MaxFacts
  <2>. QED
    BY <1>1, <2>4, Zenon DEF BudgetSuffices, PromptLen
<1>. QED
  BY <1>1, <1>3, <1>4, <1>5, RaiseInv

LEMMA VerifyOverflowInv ==
    ASSUME IInv, VerifyOverflow
    PROVE  IInv'
<1>1. /\ pc = "verify" /\ ~Fits(target, Len(VerifyInput))
      /\ pc' = "raised" /\ error' = "verify"
      /\ target' = TakePendingBonus(target) /\ draft' = draft
      /\ lastLogits' = lastLogits /\ prefixLen' = prefixLen
      /\ job' = job /\ nJobs' = nJobs /\ out' = out
      /\ draftIds' = draftIds /\ qRows' = qRows /\ pAll' = pAll
      /\ rollbackBase' = rollbackBase /\ result' = result
  BY DEF VerifyOverflow, Raise, runnerVars, roundVars
<1>2. TypeOK /\ CursorsAgree /\ LoopInv /\ DraftingInv
  BY DEF IInv
<1>3. /\ target.pos \in Nat /\ target.max = TargetMax
      /\ target \in Executors(TargetMax)
      /\ Len(out) \in Nat /\ Len(draftIds) \in Nat
      /\ draftIds \in Seq(Token)
      /\ target.pending \in Token \cup {NoToken}
      /\ job.n \in Nat /\ job.gamma \in Nat /\ PromptLen \in Nat
  BY <1>2, TypeFacts, MaxFacts, ExecutorFields
<1>4. target' \in Executors(TargetMax) /\ target'.dev = target.dev
      /\ target'.pos = target.pos
  BY <1>1, <1>3, MaxFacts, BonusOnly, TakeIsDeferNone
<1>5. TypeOK'
  BY <1>1, <1>2, <1>4 DEF TypeOK
<1>6. target'.dev = target'.pos /\ draft'.dev = draft'.pos
  BY <1>1, <1>2, <1>4 DEF CursorsAgree
<1>7. BudgetSuffices'
  <2>1. /\ Len(draftIds) = job.gamma
        /\ Len(out) - PromptLen < job.n
        /\ target.pos = Len(out) - (IF target.pending = NoToken THEN 0 ELSE 1)
    BY <1>1, <1>2 DEF LoopInv, DraftingInv, CursorsAgree, NumNew
  <2>2. target.pos + Len(VerifyInput) = Len(out) + job.gamma
    <3>1. CASE target.pending = NoToken
      BY <1>3, <2>1, <3>1 DEF VerifyInput
    <3>2. CASE target.pending # NoToken
      <4>1. <<target.pending>> \in Seq(Token) /\ Len(<<target.pending>>) = 1
        BY <1>3, <3>2
      <4>2. Len(VerifyInput) = 1 + Len(draftIds)
        BY <1>3, <3>2, <4>1 DEF VerifyInput
      <4>. QED
        BY <1>3, <2>1, <3>2, <4>2
    <3>. QED
      BY <3>1, <3>2
  <2>3. ~ Len(out) + job.gamma <= TargetMax
    BY <1>1, <1>3, <2>2 DEF Fits
  <2>4. ~ PromptLen + job.n + job.gamma <= TargetMax
    BY <1>3, <2>1, <2>3, MaxFacts
  <2>. QED
    BY <1>1, <2>4, Zenon DEF BudgetSuffices, PromptLen
<1>. QED
  BY <1>1, <1>5, <1>6, <1>7, RaiseInv

LEMMA FeedbackVocabErrorInv ==
    ASSUME IInv, FeedbackVocabError
    PROVE  IInv'
<1>1. /\ pc = "feedback" /\ pc' = "raised" /\ error' = "vocab"
      /\ target' = target /\ draft' = draft
      /\ lastLogits' = lastLogits /\ prefixLen' = prefixLen
      /\ job' = job /\ nJobs' = nJobs /\ out' = out
      /\ draftIds' = draftIds /\ qRows' = qRows /\ pAll' = pAll
      /\ rollbackBase' = rollbackBase /\ result' = result
  BY DEF FeedbackVocabError, Raise, runnerVars, roundVars
<1>2. TypeOK /\ CursorsAgree
  BY DEF IInv
<1>3. TypeOK'
  BY <1>1, <1>2 DEF TypeOK
<1>4. target'.dev = target'.pos /\ draft'.dev = draft'.pos
  BY <1>1, <1>2 DEF CursorsAgree
<1>5. BudgetSuffices'
  BY <1>1 DEF BudgetSuffices
<1>. QED
  BY <1>1, <1>3, <1>4, <1>5, RaiseInv

\* What rolling the draft back leaves: the text without its last token.
LEMMA RolledBackFacts ==
    ASSUME IInv, pc = "feedback"
    PROVE  /\ RolledBackDraft \in Executors(DraftMax)
           /\ RolledBackDraft.pos = Len(out) - 1
           /\ RolledBackDraft.dev = Len(out) - 1
           /\ Coherent(RolledBackDraft, out, Len(out) - 1)
           /\ Len(out) \in Nat \ {0}
           /\ prefixLen + result.n = Len(out) - 1
<1>1. TypeOK /\ CacheMatchesText /\ FeedbackAgrees /\ RoundInv
  BY DEF IInv
<1>2. /\ draft \in Executors(DraftMax) /\ draft.pos \in Nat
      /\ draft.pos <= DraftMax /\ target.pos \in Nat
      /\ out \in Seq(Token) /\ Len(out) \in Nat
      /\ prefixLen \in Nat /\ result.n \in Nat
  BY <1>1, TypeFacts
<1>3. /\ prefixLen + result.n = target.pos
      /\ prefixLen + result.n <= draft.pos
      /\ target.pos = Len(out) - 1
      /\ Coherent(draft, out, prefixLen + result.n)
  BY <1>1 DEF FeedbackAgrees, RoundInv, CacheMatchesText, Running
<1>4. Len(out) \in Nat \ {0} /\ prefixLen + result.n = Len(out) - 1
      /\ prefixLen + result.n \in 0 .. DraftMax
  BY <1>2, <1>3, MaxFacts
<1>5. /\ RolledBackDraft \in Executors(DraftMax)
      /\ RolledBackDraft.pos = Len(out) - 1
      /\ RolledBackDraft.dev = Len(out) - 1
      /\ RolledBackDraft.kv = draft.kv
  <2> DEFINE m == prefixLen + result.n
  <2>1. m \in 0 .. DraftMax /\ m = Len(out) - 1
    BY <1>4
  <2> HIDE DEF m
  <2>2. /\ RollbackCache(draft, m) \in Executors(DraftMax)
        /\ RollbackCache(draft, m).pos = m
        /\ RollbackCache(draft, m).dev = m
        /\ RollbackCache(draft, m).kv = draft.kv
    BY <1>2, <2>1, MaxFacts, RollbackOnly, ZenonT(30)
  <2>. QED
    BY <2>1, <2>2 DEF RolledBackDraft, m
<1>6. Coherent(RolledBackDraft, out, Len(out) - 1)
  BY <1>3, <1>4, <1>5 DEF Coherent
<1>. QED
  BY <1>4, <1>5, <1>6

LEMMA FeedbackOverflowInv ==
    ASSUME IInv, FeedbackOverflow
    PROVE  IInv'
<1>1. /\ pc = "feedback" /\ ~Fits(RolledBackDraft, 1)
      /\ pc' = "raised" /\ error' = "feedback"
      /\ target' = target /\ draft' = RolledBackDraft
      /\ lastLogits' = lastLogits /\ prefixLen' = prefixLen
      /\ job' = job /\ nJobs' = nJobs /\ out' = out
      /\ draftIds' = draftIds /\ qRows' = qRows /\ pAll' = pAll
      /\ rollbackBase' = rollbackBase /\ result' = result
  BY DEF FeedbackOverflow, Raise, runnerVars, roundVars
<1>2. TypeOK /\ CursorsAgree /\ LoopInv
  BY DEF IInv
<1>3. /\ RolledBackDraft \in Executors(DraftMax)
      /\ RolledBackDraft.pos = Len(out) - 1
      /\ RolledBackDraft.dev = Len(out) - 1
      /\ Len(out) \in Nat \ {0}
  BY <1>1, RolledBackFacts
<1>4. TypeOK'
  BY <1>1, <1>2, <1>3 DEF TypeOK
<1>5. target'.dev = target'.pos /\ draft'.dev = draft'.pos
  BY <1>1, <1>2, <1>3 DEF CursorsAgree
<1>6. BudgetSuffices'
  <2>1. Len(out) \in PromptLen .. PromptLen + job.n + job.gamma
    BY <1>1, <1>2 DEF LoopInv, Running
  <2>2. job.n \in Nat /\ job.gamma \in Nat /\ PromptLen \in Nat
    BY <1>2, TypeFacts
  <2>3. RolledBackDraft.max = DraftMax
    BY <1>3, MaxFacts, ExecutorFields
  <2>4. ~ (Len(out) - 1) + 1 <= DraftMax
    BY <1>1, <1>3, <2>3 DEF Fits
  <2>5. ~ PromptLen + job.n + job.gamma <= DraftMax
    BY <1>3, <2>1, <2>2, <2>4, MaxFacts
  <2>. QED
    BY <1>1, <2>5, Zenon DEF BudgetSuffices, PromptLen
<1>. QED
  BY <1>1, <1>4, <1>5, <1>6, RaiseInv

LEMMA FlushOverflowInv ==
    ASSUME IInv, FlushOverflow
    PROVE  IInv'
<1>1. /\ pc = "round" /\ target.pending # NoToken /\ ~Fits(target, 1)
      /\ pc' = "raised" /\ error' = "flush"
      /\ target' = TakePendingBonus(target) /\ draft' = draft
      /\ lastLogits' = lastLogits /\ prefixLen' = prefixLen
      /\ job' = job /\ nJobs' = nJobs /\ out' = out
      /\ draftIds' = draftIds /\ qRows' = qRows /\ pAll' = pAll
      /\ rollbackBase' = rollbackBase /\ result' = result
  BY DEF FlushOverflow, AfterLoop, Raise, runnerVars, roundVars
<1>2. TypeOK /\ CursorsAgree /\ LoopInv
  BY DEF IInv
<1>3. /\ target.pos \in Nat /\ target.max = TargetMax
      /\ target \in Executors(TargetMax) /\ Len(out) \in Nat
      /\ job.n \in Nat /\ job.gamma \in Nat /\ PromptLen \in Nat
  BY <1>2, TypeFacts, MaxFacts, ExecutorFields
<1>4. target' \in Executors(TargetMax) /\ target'.dev = target.dev
      /\ target'.pos = target.pos
  BY <1>1, <1>3, MaxFacts, BonusOnly, TakeIsDeferNone
<1>5. TypeOK'
  BY <1>1, <1>2, <1>4 DEF TypeOK
<1>6. target'.dev = target'.pos /\ draft'.dev = draft'.pos
  BY <1>1, <1>2, <1>4 DEF CursorsAgree
<1>7. BudgetSuffices'
  <2>1. /\ Len(out) \in PromptLen .. PromptLen + job.n + job.gamma
        /\ target.pos = Len(out) - 1
    BY <1>1, <1>2 DEF LoopInv, CursorsAgree, Running
  <2>2. ~ target.pos + 1 <= TargetMax
    BY <1>1, <1>3 DEF Fits
  <2>3. ~ PromptLen + job.n + job.gamma <= TargetMax
    BY <1>3, <2>1, <2>2, MaxFacts
  <2>. QED
    BY <1>1, <2>3, Zenon DEF BudgetSuffices, PromptLen
<1>. QED
  BY <1>1, <1>5, <1>6, <1>7, RaiseInv

-----------------------------------------------------------------------------
(* Feedback and flush *)

LEMMA ApplyTargetFeedbackInv ==
    ASSUME IInv, ApplyTargetFeedback
    PROVE  IInv'
<1> DEFINE R == RolledBackDraft
<1>1. /\ pc = "feedback" /\ pc' = "round"
      /\ Bonus \in DraftVocab /\ Fits(R, 1)
      /\ draft' = Forward(R, <<Bonus>>)
      /\ lastLogits' = Row(R, <<Bonus>>, 1)
      /\ prefixLen' = prefixLen + result.n + 1
      /\ target' = target /\ error' = error /\ job' = job /\ nJobs' = nJobs
      /\ out' = out /\ draftIds' = draftIds /\ qRows' = qRows /\ pAll' = pAll
      /\ rollbackBase' = rollbackBase /\ result' = result
  BY DEF ApplyTargetFeedback, DecodeStep, roundVars
<1>2. TypeOK /\ CursorsAgree /\ CacheMatchesText /\ OutputSanctioned
      /\ BudgetSuffices /\ LoopInv /\ RoundInv
  BY DEF IInv
<1>3. /\ R \in Executors(DraftMax)
      /\ R.pos = Len(out) - 1 /\ R.dev = Len(out) - 1
      /\ Coherent(R, out, Len(out) - 1)
      /\ Len(out) \in Nat \ {0}
      /\ prefixLen + result.n = Len(out) - 1
  BY <1>1, RolledBackFacts
<1> HIDE DEF R
<1>4. /\ Bonus \in Token /\ out \in Seq(Token)
      /\ Bonus = out[Len(out)]
  BY <1>1, <1>2, DraftIsToken, TypeFacts DEF Bonus
<1>5. /\ Len(out) = R.pos + 1 /\ out[R.pos + 1] = Bonus
      /\ Coherent(R, out, R.pos) /\ R.dev = R.pos
  BY <1>3, <1>4
<1>6. /\ Forward(R, <<Bonus>>) \in Executors(DraftMax)
      /\ Forward(R, <<Bonus>>).pos = R.pos + 1
      /\ Forward(R, <<Bonus>>).dev = R.pos + 1
      /\ Coherent(Forward(R, <<Bonus>>), out, R.pos + 1)
      /\ Row(R, <<Bonus>>, 1) = out /\ out \in Slots
  BY <1>1, <1>3, <1>4, <1>5, MaxFacts, DecodeCoherent
<1>7. /\ draft' \in Executors(DraftMax)
      /\ draft'.pos = Len(out) /\ draft'.dev = Len(out)
      /\ Coherent(draft', out, Len(out))
      /\ lastLogits' = out /\ lastLogits' \in Slots
  BY <1>1, <1>5, <1>6
<1>8. TypeOK'
  <2>1. prefixLen' \in Nat
    BY <1>1, <1>2, TypeFacts, SMTT(30)
  <2>. QED
    BY <1>1, <1>2, <1>7, <2>1 DEF TypeOK, Slots
<1>9. /\ target.pos = Len(out) - 1 /\ target.pending = out[Len(out)]
      /\ target.pending # NoToken
  <2>1. target.pos = Len(out) - 1 /\ target.pending = out[Len(out)]
    BY <1>1, <1>2 DEF RoundInv
  <2>. QED
    BY <1>4, <2>1, NoTokenAssumption
<1>10. CursorsAgree'
  BY <1>1, <1>2, <1>7, <1>9 DEF CursorsAgree
<1>11. CacheMatchesText'
  <2>1. Drafted = out /\ Drafted' = out
    BY <1>1 DEF Drafted
  <2>2. Coherent(target, out, target.pos)
    BY <1>1, <1>2, <2>1, Zenon DEF CacheMatchesText, Running
  <2>. QED
    BY <1>1, <1>7, <2>1, <2>2 DEF CacheMatchesText
<1>12. OutputSanctioned' /\ BudgetSuffices'
  BY <1>1, <1>2 DEF OutputSanctioned, BudgetSuffices, PromptLen
<1>13. LoopInv'
  BY <1>1, <1>2, Zenon DEF LoopInv, Running, PromptLen
<1>14. RoundInv'
  BY <1>1, <1>7, <1>9 DEF RoundInv
<1>. QED
  BY <1>1, <1>8, <1>10, <1>11, <1>12, <1>13, <1>14
  DEF IInv, RowsAligned, DeferNeverRaises, FeedbackAgrees, ReturnsWhatWasAsked,
      DraftingInv

\* The call returns with the target at P in the text.
LEMMA DoneInv ==
    ASSUME IInv, pc = "round", NumNew >= job.n, pc' = "done",
           target' \in Executors(TargetMax), target'.pending = NoToken,
           target'.pos = Len(out), target'.dev = Len(out), target'.p1 = out,
           Coherent(target', out, Len(out)),
           UNCHANGED <<draft, runnerVars, error, job, nJobs, out, roundVars>>
    PROVE  IInv'
<1>1. /\ draft' = draft /\ lastLogits' = lastLogits /\ prefixLen' = prefixLen
      /\ error' = error /\ job' = job /\ nJobs' = nJobs /\ out' = out
      /\ draftIds' = draftIds /\ qRows' = qRows /\ pAll' = pAll
      /\ rollbackBase' = rollbackBase /\ result' = result
  BY DEF runnerVars, roundVars
<1>2. TypeOK /\ CursorsAgree /\ CacheMatchesText /\ OutputSanctioned
      /\ BudgetSuffices /\ LoopInv
  BY DEF IInv
<1>3. TypeOK'
  BY <1>1, <1>2 DEF TypeOK
<1>4. CursorsAgree'
  BY <1>1, <1>2 DEF CursorsAgree
<1>5. CacheMatchesText'
  <2>1. Drafted = out /\ Drafted' = out
    BY <1>1 DEF Drafted
  <2>2. Coherent(draft, out, draft.pos)
    BY <1>2, <2>1, Zenon DEF CacheMatchesText, Running
  <2>. QED
    BY <1>1, <2>1, <2>2 DEF CacheMatchesText
<1>6. OutputSanctioned' /\ BudgetSuffices'
  BY <1>1, <1>2 DEF OutputSanctioned, BudgetSuffices, PromptLen
<1>7. ReturnsWhatWasAsked'
  <2>1. /\ error = "none"
        /\ Len(out) \in PromptLen .. PromptLen + job.n + job.gamma
    BY <1>2 DEF LoopInv, Running
  <2>2. Len(out) \in Nat /\ PromptLen \in Nat /\ job.n \in Nat /\ job.gamma \in Nat
    BY <1>2, TypeFacts
  <2>3. Len(out) - PromptLen >= job.n
    BY DEF NumNew
  <2>4. Len(out) \in PromptLen + job.n .. PromptLen + job.n + job.gamma
    BY <2>1, <2>2, <2>3
  <2>5. PromptLen' = PromptLen
    BY <1>1 DEF PromptLen
  <2>. QED
    BY <1>1, <2>1, <2>4, <2>5, Zenon DEF ReturnsWhatWasAsked
<1>. QED
  BY <1>1, <1>3, <1>4, <1>5, <1>6, <1>7
  DEF IInv, RowsAligned, DeferNeverRaises, FeedbackAgrees, LoopInv,
      DraftingInv, RoundInv, Running

LEMMA NothingToFlushInv ==
    ASSUME IInv, NothingToFlush
    PROVE  IInv'
<1>1. /\ pc = "round" /\ NumNew >= job.n /\ target.pending = NoToken
      /\ pc' = "done" /\ target' = target
      /\ UNCHANGED <<draft, runnerVars, error, job, nJobs, out, roundVars>>
  BY DEF NothingToFlush, AfterLoop
<1>2. TypeOK /\ CursorsAgree /\ CacheMatchesText /\ RoundInv
  BY DEF IInv
<1>3. target \in Executors(TargetMax) /\ out \in Seq(Token) /\ Len(out) \in Nat
  BY <1>2, TypeFacts
<1>4. target.pos = Len(out) /\ target.dev = Len(out) /\ target.p1 = out
  BY <1>1, <1>2, <1>3 DEF CursorsAgree, RoundInv
<1>5. Coherent(target, out, Len(out))
  <2>1. Drafted = out
    BY <1>1 DEF Drafted
  <2>. QED
    BY <1>1, <1>2, <1>4, <2>1 DEF CacheMatchesText, Running
<1>. QED
  BY <1>1, <1>3, <1>4, <1>5, DoneInv

LEMMA FlushPendingBonusInv ==
    ASSUME IInv, FlushPendingBonus
    PROVE  IInv'
<1> DEFINE b == target.pending
           K == TakePendingBonus(target)
<1>1. /\ pc = "round" /\ NumNew >= job.n /\ b # NoToken /\ Fits(target, 1)
      /\ pc' = "done" /\ target' = CommitPendingBonus(target)
      /\ UNCHANGED <<draft, runnerVars, error, job, nJobs, out, roundVars>>
  BY DEF FlushPendingBonus, AfterLoop
<1>2. TypeOK /\ CursorsAgree /\ CacheMatchesText
  BY DEF IInv
<1>3. /\ target \in Executors(TargetMax) /\ target.pos \in Nat
      /\ out \in Seq(Token) /\ Len(out) \in Nat
      /\ b \in Token \cup {NoToken}
  BY <1>2, TypeFacts
<1>4. /\ b \in Token /\ b = out[Len(out)] /\ target.pos = Len(out) - 1
      /\ target.dev = target.pos
  BY <1>1, <1>2, <1>3 DEF CursorsAgree
<1>5. Coherent(target, out, target.pos)
  <2>1. Drafted = out
    BY <1>1 DEF Drafted
  <2>. QED
    BY <1>1, <1>2, <2>1, Zenon DEF CacheMatchesText, Running
<1>6. /\ K \in Executors(TargetMax) /\ K.pos = target.pos
      /\ K.dev = target.dev /\ K.kv = target.kv /\ K.pending = NoToken
      /\ K.max = target.max
  BY <1>3, MaxFacts, BonusOnly, TakeIsDeferNone, ExecutorFields
<1> HIDE DEF K
<1>7. /\ Len(out) = K.pos + 1 /\ out[K.pos + 1] = b
      /\ K.dev = K.pos
  BY <1>3, <1>4, <1>6
<1>8. Coherent(K, out, K.pos) /\ Fits(K, 1)
  BY <1>1, <1>5, <1>6 DEF Coherent, Fits
<1>9. /\ Forward(K, <<b>>) \in Executors(TargetMax)
      /\ Forward(K, <<b>>).pos = K.pos + 1
      /\ Forward(K, <<b>>).dev = K.pos + 1
      /\ Forward(K, <<b>>).pending = NoToken
      /\ Coherent(Forward(K, <<b>>), out, K.pos + 1)
      /\ Row(K, <<b>>, 1) = out /\ out \in Slots
  BY <1>3, <1>4, <1>6, <1>7, <1>8, MaxFacts, DecodeCoherent
<1>10. Row(target, <<b>>, 1) = Row(K, <<b>>, 1)
  BY <1>6 DEF Row
<1>11. target' = [Forward(K, <<b>>) EXCEPT !.p1 = out]
  BY <1>1, <1>9, <1>10, Zenon DEF CommitPendingBonus, DecodeStep, K
<1>12. /\ target' \in Executors(TargetMax) /\ target'.pending = NoToken
       /\ target'.pos = K.pos + 1 /\ target'.dev = K.pos + 1
       /\ target'.p1 = out /\ target'.kv = Forward(K, <<b>>).kv
  BY <1>9, <1>11 DEF Executors, Slots
<1>13. Coherent(target', out, Len(out))
  BY <1>7, <1>9, <1>12 DEF Coherent
<1>. QED
  BY <1>1, <1>7, <1>12, <1>13, DoneInv

-----------------------------------------------------------------------------
(* Verification *)

\* A bundle of the deferred bonus, if any, and the drafts continues the text
\* where the target's cursor stands.
LEMMA VerifyInputFacts ==
    ASSUME IInv, pc = "verify"
    PROVE  /\ VerifyInput \in Seq(Token)
           /\ target.pos + Len(VerifyInput) = Len(out) + Len(draftIds)
           /\ \A i \in 1 .. Len(VerifyInput) :
                  VerifyInput[i] = (out \o draftIds)[target.pos + i]
           /\ target.pending # NoToken => target.pos + 1 = Len(out)
           /\ target.pending = NoToken => target.pos = Len(out)
<1>1. TypeOK /\ CursorsAgree
  BY DEF IInv
<1>2. /\ target.pos \in Nat /\ target.pending \in Token \cup {NoToken}
      /\ out \in Seq(Token) /\ Len(out) \in Nat
      /\ draftIds \in Seq(Token) /\ Len(draftIds) \in Nat
  BY <1>1, TypeFacts
<1>3. CASE target.pending = NoToken
  <2>1. VerifyInput = draftIds
    BY <1>3 DEF VerifyInput
  <2>2. target.pos = Len(out)
    BY <1>1, <1>2, <1>3 DEF CursorsAgree
  <2>3. \A i \in 1 .. Len(draftIds) : draftIds[i] = (out \o draftIds)[Len(out) + i]
    BY <1>2
  <2>. QED
    BY <1>2, <1>3, <2>1, <2>2, <2>3
<1>4. CASE target.pending # NoToken
  <2> DEFINE b == target.pending
  <2>1. VerifyInput = <<b>> \o draftIds
    BY <1>4 DEF VerifyInput
  <2>2. target.pos = Len(out) - 1 /\ b = out[Len(out)] /\ b \in Token
    BY <1>1, <1>2, <1>4 DEF CursorsAgree
  <2> HIDE DEF b
  <2>3. /\ VerifyInput \in Seq(Token) /\ Len(VerifyInput) = 1 + Len(draftIds)
        /\ VerifyInput[1] = b
        /\ \A k \in 1 .. Len(draftIds) : VerifyInput[k + 1] = draftIds[k]
    BY <1>2, <2>1, <2>2
  <2>4. /\ (out \o draftIds)[Len(out)] = b
        /\ \A k \in 1 .. Len(draftIds) : (out \o draftIds)[Len(out) + k] = draftIds[k]
    BY <1>2, <2>2
  <2>5. ASSUME NEW i \in 1 .. Len(VerifyInput)
        PROVE  VerifyInput[i] = (out \o draftIds)[target.pos + i]
    <3>1. CASE i = 1
      <4>1. target.pos + 1 = Len(out)
        BY <1>2, <2>2
      <4>. QED
        BY <2>3, <2>4, <3>1, <4>1
    <3>2. CASE i # 1
      <4>1. /\ i - 1 \in 1 .. Len(draftIds) /\ (i - 1) + 1 = i
            /\ target.pos + i = Len(out) + (i - 1)
        BY <1>2, <2>2, <2>3, <3>2
      <4>2. VerifyInput[i] = draftIds[i - 1]
        BY <2>3, <4>1
      <4>3. (out \o draftIds)[target.pos + i] = draftIds[i - 1]
        BY <2>4, <4>1
      <4>. QED
        BY <4>2, <4>3
    <3>. QED
      BY <3>1, <3>2
  <2>. QED
    BY <1>2, <1>4, <2>2, <2>3, <2>5
<1>. QED
  BY <1>3, <1>4

LEMMA VerifyGammaInv ==
    ASSUME IInv, VerifyGamma
    PROVE  IInv'
<1> DEFINE T == out \o draftIds
           V == VerifyInput
           K == TakePendingBonus(target)
           L == Len(out)
           bundled == target.pending # NoToken
<1>1. /\ pc = "verify" /\ pc' = "accept" /\ Fits(target, Len(V))
      /\ target' = Forward(K, V)
      /\ pAll' = [j \in 1 .. job.gamma + 1 |->
                     IF bundled THEN Row(K, V, j)
                     ELSE IF j = 1 THEN target.p1 ELSE Row(K, V, j - 1)]
      /\ rollbackBase' = target.pos + (IF bundled THEN 1 ELSE 0)
      /\ result' = [NoResult EXCEPT !.prefix = target.pos]
      /\ draft' = draft /\ lastLogits' = lastLogits /\ prefixLen' = prefixLen
      /\ error' = error /\ job' = job /\ nJobs' = nJobs /\ out' = out
      /\ draftIds' = draftIds /\ qRows' = qRows
  BY DEF VerifyGamma, runnerVars
<1>2. TypeOK /\ CursorsAgree /\ CacheMatchesText /\ OutputSanctioned
      /\ BudgetSuffices /\ LoopInv /\ DraftingInv /\ RoundInv
  BY DEF IInv
<1>3. /\ target \in Executors(TargetMax) /\ target.pos \in Nat /\ draft.pos \in Nat
      /\ out \in Seq(Token) /\ L \in Nat
      /\ draftIds \in Seq(Token) /\ Len(draftIds) \in Nat
      /\ T \in Seq(Token) /\ Len(T) = L + Len(draftIds)
      /\ job.gamma \in Nat /\ target.p1 \in Slots
  BY <1>2, TypeFacts
<1>4. /\ prefixLen = L /\ Len(draftIds) = job.gamma
      /\ Len(qRows) = job.gamma + 1
      /\ draft.pos = L + job.gamma
      /\ \A i \in 1 .. job.gamma + 1 : qRows[i] = SubSeq(T, 1, L + i - 1)
  BY <1>1, <1>2 DEF DraftingInv
<1>5. /\ V \in Seq(Token) /\ Len(V) \in Nat
      /\ target.pos + Len(V) = L + job.gamma
      /\ \A i \in 1 .. Len(V) : V[i] = T[target.pos + i]
      /\ bundled => target.pos + 1 = L
      /\ ~bundled => target.pos = L
  <2>1. /\ V \in Seq(Token)
        /\ target.pos + Len(V) = L + Len(draftIds)
        /\ \A i \in 1 .. Len(V) : V[i] = T[target.pos + i]
        /\ bundled => target.pos + 1 = L
        /\ ~bundled => target.pos = L
    BY <1>1, VerifyInputFacts
  <2> HIDE DEF T, V, L, bundled
  <2>2. Len(V) \in Nat
    BY <2>1
  <2>. QED
    BY <1>4, <2>1, <2>2
<1>6. /\ Coherent(target, T, target.pos) /\ Coherent(draft, T, draft.pos)
      /\ target.dev = target.pos
  <2>1. Drafted = T
    BY <1>1 DEF Drafted
  <2>. QED
    BY <1>1, <1>2, <2>1, Zenon DEF CacheMatchesText, Running, CursorsAgree
<1>7. /\ K \in Executors(TargetMax) /\ K.pos = target.pos /\ K.dev = target.pos
      /\ K.kv = target.kv /\ K.pending = NoToken /\ K.max = target.max
  BY <1>3, <1>6, MaxFacts, BonusOnly, TakeIsDeferNone, ExecutorFields
<1>8. ~bundled => target.p1 = out
  BY <1>1, <1>2 DEF RoundInv
<1>9. out = SubSeq(T, 1, L)
  BY <1>3
<1> HIDE DEF T, V, K, L, bundled
<1>10. /\ Coherent(K, T, K.pos) /\ Fits(K, Len(V)) /\ K.dev = K.pos
       /\ K.pos + Len(V) <= Len(T)
       /\ \A i \in 1 .. Len(V) : V[i] = T[K.pos + i]
  <2>1. Coherent(K, T, K.pos) /\ Fits(K, Len(V))
    BY <1>1, <1>6, <1>7 DEF Coherent, Fits
  <2>2. K.pos + Len(V) <= Len(T)
    BY <1>3, <1>4, <1>5, <1>7
  <2>3. \A i \in 1 .. Len(V) : V[i] = T[K.pos + i]
    BY <1>5, <1>7
  <2>. QED
    BY <1>7, <2>1, <2>2, <2>3
<1>11. /\ Forward(K, V) \in Executors(TargetMax)
       /\ Forward(K, V).pos = K.pos + Len(V)
       /\ Forward(K, V).dev = K.pos + Len(V)
       /\ Forward(K, V).pending = K.pending
       /\ Coherent(Forward(K, V), T, K.pos + Len(V))
  <2>1. K \in Executors(TargetMax) /\ T \in Seq(Token) /\ V \in Seq(Token)
    BY <1>3, <1>5, <1>7
  <2>. QED
    BY <1>10, <2>1, MaxFacts, ForwardCoherent
<1>12. /\ target' \in Executors(TargetMax) /\ target'.pending = NoToken
       /\ target'.pos = L + job.gamma /\ target'.dev = L + job.gamma
       /\ Coherent(target', T, L + job.gamma)
  BY <1>1, <1>5, <1>7, <1>11
<1>13. ASSUME NEW j \in 0 .. Len(V)
       PROVE  Row(K, V, j) = SubSeq(T, 1, target.pos + j)
  <2>0. K \in Executors(TargetMax) /\ T \in Seq(Token) /\ V \in Seq(Token)
    BY <1>3, <1>5, <1>7
  <2>1. Row(K, V, j) = SubSeq(T, 1, K.pos + j)
    BY <1>10, <2>0, MaxFacts, RowIsPrefix
  <2>. QED
    BY <1>7, <2>1
<1>14. ASSUME NEW j \in 1 .. job.gamma + 1
       PROVE  pAll'[j] = SubSeq(T, 1, L + j - 1)
  <2>1. CASE bundled
    <3>1. pAll'[j] = Row(K, V, j)
      BY <1>1, <2>1
    <3>2. /\ target.pos \in Nat /\ L \in Nat /\ Len(V) \in Nat /\ job.gamma \in Nat
          /\ target.pos + 1 = L /\ target.pos + Len(V) = L + job.gamma
      BY <1>3, <1>5, <2>1, Zenon
    <3>3. j \in 0 .. Len(V) /\ target.pos + j = L + j - 1
      <4>1. Len(V) = job.gamma + 1
        BY <3>2
      <4>2. j \in Nat /\ j <= Len(V)
        BY <1>3, <4>1
      <4>3. target.pos + j = L + j - 1
        BY <3>2, <4>2
      <4>. QED
        BY <3>2, <4>2, <4>3
    <3>. QED
      BY <1>13, <3>1, <3>3
  <2>2. CASE ~bundled /\ j = 1
    <3>1. pAll'[j] = out
      BY <1>1, <1>8, <2>2
    <3>2. L + j - 1 = L
      BY <1>3, <2>2
    <3>. QED
      BY <1>9, <3>1, <3>2
  <2>3. CASE ~bundled /\ j # 1
    <3>1. pAll'[j] = Row(K, V, j - 1)
      BY <1>1, <2>3
    <3>2. /\ L \in Nat /\ Len(V) \in Nat /\ job.gamma \in Nat
          /\ target.pos = L /\ target.pos + Len(V) = L + job.gamma
      BY <1>3, <1>5, <2>3, Zenon
    <3>3. j - 1 \in 0 .. Len(V) /\ target.pos + (j - 1) = L + j - 1
      BY <2>3, <3>2
    <3>. QED
      BY <1>13, <3>1, <3>3
  <2>. QED
    BY <2>1, <2>2, <2>3
<1>15. TypeOK'
  <2>1. pAll' \in Seq(Slots)
    <3>1. ASSUME NEW j \in 1 .. job.gamma + 1 PROVE pAll'[j] \in Slots
      <4>1. L + j - 1 \in 0 .. Len(T)
        BY <1>3, <1>4
      <4>2. SubSeq(T, 1, L + j - 1) \in Seq(Token)
        BY <1>3, <4>1
      <4>. QED
        BY <1>14, <4>2, WidenSeq
    <3>2. job.gamma + 1 \in Nat
      BY <1>3
    <3>3. pAll' \in [1 .. job.gamma + 1 -> Slots]
      <4>1. pAll' = [j \in 1 .. job.gamma + 1 |-> pAll'[j]]
        BY <1>1
      <4>. QED
        BY <3>1, <4>1
    <3>. QED
      BY <3>2, <3>3
  <2>2. rollbackBase' \in Nat
    BY <1>1, <1>3
  <2>3. result' \in [n : Nat, prefix : Nat, newPrefix : Nat, cacheAfter : Nat]
    BY <1>1, <1>3 DEF NoResult
  <2>. QED
    BY <1>1, <1>2, <1>12, <2>1, <2>2, <2>3 DEF TypeOK, Rows, Slots
<1>16. CursorsAgree'
  BY <1>1, <1>2, <1>12 DEF CursorsAgree
<1>17. CacheMatchesText'
  <2>1. Drafted' = T
    BY <1>1 DEF Drafted, T
  <2>. QED
    BY <1>1, <1>6, <1>12, <2>1 DEF CacheMatchesText
<1>18. RowsAligned'
  BY <1>1, <1>4, <1>14 DEF RowsAligned, T, L
<1>19. OutputSanctioned' /\ BudgetSuffices'
  BY <1>1, <1>2 DEF OutputSanctioned, BudgetSuffices, PromptLen
<1>20. LoopInv'
  <2>1. PromptLen' = PromptLen /\ NumNew' = NumNew
    BY <1>1 DEF PromptLen, NumNew
  <2>. QED
    BY <1>1, <1>2, <2>1, Zenon DEF LoopInv, Running
<1>21. DraftingInv'
  BY <1>1, <1>2 DEF DraftingInv
<1>22. RoundInv'
  <2>1. rollbackBase' = L
    BY <1>1, <1>3, <1>5
  <2>. QED
    BY <1>1, <1>12, <2>1 DEF RoundInv, L
<1>23. DeferNeverRaises'
  BY <1>12 DEF DeferNeverRaises
<1>. QED
  BY <1>1, <1>15, <1>16, <1>17, <1>18, <1>19, <1>20, <1>21, <1>22, <1>23
  DEF IInv, FeedbackAgrees, ReturnsWhatWasAsked

-----------------------------------------------------------------------------
(* Acceptance *)

LEMMA AcceptDraftsInv ==
    ASSUME IInv, NEW n \in 0 .. job.gamma, NEW b \in Token, AcceptDrafts(n, b)
    PROVE  IInv'
<1> DEFINE T == out \o draftIds
           L == Len(out)
           g == job.gamma
           K == RollbackCache(target, L + n)
<1>1. /\ pc = "accept" /\ pc' = "feedback"
      /\ \A i \in 1 .. n : draftIds[i] \in Allowed(job.greedy, pAll[i])
      /\ b \in Allowed(job.greedy, pAll[n + 1])
      /\ target' = DeferBonusToken(RollbackCache(target, rollbackBase + n), b)
      /\ out' = out \o SubSeq(draftIds, 1, n) \o <<b>>
      /\ result' = [n |-> n, prefix |-> result.prefix,
                    newPrefix |-> rollbackBase + n + 1,
                    cacheAfter |-> rollbackBase + n]
      /\ draft' = draft /\ lastLogits' = lastLogits /\ prefixLen' = prefixLen
      /\ error' = error /\ job' = job /\ nJobs' = nJobs
      /\ draftIds' = draftIds /\ qRows' = qRows /\ pAll' = pAll
      /\ rollbackBase' = rollbackBase
  BY DEF AcceptDrafts, Accepts, runnerVars
<1>2. TypeOK /\ CursorsAgree /\ CacheMatchesText /\ RowsAligned /\ OutputSanctioned
      /\ BudgetSuffices /\ LoopInv /\ DraftingInv /\ RoundInv
  BY DEF IInv
<1>3. /\ target \in Executors(TargetMax) /\ target.pos \in Nat
      /\ target.pos <= TargetMax /\ draft.pos \in Nat
      /\ out \in Seq(Token) /\ L \in Nat
      /\ draftIds \in Seq(Token) /\ Len(draftIds) \in Nat
      /\ T \in Seq(Token) /\ Len(T) = L + Len(draftIds)
      /\ g \in Nat /\ PromptLen \in Nat /\ job.n \in Nat
  BY <1>2, TypeFacts
<1>4. /\ prefixLen = L /\ Len(draftIds) = g
      /\ draft.pos = L + g /\ target.pos = L + g /\ rollbackBase = L
  BY <1>1, <1>2, <1>3 DEF DraftingInv, RoundInv
<1>5. \A i \in 1 .. g + 1 : pAll[i] = SubSeq(T, 1, L + i - 1)
  BY <1>1, <1>2 DEF RowsAligned
<1>6. Coherent(target, T, L + g) /\ Coherent(draft, T, L + g)
  <2>1. Drafted = T
    BY <1>1 DEF Drafted
  <2>2. Coherent(target, T, target.pos) /\ Coherent(draft, T, draft.pos)
    BY <1>1, <1>2, <2>1, Zenon DEF CacheMatchesText, Running
  <2>. QED
    BY <1>4, <2>2
<1>7. n \in Nat /\ n <= g /\ n \in 0 .. Len(draftIds)
  BY <1>3, <1>4
<1>8. /\ out' \in Seq(Token) /\ Len(out') = L + n + 1
      /\ \A i \in 1 .. L + n : out'[i] = T[i]
      /\ \A i \in 1 .. L : out'[i] = out[i]
      /\ \A i \in 1 .. n : out'[L + i] = draftIds[i]
      /\ out'[L + n + 1] = b
  <2> DEFINE o == out \o SubSeq(draftIds, 1, n) \o <<b>>
  <2>1. out' = o
    BY <1>1
  <2>2. /\ o \in Seq(Token) /\ Len(o) = L + n + 1
        /\ \A i \in 1 .. L + n : o[i] = T[i]
        /\ \A i \in 1 .. L : o[i] = out[i]
        /\ \A i \in 1 .. n : o[L + i] = draftIds[i]
        /\ o[L + n + 1] = b
    <3>1. /\ out \in Seq(Token) /\ draftIds \in Seq(Token)
          /\ n \in 0 .. Len(draftIds) /\ b \in Token
      BY <1>3, <1>7
    <3>. QED
      BY <3>1, AcceptedText, ZenonT(30)
  <2> HIDE DEF o
  <2>. QED
    BY <2>1, <2>2, Zenon
<1> HIDE DEF T, L, g
<1>9. /\ target' = DeferBonusToken(K, b)
      /\ result' = [n |-> n, prefix |-> result.prefix,
                    newPrefix |-> L + n + 1, cacheAfter |-> L + n]
  BY <1>1, <1>4
<1>10. L + n \in 0 .. TargetMax /\ L + n \in Nat /\ L + n <= L + g
       /\ L + g \in Nat
  BY <1>3, <1>4, <1>7, MaxFacts
<1>11. /\ K \in Executors(TargetMax) /\ K.pos = L + n /\ K.dev = L + n
       /\ K.kv = target.kv
  <2> DEFINE to == L + n
  <2>1. target \in Executors(TargetMax) /\ to \in 0 .. TargetMax
    BY <1>3, <1>10
  <2> HIDE DEF to
  <2>2. /\ RollbackCache(target, to) \in Executors(TargetMax)
        /\ RollbackCache(target, to).pos = to /\ RollbackCache(target, to).dev = to
        /\ RollbackCache(target, to).kv = target.kv
    BY <2>1, MaxFacts, RollbackOnly
  <2>3. K = RollbackCache(target, to)
    BY DEF to
  <2> HIDE DEF K
  <2>. QED
    BY <2>2, <2>3 DEF to
<1> HIDE DEF K
<1>12. /\ target' \in Executors(TargetMax)
       /\ target'.pos = L + n /\ target'.dev = L + n
       /\ target'.kv = target.kv /\ target'.pending = b
  BY <1>9, <1>11, MaxFacts, BonusOnly
<1>13. Coherent(target, out', L + n) /\ Coherent(draft, out', L + n)
  <2>1. Coherent(target, T, L + n) /\ Coherent(draft, T, L + n)
    BY <1>6, <1>10, CoherentShorter
  <2>2. L + n <= Len(T) /\ L + n <= Len(out')
    BY <1>3, <1>4, <1>7, <1>8
  <2>. QED
    BY <1>3, <1>8, <1>10, <2>1, <2>2, CoherentAgree
<1>14. TypeOK'
  <2>1. result' \in [n : Nat, prefix : Nat, newPrefix : Nat, cacheAfter : Nat]
    <3>1. result.prefix \in Nat
      BY <1>2 DEF TypeOK
    <3>2. L + n + 1 \in Nat
      BY <1>10
    <3>. QED
      BY <1>7, <1>9, <1>10, <3>1, <3>2
  <2>. QED
    BY <1>1, <1>2, <1>8, <1>12, <2>1 DEF TypeOK
<1>15. CursorsAgree'
  BY <1>1, <1>2, <1>12 DEF CursorsAgree
<1>16. CacheMatchesText'
  <2>1. Drafted' = out'
    BY <1>1 DEF Drafted
  <2>2. Coherent(target', out', target'.pos)
    BY <1>12, <1>13 DEF Coherent
  <2>3. prefixLen' + result'.n = L + n
    BY <1>1, <1>4, <1>9
  <2>4. Coherent(draft', out', prefixLen' + result'.n)
    BY <1>1, <1>13, <2>3
  <2>. QED
    BY <1>1, <2>1, <2>2, <2>4 DEF CacheMatchesText
<1>17. FeedbackAgrees'
  BY <1>1, <1>4, <1>8, <1>9, <1>10, <1>12 DEF FeedbackAgrees
<1>18. BudgetSuffices'
  BY <1>1, <1>2 DEF BudgetSuffices, PromptLen
<1>19. LoopInv'
  <2>1. /\ error = "none" /\ L - PromptLen < job.n
        /\ L \in PromptLen .. PromptLen + job.n + job.gamma
    BY <1>1, <1>2 DEF LoopInv, Running, NumNew, L
  <2>2. L + n + 1 \in PromptLen .. PromptLen + job.n + job.gamma
    <3>1. job.gamma = g
      BY DEF g
    <3>. QED
      BY <1>3, <1>7, <2>1, <3>1, SMTT(30)
  <2>3. PromptLen' = PromptLen
    BY <1>1 DEF PromptLen
  <2>. QED
    BY <1>1, <1>8, <2>1, <2>2, <2>3, Zenon DEF LoopInv
<1>20. RoundInv'
  <2>1. L + n = (L + n + 1) - 1
    BY <1>3, <1>7
  <2>. QED
    BY <1>1, <1>8, <1>12, <2>1 DEF RoundInv
<1>21. OutputSanctioned'
  <2>1. SUFFICES ASSUME NEW i \in PromptLen + 1 .. L + n + 1
                 PROVE  out'[i] \in Allowed(job.greedy, SubSeq(out', 1, i - 1))
    <3>1. PromptLen' = PromptLen
      BY <1>1 DEF PromptLen
    <3>. QED
      BY <1>1, <1>8, <3>1 DEF OutputSanctioned, Allowed
  <2>2. i - 1 \in Nat /\ i - 1 <= L + n /\ i \in Nat
    BY <1>3, <1>7
  <2>3. CASE i <= L
    <3>1. SubSeq(out', 1, i - 1) = SubSeq(out, 1, i - 1)
      <4>1. /\ i - 1 <= Len(out') /\ i - 1 <= Len(out)
            /\ \A k \in 1 .. i - 1 : out'[k] = out[k]
        BY <1>3, <1>7, <1>8, <2>2, <2>3 DEF L
      <4>. QED
        BY <1>3, <1>8, <2>2, <4>1, SamePrefix
    <3>2. out'[i] = out[i]
      BY <1>3, <1>8, <2>2, <2>3, SMTT(30)
    <3>3. i \in PromptLen + 1 .. Len(out)
      BY <1>3, <2>2, <2>3 DEF L
    <3>4. out[i] \in Allowed(job.greedy, SubSeq(out, 1, i - 1))
      BY <1>2, <3>3 DEF OutputSanctioned
    <3>. QED
      BY <3>1, <3>2, <3>4
  <2>4. CASE i > L
    <3> DEFINE k == i - L
    <3>1. k \in 1 .. n + 1 /\ k \in 1 .. g + 1 /\ L + k - 1 = i - 1 /\ L + k = i
      BY <1>3, <1>7, <2>2, <2>4
    <3>2. pAll[k] = SubSeq(T, 1, i - 1)
      BY <1>5, <3>1
    <3>3. SubSeq(out', 1, i - 1) = SubSeq(T, 1, i - 1)
      <4>1. /\ i - 1 <= Len(out') /\ i - 1 <= Len(T)
            /\ \A m \in 1 .. i - 1 : out'[m] = T[m]
        BY <1>3, <1>4, <1>7, <1>8, <2>2
      <4>. QED
        BY <1>3, <1>8, <2>2, <4>1, SamePrefix
    <3>4. out'[i] \in Allowed(job.greedy, pAll[k])
      <4>1. CASE k \in 1 .. n
        BY <1>1, <1>8, <3>1, <4>1
      <4>2. CASE k = n + 1
        <5>1. i = L + n + 1
          BY <1>3, <1>7, <2>2, <4>2
        <5>. QED
          BY <1>1, <1>8, <4>2, <5>1
      <4>. QED
        BY <1>7, <3>1, <4>1, <4>2
    <3>. QED
      BY <3>2, <3>3, <3>4
  <2>. QED
    BY <1>3, <2>2, <2>3, <2>4
<1>. QED
  BY <1>1, <1>14, <1>15, <1>16, <1>17, <1>18, <1>19, <1>20, <1>21
  DEF IInv, RowsAligned, DeferNeverRaises, ReturnsWhatWasAsked, DraftingInv

-----------------------------------------------------------------------------
(* The invariant *)

LEMMA StutterInv == ASSUME IInv, UNCHANGED vars PROVE IInv'
<1>1. /\ target' = target /\ draft' = draft /\ lastLogits' = lastLogits
      /\ prefixLen' = prefixLen /\ pc' = pc /\ error' = error /\ job' = job
      /\ nJobs' = nJobs /\ out' = out /\ draftIds' = draftIds /\ qRows' = qRows
      /\ pAll' = pAll /\ rollbackBase' = rollbackBase /\ result' = result
  BY DEF vars
<1>2. TypeOK' /\ CursorsAgree'
  BY <1>1 DEF IInv, TypeOK, CursorsAgree
<1>3. CacheMatchesText'
  BY <1>1 DEF IInv, CacheMatchesText, Drafted, Running
<1>4. RowsAligned' /\ OutputSanctioned' /\ DeferNeverRaises' /\ FeedbackAgrees'
  BY <1>1 DEF IInv, RowsAligned, OutputSanctioned, DeferNeverRaises,
              FeedbackAgrees, PromptLen
<1>5. BudgetSuffices' /\ ReturnsWhatWasAsked' /\ LoopInv'
  BY <1>1 DEF IInv, BudgetSuffices, ReturnsWhatWasAsked, LoopInv, PromptLen,
              NumNew, Running
<1>6. DraftingInv' /\ RoundInv'
  BY <1>1 DEF IInv, DraftingInv, RoundInv
<1>. QED
  BY <1>2, <1>3, <1>4, <1>5, <1>6 DEF IInv

LEMMA NextInv == IInv /\ [Next]_vars => IInv'
<1>. SUFFICES ASSUME IInv, [Next]_vars PROVE IInv'
  OBVIOUS
<1>1. ASSUME NEW j \in Jobs, Begin(j) PROVE IInv'
  <2>1. StartJob(j) \/ TargetPrefillOverflow(j) \/ DraftPrefillOverflow(j)
    BY <1>1 DEF Begin
  <2>. QED
    BY <2>1, StartJobInv, TargetPrefillOverflowInv, DraftPrefillOverflowInv
<1>2. ASSUME Step PROVE IInv'
  <2>1. CASE BeginRound
    BY <2>1, BeginRoundInv
  <2>2. CASE \E x \in DraftVocab : DraftDecode(x)
    BY <2>2, DraftDecodeInv
  <2>3. CASE DraftDecodeOverflow
    BY <2>3, DraftDecodeOverflowInv
  <2>4. CASE VerifyGamma
    BY <2>4, VerifyGammaInv
  <2>5. CASE VerifyOverflow
    BY <2>5, VerifyOverflowInv
  <2>6. CASE \E n \in 0 .. job.gamma : \E b \in Token : AcceptDrafts(n, b)
    BY <2>6, AcceptDraftsInv
  <2>7. CASE ApplyTargetFeedback
    BY <2>7, ApplyTargetFeedbackInv
  <2>8. CASE FeedbackVocabError
    BY <2>8, FeedbackVocabErrorInv
  <2>9. CASE FeedbackOverflow
    BY <2>9, FeedbackOverflowInv
  <2>10. CASE FlushPendingBonus
    BY <2>10, FlushPendingBonusInv
  <2>11. CASE NothingToFlush
    BY <2>11, NothingToFlushInv
  <2>12. CASE FlushOverflow
    BY <2>12, FlushOverflowInv
  <2>. QED
    BY <1>2, <2>1, <2>2, <2>3, <2>4, <2>5, <2>6, <2>7, <2>8, <2>9, <2>10,
       <2>11, <2>12 DEF Step
<1>. QED
  BY <1>1, <1>2, StutterInv DEF Next

\* Every reachable state of the driver satisfies the inductive invariant.
THEOREM Invariance == Spec => []IInv
<1>1. Init => IInv
  BY InitInv
<1>2. IInv /\ [Next]_vars => IInv'
  BY NextInv
<1>. QED
  BY <1>1, <1>2, PTL DEF Spec

\* The variables keep their types: no cursor ever leaves its cache.
THEOREM TypeCorrect == Spec => []TypeOK
<1>1. IInv => TypeOK
  BY DEF IInv
<1>. QED
  BY <1>1, Invariance, PTL

\* No rollback, rejection, earlier request or raise ever leaves a stale slot
\* where a forward could attend to it.
THEOREM NoStaleSlot == Spec => []CacheMatchesText
<1>1. IInv => CacheMatchesText
  BY DEF IInv
<1>. QED
  BY <1>1, Invariance, PTL

\* Draft and target distributions are compared only when they are conditioned
\* on the same text, for every prompt, gamma and acceptance history.
THEOREM AcceptanceAligned == Spec => []RowsAligned
<1>1. IInv => RowsAligned
  BY DEF IInv
<1>. QED
  BY <1>1, Invariance, PTL

\* Whatever the draft proposes, the caller only ever sees text the target
\* could have produced; when greedy, exactly its own greedy text.
THEOREM OutputIsTargets == Spec => []OutputSanctioned
<1>1. IInv => OutputSanctioned
  BY DEF IInv
<1>. QED
  BY <1>1, Invariance, PTL

\* Caches of prompt + n + gamma slots are enough for any request.
THEOREM CapacityBound == Spec => []BudgetSuffices
<1>1. IInv => BudgetSuffices
  BY DEF IInv
<1>. QED
  BY <1>1, Invariance, PTL

\* Target and draft cursors keep the relation the protocol relies on, and what
\* the target reports is what the draft derives for itself.
THEOREM CursorAgreement == Spec => [](CursorsAgree /\ FeedbackAgrees /\ DeferNeverRaises)
<1>1. IInv => CursorsAgree /\ FeedbackAgrees /\ DeferNeverRaises
  BY DEF IInv
<1>. QED
  BY <1>1, Invariance, PTL

\* A request that returns delivers the tokens asked for.
THEOREM ReturnCorrect == Spec => []ReturnsWhatWasAsked
<1>1. IInv => ReturnsWhatWasAsked
  BY DEF IInv
<1>. QED
  BY <1>1, Invariance, PTL

-----------------------------------------------------------------------------
(* The driver implements AbstractDecode *)

\* A round emits at least one token and at most gamma + 1, all sanctioned.
LEMMA AcceptEmits ==
    ASSUME IInv, IInv', NEW n \in 0 .. job.gamma, NEW b \in Token,
           AcceptDrafts(n, b)
    PROVE  Abs!Emit
<1>1. /\ pc = "accept" /\ pc' = "feedback" /\ job' = job
      /\ out' = out \o SubSeq(draftIds, 1, n) \o <<b>>
  BY DEF AcceptDrafts
<1>2. TypeOK /\ LoopInv /\ DraftingInv /\ OutputSanctioned'
  BY DEF IInv
<1>3. /\ out \in Seq(Token) /\ Len(out) \in Nat
      /\ draftIds \in Seq(Token) /\ job.gamma \in Nat
  BY <1>2, TypeFacts
<1>4. n \in Nat /\ n \in 0 .. Len(draftIds) /\ n + 1 \in 1 .. job.gamma + 1
  BY <1>1, <1>2, <1>3 DEF DraftingInv
<1>5. /\ out' \in Seq(Token) /\ Len(out') = Len(out) + n + 1
      /\ \A i \in 1 .. Len(out) : out'[i] = out[i]
  <2> DEFINE o == out \o SubSeq(draftIds, 1, n) \o <<b>>
  <2>1. out' = o
    BY <1>1
  <2>2. /\ o \in Seq(Token) /\ Len(o) = Len(out) + n + 1
        /\ \A i \in 1 .. Len(out) : o[i] = out[i]
    <3>1. b \in Token /\ out \in Seq(Token) /\ draftIds \in Seq(Token)
          /\ n \in 0 .. Len(draftIds)
      BY <1>3, <1>4
    <3>2. /\ o \in Seq(Token) /\ Len(o) = Len(out) + n + 1
          /\ \A i \in 1 .. Len(out) + n : o[i] = (out \o draftIds)[i]
          /\ \A i \in 1 .. Len(out) : o[i] = out[i]
          /\ \A i \in 1 .. n : o[Len(out) + i] = draftIds[i]
          /\ o[Len(out) + n + 1] = b
      BY <3>1, AcceptedText, ZenonT(30)
    <3> HIDE DEF o
    <3>. QED
      BY <3>2, Zenon
  <2> HIDE DEF o
  <2>. QED
    BY <2>1, <2>2, Zenon
<1>6. SubSeq(out', 1, Len(out)) = out
  <2>1. SubSeq(out', 1, Len(out)) = SubSeq(out, 1, Len(out))
    <3>1. Len(out) <= Len(out')
      BY <1>3, <1>4, <1>5
    <3>. QED
      BY <1>3, <1>5, <3>1, SamePrefix
  <2>. QED
    BY <1>3, <2>1
<1>7. Abs!Sanctioned(job, out')
  BY <1>1, <1>2, Zenon DEF OutputSanctioned, PromptLen, Allowed, Abs!Sanctioned, Abs!Allowed
<1>8. Abs!NumNew(job, out) < job.n
  BY <1>1, <1>2 DEF LoopInv, NumNew, PromptLen, Abs!NumNew
<1>9. Running /\ Running'
  BY <1>1 DEF Running
<1>10. Len(out') = Len(out) + (n + 1)
  BY <1>3, <1>4, <1>5
<1>11. \E k \in 1 .. job.gamma + 1 :
          /\ Len(out') = Len(out) + k
          /\ SubSeq(out', 1, Len(out)) = out
          /\ Abs!Sanctioned(job, out')
  BY <1>4, <1>6, <1>7, <1>10, Zenon
<1>. QED
  BY <1>1, <1>8, <1>9, <1>11, Zenon DEF Abs!Emit

LEMMA StepRefines ==
    ASSUME IInv, IInv', [Next]_vars
    PROVE  [Abs!Next]_(Abs!vars)
<1>1. ASSUME NEW j \in Jobs, Begin(j) PROVE Abs!Next
  <2>1. Idle /\ NewCall(j) /\ pc' \in {"round", "raised"}
    BY <1>1 DEF Begin, StartJob, TargetPrefillOverflow, DraftPrefillOverflow
  <2>2. ~Running /\ job' = j /\ out' = j.prompt
    BY <2>1 DEF Idle, Running, NewCall
  <2>3. pc # "running"
    BY <2>1 DEF Idle
  <2>4. CASE pc' = "round"
    <3>1. Running'
      BY <2>4 DEF Running
    <3>2. Abs!Start(j)
      BY <2>2, <2>3, <3>1 DEF Abs!Start
    <3>. QED
      BY <3>2 DEF Abs!Next
  <2>5. CASE pc' = "raised"
    <3>1. ~Running'
      BY <2>5 DEF Running
    <3>2. Abs!Refuse(j)
      BY <2>2, <2>3, <2>5, <3>1 DEF Abs!Refuse
    <3>. QED
      BY <3>2 DEF Abs!Next
  <2>. QED
    BY <2>1, <2>4, <2>5
<1>2. ASSUME BeginRound \/ (\E x \in DraftVocab : DraftDecode(x)) \/ VerifyGamma
             \/ ApplyTargetFeedback
      PROVE  UNCHANGED Abs!vars
  <2>1. Running /\ Running' /\ job' = job /\ out' = out
    BY <1>2 DEF BeginRound, DraftDecode, VerifyGamma, ApplyTargetFeedback, Running
  <2>. QED
    BY <2>1 DEF Abs!vars
<1>3. ASSUME DraftDecodeOverflow \/ VerifyOverflow \/ FeedbackVocabError
             \/ FeedbackOverflow \/ FlushOverflow
      PROVE  Abs!Next
  <2>1. Running /\ pc' = "raised" /\ job' = job /\ out' = out
    BY <1>3 DEF DraftDecodeOverflow, VerifyOverflow, FeedbackVocabError,
                FeedbackOverflow, FlushOverflow, AfterLoop, Raise, Running
  <2>2. ~Running'
    BY <2>1 DEF Running
  <2>3. Abs!Raise
    BY <2>1, <2>2 DEF Abs!Raise
  <2>. QED
    BY <2>3 DEF Abs!Next
<1>4. ASSUME FlushPendingBonus \/ NothingToFlush
      PROVE  Abs!Next
  <2>1. /\ Running /\ pc' = "done" /\ job' = job /\ out' = out
        /\ NumNew >= job.n
    BY <1>4 DEF FlushPendingBonus, NothingToFlush, AfterLoop, Running
  <2>2. ~Running'
    BY <2>1 DEF Running
  <2>3. Abs!Return
    BY <2>1, <2>2 DEF Abs!Return, Abs!NumNew, NumNew, PromptLen
  <2>. QED
    BY <2>3 DEF Abs!Next
<1>5. ASSUME \E n \in 0 .. job.gamma : \E b \in Token : AcceptDrafts(n, b)
      PROVE  Abs!Next
  <2>1. Abs!Emit
    BY <1>5, AcceptEmits
  <2>. QED
    BY <2>1 DEF Abs!Next
<1>6. ASSUME UNCHANGED vars PROVE UNCHANGED Abs!vars
  BY <1>6 DEF vars, Abs!vars, Running
<1>7. CASE Step
  BY <1>7, <1>2, <1>3, <1>4, <1>5 DEF Step
<1>. QED
  BY <1>1, <1>6, <1>7 DEF Next

\* Drafts, caches and cursors are invisible: the caller of speculative_generate
\* sees exactly the behaviours AbstractDecode allows.
THEOREM Refinement == Spec => RefinesAbstract
<1>1. Init => Abs!Init
  BY DEF Init, Abs!Init, Running
<1>2. IInv /\ IInv' /\ [Next]_vars => [Abs!Next]_(Abs!vars)
  BY StepRefines
<1>. QED
  BY <1>1, <1>2, Invariance, PTL DEF Spec, RefinesAbstract, Abs!Spec
=============================================================================
