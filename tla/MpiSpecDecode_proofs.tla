------------------------- MODULE MpiSpecDecode_proofs -------------------------
(***************************************************************************)
(* First the channels: ProtocolInv of MpiSpecDecode is inductive but for   *)
(* OneRoundInFlight, which the counts of the channels imply.  So for every *)
(* vocabulary, job, cache size and choice of eager sends the two ranks     *)
(* stay within one round of each other, and no channel holds more than the *)
(* message its receiver waits for.  Then the data: what the ranks agree on.*)
(***************************************************************************)
EXTENDS MpiSpecDecode, KVExecutor_proofs

\* The inductive part.
Core == TypeOK /\ ChannelsCount /\ RoundsAndSizes

-----------------------------------------------------------------------------
(* What the assumptions and the types say *)

LEMMA JobFacts ==
    ASSUME TypeOK
    PROVE  /\ job.prompt \in Seq(Token) /\ Len(job.prompt) \in Nat
           /\ job.steps \in Nat
           /\ job.gamma \in Nat /\ job.gamma >= 1
<1>1. job \in [prompt : Seq(DraftVocab) \ {<<>>}, steps : Nat,
               gamma : 1 .. MaxGamma]
  BY MpiAssumption DEF TypeOK
<1>2. job.prompt \in Seq(DraftVocab)
  BY <1>1
<1>3. job.prompt \in Seq(Token) /\ Len(job.prompt) \in Nat
  BY <1>2, MpiAssumption
<1>. QED
  BY <1>1, <1>3 DEF MaxGamma

\* A draft is a token of the target's vocabulary.
LEMMA DraftIsToken == DraftVocab \subseteq Token /\ Seq(DraftVocab) \subseteq Seq(Token)
BY MpiAssumption

LEMMA MaxSeqNat == MaxSeq \in Nat
BY MpiAssumption

\* An accepted prefix of the drafts and a bonus extend a text by tokens.
LEMMA ExtendedText ==
    ASSUME NEW text \in Seq(Token), NEW ids \in Seq(DraftVocab),
           NEW n \in Nat, n <= Len(ids), NEW b \in Token
    PROVE  text \o SubSeq(ids, 1, n) \o <<b>> \in Seq(Token)
<1>1. ids \in Seq(Token)
  BY DraftIsToken
<1>2. SubSeq(ids, 1, n) \in Seq(Token)
  BY <1>1
<1>. QED
  BY <1>2

-----------------------------------------------------------------------------
(* Channels *)

\* A post makes its channel one longer and leaves the others alone.
LEMMA PostFacts ==
    ASSUME NEW m \in Messages, NEW v, DOMAIN net = Messages, Post(m, v)
    PROVE  /\ DOMAIN net' = Messages
           /\ net'[m] = Append(net[m], v)
           /\ \A k \in Messages : k # m => net'[k] = net[k]
BY DEF Post

LEMMA ReceiveFacts ==
    ASSUME NEW m \in Messages, DOMAIN net = Messages, Receive(m)
    PROVE  /\ DOMAIN net' = Messages
           /\ net'[m] = Tail(net[m])
           /\ \A k \in Messages : k # m => net'[k] = net[k]
BY DEF Receive

\* The types of a channel survive both.
LEMMA ChannelType ==
    ASSUME NEW S, NEW c \in Seq(S)
    PROVE  /\ Len(c) \in Nat
           /\ \A v \in S : Append(c, v) \in Seq(S) /\ Len(Append(c, v)) = Len(c) + 1
           /\ c # <<>> => /\ Tail(c) \in Seq(S) /\ Len(Tail(c)) = Len(c) - 1
                          /\ Head(c) \in S /\ Head(c) = c[1] /\ 1 \in DOMAIN c
                          /\ \A i \in DOMAIN Tail(c) :
                                i + 1 \in DOMAIN c /\ Tail(c)[i] = c[i + 1]
OBVIOUS

\* The lengths behind the counts.
LEMMA NetFacts ==
    ASSUME TypeOK
    PROVE  /\ Len(net["ids"]) \in Nat /\ Len(net["logits"]) \in Nat
           /\ Len(net["result"]) \in Nat
           /\ tStep \in Nat /\ dStep \in Nat
           /\ tStep <= job.steps /\ dStep <= job.steps
<1>1. /\ net["ids"] \in Seq(Seq(DraftVocab))
      /\ net["logits"] \in Seq(Seq(Rows))
      /\ net["result"] \in Seq(Results)
      /\ tStep \in 0 .. job.steps /\ dStep \in 0 .. job.steps
  BY DEF TypeOK, TargetTypeOK, DraftTypeOK, NetTypeOK
<1>2. job.steps \in Nat
  BY JobFacts
<1>3. Len(net["ids"]) \in Nat /\ Len(net["logits"]) \in Nat /\ Len(net["result"]) \in Nat
  BY <1>1, ChannelType, Zenon
<1>. QED
  BY <1>1, <1>2, <1>3

\* From the counts: at most one message per channel, and never a payload and a
\* result together.
LEMMA CountsBound == TypeOK /\ ChannelsCount => OneRoundInFlight
<1>. SUFFICES ASSUME TypeOK, ChannelsCount PROVE OneRoundInFlight
  OBVIOUS
<1>1. /\ Len(net["ids"]) \in Nat /\ Len(net["logits"]) \in Nat
      /\ Len(net["result"]) \in Nat /\ tStep \in Nat /\ dStep \in Nat
  BY NetFacts
<1>2. /\ IdsSent \in dStep .. dStep + 1 /\ LogitsSent \in dStep .. dStep + 1
      /\ ResultsRead \in dStep .. dStep + 1 /\ IdsRead \in tStep .. tStep + 1
      /\ LogitsRead \in tStep .. tStep + 1 /\ ResultsSent \in tStep .. tStep + 1
  BY <1>1 DEF IdsSent, LogitsSent, ResultsRead, IdsRead, LogitsRead, ResultsSent
<1>3. /\ ResultsRead <= LogitsSent /\ LogitsSent <= IdsSent
      /\ ResultsSent <= LogitsRead /\ LogitsRead <= IdsRead
  <2>1. /\ DraftHasResult => DraftSentLogits
        /\ DraftSentLogits => DraftSentIds
        /\ TargetSentResult => TargetHasLogits
        /\ TargetHasLogits => TargetHasIds
    BY DEF DraftSentLogits, DraftSentIds, TargetHasLogits, TargetHasIds
  <2>. QED
    BY <1>1, <2>1 DEF IdsSent, LogitsSent, ResultsRead, IdsRead, LogitsRead, ResultsSent
<1>4. /\ Len(net["ids"]) + Len(net["result"]) <= 1
      /\ Len(net["logits"]) + Len(net["result"]) <= 1
  BY <1>1, <1>2, <1>3 DEF ChannelsCount
<1>5. \A m \in Messages : Len(net[m]) <= 1
  <2> DEFINE i == Len(net["ids"])
             l == Len(net["logits"])
             r == Len(net["result"])
  <2>1. i \in Nat /\ l \in Nat /\ r \in Nat /\ i + r <= 1 /\ l + r <= 1
    BY <1>1, <1>4
  <2> HIDE DEF i, l, r
  <2>2. i <= 1 /\ l <= 1 /\ r <= 1
    BY <2>1
  <2>. QED
    BY <2>2 DEF Messages, i, l, r
<1>6. ASSUME Arrived("result") PROVE ~Arrived("ids") /\ ~Arrived("logits")
  <2>1. /\ net["ids"] \in Seq(Seq(DraftVocab)) /\ net["logits"] \in Seq(Seq(Rows))
        /\ net["result"] \in Seq(Results)
    BY DEF TypeOK, NetTypeOK
  <2>2. Len(net["result"]) > 0
    BY <2>1, <1>6 DEF Arrived
  <2> DEFINE i == Len(net["ids"])
             l == Len(net["logits"])
             r == Len(net["result"])
  <2>3. i \in Nat /\ l \in Nat /\ r \in Nat /\ r > 0 /\ i + r <= 1 /\ l + r <= 1
    BY <1>1, <1>4, <2>2
  <2> HIDE DEF i, l, r
  <2>4. i = 0 /\ l = 0
    BY <2>3
  <2>. QED
    BY <2>1, <2>4 DEF Arrived, i, l
<1>. QED
  BY <1>5, <1>6 DEF OneRoundInFlight

-----------------------------------------------------------------------------
(* What a step has to show *)

\* The facts a step starts from.
LEMMA CoreFacts ==
    ASSUME Core
    PROVE  /\ TypeOK /\ ChannelsCount
           /\ TargetTypeOK /\ TargetRounds /\ DraftTypeOK /\ DraftRounds
           /\ NetTypeOK /\ NetSizes
           /\ job.prompt \in Seq(Token) /\ job.steps \in Nat
           /\ job.gamma \in Nat /\ job.gamma >= 1
           /\ target \in Executors(MaxSeq) /\ draft \in Executors(MaxSeq)
           /\ target.max = MaxSeq /\ target.pos \in Nat /\ target.pos <= MaxSeq
           /\ draft.max = MaxSeq /\ draft.pos \in Nat /\ draft.pos <= MaxSeq
           /\ target.dev = target.pos /\ draft.dev = draft.pos
           /\ target.pending \in Token \cup {NoToken}
           /\ MaxSeq \in Nat /\ prefixLen \in Nat
           /\ tStep \in Nat /\ dStep \in Nat
           /\ Rows = Slots
<1>1. /\ TypeOK /\ ChannelsCount /\ TargetRounds /\ DraftRounds /\ NetSizes
  BY DEF Core, RoundsAndSizes
<1>2. TargetTypeOK /\ DraftTypeOK /\ NetTypeOK
  BY <1>1 DEF TypeOK
<1>3. target \in Executors(MaxSeq) /\ draft \in Executors(MaxSeq)
  BY <1>2 DEF TargetTypeOK, DraftTypeOK
<1>4. /\ target.max = MaxSeq /\ target.pos \in Nat /\ target.pos <= MaxSeq
      /\ draft.max = MaxSeq /\ draft.pos \in Nat /\ draft.pos <= MaxSeq
      /\ target.pending \in Token \cup {NoToken}
  BY <1>3, MaxSeqNat, ExecutorFields
<1>5. target.dev = target.pos /\ draft.dev = draft.pos
  BY <1>1 DEF TargetRounds, DraftRounds
<1>6. prefixLen \in Nat
  BY <1>2, MaxSeqNat DEF DraftTypeOK
<1>. QED
  BY <1>1, <1>2, <1>3, <1>4, <1>5, <1>6, JobFacts, NetFacts, MaxSeqNat DEF Rows, Slots

LEMMA TargetFrame ==
    ASSUME Core, UNCHANGED <<setting, targetVars>>
    PROVE  TargetTypeOK' /\ TargetRounds'
<1>1. UNCHANGED <<job, tpc, target, tCommitted, tStep, tIds, tRows, tResult>>
  BY DEF setting, targetVars, tLocal
<1>2. TargetTypeOK /\ TargetRounds
  BY CoreFacts
<1>. QED
  BY <1>1, <1>2 DEF TargetTypeOK, TargetRounds, TargetRaised, TargetHasIds, TargetHasLogits, TargetSentResult

LEMMA DraftFrame ==
    ASSUME Core, UNCHANGED <<setting, draftVars>>
    PROVE  DraftTypeOK' /\ DraftRounds'
<1>1. UNCHANGED <<job, dpc, draft, lastLogits, prefixLen, dCommitted, dStep, dIds, dRows, dResult>>
  BY DEF setting, draftVars, dLocal
<1>2. DraftTypeOK /\ DraftRounds
  BY CoreFacts
<1>. QED
  BY <1>1, <1>2 DEF DraftTypeOK, DraftRounds, DraftRaised, DraftSentIds, DraftSentLogits,
                    DraftHasResult

LEMMA NetFrame ==
    ASSUME Core, UNCHANGED <<setting, net>>
    PROVE  NetTypeOK' /\ NetSizes'
<1>1. NetTypeOK /\ NetSizes /\ UNCHANGED <<job, net>>
  BY CoreFacts DEF setting
<1>. QED
  BY <1>1 DEF NetTypeOK, NetSizes

\* A step of the draft that leaves the channels alone.
LEMMA DraftMoveCore ==
    ASSUME Core, UNCHANGED <<setting, targetVars, net, exitCode>>,
           DraftTypeOK', DraftRounds', ChannelsCount'
    PROVE  Core'
<1>1. /\ TargetTypeOK' /\ TargetRounds' /\ NetTypeOK' /\ NetSizes'
  BY TargetFrame, NetFrame
<1>2. TypeOK /\ UNCHANGED <<job, eager, exitCode>>
  BY CoreFacts DEF setting
<1>. QED
  BY <1>1, <1>2 DEF Core, TypeOK, RoundsAndSizes

LEMMA TargetMoveCore ==
    ASSUME Core, UNCHANGED <<setting, draftVars, net, exitCode>>,
           TargetTypeOK', TargetRounds', ChannelsCount'
    PROVE  Core'
<1>1. /\ DraftTypeOK' /\ DraftRounds' /\ NetTypeOK' /\ NetSizes'
  BY DraftFrame, NetFrame
<1>2. TypeOK /\ UNCHANGED <<job, eager, exitCode>>
  BY CoreFacts DEF setting
<1>. QED
  BY <1>1, <1>2 DEF Core, TypeOK, RoundsAndSizes

-----------------------------------------------------------------------------
(* The draft's steps *)

LEMMA DraftPrefillCore == ASSUME Core, DraftPrefill PROVE Core'
<1>1. /\ dpc = "prefill" /\ Len(job.prompt) <= MaxSeq
      /\ draft' = Prefill(draft, job.prompt)
      /\ lastLogits' = Row(ResetKvCache(draft), job.prompt, Len(job.prompt))
      /\ prefixLen' = Len(job.prompt)
      /\ dpc' = IF 0 < job.steps THEN "generate" ELSE "barrier"
      /\ UNCHANGED <<setting, targetVars, net, exitCode>>
      /\ UNCHANGED <<job, dCommitted, dStep, dIds, dRows, dResult>>
  BY DEF DraftPrefill, DraftLoop, setting
<1>2. UNCHANGED <<tpc, tStep>>
  BY <1>1 DEF targetVars
<1>3. /\ draft' \in Executors(MaxSeq) /\ draft'.dev = draft'.pos
      /\ lastLogits' \in Rows /\ prefixLen' \in 0 .. MaxSeq
  <2>1. job.prompt \in Seq(Token) /\ Len(job.prompt) \in Nat
    BY CoreFacts
  <2>. QED
    BY <1>1, <2>1, CoreFacts, PrefillType
<1>4. DraftTypeOK'
  BY <1>1, <1>3, CoreFacts DEF DraftTypeOK, DraftRaised
<1>5. DraftRounds'
  BY <1>1, <1>3, CoreFacts DEF DraftRounds, DraftSentIds, DraftSentLogits, DraftHasResult
<1>6. ChannelsCount'
  BY <1>1, <1>2, CoreFacts
     DEF ChannelsCount, IdsSent, LogitsSent, ResultsRead, IdsRead, LogitsRead, ResultsSent,
         DraftHasResult, DraftSentLogits, DraftSentIds,
         TargetSentResult, TargetHasLogits, TargetHasIds
<1>. QED
  BY <1>1, <1>4, <1>5, <1>6, DraftMoveCore

LEMMA DraftPrefillOverflowCore == ASSUME Core, DraftPrefillOverflow PROVE Core'
<1>1. /\ dpc = "prefill" /\ dpc' = "raised_prefill"
      /\ draft' = ResetKvCache(draft)
      /\ UNCHANGED <<setting, targetVars, net, exitCode>>
      /\ UNCHANGED <<job, lastLogits, prefixLen, dCommitted, dStep, dIds, dRows, dResult>>
  BY DEF DraftPrefillOverflow, DraftRaises, setting, dLocal
<1>2. UNCHANGED <<tpc, tStep>>
  BY <1>1 DEF targetVars
<1>3. draft' \in Executors(MaxSeq) /\ draft'.dev = draft'.pos
  BY <1>1, CoreFacts, ResetType, NewExecutorType
<1>4. DraftTypeOK'
  BY <1>1, <1>3, CoreFacts DEF DraftTypeOK, DraftRaised
<1>5. DraftRounds'
  BY <1>1, <1>3, CoreFacts DEF DraftRounds, DraftSentIds, DraftSentLogits, DraftHasResult
<1>6. ChannelsCount'
  BY <1>1, <1>2, CoreFacts
     DEF ChannelsCount, IdsSent, LogitsSent, ResultsRead, IdsRead, LogitsRead, ResultsSent,
         DraftHasResult, DraftSentLogits, DraftSentIds,
         TargetSentResult, TargetHasLogits, TargetHasIds
<1>. QED
  BY <1>1, <1>4, <1>5, <1>6, DraftMoveCore

\* The ids of a round, or the first of them.
LEMMA DraftTupleFacts ==
    ASSUME Core, NEW ids \in DraftTuples
    PROVE  /\ ids \in Seq(DraftVocab) /\ ids \in Seq(Token)
           /\ Len(ids) = job.gamma
           /\ \A k \in 0 .. job.gamma : /\ SubSeq(ids, 1, k) \in Seq(Token)
                                        /\ Len(SubSeq(ids, 1, k)) = k
<1> DEFINE gamma == job.gamma
<1>1. gamma \in Nat /\ ids \in [1 .. gamma -> DraftVocab]
  BY CoreFacts DEF DraftTuples
<1> HIDE DEF gamma
<1>2. ids \in Seq(DraftVocab)
  BY <1>1, SeqDef
<1>3. Len(ids) = gamma
  BY <1>1, <1>2
<1>4. ids \in Seq(Token)
  BY <1>2, DraftIsToken
<1>5. \A k \in 0 .. gamma : SubSeq(ids, 1, k) \in Seq(Token) /\ Len(SubSeq(ids, 1, k)) = k
  BY <1>1, <1>3, <1>4
<1>. QED
  BY <1>2, <1>3, <1>4, <1>5 DEF gamma

LEMMA GenerateDraftsCore ==
    ASSUME Core, NEW ids \in DraftTuples, GenerateDrafts(ids)
    PROVE  Core'
<1> DEFINE rest == [i \in 1 .. job.gamma |-> Row(draft, ids, i)]
<1>1. /\ dpc = "generate" /\ dpc' = "send_ids"
      /\ Fits(draft, job.gamma)
      /\ prefixLen' = draft.pos
      /\ draft' = Forward(draft, ids)
      /\ dIds' = ids /\ dRows' = <<lastLogits>> \o rest
      /\ UNCHANGED <<setting, targetVars, net, exitCode>>
      /\ UNCHANGED <<job, lastLogits, dCommitted, dStep, dResult>>
  BY DEF GenerateDrafts, setting
<1>2. UNCHANGED <<tpc, tStep>>
  BY <1>1 DEF targetVars
<1>3. /\ draft' \in Executors(MaxSeq) /\ draft'.dev = draft'.pos
      /\ draft'.pos = draft.pos + job.gamma
  BY <1>1, CoreFacts, DraftTupleFacts, ForwardType
<1>4. dRows' \in Seq(Rows)
  <2>1. \A i \in 1 .. job.gamma : Row(draft, ids, i) \in Slots
    BY CoreFacts, DraftTupleFacts, RowType
  <2>2. rest \in [1 .. job.gamma -> Slots] /\ job.gamma \in Nat
    BY <2>1, CoreFacts
  <2>3. lastLogits \in Slots /\ Rows = Slots
    BY CoreFacts DEF DraftTypeOK
  <2> HIDE DEF rest
  <2>4. rest \in Seq(Slots)
    BY <2>2, SeqDef
  <2>. QED
    BY <1>1, <2>3, <2>4
<1>5. DraftTypeOK'
  BY <1>1, <1>3, <1>4, CoreFacts, DraftTupleFacts DEF DraftTypeOK, DraftRaised
<1>6. DraftRounds'
  BY <1>1, <1>3, CoreFacts, DraftTupleFacts
     DEF DraftRounds, DraftSentIds, DraftSentLogits, DraftHasResult
<1>7. ChannelsCount'
  BY <1>1, <1>2, CoreFacts
     DEF ChannelsCount, IdsSent, LogitsSent, ResultsRead, IdsRead, LogitsRead, ResultsSent,
         DraftHasResult, DraftSentLogits, DraftSentIds,
         TargetSentResult, TargetHasLogits, TargetHasIds
<1>. QED
  BY <1>1, <1>5, <1>6, <1>7, DraftMoveCore

LEMMA GenerateOverflowCore ==
    ASSUME Core, NEW ids \in DraftTuples, GenerateOverflow(ids)
    PROVE  Core'
<1> DEFINE room == draft.max - draft.pos
           toks == SubSeq(ids, 1, room)
<1>1. /\ dpc = "generate" /\ dpc' = "raised_generate"
      /\ ~Fits(draft, job.gamma)
      /\ prefixLen' = draft.pos
      /\ draft' = Forward(draft, toks)
      /\ UNCHANGED <<setting, targetVars, net, exitCode>>
      /\ UNCHANGED <<job, lastLogits, dCommitted, dStep, dIds, dRows, dResult>>
  BY DEF GenerateOverflow, DraftRaises, setting
<1>2. UNCHANGED <<tpc, tStep>>
  BY <1>1 DEF targetVars
<1>3. draft' \in Executors(MaxSeq) /\ draft'.dev = draft'.pos
  <2>1. room \in 0 .. job.gamma /\ draft.pos + room <= draft.max
    BY <1>1, CoreFacts DEF Fits
  <2>2. toks \in Seq(Token) /\ Len(toks) = room
    BY <2>1, DraftTupleFacts
  <2> HIDE DEF toks, room
  <2>3. Fits(draft, Len(toks))
    BY <2>1, <2>2 DEF Fits
  <2>. QED
    BY <1>1, <2>2, <2>3, CoreFacts, ForwardType
<1>4. DraftTypeOK'
  BY <1>1, <1>3, CoreFacts DEF DraftTypeOK, DraftRaised
<1>5. DraftRounds'
  BY <1>1, <1>3, CoreFacts DEF DraftRounds, DraftSentIds, DraftSentLogits, DraftHasResult
<1>6. ChannelsCount'
  BY <1>1, <1>2, CoreFacts
     DEF ChannelsCount, IdsSent, LogitsSent, ResultsRead, IdsRead, LogitsRead, ResultsSent,
         DraftHasResult, DraftSentLogits, DraftSentIds,
         TargetSentResult, TargetHasLogits, TargetHasIds
<1>. QED
  BY <1>1, <1>4, <1>5, <1>6, DraftMoveCore

LEMMA SendIdsReturnsCore == ASSUME Core, SendIdsReturns PROVE Core'
<1>1. /\ dpc = "sent_ids" /\ dpc' = "send_logits"
      /\ UNCHANGED <<setting, targetVars, net, exitCode>>
      /\ UNCHANGED <<job, draft, lastLogits, prefixLen, dCommitted, dStep, dIds, dRows, dResult>>
  BY DEF SendIdsReturns, setting, dLocal
<1>2. UNCHANGED <<tpc, tStep>>
  BY <1>1 DEF targetVars
<1>3. DraftTypeOK'
  BY <1>1, CoreFacts DEF DraftTypeOK, DraftRaised
<1>4. DraftRounds'
  BY <1>1, CoreFacts DEF DraftRounds, DraftSentIds, DraftSentLogits, DraftHasResult
<1>5. ChannelsCount'
  BY <1>1, <1>2, CoreFacts
     DEF ChannelsCount, IdsSent, LogitsSent, ResultsRead, IdsRead, LogitsRead, ResultsSent,
         DraftHasResult, DraftSentLogits, DraftSentIds,
         TargetSentResult, TargetHasLogits, TargetHasIds
<1>. QED
  BY <1>1, <1>3, <1>4, <1>5, DraftMoveCore

LEMMA SendLogitsReturnsCore == ASSUME Core, SendLogitsReturns PROVE Core'
<1>1. /\ dpc = "sent_logits" /\ dpc' = "await_result"
      /\ UNCHANGED <<setting, targetVars, net, exitCode>>
      /\ UNCHANGED <<job, draft, lastLogits, prefixLen, dCommitted, dStep, dIds, dRows, dResult>>
  BY DEF SendLogitsReturns, setting, dLocal
<1>2. UNCHANGED <<tpc, tStep>>
  BY <1>1 DEF targetVars
<1>3. DraftTypeOK'
  BY <1>1, CoreFacts DEF DraftTypeOK, DraftRaised
<1>4. DraftRounds'
  BY <1>1, CoreFacts DEF DraftRounds, DraftSentIds, DraftSentLogits, DraftHasResult
<1>5. ChannelsCount'
  BY <1>1, <1>2, CoreFacts
     DEF ChannelsCount, IdsSent, LogitsSent, ResultsRead, IdsRead, LogitsRead, ResultsSent,
         DraftHasResult, DraftSentLogits, DraftSentIds,
         TargetSentResult, TargetHasLogits, TargetHasIds
<1>. QED
  BY <1>1, <1>3, <1>4, <1>5, DraftMoveCore

\* Rolling back to the accepted drafts stays within what the round had stored.
LEMMA RolledBackType ==
    ASSUME Core, dpc = "feedback"
    PROVE  /\ RolledBack \in Executors(MaxSeq)
           /\ RolledBack.pos = prefixLen + dResult.n
           /\ RolledBack.dev = RolledBack.pos
           /\ RolledBack.max = MaxSeq
           /\ prefixLen + dResult.n \in Nat
<1> DEFINE to == prefixLen + dResult.n
<1>1. dResult.n \in Nat /\ dResult.n <= job.gamma /\ draft.pos = prefixLen + job.gamma
  BY CoreFacts DEF DraftTypeOK, DraftRounds, DraftSentIds, DraftSentLogits, DraftHasResult,
                   Results, NoResult
<1>2. to \in 0 .. MaxSeq
  <2>1. /\ prefixLen \in Nat /\ MaxSeq \in Nat /\ job.gamma \in Nat
        /\ draft.pos <= MaxSeq
    BY CoreFacts
  <2>. QED
    BY <1>1, <2>1
<1> HIDE DEF to
<1>3. /\ RollbackCache(draft, to) \in Executors(MaxSeq)
      /\ RollbackCache(draft, to).pos = to /\ RollbackCache(draft, to).dev = to
  BY <1>2, CoreFacts, RollbackOnly
<1>4. RollbackCache(draft, to).max = MaxSeq
  BY <1>3, CoreFacts, ExecutorFields
<1>. QED
  BY <1>2, <1>3, <1>4 DEF RolledBack, to

LEMMA ApplyTargetFeedbackCore == ASSUME Core, ApplyTargetFeedback PROVE Core'
<1> DEFINE toks == <<dResult.bonus>>
<1>1. /\ dpc = "feedback" /\ dResult.bonus \in DraftVocab
      /\ Fits(RolledBack, 1)
      /\ draft' = Forward(RolledBack, toks)
      /\ lastLogits' = Row(RolledBack, toks, 1)
      /\ prefixLen' = prefixLen + dResult.n + 1
      /\ dStep' = dStep + 1
      /\ dpc' = IF dStep + 1 < job.steps THEN "generate" ELSE "barrier"
      /\ UNCHANGED <<setting, targetVars, net, exitCode>>
      /\ UNCHANGED <<job, dCommitted, dIds, dRows, dResult>>
  BY DEF ApplyTargetFeedback, DecodeStep, DraftLoop, setting
<1>2. UNCHANGED <<tpc, tStep>>
  BY <1>1 DEF targetVars
<1>3. toks \in Seq(Token) /\ Len(toks) = 1 /\ 1 \in 0 .. Len(toks)
  BY <1>1, DraftIsToken
<1>4. prefixLen + dResult.n + 1 \in 0 .. MaxSeq
  <2> DEFINE to == prefixLen + dResult.n
  <2>1. to \in Nat /\ to + 1 <= MaxSeq
    BY <1>1, RolledBackType DEF Fits
  <2> HIDE DEF to
  <2>2. to + 1 \in 0 .. MaxSeq
    BY <2>1, CoreFacts
  <2>. QED
    BY <2>2 DEF to
<1>5. /\ draft' \in Executors(MaxSeq) /\ draft'.dev = draft'.pos
      /\ lastLogits' \in Rows /\ prefixLen' \in 0 .. MaxSeq
  <2> DEFINE e == RolledBack
  <2>1. e \in Executors(MaxSeq) /\ e.dev = e.pos /\ Fits(e, 1)
    BY <1>1, RolledBackType
  <2> HIDE DEF toks, e
  <2>2. Fits(e, Len(toks))
    BY <1>3, <2>1
  <2>3. Forward(e, toks) \in Executors(MaxSeq) /\ Row(e, toks, 1) \in Slots
    BY <1>3, <2>1, <2>2, CoreFacts, ForwardType, RowType
  <2> DEFINE end == e.pos + Len(toks)
  <2>4. Forward(e, toks).dev = end /\ Forward(e, toks).pos = end
    BY <1>3, <2>1, <2>2, CoreFacts, ForwardType
  <2>5. draft' = Forward(e, toks) /\ lastLogits' = Row(e, toks, 1)
    BY <1>1 DEF e
  <2>6. prefixLen' \in 0 .. MaxSeq
    BY <1>1, <1>4
  <2>7. Rows = Slots
    BY CoreFacts
  <2>8. draft'.dev = draft'.pos
    <3> HIDE DEF end
    <3>. QED
      BY <2>4, <2>5
  <2>9. draft' \in Executors(MaxSeq) /\ lastLogits' \in Rows
    BY <2>3, <2>5, <2>7
  <2>. QED
    BY <2>6, <2>8, <2>9
<1>6. dStep < job.steps
  BY <1>1, CoreFacts DEF DraftRounds, DraftSentIds, DraftSentLogits, DraftHasResult
<1>7. DraftTypeOK'
  <2>1. dStep' \in 0 .. job.steps
    <3>1. dStep \in Nat /\ job.steps \in Nat
      BY CoreFacts
    <3>2. dStep' = dStep + 1
      BY <1>1
    <3>. QED
      BY <1>6, <3>1, <3>2
  <2>2. dpc' \in {"generate", "barrier"}
    BY <1>1
  <2>3. DraftTypeOK
    BY CoreFacts
  <2>4. UNCHANGED <<job, dCommitted, dIds, dRows, dResult>>
    BY <1>1
  <2>. QED
    BY <1>5, <2>1, <2>2, <2>3, <2>4 DEF DraftTypeOK
<1>8. DraftRounds'
  BY <1>1, <1>5, <1>6, CoreFacts DEF DraftRounds, DraftSentIds, DraftSentLogits, DraftHasResult
<1>9. ChannelsCount'
  BY <1>1, <1>2, CoreFacts
     DEF ChannelsCount, IdsSent, LogitsSent, ResultsRead, IdsRead, LogitsRead, ResultsSent,
         DraftHasResult, DraftSentLogits, DraftSentIds,
         TargetSentResult, TargetHasLogits, TargetHasIds
<1>. QED
  BY <1>1, <1>7, <1>8, <1>9, DraftMoveCore

LEMMA FeedbackVocabErrorCore == ASSUME Core, FeedbackVocabError PROVE Core'
<1>1. /\ dpc = "feedback" /\ dpc' = "raised_vocab"
      /\ UNCHANGED <<setting, targetVars, net, exitCode>>
      /\ UNCHANGED <<job, draft, lastLogits, prefixLen, dCommitted, dStep, dIds, dRows, dResult>>
  BY DEF FeedbackVocabError, DraftRaises, setting, dLocal
<1>2. UNCHANGED <<tpc, tStep>>
  BY <1>1 DEF targetVars
<1>3. DraftTypeOK'
  BY <1>1, CoreFacts DEF DraftTypeOK, DraftRaised
<1>4. DraftRounds'
  BY <1>1, CoreFacts DEF DraftRounds, DraftSentIds, DraftSentLogits, DraftHasResult
<1>5. ChannelsCount'
  BY <1>1, <1>2, CoreFacts
     DEF ChannelsCount, IdsSent, LogitsSent, ResultsRead, IdsRead, LogitsRead, ResultsSent,
         DraftHasResult, DraftSentLogits, DraftSentIds,
         TargetSentResult, TargetHasLogits, TargetHasIds
<1>. QED
  BY <1>1, <1>3, <1>4, <1>5, DraftMoveCore

LEMMA FeedbackOverflowCore == ASSUME Core, FeedbackOverflow PROVE Core'
<1>1. /\ dpc = "feedback" /\ dpc' = "raised_feedback"
      /\ draft' = RolledBack
      /\ UNCHANGED <<setting, targetVars, net, exitCode>>
      /\ UNCHANGED <<job, lastLogits, prefixLen, dCommitted, dStep, dIds, dRows, dResult>>
  BY DEF FeedbackOverflow, DraftRaises, setting, dLocal
<1>2. UNCHANGED <<tpc, tStep>>
  BY <1>1 DEF targetVars
<1>3. draft' \in Executors(MaxSeq) /\ draft'.dev = draft'.pos
  BY <1>1, RolledBackType
<1>4. DraftTypeOK'
  BY <1>1, <1>3, CoreFacts DEF DraftTypeOK, DraftRaised
<1>5. DraftRounds'
  BY <1>1, <1>3, CoreFacts DEF DraftRounds, DraftSentIds, DraftSentLogits, DraftHasResult
<1>6. ChannelsCount'
  BY <1>1, <1>2, CoreFacts
     DEF ChannelsCount, IdsSent, LogitsSent, ResultsRead, IdsRead, LogitsRead, ResultsSent,
         DraftHasResult, DraftSentLogits, DraftSentIds,
         TargetSentResult, TargetHasLogits, TargetHasIds
<1>. QED
  BY <1>1, <1>4, <1>5, <1>6, DraftMoveCore


-----------------------------------------------------------------------------
(* The target's steps *)

LEMMA TargetPrefillCore == ASSUME Core, TargetPrefill PROVE Core'
<1>1. /\ tpc = "prefill" /\ Len(job.prompt) <= MaxSeq
      /\ target' = Prefill(target, job.prompt)
      /\ tpc' = IF 0 < job.steps THEN "await_ids" ELSE "flush"
      /\ UNCHANGED <<setting, draftVars, net, exitCode>>
      /\ UNCHANGED <<job, tCommitted, tStep, tIds, tRows, tResult>>
  BY DEF TargetPrefill, TargetLoop, setting, tLocal
<1>2. UNCHANGED <<dpc, dStep>>
  BY <1>1 DEF draftVars, dLocal
<1>3. target' \in Executors(MaxSeq) /\ target'.dev = target'.pos
  BY <1>1, CoreFacts, PrefillType
<1>4. TargetTypeOK'
  BY <1>1, <1>3, CoreFacts DEF TargetTypeOK, TargetRaised
<1>5. TargetRounds'
  BY <1>1, <1>3, CoreFacts DEF TargetRounds, TargetHasIds, TargetHasLogits, TargetSentResult
<1>6. ChannelsCount'
  BY <1>1, <1>2, CoreFacts
     DEF ChannelsCount, IdsSent, LogitsSent, ResultsRead, IdsRead, LogitsRead, ResultsSent,
         DraftHasResult, DraftSentLogits, DraftSentIds,
         TargetSentResult, TargetHasLogits, TargetHasIds
<1>. QED
  BY <1>1, <1>4, <1>5, <1>6, TargetMoveCore

LEMMA TargetPrefillOverflowCore == ASSUME Core, TargetPrefillOverflow PROVE Core'
<1>1. /\ tpc = "prefill" /\ tpc' = "raised_prefill"
      /\ target' = ResetKvCache(target)
      /\ UNCHANGED <<setting, draftVars, net, exitCode>>
      /\ UNCHANGED <<job, tCommitted, tStep, tIds, tRows, tResult>>
  BY DEF TargetPrefillOverflow, TargetRaises, setting, tLocal
<1>2. UNCHANGED <<dpc, dStep>>
  BY <1>1 DEF draftVars, dLocal
<1>3. target' \in Executors(MaxSeq) /\ target'.dev = target'.pos
  BY <1>1, CoreFacts, ResetType, NewExecutorType
<1>4. TargetTypeOK'
  BY <1>1, <1>3, CoreFacts DEF TargetTypeOK, TargetRaised
<1>5. TargetRounds'
  BY <1>1, <1>3, CoreFacts DEF TargetRounds, TargetHasIds, TargetHasLogits, TargetSentResult
<1>6. ChannelsCount'
  BY <1>1, <1>2, CoreFacts
     DEF ChannelsCount, IdsSent, LogitsSent, ResultsRead, IdsRead, LogitsRead, ResultsSent,
         DraftHasResult, DraftSentLogits, DraftSentIds,
         TargetSentResult, TargetHasLogits, TargetHasIds
<1>. QED
  BY <1>1, <1>4, <1>5, <1>6, TargetMoveCore

\* Dropping the rejected drafts stays within what the verify forward stored.
LEMMA TargetAfterStep ==
    ASSUME Core, NEW n \in 0 .. job.gamma, NEW bonus \in Token, TargetStep(n, bonus)
    PROVE  /\ target' \in Executors(MaxSeq) /\ target'.dev = target'.pos
           /\ RollbackBase + n \in Nat
<1> DEFINE taken == TakePendingBonus(target)
           ids == VerifyInput
           to == RollbackBase + n
<1>1. /\ tpc = "verify" /\ Fits(target, Len(ids))
      /\ target' = DeferBonusToken(RollbackCache(Forward(taken, ids), to), bonus)
  BY DEF TargetStep
<1>2. tIds \in Seq(Token) /\ Len(tIds) = job.gamma
  BY <1>1, CoreFacts, DraftIsToken DEF TargetTypeOK, TargetRounds, TargetHasIds, TargetHasLogits, TargetSentResult
<1>3. ids \in Seq(Token) /\ target.pos + Len(ids) = RollbackBase + job.gamma
  <2>1. CASE target.pending = NoToken
    BY <1>2, <2>1, CoreFacts DEF VerifyInput, RollbackBase
  <2>2. CASE target.pending # NoToken
    <3>1. target.pending \in Token
      BY <2>2, CoreFacts
    <3>2. <<target.pending>> \o tIds \in Seq(Token)
          /\ Len(<<target.pending>> \o tIds) = 1 + job.gamma
      BY <1>2, <3>1, CoreFacts
    <3>. QED
      BY <2>2, <3>2, CoreFacts DEF VerifyInput, RollbackBase
  <2>. QED
    BY <2>1, <2>2
<1>4. RollbackBase \in Nat
  BY CoreFacts DEF RollbackBase
<1>5. to \in 0 .. MaxSeq
  <2>1. target.pos + Len(ids) <= MaxSeq
    BY <1>1, CoreFacts DEF Fits
  <2>2. RollbackBase + job.gamma <= MaxSeq
    BY <1>3, <2>1
  <2>. QED
    BY <1>4, <2>2, CoreFacts
<1>6. /\ taken \in Executors(MaxSeq) /\ taken.pos = target.pos
      /\ taken.dev = taken.pos /\ taken.max = target.max
  BY CoreFacts, BonusOnly, TakeIsDeferNone, ExecutorFields
<1> HIDE DEF taken, ids, to
<1>7. Fits(taken, Len(ids))
  BY <1>1, <1>6 DEF Fits
<1> DEFINE f == Forward(taken, ids)
           r == RollbackCache(f, to)
<1>8. f \in Executors(MaxSeq)
  BY <1>3, <1>6, <1>7, CoreFacts, ForwardType
<1> HIDE DEF f
<1>9. r \in Executors(MaxSeq) /\ r.dev = to /\ r.pos = to
  BY <1>5, <1>8, CoreFacts, RollbackOnly
<1> HIDE DEF r
<1>10. /\ DeferBonusToken(r, bonus) \in Executors(MaxSeq)
       /\ DeferBonusToken(r, bonus).dev = DeferBonusToken(r, bonus).pos
  BY <1>9, CoreFacts, BonusOnly
<1>11. target' = DeferBonusToken(r, bonus)
  BY <1>1 DEF r, f
<1>12. RollbackBase + n \in Nat
  BY <1>4
<1>. QED
  BY <1>10, <1>11, <1>12

LEMMA TargetStepCore ==
    ASSUME Core, NEW n \in 0 .. job.gamma, NEW bonus \in Token, TargetStep(n, bonus)
    PROVE  Core'
<1> DEFINE answer == [n |-> n, bonus |-> bonus, prefix |-> target.pos,
                      cacheAfter |-> RollbackBase + n]
<1>1. /\ tpc = "verify" /\ tpc' = "send_result"
      /\ tResult' = answer
      /\ UNCHANGED <<setting, draftVars, net, exitCode>>
      /\ UNCHANGED <<job, tCommitted, tStep, tIds, tRows>>
  BY DEF TargetStep, setting
<1>2. UNCHANGED <<dpc, dStep>>
  BY <1>1 DEF draftVars, dLocal
<1>3. target' \in Executors(MaxSeq) /\ target'.dev = target'.pos
  BY TargetAfterStep
<1>4. tResult' \in Results /\ tResult'.n <= job.gamma
  <2>1. n \in Nat /\ n <= job.gamma /\ target.pos \in Nat /\ RollbackBase + n \in Nat
    BY CoreFacts, TargetAfterStep
  <2>. QED
    BY <1>1, <2>1 DEF Results
<1>5. TargetTypeOK'
  BY <1>1, <1>3, <1>4, CoreFacts DEF TargetTypeOK, TargetRaised
<1>6. TargetRounds'
  BY <1>1, <1>3, <1>4, CoreFacts DEF TargetRounds, TargetHasIds, TargetHasLogits, TargetSentResult
<1>7. ChannelsCount'
  BY <1>1, <1>2, CoreFacts
     DEF ChannelsCount, IdsSent, LogitsSent, ResultsRead, IdsRead, LogitsRead, ResultsSent,
         DraftHasResult, DraftSentLogits, DraftSentIds,
         TargetSentResult, TargetHasLogits, TargetHasIds
<1>. QED
  BY <1>1, <1>5, <1>6, <1>7, TargetMoveCore

LEMMA SendResultReturnsCore == ASSUME Core, SendResultReturns PROVE Core'
<1>1. /\ tpc = "sent_result"
      /\ tCommitted' = tCommitted \o SubSeq(tIds, 1, tResult.n) \o <<tResult.bonus>>
      /\ tStep' = tStep + 1
      /\ tpc' = IF tStep + 1 < job.steps THEN "await_ids" ELSE "flush"
      /\ UNCHANGED <<setting, draftVars, net, exitCode>>
      /\ UNCHANGED <<job, target, tIds, tRows, tResult>>
  BY DEF SendResultReturns, TargetLoop, setting, tLocal
<1>2. UNCHANGED <<dpc, dStep>>
  BY <1>1 DEF draftVars, dLocal
<1>3. tCommitted' \in Seq(Token)
  <2>1. /\ tIds \in Seq(DraftVocab) /\ tCommitted \in Seq(Token)
        /\ Len(tIds) = job.gamma /\ tResult \in Results /\ tResult.n <= job.gamma
    BY <1>1, CoreFacts DEF TargetTypeOK, TargetRounds, TargetHasIds, TargetHasLogits, TargetSentResult
  <2>2. tResult.n \in Nat /\ tResult.bonus \in Token
    BY <2>1 DEF Results
  <2>. QED
    BY <1>1, <2>1, <2>2, ExtendedText
<1>4. tStep < job.steps
  BY <1>1, CoreFacts DEF TargetRounds, TargetHasIds, TargetHasLogits, TargetSentResult
<1>5. TargetTypeOK'
  <2>1. tStep' \in 0 .. job.steps
    <3>1. tStep \in Nat /\ job.steps \in Nat
      BY CoreFacts
    <3>2. tStep' = tStep + 1
      BY <1>1
    <3>. QED
      BY <1>4, <3>1, <3>2
  <2>2. tpc' \in {"await_ids", "flush"}
    BY <1>1
  <2>3. TargetTypeOK
    BY CoreFacts
  <2>4. UNCHANGED <<job, target, tIds, tRows, tResult>>
    BY <1>1
  <2>. QED
    BY <1>3, <2>1, <2>2, <2>3, <2>4 DEF TargetTypeOK
<1>6. TargetRounds'
  BY <1>1, <1>4, CoreFacts DEF TargetRounds, TargetHasIds, TargetHasLogits, TargetSentResult
<1>7. ChannelsCount'
  BY <1>1, <1>2, CoreFacts
     DEF ChannelsCount, IdsSent, LogitsSent, ResultsRead, IdsRead, LogitsRead, ResultsSent,
         DraftHasResult, DraftSentLogits, DraftSentIds,
         TargetSentResult, TargetHasLogits, TargetHasIds
<1>. QED
  BY <1>1, <1>5, <1>6, <1>7, TargetMoveCore

LEMMA FlushCore == ASSUME Core, Flush PROVE Core'
<1>1. /\ tpc = "flush" /\ tpc' = "barrier"
      /\ target.pending # NoToken /\ Fits(target, 1)
      /\ target' = CommitPendingBonus(target)
      /\ UNCHANGED <<setting, draftVars, net, exitCode>>
      /\ UNCHANGED <<job, tCommitted, tStep, tIds, tRows, tResult>>
  BY DEF Flush, setting, tLocal
<1>2. UNCHANGED <<dpc, dStep>>
  BY <1>1 DEF draftVars, dLocal
<1>3. target' \in Executors(MaxSeq) /\ target'.dev = target'.pos
  BY <1>1, CoreFacts, CommitType
<1>4. TargetTypeOK'
  BY <1>1, <1>3, CoreFacts DEF TargetTypeOK, TargetRaised
<1>5. TargetRounds'
  BY <1>1, <1>3, CoreFacts DEF TargetRounds, TargetHasIds, TargetHasLogits, TargetSentResult
<1>6. ChannelsCount'
  BY <1>1, <1>2, CoreFacts
     DEF ChannelsCount, IdsSent, LogitsSent, ResultsRead, IdsRead, LogitsRead, ResultsSent,
         DraftHasResult, DraftSentLogits, DraftSentIds,
         TargetSentResult, TargetHasLogits, TargetHasIds
<1>. QED
  BY <1>1, <1>4, <1>5, <1>6, TargetMoveCore

LEMMA NothingToFlushCore == ASSUME Core, NothingToFlush PROVE Core'
<1>1. /\ tpc = "flush" /\ tpc' = "barrier"
      /\ UNCHANGED <<setting, draftVars, net, exitCode>>
      /\ UNCHANGED <<job, target, tCommitted, tStep, tIds, tRows, tResult>>
  BY DEF NothingToFlush, setting, tLocal
<1>2. UNCHANGED <<dpc, dStep>>
  BY <1>1 DEF draftVars, dLocal
<1>3. TargetTypeOK'
  BY <1>1, CoreFacts DEF TargetTypeOK, TargetRaised
<1>4. TargetRounds'
  BY <1>1, CoreFacts DEF TargetRounds, TargetHasIds, TargetHasLogits, TargetSentResult
<1>5. ChannelsCount'
  BY <1>1, <1>2, CoreFacts
     DEF ChannelsCount, IdsSent, LogitsSent, ResultsRead, IdsRead, LogitsRead, ResultsSent,
         DraftHasResult, DraftSentLogits, DraftSentIds,
         TargetSentResult, TargetHasLogits, TargetHasIds
<1>. QED
  BY <1>1, <1>3, <1>4, <1>5, TargetMoveCore

LEMMA FlushOverflowCore == ASSUME Core, FlushOverflow PROVE Core'
<1>1. /\ tpc = "flush" /\ tpc' = "raised_flush"
      /\ target' = TakePendingBonus(target)
      /\ UNCHANGED <<setting, draftVars, net, exitCode>>
      /\ UNCHANGED <<job, tCommitted, tStep, tIds, tRows, tResult>>
  BY DEF FlushOverflow, TargetRaises, setting, tLocal
<1>2. UNCHANGED <<dpc, dStep>>
  BY <1>1 DEF draftVars, dLocal
<1>3. target' \in Executors(MaxSeq) /\ target'.dev = target'.pos
  BY <1>1, CoreFacts, BonusOnly, TakeIsDeferNone
<1>4. TargetTypeOK'
  BY <1>1, <1>3, CoreFacts DEF TargetTypeOK, TargetRaised
<1>5. TargetRounds'
  BY <1>1, <1>3, CoreFacts DEF TargetRounds, TargetHasIds, TargetHasLogits, TargetSentResult
<1>6. ChannelsCount'
  BY <1>1, <1>2, CoreFacts
     DEF ChannelsCount, IdsSent, LogitsSent, ResultsRead, IdsRead, LogitsRead, ResultsSent,
         DraftHasResult, DraftSentLogits, DraftSentIds,
         TargetSentResult, TargetHasLogits, TargetHasIds
<1>. QED
  BY <1>1, <1>4, <1>5, <1>6, TargetMoveCore


-----------------------------------------------------------------------------
(* Sends and receives *)

\* A step of either rank on one channel, its peer as it was.
LEMMA ChannelMoveCore ==
    ASSUME Core, UNCHANGED <<setting, exitCode>>, NetTypeOK', NetSizes', ChannelsCount',
           \/ UNCHANGED targetVars /\ DraftTypeOK' /\ DraftRounds'
           \/ UNCHANGED draftVars /\ TargetTypeOK' /\ TargetRounds'
    PROVE  Core'
<1>1. /\ TargetTypeOK' /\ TargetRounds' /\ DraftTypeOK' /\ DraftRounds'
  BY TargetFrame, DraftFrame
<1>2. TypeOK /\ UNCHANGED <<job, eager, exitCode>>
  BY CoreFacts DEF setting
<1>. QED
  BY <1>1, <1>2 DEF Core, TypeOK, RoundsAndSizes

\* What a channel holds, before.
LEMMA ChannelFacts ==
    ASSUME Core
    PROVE  /\ DOMAIN net = Messages
           /\ net["ids"] \in Seq(Seq(DraftVocab))
           /\ net["logits"] \in Seq(Seq(Rows))
           /\ net["result"] \in Seq(Results)
           /\ \A i \in DOMAIN net["ids"] : Len(net["ids"][i]) = job.gamma
           /\ \A i \in DOMAIN net["result"] : net["result"][i].n <= job.gamma
BY CoreFacts DEF NetTypeOK, NetSizes

LEMMA CountsTyped ==
    ASSUME Core
    PROVE  /\ IdsSent \in Nat /\ LogitsSent \in Nat /\ ResultsRead \in Nat
           /\ IdsRead \in Nat /\ LogitsRead \in Nat /\ ResultsSent \in Nat
BY CoreFacts DEF IdsSent, LogitsSent, ResultsRead, IdsRead, LogitsRead, ResultsSent

\* The counts stay right when each channel grows by what was sent and shrinks by
\* what was received.
LEMMA CountsMove ==
    ASSUME Core, NEW i \in Int, NEW l \in Int, NEW r \in Int,
           Len(net["ids"])' = Len(net["ids"]) + i,
           Len(net["logits"])' = Len(net["logits"]) + l,
           Len(net["result"])' = Len(net["result"]) + r,
           IdsSent' - IdsRead' = (IdsSent - IdsRead) + i,
           LogitsSent' - LogitsRead' = (LogitsSent - LogitsRead) + l,
           ResultsSent' - ResultsRead' = (ResultsSent - ResultsRead) + r
    PROVE  ChannelsCount'
<1>1. ChannelsCount
  BY CoreFacts
<1>2. Len(net["ids"])' = IdsSent' - IdsRead'
  BY <1>1 DEF ChannelsCount
<1>3. Len(net["logits"])' = LogitsSent' - LogitsRead'
  BY <1>1 DEF ChannelsCount
<1>4. Len(net["result"])' = ResultsSent' - ResultsRead'
  BY <1>1 DEF ChannelsCount
<1>. QED
  BY <1>2, <1>3, <1>4 DEF ChannelsCount


LEMMA SendIdsCore == ASSUME Core, SendIds PROVE Core'
<1>1. /\ dpc = "send_ids" /\ dpc' = "sent_ids"
      /\ Post("ids", dIds)
      /\ UNCHANGED <<setting, targetVars, exitCode>>
      /\ UNCHANGED <<job, draft, lastLogits, prefixLen, dCommitted, dStep, dIds, dRows, dResult>>
  BY DEF SendIds, setting, dLocal
<1>2. UNCHANGED <<tpc, tStep>>
  BY <1>1 DEF targetVars, tLocal
<1>3. dIds \in Seq(DraftVocab) /\ Len(dIds) = job.gamma
  BY <1>1, CoreFacts DEF DraftTypeOK, DraftRounds
<1>4. /\ DOMAIN net' = Messages /\ net'["ids"] = Append(net["ids"], dIds)
      /\ net'["logits"] = net["logits"] /\ net'["result"] = net["result"]
  BY <1>1, PostFacts, ChannelFacts DEF Messages
<1>5. net'["ids"] \in Seq(Seq(DraftVocab)) /\ Len(net'["ids"]) = Len(net["ids"]) + 1
  BY <1>3, <1>4, ChannelType, ChannelFacts
<1>6. NetTypeOK'
  BY <1>4, <1>5, ChannelFacts DEF NetTypeOK
<1>7. NetSizes'
  BY <1>1, <1>3, <1>4, ChannelFacts DEF NetSizes
<1>8. DraftTypeOK'
  BY <1>1, CoreFacts DEF DraftTypeOK, DraftRaised
<1>9. DraftRounds'
  BY <1>1, CoreFacts DEF DraftRounds, DraftSentIds, DraftSentLogits, DraftHasResult
<1>10. ChannelsCount'
  <2>1. /\ IdsSent' = IdsSent + 1
        /\ LogitsSent' = LogitsSent /\ ResultsRead' = ResultsRead /\ IdsRead' = IdsRead
        /\ LogitsRead' = LogitsRead /\ ResultsSent' = ResultsSent
    BY <1>1, <1>2, CoreFacts
       DEF IdsSent, LogitsSent, ResultsRead, IdsRead, LogitsRead, ResultsSent,
           DraftHasResult, DraftSentLogits, DraftSentIds,
           TargetSentResult, TargetHasLogits, TargetHasIds
  <2>2. IdsSent' - IdsRead' = (IdsSent - IdsRead) + 1
    BY <2>1, CountsTyped
  <2>3. LogitsSent' - LogitsRead' = (LogitsSent - LogitsRead) + 0
    BY <2>1, CountsTyped
  <2>4. ResultsSent' - ResultsRead' = (ResultsSent - ResultsRead) + 0
    BY <2>1, CountsTyped
  <2>5. /\ Len(net["ids"])' = Len(net["ids"]) + 1
        /\ Len(net["logits"])' = Len(net["logits"]) + 0
        /\ Len(net["result"])' = Len(net["result"]) + 0
    BY <1>4, <1>5, CoreFacts, NetFacts
  <2>. QED
    BY <2>2, <2>3, <2>4, <2>5, CountsMove
<1>. QED
  BY <1>1, <1>6, <1>7, <1>8, <1>9, <1>10, ChannelMoveCore

LEMMA SendLogitsCore == ASSUME Core, SendLogits PROVE Core'
<1>1. /\ dpc = "send_logits" /\ dpc' = "sent_logits"
      /\ Post("logits", dRows)
      /\ UNCHANGED <<setting, targetVars, exitCode>>
      /\ UNCHANGED <<job, draft, lastLogits, prefixLen, dCommitted, dStep, dIds, dRows, dResult>>
  BY DEF SendLogits, setting, dLocal
<1>2. UNCHANGED <<tpc, tStep>>
  BY <1>1 DEF targetVars, tLocal
<1>3. dRows \in Seq(Rows)
  BY <1>1, CoreFacts DEF DraftTypeOK
<1>4. /\ DOMAIN net' = Messages /\ net'["logits"] = Append(net["logits"], dRows)
      /\ net'["ids"] = net["ids"] /\ net'["result"] = net["result"]
  BY <1>1, PostFacts, ChannelFacts DEF Messages
<1>5. net'["logits"] \in Seq(Seq(Rows)) /\ Len(net'["logits"]) = Len(net["logits"]) + 1
  BY <1>3, <1>4, ChannelType, ChannelFacts
<1>6. NetTypeOK'
  BY <1>4, <1>5, ChannelFacts DEF NetTypeOK
<1>7. NetSizes'
  BY <1>1, <1>3, <1>4, ChannelFacts DEF NetSizes
<1>8. DraftTypeOK'
  BY <1>1, CoreFacts DEF DraftTypeOK, DraftRaised
<1>9. DraftRounds'
  BY <1>1, CoreFacts DEF DraftRounds, DraftSentIds, DraftSentLogits, DraftHasResult
<1>10. ChannelsCount'
  <2>1. /\ LogitsSent' = LogitsSent + 1
        /\ IdsSent' = IdsSent /\ ResultsRead' = ResultsRead /\ IdsRead' = IdsRead
        /\ LogitsRead' = LogitsRead /\ ResultsSent' = ResultsSent
    BY <1>1, <1>2, CoreFacts
       DEF IdsSent, LogitsSent, ResultsRead, IdsRead, LogitsRead, ResultsSent,
           DraftHasResult, DraftSentLogits, DraftSentIds,
           TargetSentResult, TargetHasLogits, TargetHasIds
  <2>2. IdsSent' - IdsRead' = (IdsSent - IdsRead) + 0
    BY <2>1, CountsTyped
  <2>3. LogitsSent' - LogitsRead' = (LogitsSent - LogitsRead) + 1
    BY <2>1, CountsTyped
  <2>4. ResultsSent' - ResultsRead' = (ResultsSent - ResultsRead) + 0
    BY <2>1, CountsTyped
  <2>5. /\ Len(net["ids"])' = Len(net["ids"]) + 0
        /\ Len(net["logits"])' = Len(net["logits"]) + 1
        /\ Len(net["result"])' = Len(net["result"]) + 0
    BY <1>4, <1>5, CoreFacts, NetFacts
  <2>. QED
    BY <2>2, <2>3, <2>4, <2>5, CountsMove
<1>. QED
  BY <1>1, <1>6, <1>7, <1>8, <1>9, <1>10, ChannelMoveCore

LEMMA SendResultCore == ASSUME Core, SendResult PROVE Core'
<1>1. /\ tpc = "send_result" /\ tpc' = "sent_result"
      /\ Post("result", tResult)
      /\ UNCHANGED <<setting, draftVars, exitCode>>
      /\ UNCHANGED <<job, target, tCommitted, tStep, tIds, tRows, tResult>>
  BY DEF SendResult, setting, tLocal
<1>2. UNCHANGED <<dpc, dStep>>
  BY <1>1 DEF draftVars, dLocal
<1>3. tResult \in Results /\ tResult.n <= job.gamma
  BY <1>1, CoreFacts DEF TargetRounds
<1>4. /\ DOMAIN net' = Messages /\ net'["result"] = Append(net["result"], tResult)
      /\ net'["ids"] = net["ids"] /\ net'["logits"] = net["logits"]
  BY <1>1, PostFacts, ChannelFacts DEF Messages
<1>5. net'["result"] \in Seq(Results) /\ Len(net'["result"]) = Len(net["result"]) + 1
  BY <1>3, <1>4, ChannelType, ChannelFacts
<1>6. NetTypeOK'
  BY <1>4, <1>5, ChannelFacts DEF NetTypeOK
<1>7. NetSizes'
  BY <1>1, <1>3, <1>4, ChannelFacts DEF NetSizes
<1>8. TargetTypeOK'
  BY <1>1, CoreFacts DEF TargetTypeOK, TargetRaised
<1>9. TargetRounds'
  BY <1>1, CoreFacts DEF TargetRounds, TargetHasIds, TargetHasLogits, TargetSentResult
<1>10. ChannelsCount'
  <2>1. /\ ResultsSent' = ResultsSent + 1
        /\ IdsSent' = IdsSent /\ LogitsSent' = LogitsSent /\ ResultsRead' = ResultsRead
        /\ IdsRead' = IdsRead /\ LogitsRead' = LogitsRead
    BY <1>1, <1>2, CoreFacts
       DEF IdsSent, LogitsSent, ResultsRead, IdsRead, LogitsRead, ResultsSent,
           DraftHasResult, DraftSentLogits, DraftSentIds,
           TargetSentResult, TargetHasLogits, TargetHasIds
  <2>2. IdsSent' - IdsRead' = (IdsSent - IdsRead) + 0
    BY <2>1, CountsTyped
  <2>3. LogitsSent' - LogitsRead' = (LogitsSent - LogitsRead) + 0
    BY <2>1, CountsTyped
  <2>4. ResultsSent' - ResultsRead' = (ResultsSent - ResultsRead) + 1
    BY <2>1, CountsTyped
  <2>5. /\ Len(net["ids"])' = Len(net["ids"]) + 0
        /\ Len(net["logits"])' = Len(net["logits"]) + 0
        /\ Len(net["result"])' = Len(net["result"]) + 1
    BY <1>4, <1>5, CoreFacts, NetFacts
  <2>. QED
    BY <2>2, <2>3, <2>4, <2>5, CountsMove
<1>. QED
  BY <1>1, <1>6, <1>7, <1>8, <1>9, <1>10, ChannelMoveCore

LEMMA RecvIdsCore == ASSUME Core, RecvIds PROVE Core'
<1> DEFINE got == Head(net["ids"])
<1>1. /\ tpc = "await_ids" /\ tpc' = "await_logits"
      /\ Arrived("ids") /\ Receive("ids")
      /\ UNCHANGED <<setting, draftVars, exitCode>>
      /\ tIds' = got
      /\ UNCHANGED <<job, target, tCommitted, tStep, tRows, tResult>>
  BY DEF RecvIds, setting
<1>2. UNCHANGED <<dpc, dStep>>
  BY <1>1 DEF draftVars, dLocal
<1>3. net["ids"] # <<>> /\ got \in Seq(DraftVocab) /\ got = net["ids"][1] /\ 1 \in DOMAIN net["ids"]
  BY <1>1, ChannelFacts, ChannelType DEF Arrived
<1>4. /\ DOMAIN net' = Messages /\ net'["ids"] = Tail(net["ids"])
      /\ net'["logits"] = net["logits"] /\ net'["result"] = net["result"]
  BY <1>1, ReceiveFacts, ChannelFacts DEF Messages
<1>5. net'["ids"] \in Seq(Seq(DraftVocab)) /\ Len(net'["ids"]) = Len(net["ids"]) - 1
  BY <1>3, <1>4, ChannelType, ChannelFacts
<1>6. NetTypeOK'
  BY <1>4, <1>5, ChannelFacts DEF NetTypeOK
<1>7. NetSizes'
  <2>1. \A i \in DOMAIN net'["ids"] :
           i + 1 \in DOMAIN net["ids"] /\ net'["ids"][i] = net["ids"][i + 1]
    BY <1>3, <1>4, ChannelType, ChannelFacts
  <2>. QED
    BY <1>1, <1>4, <2>1, ChannelFacts DEF NetSizes
<1> HIDE DEF got
<1>8. Len(got) = job.gamma
  BY <1>3, ChannelFacts
<1>10. TargetTypeOK'
  BY <1>1, <1>3, CoreFacts DEF TargetTypeOK, TargetRaised
<1>11. TargetRounds'
  BY <1>1, <1>8, CoreFacts DEF TargetRounds, TargetHasIds, TargetHasLogits, TargetSentResult
<1>12. ChannelsCount'
  <2>1. /\ IdsRead' = IdsRead + 1
        /\ IdsSent' = IdsSent /\ LogitsSent' = LogitsSent /\ ResultsRead' = ResultsRead
        /\ LogitsRead' = LogitsRead /\ ResultsSent' = ResultsSent
    BY <1>1, <1>2, CoreFacts
       DEF IdsSent, LogitsSent, ResultsRead, IdsRead, LogitsRead, ResultsSent,
           DraftHasResult, DraftSentLogits, DraftSentIds,
           TargetSentResult, TargetHasLogits, TargetHasIds
  <2>2. IdsSent' - IdsRead' = (IdsSent - IdsRead) + (-1)
    BY <2>1, CountsTyped
  <2>3. LogitsSent' - LogitsRead' = (LogitsSent - LogitsRead) + 0
    BY <2>1, CountsTyped
  <2>4. ResultsSent' - ResultsRead' = (ResultsSent - ResultsRead) + 0
    BY <2>1, CountsTyped
  <2>5. /\ Len(net["ids"])' = Len(net["ids"]) + (-1)
        /\ Len(net["logits"])' = Len(net["logits"]) + 0
        /\ Len(net["result"])' = Len(net["result"]) + 0
    BY <1>4, <1>5, CoreFacts, NetFacts
  <2>. QED
    BY <2>2, <2>3, <2>4, <2>5, CountsMove
<1>. QED
  BY <1>1, <1>6, <1>7, <1>10, <1>11, <1>12, ChannelMoveCore

LEMMA RecvLogitsCore == ASSUME Core, RecvLogits PROVE Core'
<1> DEFINE got == Head(net["logits"])
<1>1. /\ tpc = "await_logits" /\ tpc' = "verify"
      /\ Arrived("logits") /\ Receive("logits")
      /\ UNCHANGED <<setting, draftVars, exitCode>>
      /\ tRows' = got
      /\ UNCHANGED <<job, target, tCommitted, tStep, tIds, tResult>>
  BY DEF RecvLogits, setting
<1>2. UNCHANGED <<dpc, dStep>>
  BY <1>1 DEF draftVars, dLocal
<1>3. net["logits"] # <<>> /\ got \in Seq(Rows) /\ got = net["logits"][1] /\ 1 \in DOMAIN net["logits"]
  BY <1>1, ChannelFacts, ChannelType DEF Arrived
<1>4. /\ DOMAIN net' = Messages /\ net'["logits"] = Tail(net["logits"])
      /\ net'["ids"] = net["ids"] /\ net'["result"] = net["result"]
  BY <1>1, ReceiveFacts, ChannelFacts DEF Messages
<1>5. net'["logits"] \in Seq(Seq(Rows)) /\ Len(net'["logits"]) = Len(net["logits"]) - 1
  BY <1>3, <1>4, ChannelType, ChannelFacts
<1>6. NetTypeOK'
  BY <1>4, <1>5, ChannelFacts DEF NetTypeOK
<1>7. NetSizes'
  <2>1. \A i \in DOMAIN net'["logits"] :
           i + 1 \in DOMAIN net["logits"] /\ net'["logits"][i] = net["logits"][i + 1]
    BY <1>3, <1>4, ChannelType, ChannelFacts
  <2>. QED
    BY <1>1, <1>4, <2>1, ChannelFacts DEF NetSizes
<1> HIDE DEF got
<1>10. TargetTypeOK'
  BY <1>1, <1>3, CoreFacts DEF TargetTypeOK, TargetRaised
<1>11. TargetRounds'
  BY <1>1, CoreFacts DEF TargetRounds, TargetHasIds, TargetHasLogits, TargetSentResult
<1>12. ChannelsCount'
  <2>1. /\ LogitsRead' = LogitsRead + 1
        /\ IdsSent' = IdsSent /\ LogitsSent' = LogitsSent /\ ResultsRead' = ResultsRead
        /\ IdsRead' = IdsRead /\ ResultsSent' = ResultsSent
    BY <1>1, <1>2, CoreFacts
       DEF IdsSent, LogitsSent, ResultsRead, IdsRead, LogitsRead, ResultsSent,
           DraftHasResult, DraftSentLogits, DraftSentIds,
           TargetSentResult, TargetHasLogits, TargetHasIds
  <2>2. IdsSent' - IdsRead' = (IdsSent - IdsRead) + 0
    BY <2>1, CountsTyped
  <2>3. LogitsSent' - LogitsRead' = (LogitsSent - LogitsRead) + (-1)
    BY <2>1, CountsTyped
  <2>4. ResultsSent' - ResultsRead' = (ResultsSent - ResultsRead) + 0
    BY <2>1, CountsTyped
  <2>5. /\ Len(net["ids"])' = Len(net["ids"]) + 0
        /\ Len(net["logits"])' = Len(net["logits"]) + (-1)
        /\ Len(net["result"])' = Len(net["result"]) + 0
    BY <1>4, <1>5, CoreFacts, NetFacts
  <2>. QED
    BY <2>2, <2>3, <2>4, <2>5, CountsMove
<1>. QED
  BY <1>1, <1>6, <1>7, <1>10, <1>11, <1>12, ChannelMoveCore

LEMMA RecvResultCore == ASSUME Core, RecvResult PROVE Core'
<1> DEFINE got == Head(net["result"])
<1>1. /\ dpc = "await_result" /\ dpc' = "feedback"
      /\ Arrived("result") /\ Receive("result")
      /\ UNCHANGED <<setting, targetVars, exitCode>>
      /\ dResult' = got
      /\ dCommitted' = dCommitted \o SubSeq(dIds, 1, got.n) \o <<got.bonus>>
      /\ UNCHANGED <<job, draft, lastLogits, prefixLen, dStep, dIds, dRows>>
  BY DEF RecvResult, setting
<1>2. UNCHANGED <<tpc, tStep>>
  BY <1>1 DEF targetVars, tLocal
<1>3. net["result"] # <<>> /\ got \in Results /\ got = net["result"][1] /\ 1 \in DOMAIN net["result"]
  BY <1>1, ChannelFacts, ChannelType DEF Arrived
<1>4. /\ DOMAIN net' = Messages /\ net'["result"] = Tail(net["result"])
      /\ net'["ids"] = net["ids"] /\ net'["logits"] = net["logits"]
  BY <1>1, ReceiveFacts, ChannelFacts DEF Messages
<1>5. net'["result"] \in Seq(Results) /\ Len(net'["result"]) = Len(net["result"]) - 1
  BY <1>3, <1>4, ChannelType, ChannelFacts
<1>6. NetTypeOK'
  BY <1>4, <1>5, ChannelFacts DEF NetTypeOK
<1>7. NetSizes'
  <2>1. \A i \in DOMAIN net'["result"] :
           i + 1 \in DOMAIN net["result"] /\ net'["result"][i] = net["result"][i + 1]
    BY <1>3, <1>4, ChannelType, ChannelFacts
  <2>. QED
    BY <1>1, <1>4, <2>1, ChannelFacts DEF NetSizes
<1> HIDE DEF got
<1>8. got.n \in Nat /\ got.n <= job.gamma /\ got.bonus \in Token
  BY <1>3, ChannelFacts DEF Results
<1>9. dCommitted' \in Seq(Token)
  <2>1. dIds \in Seq(DraftVocab) /\ Len(dIds) = job.gamma /\ dCommitted \in Seq(Token)
    BY <1>1, CoreFacts DEF DraftTypeOK, DraftRounds, DraftSentIds, DraftSentLogits
  <2>. QED
    BY <1>1, <1>8, <2>1, ExtendedText
<1>10. DraftTypeOK'
  BY <1>1, <1>3, <1>9, CoreFacts DEF DraftTypeOK, DraftRaised
<1>11. DraftRounds'
  BY <1>1, <1>8, CoreFacts DEF DraftRounds, DraftSentIds, DraftSentLogits, DraftHasResult
<1>12. ChannelsCount'
  <2>1. /\ ResultsRead' = ResultsRead + 1
        /\ IdsSent' = IdsSent /\ LogitsSent' = LogitsSent /\ IdsRead' = IdsRead
        /\ LogitsRead' = LogitsRead /\ ResultsSent' = ResultsSent
    BY <1>1, <1>2, CoreFacts
       DEF IdsSent, LogitsSent, ResultsRead, IdsRead, LogitsRead, ResultsSent,
           DraftHasResult, DraftSentLogits, DraftSentIds,
           TargetSentResult, TargetHasLogits, TargetHasIds
  <2>2. IdsSent' - IdsRead' = (IdsSent - IdsRead) + 0
    BY <2>1, CountsTyped
  <2>3. LogitsSent' - LogitsRead' = (LogitsSent - LogitsRead) + 0
    BY <2>1, CountsTyped
  <2>4. ResultsSent' - ResultsRead' = (ResultsSent - ResultsRead) + (-1)
    BY <2>1, CountsTyped
  <2>5. /\ Len(net["ids"])' = Len(net["ids"]) + 0
        /\ Len(net["logits"])' = Len(net["logits"]) + 0
        /\ Len(net["result"])' = Len(net["result"]) + (-1)
    BY <1>4, <1>5, CoreFacts, NetFacts
  <2>. QED
    BY <2>2, <2>3, <2>4, <2>5, CountsMove
<1>. QED
  BY <1>1, <1>6, <1>7, <1>10, <1>11, <1>12, ChannelMoveCore

-----------------------------------------------------------------------------
(* The end of the job *)

LEMMA BarrierCore == ASSUME Core, Barrier PROVE Core'
<1>1. /\ tpc = "barrier" /\ dpc = "barrier" /\ tpc' = "compare" /\ dpc' = "exit"
      /\ UNCHANGED <<setting, net, exitCode>>
      /\ UNCHANGED <<job, target, tCommitted, tStep, tIds, tRows, tResult>>
      /\ UNCHANGED <<draft, lastLogits, prefixLen, dCommitted, dStep, dIds, dRows, dResult>>
  BY DEF Barrier, setting, tLocal, dLocal
<1>2. TargetTypeOK' /\ TargetRounds'
  BY <1>1, CoreFacts DEF TargetTypeOK, TargetRaised, TargetRounds, TargetHasIds,
                         TargetHasLogits, TargetSentResult
<1>3. DraftTypeOK' /\ DraftRounds'
  BY <1>1, CoreFacts DEF DraftTypeOK, DraftRaised, DraftRounds, DraftSentIds,
                         DraftSentLogits, DraftHasResult
<1>4. NetTypeOK' /\ NetSizes'
  BY <1>1, NetFrame
<1>5. ChannelsCount'
  BY <1>1, CoreFacts
     DEF ChannelsCount, IdsSent, LogitsSent, ResultsRead, IdsRead, LogitsRead, ResultsSent,
         DraftHasResult, DraftSentLogits, DraftSentIds,
         TargetSentResult, TargetHasLogits, TargetHasIds
<1>6. TypeOK /\ UNCHANGED <<job, eager, exitCode>>
  BY <1>1, CoreFacts DEF setting
<1>. QED
  BY <1>2, <1>3, <1>4, <1>5, <1>6 DEF Core, TypeOK, RoundsAndSizes

LEMMA CompareCore == ASSUME Core, Compare PROVE Core'
<1>1. /\ tpc = "compare" /\ tpc' \in {"exit", "raised_summary"}
      /\ exitCode' \in {exitCode, 0, 2}
      /\ UNCHANGED <<setting, draftVars, net>>
      /\ UNCHANGED <<job, target, tCommitted, tStep, tIds, tRows, tResult>>
  BY DEF Compare, TargetRaises, setting, tLocal
<1>2. UNCHANGED <<dpc, dStep>>
  BY <1>1 DEF draftVars, dLocal
<1>3. TargetTypeOK' /\ TargetRounds'
  BY <1>1, CoreFacts DEF TargetTypeOK, TargetRaised, TargetRounds, TargetHasIds,
                         TargetHasLogits, TargetSentResult
<1>4. DraftTypeOK' /\ DraftRounds' /\ NetTypeOK' /\ NetSizes'
  BY <1>1, DraftFrame, NetFrame
<1>5. ChannelsCount'
  BY <1>1, <1>2, CoreFacts
     DEF ChannelsCount, IdsSent, LogitsSent, ResultsRead, IdsRead, LogitsRead, ResultsSent,
         DraftHasResult, DraftSentLogits, DraftSentIds,
         TargetSentResult, TargetHasLogits, TargetHasIds
<1>6. job' \in Jobs /\ eager' \in EagerSets /\ exitCode' \in {NoExit, 0, 2}
  BY <1>1, CoreFacts DEF setting, TypeOK
<1>. QED
  BY <1>3, <1>4, <1>5, <1>6 DEF Core, TypeOK, RoundsAndSizes

-----------------------------------------------------------------------------
(* The invariant *)

LEMMA InitCore == Init => Core
<1>. SUFFICES ASSUME Init PROVE Core
  OBVIOUS
<1>1. job.prompt \in Seq(Token) /\ job.steps \in Nat
  <2>1. job \in [prompt : Seq(DraftVocab) \ {<<>>}, steps : Nat, gamma : 1 .. MaxGamma]
    BY MpiAssumption DEF Init
  <2>. QED
    BY <2>1, DraftIsToken
<1>2. NewExecutor(MaxSeq) \in Executors(MaxSeq) /\ NewExecutor(MaxSeq).dev = NewExecutor(MaxSeq).pos
  BY MaxSeqNat, NewExecutorType
<1>3. NoRow \in Rows
  BY DEF NoRow, Rows
<1>4. TargetTypeOK
  BY <1>1, <1>2 DEF Init, TargetTypeOK
<1>5. DraftTypeOK
  BY <1>1, <1>2, <1>3, MaxSeqNat DEF Init, DraftTypeOK
<1>6. /\ DOMAIN net = Messages
      /\ net["ids"] = <<>> /\ net["logits"] = <<>> /\ net["result"] = <<>>
  BY DEF Init, Messages
<1>7. NetTypeOK /\ NetSizes
  BY <1>6 DEF NetTypeOK, NetSizes
<1>8. TargetRounds /\ DraftRounds
  BY <1>2 DEF Init, TargetRounds, DraftRounds, TargetHasIds, TargetHasLogits, TargetSentResult,
              DraftSentIds, DraftSentLogits, DraftHasResult
<1>9. ChannelsCount
  <2>1. /\ IdsSent = 0 /\ LogitsSent = 0 /\ ResultsRead = 0
        /\ IdsRead = 0 /\ LogitsRead = 0 /\ ResultsSent = 0
    BY DEF Init, IdsSent, LogitsSent, ResultsRead, IdsRead, LogitsRead, ResultsSent,
           DraftHasResult, DraftSentLogits, DraftSentIds,
           TargetSentResult, TargetHasLogits, TargetHasIds
  <2>2. Len(net["ids"]) = 0 /\ Len(net["logits"]) = 0 /\ Len(net["result"]) = 0
    BY <1>6
  <2>. QED
    BY <2>1, <2>2 DEF ChannelsCount
<1>10. job \in Jobs /\ eager \in EagerSets /\ exitCode \in {NoExit, 0, 2}
  BY DEF Init
<1>. QED
  BY <1>4, <1>5, <1>7, <1>8, <1>9, <1>10 DEF Core, TypeOK, RoundsAndSizes

LEMMA StutterCore == ASSUME Core, UNCHANGED vars PROVE Core'
<1>1. UNCHANGED <<setting, targetVars, net, exitCode>> /\ UNCHANGED draftVars
  BY DEF vars
<1>2. DraftTypeOK' /\ DraftRounds'
  BY <1>1, DraftFrame
<1>3. UNCHANGED <<tpc, tStep, dpc, dStep, net>>
  BY <1>1 DEF targetVars, draftVars, dLocal
<1>4. ChannelsCount'
  BY <1>3, CoreFacts
     DEF ChannelsCount, IdsSent, LogitsSent, ResultsRead, IdsRead, LogitsRead, ResultsSent,
         DraftHasResult, DraftSentLogits, DraftSentIds,
         TargetSentResult, TargetHasLogits, TargetHasIds
<1>. QED
  BY <1>1, <1>2, <1>4, DraftMoveCore

LEMMA NextCore == Core /\ [Next]_vars => Core'
<1>. SUFFICES ASSUME Core, [Next]_vars PROVE Core'
  OBVIOUS
<1>1. ASSUME DraftNext PROVE Core'
  BY <1>1, DraftPrefillCore, DraftPrefillOverflowCore, GenerateDraftsCore,
     GenerateOverflowCore, SendIdsCore, SendIdsReturnsCore, SendLogitsCore,
     SendLogitsReturnsCore, RecvResultCore, ApplyTargetFeedbackCore,
     FeedbackVocabErrorCore, FeedbackOverflowCore DEF DraftNext
<1>2. ASSUME TargetNext PROVE Core'
  BY <1>2, TargetPrefillCore, TargetPrefillOverflowCore, RecvIdsCore, RecvLogitsCore,
     TargetStepCore, SendResultCore, SendResultReturnsCore, FlushCore,
     NothingToFlushCore, FlushOverflowCore DEF TargetNext
<1>3. ASSUME Collective PROVE Core'
  BY <1>3, BarrierCore, CompareCore DEF Collective
<1>4. ASSUME UNCHANGED vars PROVE Core'
  BY <1>4, StutterCore
<1>. QED
  BY <1>1, <1>2, <1>3, <1>4 DEF Next

\* The two ranks of mpi_coordinator.py stay in step: whatever MPI lets a send do
\* and whichever rank raises, every channel holds just what its receiver has
\* still to read, never more than one message, and no payload is under way with
\* a result (mpi_protocol.py); the cursors stay in the caches.
THEOREM ProtocolHolds == Spec => []ProtocolInv
<1>1. Core => ProtocolInv
  BY CountsBound DEF Core, ProtocolInv
<1>. QED
  BY <1>1, InitCore, NextCore, PTL DEF Spec

-----------------------------------------------------------------------------
(***************************************************************************)
(* AgreementInv is inductive on top of Core.  From it follow what the      *)
(* ranks agree on: the rows that are compared, the caches, the room in     *)
(* them, the exit code, and that the two programs implement LockstepText.  *)
(***************************************************************************)

IInv == Core /\ AgreementInv

-----------------------------------------------------------------------------
(* Where the ranks can be *)

\* What the channel counts say of the two program counters: an answer is owed
\* only while the draft waits with both its messages sent, and a payload is read
\* only while the draft still has it.
LEMMA StandFacts ==
    ASSUME Core
    PROVE  /\ RoundsMade \in Nat /\ ResultsRead \in Nat
           /\ RoundsMade # ResultsRead => RoundsMade = ResultsRead + 1
           /\ RoundsMade # ResultsRead => dpc \in {"sent_logits", "await_result"}
           /\ Arrived("result") => RoundsMade # ResultsRead
           /\ dpc \notin {"sent_ids", "send_logits", "sent_logits", "await_result"} =>
                 ~Arrived("ids") /\ tpc \notin {"await_logits", "verify"}
           /\ dpc \notin {"sent_logits", "await_result"} =>
                 ~Arrived("logits") /\ tpc # "verify"
           /\ tpc \in {"await_logits", "verify"} => RoundsMade = ResultsRead
           /\ tpc = "send_result" => RoundsMade # ResultsRead /\ ~Arrived("result")
           /\ dpc = "send_ids" => ~Arrived("ids")
           /\ dpc = "send_logits" => ~Arrived("logits")
<1> DEFINE i == Len(net["ids"])
           l == Len(net["logits"])
           r == Len(net["result"])
<1>1. /\ i \in Nat /\ l \in Nat /\ r \in Nat /\ tStep \in Nat /\ dStep \in Nat
  BY CoreFacts, NetFacts
<1>2. /\ Arrived("ids") <=> i # 0
      /\ Arrived("logits") <=> l # 0
      /\ Arrived("result") <=> r # 0
  <2>1. /\ net["ids"] \in Seq(Seq(DraftVocab))
        /\ net["logits"] \in Seq(Seq(Rows))
        /\ net["result"] \in Seq(Results)
    BY ChannelFacts
  <2>. QED
    BY <2>1 DEF Arrived
<1>3. i = IdsSent - IdsRead /\ l = LogitsSent - LogitsRead /\ r = ResultsSent - ResultsRead
  BY CoreFacts DEF ChannelsCount
<1> HIDE DEF i, l, r
<1>4. RoundsMade \in Nat /\ ResultsRead \in Nat
  BY <1>1 DEF RoundsMade, ResultsRead
<1>5. /\ RoundsMade # ResultsRead => RoundsMade = ResultsRead + 1
      /\ RoundsMade # ResultsRead => dpc \in {"sent_logits", "await_result"}
  BY <1>1, <1>3
     DEF IdsSent, LogitsSent, ResultsRead, IdsRead, LogitsRead, ResultsSent, RoundsMade,
         DraftHasResult, DraftSentLogits, DraftSentIds,
         TargetSentResult, TargetHasLogits, TargetHasIds
<1>6. r # 0 => RoundsMade # ResultsRead
  BY <1>1, <1>3 DEF ResultsRead, ResultsSent, RoundsMade, DraftHasResult, TargetSentResult
<1>7. /\ dpc \notin {"sent_ids", "send_logits", "sent_logits", "await_result"} =>
            i = 0 /\ tpc \notin {"await_logits", "verify"}
      /\ dpc = "send_ids" => i = 0
  BY <1>1, <1>3
     DEF IdsSent, LogitsSent, ResultsRead, IdsRead, LogitsRead, ResultsSent,
         DraftHasResult, DraftSentLogits, DraftSentIds,
         TargetSentResult, TargetHasLogits, TargetHasIds
<1>8. /\ dpc \notin {"sent_logits", "await_result"} => l = 0 /\ tpc # "verify"
      /\ dpc = "send_logits" => l = 0
  BY <1>1, <1>3
     DEF IdsSent, LogitsSent, ResultsRead, IdsRead, LogitsRead, ResultsSent,
         DraftHasResult, DraftSentLogits, DraftSentIds,
         TargetSentResult, TargetHasLogits, TargetHasIds
<1>9. /\ tpc \in {"await_logits", "verify"} => RoundsMade = ResultsRead
      /\ tpc = "send_result" => RoundsMade # ResultsRead /\ r = 0
  BY <1>1, <1>3
     DEF IdsSent, LogitsSent, ResultsRead, IdsRead, LogitsRead, ResultsSent, RoundsMade,
         DraftHasResult, DraftSentLogits, DraftSentIds,
         TargetSentResult, TargetHasLogits, TargetHasIds
<1>. QED
  BY <1>2, <1>4, <1>5, <1>6, <1>7, <1>8, <1>9

\* The types of the texts.
LEMMA TextTypes ==
    ASSUME Core
    PROVE  /\ dCommitted \in Seq(Token) /\ Len(dCommitted) \in Nat
           /\ tCommitted \in Seq(Token) /\ Len(tCommitted) \in Nat
           /\ dIds \in Seq(DraftVocab) /\ dIds \in Seq(Token)
           /\ tIds \in Seq(DraftVocab) /\ tIds \in Seq(Token)
           /\ dCommitted \o dIds \in Seq(Token)
           /\ Len(dCommitted \o dIds) = Len(dCommitted) + Len(dIds)
           /\ Lead \in Seq(Token) /\ Len(Lead) \in Nat
<1>1. /\ dCommitted \in Seq(Token) /\ tCommitted \in Seq(Token)
      /\ dIds \in Seq(DraftVocab) /\ tIds \in Seq(DraftVocab)
  BY CoreFacts DEF TargetTypeOK, DraftTypeOK
<1>2. dIds \in Seq(Token) /\ tIds \in Seq(Token)
  BY <1>1, DraftIsToken
<1>3. dCommitted \o dIds \in Seq(Token) /\ Len(dCommitted \o dIds) = Len(dCommitted) + Len(dIds)
  BY <1>1, <1>2
<1>4. Lead \in Seq(Token)
  <2>1. CASE tpc \in {"send_result", "sent_result"}
    <3>1. /\ tResult \in Results /\ tResult.n <= job.gamma /\ Len(tIds) = job.gamma
      BY <2>1, CoreFacts DEF TargetRounds, TargetHasIds, TargetHasLogits, TargetSentResult
    <3>2. tResult.n \in Nat /\ tResult.bonus \in Token
      BY <3>1 DEF Results
    <3>3. tCommitted \o SubSeq(tIds, 1, tResult.n) \o <<tResult.bonus>> \in Seq(Token)
      BY <1>1, <3>1, <3>2, ExtendedText
    <3>. QED
      BY <2>1, <3>3 DEF Lead
  <2>2. CASE tpc \notin {"send_result", "sent_result"}
    BY <1>1, <2>2 DEF Lead
  <2>. QED
    BY <2>1, <2>2
<1>. QED
  BY <1>1, <1>2, <1>3, <1>4

\* What a step starts from.
LEMMA IFacts ==
    ASSUME IInv
    PROVE  /\ Core /\ TextsInStep /\ MessagesCurrent /\ TargetStands /\ DraftStands
           /\ TextBounds /\ Ending
BY DEF IInv, AgreementInv

\* The text the target leads with while an answer is owed.
LEMMA LeadFacts ==
    ASSUME IInv, RoundsMade # ResultsRead
    PROVE  /\ tResult.n \in Nat /\ tResult.n <= job.gamma /\ tResult.bonus \in Token
           /\ Len(dIds) = job.gamma
           /\ Lead \in Seq(Token) /\ Len(Lead) = Len(dCommitted) + tResult.n + 1
           /\ \A i \in 1 .. Len(dCommitted) + tResult.n : Lead[i] = (dCommitted \o dIds)[i]
           /\ Lead[Len(dCommitted) + tResult.n + 1] = tResult.bonus
<1> DEFINE n == tResult.n
           b == tResult.bonus
           o == dCommitted \o SubSeq(dIds, 1, n) \o <<b>>
<1>1. tResult \in Results /\ n <= job.gamma /\ Lead = o
  BY IFacts DEF TextsInStep
<1>2. n \in Nat /\ b \in Token
  BY <1>1 DEF Results
<1>3. dpc \in {"sent_logits", "await_result"}
  BY IFacts, StandFacts
<1>4. Len(dIds) = job.gamma /\ job.gamma \in Nat
  BY <1>3, IFacts, CoreFacts DEF DraftRounds, DraftSentIds, DraftSentLogits
<1>5. dCommitted \in Seq(Token) /\ dIds \in Seq(Token)
  BY IFacts, TextTypes
<1>6. n \in 0 .. Len(dIds)
  BY <1>1, <1>2, <1>4
<1> HIDE DEF n, b
<1>7. /\ o \in Seq(Token) /\ Len(o) = Len(dCommitted) + n + 1
      /\ \A i \in 1 .. Len(dCommitted) + n : o[i] = (dCommitted \o dIds)[i]
      /\ \A i \in 1 .. Len(dCommitted) : o[i] = dCommitted[i]
      /\ \A i \in 1 .. n : o[Len(dCommitted) + i] = dIds[i]
      /\ o[Len(dCommitted) + n + 1] = b
  BY <1>2, <1>5, <1>6, AcceptedText, ZenonT(30)
<1> HIDE DEF o
<1>8. /\ Lead \in Seq(Token) /\ Len(Lead) = Len(dCommitted) + n + 1
      /\ \A i \in 1 .. Len(dCommitted) + n : Lead[i] = (dCommitted \o dIds)[i]
      /\ Lead[Len(dCommitted) + n + 1] = b
  BY <1>1, <1>7, Zenon
<1>. QED
  BY <1>1, <1>2, <1>4, <1>8, Zenon DEF n, b

-----------------------------------------------------------------------------
(* What a step of one rank leaves to the other *)

LEMMA TargetStandsFrame ==
    ASSUME TargetStands, UNCHANGED <<setting, targetVars>>
    PROVE  TargetStands' /\ Lead' = Lead /\ RoundsMade' = RoundsMade
<1>1. UNCHANGED <<job, tpc, target, tCommitted, tStep, tIds, tRows, tResult>>
  BY DEF setting, targetVars, tLocal
<1>2. Lead' = Lead /\ RoundsMade' = RoundsMade
  BY <1>1 DEF Lead, RoundsMade
<1>. QED
  BY <1>1, <1>2 DEF TargetStands, TargetRaised, BudgetCovers, Coherent

LEMMA DraftStandsFrame ==
    ASSUME DraftStands, TextBounds, UNCHANGED <<setting, draftVars>>
    PROVE  DraftStands' /\ TextBounds' /\ ResultsRead' = ResultsRead
<1>1. UNCHANGED <<job, dpc, draft, lastLogits, prefixLen, dCommitted, dStep, dIds, dRows, dResult>>
  BY DEF setting, draftVars, dLocal
<1>2. ResultsRead' = ResultsRead /\ Drafted' = Drafted
  BY <1>1 DEF ResultsRead, DraftHasResult, Drafted
<1>3. TextBounds'
  BY <1>1, <1>2 DEF TextBounds, BudgetCovers
<1>4. DraftStands'
  BY <1>1, <1>2 DEF DraftStands, DraftRaised, Coherent
<1>. QED
  BY <1>2, <1>3, <1>4

LEMMA EndingOfDraft ==
    ASSUME IInv, UNCHANGED <<targetVars, exitCode>>, dpc # "exit"
    PROVE  Ending'
BY IFacts DEF Ending, targetVars

LEMMA EndingOfTarget ==
    ASSUME IInv, UNCHANGED exitCode, tpc # "exit", tpc' \notin {"compare", "exit"}
    PROVE  Ending'
BY IFacts DEF Ending

\* A step of the draft on its own data, the channels as they were.  It may draft
\* anew or change prefixLen only while no answer is owed.
LEMMA DraftMove ==
    ASSUME IInv, UNCHANGED <<setting, targetVars, net, exitCode>>, dpc # "exit",
           DraftStands', TextBounds', ResultsRead' = ResultsRead, dCommitted' = dCommitted,
           \/ dIds' = dIds /\ dRows' = dRows
           \/ dpc \notin {"sent_ids", "send_logits", "sent_logits", "await_result"},
           \/ dIds' = dIds /\ prefixLen' = prefixLen
           \/ dpc \notin {"sent_logits", "await_result"}
    PROVE  AgreementInv'
<1>1. /\ UNCHANGED <<job, tpc, tStep, tIds, tRows, tResult, net>>
  BY DEF setting, targetVars, tLocal
<1>2. TargetStands' /\ Lead' = Lead /\ RoundsMade' = RoundsMade
  BY IFacts, TargetStandsFrame
<1>3. TextsInStep'
  BY <1>1, <1>2, IFacts, StandFacts DEF TextsInStep
<1>4. MessagesCurrent'
  <2>1. CASE dIds' = dIds /\ dRows' = dRows
    BY <1>1, <2>1, IFacts DEF MessagesCurrent, Arrived
  <2>2. CASE dpc \notin {"sent_ids", "send_logits", "sent_logits", "await_result"}
    <3>1. /\ ~Arrived("ids") /\ ~Arrived("logits")
          /\ tpc \notin {"await_logits", "verify"}
      BY <2>2, IFacts, StandFacts
    <3>. QED
      BY <1>1, <3>1, IFacts DEF MessagesCurrent, Arrived
  <2>. QED
    BY <2>1, <2>2
<1>5. Ending'
  BY EndingOfDraft
<1>. QED
  BY <1>2, <1>3, <1>4, <1>5 DEF AgreementInv

\* A step of the target on its own data: the channels, and what the draft has
\* and the target has received, as they were.
LEMMA TargetMove ==
    ASSUME IInv, UNCHANGED <<setting, draftVars, net, exitCode>>,
           tpc # "exit", tpc' \notin {"compare", "exit", "await_logits", "verify"},
           TargetStands', TextsInStep', tResult' = tResult \/ ~Arrived("result")
    PROVE  AgreementInv'
<1>1. DraftStands' /\ TextBounds' /\ Ending'
  BY IFacts, DraftStandsFrame, EndingOfTarget
<1>2. UNCHANGED <<dIds, dRows, net>>
  BY DEF draftVars, dLocal
<1>3. MessagesCurrent'
  BY <1>2, IFacts DEF MessagesCurrent, Arrived
<1>. QED
  BY <1>1, <1>3 DEF AgreementInv

\* When neither the text the target leads with nor the answer changes.
LEMMA TextsStay ==
    ASSUME IInv, UNCHANGED <<setting, draftVars>>, Lead' = Lead,
           RoundsMade' = RoundsMade, tResult' = tResult
    PROVE  TextsInStep'
<1>1. UNCHANGED <<job, dCommitted, dIds, prefixLen>>
  BY DEF setting, draftVars, dLocal
<1>2. ResultsRead' = ResultsRead
  BY IFacts, DraftStandsFrame
<1>. QED
  BY <1>1, <1>2, IFacts DEF TextsInStep

-----------------------------------------------------------------------------
(* How long a text can get *)

\* k rounds of at most g + 1 tokens, k no more than n.
LEMMA RoundsFit ==
    ASSUME NEW k \in Nat, NEW n \in Nat, k <= n, NEW g \in Nat
    PROVE  /\ k * (g + 1) <= n * (g + 1)
           /\ k * (g + 1) \in Nat /\ n * (g + 1) \in Nat
           /\ (k + 1) * (g + 1) = k * (g + 1) + g + 1
<1>1. PICK d \in Nat : n = k + d
  <2>1. n - k \in Nat /\ n = k + (n - k)
    OBVIOUS
  <2>. QED
    BY <2>1
<1>2. d * (g + 1) \in Nat /\ k * (g + 1) \in Nat
  OBVIOUS
<1>3. (k + d) * (g + 1) = k * (g + 1) + d * (g + 1)
  OBVIOUS
<1>. QED
  BY <1>1, <1>2, <1>3

\* The target's text too, with the round under way.
LEMMA LeadBound ==
    ASSUME IInv
    PROVE  /\ Len(Lead) >= Len(job.prompt) + RoundsMade
           /\ Len(Lead) <= Len(job.prompt) + RoundsMade * (job.gamma + 1)
<1>1. Core /\ TextsInStep /\ TextBounds
  BY IFacts
<1>2. RoundsMade \in Nat /\ ResultsRead \in Nat
      /\ (RoundsMade # ResultsRead => RoundsMade = ResultsRead + 1)
  BY <1>1, StandFacts
<1>3. CASE RoundsMade = ResultsRead
  BY <1>1, <1>3 DEF TextsInStep, TextBounds
<1>4. CASE RoundsMade # ResultsRead
  <2>1. /\ tResult.n \in Nat /\ tResult.n <= job.gamma
        /\ Len(Lead) = Len(dCommitted) + tResult.n + 1
    BY <1>4, LeadFacts
  <2>2. job.gamma \in Nat /\ Len(dCommitted) \in Nat
    BY <1>1, CoreFacts, TextTypes
  <2>8. /\ RoundsMade = ResultsRead + 1
        /\ RoundsMade * (job.gamma + 1) = ResultsRead * (job.gamma + 1) + job.gamma + 1
        /\ ResultsRead * (job.gamma + 1) \in Nat
    BY <1>2, <1>4, <2>2, RoundsFit
  <2> DEFINE most == ResultsRead * (job.gamma + 1)
             more == RoundsMade * (job.gamma + 1)
  <2>9. /\ Len(dCommitted) >= Len(job.prompt) + ResultsRead
        /\ Len(dCommitted) <= Len(job.prompt) + most
        /\ more = most + job.gamma + 1 /\ most \in Nat /\ RoundsMade = ResultsRead + 1
    BY <1>1, <2>8 DEF TextBounds
  <2>10. Len(job.prompt) \in Nat
    BY <1>1, CoreFacts, JobFacts
  <2> DEFINE n == tResult.n
             g == job.gamma
             len == Len(dCommitted)
             long == Len(Lead)
             p == Len(job.prompt)
  <2>12. /\ n \in Nat /\ g \in Nat /\ n <= g /\ p \in Nat /\ len \in Nat
         /\ long = len + n + 1 /\ len >= p + ResultsRead /\ len <= p + most
         /\ more = most + g + 1 /\ most \in Nat /\ RoundsMade = ResultsRead + 1
    BY <2>1, <2>2, <2>9, <2>10
  <2> HIDE DEF most, more, n, g, len, long, p
  <2>11. long >= p + RoundsMade /\ long <= p + more
    BY <1>2, <2>12
  <2>. QED
    BY <2>11 DEF more, long, p
<1>. QED
  BY <1>3, <1>4

\* A budget that covers every round covers any of them.
LEMMA BudgetOf ==
    ASSUME IInv, BudgetCovers, NEW k \in Nat, k <= job.steps
    PROVE  Len(job.prompt) + k * (job.gamma + 1) <= MaxSeq
<1>1. /\ job.steps \in Nat /\ job.gamma \in Nat /\ Len(job.prompt) \in Nat /\ MaxSeq \in Nat
  BY IFacts, CoreFacts, JobFacts
<1>2. /\ k * (job.gamma + 1) <= job.steps * (job.gamma + 1)
      /\ k * (job.gamma + 1) \in Nat /\ job.steps * (job.gamma + 1) \in Nat
  BY <1>1, RoundsFit
<1> DEFINE a == k * (job.gamma + 1)
           b == job.steps * (job.gamma + 1)
<1>3. Len(job.prompt) + b <= MaxSeq
  BY DEF BudgetCovers
<1>4. a <= b /\ a \in Nat /\ b \in Nat
  BY <1>2
<1> HIDE DEF a, b
<1>5. Len(job.prompt) + a <= MaxSeq
  BY <1>1, <1>3, <1>4
<1>. QED
  BY <1>5 DEF a

-----------------------------------------------------------------------------
(* The draft's steps *)

LEMMA DraftPrefillAgrees == ASSUME IInv, DraftPrefill PROVE AgreementInv'
<1>1. /\ dpc = "prefill" /\ Len(job.prompt) <= MaxSeq
      /\ draft' = Prefill(draft, job.prompt)
      /\ lastLogits' = Row(ResetKvCache(draft), job.prompt, Len(job.prompt))
      /\ dpc' = IF 0 < job.steps THEN "generate" ELSE "barrier"
      /\ UNCHANGED <<setting, targetVars, net, exitCode>>
      /\ UNCHANGED <<job, dCommitted, dStep, dIds, dRows, dResult>>
  BY DEF DraftPrefill, DraftLoop, setting
<1>2. /\ job.prompt \in Seq(Token) /\ job.steps \in Nat /\ dStep = 0
      /\ draft \in Executors(MaxSeq) /\ MaxSeq \in Nat
  BY <1>1, IFacts, CoreFacts DEF DraftRounds
<1>3. /\ dCommitted = job.prompt
  BY <1>1, IFacts DEF DraftStands
<1>4. /\ draft'.pos = Len(dCommitted) /\ lastLogits' = dCommitted
      /\ Coherent(draft', dCommitted, draft'.pos)
  <2>1. /\ Prefill(draft, job.prompt).pos = Len(job.prompt)
        /\ Coherent(Prefill(draft, job.prompt), job.prompt, Len(job.prompt))
        /\ Row(ResetKvCache(draft), job.prompt, Len(job.prompt)) = job.prompt
    BY <1>1, <1>2, PrefillCoherent, Zenon
  <2>. QED
    BY <1>1, <1>3, <2>1
<1>5. ResultsRead' = ResultsRead
  BY <1>1 DEF ResultsRead, DraftHasResult
<1>6. TextBounds'
  BY <1>1, <1>5, IFacts DEF TextBounds, BudgetCovers
<1>7. DraftStands'
  <2>1. dpc' \in {"generate", "barrier"} /\ (dpc' = "barrier" => dStep' = job'.steps)
    BY <1>1, <1>2
  <2>2. Coherent(draft, Drafted, draft.pos)'
    BY <1>1, <1>4, <2>1 DEF Drafted, Coherent
  <2>. QED
    BY <1>1, <1>4, <2>1, <2>2 DEF DraftStands
<1>. QED
  BY <1>1, <1>5, <1>6, <1>7, DraftMove

LEMMA DraftPrefillOverflowAgrees == ASSUME IInv, DraftPrefillOverflow PROVE AgreementInv'
<1>1. /\ dpc = "prefill" /\ dpc' = "raised_prefill" /\ ~(Len(job.prompt) <= MaxSeq)
      /\ UNCHANGED <<setting, targetVars, net, exitCode>>
      /\ UNCHANGED <<job, lastLogits, prefixLen, dCommitted, dStep, dIds, dRows, dResult>>
  BY IFacts, CoreFacts, JobFacts DEF DraftPrefillOverflow, DraftRaises, setting, dLocal
<1>2. ~BudgetCovers
  <2>1. job.steps \in Nat /\ job.gamma \in Nat /\ Len(job.prompt) \in Nat /\ MaxSeq \in Nat
    BY IFacts, CoreFacts, JobFacts
  <2>2. job.steps * (job.gamma + 1) \in Nat
    BY <2>1
  <2>. QED
    BY <1>1, <2>1, <2>2 DEF BudgetCovers
<1>3. ResultsRead' = ResultsRead
  BY <1>1 DEF ResultsRead, DraftHasResult
<1>4. TextBounds'
  BY <1>1, <1>2, <1>3, IFacts DEF TextBounds, BudgetCovers
<1>5. DraftStands'
  BY <1>1 DEF DraftStands, DraftRaised
<1>. QED
  BY <1>1, <1>3, <1>4, <1>5, DraftMove

\* The rows of a draft: the one it held, then one per token.
LEMMA AfterTheFirst ==
    ASSUME NEW S, NEW x \in S, NEW q \in Seq(S), NEW i \in 2 .. Len(q) + 1
    PROVE  (<<x>> \o q)[i] = q[i - 1]
OBVIOUS

LEMMA GenerateDraftsAgrees ==
    ASSUME IInv, NEW ids \in DraftTuples, GenerateDrafts(ids)
    PROVE  AgreementInv'
<1> DEFINE rest == [i \in 1 .. job.gamma |-> Row(draft, ids, i)]
           text == dCommitted \o ids
           base == Len(dCommitted)
<1>1. /\ dpc = "generate" /\ dpc' = "send_ids"
      /\ Fits(draft, job.gamma)
      /\ prefixLen' = draft.pos
      /\ draft' = Forward(draft, ids)
      /\ dIds' = ids /\ dRows' = <<lastLogits>> \o rest
      /\ UNCHANGED <<setting, targetVars, net, exitCode>>
      /\ UNCHANGED <<job, lastLogits, dCommitted, dStep, dResult>>
  BY DEF GenerateDrafts, setting
<1>2. /\ job.gamma \in Nat /\ draft \in Executors(MaxSeq) /\ MaxSeq \in Nat
      /\ draft.dev = draft.pos /\ dCommitted \in Seq(Token) /\ base \in Nat
      /\ lastLogits \in Slots
  BY IFacts, CoreFacts, TextTypes DEF DraftTypeOK
<1>3. /\ lastLogits = dCommitted /\ draft.pos = base
      /\ Coherent(draft, dCommitted, base)
  BY <1>1, IFacts DEF DraftStands, DraftRaised, Drafted
<1>4. ids \in Seq(Token) /\ Len(ids) = job.gamma
  BY IFacts, DraftTupleFacts
<1>5. /\ text \in Seq(Token) /\ Len(text) = base + job.gamma
      /\ \A i \in 1 .. base : text[i] = dCommitted[i]
      /\ \A i \in 1 .. job.gamma : text[base + i] = ids[i]
  BY <1>2, <1>4, ConcatFacts
<1> HIDE DEF text
<1>6. Coherent(draft, text, base)
  BY <1>2, <1>3, <1>5, CoherentAgree
<1> HIDE DEF base
<1>7. /\ draft'.pos = base + job.gamma /\ Coherent(draft', text, draft'.pos)
  <2>1. /\ Fits(draft, Len(ids)) /\ draft.pos + Len(ids) <= Len(text)
        /\ \A i \in 1 .. Len(ids) : ids[i] = text[draft.pos + i]
        /\ Coherent(draft, text, draft.pos)
    BY <1>1, <1>2, <1>3, <1>4, <1>5, <1>6
  <2>2. /\ Forward(draft, ids).pos = draft.pos + Len(ids)
        /\ Coherent(Forward(draft, ids), text, draft.pos + Len(ids))
    BY <1>2, <1>4, <1>5, <2>1, ForwardCoherent, Zenon
  <2>. QED
    BY <1>1, <1>3, <1>4, <2>2
<1>8. ASSUME NEW i \in 1 .. job.gamma + 1
      PROVE  dRows'[i] = SubSeq(text, 1, base + i - 1)
  <2>1. rest \in [1 .. job.gamma -> Slots]
    <3>1. \A k \in 1 .. job.gamma : Row(draft, ids, k) \in Slots
      BY <1>2, <1>4, RowType
    <3>. QED
      BY <3>1
  <2>2. CASE i = 1
    <3>1. dRows'[1] = lastLogits
      <4> HIDE DEF rest
      <4>1. rest \in Seq(Slots)
        BY <1>2, <2>1, SeqDef
      <4>. QED
        BY <1>1, <1>2, <4>1
    <3>2. SubSeq(text, 1, base) = dCommitted
      <4>1. SubSeq(text, 1, base) = SubSeq(dCommitted, 1, base)
        BY <1>2, <1>4, <1>5, SamePrefix DEF base
      <4>2. SubSeq(dCommitted, 1, base) = dCommitted
        BY <1>2 DEF base
      <4>. QED
        BY <4>1, <4>2
    <3>3. base + i - 1 = base
      BY <1>2, <2>2
    <3>. QED
      BY <1>3, <2>2, <3>1, <3>2, <3>3
  <2>3. CASE i # 1
    <3>1. i - 1 \in 1 .. job.gamma /\ (i - 1) + 1 = i /\ base + i - 1 = base + (i - 1)
      BY <1>2, <2>3
    <3>2. dRows'[i] = rest[i - 1]
      <4> HIDE DEF rest
      <4>1. rest \in Seq(Slots) /\ Len(rest) = job.gamma
        BY <1>2, <2>1, SeqDef
      <4>2. i \in 2 .. Len(rest) + 1
        BY <1>2, <2>3, <4>1
      <4>. QED
        BY <1>1, <1>2, <4>1, <4>2, AfterTheFirst
    <3>3. rest[i - 1] = Row(draft, ids, i - 1)
      BY <3>1
    <3>4. /\ draft.pos + Len(ids) <= Len(text)
          /\ \A k \in 1 .. Len(ids) : ids[k] = text[draft.pos + k]
          /\ Coherent(draft, text, draft.pos) /\ i - 1 \in 0 .. Len(ids)
      <4>1. draft.pos = base /\ Len(ids) = job.gamma /\ Len(text) = base + job.gamma
        BY <1>3, <1>4, <1>5
      <4>2. Coherent(draft, text, draft.pos)
        BY <1>6, <4>1
      <4>3. \A k \in 1 .. Len(ids) : ids[k] = text[draft.pos + k]
        BY <1>5, <4>1
      <4>4. base + job.gamma <= base + job.gamma /\ i - 1 \in 0 .. job.gamma
        BY <1>2, <3>1
      <4> HIDE DEF text
      <4>. QED
        BY <4>1, <4>2, <4>3, <4>4
    <3>5. Row(draft, ids, i - 1) = SubSeq(text, 1, draft.pos + (i - 1))
      BY <1>2, <1>4, <1>5, <3>4, RowIsPrefix, Zenon
    <3>. QED
      BY <1>3, <3>1, <3>2, <3>3, <3>5
  <2>. QED
    BY <2>2, <2>3
<1>9. ResultsRead' = ResultsRead
  BY <1>1 DEF ResultsRead, DraftHasResult
<1>10. TextBounds'
  BY <1>1, <1>9, IFacts DEF TextBounds, BudgetCovers
<1>11. DraftStands'
  <2>1. Drafted' = text
    BY <1>1 DEF Drafted, text
  <2>2. (dCommitted \o dIds)' = text /\ Len(dCommitted)' = base
    BY <1>1 DEF text, base
  <2>. QED
    BY <1>1, <1>3, <1>7, <1>8, <2>1, <2>2 DEF DraftStands, Coherent
<1>. QED
  BY <1>1, <1>9, <1>10, <1>11, DraftMove

\* A draft that has no room for its drafts had too small a budget.
LEMMA GenerateOverflowAgrees ==
    ASSUME IInv, NEW ids \in DraftTuples, GenerateOverflow(ids)
    PROVE  AgreementInv'
<1>1. /\ dpc = "generate" /\ dpc' = "raised_generate"
      /\ ~Fits(draft, job.gamma)
      /\ UNCHANGED <<setting, targetVars, net, exitCode>>
      /\ UNCHANGED <<job, lastLogits, dCommitted, dStep, dIds, dRows, dResult>>
  BY DEF GenerateOverflow, DraftRaises, setting
<1>2. ~BudgetCovers
  <2>1. SUFFICES ASSUME BudgetCovers PROVE FALSE
    OBVIOUS
  <2>2. /\ job.gamma \in Nat /\ job.steps \in Nat /\ dStep \in Nat /\ dStep < job.steps
        /\ draft.max = MaxSeq /\ MaxSeq \in Nat /\ Len(dCommitted) \in Nat
    BY <1>1, IFacts, CoreFacts, TextTypes DEF DraftRounds
  <2>3. draft.pos = Len(dCommitted) /\ ResultsRead = dStep
    BY <1>1, IFacts DEF DraftStands, ResultsRead, DraftHasResult
  <2>4. Len(dCommitted) <= Len(job.prompt) + dStep * (job.gamma + 1)
    BY <2>3, IFacts DEF TextBounds
  <2>9. dStep + 1 \in Nat /\ dStep + 1 <= job.steps /\ dStep <= job.steps
    BY <2>2
  <2>5. Len(job.prompt) + (dStep + 1) * (job.gamma + 1) <= MaxSeq
    BY <2>1, <2>9, BudgetOf, Zenon
  <2>6. (dStep + 1) * (job.gamma + 1) = dStep * (job.gamma + 1) + job.gamma + 1
        /\ dStep * (job.gamma + 1) \in Nat
    BY <2>2, <2>9, RoundsFit, Zenon
  <2>7. Len(job.prompt) \in Nat
    BY IFacts, CoreFacts, JobFacts
  <2> DEFINE a == dStep * (job.gamma + 1)
             b == (dStep + 1) * (job.gamma + 1)
             len == Len(dCommitted)
             p == Len(job.prompt)
             g == job.gamma
  <2>8. /\ ~(len + g <= MaxSeq) /\ len <= p + a /\ p + b <= MaxSeq /\ b = a + g + 1
        /\ a \in Nat /\ len \in Nat /\ p \in Nat /\ g \in Nat /\ MaxSeq \in Nat
    BY <1>1, <2>2, <2>3, <2>4, <2>5, <2>6, <2>7 DEF Fits
  <2> HIDE DEF a, b, len, p, g
  <2>. QED
    BY <2>8
<1>3. ResultsRead' = ResultsRead
  BY <1>1 DEF ResultsRead, DraftHasResult
<1>4. TextBounds'
  BY <1>1, <1>2, <1>3, IFacts DEF TextBounds, BudgetCovers
<1>5. DraftStands'
  BY <1>1 DEF DraftStands, DraftRaised
<1>. QED
  BY <1>1, <1>3, <1>4, <1>5, DraftMove

LEMMA SendReturnsAgrees ==
    ASSUME IInv, SendIdsReturns \/ SendLogitsReturns
    PROVE  AgreementInv'
<1>1. /\ dpc \in {"sent_ids", "sent_logits"}
      /\ dpc' = IF dpc = "sent_ids" THEN "send_logits" ELSE "await_result"
      /\ UNCHANGED <<setting, targetVars, net, exitCode>>
      /\ UNCHANGED <<job, draft, lastLogits, prefixLen, dCommitted, dStep, dIds, dRows, dResult>>
  BY DEF SendIdsReturns, SendLogitsReturns, setting, dLocal
<1>2. ResultsRead' = ResultsRead /\ Drafted' = Drafted
  BY <1>1 DEF ResultsRead, DraftHasResult, Drafted
<1>3. TextBounds'
  BY <1>1, <1>2, IFacts DEF TextBounds, BudgetCovers
<1>4. DraftStands'
  BY <1>1, <1>2, IFacts DEF DraftStands, DraftRaised, Coherent
<1>. QED
  BY <1>1, <1>2, <1>3, <1>4, DraftMove

\* The draft's cache without the refused drafts: the text up to its last token.
LEMMA RolledBackText ==
    ASSUME IInv, dpc = "feedback"
    PROVE  /\ RolledBack \in Executors(MaxSeq)
           /\ RolledBack.pos = Len(dCommitted) - 1 /\ RolledBack.dev = RolledBack.pos
           /\ RolledBack.max = MaxSeq
           /\ Coherent(RolledBack, dCommitted, RolledBack.pos)
           /\ dResult.bonus \in Token /\ dCommitted[Len(dCommitted)] = dResult.bonus
           /\ Len(dCommitted) = prefixLen + dResult.n + 1
<1> DEFINE to == prefixLen + dResult.n
<1>1. /\ dResult \in Results /\ Len(dCommitted) = to + 1
      /\ dCommitted[Len(dCommitted)] = dResult.bonus
      /\ Coherent(draft, dCommitted, to)
  BY IFacts DEF DraftStands
<1>2. dResult.n \in Nat /\ dResult.bonus \in Token
  BY <1>1 DEF Results
<1>3. /\ draft \in Executors(MaxSeq) /\ MaxSeq \in Nat /\ draft.pos <= MaxSeq
      /\ draft.pos = prefixLen + job.gamma /\ dResult.n <= job.gamma
      /\ prefixLen \in Nat /\ job.gamma \in Nat
  BY IFacts, CoreFacts DEF DraftRounds, DraftSentIds, DraftSentLogits, DraftHasResult
<1>4. to \in 0 .. MaxSeq /\ to \in Nat
  BY <1>2, <1>3
<1> HIDE DEF to
<1>5. /\ RollbackCache(draft, to) \in Executors(MaxSeq)
      /\ RollbackCache(draft, to).pos = to /\ RollbackCache(draft, to).dev = to
      /\ RollbackCache(draft, to).kv = draft.kv
  BY <1>3, <1>4, RollbackOnly, Zenon
<1>6. RolledBack = RollbackCache(draft, to)
  BY DEF RolledBack, to
<1>7. Coherent(RolledBack, dCommitted, to)
  BY <1>1, <1>5, <1>6 DEF Coherent
<1>8. RolledBack.max = MaxSeq
  BY <1>3, <1>5, <1>6, ExecutorFields
<1>9. Len(dCommitted) - 1 = to
  BY <1>1, <1>4
<1>. QED
  BY <1>1, <1>2, <1>5, <1>6, <1>7, <1>8, <1>9 DEF to

LEMMA ApplyTargetFeedbackAgrees == ASSUME IInv, ApplyTargetFeedback PROVE AgreementInv'
<1>1. /\ dpc = "feedback" /\ Fits(RolledBack, 1)
      /\ draft' = Forward(RolledBack, <<dResult.bonus>>)
      /\ lastLogits' = Row(RolledBack, <<dResult.bonus>>, 1)
      /\ dStep' = dStep + 1
      /\ dpc' = IF dStep + 1 < job.steps THEN "generate" ELSE "barrier"
      /\ UNCHANGED <<setting, targetVars, net, exitCode>>
      /\ UNCHANGED <<job, dCommitted, dIds, dRows, dResult>>
  BY DEF ApplyTargetFeedback, DraftLoop, DecodeStep, setting
<1>2. /\ dStep \in Nat /\ job.steps \in Nat /\ dStep < job.steps /\ MaxSeq \in Nat
      /\ dCommitted \in Seq(Token) /\ Len(dCommitted) \in Nat
  BY <1>1, IFacts, CoreFacts, TextTypes DEF DraftRounds, DraftSentIds, DraftSentLogits, DraftHasResult
<1>3. /\ RolledBack \in Executors(MaxSeq)
      /\ RolledBack.pos = Len(dCommitted) - 1 /\ RolledBack.dev = RolledBack.pos
      /\ Coherent(RolledBack, dCommitted, RolledBack.pos)
      /\ dResult.bonus \in Token /\ dCommitted[Len(dCommitted)] = dResult.bonus
  BY <1>1, RolledBackText
<1>4. Len(dCommitted) = RolledBack.pos + 1 /\ dCommitted[RolledBack.pos + 1] = dResult.bonus
  BY <1>2, <1>3
<1>5. /\ draft'.pos = Len(dCommitted) /\ lastLogits' = dCommitted
      /\ Coherent(draft', dCommitted, draft'.pos)
  <2>1. /\ Forward(RolledBack, <<dResult.bonus>>).pos = RolledBack.pos + 1
        /\ Coherent(Forward(RolledBack, <<dResult.bonus>>), dCommitted, RolledBack.pos + 1)
        /\ Row(RolledBack, <<dResult.bonus>>, 1) = dCommitted
    BY <1>1, <1>2, <1>3, <1>4, DecodeCoherent, Zenon
  <2>. QED
    BY <1>1, <1>4, <2>1
<1>6. dpc' \in {"generate", "barrier"} /\ (dpc' = "barrier" => dStep' = job'.steps)
  BY <1>1, <1>2
<1>7. ResultsRead' = ResultsRead
  BY <1>1, <1>6 DEF ResultsRead, DraftHasResult
<1>8. TextBounds'
  BY <1>1, <1>6, <1>7, IFacts DEF TextBounds, BudgetCovers
<1>9. DraftStands'
  <2>1. Coherent(draft, Drafted, draft.pos)'
    BY <1>1, <1>5, <1>6 DEF Drafted, Coherent
  <2>. QED
    BY <1>1, <1>5, <1>6, <2>1 DEF DraftStands
<1>. QED
  BY <1>1, <1>7, <1>8, <1>9, DraftMove

LEMMA FeedbackVocabErrorAgrees == ASSUME IInv, FeedbackVocabError PROVE AgreementInv'
<1>1. /\ dpc = "feedback" /\ dpc' = "raised_vocab"
      /\ UNCHANGED <<setting, targetVars, net, exitCode>>
      /\ UNCHANGED <<job, draft, lastLogits, prefixLen, dCommitted, dStep, dIds, dRows, dResult>>
  BY DEF FeedbackVocabError, DraftRaises, setting, dLocal
<1>2. ResultsRead' = ResultsRead
  BY <1>1 DEF ResultsRead, DraftHasResult
<1>3. TextBounds'
  BY <1>1, <1>2, IFacts DEF TextBounds, BudgetCovers
<1>4. DraftStands'
  BY <1>1 DEF DraftStands, DraftRaised
<1>. QED
  BY <1>1, <1>2, <1>3, <1>4, DraftMove

\* A draft that has no room for the bonus had too small a budget.
LEMMA FeedbackOverflowAgrees == ASSUME IInv, FeedbackOverflow PROVE AgreementInv'
<1>1. /\ dpc = "feedback" /\ dpc' = "raised_feedback" /\ ~Fits(RolledBack, 1)
      /\ UNCHANGED <<setting, targetVars, net, exitCode>>
      /\ UNCHANGED <<job, lastLogits, prefixLen, dCommitted, dStep, dIds, dRows, dResult>>
  BY DEF FeedbackOverflow, DraftRaises, setting, dLocal
<1>2. ~BudgetCovers
  <2>1. SUFFICES ASSUME BudgetCovers PROVE FALSE
    OBVIOUS
  <2>2. /\ dStep \in Nat /\ job.steps \in Nat /\ dStep < job.steps /\ MaxSeq \in Nat
        /\ Len(dCommitted) \in Nat
    BY <1>1, IFacts, CoreFacts, TextTypes
       DEF DraftRounds, DraftSentIds, DraftSentLogits, DraftHasResult
  <2>3. ~(Len(dCommitted) <= MaxSeq)
    BY <1>1, <2>2, RolledBackText DEF Fits
  <2>4. ResultsRead = dStep + 1
    BY <1>1 DEF ResultsRead, DraftHasResult
  <2>5. Len(dCommitted) <= Len(job.prompt) + (dStep + 1) * (job.gamma + 1)
    BY <2>4, IFacts DEF TextBounds
  <2>9. dStep + 1 \in Nat /\ dStep + 1 <= job.steps
    BY <2>2
  <2>6. Len(job.prompt) + (dStep + 1) * (job.gamma + 1) <= MaxSeq
    BY <2>1, <2>9, BudgetOf, Zenon
  <2> DEFINE most == Len(job.prompt) + (dStep + 1) * (job.gamma + 1)
  <2>7. most \in Nat
    <3>1. job.gamma \in Nat /\ Len(job.prompt) \in Nat
      BY IFacts, CoreFacts, JobFacts
    <3>2. dStep + 1 <= dStep + 1
      BY <2>2
    <3>3. (dStep + 1) * (job.gamma + 1) \in Nat
      BY <2>9, <3>1, <3>2, RoundsFit, Zenon
    <3>. QED
      BY <3>1, <3>3
  <2>8. Len(dCommitted) <= most /\ most <= MaxSeq
    BY <2>5, <2>6
  <2> HIDE DEF most
  <2>. QED
    BY <2>2, <2>3, <2>7, <2>8
<1>3. ResultsRead' = ResultsRead
  BY <1>1 DEF ResultsRead, DraftHasResult
<1>4. TextBounds'
  BY <1>1, <1>2, <1>3, IFacts DEF TextBounds, BudgetCovers
<1>5. DraftStands'
  BY <1>1 DEF DraftStands, DraftRaised
<1>. QED
  BY <1>1, <1>3, <1>4, <1>5, DraftMove

-----------------------------------------------------------------------------
(* Sends and receives *)

\* What is posted to an empty channel, or received from a full one.
LEMMA ChannelEnds ==
    ASSUME Core
    PROVE  /\ \A v : \A m \in Messages : ~Arrived(m) => Append(net[m], v) = <<v>>
           /\ \A m \in Messages : Arrived(m) => Tail(net[m]) = <<>>
<1>1. ASSUME NEW m \in Messages, NEW v, ~Arrived(m) PROVE Append(net[m], v) = <<v>>
  <2>1. net[m] = <<>>
    BY <1>1 DEF Arrived
  <2>2. v \in {v} /\ <<>> \in Seq({v})
    OBVIOUS
  <2>3. Append(<<>>, v) = <<v>>
    BY <2>2
  <2>. QED
    BY <2>1, <2>3
<1>2. ASSUME NEW m \in Messages, Arrived(m) PROVE Tail(net[m]) = <<>>
  <2>1. Len(net[m]) <= 1
    BY <1>2, CoreFacts, CountsBound DEF OneRoundInFlight
  <2>2. PICK S : net[m] \in Seq(S)
    BY <1>2, ChannelFacts DEF Messages
  <2>. QED
    BY <1>2, <2>1, <2>2 DEF Arrived
<1>. QED
  BY <1>1, <1>2

LEMMA TextsFrame ==
    ASSUME TextsInStep, UNCHANGED <<job, dCommitted, dIds, prefixLen, tResult>>,
           Lead' = Lead, RoundsMade' = RoundsMade, ResultsRead' = ResultsRead
    PROVE  TextsInStep'
BY DEF TextsInStep

LEMMA SendIdsAgrees == ASSUME IInv, SendIds PROVE AgreementInv'
<1>1. /\ dpc = "send_ids" /\ dpc' = "sent_ids"
      /\ Post("ids", dIds)
      /\ UNCHANGED <<setting, targetVars, exitCode>>
      /\ UNCHANGED <<job, draft, lastLogits, prefixLen, dCommitted, dStep, dIds, dRows, dResult>>
  BY DEF SendIds, setting, dLocal
<1>2. UNCHANGED <<tpc, tIds, tRows, tResult>>
  BY <1>1 DEF targetVars, tLocal
<1>3. ~Arrived("ids")
  BY <1>1, IFacts, StandFacts
<1>4. /\ net'["ids"] = Append(net["ids"], dIds)
      /\ net'["logits"] = net["logits"] /\ net'["result"] = net["result"]
  BY <1>1, IFacts, PostFacts, ChannelFacts DEF Messages
<1>5. net'["ids"] = <<dIds>>
  BY <1>3, <1>4, IFacts, ChannelEnds DEF Messages
<1>6. MessagesCurrent'
  <2>1. Head(net'["ids"]) = dIds
    BY <1>5
  <2>. QED
    BY <1>1, <1>2, <1>4, <2>1, IFacts DEF MessagesCurrent, Arrived
<1>7. ResultsRead' = ResultsRead /\ Drafted' = Drafted
  BY <1>1 DEF ResultsRead, DraftHasResult, Drafted
<1>8. TextBounds'
  BY <1>1, <1>7, IFacts DEF TextBounds, BudgetCovers
<1>9. DraftStands'
  BY <1>1, <1>7, IFacts DEF DraftStands, DraftRaised, Coherent
<1>10. TargetStands' /\ Lead' = Lead /\ RoundsMade' = RoundsMade
  BY <1>1, IFacts, TargetStandsFrame
<1>11. TextsInStep'
  BY <1>1, <1>2, <1>7, <1>10, IFacts, TextsFrame
<1>12. Ending'
  BY <1>1, EndingOfDraft
<1>. QED
  BY <1>6, <1>8, <1>9, <1>10, <1>11, <1>12 DEF AgreementInv

LEMMA SendLogitsAgrees == ASSUME IInv, SendLogits PROVE AgreementInv'
<1>1. /\ dpc = "send_logits" /\ dpc' = "sent_logits"
      /\ Post("logits", dRows)
      /\ UNCHANGED <<setting, targetVars, exitCode>>
      /\ UNCHANGED <<job, draft, lastLogits, prefixLen, dCommitted, dStep, dIds, dRows, dResult>>
  BY DEF SendLogits, setting, dLocal
<1>2. UNCHANGED <<tpc, tIds, tRows, tResult>>
  BY <1>1 DEF targetVars, tLocal
<1>3. ~Arrived("logits")
  BY <1>1, IFacts, StandFacts
<1>4. /\ net'["logits"] = Append(net["logits"], dRows)
      /\ net'["ids"] = net["ids"] /\ net'["result"] = net["result"]
  BY <1>1, IFacts, PostFacts, ChannelFacts DEF Messages
<1>5. net'["logits"] = <<dRows>>
  BY <1>3, <1>4, IFacts, ChannelEnds DEF Messages
<1>6. MessagesCurrent'
  <2>1. Head(net'["logits"]) = dRows
    BY <1>5
  <2>. QED
    BY <1>1, <1>2, <1>4, <2>1, IFacts DEF MessagesCurrent, Arrived
<1>7. ResultsRead' = ResultsRead /\ Drafted' = Drafted
  BY <1>1 DEF ResultsRead, DraftHasResult, Drafted
<1>8. TextBounds'
  BY <1>1, <1>7, IFacts DEF TextBounds, BudgetCovers
<1>9. DraftStands'
  BY <1>1, <1>7, IFacts DEF DraftStands, DraftRaised, Coherent
<1>10. TargetStands' /\ Lead' = Lead /\ RoundsMade' = RoundsMade
  BY <1>1, IFacts, TargetStandsFrame
<1>11. TextsInStep'
  BY <1>1, <1>2, <1>7, <1>10, IFacts, TextsFrame
<1>12. Ending'
  BY <1>1, EndingOfDraft
<1>. QED
  BY <1>6, <1>8, <1>9, <1>10, <1>11, <1>12 DEF AgreementInv

\* The target takes the draft's ids, then its rows, as they still are.
LEMMA RecvIdsAgrees == ASSUME IInv, RecvIds PROVE AgreementInv'
<1>1. /\ tpc = "await_ids" /\ tpc' = "await_logits"
      /\ Arrived("ids") /\ Receive("ids") /\ tIds' = Head(net["ids"])
      /\ UNCHANGED <<setting, draftVars, exitCode>>
      /\ UNCHANGED <<job, target, tCommitted, tStep, tRows, tResult>>
  BY DEF RecvIds, setting
<1>2. UNCHANGED <<dIds, dRows, dCommitted, prefixLen>>
  BY <1>1 DEF draftVars, dLocal
<1>3. /\ net'["ids"] = Tail(net["ids"])
      /\ net'["logits"] = net["logits"] /\ net'["result"] = net["result"]
  BY <1>1, IFacts, ReceiveFacts, ChannelFacts DEF Messages
<1>4. net'["ids"] = <<>>
  BY <1>1, <1>3, IFacts, ChannelEnds DEF Messages
<1>5. MessagesCurrent'
  BY <1>1, <1>2, <1>3, <1>4, IFacts DEF MessagesCurrent, Arrived
<1>6. Lead' = Lead /\ RoundsMade' = RoundsMade
  BY <1>1 DEF Lead, RoundsMade
<1>7. TargetStands'
  BY <1>1, <1>6, IFacts DEF TargetStands, TargetRaised, BudgetCovers, Coherent
<1>8. DraftStands' /\ TextBounds' /\ ResultsRead' = ResultsRead
  BY <1>1, IFacts, DraftStandsFrame
<1>9. TextsInStep'
  BY <1>1, <1>2, <1>6, <1>8, IFacts, TextsFrame
<1>10. Ending'
  BY <1>1, EndingOfTarget
<1>. QED
  BY <1>5, <1>7, <1>8, <1>9, <1>10 DEF AgreementInv

LEMMA RecvLogitsAgrees == ASSUME IInv, RecvLogits PROVE AgreementInv'
<1>1. /\ tpc = "await_logits" /\ tpc' = "verify"
      /\ Arrived("logits") /\ Receive("logits") /\ tRows' = Head(net["logits"])
      /\ UNCHANGED <<setting, draftVars, exitCode>>
      /\ UNCHANGED <<job, target, tCommitted, tStep, tIds, tResult>>
  BY DEF RecvLogits, setting
<1>2. UNCHANGED <<dIds, dRows, dCommitted, prefixLen>>
  BY <1>1 DEF draftVars, dLocal
<1>3. /\ net'["logits"] = Tail(net["logits"])
      /\ net'["ids"] = net["ids"] /\ net'["result"] = net["result"]
  BY <1>1, IFacts, ReceiveFacts, ChannelFacts DEF Messages
<1>4. net'["logits"] = <<>>
  BY <1>1, <1>3, IFacts, ChannelEnds DEF Messages
<1>5. MessagesCurrent'
  BY <1>1, <1>2, <1>3, <1>4, IFacts DEF MessagesCurrent, Arrived
<1>6. Lead' = Lead /\ RoundsMade' = RoundsMade
  BY <1>1 DEF Lead, RoundsMade
<1>7. TargetStands'
  BY <1>1, <1>6, IFacts DEF TargetStands, TargetRaised, BudgetCovers, Coherent
<1>8. DraftStands' /\ TextBounds' /\ ResultsRead' = ResultsRead
  BY <1>1, IFacts, DraftStandsFrame
<1>9. TextsInStep'
  BY <1>1, <1>2, <1>6, <1>8, IFacts, TextsFrame
<1>10. Ending'
  BY <1>1, EndingOfTarget
<1>. QED
  BY <1>5, <1>7, <1>8, <1>9, <1>10 DEF AgreementInv

LEMMA SendResultAgrees == ASSUME IInv, SendResult PROVE AgreementInv'
<1>1. /\ tpc = "send_result" /\ tpc' = "sent_result"
      /\ Post("result", tResult)
      /\ UNCHANGED <<setting, draftVars, exitCode>>
      /\ UNCHANGED <<job, target, tCommitted, tStep, tIds, tRows, tResult>>
  BY DEF SendResult, setting, tLocal
<1>2. UNCHANGED <<dIds, dRows, dCommitted, prefixLen>>
  BY <1>1 DEF draftVars, dLocal
<1>3. ~Arrived("result")
  BY <1>1, IFacts, StandFacts
<1>4. /\ net'["result"] = Append(net["result"], tResult)
      /\ net'["ids"] = net["ids"] /\ net'["logits"] = net["logits"]
  BY <1>1, IFacts, PostFacts, ChannelFacts DEF Messages
<1>5. net'["result"] = <<tResult>>
  BY <1>3, <1>4, IFacts, ChannelEnds DEF Messages
<1>6. MessagesCurrent'
  <2>1. Head(net'["result"]) = tResult
    BY <1>5
  <2>. QED
    BY <1>1, <1>2, <1>4, <2>1, IFacts DEF MessagesCurrent, Arrived
<1>7. Lead' = Lead /\ RoundsMade' = RoundsMade
  BY <1>1 DEF Lead, RoundsMade
<1>8. TargetStands'
  BY <1>1, <1>7, IFacts DEF TargetStands, TargetRaised, BudgetCovers, Coherent
<1>9. DraftStands' /\ TextBounds' /\ ResultsRead' = ResultsRead
  BY <1>1, IFacts, DraftStandsFrame
<1>10. TextsInStep'
  BY <1>1, <1>2, <1>7, <1>9, IFacts, TextsFrame
<1>11. Ending'
  BY <1>1, EndingOfTarget
<1>. QED
  BY <1>6, <1>8, <1>9, <1>10, <1>11 DEF AgreementInv

\* The draft copies the round the target has reported: the texts are one again,
\* and its cache holds the text up to the bonus.
LEMMA RecvResultAgrees == ASSUME IInv, RecvResult PROVE AgreementInv'
<1> DEFINE r == Head(net["result"])
           base == Len(dCommitted)
           text == dCommitted \o dIds
<1>1. /\ dpc = "await_result" /\ dpc' = "feedback"
      /\ Arrived("result") /\ Receive("result")
      /\ dResult' = r
      /\ dCommitted' = dCommitted \o SubSeq(dIds, 1, r.n) \o <<r.bonus>>
      /\ UNCHANGED <<setting, targetVars, exitCode>>
      /\ UNCHANGED <<job, draft, lastLogits, prefixLen, dStep, dIds, dRows>>
  BY DEF RecvResult, setting
<1>2. UNCHANGED <<tpc, tStep, tIds, tRows, tResult>>
  BY <1>1 DEF targetVars, tLocal
<1>3. RoundsMade # ResultsRead /\ RoundsMade = ResultsRead + 1 /\ ResultsRead \in Nat
  BY <1>1, IFacts, StandFacts
<1>4. /\ r = tResult /\ tResult \in Results /\ tResult.n <= job.gamma
      /\ tResult.cacheAfter = prefixLen + tResult.n
      /\ Lead = dCommitted \o SubSeq(dIds, 1, tResult.n) \o <<tResult.bonus>>
  BY <1>1, <1>3, IFacts DEF MessagesCurrent, TextsInStep
<1> HIDE DEF r
<1>5. dCommitted' = Lead /\ dResult' = tResult
  BY <1>1, <1>4
<1>6. tResult.n \in Nat /\ tResult.bonus \in Token
  BY <1>4 DEF Results
<1>7. /\ Len(dIds) = job.gamma /\ draft.pos = prefixLen + job.gamma
      /\ prefixLen = base /\ Coherent(draft, text, draft.pos)
      /\ job.gamma \in Nat
  BY <1>1, IFacts, CoreFacts
     DEF DraftRounds, DraftSentIds, DraftSentLogits, DraftStands, Drafted, DraftRaised
<1>8. /\ dCommitted \in Seq(Token) /\ dIds \in Seq(Token) /\ text \in Seq(Token)
      /\ base \in Nat /\ Len(text) = base + job.gamma /\ tResult.n \in 0 .. Len(dIds)
  BY <1>4, <1>6, <1>7, IFacts, TextTypes
<1>9. /\ Lead \in Seq(Token) /\ Len(Lead) = base + tResult.n + 1
      /\ \A i \in 1 .. base + tResult.n : Lead[i] = text[i]
      /\ Lead[base + tResult.n + 1] = tResult.bonus
  BY <1>3, LeadFacts, Zenon
<1> HIDE DEF text, base
<1>10. Coherent(draft, Lead, base + tResult.n)
  <2>1. Coherent(draft, text, base + tResult.n)
    <3>1. base + job.gamma \in Nat /\ base + tResult.n \in Nat
          /\ base + tResult.n <= base + job.gamma
      BY <1>4, <1>6, <1>7, <1>8
    <3>2. Coherent(draft, text, base + job.gamma)
      BY <1>7
    <3>. QED
      BY <3>1, <3>2, CoherentShorter, Zenon
  <2>2. /\ base + tResult.n \in Nat /\ base + tResult.n <= Len(text)
        /\ base + tResult.n <= Len(Lead)
        /\ \A i \in 1 .. base + tResult.n : text[i] = Lead[i]
    <3> DEFINE n == tResult.n
               g == job.gamma
               tl == Len(text)
               ll == Len(Lead)
    <3>1. /\ n \in Nat /\ g \in Nat /\ base \in Nat /\ n <= g
          /\ tl = base + g /\ ll = base + n + 1
      BY <1>4, <1>6, <1>7, <1>8, <1>9
    <3> HIDE DEF n, g, tl, ll
    <3>2. base + n \in Nat /\ base + n <= tl /\ base + n <= ll
      BY <3>1
    <3>3. \A i \in 1 .. base + tResult.n : text[i] = Lead[i]
      BY <1>9, Zenon
    <3>. QED
      BY <3>2, <3>3 DEF n, tl, ll
  <2>. QED
    BY <1>8, <1>9, <2>1, <2>2, CoherentAgree, Zenon
<1>11. ResultsRead' = ResultsRead + 1
  BY <1>1, IFacts, CoreFacts DEF ResultsRead, DraftHasResult
<1>12. TargetStands' /\ Lead' = Lead /\ RoundsMade' = RoundsMade
  BY <1>1, IFacts, TargetStandsFrame
<1>13. TextsInStep'
  BY <1>3, <1>5, <1>11, <1>12 DEF TextsInStep
<1>14. TextBounds'
  <2>1. RoundsMade = ResultsRead'
    BY <1>3, <1>11
  <2>2. Len(dCommitted') >= Len(job.prompt) + ResultsRead'
        /\ Len(dCommitted') <= Len(job.prompt) + ResultsRead' * (job.gamma + 1)
    BY <1>5, <2>1, LeadBound
  <2>. QED
    BY <1>1, <2>2 DEF TextBounds
<1>15. DraftStands'
  <2>1. /\ dResult'.cacheAfter = prefixLen + dResult'.n
        /\ Len(dCommitted') = prefixLen + dResult'.n + 1
        /\ dCommitted'[Len(dCommitted')] = dResult'.bonus
    BY <1>4, <1>5, <1>7, <1>9
  <2>2. Coherent(draft, dCommitted', prefixLen + dResult'.n)
    BY <1>5, <1>7, <1>10
  <2>. QED
    BY <1>1, <1>4, <1>5, <2>1, <2>2 DEF DraftStands, Coherent
<1>16. MessagesCurrent'
  <2>1. /\ net'["result"] = Tail(net["result"])
        /\ net'["ids"] = net["ids"] /\ net'["logits"] = net["logits"]
    BY <1>1, IFacts, ReceiveFacts, ChannelFacts DEF Messages
  <2>2. net'["result"] = <<>>
    BY <1>1, <2>1, IFacts, ChannelEnds DEF Messages
  <2>. QED
    BY <1>1, <1>2, <2>1, <2>2, IFacts DEF MessagesCurrent, Arrived
<1>17. Ending'
  BY <1>1, EndingOfDraft
<1>. QED
  BY <1>12, <1>13, <1>14, <1>15, <1>16, <1>17 DEF AgreementInv

-----------------------------------------------------------------------------
(* What the target verifies *)

\* At verify the two ranks hold the same text and the same drafts.
LEMMA VerifyAgrees ==
    ASSUME IInv, tpc = "verify"
    PROVE  /\ tCommitted = dCommitted /\ Lead = tCommitted
           /\ tIds = dIds /\ tRows = dRows /\ Len(tIds) = job.gamma
           /\ prefixLen = Len(tCommitted) /\ draft.pos = Len(tCommitted) + job.gamma
           /\ \A i \in 1 .. job.gamma + 1 :
                 dRows[i] = SubSeq(tCommitted \o tIds, 1, Len(tCommitted) + i - 1)
<1>1. dpc \in {"sent_logits", "await_result"} /\ RoundsMade = ResultsRead
  BY IFacts, StandFacts
<1>2. Lead = tCommitted
  BY DEF Lead
<1>3. tCommitted = dCommitted /\ tIds = dIds /\ tRows = dRows
  BY <1>1, <1>2, IFacts DEF TextsInStep, MessagesCurrent
<1>4. Len(dIds) = job.gamma /\ draft.pos = prefixLen + job.gamma
  BY <1>1, IFacts, CoreFacts DEF DraftRounds, DraftSentIds, DraftSentLogits
<1>5. /\ prefixLen = Len(dCommitted)
      /\ \A i \in 1 .. job.gamma + 1 :
            dRows[i] = SubSeq(dCommitted \o dIds, 1, Len(dCommitted) + i - 1)
  BY <1>1, IFacts DEF DraftStands
<1>. QED
  BY <1>2, <1>3, <1>4, <1>5

\* The verify forward goes on where the cache ends, over the rest of the text and
\* the drafts, and the draft's cache shows that there is room.
LEMMA VerifyInputFacts ==
    ASSUME IInv, tpc = "verify"
    PROVE  /\ VerifyInput \in Seq(Token) /\ Len(VerifyInput) \in Nat
           /\ target.pos + Len(VerifyInput) = Len(tCommitted) + job.gamma
           /\ \A i \in 1 .. Len(VerifyInput) :
                  VerifyInput[i] = (tCommitted \o tIds)[target.pos + i]
           /\ target.pending # NoToken =>
                  target.pos + 1 = Len(tCommitted) /\ Len(VerifyInput) = job.gamma + 1
           /\ target.pending = NoToken =>
                  /\ target.pos = Len(tCommitted) /\ target.p1 = tCommitted
                  /\ Len(VerifyInput) = job.gamma
           /\ Coherent(target, tCommitted, target.pos)
           /\ RollbackBase = Len(tCommitted)
           /\ Fits(target, Len(VerifyInput))
<1>1. /\ Lead = tCommitted /\ Len(tIds) = job.gamma
      /\ draft.pos = Len(tCommitted) + job.gamma
  BY VerifyAgrees
<1>2. /\ target.pos \in Nat /\ target.pending \in Token \cup {NoToken}
      /\ tCommitted \in Seq(Token) /\ Len(tCommitted) \in Nat
      /\ tIds \in Seq(Token) /\ job.gamma \in Nat
      /\ target.max = MaxSeq /\ draft.pos <= MaxSeq /\ MaxSeq \in Nat
  BY IFacts, CoreFacts, TextTypes
<1>3. /\ Coherent(target, tCommitted, target.pos)
      /\ target.pending = NoToken => target.pos = Len(tCommitted) /\ target.p1 = tCommitted
      /\ target.pending # NoToken => /\ target.pos = Len(tCommitted) - 1
                                     /\ target.pending = tCommitted[Len(tCommitted)]
  BY <1>1, IFacts DEF TargetStands, TargetRaised
<1>4. CASE target.pending = NoToken
  <2>1. VerifyInput = tIds /\ RollbackBase = Len(tCommitted)
    BY <1>2, <1>3, <1>4 DEF VerifyInput, RollbackBase
  <2>2. \A i \in 1 .. Len(tIds) : tIds[i] = (tCommitted \o tIds)[Len(tCommitted) + i]
    BY <1>2
  <2>3. Fits(target, Len(VerifyInput))
    BY <1>1, <1>2, <1>3, <1>4, <2>1 DEF Fits
  <2>. QED
    BY <1>1, <1>2, <1>3, <1>4, <2>1, <2>2, <2>3
<1>5. CASE target.pending # NoToken
  <2> DEFINE b == target.pending
  <2>1. VerifyInput = <<b>> \o tIds
    BY <1>5 DEF VerifyInput
  <2>2. target.pos = Len(tCommitted) - 1 /\ b = tCommitted[Len(tCommitted)] /\ b \in Token
    BY <1>2, <1>3, <1>5
  <2> HIDE DEF b
  <2>3. /\ VerifyInput \in Seq(Token) /\ Len(VerifyInput) = 1 + Len(tIds)
        /\ VerifyInput[1] = b
        /\ \A k \in 1 .. Len(tIds) : VerifyInput[k + 1] = tIds[k]
    BY <1>2, <2>1, <2>2
  <2>4. /\ (tCommitted \o tIds)[Len(tCommitted)] = b
        /\ \A k \in 1 .. Len(tIds) : (tCommitted \o tIds)[Len(tCommitted) + k] = tIds[k]
    BY <1>2, <2>2
  <2>5. ASSUME NEW i \in 1 .. Len(VerifyInput)
        PROVE  VerifyInput[i] = (tCommitted \o tIds)[target.pos + i]
    <3>1. CASE i = 1
      <4>1. target.pos + 1 = Len(tCommitted)
        BY <1>2, <2>2
      <4>. QED
        BY <2>3, <2>4, <3>1, <4>1
    <3>2. CASE i # 1
      <4>1. /\ i - 1 \in 1 .. Len(tIds) /\ (i - 1) + 1 = i
            /\ target.pos + i = Len(tCommitted) + (i - 1)
        BY <1>1, <1>2, <2>2, <2>3, <3>2
      <4>2. VerifyInput[i] = tIds[i - 1]
        BY <2>3, <4>1
      <4>3. (tCommitted \o tIds)[target.pos + i] = tIds[i - 1]
        BY <2>4, <4>1
      <4>. QED
        BY <4>2, <4>3
    <3>. QED
      BY <3>1, <3>2
  <2>6. RollbackBase = Len(tCommitted) /\ target.pos + 1 = Len(tCommitted)
    BY <1>2, <1>5, <2>2 DEF RollbackBase
  <2>7. Len(VerifyInput) = job.gamma + 1 /\ Len(VerifyInput) \in Nat
        /\ target.pos + Len(VerifyInput) = Len(tCommitted) + job.gamma
    <3> DEFINE v == Len(VerifyInput)
               pos == target.pos
               L == Len(tCommitted)
               g == job.gamma
    <3>1. v = 1 + g /\ pos + 1 = L /\ g \in Nat /\ pos \in Nat /\ L \in Nat
      BY <1>1, <1>2, <2>3, <2>6
    <3> HIDE DEF v, pos, L, g
    <3>2. v = g + 1 /\ pos + v = L + g /\ v \in Nat
      BY <3>1
    <3>. QED
      BY <3>2 DEF v, pos, L, g
  <2>8. Fits(target, Len(VerifyInput))
    BY <1>1, <1>2, <2>7 DEF Fits
  <2>. QED
    BY <1>3, <1>5, <2>3, <2>5, <2>6, <2>7, <2>8
<1>. QED
  BY <1>4, <1>5

\* The target's executor when its forward starts, and the text it then stores.
LEMMA TakenFacts ==
    ASSUME IInv, tpc = "verify"
    PROVE  /\ TakePendingBonus(target) \in Executors(MaxSeq)
           /\ TakePendingBonus(target).pos = target.pos
           /\ TakePendingBonus(target).dev = TakePendingBonus(target).pos
           /\ Fits(TakePendingBonus(target), Len(VerifyInput))
           /\ tCommitted \o tIds \in Seq(Token)
           /\ Len(tCommitted \o tIds) = Len(tCommitted) + job.gamma
           /\ Coherent(TakePendingBonus(target), tCommitted \o tIds, target.pos)
<1> DEFINE taken == TakePendingBonus(target)
           text == tCommitted \o tIds
<1>1. /\ target \in Executors(MaxSeq) /\ MaxSeq \in Nat /\ target.dev = target.pos
      /\ target.max = MaxSeq /\ target.pos \in Nat
      /\ tCommitted \in Seq(Token) /\ Len(tCommitted) \in Nat /\ tIds \in Seq(Token)
  BY IFacts, CoreFacts, TextTypes
<1>2. NoToken \in Token \cup {NoToken}
  OBVIOUS
<1>3. /\ taken \in Executors(MaxSeq) /\ taken.pos = target.pos
      /\ taken.dev = target.dev /\ taken.kv = target.kv
  BY <1>1, <1>2, BonusOnly, TakeIsDeferNone, Zenon
<1>4. taken.max = MaxSeq
  BY <1>1, <1>3, ExecutorFields
<1>5. Fits(taken, Len(VerifyInput))
  BY <1>1, <1>3, <1>4, VerifyInputFacts DEF Fits
<1>6. /\ text \in Seq(Token) /\ Len(text) = Len(tCommitted) + Len(tIds)
      /\ \A i \in 1 .. Len(tCommitted) : text[i] = tCommitted[i]
  BY <1>1, ConcatFacts, Zenon
<1>7. Len(tIds) = job.gamma /\ job.gamma \in Nat
  BY VerifyAgrees, IFacts, CoreFacts
<1> HIDE DEF text
<1>8. Coherent(target, text, target.pos)
  <2>1. /\ Coherent(target, tCommitted, target.pos) /\ target.pos <= Len(tCommitted)
        /\ target.pos <= Len(text)
    BY <1>1, <1>6, <1>7, VerifyInputFacts
  <2>2. \A i \in 1 .. target.pos : tCommitted[i] = text[i]
    BY <1>1, <1>6, <2>1
  <2>. QED
    BY <1>1, <1>6, <2>1, <2>2, CoherentAgree, Zenon
<1>9. Coherent(taken, text, target.pos)
  BY <1>3, <1>8 DEF Coherent
<1>. QED
  BY <1>1, <1>3, <1>5, <1>6, <1>7, <1>9 DEF text

\* The row the target reads before draft i, or before the bonus, is conditioned on
\* exactly the text and the drafts before it.
LEMMA VerifyRows ==
    ASSUME IInv, tpc = "verify", NEW i \in 1 .. job.gamma + 1
    PROVE  VerifyRow(i) = SubSeq(tCommitted \o tIds, 1, Len(tCommitted) + i - 1)
<1> DEFINE taken == TakePendingBonus(target)
           text == tCommitted \o tIds
           input == VerifyInput
           len == Len(tCommitted)
<1>1. /\ taken \in Executors(MaxSeq) /\ MaxSeq \in Nat /\ taken.pos = target.pos
      /\ text \in Seq(Token) /\ Len(text) = len + job.gamma
      /\ Coherent(taken, text, taken.pos)
      /\ len \in Nat /\ job.gamma \in Nat /\ target.pos \in Nat
      /\ tCommitted \in Seq(Token) /\ tIds \in Seq(Token)
  BY TakenFacts, IFacts, CoreFacts, TextTypes
<1>2. /\ input \in Seq(Token) /\ Len(input) \in Nat
      /\ target.pos + Len(input) = len + job.gamma
      /\ \A k \in 1 .. Len(input) : input[k] = text[target.pos + k]
      /\ target.pending # NoToken => target.pos + 1 = len
      /\ target.pending = NoToken => target.pos = len /\ target.p1 = tCommitted
  BY VerifyInputFacts, Zenon
<1>3. SubSeq(text, 1, len) = tCommitted
  <2>1. \A k \in 1 .. len : text[k] = tCommitted[k]
    BY <1>1, ConcatFacts, Zenon
  <2>2. SubSeq(tCommitted, 1, len) = tCommitted
    BY <1>1
  <2> HIDE DEF text
  <2>3. len <= Len(text) /\ len <= Len(tCommitted)
    BY <1>1
  <2>4. SubSeq(text, 1, len) = SubSeq(tCommitted, 1, len)
    BY <1>1, <2>1, <2>3, SamePrefix, Zenon
  <2>. QED
    BY <2>2, <2>4
<1> HIDE DEF taken, text, input, len
<1> DEFINE at == target.pos
           more == Len(input)
<1>4. /\ at \in Nat /\ more \in Nat /\ len \in Nat /\ job.gamma \in Nat
      /\ at + more = len + job.gamma /\ Len(text) = len + job.gamma
      /\ target.pending # NoToken => at + 1 = len
      /\ target.pending = NoToken => at = len
      /\ taken.pos = at
  BY <1>1, <1>2
<1> HIDE DEF at, more
<1>5. ASSUME NEW j \in 0 .. more
      PROVE  Row(taken, input, j) = SubSeq(text, 1, at + j)
  <2>1. /\ taken.pos + Len(input) <= Len(text) /\ j \in 0 .. Len(input)
        /\ \A k \in 1 .. Len(input) : input[k] = text[taken.pos + k]
        /\ Coherent(taken, text, taken.pos)
    BY <1>1, <1>2, <1>4 DEF at, more
  <2>2. taken \in Executors(MaxSeq) /\ MaxSeq \in Nat /\ text \in Seq(Token)
        /\ input \in Seq(Token)
    BY <1>1, <1>2
  <2>3. Row(taken, input, j) = SubSeq(text, 1, taken.pos + j)
    BY <2>1, <2>2, RowIsPrefix, Zenon
  <2>. QED
    BY <1>4, <2>3
<1>6. CASE target.pending # NoToken
  <2>1. VerifyRow(i) = Row(taken, input, i)
    BY <1>6 DEF VerifyRow, taken, input
  <2>2. i \in 0 .. more /\ at + i = len + i - 1
    BY <1>4, <1>6
  <2>. QED
    BY <1>5, <2>1, <2>2 DEF text, len
<1>7. CASE target.pending = NoToken /\ i = 1
  <2>1. VerifyRow(i) = tCommitted
    BY <1>2, <1>7 DEF VerifyRow
  <2>2. len + i - 1 = len
    BY <1>4, <1>7
  <2>. QED
    BY <1>3, <2>1, <2>2 DEF text, len
<1>8. CASE target.pending = NoToken /\ i # 1
  <2>1. VerifyRow(i) = Row(taken, input, i - 1)
    BY <1>8 DEF VerifyRow, taken, input
  <2>2. i - 1 \in 0 .. more /\ at + (i - 1) = len + i - 1
    BY <1>4, <1>8
  <2>. QED
    BY <1>5, <2>1, <2>2 DEF text, len
<1>. QED
  BY <1>6, <1>7, <1>8

-----------------------------------------------------------------------------
(* The target's steps *)

LEMMA TargetPrefillAgrees == ASSUME IInv, TargetPrefill PROVE AgreementInv'
<1>1. /\ tpc = "prefill" /\ Len(job.prompt) <= MaxSeq
      /\ target' = Prefill(target, job.prompt)
      /\ tpc' = IF 0 < job.steps THEN "await_ids" ELSE "flush"
      /\ UNCHANGED <<setting, draftVars, net, exitCode>>
      /\ UNCHANGED <<job, tCommitted, tStep, tIds, tRows, tResult>>
  BY DEF TargetPrefill, TargetLoop, setting, tLocal
<1>2. /\ job.prompt \in Seq(Token) /\ job.steps \in Nat /\ tStep = 0
      /\ target \in Executors(MaxSeq) /\ MaxSeq \in Nat
  BY <1>1, IFacts, CoreFacts DEF TargetRounds
<1>3. tCommitted = job.prompt
  BY <1>1, IFacts DEF TargetStands
<1>4. Lead' = Lead /\ RoundsMade' = RoundsMade /\ Lead = job.prompt
  BY <1>1, <1>3 DEF Lead, RoundsMade
<1>5. /\ target'.pos = Len(Lead) /\ target'.pending = NoToken /\ target'.p1 = Lead
      /\ Coherent(target', Lead, target'.pos)
  <2>1. /\ Prefill(target, job.prompt).pos = Len(job.prompt)
        /\ Prefill(target, job.prompt).pending = NoToken
        /\ Prefill(target, job.prompt).p1 = job.prompt
        /\ Coherent(Prefill(target, job.prompt), job.prompt, Len(job.prompt))
    BY <1>1, <1>2, PrefillCoherent, Zenon
  <2>. QED
    BY <1>1, <1>4, <2>1
<1>6. tpc' \in {"await_ids", "flush"} /\ (tpc' = "flush" => tStep' = job'.steps)
  BY <1>1, <1>2
<1>7. TargetStands'
  BY <1>1, <1>4, <1>5, <1>6 DEF TargetStands, TargetRaised, Coherent
<1>8. TextsInStep'
  BY <1>1, <1>4, TextsStay
<1>. QED
  BY <1>1, <1>6, <1>7, <1>8, TargetMove

LEMMA TargetPrefillOverflowAgrees == ASSUME IInv, TargetPrefillOverflow PROVE AgreementInv'
<1>1. /\ tpc = "prefill" /\ tpc' = "raised_prefill" /\ ~(Len(job.prompt) <= MaxSeq)
      /\ UNCHANGED <<setting, draftVars, net, exitCode>>
      /\ UNCHANGED <<job, tCommitted, tStep, tIds, tRows, tResult>>
  BY IFacts, CoreFacts, JobFacts DEF TargetPrefillOverflow, TargetRaises, setting, tLocal
<1>2. ~BudgetCovers
  <2>1. job.steps \in Nat /\ job.gamma \in Nat /\ Len(job.prompt) \in Nat /\ MaxSeq \in Nat
    BY IFacts, CoreFacts, JobFacts
  <2>2. job.steps * (job.gamma + 1) \in Nat
    BY <2>1
  <2>. QED
    BY <1>1, <2>1, <2>2 DEF BudgetCovers
<1>3. Lead' = Lead /\ RoundsMade' = RoundsMade
  BY <1>1 DEF Lead, RoundsMade
<1>4. TargetStands'
  BY <1>1, <1>2 DEF TargetStands, TargetRaised, BudgetCovers
<1>5. TextsInStep'
  BY <1>1, <1>3, TextsStay
<1>. QED
  BY <1>1, <1>4, <1>5, TargetMove

\* The verify forward, the rollback to the accepted drafts and the deferred bonus.
LEMMA TargetStepCache ==
    ASSUME IInv, NEW n \in 0 .. job.gamma, NEW bonus \in Token, TargetStep(n, bonus)
    PROVE  /\ target'.pos = Len(tCommitted) + n /\ target'.pending = bonus
           /\ Coherent(target', tCommitted \o tIds, Len(tCommitted) + n)
<1> DEFINE taken == TakePendingBonus(target)
           text == tCommitted \o tIds
           input == VerifyInput
           len == Len(tCommitted)
           f == Forward(taken, input)
           r == RollbackCache(f, len + n)
<1>1. /\ tpc = "verify"
      /\ target' = DeferBonusToken(RollbackCache(Forward(taken, input), RollbackBase + n), bonus)
  BY DEF TargetStep
<1>2. /\ taken \in Executors(MaxSeq) /\ MaxSeq \in Nat /\ taken.pos = target.pos
      /\ taken.dev = taken.pos /\ Fits(taken, Len(input))
      /\ text \in Seq(Token) /\ Len(text) = len + job.gamma
      /\ Coherent(taken, text, taken.pos)
      /\ len \in Nat /\ job.gamma \in Nat /\ target.pos \in Nat
  BY <1>1, TakenFacts, IFacts, CoreFacts, TextTypes
<1>3. /\ input \in Seq(Token) /\ Len(input) \in Nat
      /\ target.pos + Len(input) = len + job.gamma
      /\ \A k \in 1 .. Len(input) : input[k] = text[target.pos + k]
      /\ RollbackBase = len /\ Fits(target, Len(input))
  BY <1>1, VerifyInputFacts, Zenon
<1>4. target' = DeferBonusToken(r, bonus)
  BY <1>1, <1>3
<1> HIDE DEF taken, text, input
<1>5. /\ taken.pos + Len(input) <= Len(text)
      /\ \A k \in 1 .. Len(input) : input[k] = text[taken.pos + k]
      /\ taken.pos + Len(input) = len + job.gamma
  <2>1. taken.pos = target.pos /\ Len(text) = len + job.gamma
    BY <1>2
  <2>2. target.pos + Len(input) = len + job.gamma /\ len + job.gamma <= len + job.gamma
    BY <1>2, <1>3
  <2>3. \A k \in 1 .. Len(input) : input[k] = text[target.pos + k]
    BY <1>3
  <2> HIDE DEF len
  <2>. QED
    BY <2>1, <2>2, <2>3
<1>6. f \in Executors(MaxSeq) /\ Coherent(f, text, taken.pos + Len(input))
  BY <1>2, <1>3, <1>5, ForwardCoherent, Zenon
<1>7. len + job.gamma <= MaxSeq /\ len + n \in Nat /\ len + n <= len + job.gamma
      /\ len + job.gamma \in Nat
  <2>1. target.max = MaxSeq
    BY IFacts, CoreFacts
  <2>2. n \in Nat /\ n <= job.gamma
    BY <1>2
  <2>. QED
    BY <1>2, <1>3, <2>1, <2>2 DEF Fits
<1>8. Coherent(f, text, len + n)
  <2>1. Coherent(f, text, len + job.gamma)
    BY <1>5, <1>6
  <2> HIDE DEF f, len
  <2>. QED
    BY <1>7, <2>1, CoherentShorter, Zenon
<1> HIDE DEF f, len
<1>9. len + n \in 0 .. MaxSeq
  BY <1>2, <1>7
<1>10. r \in Executors(MaxSeq) /\ r.pos = len + n /\ r.kv = f.kv
  BY <1>2, <1>6, <1>9, RollbackOnly, Zenon
<1> HIDE DEF r
<1>11. bonus \in Token \cup {NoToken}
  OBVIOUS
<1>12. /\ DeferBonusToken(r, bonus).pos = r.pos /\ DeferBonusToken(r, bonus).kv = r.kv
       /\ DeferBonusToken(r, bonus).pending = bonus
  <2>1. r \in Executors(MaxSeq) /\ MaxSeq \in Nat
    BY <1>2, <1>10
  <2>. QED
    BY <1>11, <2>1, BonusOnly, Zenon
<1>13. Coherent(target', text, len + n)
  BY <1>4, <1>8, <1>10, <1>12 DEF Coherent
<1>. QED
  BY <1>4, <1>10, <1>12, <1>13 DEF text, len

LEMMA TargetStepAgrees ==
    ASSUME IInv, NEW n \in 0 .. job.gamma, NEW bonus \in Token, TargetStep(n, bonus)
    PROVE  AgreementInv'
<1> DEFINE answer == [n |-> n, bonus |-> bonus, prefix |-> target.pos,
                      cacheAfter |-> RollbackBase + n]
           text == tCommitted \o tIds
           len == Len(tCommitted)
           new == tCommitted \o SubSeq(tIds, 1, n) \o <<bonus>>
<1>1. /\ tpc = "verify" /\ tpc' = "send_result"
      /\ tResult' = answer
      /\ UNCHANGED <<setting, draftVars, net, exitCode>>
      /\ UNCHANGED <<job, tCommitted, tStep, tIds, tRows>>
  BY DEF TargetStep, setting
<1>2. /\ tCommitted = dCommitted /\ Lead = tCommitted /\ tIds = dIds
      /\ Len(tIds) = job.gamma /\ prefixLen = len
  BY <1>1, VerifyAgrees
<1>3. UNCHANGED <<dCommitted, dIds, prefixLen, dpc, dStep>>
  BY <1>1 DEF draftVars, dLocal
<1>4. /\ tCommitted \in Seq(Token) /\ len \in Nat /\ tIds \in Seq(Token)
      /\ job.gamma \in Nat /\ n \in Nat /\ n <= job.gamma /\ n \in 0 .. Len(tIds)
  BY <1>2, IFacts, CoreFacts, TextTypes
<1>5. /\ RollbackBase = len /\ RollbackBase \in Nat /\ target.pos \in Nat
  BY <1>1, <1>4, VerifyInputFacts, IFacts, CoreFacts
<1>6. tResult'.n = n /\ tResult'.bonus = bonus /\ tResult'.cacheAfter = len + n
      /\ tResult' \in Results
  BY <1>1, <1>4, <1>5 DEF Results
<1>7. Lead' = new /\ RoundsMade' = tStep + 1
  BY <1>1, <1>6 DEF Lead, RoundsMade
<1>8. RoundsMade = ResultsRead /\ RoundsMade = tStep /\ tStep \in Nat /\ ~Arrived("result")
  BY <1>1, IFacts, CoreFacts, StandFacts DEF RoundsMade
<1>9. ResultsRead' = ResultsRead /\ RoundsMade' # ResultsRead'
  BY <1>3, <1>7, <1>8 DEF ResultsRead, DraftHasResult
<1>10. TextsInStep'
  BY <1>1, <1>2, <1>3, <1>4, <1>6, <1>7, <1>9 DEF TextsInStep
<1>11. /\ target'.pos = len + n /\ target'.pending = bonus
       /\ Coherent(target', text, len + n)
  BY TargetStepCache
<1>12. /\ new \in Seq(Token) /\ Len(new) = Len(tCommitted) + n + 1
       /\ \A i \in 1 .. Len(tCommitted) + n : new[i] = (tCommitted \o tIds)[i]
       /\ \A i \in 1 .. Len(tCommitted) : new[i] = tCommitted[i]
       /\ \A i \in 1 .. n : new[Len(tCommitted) + i] = tIds[i]
       /\ new[Len(tCommitted) + n + 1] = bonus
  BY <1>4, AcceptedText, ZenonT(30)
<1> HIDE DEF new
<1>13. text \in Seq(Token) /\ Len(text) = len + job.gamma
  BY <1>1, TakenFacts
<1>14. Len(new) = len + n + 1
  BY <1>12
<1>15. \A i \in 1 .. len + n : text[i] = new[i]
  BY <1>12
<1> HIDE DEF text, len
<1>16. Coherent(target', new, len + n)
  <2>1. len + n \in Nat /\ len + n <= Len(text) /\ len + n <= Len(new)
    BY <1>4, <1>13, <1>14
  <2>. QED
    BY <1>11, <1>12, <1>13, <1>15, <2>1, CoherentAgree, Zenon
<1>17. /\ target'.pos = Len(new) - 1 /\ target'.pending = new[Len(new)]
       /\ target'.pending # NoToken
  <2>1. new[Len(new)] = bonus
    BY <1>12
  <2>2. bonus # NoToken
    BY NoTokenAssumption
  <2>3. Len(new) - 1 = len + n
    BY <1>4, <1>14
  <2>. QED
    BY <1>11, <2>1, <2>2, <2>3
<1>18. TargetStands'
  BY <1>1, <1>7, <1>11, <1>16, <1>17 DEF TargetStands, TargetRaised, Coherent
<1>. QED
  BY <1>1, <1>8, <1>10, <1>18, TargetMove

\* The target's own copy of the text catches up with what it has sent.
LEMMA SendResultReturnsAgrees == ASSUME IInv, SendResultReturns PROVE AgreementInv'
<1>1. /\ tpc = "sent_result"
      /\ tCommitted' = tCommitted \o SubSeq(tIds, 1, tResult.n) \o <<tResult.bonus>>
      /\ tStep' = tStep + 1
      /\ tpc' = IF tStep + 1 < job.steps THEN "await_ids" ELSE "flush"
      /\ UNCHANGED <<setting, draftVars, net, exitCode>>
      /\ UNCHANGED <<job, target, tIds, tRows, tResult>>
  BY DEF SendResultReturns, TargetLoop, setting, tLocal
<1>2. /\ tStep \in Nat /\ job.steps \in Nat /\ tStep < job.steps
  BY <1>1, IFacts, CoreFacts DEF TargetRounds, TargetHasIds, TargetHasLogits, TargetSentResult
<1>3. tpc' \in {"await_ids", "flush"} /\ (tpc' = "flush" => tStep' = job'.steps)
  BY <1>1, <1>2
<1>4. Lead' = Lead /\ RoundsMade' = RoundsMade
  BY <1>1, <1>3 DEF Lead, RoundsMade
<1>5. TargetStands'
  BY <1>1, <1>3, <1>4, IFacts DEF TargetStands, TargetRaised, Coherent
<1>6. TextsInStep'
  BY <1>1, <1>4, TextsStay
<1>. QED
  BY <1>1, <1>3, <1>5, <1>6, TargetMove

LEMMA FlushAgrees == ASSUME IInv, Flush PROVE AgreementInv'
<1> DEFINE taken == TakePendingBonus(target)
           b == target.pending
           f == Forward(taken, <<b>>)
<1>1. /\ tpc = "flush" /\ tpc' = "barrier" /\ b # NoToken /\ Fits(target, 1)
      /\ target' = [f EXCEPT !.p1 = Row(target, <<b>>, 1)]
      /\ UNCHANGED <<setting, draftVars, net, exitCode>>
      /\ UNCHANGED <<job, tCommitted, tStep, tIds, tRows, tResult>>
  BY DEF Flush, CommitPendingBonus, DecodeStep, setting, tLocal
<1>2. /\ target \in Executors(MaxSeq) /\ MaxSeq \in Nat /\ target.dev = target.pos
      /\ target.max = MaxSeq /\ target.pos \in Nat /\ b \in Token
      /\ Lead \in Seq(Token) /\ Len(Lead) \in Nat
  BY <1>1, IFacts, CoreFacts, TextTypes
<1>3. /\ Coherent(target, Lead, target.pos)
      /\ target.pos = Len(Lead) - 1 /\ b = Lead[Len(Lead)]
      /\ tStep = job.steps
  BY <1>1, IFacts DEF TargetStands, TargetRaised
<1>4. NoToken \in Token \cup {NoToken}
  OBVIOUS
<1>5. /\ taken \in Executors(MaxSeq) /\ taken.pos = target.pos
      /\ taken.dev = target.dev /\ taken.kv = target.kv /\ taken.pending = NoToken
  BY <1>2, <1>4, BonusOnly, TakeIsDeferNone, Zenon
<1>6. taken.max = MaxSeq
  BY <1>2, <1>5, ExecutorFields
<1>7. /\ Len(Lead) = taken.pos + 1 /\ Lead[taken.pos + 1] = b
      /\ Coherent(taken, Lead, taken.pos) /\ Fits(taken, 1) /\ taken.dev = taken.pos
  BY <1>1, <1>2, <1>3, <1>5, <1>6 DEF Coherent, Fits
<1>8. Row(taken, <<b>>, 1) = Row(target, <<b>>, 1)
  BY <1>5 DEF Row
<1> HIDE DEF taken, b
<1>9. /\ f \in Executors(MaxSeq) /\ f.pos = taken.pos + 1 /\ f.pending = taken.pending
      /\ Coherent(f, Lead, taken.pos + 1) /\ Row(taken, <<b>>, 1) = Lead
  <2>1. /\ taken \in Executors(MaxSeq) /\ MaxSeq \in Nat /\ Lead \in Seq(Token)
        /\ b \in Token /\ Len(Lead) = taken.pos + 1 /\ Lead[taken.pos + 1] = b
        /\ Coherent(taken, Lead, taken.pos) /\ Fits(taken, 1) /\ taken.dev = taken.pos
    BY <1>2, <1>5, <1>7
  <2>. QED
    BY <2>1, DecodeCoherent, Zenon
<1> HIDE DEF f
<1>10. /\ target'.pos = f.pos /\ target'.pending = f.pending /\ target'.kv = f.kv
       /\ target'.p1 = Lead
  BY <1>1, <1>8, <1>9 DEF Executors
<1>11. /\ target'.pos = Len(Lead) /\ target'.pending = NoToken
       /\ Coherent(target', Lead, target'.pos)
  BY <1>5, <1>7, <1>9, <1>10 DEF Coherent
<1>12. Lead' = Lead /\ RoundsMade' = RoundsMade
  BY <1>1 DEF Lead, RoundsMade
<1>13. TargetStands'
  BY <1>1, <1>3, <1>10, <1>11, <1>12 DEF TargetStands, TargetRaised, Coherent
<1>14. TextsInStep'
  BY <1>1, <1>12, TextsStay
<1>. QED
  BY <1>1, <1>13, <1>14, TargetMove

LEMMA NothingToFlushAgrees == ASSUME IInv, NothingToFlush PROVE AgreementInv'
<1>1. /\ tpc = "flush" /\ tpc' = "barrier" /\ target.pending = NoToken
      /\ UNCHANGED <<setting, draftVars, net, exitCode>>
      /\ UNCHANGED <<job, target, tCommitted, tStep, tIds, tRows, tResult>>
  BY DEF NothingToFlush, setting, tLocal
<1>2. Lead' = Lead /\ RoundsMade' = RoundsMade
  BY <1>1 DEF Lead, RoundsMade
<1>3. TargetStands'
  BY <1>1, <1>2, IFacts DEF TargetStands, TargetRaised, Coherent
<1>4. TextsInStep'
  BY <1>1, <1>2, TextsStay
<1>. QED
  BY <1>1, <1>3, <1>4, TargetMove

\* A target that has no room for the last bonus had too small a budget.
LEMMA FlushOverflowAgrees == ASSUME IInv, FlushOverflow PROVE AgreementInv'
<1>1. /\ tpc = "flush" /\ tpc' = "raised_flush" /\ target.pending # NoToken
      /\ ~Fits(target, 1)
      /\ UNCHANGED <<setting, draftVars, net, exitCode>>
      /\ UNCHANGED <<job, tCommitted, tStep, tIds, tRows, tResult>>
  BY DEF FlushOverflow, TargetRaises, setting, tLocal
<1>2. ~BudgetCovers
  <2>1. SUFFICES ASSUME BudgetCovers PROVE FALSE
    OBVIOUS
  <2>2. /\ target.pos = Len(Lead) - 1 /\ tStep = job.steps
    BY <1>1, IFacts DEF TargetStands, TargetRaised
  <2>3. /\ target.max = MaxSeq /\ MaxSeq \in Nat /\ target.pos \in Nat
        /\ Len(Lead) \in Nat /\ job.steps \in Nat /\ job.gamma \in Nat
    BY IFacts, CoreFacts, TextTypes
  <2>4. RoundsMade = job.steps
    BY <1>1, <2>2 DEF RoundsMade
  <2> DEFINE most == Len(job.prompt) + job.steps * (job.gamma + 1)
             len == Len(Lead)
  <2>5. len <= most /\ most <= MaxSeq
    BY <2>1, <2>4, LeadBound DEF BudgetCovers
  <2>6. most \in Nat
    <3>1. Len(job.prompt) \in Nat /\ job.steps * (job.gamma + 1) \in Nat
      BY <2>3, IFacts, CoreFacts, JobFacts, RoundsFit
    <3>. QED
      BY <3>1
  <2>7. ~(len <= MaxSeq) /\ len \in Nat
    BY <1>1, <2>2, <2>3 DEF Fits
  <2> HIDE DEF most, len
  <2>. QED
    BY <2>3, <2>5, <2>6, <2>7
<1>3. Lead' = Lead /\ RoundsMade' = RoundsMade
  BY <1>1 DEF Lead, RoundsMade
<1>4. TargetStands'
  BY <1>1, <1>2 DEF TargetStands, TargetRaised, BudgetCovers
<1>5. TextsInStep'
  BY <1>1, <1>3, TextsStay
<1>. QED
  BY <1>1, <1>4, <1>5, TargetMove

-----------------------------------------------------------------------------
(* The end of the job *)

\* When the draft has left its rounds, the texts are one.
LEMMA TextsAtEnd ==
    ASSUME IInv, tpc \in {"barrier", "compare", "exit"}, dpc \in {"barrier", "exit"}
    PROVE  tCommitted = dCommitted /\ Lead = tCommitted
<1>1. RoundsMade = ResultsRead
  BY IFacts, StandFacts
<1>. QED
  BY <1>1, IFacts DEF TextsInStep, Lead

LEMMA BarrierAgrees == ASSUME IInv, Barrier PROVE AgreementInv'
<1>1. /\ tpc = "barrier" /\ dpc = "barrier" /\ tpc' = "compare" /\ dpc' = "exit"
      /\ UNCHANGED <<setting, net, exitCode>>
      /\ UNCHANGED <<job, target, tCommitted, tStep, tIds, tRows, tResult>>
      /\ UNCHANGED <<draft, lastLogits, prefixLen, dCommitted, dStep, dIds, dRows, dResult>>
  BY DEF Barrier, setting, tLocal, dLocal
<1>2. Lead' = Lead /\ RoundsMade' = RoundsMade /\ ResultsRead' = ResultsRead
      /\ Drafted' = Drafted
  BY <1>1 DEF Lead, RoundsMade, ResultsRead, DraftHasResult, Drafted
<1>3. TextsInStep'
  BY <1>1, <1>2, IFacts, TextsFrame
<1>4. MessagesCurrent'
  BY <1>1, IFacts DEF MessagesCurrent, Arrived
<1>5. TargetStands'
  BY <1>1, <1>2, IFacts DEF TargetStands, TargetRaised, Coherent
<1>6. DraftStands'
  BY <1>1, <1>2, IFacts DEF DraftStands, DraftRaised, Coherent
<1>7. TextBounds'
  BY <1>1, <1>2, IFacts DEF TextBounds, BudgetCovers
<1>8. Ending'
  BY <1>1, IFacts DEF Ending
<1>. QED
  BY <1>3, <1>4, <1>5, <1>6, <1>7, <1>8 DEF AgreementInv

\* The comparison never finds a difference.
LEMMA CompareAgrees == ASSUME IInv, Compare PROVE AgreementInv'
<1>1. /\ tpc = "compare"
      /\ UNCHANGED <<setting, draftVars, net>>
      /\ UNCHANGED <<job, target, tCommitted, tStep, tIds, tRows, tResult>>
      /\ IF tCommitted # dCommitted THEN tpc' = "exit" /\ exitCode' = 2
         ELSE IF job.steps = 0 THEN tpc' = "raised_summary" /\ UNCHANGED exitCode
         ELSE tpc' = "exit" /\ exitCode' = 0
  BY DEF Compare, TargetRaises, setting, tLocal
<1>2. UNCHANGED <<dpc, dCommitted, dIds, dRows, prefixLen>>
  BY <1>1 DEF draftVars, dLocal
<1>3. dpc = "exit" /\ exitCode = NoExit
  BY <1>1, IFacts DEF Ending
<1>4. tCommitted = dCommitted
  BY <1>1, <1>3, TextsAtEnd
<1>5. \/ tpc' = "raised_summary" /\ exitCode' = NoExit
      \/ tpc' = "exit" /\ exitCode' = 0
  BY <1>1, <1>3, <1>4
<1>6. Lead' = Lead /\ RoundsMade' = RoundsMade
  BY <1>1, <1>5 DEF Lead, RoundsMade
<1>7. DraftStands' /\ TextBounds' /\ ResultsRead' = ResultsRead
  BY <1>1, IFacts, DraftStandsFrame
<1>8. TextsInStep'
  BY <1>1, <1>2, <1>6, <1>7, IFacts, TextsFrame
<1>9. MessagesCurrent'
  BY <1>1, <1>2, <1>5, IFacts DEF MessagesCurrent, Arrived
<1>10. TargetStands'
  BY <1>1, <1>5, <1>6, IFacts DEF TargetStands, TargetRaised, Coherent
<1>11. Ending'
  BY <1>2, <1>3, <1>5 DEF Ending
<1>. QED
  BY <1>7, <1>8, <1>9, <1>10, <1>11 DEF AgreementInv

-----------------------------------------------------------------------------
(* The invariant *)

LEMMA InitAgrees == Init => AgreementInv
<1>. SUFFICES ASSUME Init PROVE AgreementInv
  OBVIOUS
<1>1. /\ tpc = "prefill" /\ dpc = "prefill" /\ tStep = 0 /\ dStep = 0
      /\ tCommitted = job.prompt /\ dCommitted = job.prompt /\ exitCode = NoExit
      /\ target = NewExecutor(MaxSeq) /\ draft = NewExecutor(MaxSeq)
  BY DEF Init
<1>2. Lead = job.prompt /\ RoundsMade = 0 /\ ResultsRead = 0 /\ Drafted = job.prompt
  BY <1>1 DEF Lead, RoundsMade, ResultsRead, DraftHasResult, Drafted
<1>3. /\ target.pos = 0 /\ draft.pos = 0
      /\ Coherent(target, Lead, 0) /\ Coherent(draft, Drafted, 0)
  BY <1>1, MaxSeqNat, NewExecutorType
<1>4. TextsInStep
  BY <1>1, <1>2 DEF TextsInStep
<1>5. MessagesCurrent
  BY <1>1 DEF Init, MessagesCurrent, Arrived, Messages
<1>6. TargetStands
  BY <1>1, <1>3 DEF TargetStands, TargetRaised
<1>7. DraftStands
  BY <1>1, <1>3 DEF DraftStands, DraftRaised
<1>8. TextBounds
  <2>1. Core
    BY InitCore
  <2>2. job.gamma \in Nat /\ Len(job.prompt) \in Nat
    BY <2>1, CoreFacts, JobFacts
  <2>. QED
    BY <1>1, <1>2, <2>2 DEF TextBounds
<1>9. Ending
  BY <1>1 DEF Ending
<1>. QED
  BY <1>4, <1>5, <1>6, <1>7, <1>8, <1>9 DEF AgreementInv

LEMMA StutterAgrees == ASSUME IInv, UNCHANGED vars PROVE AgreementInv'
<1>1. /\ UNCHANGED <<setting, targetVars>> /\ UNCHANGED <<setting, draftVars>>
      /\ UNCHANGED <<net, exitCode>>
  BY DEF vars
<1>2. TargetStands' /\ Lead' = Lead /\ RoundsMade' = RoundsMade
  BY <1>1, IFacts, TargetStandsFrame
<1>3. DraftStands' /\ TextBounds' /\ ResultsRead' = ResultsRead
  BY <1>1, IFacts, DraftStandsFrame
<1>4. UNCHANGED <<job, tpc, tIds, tRows, tResult, dpc, dCommitted, dIds, dRows, prefixLen>>
  BY <1>1 DEF setting, targetVars, tLocal, draftVars, dLocal
<1>5. TextsInStep'
  BY <1>2, <1>3, <1>4, IFacts, TextsFrame
<1>6. MessagesCurrent' /\ Ending'
  BY <1>1, <1>4, IFacts DEF MessagesCurrent, Ending, Arrived
<1>. QED
  BY <1>2, <1>3, <1>5, <1>6 DEF AgreementInv

LEMMA NextIInv == IInv /\ [Next]_vars => IInv'
<1>. SUFFICES ASSUME IInv, [Next]_vars PROVE IInv'
  OBVIOUS
<1>1. ASSUME DraftNext PROVE AgreementInv'
  BY <1>1, DraftPrefillAgrees, DraftPrefillOverflowAgrees, GenerateDraftsAgrees,
     GenerateOverflowAgrees, SendIdsAgrees, SendReturnsAgrees, SendLogitsAgrees,
     RecvResultAgrees, ApplyTargetFeedbackAgrees, FeedbackVocabErrorAgrees,
     FeedbackOverflowAgrees DEF DraftNext
<1>2. ASSUME TargetNext PROVE AgreementInv'
  BY <1>2, TargetPrefillAgrees, TargetPrefillOverflowAgrees, RecvIdsAgrees,
     RecvLogitsAgrees, TargetStepAgrees, SendResultAgrees, SendResultReturnsAgrees,
     FlushAgrees, NothingToFlushAgrees, FlushOverflowAgrees DEF TargetNext
<1>3. ASSUME Collective PROVE AgreementInv'
  BY <1>3, BarrierAgrees, CompareAgrees DEF Collective
<1>4. ASSUME UNCHANGED vars PROVE AgreementInv'
  BY <1>4, StutterAgrees
<1>5. AgreementInv'
  BY <1>1, <1>2, <1>3, <1>4 DEF Next
<1>6. Core'
  BY IFacts, NextCore
<1>. QED
  BY <1>5, <1>6 DEF IInv

LEMMA InitIInv == Init => IInv
BY InitCore, InitAgrees DEF IInv

\* The ranks agree at every step: texts, messages, caches and bounds, for every job,
\* cache size and choice of eager sends (mpi_coordinator.py, both loops).
THEOREM Agreement == Spec => []IInv
BY InitIInv, NextIInv, PTL DEF Spec

-----------------------------------------------------------------------------
(* What follows *)

LEMMA MessagesAgreeHolds == IInv => MessagesAgree
<1>. SUFFICES ASSUME IInv PROVE MessagesAgree
  OBVIOUS
<1>1. ASSUME tpc = "verify"
      PROVE  /\ Len(tIds) = job.gamma
             /\ \A i \in 1 .. job.gamma + 1 :
                  /\ VerifyRow(i) = SubSeq(tCommitted \o tIds, 1, Len(tCommitted) + i - 1)
                  /\ tRows[i] = VerifyRow(i)
  <2>1. \A i \in 1 .. job.gamma + 1 :
           VerifyRow(i) = SubSeq(tCommitted \o tIds, 1, Len(tCommitted) + i - 1)
    BY <1>1, VerifyRows
  <2>. QED
    BY <1>1, <2>1, VerifyAgrees
<1>2. ASSUME dpc = "feedback"
      PROVE  /\ dResult.cacheAfter = prefixLen + dResult.n
             /\ dResult.cacheAfter + 1 = Len(dCommitted)
             /\ dCommitted = Lead
  <2>1. RoundsMade = ResultsRead
    BY <1>2, IFacts, StandFacts
  <2>. QED
    BY <1>2, <2>1, IFacts DEF TextsInStep, DraftStands
<1>. QED
  BY <1>1, <1>2 DEF MessagesAgree

LEMMA CachesMatchTextHolds == IInv => CachesMatchText
BY IFacts DEF CachesMatchText, TargetStands, DraftStands

LEMMA BudgetSufficesHolds == IInv => BudgetSuffices
BY IFacts, VerifyInputFacts DEF BudgetSuffices, TargetStands, TextBounds

LEMMA ExitCodeMeansHolds == IInv => ExitCodeMeans
<1>. SUFFICES ASSUME IInv PROVE ExitCodeMeans
  OBVIOUS
<1>1. exitCode # 2
  BY IFacts DEF Ending, NoExit
<1>2. ASSUME exitCode = 0
      PROVE  /\ ~DraftRaised /\ tCommitted = dCommitted
             /\ target.pos = Len(tCommitted) /\ draft.pos = Len(dCommitted)
             /\ Len(tCommitted) - Len(job.prompt)
                   \in job.steps .. job.steps * (job.gamma + 1)
  <2>1. tpc = "exit" /\ dpc = "exit"
    BY <1>2, IFacts DEF Ending, NoExit
  <2>2. tCommitted = dCommitted /\ Lead = tCommitted
    BY <2>1, TextsAtEnd
  <2>3. /\ target.pos = Len(Lead) /\ tStep = job.steps
        /\ draft.pos = Len(dCommitted)
    BY <2>1, IFacts DEF TargetStands, TargetRaised, DraftStands
  <2>4. RoundsMade = job.steps
    BY <2>1, <2>3 DEF RoundsMade
  <2>5. /\ Len(Lead) >= Len(job.prompt) + job.steps
        /\ Len(Lead) <= Len(job.prompt) + job.steps * (job.gamma + 1)
    BY <2>4, LeadBound
  <2>6. /\ Len(Lead) \in Nat /\ Len(job.prompt) \in Nat /\ job.steps \in Nat
        /\ job.steps * (job.gamma + 1) \in Nat
    <3>1. Len(job.prompt) \in Nat /\ job.steps \in Nat /\ job.gamma \in Nat
      BY IFacts, CoreFacts, JobFacts
    <3>2. Len(Lead) \in Nat
      BY IFacts, CoreFacts, TextTypes
    <3>3. job.steps <= job.steps
      BY <3>1
    <3>4. job.steps * (job.gamma + 1) \in Nat
      BY <3>1, <3>3, RoundsFit, Zenon
    <3>. QED
      BY <3>1, <3>2, <3>4
  <2> DEFINE most == job.steps * (job.gamma + 1)
             len == Len(Lead)
             p == Len(job.prompt)
  <2>7. len >= p + job.steps /\ len <= p + most /\ len \in Nat /\ p \in Nat
        /\ job.steps \in Nat /\ most \in Nat
    BY <2>5, <2>6
  <2> HIDE DEF most, len, p
  <2>8. len - p \in job.steps .. most
    BY <2>7
  <2>. QED
    BY <2>1, <2>2, <2>3, <2>8 DEF DraftRaised, most, len, p
<1>. QED
  BY <1>1, <1>2 DEF ExitCodeMeans

\* The rows the draft sends are conditioned on the text the target verifies, and
\* the answer it gets describes the text it derives (mpi_coordinator.py, both
\* loops): the two programs agree, though they share nothing but messages.
THEOREM RanksAgree == Spec => []MessagesAgree
BY Agreement, MessagesAgreeHolds, PTL

\* No forward of either executor attends to a slot that holds another text, at any
\* interleaving and after any rejection (executor.py rollback_cache).
THEOREM NoStaleSlot == Spec => []CachesMatchText
BY Agreement, CachesMatchTextHolds, PTL

\* --max-seq of prompt + steps * (gamma + 1) is enough for both caches, and the
\* check in verify_gamma never fires after the draft's own passed.
THEOREM CapacityBound == Spec => []BudgetSuffices
BY Agreement, BudgetSufficesHolds, PTL

\* Exit code 0 (mpi_coordinator.py main) means every round was made and both caches
\* hold the whole text; exit code 2 is dead.
THEOREM ExitCode == Spec => []ExitCodeMeans
BY Agreement, ExitCodeMeansHolds, PTL

-----------------------------------------------------------------------------
(* The two programs implement LockstepText *)

\* What the abstract text and its rounds do not see.
LEMMA LockstepFrame ==
    ASSUME UNCHANGED <<job, dCommitted, tCommitted, tStep, tIds, tResult>>,
           tpc' = tpc
             \/ (tpc \notin {"send_result", "sent_result"}
                   /\ tpc' \notin {"send_result", "sent_result"})
             \/ (tpc \in {"send_result", "sent_result"}
                   /\ tpc' \in {"send_result", "sent_result"})
    PROVE  UNCHANGED Lockstep!vars
<1>1. Lead' = Lead /\ RoundsMade' = RoundsMade
  BY DEF Lead, RoundsMade
<1>. QED
  BY <1>1 DEF Lockstep!vars

\* A text and a round of n drafts and a bonus extend it as LockstepText wants.
LEMMA TargetStepLeads ==
    ASSUME IInv, NEW n \in 0 .. job.gamma, NEW b \in Token, TargetStep(n, b)
    PROVE  Lockstep!Lead
<1> DEFINE len == Len(tCommitted)
           text == tCommitted \o tIds
           o == tCommitted \o SubSeq(tIds, 1, n) \o <<b>>
<1>1. /\ tpc = "verify" /\ tpc' = "send_result" /\ job' = job
      /\ dCommitted' = dCommitted /\ tCommitted' = tCommitted /\ tIds' = tIds
      /\ tStep' = tStep
      /\ tResult'.n = n /\ tResult'.bonus = b
      /\ \A i \in 1 .. n : tIds[i] \in Support(VerifyRow(i))
      /\ b \in Support(VerifyRow(n + 1))
  BY DEF TargetStep, draftVars, dLocal, setting
<1>2. /\ tCommitted = dCommitted /\ Lead = tCommitted /\ Len(tIds) = job.gamma
      /\ RoundsMade = tStep /\ tStep < job.steps
  BY <1>1, VerifyAgrees, IFacts, CoreFacts DEF RoundsMade, TargetRounds, TargetHasIds, TargetHasLogits
<1>3. /\ tCommitted \in Seq(Token) /\ tIds \in Seq(Token) /\ len \in Nat
      /\ job.gamma \in Nat /\ n \in 0 .. Len(tIds) /\ n \in Nat
      /\ n + 1 \in 1 .. job.gamma + 1
  BY <1>2, IFacts, CoreFacts, TextTypes
<1>4. Lead' = o /\ RoundsMade' = RoundsMade + 1
  BY <1>1, <1>2 DEF Lead, RoundsMade
<1>5. /\ o \in Seq(Token) /\ Len(o) = len + n + 1
      /\ \A i \in 1 .. len + n : o[i] = text[i]
      /\ \A i \in 1 .. len : o[i] = tCommitted[i]
      /\ \A i \in 1 .. n : o[len + i] = tIds[i]
      /\ o[len + n + 1] = b
  BY <1>3, AcceptedText, ZenonT(30)
<1>6. text \in Seq(Token) /\ Len(text) = len + job.gamma
  BY <1>1, TakenFacts
<1>7. \A i \in 1 .. job.gamma + 1 : VerifyRow(i) = SubSeq(text, 1, len + i - 1)
  BY <1>1, VerifyRows
<1> HIDE DEF o, text
<1>8. SubSeq(o, 1, len) = tCommitted
  <2>1. len <= Len(o) /\ len <= Len(tCommitted)
    BY <1>3, <1>5
  <2>2. SubSeq(o, 1, len) = SubSeq(tCommitted, 1, len)
    BY <1>3, <1>5, <2>1, SamePrefix, Zenon
  <2>. QED
    BY <1>3, <2>2
<1> HIDE DEF len
<1>9. ASSUME NEW k \in 1 .. n + 1
      PROVE  o[len + k] \in Support(SubSeq(o, 1, len + k - 1))
  <2> DEFINE m == len + k - 1
  <2>1. m \in Nat /\ m <= len + n /\ k \in 1 .. job.gamma + 1
        /\ m <= Len(o) /\ m <= Len(text)
    BY <1>3, <1>5, <1>6
  <2>2. VerifyRow(k) = SubSeq(text, 1, m)
    BY <1>7, <2>1
  <2> HIDE DEF m
  <2>3. \A i \in 1 .. m : o[i] = text[i]
    BY <1>3, <1>5, <2>1
  <2>4. SubSeq(o, 1, m) = SubSeq(text, 1, m)
    BY <1>5, <1>6, <2>1, <2>3, SamePrefix, Zenon
  <2>5. o[len + k] \in Support(VerifyRow(k))
    <3>1. CASE k \in 1 .. n
      BY <1>1, <1>5, <3>1
    <3>2. CASE k = n + 1
      <4>1. len + k = len + n + 1
        BY <1>3, <3>2
      <4>. QED
        BY <1>1, <1>5, <3>2, <4>1
    <3>. QED
      BY <1>3, <3>1, <3>2
  <2>. QED
    BY <2>2, <2>4, <2>5 DEF m
<1>10. ASSUME NEW i \in len + 1 .. Len(o)
       PROVE  o[i] \in Support(SubSeq(o, 1, i - 1))
  <2> DEFINE k == i - len
  <2>1. k \in 1 .. n + 1 /\ len + k = i /\ len + k - 1 = i - 1
    BY <1>3, <1>5
  <2> HIDE DEF k
  <2>2. o[len + k] \in Support(SubSeq(o, 1, len + k - 1))
    BY <1>9, <2>1
  <2>. QED
    BY <2>1, <2>2
<1>11. Len(o) \in len + 1 .. len + job.gamma + 1
  BY <1>3, <1>5
<1>12. /\ Len(Lead') \in Len(Lead) + 1 .. Len(Lead) + job.gamma + 1
       /\ SubSeq(Lead', 1, Len(Lead)) = Lead
       /\ \A i \in Len(Lead) + 1 .. Len(Lead') : Lead'[i] \in Support(SubSeq(Lead', 1, i - 1))
  BY <1>2, <1>4, <1>8, <1>10, <1>11, Zenon DEF len
<1>13. dCommitted = Lead /\ RoundsMade < job.steps /\ RoundsMade' = RoundsMade + 1
       /\ UNCHANGED <<job, dCommitted>>
  BY <1>1, <1>2, <1>4
<1>. QED
  BY <1>12, <1>13, Zenon DEF Lockstep!Lead

\* The draft, told the answer, has the target's text.
LEMMA RecvResultFollows == ASSUME IInv, RecvResult PROVE Lockstep!Follow
<1> DEFINE r == Head(net["result"])
<1>1. /\ dpc = "await_result" /\ Arrived("result")
      /\ dCommitted' = dCommitted \o SubSeq(dIds, 1, r.n) \o <<r.bonus>>
      /\ UNCHANGED <<job, tpc, tCommitted, tStep, tIds, tResult>>
  BY DEF RecvResult, setting, targetVars, tLocal
<1>2. RoundsMade # ResultsRead
  BY <1>1, IFacts, StandFacts
<1>3. r = tResult /\ Lead = dCommitted \o SubSeq(dIds, 1, tResult.n) \o <<tResult.bonus>>
  BY <1>1, <1>2, IFacts DEF MessagesCurrent, TextsInStep
<1>4. dCommitted' = Lead
  BY <1>1, <1>3
<1>5. Lead # dCommitted
  <2>1. Len(Lead) = Len(dCommitted) + tResult.n + 1 /\ tResult.n \in Nat
        /\ Len(dCommitted) \in Nat
    BY <1>2, LeadFacts, IFacts, TextTypes
  <2>. QED
    BY <2>1
<1>6. Lead' = Lead /\ RoundsMade' = RoundsMade
  BY <1>1 DEF Lead, RoundsMade
<1>. QED
  BY <1>1, <1>4, <1>5, <1>6 DEF Lockstep!Follow

LEMMA DraftLockstep == ASSUME IInv, DraftNext PROVE [Lockstep!Next]_(Lockstep!vars)
<1>1. CASE RecvResult
  BY <1>1, RecvResultFollows DEF Lockstep!Next
<1>2. CASE ~RecvResult
  <2>1. UNCHANGED <<job, tpc, dCommitted, tCommitted, tStep, tIds, tResult>>
    BY <1>2 DEF DraftNext, DraftPrefill, DraftPrefillOverflow, GenerateDrafts,
                GenerateOverflow, SendIds, SendIdsReturns, SendLogits, SendLogitsReturns,
                ApplyTargetFeedback, FeedbackVocabError, FeedbackOverflow,
                setting, targetVars, tLocal, dLocal
  <2>. QED
    BY <2>1, LockstepFrame, Zenon
<1>. QED
  BY <1>1, <1>2

LEMMA TargetLockstep == ASSUME IInv, TargetNext PROVE [Lockstep!Next]_(Lockstep!vars)
<1>1. ASSUME NEW n \in 0 .. job.gamma, NEW b \in Token, TargetStep(n, b)
      PROVE  [Lockstep!Next]_(Lockstep!vars)
  BY <1>1, TargetStepLeads DEF Lockstep!Next
<1>2. ASSUME SendResultReturns PROVE UNCHANGED Lockstep!vars
  <2>1. /\ tpc = "sent_result" /\ tpc' \notin {"send_result", "sent_result"}
        /\ tCommitted' = tCommitted \o SubSeq(tIds, 1, tResult.n) \o <<tResult.bonus>>
        /\ tStep' = tStep + 1
        /\ UNCHANGED <<job, dCommitted>>
    BY <1>2 DEF SendResultReturns, TargetLoop, setting, draftVars, dLocal
  <2>2. Lead' = Lead /\ RoundsMade' = RoundsMade
    BY <2>1 DEF Lead, RoundsMade
  <2>. QED
    BY <2>1, <2>2 DEF Lockstep!vars
<1>3. ASSUME SendResult PROVE UNCHANGED Lockstep!vars
  <2>1. /\ tpc = "send_result" /\ tpc' = "sent_result"
        /\ UNCHANGED <<job, dCommitted, tCommitted, tStep, tIds, tResult>>
    BY <1>3 DEF SendResult, setting, draftVars, dLocal, tLocal
  <2>. QED
    BY <2>1, LockstepFrame, Zenon
<1>4. ASSUME RecvIds \/ RecvLogits PROVE UNCHANGED Lockstep!vars
  <2>1. /\ tpc \notin {"send_result", "sent_result"} /\ tpc' \notin {"send_result", "sent_result"}
        /\ UNCHANGED <<job, dCommitted, tCommitted, tStep, tResult>>
    BY <1>4 DEF RecvIds, RecvLogits, setting, draftVars, dLocal
  <2>2. Lead' = Lead /\ RoundsMade' = RoundsMade
    BY <2>1 DEF Lead, RoundsMade
  <2>. QED
    BY <2>1, <2>2 DEF Lockstep!vars
<1>5. ASSUME \/ TargetPrefill \/ TargetPrefillOverflow
             \/ Flush \/ NothingToFlush \/ FlushOverflow
      PROVE  UNCHANGED Lockstep!vars
  <2>1. /\ tpc \notin {"send_result", "sent_result"} /\ tpc' \notin {"send_result", "sent_result"}
        /\ UNCHANGED <<job, dCommitted, tCommitted, tStep, tIds, tResult>>
    BY <1>5 DEF TargetPrefill, TargetPrefillOverflow, Flush, NothingToFlush, FlushOverflow,
                TargetLoop, TargetRaises, setting, draftVars, dLocal, tLocal
  <2>. QED
    BY <2>1, LockstepFrame, Zenon
<1>. QED
  BY <1>1, <1>2, <1>3, <1>4, <1>5 DEF TargetNext

LEMMA StepRefines == IInv /\ [Next]_vars => [Lockstep!Next]_(Lockstep!vars)
<1>. SUFFICES ASSUME IInv, [Next]_vars PROVE [Lockstep!Next]_(Lockstep!vars)
  OBVIOUS
<1>1. ASSUME Collective PROVE UNCHANGED Lockstep!vars
  <2>1. /\ tpc \notin {"send_result", "sent_result"} /\ tpc' \notin {"send_result", "sent_result"}
        /\ UNCHANGED <<job, dCommitted, tCommitted, tStep, tIds, tResult>>
    BY <1>1 DEF Collective, Barrier, Compare, TargetRaises, setting, draftVars, dLocal, tLocal
  <2>. QED
    BY <2>1, LockstepFrame, Zenon
<1>2. ASSUME UNCHANGED vars PROVE UNCHANGED Lockstep!vars
  <2>1. UNCHANGED <<job, tpc, dCommitted, tCommitted, tStep, tIds, tResult>>
    BY <1>2 DEF vars, setting, targetVars, tLocal, draftVars, dLocal
  <2>. QED
    BY <2>1, LockstepFrame, Zenon
<1>. QED
  BY <1>1, <1>2, DraftLockstep, TargetLockstep DEF Next

\* Messages, drafts and caches are invisible: rank 0 extends the text by a round of
\* tokens its own distribution allows, rank 1 copies that round, and neither starts
\* another before (mpi_coordinator.py, both loops).
THEOREM Refinement == Spec => RefinesLockstep
<1>1. Init => Lockstep!Init
  BY DEF Init, Lockstep!Init, Lead, RoundsMade
<1>2. IInv /\ [Next]_vars => [Lockstep!Next]_(Lockstep!vars)
  BY StepRefines
<1>. QED
  BY <1>1, <1>2, Agreement, PTL DEF Spec, RefinesLockstep, Lockstep!Spec
=============================================================================
