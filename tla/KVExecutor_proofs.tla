-------------------------- MODULE KVExecutor_proofs --------------------------
(***************************************************************************)
(* What the operators of KVExecutor guarantee, for every vocabulary and    *)
(* cache size.  The text is the token sequence a caller believes is in the *)
(* cache; the lemmas say when a forward, a rollback or a prefill keeps the *)
(* slots and the rows equal to what that text alone determines.            *)
(***************************************************************************)
EXTENDS KVExecutor, SequenceTheorems, TLAPS

Slots == Seq(Token \cup {NoToken})

\* Every token sequence is a slot content.
LEMMA WidenSeq == Seq(Token) \subseteq Slots
<1>. SUFFICES ASSUME NEW s \in Seq(Token) PROVE s \in Slots
  OBVIOUS
<1>1. s \in [1 .. Len(s) -> Token \cup {NoToken}] /\ Len(s) \in Nat
  OBVIOUS
<1>. QED
  BY <1>1 DEF Slots

-----------------------------------------------------------------------------
(* Rows and slots *)

\* A forward whose tokens continue text where the cursor stands reads exactly
\* the text: the rows' contexts are its prefixes.
LEMMA RowIsPrefix ==
    ASSUME NEW max \in Nat, NEW e \in Executors(max),
           NEW text \in Seq(Token), NEW toks \in Seq(Token),
           Coherent(e, text, e.pos),
           e.pos + Len(toks) <= Len(text),
           \A i \in 1 .. Len(toks) : toks[i] = text[e.pos + i],
           NEW j \in 0 .. Len(toks)
    PROVE  Row(e, toks, j) = SubSeq(text, 1, e.pos + j)
<1>1. e.pos \in 0 .. max /\ e.pos \in Nat
  BY DEF Executors
<1>2. ASSUME NEW i \in 1 .. e.pos
      PROVE  SlotToken(e.kv[i - 1]) = text[i]
  <2>1. i - 1 \in 0 .. e.pos - 1 /\ (i - 1) + 1 = i
    BY <1>1
  <2>2. e.kv[i - 1] = SubSeq(text, 1, (i - 1) + 1)
    BY <2>1, Zenon DEF Coherent
  <2> DEFINE s == SubSeq(text, 1, i)
  <2>3. s \in Seq(Token) /\ Len(s) = i /\ s[i] = text[i]
    BY <1>1
  <2> HIDE DEF s
  <2>4. s # <<>>
    BY <2>3
  <2>5. SlotToken(s) = text[i]
    BY <2>3, <2>4 DEF SlotToken
  <2>. QED
    BY <2>1, <2>2, <2>5 DEF s
<1>3. ASSUME NEW i \in 1 .. e.pos + j
      PROVE  Row(e, toks, j)[i] = text[i]
  <2>1. Row(e, toks, j)[i] =
          IF i <= e.pos THEN SlotToken(e.kv[i - 1]) ELSE toks[i - e.pos]
    BY <1>1 DEF Row
  <2>2. CASE i <= e.pos
    BY <2>1, <2>2, <1>1, <1>2
  <2>3. CASE ~(i <= e.pos)
    <3>1. i - e.pos \in 1 .. Len(toks) /\ e.pos + (i - e.pos) = i
      BY <2>3, <1>1
    <3>. QED
      BY <2>1, <2>3, <3>1
  <2>. QED
    BY <2>2, <2>3
<1>4. SubSeq(text, 1, e.pos + j) = [i \in 1 .. e.pos + j |-> text[i]]
  BY <1>1
<1>. QED
  BY <1>3, <1>4 DEF Row

\* Such a forward keeps the cache coherent with the text, and the record typed.
LEMMA ForwardCoherent ==
    ASSUME NEW max \in Nat, NEW e \in Executors(max),
           NEW text \in Seq(Token), NEW toks \in Seq(Token),
           Coherent(e, text, e.pos),
           Fits(e, Len(toks)),
           e.dev = e.pos,
           e.pos + Len(toks) <= Len(text),
           \A i \in 1 .. Len(toks) : toks[i] = text[e.pos + i]
    PROVE  /\ Forward(e, toks) \in Executors(max)
           /\ Forward(e, toks).pos = e.pos + Len(toks)
           /\ Forward(e, toks).dev = e.pos + Len(toks)
           /\ Forward(e, toks).pending = e.pending
           /\ Forward(e, toks).p1 = e.p1
           /\ Coherent(Forward(e, toks), text, e.pos + Len(toks))
<1>1. e.pos \in 0 .. max /\ e.max = max /\ DOMAIN e.kv = 0 .. max - 1
  BY DEF Executors
<1>2. \A j \in 0 .. Len(toks) : Row(e, toks, j) = SubSeq(text, 1, e.pos + j)
  BY RowIsPrefix
<1> DEFINE kv == [s \in DOMAIN e.kv |->
                     IF e.pos <= s /\ s < e.pos + Len(toks)
                     THEN Row(e, toks, s - e.pos + 1)
                     ELSE e.kv[s]]
<1>3. ASSUME NEW s \in 0 .. max - 1, e.pos <= s, s < e.pos + Len(toks)
      PROVE  kv[s] = SubSeq(text, 1, s + 1)
  <2>1. s - e.pos + 1 \in 0 .. Len(toks) /\ e.pos + (s - e.pos + 1) = s + 1
    BY <1>1, <1>3
  <2>. QED
    BY <1>1, <1>2, <1>3, <2>1
<1>4. kv \in [0 .. max - 1 -> Slots]
  <2>1. ASSUME NEW s \in 0 .. max - 1 PROVE kv[s] \in Slots
    <3>1. CASE e.pos <= s /\ s < e.pos + Len(toks)
      <4>1. SubSeq(text, 1, s + 1) \in Seq(Token)
        BY <1>1, <3>1
      <4>. QED
        BY <3>1, <1>3, <4>1, WidenSeq
    <3>2. CASE ~(e.pos <= s /\ s < e.pos + Len(toks))
      BY <3>2, <1>1 DEF Executors, Slots
    <3>. QED
      BY <3>1, <3>2
  <2>. QED
    BY <2>1, <1>1
<1> DEFINE n == e.pos + Len(toks)
           dev == IF Len(toks) = 1 THEN e.dev + 1 ELSE n
<1>5. /\ Forward(e, toks).kv = kv
      /\ Forward(e, toks).pos = e.pos + Len(toks)
      /\ Forward(e, toks).dev = e.pos + Len(toks)
      /\ Forward(e, toks).pending = e.pending
      /\ Forward(e, toks).p1 = e.p1
      /\ Forward(e, toks) \in Executors(max)
  <2>1. Forward(e, toks) = [e EXCEPT !.kv = kv, !.pos = n, !.dev = dev]
    BY DEF Forward
  <2>2. n \in 0 .. max /\ dev = n
    <3>1. Len(toks) \in Nat /\ e.pos + Len(toks) <= max
      BY <1>1 DEF Fits
    <3>2. CASE Len(toks) = 1
      BY <1>1, <3>1, <3>2
    <3>3. CASE Len(toks) # 1
      BY <1>1, <3>1, <3>3
    <3>. QED
      BY <3>2, <3>3
  <2> HIDE DEF kv, n, dev
  <2>3. [e EXCEPT !.kv = kv, !.pos = n, !.dev = dev] \in Executors(max)
    BY <2>2, <1>4 DEF Executors, Slots
  <2>. QED
    BY <2>1, <2>2, <2>3 DEF Executors, n
<1>6. Coherent(Forward(e, toks), text, e.pos + Len(toks))
  <2>1. ASSUME NEW s \in 0 .. (e.pos + Len(toks)) - 1
        PROVE  kv[s] = SubSeq(text, 1, s + 1)
    <3>1. s \in 0 .. max - 1
      BY <1>1 DEF Fits
    <3>2. CASE e.pos <= s
      BY <3>1, <3>2, <1>3, <1>1
    <3>3. CASE ~(e.pos <= s)
      BY <3>1, <3>3, <1>1 DEF Coherent
    <3>. QED
      BY <3>2, <3>3
  <2>2. \A s \in 0 .. (e.pos + Len(toks)) - 1 : kv[s] = SubSeq(text, 1, s + 1)
    BY <2>1
  <2>3. Forward(e, toks).kv = kv
    BY <1>5
  <2>. HIDE DEF kv
  <2>. QED
    BY <2>2, <2>3, Zenon DEF Coherent
<1>. QED
  BY <1>5, <1>6

\* Two texts with the same beginning have the same prefixes there.
LEMMA SamePrefix ==
    ASSUME NEW s \in Seq(Token), NEW t \in Seq(Token), NEW n \in Nat,
           n <= Len(s), n <= Len(t), \A i \in 1 .. n : s[i] = t[i]
    PROVE  SubSeq(s, 1, n) = SubSeq(t, 1, n)
<1>1. SubSeq(s, 1, n) = [i \in 1 .. n |-> s[i]]
  OBVIOUS
<1>2. SubSeq(t, 1, n) = [i \in 1 .. n |-> t[i]]
  OBVIOUS
<1>. QED
  BY <1>1, <1>2

\* Coherence with one text carries over to a text with the same beginning.
LEMMA CoherentAgree ==
    ASSUME NEW e, NEW s \in Seq(Token), NEW t \in Seq(Token), NEW n \in Nat,
           Coherent(e, s, n), n <= Len(s), n <= Len(t),
           \A i \in 1 .. n : s[i] = t[i]
    PROVE  Coherent(e, t, n)
<1>. SUFFICES ASSUME NEW k \in 0 .. n - 1
              PROVE  SubSeq(s, 1, k + 1) = SubSeq(t, 1, k + 1)
  BY DEF Coherent
<1>1. SubSeq(s, 1, k + 1) = [i \in 1 .. k + 1 |-> s[i]]
  OBVIOUS
<1>2. SubSeq(t, 1, k + 1) = [i \in 1 .. k + 1 |-> t[i]]
  OBVIOUS
<1>. QED
  BY <1>1, <1>2

LEMMA CoherentShorter ==
    ASSUME NEW e, NEW s, NEW n \in Nat, NEW m \in Nat, m <= n,
           Coherent(e, s, n)
    PROVE  Coherent(e, s, m)
<1>1. 0 .. m - 1 \subseteq 0 .. n - 1
  OBVIOUS
<1>. QED
  BY <1>1, Zenon DEF Coherent

\* Moving the cursor leaves the slots alone.
LEMMA RollbackOnly ==
    ASSUME NEW max \in Nat, NEW e \in Executors(max), NEW to \in 0 .. max
    PROVE  /\ RollbackCache(e, to) \in Executors(max)
           /\ RollbackCache(e, to).pos = to
           /\ RollbackCache(e, to).dev = to
           /\ RollbackCache(e, to).kv = e.kv
           /\ RollbackCache(e, to).pending = e.pending
           /\ RollbackCache(e, to).p1 = e.p1
BY DEF Executors, RollbackCache

\* So does changing the deferred bonus.
LEMMA BonusOnly ==
    ASSUME NEW max \in Nat, NEW e \in Executors(max),
           NEW b \in Token \cup {NoToken}
    PROVE  /\ DeferBonusToken(e, b) \in Executors(max)
           /\ DeferBonusToken(e, b).pos = e.pos
           /\ DeferBonusToken(e, b).dev = e.dev
           /\ DeferBonusToken(e, b).kv = e.kv
           /\ DeferBonusToken(e, b).p1 = e.p1
           /\ DeferBonusToken(e, b).pending = b
BY DEF Executors, DeferBonusToken

LEMMA TakeIsDeferNone == ASSUME NEW e
                         PROVE  TakePendingBonus(e) = DeferBonusToken(e, NoToken)
BY DEF DeferBonusToken, TakePendingBonus

LEMMA NewExecutorType ==
    ASSUME NEW max \in Nat
    PROVE  /\ NewExecutor(max) \in Executors(max)
           /\ NewExecutor(max).pos = 0 /\ NewExecutor(max).dev = 0
           /\ NewExecutor(max).pending = NoToken
           /\ \A text : Coherent(NewExecutor(max), text, 0)
BY DEF Executors, NewExecutor, Coherent, NoRow

LEMMA ResetType ==
    ASSUME NEW max \in Nat, NEW e \in Executors(max)
    PROVE  ResetKvCache(e) = NewExecutor(max)
BY DEF Executors, ResetKvCache

\* After a prefill that fits, the cache and p_1 are those of the prompt.
LEMMA PrefillCoherent ==
    ASSUME NEW max \in Nat, NEW e \in Executors(max),
           NEW prompt \in Seq(Token), Len(prompt) <= max
    PROVE  /\ Prefill(e, prompt) \in Executors(max)
           /\ Prefill(e, prompt).pos = Len(prompt)
           /\ Prefill(e, prompt).dev = Len(prompt)
           /\ Prefill(e, prompt).pending = NoToken
           /\ Prefill(e, prompt).p1 = prompt
           /\ Coherent(Prefill(e, prompt), prompt, Len(prompt))
           /\ Row(ResetKvCache(e), prompt, Len(prompt)) = prompt
<1> DEFINE r == NewExecutor(max)
<1>1. /\ ResetKvCache(e) = r /\ r \in Executors(max)
      /\ r.pos = 0 /\ r.dev = 0 /\ r.pending = NoToken
      /\ Coherent(r, prompt, 0)
  BY ResetType, NewExecutorType
<1>2. Fits(r, Len(prompt))
  BY <1>1 DEF Fits, NewExecutor
<1> HIDE DEF r
<1>3. SubSeq(prompt, 1, Len(prompt)) = prompt
  OBVIOUS
<1>4. Row(r, prompt, Len(prompt)) = prompt
  <2>1. Row(r, prompt, Len(prompt)) = SubSeq(prompt, 1, r.pos + Len(prompt))
    BY <1>1, RowIsPrefix
  <2>. QED
    BY <2>1, <1>1, <1>3
<1>5. /\ Forward(r, prompt) \in Executors(max)
      /\ Forward(r, prompt).pos = Len(prompt)
      /\ Forward(r, prompt).dev = Len(prompt)
      /\ Forward(r, prompt).pending = NoToken
      /\ Coherent(Forward(r, prompt), prompt, Len(prompt))
  <2>1. /\ r.pos + Len(prompt) = Len(prompt)
        /\ \A i \in 1 .. Len(prompt) : prompt[i] = prompt[r.pos + i]
    BY <1>1
  <2>. QED
    BY <1>1, <1>2, <2>1, ForwardCoherent
<1>6. Prefill(e, prompt) = [Forward(r, prompt) EXCEPT !.p1 = prompt]
  BY <1>1, <1>4 DEF Prefill
<1> DEFINE f == Forward(r, prompt)
<1> HIDE DEF f
<1>7. prompt \in Slots
  BY DEF Slots
<1>. QED
  BY <1>1, <1>4, <1>5, <1>6, <1>7 DEF Executors, Coherent, Slots, f

\* The fields of an executor have their types.
LEMMA ExecutorFields ==
    ASSUME NEW max \in Nat, NEW e \in Executors(max)
    PROVE  /\ e.max = max
           /\ e.pos \in Nat /\ e.pos <= max
           /\ e.dev \in Nat
           /\ e.p1 \in Slots
           /\ e.pending \in Token \cup {NoToken}
BY DEF Executors, Slots

\* A one-token forward at the end of the text.
LEMMA DecodeCoherent ==
    ASSUME NEW max \in Nat, NEW e \in Executors(max),
           NEW text \in Seq(Token), NEW t \in Token,
           Len(text) = e.pos + 1, text[e.pos + 1] = t,
           Coherent(e, text, e.pos), Fits(e, 1), e.dev = e.pos
    PROVE  /\ Forward(e, <<t>>) \in Executors(max)
           /\ Forward(e, <<t>>).pos = e.pos + 1
           /\ Forward(e, <<t>>).dev = e.pos + 1
           /\ Forward(e, <<t>>).pending = e.pending
           /\ Forward(e, <<t>>).p1 = e.p1
           /\ Coherent(Forward(e, <<t>>), text, e.pos + 1)
           /\ Row(e, <<t>>, 1) = text /\ text \in Slots
<1>1. e.pos \in Nat
  BY ExecutorFields
<1>2. <<t>> \in Seq(Token) /\ Len(<<t>>) = 1 /\ 1 \in 0 .. Len(<<t>>)
  OBVIOUS
<1>3. \A i \in 1 .. Len(<<t>>) : <<t>>[i] = text[e.pos + i]
  <2>1. SUFFICES ASSUME NEW i \in 1 .. 1 PROVE <<t>>[i] = text[e.pos + i]
    BY <1>2
  <2>2. i = 1
    OBVIOUS
  <2>. QED
    BY <2>2
<1>4. Fits(e, Len(<<t>>)) /\ e.pos + Len(<<t>>) <= Len(text)
  <2>1. e.pos + 1 <= Len(text)
    BY <1>1
  <2>. QED
    BY <1>2, <2>1
<1>5. /\ Forward(e, <<t>>) \in Executors(max)
      /\ Forward(e, <<t>>).pos = e.pos + Len(<<t>>)
      /\ Forward(e, <<t>>).dev = e.pos + Len(<<t>>)
      /\ Forward(e, <<t>>).pending = e.pending
      /\ Forward(e, <<t>>).p1 = e.p1
      /\ Coherent(Forward(e, <<t>>), text, e.pos + Len(<<t>>))
  BY <1>2, <1>3, <1>4, ForwardCoherent
<1>6. Row(e, <<t>>, 1) = SubSeq(text, 1, e.pos + 1)
  BY <1>2, <1>3, <1>4, RowIsPrefix
<1>7. SubSeq(text, 1, e.pos + 1) = text
  BY <1>1
<1>. QED
  BY <1>2, <1>5, <1>6, <1>7, WidenSeq
-----------------------------------------------------------------------------
(* Types alone, whatever the slots hold *)

\* A row reads token ids, or nothing where a slot is empty.
LEMMA RowType ==
    ASSUME NEW max \in Nat, NEW e \in Executors(max),
           NEW toks \in Seq(Token), NEW j \in 0 .. Len(toks)
    PROVE  Row(e, toks, j) \in Slots
<1>1. e.pos \in Nat /\ e.pos <= max
  BY ExecutorFields
<1>2. e.kv \in [0 .. max - 1 -> Slots]
  BY DEF Executors, Slots
<1>3. ASSUME NEW slot \in Slots PROVE SlotToken(slot) \in Token \cup {NoToken}
  <2>1. slot \in [1 .. Len(slot) -> Token \cup {NoToken}] /\ Len(slot) \in Nat
    BY DEF Slots
  <2>2. slot # <<>> => Len(slot) \in 1 .. Len(slot)
    BY <2>1
  <2>. QED
    BY <2>1, <2>2 DEF SlotToken
<1>4. ASSUME NEW i \in 1 .. e.pos + j
      PROVE  Row(e, toks, j)[i] \in Token \cup {NoToken}
  <2>1. Row(e, toks, j)[i] =
          IF i <= e.pos THEN SlotToken(e.kv[i - 1]) ELSE toks[i - e.pos]
    BY <1>1 DEF Row
  <2>2. CASE i <= e.pos
    <3>1. i - 1 \in 0 .. max - 1
      BY <1>1, <2>2
    <3>2. e.kv[i - 1] \in Slots
      BY <1>2, <3>1
    <3>. QED
      BY <2>1, <2>2, <3>2, <1>3
  <2>3. CASE ~(i <= e.pos)
    <3>1. i - e.pos \in 1 .. Len(toks)
      BY <2>3, <1>1
    <3>. QED
      BY <2>1, <2>3, <3>1
  <2>. QED
    BY <2>2, <2>3
<1> DEFINE row == Row(e, toks, j)
           m == e.pos + j
<1>5. row = [i \in 1 .. m |-> row[i]] /\ m \in Nat
  BY <1>1 DEF Row
<1>6. \A i \in 1 .. m : row[i] \in Token \cup {NoToken}
  BY <1>4
<1> HIDE DEF row, m
<1>7. row \in [1 .. m -> Token \cup {NoToken}]
  BY <1>5, <1>6
<1>8. row \in Slots
  BY <1>5, <1>7, SeqDef DEF Slots
<1>. QED
  BY <1>8 DEF row

\* A forward that fits leaves a record with both cursors behind its tokens.
LEMMA ForwardType ==
    ASSUME NEW max \in Nat, NEW e \in Executors(max), NEW toks \in Seq(Token),
           Fits(e, Len(toks)), e.dev = e.pos
    PROVE  /\ Forward(e, toks) \in Executors(max)
           /\ Forward(e, toks).pos = e.pos + Len(toks)
           /\ Forward(e, toks).dev = e.pos + Len(toks)
           /\ Forward(e, toks).pending = e.pending
<1>1. e.pos \in Nat /\ e.max = max /\ DOMAIN e.kv = 0 .. max - 1 /\ e.pos <= max
  BY DEF Executors
<1>2. Len(toks) \in Nat
  OBVIOUS
<1> DEFINE kv == [s \in DOMAIN e.kv |->
                     IF e.pos <= s /\ s < e.pos + Len(toks)
                     THEN Row(e, toks, s - e.pos + 1)
                     ELSE e.kv[s]]
           n == e.pos + Len(toks)
           dev == IF Len(toks) = 1 THEN e.dev + 1 ELSE n
<1>3. kv \in [0 .. max - 1 -> Slots]
  <2>1. ASSUME NEW s \in 0 .. max - 1 PROVE kv[s] \in Slots
    <3>1. CASE e.pos <= s /\ s < e.pos + Len(toks)
      <4>1. s - e.pos + 1 \in 0 .. Len(toks)
        BY <1>1, <1>2, <3>1
      <4>2. Row(e, toks, s - e.pos + 1) \in Slots
        BY <4>1, RowType
      <4>. QED
        BY <1>1, <3>1, <4>2
    <3>2. CASE ~(e.pos <= s /\ s < e.pos + Len(toks))
      BY <3>2, <1>1 DEF Executors, Slots
    <3>. QED
      BY <3>1, <3>2
  <2>. QED
    BY <2>1, <1>1
<1>4. n \in 0 .. max /\ dev = n
  <2>1. e.pos + Len(toks) <= max
    BY <1>1 DEF Fits
  <2>2. CASE Len(toks) = 1
    BY <1>1, <1>2, <2>1, <2>2
  <2>3. CASE Len(toks) # 1
    BY <1>1, <1>2, <2>1, <2>3
  <2>. QED
    BY <2>2, <2>3
<1>5. Forward(e, toks) = [e EXCEPT !.kv = kv, !.pos = n, !.dev = dev]
  BY DEF Forward
<1> HIDE DEF kv, n, dev
<1>6. [e EXCEPT !.kv = kv, !.pos = n, !.dev = dev] \in Executors(max)
  BY <1>3, <1>4 DEF Executors, Slots
<1>. QED
  BY <1>4, <1>5, <1>6 DEF Executors, n

\* A prefill that fits, and the row it leaves.
LEMMA PrefillType ==
    ASSUME NEW max \in Nat, NEW e \in Executors(max),
           NEW prompt \in Seq(Token), Len(prompt) <= max
    PROVE  /\ Prefill(e, prompt) \in Executors(max)
           /\ Prefill(e, prompt).pos = Len(prompt)
           /\ Prefill(e, prompt).dev = Len(prompt)
           /\ Row(ResetKvCache(e), prompt, Len(prompt)) \in Slots
<1>1. prompt \in Slots
  BY WidenSeq
<1>. QED
  BY <1>1, PrefillCoherent

\* The flush of a deferred bonus.
LEMMA CommitType ==
    ASSUME NEW max \in Nat, NEW e \in Executors(max),
           e.pending \in Token, Fits(e, 1), e.dev = e.pos
    PROVE  /\ CommitPendingBonus(e) \in Executors(max)
           /\ CommitPendingBonus(e).pos = e.pos + 1
           /\ CommitPendingBonus(e).dev = e.pos + 1
<1> DEFINE taken == TakePendingBonus(e)
           toks == <<e.pending>>
<1>1. toks \in Seq(Token) /\ Len(toks) = 1 /\ 1 \in 0 .. Len(toks)
  OBVIOUS
<1>2. taken \in Executors(max) /\ taken.pos = e.pos /\ taken.dev = e.pos /\ taken.max = e.max
  BY BonusOnly, TakeIsDeferNone, ExecutorFields
<1> HIDE DEF taken, toks
<1>3. Fits(taken, Len(toks)) /\ taken.dev = taken.pos
  BY <1>1, <1>2 DEF Fits
<1> DEFINE f == Forward(taken, toks)
<1>4. f \in Executors(max) /\ f.pos = e.pos + 1 /\ f.dev = e.pos + 1
  BY <1>1, <1>2, <1>3, ForwardType, ZenonT(30)
<1>5. Row(e, toks, 1) \in Slots
  BY <1>1, RowType
<1> DEFINE row == Row(e, toks, 1)
<1>6. CommitPendingBonus(e) = [f EXCEPT !.p1 = row]
  BY DEF CommitPendingBonus, DecodeStep, taken, toks
<1> HIDE DEF f, row
<1>. QED
  BY <1>4, <1>5, <1>6 DEF Executors, Slots, row

-----------------------------------------------------------------------------
(* Texts *)

LEMMA ConcatFacts ==
    ASSUME NEW s \in Seq(Token), NEW t \in Seq(Token)
    PROVE  /\ s \o t \in Seq(Token) /\ Len(s \o t) = Len(s) + Len(t)
           /\ \A i \in 1 .. Len(s) : (s \o t)[i] = s[i]
           /\ \A i \in 1 .. Len(t) : (s \o t)[Len(s) + i] = t[i]
<1>1. s \o t \in Seq(Token) /\ Len(s \o t) = Len(s) + Len(t)
  OBVIOUS
<1>2. \A i \in 1 .. Len(s) : (s \o t)[i] = s[i]
  OBVIOUS
<1>3. \A i \in 1 .. Len(t) : (s \o t)[Len(s) + i] = t[i]
  OBVIOUS
<1>. QED
  BY <1>1, <1>2, <1>3

\* The text after n accepted drafts and a bonus.
LEMMA AcceptedText ==
    ASSUME NEW s \in Seq(Token), NEW d \in Seq(Token), NEW n \in 0 .. Len(d),
           NEW b \in Token
    PROVE  LET o == s \o SubSeq(d, 1, n) \o <<b>> IN
           /\ o \in Seq(Token) /\ Len(o) = Len(s) + n + 1
           /\ \A i \in 1 .. Len(s) + n : o[i] = (s \o d)[i]
           /\ \A i \in 1 .. Len(s) : o[i] = s[i]
           /\ \A i \in 1 .. n : o[Len(s) + i] = d[i]
           /\ o[Len(s) + n + 1] = b
<1>1. Len(s) \in Nat /\ Len(d) \in Nat /\ n \in Nat
  OBVIOUS
<1> DEFINE a == SubSeq(d, 1, n)
           o == s \o SubSeq(d, 1, n) \o <<b>>
<1>2. a \in Seq(Token) /\ Len(a) = n /\ \A i \in 1 .. n : a[i] = d[i]
  BY <1>1
<1> HIDE DEF a
<1> DEFINE m == s \o a
<1>3. /\ m \in Seq(Token) /\ Len(m) = Len(s) + n
      /\ \A i \in 1 .. Len(s) : m[i] = s[i]
      /\ \A i \in 1 .. n : m[Len(s) + i] = a[i]
  BY <1>2, ConcatFacts, Zenon
<1> DEFINE t == s \o d
<1>10. /\ \A i \in 1 .. Len(s) : t[i] = s[i]
      /\ \A i \in 1 .. Len(d) : t[Len(s) + i] = d[i]
  BY ConcatFacts, Zenon
<1> HIDE DEF m, t
<1>4. ASSUME NEW i \in 1 .. Len(s) + n PROVE m[i] = t[i]
  <2>1. CASE i <= Len(s)
    BY <1>1, <1>3, <1>10, <2>1
  <2>2. CASE i > Len(s)
    <3>1. i - Len(s) \in 1 .. n /\ Len(s) + (i - Len(s)) = i
          /\ i - Len(s) \in 1 .. Len(d)
      BY <1>1, <2>2
    <3>2. m[i] = a[i - Len(s)]
      BY <1>3, <3>1
    <3>3. t[i] = d[i - Len(s)]
      BY <1>10, <3>1
    <3>. QED
      BY <1>2, <3>1, <3>2, <3>3
  <2>. QED
    BY <1>1, <2>1, <2>2
<1>5. o = m \o <<b>>
  BY DEF m, a, o
<1> HIDE DEF o
<1>6. <<b>> \in Seq(Token) /\ Len(<<b>>) = 1 /\ <<b>>[1] = b /\ 1 \in 1 .. 1
  OBVIOUS
<1>7. /\ o \in Seq(Token) /\ Len(o) = Len(s) + n + 1
      /\ \A i \in 1 .. Len(s) + n : o[i] = m[i]
      /\ o[Len(s) + n + 1] = b
  <2>1. /\ m \o <<b>> \in Seq(Token) /\ Len(m \o <<b>>) = Len(m) + Len(<<b>>)
        /\ \A i \in 1 .. Len(m) : (m \o <<b>>)[i] = m[i]
        /\ \A i \in 1 .. Len(<<b>>) : (m \o <<b>>)[Len(m) + i] = <<b>>[i]
    BY <1>3, <1>6, ConcatFacts, Zenon
  <2>. QED
    BY <1>3, <1>5, <1>6, <2>1
<1>8. \A i \in 1 .. Len(s) : o[i] = s[i]
  BY <1>1, <1>3, <1>7
<1>9. ASSUME NEW i \in 1 .. n PROVE o[Len(s) + i] = d[i]
  <2>1. Len(s) + i \in 1 .. Len(s) + n
    BY <1>1
  <2>. QED
    BY <1>2, <1>3, <1>7, <2>1
<1>. QED
  BY <1>4, <1>7, <1>8, <1>9, Zenon DEF t, o
=============================================================================
