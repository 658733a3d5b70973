----------------------------- MODULE KVExecutor -----------------------------
(***************************************************************************)
(* The cursor, KV cache and deferred bonus of one Qwen2Executor            *)
(* (runtime/executor.py), as operators on an executor record:              *)
(*   max      buffers.max_seq_len, the number of KV slots                  *)
(*   pos      _cache_pos, the host cursor                                  *)
(*   dev      buffers.cache_position, its device mirror                    *)
(*   kv       the slots; a slot holds the token sequence its key and value *)
(*            were computed from (<<>>: the zeros of a reset)              *)
(*   p1       _p1_logits                                                   *)
(*   pending  _pending_bonus                                               *)
(* A row of logits is abstracted to its context: the tokens attention read *)
(* to compute it.  Two rows with the same context are the same             *)
(* distribution, two with different contexts need not be.                  *)
(***************************************************************************)
EXTENDS Integers, Sequences

CONSTANTS Token,     \* the target's vocabulary
          NoToken    \* None, where a token id is optional

ASSUME NoTokenAssumption == NoToken \notin Token

NoRow == <<>>        \* None, where a row of logits is optional

\* The token whose key and value a slot holds.
SlotToken(slot) == IF slot = <<>> THEN NoToken ELSE slot[Len(slot)]

NewExecutor(max) ==
    [max |-> max, pos |-> 0, dev |-> 0, kv |-> [s \in 0 .. max - 1 |-> <<>>],
     p1 |-> NoRow, pending |-> NoToken]

\* Mutant: the last slot is refused.
FitsStrictly(e, n) == e.pos + n < e.max

\* _validate_input_ids: the check every forward makes before it runs.
Fits(e, n) == e.pos + n <= e.max

(***************************************************************************)
(* The context of the j-th row of a forward over toks: whatever the slots  *)
(* below the cursor hold, then the first j tokens of the forward.          *)
(***************************************************************************)
Row(e, toks, j) ==
    [i \in 1 .. e.pos + j |->
        IF i <= e.pos THEN SlotToken(e.kv[i - 1]) ELSE toks[i - e.pos]]

\* One forward over toks: every layer writes their slots at the cursor before
\* it attends, then _advance_cache_pos moves the cursor and its mirror.
Forward(e, toks) ==
    LET n == Len(toks) IN
    [e EXCEPT !.kv  = [s \in DOMAIN e.kv |->
                          IF e.pos <= s /\ s < e.pos + n
                          THEN Row(e, toks, s - e.pos + 1)
                          ELSE e.kv[s]],
              !.pos = e.pos + n,
              !.dev = IF n = 1 THEN e.dev + 1 ELSE e.pos + n]

ResetKvCache(e) == NewExecutor(e.max)

\* prefill resets first, so even a prompt that does not fit loses the old cache.
Prefill(e, prompt) ==
    LET r == ResetKvCache(e)
    IN  [Forward(r, prompt) EXCEPT !.p1 = Row(r, prompt, Len(prompt))]

DecodeStep(e, t) == Forward(e, <<t>>)

\* Mutant: the device mirror is not rolled back.
RollbackHostOnly(e, to) == [e EXCEPT !.pos = to]

RollbackCache(e, to) == [e EXCEPT !.pos = to, !.dev = to]

DeferBonusToken(e, t) == [e EXCEPT !.pending = t]

\* Mutant: the bonus is read but not cleared.
PeekPendingBonus(e) == e

TakePendingBonus(e) == [e EXCEPT !.pending = NoToken]

\* Mutant: the flush forgets to keep the row it computed.
CommitWithoutRow(e) == DecodeStep(TakePendingBonus(e), e.pending)

\* commit_pending_bonus when a bonus is pending and the decode fits.
CommitPendingBonus(e) ==
    [DecodeStep(TakePendingBonus(e), e.pending)
        EXCEPT !.p1 = Row(e, <<e.pending>>, 1)]

(***************************************************************************)
(* The slots below n hold what a fresh prefill of the first n tokens of    *)
(* seq would have put there.                                               *)
(***************************************************************************)
Coherent(e, seq, n) == \A s \in 0 .. n - 1 : e.kv[s] = SubSeq(seq, 1, s + 1)

Executors(max) ==
    [max : {max}, pos : 0 .. max, dev : 0 .. max,
     kv : [0 .. max - 1 -> Seq(Token \cup {NoToken})],
     p1 : Seq(Token \cup {NoToken}), pending : Token \cup {NoToken}]
=============================================================================
