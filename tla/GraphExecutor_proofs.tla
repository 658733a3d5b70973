------------------------- MODULE GraphExecutor_proofs -------------------------
(***************************************************************************)
(* The CUDA-graph executor agrees with the eager one, for every cache size *)
(* and prompt, and however late the device runs what the host enqueued.    *)
(*                                                                         *)
(* The argument looks ahead: the operations still enqueued, run from what  *)
(* the device memory now is, end at the eager executor's state, and each   *)
(* finds on its way what it was enqueued for.  A host call only appends to *)
(* that run and a device step only takes its first operation off, so how   *)
(* the two interleave does not matter.  During a capture the run ends at a *)
(* memory from which the replay that follows will reach the eager state,   *)
(* and the warm-up forwards leave that so.                                 *)
(***************************************************************************)
EXTENDS GraphExecutor, KVExecutor_proofs

-----------------------------------------------------------------------------
(* The device memory, and what an operation makes of it *)

Memory ==
    [slots : [0 .. MaxSeq - 1 -> Slots], position : Nat,
     input : [Graphs -> Seq(Token)], curLen : [Graphs -> Nat],
     logits : [Graphs -> Seq(Slots)]]

Mem(kv, at, ids, len, rows) ==
    [slots |-> kv, position |-> at, input |-> ids, curLen |-> len, logits |-> rows]

Now == Mem(slots, position, input, curLen, logits)

\* The eager executor whose cache is kv and whose cursor is at.
At(kv, at) ==
    [max |-> MaxSeq, pos |-> at, dev |-> at, kv |-> kv, p1 |-> NoRow, pending |-> NoToken]

\* A forward of graph g's static buffers.
Stepped(d, g) == Forward(At(d.slots, d.position), d.input[g]).kv

RowsOut(d, g) ==
    [h \in Graphs |-> IF h = g THEN Rows(At(d.slots, d.position), d.input[h]) ELSE Lost]

Effect(d, o) ==
    CASE o.op = "eager" ->
            Mem(Forward(At(d.slots, o.at), o.toks).kv, d.position, d.input, d.curLen, d.logits)
      [] o.op = "zero" -> Mem(NewExecutor(MaxSeq).kv, 0, d.input, d.curLen, d.logits)
      [] o.op = "fill" -> Mem(d.slots, o.to, d.input, d.curLen, d.logits)
      [] o.op = "add" -> Mem(d.slots, d.position + 1, d.input, d.curLen, d.logits)
      [] o.op = "prepare" ->
            Mem(d.slots, o.at, [d.input EXCEPT ![o.graph] = o.toks],
                [d.curLen EXCEPT ![o.graph] = o.at + Len(o.toks)], d.logits)
      [] o.op = "static" -> Mem(Stepped(d, o.graph), d.position, d.input, d.curLen, d.logits)
      [] o.op = "replay" ->
            Mem(Stepped(d, o.graph), d.position, d.input, d.curLen, RowsOut(d, o.graph))
      [] OTHER -> d

\* The static buffers of graph g are those of a call at the cursor.
Prepared(d, g) ==
    d.curLen[g] = d.position + Len(d.input[g]) /\ d.curLen[g] <= MaxSeq

\* An operation finds what it was enqueued for.
Finds(d, o) ==
    /\ o.op = "eager" => o.at + Len(o.toks) <= MaxSeq
    /\ o.op \in {"static", "replay"} => Prepared(d, o.graph)
    /\ o.op = "clone" => d.logits[o.graph] = o.want

Ops ==
    [op : {"eager"}, toks : Seq(Token), at : Nat] \cup [op : {"zero"}]
        \cup [op : {"fill"}, to : Nat] \cup [op : {"add"}]
        \cup [op : {"prepare"}, graph : Graphs, toks : Seq(Token), at : Nat]
        \cup [op : {"static", "replay"}, graph : Graphs]
        \cup [op : {"clone"}, graph : Graphs, want : Seq(Slots)]
        \cup [op : {"record", "wait"}, event : Graphs \X {"ready", "warm"}]

\* The operations of q take the memory from d to e.
Runs(d, q, e) ==
    \E st : /\ st[0] = d /\ st[Len(q)] = e
            /\ \A i \in 1 .. Len(q) :
                  Finds(st[i - 1], q[i]) /\ st[i] = Effect(st[i - 1], q[i])

-----------------------------------------------------------------------------
(* The inductive invariant *)

Types ==
    /\ Now \in Memory /\ main \in Seq(Ops) /\ side \in Seq(Ops)
    /\ eager \in Executors(MaxSeq) /\ eager.dev = eager.pos
    /\ pos \in Nat /\ captured \subseteq Graphs /\ capturing \in Graphs \cup {NoGraph}
    /\ held = Nothing \/ held \in [graph : Graphs, want : Seq(Slots)]

Syncs == {"record", "wait"}

\* Operations that neither record an event nor wait for one.
Plain(q) == \A i \in 1 .. Len(q) : q[i].op \notin Syncs

\* Nothing waits outside a capture.
NoCapture == side = <<>> /\ Plain(main)

\* The warm-up waits for the calls before it.
NotReady ==
    /\ Len(main) >= 2
    /\ main[Len(main) - 1] = Record(<<capturing, "ready">>)
    /\ main[Len(main)] = WaitFor(<<capturing, "warm">>)
    /\ \A i \in 1 .. Len(main) - 2 : main[i].op \notin Syncs
    /\ side # <<>> /\ Head(side) = WaitFor(<<capturing, "ready">>)
    /\ <<capturing, "ready">> \notin events

\* The main stream waits for the warm-up.
WarmingUp == main = <<WaitFor(<<capturing, "warm">>)>>

SideLeft ==
    /\ <<capturing, "warm">> \notin events
    /\ side # <<>> /\ side[Len(side)] = Record(<<capturing, "warm">>)
    /\ \A i \in 1 .. Len(side) - 1 :
          side[i] \in {WaitFor(<<capturing, "ready">>), StaticForward(capturing)}

WarmedUp == side = <<>> /\ main \in {<<>>, <<WaitFor(<<capturing, "warm">>)>>}

Streams ==
    /\ events \subseteq ((captured \cup {capturing}) \cap Graphs) \X {"ready", "warm"}
    /\ IF capturing = NoGraph THEN NoCapture
       ELSE /\ capturing \notin captured
            /\ (SideLeft /\ (NotReady \/ WarmingUp)) \/ WarmedUp

\* Between calls the memory to come is the eager executor's, and the buffer the
\* caller holds has its rows.
Agrees(d) ==
    /\ pos = eager.pos /\ d.position = pos /\ d.slots = eager.kv
    /\ held # Nothing => d.logits[held.graph] = held.want

\* While a graph is captured, the replay that follows will make it so.
Due(d) ==
    LET toks == d.input[capturing] IN
    /\ Prepared(d, capturing) /\ d.position = pos
    /\ eager.pos = pos + Len(toks)
    /\ eager.kv = Forward(At(d.slots, pos), toks).kv
    /\ held = [graph |-> capturing, want |-> Rows(At(d.slots, pos), toks)]

Foreseen ==
    \E e \in Memory : /\ Runs(Now, main, e)
                      /\ IF capturing = NoGraph THEN Agrees(e) ELSE Due(e)

IInv == Types /\ Streams /\ Foreseen
-----------------------------------------------------------------------------
(* Forwards *)

LEMMA Sizes ==
    /\ MaxSeq \in Nat /\ MaxRows \in Nat /\ NoGraph \notin Graphs
    /\ Prompts \subseteq Seq(Token) /\ <<>> \notin Prompts
BY GraphAssumption DEF Graphs, NoGraph

LEMMA AtFacts ==
    ASSUME NEW kv \in [0 .. MaxSeq - 1 -> Slots], NEW at \in Nat, at <= MaxSeq
    PROVE  /\ At(kv, at) \in Executors(MaxSeq)
           /\ At(kv, at).kv = kv /\ At(kv, at).pos = at /\ At(kv, at).dev = at
           /\ At(kv, at).max = MaxSeq
<1>1. NoRow \in Seq(Token \cup {NoToken}) /\ at \in 0 .. MaxSeq
      /\ NoToken \in Token \cup {NoToken}
  BY Sizes DEF NoRow
<1>. QED
  BY <1>1 DEF At, Executors, Slots

\* What attention reads depends on the slots below the cursor only.
LEMMA RowOfSlots ==
    ASSUME NEW e, NEW f, NEW toks, NEW j, e.pos = f.pos, e.pos \in Nat, j \in Nat,
           \A s \in 0 .. e.pos - 1 : e.kv[s] = f.kv[s]
    PROVE  Row(e, toks, j) = Row(f, toks, j)
<1>1. ASSUME NEW i \in 1 .. e.pos + j
      PROVE  (IF i <= e.pos THEN SlotToken(e.kv[i - 1]) ELSE toks[i - e.pos])
             = (IF i <= f.pos THEN SlotToken(f.kv[i - 1]) ELSE toks[i - f.pos])
  BY <1>1
<1>. QED
  BY <1>1 DEF Row

LEMMA ForwardOf ==
    ASSUME NEW e \in Executors(MaxSeq), NEW toks \in Seq(Token), e.pos + Len(toks) <= MaxSeq
    PROVE  /\ Forward(e, toks).kv = Forward(At(e.kv, e.pos), toks).kv
           /\ Rows(e, toks) = Rows(At(e.kv, e.pos), toks)
           /\ e.kv \in [0 .. MaxSeq - 1 -> Slots] /\ e.pos \in Nat /\ e.pos <= MaxSeq
<1> DEFINE f == At(e.kv, e.pos)
<1>1. e.kv \in [0 .. MaxSeq - 1 -> Slots] /\ e.pos \in Nat /\ e.pos <= MaxSeq
      /\ DOMAIN e.kv = 0 .. MaxSeq - 1
  BY Sizes DEF Executors, Slots
<1>2. f \in Executors(MaxSeq) /\ f.kv = e.kv /\ f.pos = e.pos
  BY <1>1, AtFacts
<1> HIDE DEF f
<1>3. ASSUME NEW j \in Nat PROVE Row(e, toks, j) = Row(f, toks, j)
  BY <1>1, <1>2, RowOfSlots
<1>4. Rows(e, toks) = Rows(f, toks)
  BY <1>3 DEF Rows
<1>5. Forward(e, toks).kv = [s \in DOMAIN e.kv |->
          IF e.pos <= s /\ s < e.pos + Len(toks) THEN Row(e, toks, s - e.pos + 1) ELSE e.kv[s]]
  BY DEF Forward, Executors
<1>6. Forward(f, toks).kv = [s \in DOMAIN f.kv |->
          IF f.pos <= s /\ s < f.pos + Len(toks) THEN Row(f, toks, s - f.pos + 1) ELSE f.kv[s]]
  BY <1>2 DEF Forward, Executors
<1>7. Forward(e, toks).kv = Forward(f, toks).kv
  BY <1>1, <1>2, <1>3, <1>5, <1>6
<1>. QED
  BY <1>1, <1>4, <1>7 DEF f

\* Stored, with a cursor and a length that fit together.
LEMMA ForwardAt ==
    ASSUME NEW kv \in [0 .. MaxSeq - 1 -> Slots], NEW at \in Nat, NEW toks \in Seq(Token),
           at + Len(toks) <= MaxSeq
    PROVE  /\ Forward(At(kv, at), toks).kv \in [0 .. MaxSeq - 1 -> Slots]
           /\ Rows(At(kv, at), toks) \in Seq(Slots)
           /\ \A s \in 0 .. MaxSeq - 1 : s < at => Forward(At(kv, at), toks).kv[s] = kv[s]
           /\ Forward(At(kv, at), toks).kv =
                 [s \in 0 .. MaxSeq - 1 |-> IF at <= s /\ s < at + Len(toks)
                                            THEN Row(At(kv, at), toks, s - at + 1) ELSE kv[s]]
<1> DEFINE e == At(kv, at)
<1>1. e \in Executors(MaxSeq) /\ e.kv = kv /\ e.pos = at /\ e.dev = at /\ e.max = MaxSeq
  <2>1. at <= MaxSeq
    BY Sizes
  <2>. QED
    BY <2>1, AtFacts
<1>2. Fits(e, Len(toks)) /\ e.dev = e.pos
  BY <1>1 DEF Fits
<1> HIDE DEF e
<1>3. Forward(e, toks) \in Executors(MaxSeq)
  BY <1>1, <1>2, ForwardType, Sizes
<1>4. Forward(e, toks).kv \in [0 .. MaxSeq - 1 -> Slots]
  BY <1>3 DEF Executors, Slots
<1>5. Forward(e, toks).kv = [s \in 0 .. MaxSeq - 1 |->
          IF at <= s /\ s < at + Len(toks) THEN Row(e, toks, s - at + 1) ELSE kv[s]]
  BY <1>1 DEF Forward, Executors
<1>6. Rows(e, toks) \in Seq(Slots)
  <2>1. \A j \in 1 .. Len(toks) : Row(e, toks, j) \in Slots
    BY <1>1, RowType, Sizes
  <2>. QED
    BY <2>1 DEF Rows
<1>7. \A s \in 0 .. MaxSeq - 1 : s < at => Forward(e, toks).kv[s] = kv[s]
  BY <1>5
<1>. QED
  BY <1>4, <1>5, <1>6, <1>7 DEF e

LEMMA StoredAt ==
    ASSUME NEW kv \in [0 .. MaxSeq - 1 -> Slots], NEW at \in Nat, NEW toks \in Seq(Token),
           at + Len(toks) <= MaxSeq
    PROVE  Forward(At(kv, at), toks).kv =
               [s \in 0 .. MaxSeq - 1 |-> IF at <= s /\ s < at + Len(toks)
                                          THEN Row(At(kv, at), toks, s - at + 1) ELSE kv[s]]
<1>1. at <= MaxSeq
  BY Sizes
<1>2. /\ At(kv, at).kv = kv /\ At(kv, at).pos = at /\ At(kv, at).max = MaxSeq
      /\ At(kv, at) \in Executors(MaxSeq)
  BY <1>1, AtFacts
<1>. QED
  BY <1>2 DEF Forward, Executors

\* A forward run twice leaves what one leaves.
LEMMA ForwardTwice ==
    ASSUME NEW kv \in [0 .. MaxSeq - 1 -> Slots], NEW at \in Nat, NEW toks \in Seq(Token),
           at + Len(toks) <= MaxSeq
    PROVE  LET again == At(Forward(At(kv, at), toks).kv, at) IN
           /\ Forward(again, toks).kv = Forward(At(kv, at), toks).kv
           /\ Rows(again, toks) = Rows(At(kv, at), toks)
<1> DEFINE e == At(kv, at)
           kv2 == Forward(e, toks).kv
           f == At(kv2, at)
<1>1. at <= MaxSeq
  BY Sizes
<1>2. /\ kv2 \in [0 .. MaxSeq - 1 -> Slots]
      /\ \A s \in 0 .. MaxSeq - 1 : s < at => kv2[s] = kv[s]
      /\ kv2 = [s \in 0 .. MaxSeq - 1 |-> IF at <= s /\ s < at + Len(toks)
                                          THEN Row(e, toks, s - at + 1) ELSE kv[s]]
  BY ForwardAt
<1>3. e.kv = kv /\ e.pos = at
  BY <1>1, AtFacts
<1> HIDE DEF kv2, e
<1>4. f.kv = kv2 /\ f.pos = at
  BY <1>1, <1>2, AtFacts
<1>5. Forward(f, toks).kv = [s \in 0 .. MaxSeq - 1 |-> IF at <= s /\ s < at + Len(toks)
                                          THEN Row(f, toks, s - at + 1) ELSE kv2[s]]
  <2>1. kv2 \in [0 .. MaxSeq - 1 -> Slots]
    BY <1>2
  <2>. QED
    BY <2>1, StoredAt
<1> HIDE DEF f
<1>6. ASSUME NEW j \in Nat PROVE Row(f, toks, j) = Row(e, toks, j)
  <2>1. \A s \in 0 .. at - 1 : f.kv[s] = e.kv[s]
    BY <1>1, <1>2, <1>3, <1>4, Sizes
  <2>2. f.pos = e.pos /\ f.pos \in Nat /\ \A s \in 0 .. f.pos - 1 : f.kv[s] = e.kv[s]
    BY <1>3, <1>4, <2>1
  <2>3. j \in Nat
    BY <1>6
  <2>. QED
    BY <2>2, <2>3, RowOfSlots
<1>7. Rows(f, toks) = Rows(e, toks)
  BY <1>6 DEF Rows
<1>8. Forward(f, toks).kv = kv2
  <2>1. ASSUME NEW s \in 0 .. MaxSeq - 1
        PROVE  (IF at <= s /\ s < at + Len(toks) THEN Row(f, toks, s - at + 1) ELSE kv2[s])
               = (IF at <= s /\ s < at + Len(toks) THEN Row(e, toks, s - at + 1) ELSE kv[s])
    BY <1>2, <1>6
  <2>. QED
    BY <1>2, <1>5, <2>1
<1>. QED
  BY <1>7, <1>8 DEF f, kv2, e

\* The kernels compute what the eager forward does, given a length that fits.
LEMMA KernelsForward ==
    ASSUME slots \in [0 .. MaxSeq - 1 -> Slots], NEW at \in Nat, NEW toks \in Seq(Token),
           NEW len, len = at + Len(toks), len <= MaxSeq
    PROVE  /\ Computed(toks, at, len) = Rows(At(slots, at), toks)
           /\ Stored(toks, at, len) = Forward(At(slots, at), toks).kv
<1> DEFINE e == At(slots, at)
           n == Len(toks)
<1>1. n \in Nat /\ MaxSeq \in Nat /\ at <= MaxSeq
  BY Sizes
<1>2. e.kv = slots /\ e.pos = at
  BY <1>1, AtFacts
<1>3. Forward(e, toks).kv =
         [s \in 0 .. MaxSeq - 1 |-> IF at <= s /\ s < at + n
                                    THEN Row(e, toks, s - at + 1) ELSE slots[s]]
  <2>1. at + Len(toks) <= MaxSeq
    OBVIOUS
  <2>. QED
    BY <2>1, StoredAt
<1> HIDE DEF e
<1>4. ASSUME NEW j \in 1 .. n
      PROVE  [i \in 1 .. len - n + j |-> IF i <= MaxSeq THEN TokenIn(toks, at, i - 1) ELSE NoToken]
             = Row(e, toks, j)
  <2>1. len - n + j = at + j
    BY <1>1, <1>4
  <2>2. ASSUME NEW i \in 1 .. at + j
        PROVE  (IF i <= MaxSeq THEN TokenIn(toks, at, i - 1) ELSE NoToken)
               = (IF i <= at THEN SlotToken(slots[i - 1]) ELSE toks[i - at])
    <3>1. i <= MaxSeq
      BY <1>1, <1>4, <2>2
    <3>2. CASE i <= at
      BY <1>1, <1>4, <3>1, <3>2 DEF TokenIn
    <3>3. CASE ~(i <= at)
      <4>1. at <= i - 1 /\ i - 1 < at + n /\ i - 1 - at + 1 = i - at
        BY <1>1, <1>4, <3>3
      <4>. QED
        BY <3>1, <3>3, <4>1 DEF TokenIn
    <3>. QED
      BY <3>2, <3>3
  <2>. QED
    BY <1>2, <2>1, <2>2 DEF Row
<1>5. Computed(toks, at, len) = Rows(e, toks)
  BY <1>4 DEF Computed, Rows
<1>6. \A j \in 1 .. n : Computed(toks, at, len)[j] = Row(e, toks, j)
  BY <1>5 DEF Rows
<1>7. Stored(toks, at, len) = Forward(e, toks).kv
  <2>1. ASSUME NEW s \in 0 .. MaxSeq - 1
        PROVE  (IF at <= s /\ s < at + n THEN Computed(toks, at, len)[s - at + 1] ELSE slots[s])
               = (IF at <= s /\ s < at + n THEN Row(e, toks, s - at + 1) ELSE slots[s])
    BY <1>1, <1>6
  <2>. QED
    BY <1>3, <2>1 DEF Stored
<1>. QED
  BY <1>5, <1>7 DEF e
-----------------------------------------------------------------------------
(* Operations *)

LEMMA MemoryFields ==
    ASSUME NEW d \in Memory
    PROVE  /\ d.slots \in [0 .. MaxSeq - 1 -> Slots] /\ d.position \in Nat
           /\ d.input \in [Graphs -> Seq(Token)] /\ d.curLen \in [Graphs -> Nat]
           /\ d.logits \in [Graphs -> Seq(Slots)]
BY DEF Memory

LEMMA OpFields ==
    ASSUME NEW o \in Ops
    PROVE  /\ o.op \in {"eager", "zero", "fill", "add", "prepare", "static", "replay",
                        "clone", "record", "wait"}
           /\ o.op \in {"eager", "prepare"} => o.toks \in Seq(Token) /\ o.at \in Nat
           /\ o.op = "fill" => o.to \in Nat
           /\ o.op \in {"prepare", "static", "replay", "clone"} => o.graph \in Graphs
           /\ o.op \in {"record", "wait"} => o.event \in Graphs \X {"ready", "warm"}
BY DEF Ops

\* The forward of graph g's static buffers is one that fits.
LEMMA StaticFits ==
    ASSUME NEW d \in Memory, NEW g \in Graphs, Prepared(d, g)
    PROVE  /\ d.slots \in [0 .. MaxSeq - 1 -> Slots] /\ d.position \in Nat
           /\ d.input[g] \in Seq(Token) /\ d.position + Len(d.input[g]) <= MaxSeq
           /\ d.curLen[g] = d.position + Len(d.input[g]) /\ d.curLen[g] <= MaxSeq
BY MemoryFields DEF Prepared

LEMMA MemFields ==
    ASSUME NEW kv, NEW at, NEW ids, NEW len, NEW rows
    PROVE  /\ Mem(kv, at, ids, len, rows).slots = kv /\ Mem(kv, at, ids, len, rows).position = at
           /\ Mem(kv, at, ids, len, rows).input = ids /\ Mem(kv, at, ids, len, rows).curLen = len
           /\ Mem(kv, at, ids, len, rows).logits = rows
           /\ kv \in [0 .. MaxSeq - 1 -> Slots] /\ at \in Nat /\ ids \in [Graphs -> Seq(Token)]
              /\ len \in [Graphs -> Nat] /\ rows \in [Graphs -> Seq(Slots)]
              => Mem(kv, at, ids, len, rows) \in Memory
BY DEF Mem, Memory

LEMMA MemTyped ==
    ASSUME NEW kv \in [0 .. MaxSeq - 1 -> Slots], NEW at \in Nat,
           NEW ids \in [Graphs -> Seq(Token)], NEW len \in [Graphs -> Nat],
           NEW rows \in [Graphs -> Seq(Slots)]
    PROVE  Mem(kv, at, ids, len, rows) \in Memory
BY DEF Mem, Memory

\* What a forward of the static buffers leaves.
LEMMA SteppedFacts ==
    ASSUME NEW d \in Memory, NEW g \in Graphs, Prepared(d, g)
    PROVE  /\ Stepped(d, g) \in [0 .. MaxSeq - 1 -> Slots]
           /\ RowsOut(d, g) \in [Graphs -> Seq(Slots)]
           /\ \A s \in 0 .. MaxSeq - 1 : s < d.position => Stepped(d, g)[s] = d.slots[s]
<1> DEFINE rows == Rows(At(d.slots, d.position), d.input[g])
<1>1. rows \in Seq(Slots) /\ Stepped(d, g) \in [0 .. MaxSeq - 1 -> Slots]
      /\ \A s \in 0 .. MaxSeq - 1 : s < d.position => Stepped(d, g)[s] = d.slots[s]
  BY StaticFits, ForwardAt DEF Stepped
<1>2. RowsOut(d, g) = [h \in Graphs |-> IF h = g THEN rows ELSE Lost]
  BY DEF RowsOut
<1> HIDE DEF rows
<1>3. Lost \in Seq(Slots)
  BY DEF Lost
<1>. QED
  BY <1>1, <1>2, <1>3

LEMMA EffectType ==
    ASSUME NEW d \in Memory, NEW o \in Ops, Finds(d, o)
    PROVE  Effect(d, o) \in Memory
<1>0. /\ d.slots \in [0 .. MaxSeq - 1 -> Slots] /\ d.position \in Nat
      /\ d.input \in [Graphs -> Seq(Token)] /\ d.curLen \in [Graphs -> Nat]
      /\ d.logits \in [Graphs -> Seq(Slots)]
  BY MemoryFields
<1>1. CASE o.op = "eager"
  <2>1. /\ o.toks \in Seq(Token) /\ o.at \in Nat /\ o.at + Len(o.toks) <= MaxSeq
    BY <1>1, OpFields DEF Finds
  <2>2. Forward(At(d.slots, o.at), o.toks).kv \in [0 .. MaxSeq - 1 -> Slots]
    BY <1>0, <2>1, ForwardAt
  <2>. QED
    BY <1>0, <1>1, <2>2, MemFields DEF Effect
<1>2. CASE o.op = "zero"
  <2>1. NewExecutor(MaxSeq).kv \in [0 .. MaxSeq - 1 -> Slots]
    BY NewExecutorType, Sizes DEF Executors, Slots
  <2>. QED
    BY <1>0, <1>2, <2>1, MemFields DEF Effect
<1>3. CASE o.op = "fill"
  BY <1>0, <1>3, OpFields, MemFields DEF Effect
<1>4. CASE o.op = "add"
  <2>1. d.position + 1 \in Nat
    BY <1>0
  <2>2. Effect(d, o) = Mem(d.slots, d.position + 1, d.input, d.curLen, d.logits)
    BY <1>4 DEF Effect
  <2> DEFINE next == d.position + 1
  <2> HIDE DEF next
  <2>3. Mem(d.slots, next, d.input, d.curLen, d.logits) \in Memory
    <3>1. next \in Nat
      BY <2>1 DEF next
    <3>. QED
      BY <1>0, <3>1, MemTyped
  <2>. QED
    BY <2>2, <2>3 DEF next
<1>5. CASE o.op = "prepare"
  <2>1. o.graph \in Graphs /\ o.toks \in Seq(Token) /\ o.at \in Nat /\ o.at + Len(o.toks) \in Nat
    BY <1>5, OpFields
  <2> DEFINE ids == [d.input EXCEPT ![o.graph] = o.toks]
             lens == [d.curLen EXCEPT ![o.graph] = o.at + Len(o.toks)]
  <2>2. ids \in [Graphs -> Seq(Token)] /\ lens \in [Graphs -> Nat]
    BY <1>0, <2>1
  <2>3. Effect(d, o) = Mem(d.slots, o.at, ids, lens, d.logits)
    BY <1>5 DEF Effect
  <2> HIDE DEF ids, lens
  <2>4. Mem(d.slots, o.at, ids, lens, d.logits) \in Memory
    BY <1>0, <2>1, <2>2, MemTyped
  <2>. QED
    BY <2>3, <2>4
<1>6. CASE o.op \in {"static", "replay"}
  <2>1. o.graph \in Graphs /\ Prepared(d, o.graph)
    BY <1>6, OpFields DEF Finds
  <2> DEFINE kv == Stepped(d, o.graph)
             rows == RowsOut(d, o.graph)
  <2>2. kv \in [0 .. MaxSeq - 1 -> Slots] /\ rows \in [Graphs -> Seq(Slots)]
    BY <2>1, SteppedFacts
  <2>3. \/ Effect(d, o) = Mem(kv, d.position, d.input, d.curLen, d.logits)
        \/ Effect(d, o) = Mem(kv, d.position, d.input, d.curLen, rows)
    BY <1>6 DEF Effect
  <2> HIDE DEF kv, rows
  <2>4. Mem(kv, d.position, d.input, d.curLen, d.logits) \in Memory
        /\ Mem(kv, d.position, d.input, d.curLen, rows) \in Memory
    BY <1>0, <2>2, MemTyped
  <2>. QED
    BY <2>3, <2>4
<1>7. CASE o.op \in {"clone", "record", "wait"}
  BY <1>7 DEF Effect
<1>. QED
  BY <1>1, <1>2, <1>3, <1>4, <1>5, <1>6, <1>7, OpFields

\* What the device does with an operation is its effect.
LEMMA RunIsEffect ==
    ASSUME Now \in Memory, NEW o \in Ops, Finds(Now, o), Run(o)
    PROVE  Now' = Effect(Now, o)
<1>1. /\ Now.slots = slots /\ Now.position = position /\ Now.input = input
      /\ Now.curLen = curLen /\ Now.logits = logits
  BY MemFields DEF Now
<1>2. slots \in [0 .. MaxSeq - 1 -> Slots] /\ position \in Nat
      /\ input \in [Graphs -> Seq(Token)] /\ curLen \in [Graphs -> Nat]
  BY <1>1, MemoryFields
<1>3. CASE o.op = "eager"
  <2>1. /\ slots' = Stored(o.toks, o.at, o.at + Len(o.toks))
        /\ UNCHANGED <<position, input, curLen, logits>>
    BY <1>3 DEF Run
  <2>2. o.toks \in Seq(Token) /\ o.at \in Nat /\ o.at + Len(o.toks) <= MaxSeq
    BY <1>3, OpFields DEF Finds
  <2>3. slots' = Forward(At(slots, o.at), o.toks).kv
    BY <1>2, <2>1, <2>2, KernelsForward
  <2>. QED
    BY <1>1, <1>3, <2>1, <2>3 DEF Now, Effect
<1>4. CASE o.op = "zero"
  <2>1. /\ slots' = [x \in DOMAIN slots |-> <<>>] /\ position' = 0
        /\ UNCHANGED <<input, curLen, logits>>
    BY <1>4 DEF Run
  <2>2. slots' = NewExecutor(MaxSeq).kv
    BY <1>2, <2>1 DEF NewExecutor
  <2>. QED
    BY <1>1, <1>4, <2>1, <2>2 DEF Now, Effect
<1>5. CASE o.op = "fill"
  <2>1. position' = o.to /\ UNCHANGED <<slots, input, curLen, logits>>
    BY <1>5 DEF Run
  <2>. QED
    BY <1>1, <1>5, <2>1 DEF Now, Effect
<1>6. CASE o.op = "add"
  <2>1. position' = position + 1 /\ UNCHANGED <<slots, input, curLen, logits>>
    BY <1>6 DEF Run
  <2>. QED
    BY <1>1, <1>6, <2>1 DEF Now, Effect
<1>7. CASE o.op = "prepare"
  <2>1. /\ input' = [input EXCEPT ![o.graph] = o.toks] /\ position' = o.at
        /\ curLen' = [curLen EXCEPT ![o.graph] = o.at + Len(o.toks)]
        /\ UNCHANGED <<slots, logits>>
    BY <1>7 DEF Run
  <2>. QED
    BY <1>1, <1>7, <2>1 DEF Now, Effect
<1>8. CASE o.op \in {"static", "replay"}
  <2> DEFINE g == o.graph
  <2>1. g \in Graphs /\ Prepared(Now, g)
    BY <1>8, OpFields DEF Finds
  <2>2. /\ input[g] \in Seq(Token) /\ curLen[g] = position + Len(input[g])
        /\ curLen[g] <= MaxSeq
    BY <1>1, <2>1, StaticFits
  <2>3. /\ Computed(input[g], position, curLen[g]) = Rows(At(slots, position), input[g])
        /\ Stored(input[g], position, curLen[g]) = Stepped(Now, g)
    BY <1>1, <1>2, <2>2, KernelsForward DEF Stepped
  <2>4. slots' = Stepped(Now, g) /\ UNCHANGED <<position, input, curLen>>
    BY <1>8, <2>3 DEF Run, Static
  <2>5. CASE o.op = "static"
    <3>1. logits' = logits
      BY <2>5 DEF Run
    <3>. QED
      BY <1>1, <2>4, <2>5, <3>1 DEF Now, Effect
  <2>6. CASE o.op = "replay"
    <3>1. logits' = ReplayedLogits(g)
      BY <2>6 DEF Run
    <3>2. logits' = RowsOut(Now, g)
      BY <1>1, <2>3, <3>1 DEF ReplayedLogits, RowsOut
    <3>. QED
      BY <1>1, <2>4, <2>6, <3>2 DEF Now, Effect
  <2>. QED
    BY <1>8, <2>5, <2>6
<1>9. CASE o.op \in {"clone", "record", "wait"}
  <2>1. UNCHANGED <<slots, position, input, curLen, logits>>
    BY <1>9 DEF Run, device
  <2>. QED
    BY <1>9, <2>1 DEF Now, Effect
<1>. QED
  BY <1>3, <1>4, <1>5, <1>6, <1>7, <1>8, <1>9, OpFields

-----------------------------------------------------------------------------
(* Runs of the operations still enqueued *)

LEMMA RunsNone ==
    /\ \A d : Runs(d, <<>>, d)
    /\ \A d, e : Runs(d, <<>>, e) => d = e
<1>1. ASSUME NEW d PROVE Runs(d, <<>>, d)
  <2> DEFINE st == [i \in {0} |-> d]
  <2>1. st[0] = d /\ Len(<<>>) = 0 /\ 1 .. 0 = {}
    OBVIOUS
  <2> HIDE DEF st
  <2>. QED
    BY <2>1 DEF Runs
<1>2. ASSUME NEW d, NEW e, Runs(d, <<>>, e) PROVE d = e
  BY <1>2 DEF Runs
<1>. QED
  BY <1>1, <1>2

\* The host appends to the run.
LEMMA RunsAppend ==
    ASSUME NEW q \in Seq(Ops), NEW d, NEW e, NEW o \in Ops, Runs(d, q, e), Finds(e, o)
    PROVE  Append(q, o) \in Seq(Ops) /\ Runs(d, Append(q, o), Effect(e, o))
<1> DEFINE n == Len(q)
           r == Append(q, o)
<1>1. /\ n \in Nat /\ r \in Seq(Ops) /\ Len(r) = n + 1
      /\ \A i \in 1 .. n : r[i] = q[i]
      /\ r[n + 1] = o
  OBVIOUS
<1>2. PICK st : /\ st[0] = d /\ st[n] = e
                /\ \A i \in 1 .. n : Finds(st[i - 1], q[i]) /\ st[i] = Effect(st[i - 1], q[i])
  BY DEF Runs
<1> HIDE DEF n, r
<1> DEFINE st2 == [i \in 0 .. n + 1 |-> IF i <= n THEN st[i] ELSE Effect(e, o)]
<1>3. /\ st2[0] = d /\ st2[n + 1] = Effect(e, o)
      /\ \A i \in 0 .. n : st2[i] = st[i]
  BY <1>1, <1>2
<1> HIDE DEF st2
<1>4. ASSUME NEW i \in 1 .. n + 1
      PROVE  Finds(st2[i - 1], r[i]) /\ st2[i] = Effect(st2[i - 1], r[i])
  <2>1. CASE i <= n
    <3>1. i \in 1 .. n /\ i - 1 \in 0 .. n /\ i \in 0 .. n
      BY <1>1, <2>1
    <3>. QED
      BY <1>1, <1>2, <1>3, <3>1
  <2>2. CASE i = n + 1
    <3>1. st2[i - 1] = e
      BY <1>1, <1>2, <1>3, <2>2
    <3>. QED
      BY <1>1, <1>3, <2>2, <3>1
  <2>. QED
    BY <1>1, <2>1, <2>2
<1>. QED
  BY <1>1, <1>3, <1>4 DEF Runs, r

\* The device takes its first operation off.
LEMMA RunsHead ==
    ASSUME NEW q \in Seq(Ops), q # <<>>, NEW d, NEW e, Runs(d, q, e)
    PROVE  /\ Head(q) \in Ops /\ Finds(d, Head(q))
           /\ Tail(q) \in Seq(Ops) /\ Runs(Effect(d, Head(q)), Tail(q), e)
<1> DEFINE n == Len(q)
           r == Tail(q)
<1>1. /\ n \in Nat /\ n >= 1 /\ r \in Seq(Ops) /\ Len(r) = n - 1 /\ Head(q) = q[1]
      /\ Head(q) \in Ops
      /\ \A i \in 1 .. n - 1 : r[i] = q[i + 1]
  OBVIOUS
<1>2. PICK st : /\ st[0] = d /\ st[n] = e
                /\ \A i \in 1 .. n : Finds(st[i - 1], q[i]) /\ st[i] = Effect(st[i - 1], q[i])
  BY DEF Runs
<1> HIDE DEF n, r
<1> DEFINE st2 == [i \in 0 .. n - 1 |-> st[i + 1]]
<1>3. Finds(d, q[1]) /\ st[1] = Effect(d, q[1])
  <2>1. 1 \in 1 .. n /\ 1 - 1 = 0
    BY <1>1
  <2>. QED
    BY <1>2, <2>1
<1>4. \A i \in 0 .. n - 1 : st2[i] = st[i + 1]
  OBVIOUS
<1> HIDE DEF st2
<1>5. st2[0] = Effect(d, q[1]) /\ st2[n - 1] = e
  <2>1. 0 \in 0 .. n - 1 /\ n - 1 \in 0 .. n - 1 /\ 0 + 1 = 1 /\ (n - 1) + 1 = n
    BY <1>1
  <2>. QED
    BY <1>2, <1>3, <1>4, <2>1
<1>6. ASSUME NEW i \in 1 .. n - 1
      PROVE  Finds(st2[i - 1], r[i]) /\ st2[i] = Effect(st2[i - 1], r[i])
  <2>1. /\ i + 1 \in 1 .. n /\ i - 1 \in 0 .. n - 1 /\ i \in 0 .. n - 1
        /\ (i - 1) + 1 = i /\ (i + 1) - 1 = i
    BY <1>1
  <2>2. st2[i - 1] = st[i] /\ st2[i] = st[i + 1] /\ r[i] = q[i + 1]
    BY <1>1, <1>4, <2>1
  <2>3. Finds(st[i], q[i + 1]) /\ st[i + 1] = Effect(st[i], q[i + 1])
    BY <1>2, <2>1
  <2>. QED
    BY <2>2, <2>3
<1>7. Runs(st2[0], r, e)
  BY <1>1, <1>5, <1>6 DEF Runs
<1>. QED
  BY <1>1, <1>3, <1>5, <1>7 DEF r

-----------------------------------------------------------------------------
(* What the host enqueues *)

LEMMA Appends ==
    ASSUME NEW q \in Seq(Ops), NEW a, NEW b, NEW c
    PROVE  /\ q \o <<a, b>> = Append(Append(q, a), b)
           /\ q \o <<a, b, c>> = Append(Append(Append(q, a), b), c)
OBVIOUS

LEMMA PlainAppend ==
    ASSUME NEW q \in Seq(Ops), Plain(q), NEW o \in Ops, o.op \notin Syncs
    PROVE  Append(q, o) \in Seq(Ops) /\ Plain(Append(q, o))
<1>1. /\ Append(q, o) \in Seq(Ops) /\ Len(Append(q, o)) = Len(q) + 1
      /\ \A i \in 1 .. Len(q) : Append(q, o)[i] = q[i]
      /\ Append(q, o)[Len(q) + 1] = o
  OBVIOUS
<1>. QED
  BY <1>1 DEF Plain

\* One more operation that waits for nothing.
LEMMA Enqueue ==
    ASSUME NEW q \in Seq(Ops), Plain(q), NEW d, NEW e \in Memory, Runs(d, q, e),
           NEW o \in Ops, o.op \notin Syncs, Finds(e, o)
    PROVE  /\ Append(q, o) \in Seq(Ops) /\ Plain(Append(q, o))
           /\ Runs(d, Append(q, o), Effect(e, o)) /\ Effect(e, o) \in Memory
<1>1. Append(q, o) \in Seq(Ops) /\ Plain(Append(q, o))
  BY PlainAppend
<1>2. Runs(d, Append(q, o), Effect(e, o))
  BY RunsAppend
<1>3. Effect(e, o) \in Memory
  BY EffectType
<1>. QED
  BY <1>1, <1>2, <1>3

LEMMA EagerOp ==
    ASSUME NEW toks \in Seq(Token), NEW at \in Nat, at + Len(toks) <= MaxSeq, NEW d
    PROVE  LET o == EagerForward(toks, at) IN
           /\ o \in Ops /\ o.op \notin Syncs /\ Finds(d, o)
           /\ Effect(d, o) =
                 Mem(Forward(At(d.slots, at), toks).kv, d.position, d.input, d.curLen, d.logits)
<1> DEFINE o == EagerForward(toks, at)
<1>1. o \in Ops /\ o.op = "eager" /\ o.toks = toks /\ o.at = at
  BY DEF EagerForward, Ops
<1> HIDE DEF o
<1>. QED
  BY <1>1 DEF Effect, Finds, Syncs, o

LEMMA PlainOps ==
    ASSUME NEW to \in Nat, NEW d
    PROVE  /\ ZeroCache \in Ops /\ ZeroCache.op \notin Syncs /\ Finds(d, ZeroCache)
           /\ Effect(d, ZeroCache) = Mem(NewExecutor(MaxSeq).kv, 0, d.input, d.curLen, d.logits)
           /\ FillPosition(to) \in Ops /\ FillPosition(to).op \notin Syncs
           /\ Finds(d, FillPosition(to))
           /\ Effect(d, FillPosition(to)) = Mem(d.slots, to, d.input, d.curLen, d.logits)
           /\ AddOne \in Ops /\ AddOne.op \notin Syncs /\ Finds(d, AddOne)
           /\ Effect(d, AddOne) = Mem(d.slots, d.position + 1, d.input, d.curLen, d.logits)
<1>1. ZeroCache \in Ops /\ ZeroCache.op = "zero"
  BY DEF ZeroCache, Ops
<1>2. FillPosition(to) \in Ops /\ FillPosition(to).op = "fill" /\ FillPosition(to).to = to
  BY DEF FillPosition, Ops
<1>3. AddOne \in Ops /\ AddOne.op = "add"
  BY DEF AddOne, Ops
<1>4. /\ ZeroCache.op \notin Syncs /\ Finds(d, ZeroCache)
      /\ Effect(d, ZeroCache) = Mem(NewExecutor(MaxSeq).kv, 0, d.input, d.curLen, d.logits)
  BY <1>1 DEF Effect, Finds, Syncs
<1>5. /\ FillPosition(to).op \notin Syncs /\ Finds(d, FillPosition(to))
      /\ Effect(d, FillPosition(to)) = Mem(d.slots, to, d.input, d.curLen, d.logits)
  BY <1>2 DEF Effect, Finds, Syncs
<1>6. /\ AddOne.op \notin Syncs /\ Finds(d, AddOne)
      /\ Effect(d, AddOne) = Mem(d.slots, d.position + 1, d.input, d.curLen, d.logits)
  BY <1>3 DEF Effect, Finds, Syncs
<1>. QED
  BY <1>1, <1>2, <1>3, <1>4, <1>5, <1>6

\* Both ways to advance the device cursor do the same, given where it is.
LEMMA AdvanceOp ==
    ASSUME pos \in Nat, NEW n \in Nat, NEW d, d.position = pos
    PROVE  /\ Advance(n) \in Ops /\ Advance(n).op \notin Syncs /\ Finds(d, Advance(n))
           /\ Effect(d, Advance(n)) = Mem(d.slots, pos + n, d.input, d.curLen, d.logits)
<1>1. pos + n \in Nat
  OBVIOUS
<1>. QED
  BY <1>1, PlainOps DEF Advance

LEMMA PrepareOp ==
    ASSUME NEW d \in Memory, NEW g \in Graphs, NEW toks \in Seq(Token), NEW at \in Nat,
           at + Len(toks) <= MaxSeq
    PROVE  LET o == Prepare(g, toks, at)
               e == Effect(d, o)
           IN  /\ o \in Ops /\ o.op \notin Syncs /\ Finds(d, o) /\ e \in Memory
               /\ e.slots = d.slots /\ e.position = at /\ e.logits = d.logits
               /\ e.input[g] = toks /\ Prepared(e, g)
<1> DEFINE o == Prepare(g, toks, at)
           ids == [d.input EXCEPT ![g] = toks]
           lens == [d.curLen EXCEPT ![g] = at + Len(toks)]
           e == Effect(d, o)
<1>1. o \in Ops /\ o.op = "prepare" /\ o.graph = g /\ o.toks = toks /\ o.at = at
  BY DEF Prepare, Ops
<1> HIDE DEF o
<1>2. o.op \notin Syncs /\ Finds(d, o) /\ e = Mem(d.slots, at, ids, lens, d.logits)
  BY <1>1 DEF Effect, Finds, Syncs
<1>3. ids[g] = toks /\ lens[g] = at + Len(toks)
  BY MemoryFields
<1>4. e \in Memory
  BY <1>1, <1>2, EffectType
<1> HIDE DEF ids, lens, e
<1>5. e.slots = d.slots /\ e.position = at /\ e.logits = d.logits /\ e.input = ids /\ e.curLen = lens
  BY <1>2, MemFields
<1>6. Prepared(e, g)
  BY <1>3, <1>5 DEF Prepared
<1>. QED
  BY <1>1, <1>2, <1>3, <1>4, <1>5, <1>6 DEF e, o

\* A forward of the static buffers, once they are prepared.
LEMMA GraphOps ==
    ASSUME NEW d \in Memory, NEW g \in Graphs, Prepared(d, g)
    PROVE  /\ StaticForward(g) \in Ops /\ StaticForward(g).op \notin Syncs
           /\ Finds(d, StaticForward(g))
           /\ Effect(d, StaticForward(g)) =
                 Mem(Stepped(d, g), d.position, d.input, d.curLen, d.logits)
           /\ Replay(g) \in Ops /\ Replay(g).op \notin Syncs /\ Finds(d, Replay(g))
           /\ Effect(d, Replay(g)) =
                 Mem(Stepped(d, g), d.position, d.input, d.curLen, RowsOut(d, g))
           /\ RowsOut(d, g)[g] = Rows(At(d.slots, d.position), d.input[g])
<1>1. StaticForward(g) \in Ops /\ StaticForward(g).op = "static" /\ StaticForward(g).graph = g
  BY DEF StaticForward, Ops
<1>2. Replay(g) \in Ops /\ Replay(g).op = "replay" /\ Replay(g).graph = g
  BY DEF Replay, Ops
<1>3. /\ StaticForward(g).op \notin Syncs /\ Finds(d, StaticForward(g))
      /\ Effect(d, StaticForward(g)) =
            Mem(Stepped(d, g), d.position, d.input, d.curLen, d.logits)
  BY <1>1 DEF Effect, Finds, Syncs
<1>4. /\ Replay(g).op \notin Syncs /\ Finds(d, Replay(g))
      /\ Effect(d, Replay(g)) =
            Mem(Stepped(d, g), d.position, d.input, d.curLen, RowsOut(d, g))
  BY <1>2 DEF Effect, Finds, Syncs
<1>5. RowsOut(d, g)[g] = Rows(At(d.slots, d.position), d.input[g])
  BY DEF RowsOut
<1>. QED
  BY <1>1, <1>2, <1>3, <1>4, <1>5

LEMMA SyncOps ==
    ASSUME NEW g \in Graphs, NEW x \in {"ready", "warm"}, NEW d
    PROVE  /\ Record(<<g, x>>) \in Ops /\ Record(<<g, x>>).op = "record"
           /\ Record(<<g, x>>).event = <<g, x>>
           /\ Finds(d, Record(<<g, x>>)) /\ Effect(d, Record(<<g, x>>)) = d
           /\ WaitFor(<<g, x>>) \in Ops /\ WaitFor(<<g, x>>).op = "wait"
           /\ WaitFor(<<g, x>>).event = <<g, x>>
           /\ Finds(d, WaitFor(<<g, x>>)) /\ Effect(d, WaitFor(<<g, x>>)) = d
<1> DEFINE r == Record(<<g, x>>)
           w == WaitFor(<<g, x>>)
<1>1. <<g, x>> \in Graphs \X {"ready", "warm"}
  OBVIOUS
<1>2. r \in Ops /\ r.op = "record" /\ r.event = <<g, x>>
  BY <1>1 DEF Record, Ops
<1>3. w \in Ops /\ w.op = "wait" /\ w.event = <<g, x>>
  BY <1>1 DEF WaitFor, Ops
<1> HIDE DEF r, w
<1>4. Finds(d, r) /\ Effect(d, r) = d
  BY <1>2 DEF Effect, Finds
<1>5. Finds(d, w) /\ Effect(d, w) = d
  BY <1>3 DEF Effect, Finds
<1>. QED
  BY <1>2, <1>3, <1>4, <1>5 DEF r, w

\* The eager executor's forward, as one of the memory.
LEMMA EagerCalls ==
    ASSUME Types, pos = eager.pos, NEW toks \in Seq(Token), pos + Len(toks) <= MaxSeq
    PROVE  /\ Forward(eager, toks) \in Executors(MaxSeq)
           /\ Forward(eager, toks).pos = pos + Len(toks)
           /\ Forward(eager, toks).dev = pos + Len(toks)
           /\ Forward(eager, toks).kv = Forward(At(eager.kv, pos), toks).kv
           /\ Rows(eager, toks) = Rows(At(eager.kv, pos), toks)
           /\ Rows(eager, toks) \in Seq(Slots)
<1>1. eager \in Executors(MaxSeq) /\ eager.dev = eager.pos /\ eager.max = MaxSeq
  BY ExecutorFields, Sizes DEF Types
<1>2. Fits(eager, Len(toks))
  BY <1>1 DEF Fits
<1>3. /\ Forward(eager, toks) \in Executors(MaxSeq)
      /\ Forward(eager, toks).pos = pos + Len(toks)
      /\ Forward(eager, toks).dev = pos + Len(toks)
  BY <1>1, <1>2, ForwardType, Sizes
<1>4. /\ Forward(eager, toks).kv = Forward(At(eager.kv, pos), toks).kv
      /\ Rows(eager, toks) = Rows(At(eager.kv, pos), toks)
      /\ eager.kv \in [0 .. MaxSeq - 1 -> Slots] /\ pos \in Nat
  BY <1>1, ForwardOf
<1>5. Rows(At(eager.kv, pos), toks) \in Seq(Slots)
  BY <1>4, ForwardAt
<1>. QED
  BY <1>3, <1>4, <1>5

-----------------------------------------------------------------------------
(* Host calls *)

LEMMA Calling ==
    ASSUME IInv, capturing = NoGraph
    PROVE  /\ main \in Seq(Ops) /\ Plain(main) /\ side = <<>> /\ Now \in Memory
           /\ pos \in Nat /\ pos = eager.pos /\ pos <= MaxSeq
           /\ eager.kv \in [0 .. MaxSeq - 1 -> Slots]
           /\ \E e \in Memory : /\ Runs(Now, main, e)
                                /\ e.position = pos /\ e.slots = eager.kv
                                /\ held # Nothing => e.logits[held.graph] = held.want
<1>1. Types /\ Plain(main) /\ side = <<>>
  BY DEF IInv, Streams, NoCapture
<1>2. PICK e \in Memory : Runs(Now, main, e) /\ Agrees(e)
  BY DEF IInv, Foreseen
<1>3. pos = eager.pos /\ pos <= MaxSeq /\ eager.kv \in [0 .. MaxSeq - 1 -> Slots]
  BY <1>1, <1>2, ExecutorFields, Sizes DEF Agrees, Types, Executors, Slots
<1>. QED
  BY <1>1, <1>2, <1>3 DEF Types, Agrees

\* A call that enqueues what makes the memory the eager executor's.
LEMMA CallKeeps ==
    ASSUME IInv, capturing = NoGraph, UNCHANGED <<capturing, captured, device, side>>,
           NEW e \in Memory, main' \in Seq(Ops), Plain(main)', Runs(Now, main', e),
           pos' \in Nat, eager' \in Executors(MaxSeq), eager'.dev = eager'.pos,
           held' = Nothing \/ held' \in [graph : Graphs, want : Seq(Slots)],
           pos' = eager'.pos, e.position = pos', e.slots = eager'.kv,
           held' # Nothing => e.logits[held'.graph] = held'.want
    PROVE  IInv'
<1>1. /\ UNCHANGED <<capturing, captured, events, side>>
      /\ UNCHANGED <<slots, position, input, curLen, logits>>
  BY DEF device
<1>2. Now' = Now
  BY <1>1 DEF Now
<1>3. Types'
  BY <1>1, <1>2 DEF IInv, Types
<1>4. Streams'
  BY <1>1 DEF IInv, Streams, NoCapture
<1>5. Foreseen'
  <2>1. Runs(Now, main, e)'
    BY <1>2
  <2>2. Agrees(e)'
    BY DEF Agrees
  <2>. QED
    BY <1>1, <2>1, <2>2 DEF Foreseen
<1>. QED
  BY <1>3, <1>4, <1>5 DEF IInv

LEMMA PrefillKeeps ==
    ASSUME IInv, NEW prompt \in Prompts, PrefillCall(prompt)
    PROVE  IInv'
<1>1. /\ capturing = NoGraph
      /\ IF Len(prompt) <= MaxSeq
         THEN /\ main' = main \o <<ZeroCache, EagerForward(prompt, 0),
                                   IF Len(prompt) = 1 THEN AddOne ELSE FillPosition(Len(prompt))>>
              /\ pos' = Len(prompt)
              /\ eager' = Prefill(eager, prompt)
         ELSE /\ main' = Append(main, ZeroCache)
              /\ pos' = 0
              /\ eager' = ResetKvCache(eager)
      /\ UNCHANGED <<capturing, captured, device, side>> /\ held' = held
  BY DEF PrefillCall, Call
<1>2. /\ main \in Seq(Ops) /\ Plain(main)
      /\ held = Nothing \/ held \in [graph : Graphs, want : Seq(Slots)]
      /\ eager \in Executors(MaxSeq) /\ prompt \in Seq(Token)
  BY <1>1, Calling, Sizes DEF IInv, Types
<1>3. PICK e \in Memory : /\ Runs(Now, main, e)
                          /\ held # Nothing => e.logits[held.graph] = held.want
  BY <1>1, Calling
<1>4. PICK e1 : e1 = Effect(e, ZeroCache)
  OBVIOUS
<1>5. /\ Append(main, ZeroCache) \in Seq(Ops) /\ Plain(Append(main, ZeroCache))
      /\ Runs(Now, Append(main, ZeroCache), e1) /\ e1 \in Memory
      /\ e1 = Mem(NewExecutor(MaxSeq).kv, 0, e.input, e.curLen, e.logits)
  <2>1. ZeroCache \in Ops /\ ZeroCache.op \notin Syncs /\ Finds(e, ZeroCache)
        /\ e1 = Mem(NewExecutor(MaxSeq).kv, 0, e.input, e.curLen, e.logits)
    BY <1>4, PlainOps
  <2>. QED
    BY <1>2, <1>3, <1>4, <2>1, Enqueue
<1>6. e1.slots = NewExecutor(MaxSeq).kv /\ e1.position = 0 /\ e1.logits = e.logits
  BY <1>5, MemFields
<1>7. /\ NewExecutor(MaxSeq) \in Executors(MaxSeq)
      /\ NewExecutor(MaxSeq).pos = 0 /\ NewExecutor(MaxSeq).dev = 0
      /\ ResetKvCache(eager) = NewExecutor(MaxSeq)
  BY <1>2, NewExecutorType, ResetType, Sizes
<1>8. CASE ~(Len(prompt) <= MaxSeq)
  <2>1. main' = Append(main, ZeroCache) /\ pos' = 0 /\ eager' = NewExecutor(MaxSeq)
    BY <1>1, <1>7, <1>8
  <2>2. Plain(main)'
    BY <1>5, <2>1
  <2>. QED
    BY <1>1, <1>2, <1>3, <1>5, <1>6, <1>7, <2>1, <2>2, CallKeeps
<1>9. CASE Len(prompt) <= MaxSeq
  <2> DEFINE n == Len(prompt)
             fwd == EagerForward(prompt, 0)
             last == IF n = 1 THEN AddOne ELSE FillPosition(n)
             q1 == Append(main, ZeroCache)
             new == NewExecutor(MaxSeq)
  <2>1. main' = main \o <<ZeroCache, fwd, last>> /\ pos' = n /\ eager' = Prefill(eager, prompt)
    BY <1>1, <1>9
  <2>2. n \in Nat
    BY <1>2
  <2>3. PICK e2 : e2 = Effect(e1, fwd)
    OBVIOUS
  <2>4. /\ fwd \in Ops /\ fwd.op \notin Syncs /\ Finds(e1, fwd)
        /\ e2 = Mem(Forward(At(e1.slots, 0), prompt).kv, e1.position, e1.input, e1.curLen, e1.logits)
    BY <1>2, <1>9, <2>3, EagerOp
  <2>5. /\ Append(q1, fwd) \in Seq(Ops) /\ Plain(Append(q1, fwd))
        /\ Runs(Now, Append(q1, fwd), e2) /\ e2 \in Memory
    BY <1>5, <2>3, <2>4, Enqueue
  <2>6. /\ e2.slots = Forward(At(new.kv, 0), prompt).kv /\ e2.position = 0
        /\ e2.logits = e.logits
    BY <1>6, <2>4, MemFields
  <2>7. PICK e3 : e3 = Effect(e2, last)
    OBVIOUS
  <2>8. /\ last \in Ops /\ last.op \notin Syncs /\ Finds(e2, last)
        /\ e3 = Mem(e2.slots, n, e2.input, e2.curLen, e2.logits)
    <3>1. CASE n = 1
      <4>1. last = AddOne /\ e2.position + 1 = n
        BY <2>6, <3>1
      <4>. QED
        BY <2>7, <4>1, PlainOps
    <3>2. CASE n # 1
      <4>1. last = FillPosition(n)
        BY <3>2
      <4>. QED
        BY <2>2, <2>7, <4>1, PlainOps
    <3>. QED
      BY <3>1, <3>2
  <2>9. /\ Append(Append(q1, fwd), last) \in Seq(Ops) /\ Plain(Append(Append(q1, fwd), last))
        /\ Runs(Now, Append(Append(q1, fwd), last), e3) /\ e3 \in Memory
    BY <2>5, <2>7, <2>8, Enqueue
  <2>10. e3.slots = Forward(At(new.kv, 0), prompt).kv /\ e3.position = n /\ e3.logits = e.logits
    BY <2>6, <2>8, MemFields
  <2>11. main' = Append(Append(q1, fwd), last)
    BY <1>2, <2>1, Appends
  <2>12. Plain(main)'
    BY <2>9, <2>11
  <2>13. eager' \in Executors(MaxSeq) /\ eager'.pos = n /\ eager'.dev = n
    BY <1>2, <1>9, <2>1, PrefillType, Sizes
  <2>14. eager'.kv = Forward(new, prompt).kv
    <3>1. Prefill(eager, prompt).kv = Forward(new, prompt).kv
      BY <1>7 DEF Prefill, Forward, NewExecutor
    <3>. QED
      BY <2>1, <3>1
  <2>15. Forward(new, prompt).kv = Forward(At(new.kv, 0), prompt).kv
    BY <1>2, <1>7, <1>9, <2>2, ForwardOf
  <2> HIDE DEF n, fwd, last, q1, new
  <2>. QED
    BY <1>1, <1>2, <1>3, <2>1, <2>2, <2>9, <2>10, <2>11, <2>12, <2>13, <2>14, <2>15, CallKeeps
<1>. QED
  BY <1>8, <1>9

LEMMA DecodeStepKeeps ==
    ASSUME IInv, NEW t \in Token, DecodeStepCall(t)
    PROVE  IInv'
<1> DEFINE toks == <<t>>
           fwd == EagerForward(toks, pos)
           fresh == Forward(At(eager.kv, pos), toks).kv
<1>1. /\ capturing = NoGraph /\ pos + 1 <= MaxSeq
      /\ main' = main \o <<fwd, Advance(1)>>
      /\ pos' = pos + 1 /\ eager' = Forward(eager, toks)
      /\ UNCHANGED <<capturing, captured, device, side>> /\ held' = held
  BY DEF DecodeStepCall, Call, RoomFor, DecodeStep
<1>2. /\ main \in Seq(Ops) /\ Plain(main) /\ pos \in Nat /\ pos = eager.pos /\ Types
      /\ held = Nothing \/ held \in [graph : Graphs, want : Seq(Slots)]
  BY <1>1, Calling DEF IInv, Types
<1>3. PICK e \in Memory : /\ Runs(Now, main, e) /\ e.position = pos /\ e.slots = eager.kv
                          /\ held # Nothing => e.logits[held.graph] = held.want
  BY <1>1, Calling
<1>4. toks \in Seq(Token) /\ pos + Len(toks) <= MaxSeq /\ pos + Len(toks) = pos + 1
  BY <1>1
<1>5. /\ Forward(eager, toks) \in Executors(MaxSeq)
      /\ Forward(eager, toks).pos = pos + 1 /\ Forward(eager, toks).dev = pos + 1
      /\ Forward(eager, toks).kv = fresh
  BY <1>2, <1>4, EagerCalls
<1>6. PICK e1 : e1 = Effect(e, fwd)
  OBVIOUS
<1>7. /\ fwd \in Ops /\ fwd.op \notin Syncs /\ Finds(e, fwd)
      /\ e1 = Mem(Forward(At(e.slots, pos), toks).kv, e.position, e.input, e.curLen, e.logits)
  BY <1>2, <1>4, <1>6, EagerOp
<1>8. /\ Append(main, fwd) \in Seq(Ops) /\ Plain(Append(main, fwd))
      /\ Runs(Now, Append(main, fwd), e1) /\ e1 \in Memory
  BY <1>2, <1>3, <1>6, <1>7, Enqueue
<1>9. e1.slots = fresh /\ e1.position = pos /\ e1.logits = e.logits
  BY <1>3, <1>7, MemFields
<1>10. PICK e2 : e2 = Effect(e1, Advance(1))
  OBVIOUS
<1>11. /\ Advance(1) \in Ops /\ Advance(1).op \notin Syncs /\ Finds(e1, Advance(1))
       /\ e2 = Mem(e1.slots, pos + 1, e1.input, e1.curLen, e1.logits)
  BY <1>2, <1>9, <1>10, AdvanceOp
<1> HIDE DEF fresh, fwd, toks
<1> DEFINE q1 == Append(main, fwd)
           q == Append(q1, Advance(1))
<1>12. q \in Seq(Ops) /\ Plain(q) /\ Runs(Now, q, e2) /\ e2 \in Memory
  <2> HIDE DEF q1
  <2>1. q1 \in Seq(Ops) /\ Plain(q1) /\ Runs(Now, q1, e1)
    BY <1>8 DEF q1
  <2>. QED
    BY <1>8, <1>10, <1>11, <2>1, Enqueue
<1>13. e2.slots = fresh /\ e2.position = pos + 1 /\ e2.logits = e.logits
  BY <1>9, <1>11, MemFields
<1>14. main' = q
  BY <1>1, <1>2, Appends
<1> HIDE DEF q, q1
<1>15. Plain(main)' /\ main' \in Seq(Ops) /\ Runs(Now, main', e2)
  BY <1>12, <1>14
<1>16. pos + 1 \in Nat
  BY <1>2
<1>. QED
  BY <1>1, <1>2, <1>3, <1>5, <1>12, <1>13, <1>15, <1>16, CallKeeps

LEMMA DecodeStaticKeeps ==
    ASSUME IInv, NEW t \in Token, DecodeStepStatic(t)
    PROVE  IInv'
<1> DEFINE toks == <<t>>
           prep == Prepare(0, toks, pos)
           fwd == StaticForward(0)
           fresh == Forward(At(eager.kv, pos), toks).kv
<1>1. /\ capturing = NoGraph /\ pos + 1 <= MaxSeq
      /\ main' = main \o <<prep, fwd, Advance(1)>>
      /\ pos' = pos + 1 /\ eager' = Forward(eager, toks)
      /\ UNCHANGED <<capturing, captured, device, side>> /\ held' = held
  BY DEF DecodeStepStatic, Call, RoomFor, DecodeStep
<1>2. /\ main \in Seq(Ops) /\ Plain(main) /\ pos \in Nat /\ pos = eager.pos /\ Types
      /\ held = Nothing \/ held \in [graph : Graphs, want : Seq(Slots)]
  BY <1>1, Calling DEF IInv, Types
<1>3. PICK e \in Memory : /\ Runs(Now, main, e) /\ e.position = pos /\ e.slots = eager.kv
                          /\ held # Nothing => e.logits[held.graph] = held.want
  BY <1>1, Calling
<1>4. toks \in Seq(Token) /\ pos + Len(toks) <= MaxSeq /\ pos + Len(toks) = pos + 1
      /\ 0 \in Graphs
  BY <1>1, Sizes DEF Graphs
<1>5. /\ Forward(eager, toks) \in Executors(MaxSeq)
      /\ Forward(eager, toks).pos = pos + 1 /\ Forward(eager, toks).dev = pos + 1
      /\ Forward(eager, toks).kv = fresh
  BY <1>2, <1>4, EagerCalls
<1>6. PICK e1 : e1 = Effect(e, prep)
  OBVIOUS
<1>7. /\ prep \in Ops /\ prep.op \notin Syncs /\ Finds(e, prep) /\ e1 \in Memory
      /\ e1.slots = e.slots /\ e1.position = pos /\ e1.logits = e.logits
      /\ e1.input[0] = toks /\ Prepared(e1, 0)
  <2> HIDE DEF toks
  <2>1. /\ e \in Memory /\ 0 \in Graphs /\ toks \in Seq(Token) /\ pos \in Nat
        /\ pos + Len(toks) <= MaxSeq
    BY <1>2, <1>4
  <2>. QED
    BY <1>6, <2>1, PrepareOp
<1>8. /\ Append(main, prep) \in Seq(Ops) /\ Plain(Append(main, prep))
      /\ Runs(Now, Append(main, prep), e1)
  BY <1>2, <1>3, <1>6, <1>7, Enqueue
<1>9. PICK e2 : e2 = Effect(e1, fwd)
  OBVIOUS
<1>10. /\ fwd \in Ops /\ fwd.op \notin Syncs /\ Finds(e1, fwd)
       /\ e2 = Mem(Stepped(e1, 0), e1.position, e1.input, e1.curLen, e1.logits)
  BY <1>4, <1>7, <1>9, GraphOps
<1>11. Stepped(e1, 0) = fresh
  BY <1>3, <1>7 DEF Stepped
<1>12. e2.slots = fresh /\ e2.position = pos /\ e2.logits = e.logits
  BY <1>7, <1>10, <1>11, MemFields
<1> HIDE DEF fresh, fwd, prep, toks
<1> DEFINE q1 == Append(main, prep)
           q2 == Append(q1, fwd)
<1>13. q2 \in Seq(Ops) /\ Plain(q2) /\ Runs(Now, q2, e2) /\ e2 \in Memory
  <2> HIDE DEF q1
  <2>1. q1 \in Seq(Ops) /\ Plain(q1) /\ Runs(Now, q1, e1)
    BY <1>8 DEF q1
  <2>. QED
    BY <1>7, <1>9, <1>10, <2>1, Enqueue
<1>14. PICK e3 : e3 = Effect(e2, Advance(1))
  OBVIOUS
<1>15. /\ Advance(1) \in Ops /\ Advance(1).op \notin Syncs /\ Finds(e2, Advance(1))
       /\ e3 = Mem(e2.slots, pos + 1, e2.input, e2.curLen, e2.logits)
  BY <1>2, <1>12, <1>14, AdvanceOp
<1> DEFINE q == Append(q2, Advance(1))
<1>16. q \in Seq(Ops) /\ Plain(q) /\ Runs(Now, q, e3) /\ e3 \in Memory
  BY <1>13, <1>14, <1>15, Enqueue
<1>17. e3.slots = fresh /\ e3.position = pos + 1 /\ e3.logits = e.logits
  BY <1>12, <1>15, MemFields
<1>18. main' = q
  BY <1>1, <1>2, Appends
<1> HIDE DEF q, q2, q1
<1>19. Plain(main)' /\ main' \in Seq(Ops) /\ Runs(Now, main', e3)
  BY <1>16, <1>18
<1>20. pos + 1 \in Nat
  BY <1>2
<1>. QED
  BY <1>1, <1>2, <1>3, <1>5, <1>16, <1>17, <1>19, <1>20, CallKeeps

LEMMA RollbackKeeps ==
    ASSUME IInv, NEW to, RollbackCall(to)
    PROVE  IInv'
<1>1. /\ capturing = NoGraph /\ to \in 0 .. pos /\ main' = Append(main, FillPosition(to))
      /\ pos' = to /\ eager' = RollbackCache(eager, to)
      /\ UNCHANGED <<capturing, captured, device, side>> /\ held' = held
  BY DEF RollbackCall, Call
<1>2. /\ main \in Seq(Ops) /\ Plain(main) /\ pos \in Nat /\ pos <= MaxSeq
      /\ held = Nothing \/ held \in [graph : Graphs, want : Seq(Slots)]
      /\ eager \in Executors(MaxSeq)
  BY <1>1, Calling DEF IInv, Types
<1>3. PICK e \in Memory : /\ Runs(Now, main, e) /\ e.slots = eager.kv
                          /\ held # Nothing => e.logits[held.graph] = held.want
  BY <1>1, Calling
<1>4. to \in Nat /\ to \in 0 .. MaxSeq
  BY <1>1, <1>2, Sizes
<1>5. PICK e1 : e1 = Effect(e, FillPosition(to))
  OBVIOUS
<1>6. /\ FillPosition(to) \in Ops /\ FillPosition(to).op \notin Syncs
      /\ Finds(e, FillPosition(to))
      /\ e1 = Mem(e.slots, to, e.input, e.curLen, e.logits)
  BY <1>4, <1>5, PlainOps
<1> DEFINE q == Append(main, FillPosition(to))
<1>7. q \in Seq(Ops) /\ Plain(q) /\ Runs(Now, q, e1) /\ e1 \in Memory
  BY <1>2, <1>3, <1>5, <1>6, Enqueue
<1>8. e1.slots = eager.kv /\ e1.position = to /\ e1.logits = e.logits
  BY <1>3, <1>6, MemFields
<1>9. /\ eager' \in Executors(MaxSeq) /\ eager'.pos = to /\ eager'.dev = to
      /\ eager'.kv = eager.kv
  BY <1>1, <1>2, <1>4, RollbackOnly, Sizes
<1>10. main' = q
  BY <1>1
<1> HIDE DEF q
<1>11. Plain(main)' /\ main' \in Seq(Ops) /\ Runs(Now, main', e1)
  BY <1>7, <1>10
<1>. QED
  BY <1>1, <1>2, <1>3, <1>4, <1>7, <1>8, <1>9, <1>11, CallKeeps

LEMMA CloneKeeps ==
    ASSUME IInv, CloneCall
    PROVE  IInv'
<1> DEFINE o == CloneRow(held)
<1>1. /\ capturing = NoGraph /\ held # Nothing /\ main' = Append(main, o)
      /\ UNCHANGED <<pos, capturing, captured, held, eager, device, side>>
  BY DEF CloneCall, Call
<1>2. /\ main \in Seq(Ops) /\ Plain(main) /\ pos \in Nat /\ pos = eager.pos
      /\ held \in [graph : Graphs, want : Seq(Slots)]
      /\ eager \in Executors(MaxSeq) /\ eager.dev = eager.pos
  BY <1>1, Calling DEF IInv, Types
<1>3. PICK e \in Memory : /\ Runs(Now, main, e) /\ e.position = pos /\ e.slots = eager.kv
                          /\ e.logits[held.graph] = held.want
  BY <1>1, Calling
<1>4. o \in Ops /\ o.op = "clone" /\ o.graph = held.graph /\ o.want = held.want
  BY <1>2 DEF CloneRow, Ops
<1> HIDE DEF o
<1>5. o.op \notin Syncs /\ Finds(e, o) /\ Effect(e, o) = e
  BY <1>3, <1>4 DEF Effect, Finds, Syncs
<1>6. /\ Append(main, o) \in Seq(Ops) /\ Plain(Append(main, o))
      /\ Runs(Now, Append(main, o), e)
  BY <1>2, <1>3, <1>4, <1>5, Enqueue
<1>7. Plain(main)' /\ main' \in Seq(Ops) /\ Runs(Now, main', e)
  BY <1>1, <1>6
<1>. QED
  BY <1>1, <1>2, <1>3, <1>7, CallKeeps

-----------------------------------------------------------------------------
(* Graph calls *)

LEMMA ReplayKeeps ==
    ASSUME IInv, capturing = NoGraph, NEW g \in Graphs, NEW toks \in Seq(Token),
           pos + Len(toks) <= MaxSeq, ReplayCall(g, toks)
    PROVE  IInv'
<1> DEFINE n == Len(toks)
           prep == Prepare(g, toks, pos)
           fwd == Replay(g)
           fresh == Forward(At(eager.kv, pos), toks).kv
           rows == Rows(eager, toks)
<1>1. /\ main' = main \o <<prep, fwd, Advance(n)>>
      /\ pos' = pos + n /\ eager' = Forward(eager, toks)
      /\ UNCHANGED <<capturing, captured, device, side>>
      /\ held' = [graph |-> g, want |-> rows]
  BY DEF ReplayCall
<1>2. /\ main \in Seq(Ops) /\ Plain(main) /\ pos \in Nat /\ pos = eager.pos /\ Types
      /\ n \in Nat
  BY Calling DEF IInv
<1>3. PICK e \in Memory : Runs(Now, main, e) /\ e.position = pos /\ e.slots = eager.kv
  BY Calling
<1>4. /\ Forward(eager, toks) \in Executors(MaxSeq)
      /\ Forward(eager, toks).pos = pos + n /\ Forward(eager, toks).dev = pos + n
      /\ Forward(eager, toks).kv = fresh
      /\ rows = Rows(At(eager.kv, pos), toks) /\ rows \in Seq(Slots)
  BY <1>2, EagerCalls
<1>5. PICK e1 : e1 = Effect(e, prep)
  OBVIOUS
<1>6. /\ prep \in Ops /\ prep.op \notin Syncs /\ Finds(e, prep) /\ e1 \in Memory
      /\ e1.slots = e.slots /\ e1.position = pos
      /\ e1.input[g] = toks /\ Prepared(e1, g)
  BY <1>2, <1>5, PrepareOp
<1>7. /\ Append(main, prep) \in Seq(Ops) /\ Plain(Append(main, prep))
      /\ Runs(Now, Append(main, prep), e1)
  BY <1>2, <1>3, <1>5, <1>6, Enqueue
<1>8. PICK e2 : e2 = Effect(e1, fwd)
  OBVIOUS
<1>9. /\ fwd \in Ops /\ fwd.op \notin Syncs /\ Finds(e1, fwd)
      /\ e2 = Mem(Stepped(e1, g), e1.position, e1.input, e1.curLen, RowsOut(e1, g))
      /\ RowsOut(e1, g)[g] = Rows(At(e1.slots, e1.position), e1.input[g])
  BY <1>6, <1>8, GraphOps
<1>10. Stepped(e1, g) = fresh /\ RowsOut(e1, g)[g] = rows
  BY <1>3, <1>4, <1>6, <1>9 DEF Stepped
<1>11. e2.slots = fresh /\ e2.position = pos /\ e2.logits[g] = rows
  BY <1>6, <1>9, <1>10, MemFields
<1> HIDE DEF fresh, fwd, prep, rows
<1> DEFINE q1 == Append(main, prep)
           q2 == Append(q1, fwd)
<1>12. q2 \in Seq(Ops) /\ Plain(q2) /\ Runs(Now, q2, e2) /\ e2 \in Memory
  <2> HIDE DEF q1
  <2>1. q1 \in Seq(Ops) /\ Plain(q1) /\ Runs(Now, q1, e1)
    BY <1>7 DEF q1
  <2>. QED
    BY <1>6, <1>8, <1>9, <2>1, Enqueue
<1>13. PICK e3 : e3 = Effect(e2, Advance(n))
  OBVIOUS
<1>14. /\ Advance(n) \in Ops /\ Advance(n).op \notin Syncs /\ Finds(e2, Advance(n))
       /\ e3 = Mem(e2.slots, pos + n, e2.input, e2.curLen, e2.logits)
  BY <1>2, <1>11, <1>13, AdvanceOp
<1> DEFINE q == Append(q2, Advance(n))
<1>15. q \in Seq(Ops) /\ Plain(q) /\ Runs(Now, q, e3) /\ e3 \in Memory
  BY <1>12, <1>13, <1>14, Enqueue
<1>16. e3.slots = fresh /\ e3.position = pos + n /\ e3.logits[g] = rows
  BY <1>11, <1>14, MemFields
<1>17. main' = q
  BY <1>1, <1>2, Appends
<1> HIDE DEF q, q2, q1
<1>18. Plain(main)' /\ main' \in Seq(Ops) /\ Runs(Now, main', e3)
  BY <1>15, <1>17
<1>19. held' \in [graph : Graphs, want : Seq(Slots)] /\ e3.logits[held'.graph] = held'.want
  BY <1>1, <1>4, <1>16
<1>20. pos + n \in Nat
  BY <1>2
<1>. QED
  BY <1>1, <1>4, <1>15, <1>16, <1>18, <1>19, <1>20, CallKeeps

\* The operations of the side stream during a capture.
LEMMA WarmUpStream ==
    ASSUME NEW g \in Graphs
    PROVE  LET q == <<WaitFor(<<g, "ready">>)>> \o WarmUpOps(g) \o <<Record(<<g, "warm">>)>> IN
           /\ q \in Seq(Ops) /\ q # <<>> /\ Head(q) = WaitFor(<<g, "ready">>)
           /\ q[Len(q)] = Record(<<g, "warm">>)
           /\ \A i \in 1 .. Len(q) - 1 : q[i] \in {WaitFor(<<g, "ready">>), StaticForward(g)}
<1> DEFINE w == WaitFor(<<g, "ready">>)
           r == Record(<<g, "warm">>)
           f == StaticForward(g)
           m == WarmUpOps(g)
           q == <<w>> \o m \o <<r>>
<1>1. w \in Ops /\ r \in Ops
  BY SyncOps
<1>2. f \in Ops
  BY DEF StaticForward, Ops
<1>3. WarmUps \in Nat
  BY GraphAssumption
<1>4. m = [i \in 1 .. WarmUps |-> f]
  BY DEF WarmUpOps
<1> HIDE DEF w, r, f, m
<1>5. /\ m \in Seq(Ops) /\ Len(m) = WarmUps
      /\ \A i \in 1 .. WarmUps : m[i] = f
  BY <1>2, <1>3, <1>4
<1>6. /\ q \in Seq(Ops) /\ Len(q) = WarmUps + 2 /\ q[1] = w /\ q[WarmUps + 2] = r
      /\ \A i \in 2 .. WarmUps + 1 : q[i] = m[i - 1]
  BY <1>1, <1>3, <1>5
<1> HIDE DEF q
<1>7. ASSUME NEW i \in 1 .. Len(q) - 1 PROVE q[i] \in {w, f}
  <2>1. CASE i = 1
    BY <1>6, <2>1
  <2>2. CASE i # 1
    <3>1. i \in 2 .. WarmUps + 1 /\ i - 1 \in 1 .. WarmUps
      BY <1>3, <1>6, <2>2
    <3>. QED
      BY <1>5, <1>6, <3>1
  <2>. QED
    BY <2>1, <2>2
<1>8. q # <<>> /\ Head(q) = w /\ q[Len(q)] = r
  BY <1>3, <1>6
<1>. QED
  BY <1>6, <1>7, <1>8 DEF q, m, f, r, w

LEMMA CaptureKeeps ==
    ASSUME IInv, capturing = NoGraph, NEW g \in Graphs, NEW toks \in Seq(Token),
           pos + Len(toks) <= MaxSeq, CaptureCall(g, toks)
    PROVE  IInv'
<1> DEFINE n == Len(toks)
           prep == Prepare(g, toks, pos)
           rec == Record(<<g, "ready">>)
           wait == WaitFor(<<g, "warm">>)
           rows == Rows(eager, toks)
           warming == <<WaitFor(<<g, "ready">>)>> \o WarmUpOps(g) \o <<Record(<<g, "warm">>)>>
<1>1. /\ main' = main \o <<prep, rec, wait>> /\ side' = side \o warming
      /\ g \notin captured /\ capturing' = g
      /\ eager' = Forward(eager, toks) /\ held' = [graph |-> g, want |-> rows]
      /\ UNCHANGED <<pos, captured, device>>
  <2>1. side \o <<WaitFor(<<g, "ready">>)>> \o WarmUpOps(g) \o <<Record(<<g, "warm">>)>>
        = side \o warming
    <3>1. side = <<>>
      BY Calling
    <3>2. warming \in Seq(Ops)
      BY WarmUpStream
    <3>3. \A x : <<>> \o <<x>> = <<x>>
      OBVIOUS
    <3>4. \A q \in Seq(Ops) : <<>> \o q = q
      OBVIOUS
    <3>. QED
      BY <3>1, <3>2, <3>3, <3>4, Zenon
  <2>. QED
    BY <2>1 DEF CaptureCall
<1>2. /\ main \in Seq(Ops) /\ Plain(main) /\ side = <<>> /\ Types
      /\ pos \in Nat /\ pos = eager.pos /\ eager.kv \in [0 .. MaxSeq - 1 -> Slots]
      /\ n \in Nat /\ Now \in Memory
      /\ g # NoGraph /\ events \subseteq (captured \cap Graphs) \X {"ready", "warm"}
  BY Calling, Sizes DEF IInv, Streams
<1>3. PICK e \in Memory : Runs(Now, main, e) /\ e.position = pos /\ e.slots = eager.kv
  BY Calling
<1>4. /\ Forward(eager, toks) \in Executors(MaxSeq)
      /\ Forward(eager, toks).pos = pos + n /\ Forward(eager, toks).dev = pos + n
      /\ Forward(eager, toks).kv = Forward(At(eager.kv, pos), toks).kv
      /\ rows = Rows(At(eager.kv, pos), toks) /\ rows \in Seq(Slots)
  BY <1>2, EagerCalls
<1>5. PICK e1 : e1 = Effect(e, prep)
  OBVIOUS
<1>6. /\ prep \in Ops /\ prep.op \notin Syncs /\ Finds(e, prep) /\ e1 \in Memory
      /\ e1.slots = e.slots /\ e1.position = pos
      /\ e1.input[g] = toks /\ Prepared(e1, g)
  BY <1>2, <1>5, PrepareOp
<1>7. /\ rec \in Ops /\ Finds(e1, rec) /\ Effect(e1, rec) = e1
      /\ wait \in Ops /\ Finds(e1, wait) /\ Effect(e1, wait) = e1
  BY SyncOps
<1> DEFINE q1 == Append(main, prep)
           q2 == Append(q1, rec)
           q3 == Append(q2, wait)
<1> HIDE DEF prep, rec, wait, rows, warming
<1>9. main' = q3
  <2>1. main' = main \o <<prep, rec, wait>>
    BY <1>1
  <2>2. main \in Seq(Ops)
    BY <1>2
  <2>. QED
    BY <2>1, <2>2, Appends
<1>8. q1 \in Seq(Ops) /\ Plain(q1) /\ Runs(Now, q1, e1)
  <2>1. /\ main \in Seq(Ops) /\ Plain(main) /\ e \in Memory /\ Runs(Now, main, e)
        /\ prep \in Ops /\ prep.op \notin Syncs /\ Finds(e, prep)
    BY <1>2, <1>3, <1>6
  <2>2. /\ Append(main, prep) \in Seq(Ops) /\ Plain(Append(main, prep))
        /\ Runs(Now, Append(main, prep), Effect(e, prep))
    BY <2>1, Enqueue
  <2>. QED
    BY <1>5, <2>2
<1> HIDE DEF q1
<1>10. q2 \in Seq(Ops) /\ Runs(Now, q2, e1)
  BY <1>6, <1>7, <1>8, RunsAppend
<1>11. q3 \in Seq(Ops) /\ Runs(Now, q3, e1)
  BY <1>6, <1>7, <1>10, RunsAppend
<1>12. /\ Len(q3) = Len(q1) + 2 /\ Len(q1) \in Nat
       /\ q3[Len(q1) + 1] = rec /\ q3[Len(q1) + 2] = wait
       /\ \A i \in 1 .. Len(q1) : q3[i] = q1[i]
  BY <1>7, <1>8
<1>13. /\ side' = warming /\ warming \in Seq(Ops) /\ warming # <<>>
       /\ Head(warming) = WaitFor(<<g, "ready">>)
       /\ warming[Len(warming)] = Record(<<g, "warm">>)
       /\ \A i \in 1 .. Len(warming) - 1 :
             warming[i] \in {WaitFor(<<g, "ready">>), StaticForward(g)}
  <2>1. \A q \in Seq(Ops) : <<>> \o q = q
    OBVIOUS
  <2>2. /\ warming \in Seq(Ops) /\ warming # <<>>
        /\ Head(warming) = WaitFor(<<g, "ready">>)
        /\ warming[Len(warming)] = Record(<<g, "warm">>)
        /\ \A i \in 1 .. Len(warming) - 1 :
              warming[i] \in {WaitFor(<<g, "ready">>), StaticForward(g)}
    BY WarmUpStream DEF warming
  <2>. QED
    BY <1>1, <1>2, <2>1, <2>2
<1> HIDE DEF q2, q3
<1>14. UNCHANGED <<events, slots, position, input, curLen, logits>> /\ Now' = Now
  BY <1>1 DEF device, Now
<1>15. Types'
  <2>1. held' \in [graph : Graphs, want : Seq(Slots)]
    BY <1>1, <1>4
  <2>2. main' \in Seq(Ops) /\ side' \in Seq(Ops)
    BY <1>9, <1>11, <1>13
  <2>. QED
    BY <1>1, <1>2, <1>4, <1>14, <2>1, <2>2 DEF Types
<1>16. <<g, "ready">> \notin events /\ <<g, "warm">> \notin events
  BY <1>1, <1>2
<1>17. Streams'
  <2>1. SideLeft'
    BY <1>1, <1>13, <1>14, <1>16 DEF SideLeft
  <2>2. NotReady'
    <3>1. Len(main') >= 2 /\ Len(main') - 1 = Len(q1) + 1 /\ Len(main') - 2 = Len(q1)
      BY <1>9, <1>12
    <3>2. main'[Len(main') - 1] = rec /\ main'[Len(main')] = wait
      BY <1>9, <1>12, <3>1
    <3>3. \A i \in 1 .. Len(main') - 2 : main'[i].op \notin Syncs
      BY <1>8, <1>9, <1>12, <3>1 DEF Plain
    <3>. QED
      BY <1>1, <1>13, <1>14, <1>16, <3>1, <3>2, <3>3 DEF NotReady, rec, wait
  <2>3. events' \subseteq ((captured' \cup {capturing'}) \cap Graphs) \X {"ready", "warm"}
    BY <1>1, <1>2, <1>14
  <2>. QED
    BY <1>1, <1>2, <2>1, <2>2, <2>3 DEF Streams
<1>18. Foreseen'
  <2>1. Due(e1)'
    BY <1>1, <1>2, <1>3, <1>4, <1>6 DEF Due
  <2>2. Runs(Now, main, e1)'
    BY <1>9, <1>11, <1>14
  <2>. QED
    BY <1>1, <1>2, <1>6, <2>1, <2>2 DEF Foreseen
<1>. QED
  BY <1>15, <1>17, <1>18 DEF IInv

\* The device is idle: what is due is due of the memory as it is.
LEMMA Idle ==
    ASSUME IInv, main = <<>>, capturing # NoGraph
    PROVE  Due(Now) /\ capturing \in Graphs
<1>1. PICK e \in Memory : Runs(Now, main, e) /\ Due(e)
  BY DEF IInv, Foreseen
<1>2. Now = e
  BY <1>1, RunsNone
<1>. QED
  BY <1>1, <1>2 DEF IInv, Types

LEMMA FinishKeeps ==
    ASSUME IInv, FinishCapture
    PROVE  IInv'
<1> DEFINE g == capturing
           toks == Now.input[g]
           n == Len(toks)
           fwd == Replay(g)
           fresh == Forward(At(Now.slots, pos), toks).kv
           rows == Rows(At(Now.slots, pos), toks)
<1>1. /\ g # NoGraph /\ main = <<>> /\ side = <<>> /\ captured' = captured \cup {g}
      /\ main' = main \o <<fwd, Advance(n)>> /\ pos' = pos + n
      /\ capturing' = NoGraph /\ UNCHANGED <<held, eager, device, side>>
  BY MemFields DEF FinishCapture, AfterCapture, Now
<1>2. /\ Types /\ Now \in Memory /\ main \in Seq(Ops) /\ pos \in Nat /\ captured \subseteq Graphs
      /\ eager \in Executors(MaxSeq) /\ eager.dev = eager.pos
      /\ held = Nothing \/ held \in [graph : Graphs, want : Seq(Slots)]
      /\ events \subseteq ((captured \cup {g}) \cap Graphs) \X {"ready", "warm"}
  BY DEF IInv, Types, Streams
<1>3. /\ Prepared(Now, g) /\ Now.position = pos /\ g \in Graphs
      /\ eager.pos = pos + n /\ eager.kv = fresh
      /\ held = [graph |-> g, want |-> rows]
  BY <1>1, Idle DEF Due
<1>4. n \in Nat /\ pos + n \in Nat
  BY <1>2, <1>3, StaticFits
<1>5. Plain(main) /\ Runs(Now, main, Now)
  BY <1>1, RunsNone DEF Plain
<1>6. PICK e1 : e1 = Effect(Now, fwd)
  OBVIOUS
<1>7. /\ fwd \in Ops /\ fwd.op \notin Syncs /\ Finds(Now, fwd)
      /\ e1 = Mem(Stepped(Now, g), Now.position, Now.input, Now.curLen, RowsOut(Now, g))
      /\ RowsOut(Now, g)[g] = rows
  BY <1>2, <1>3, <1>6, GraphOps
<1>8. Stepped(Now, g) = fresh
  BY <1>3 DEF Stepped
<1>9. e1.slots = fresh /\ e1.position = pos /\ e1.logits[g] = rows
  BY <1>3, <1>7, <1>8, MemFields
<1> HIDE DEF fwd, fresh, rows, n, toks
<1> DEFINE q1 == Append(main, fwd)
           q == Append(q1, Advance(n))
<1>10. q1 \in Seq(Ops) /\ Plain(q1) /\ Runs(Now, q1, e1) /\ e1 \in Memory
  <2>1. /\ main \in Seq(Ops) /\ Plain(main) /\ Now \in Memory /\ Runs(Now, main, Now)
        /\ fwd \in Ops /\ fwd.op \notin Syncs /\ Finds(Now, fwd)
    BY <1>2, <1>5, <1>7
  <2>. QED
    BY <1>6, <2>1, Enqueue
<1>11. PICK e2 : e2 = Effect(e1, Advance(n))
  OBVIOUS
<1>12. /\ Advance(n) \in Ops /\ Advance(n).op \notin Syncs /\ Finds(e1, Advance(n))
       /\ e2 = Mem(e1.slots, pos + n, e1.input, e1.curLen, e1.logits)
  BY <1>2, <1>4, <1>9, <1>11, AdvanceOp
<1>13. main' = q
  BY <1>1, <1>2, Appends
<1> HIDE DEF q1
<1>14. q \in Seq(Ops) /\ Plain(q) /\ Runs(Now, q, e2) /\ e2 \in Memory
  BY <1>10, <1>11, <1>12, Enqueue
<1> HIDE DEF q
<1>15. e2.slots = fresh /\ e2.position = pos + n /\ e2.logits[g] = rows
  BY <1>9, <1>12, MemFields
<1>16. UNCHANGED <<events, slots, position, input, curLen, logits, side>> /\ Now' = Now
  BY <1>1 DEF device, Now
<1>17. Types'
  <2>1. captured' \subseteq Graphs
    BY <1>1, <1>2, <1>3
  <2>. QED
    BY <1>1, <1>2, <1>4, <1>13, <1>14, <1>16, <2>1 DEF Types
<1>18. Streams'
  <2>1. events' \subseteq ((captured' \cup {capturing'}) \cap Graphs) \X {"ready", "warm"}
    BY <1>1, <1>2, <1>16
  <2>2. Plain(main)' /\ side' = <<>>
    BY <1>1, <1>13, <1>14
  <2>. QED
    BY <1>1, <2>1, <2>2 DEF Streams, NoCapture
<1>19. Foreseen'
  <2>1. Agrees(e2)'
    BY <1>1, <1>3, <1>15 DEF Agrees
  <2>2. Runs(Now, main, e2)'
    BY <1>13, <1>14, <1>16
  <2>. QED
    BY <1>1, <1>14, <2>1, <2>2 DEF Foreseen
<1>. QED
  BY <1>17, <1>18, <1>19 DEF IInv

-----------------------------------------------------------------------------
(* The device *)

\* What an operation does to the events.
LEMMA RunEvents ==
    ASSUME NEW o, Run(o), o.op \in {"eager", "zero", "fill", "add", "prepare", "static",
                                    "replay", "clone", "record", "wait"}
    PROVE  /\ o.op # "record" => events' = events
           /\ o.op = "record" => events' = events \cup {o.event}
           /\ o.op = "wait" => o.event \in events
BY DEF Run, device

LEMMA Taken ==
    ASSUME NEW q \in Seq(Ops), q # <<>>
    PROVE  /\ Tail(q) \in Seq(Ops) /\ Len(q) \in Nat /\ Len(q) >= 1 /\ Len(Tail(q)) = Len(q) - 1
           /\ Head(q) = q[1] /\ Head(q) \in Ops
           /\ \A i \in 1 .. Len(q) - 1 : Tail(q)[i] = q[i + 1]
OBVIOUS

LEMMA OneLong ==
    ASSUME NEW S, NEW q \in Seq(S), Len(q) = 1
    PROVE  q = <<q[1]>>
OBVIOUS

\* A device step of the main stream leaves the streams in order.
LEMMA MainStreams ==
    ASSUME Types, Streams, main # <<>>, Run(Head(main)), main' = Tail(main),
           UNCHANGED <<capturing, captured, side>>
    PROVE  Streams'
<1> DEFINE o == Head(main)
           n == Len(main)
<1>1. /\ main' \in Seq(Ops) /\ n \in Nat /\ n >= 1 /\ Len(main') = n - 1
      /\ o = main[1] /\ o \in Ops
      /\ \A i \in 1 .. n - 1 : main'[i] = main[i + 1]
  BY Taken DEF Types
<1>2. /\ o.op # "record" => events' = events
      /\ o.op = "record" => events' = events \cup {o.event}
      /\ o.op = "wait" => o.event \in events
  BY <1>1, OpFields, RunEvents
<1>3. events \subseteq ((captured \cup {capturing}) \cap Graphs) \X {"ready", "warm"}
      /\ capturing \in Graphs \cup {NoGraph}
  BY DEF Streams, Types
<1> HIDE DEF o, n
<1>4. CASE capturing = NoGraph
  <2>1. NoCapture
    BY <1>4 DEF Streams
  <2>2. Plain(main')
    BY <1>1, <2>1 DEF NoCapture, Plain, n
  <2>3. events' = events
    BY <1>1, <1>2, <2>1 DEF NoCapture, Plain, Syncs, n
  <2>4. NoCapture'
    BY <2>1, <2>2 DEF NoCapture
  <2>. QED
    BY <1>3, <1>4, <2>3, <2>4 DEF Streams
<1>5. CASE capturing # NoGraph
  <2> DEFINE ready == <<capturing, "ready">>
             warm == <<capturing, "warm">>
  <2>1. capturing \notin captured /\ ((SideLeft /\ (NotReady \/ WarmingUp)) \/ WarmedUp)
    BY <1>5 DEF Streams
  <2>2. /\ Record(ready).op = "record" /\ Record(ready).event = ready
        /\ WaitFor(warm).op = "wait" /\ WaitFor(warm).event = warm
    BY DEF Record, WaitFor
  <2> HIDE DEF ready, warm
  <2>3. CASE SideLeft /\ NotReady
    <3>1. /\ n >= 2 /\ main[n - 1] = Record(ready) /\ main[n] = WaitFor(warm)
          /\ \A i \in 1 .. n - 2 : main[i].op \notin Syncs
          /\ side # <<>> /\ Head(side) = WaitFor(ready) /\ ready \notin events
      BY <2>3 DEF NotReady, n, ready, warm
    <3>2. CASE n > 2
      <4>1. o.op \notin Syncs
        BY <1>1, <3>1, <3>2
      <4>2. events' = events
        BY <1>2, <4>1 DEF Syncs
      <4>3. /\ main'[Len(main') - 1] = Record(ready) /\ main'[Len(main')] = WaitFor(warm)
            /\ Len(main') >= 2
            /\ \A i \in 1 .. Len(main') - 2 : main'[i].op \notin Syncs
        BY <1>1, <3>1, <3>2
      <4>4. NotReady'
        BY <3>1, <4>2, <4>3 DEF NotReady, ready, warm
      <4>5. SideLeft'
        BY <2>3, <4>2 DEF SideLeft
      <4>. QED
        BY <1>3, <1>5, <2>1, <4>2, <4>4, <4>5 DEF Streams
    <3>3. CASE n = 2
      <4>1. o = Record(ready) /\ main' = <<WaitFor(warm)>>
        <5>1. /\ main' \in Seq(Ops) /\ Len(main') = 1 /\ main'[1] = main[2]
              /\ o = main[1] /\ main[1] = Record(ready) /\ main[2] = WaitFor(warm)
          BY <1>1, <3>1, <3>3
        <5>2. o = Record(ready) /\ main'[1] = WaitFor(warm)
          BY <5>1
        <5>3. main' = <<main'[1]>>
          BY <5>1, OneLong
        <5>. QED
          BY <5>2, <5>3
      <4>2. events' = events \cup {ready}
        BY <1>2, <2>2, <4>1
      <4>3. WarmingUp'
        BY <4>1 DEF WarmingUp, warm
      <4>4. SideLeft'
        <5>1. warm \notin events'
          BY <2>3, <4>2 DEF SideLeft, ready, warm
        <5>. QED
          BY <2>3, <5>1 DEF SideLeft, warm
      <4>5. events' \subseteq ((captured \cup {capturing}) \cap Graphs) \X {"ready", "warm"}
        BY <1>3, <1>5, <4>2 DEF ready
      <4>. QED
        BY <1>5, <2>1, <4>3, <4>4, <4>5 DEF Streams
    <3>. QED
      BY <1>1, <3>1, <3>2, <3>3
  <2>4. CASE SideLeft /\ WarmingUp
    <3>1. o = WaitFor(warm) /\ warm \notin events
      BY <1>1, <2>4 DEF SideLeft, WarmingUp, warm
    <3>. QED
      BY <1>2, <2>2, <3>1
  <2>5. CASE WarmedUp
    <3>1. main = <<WaitFor(warm)>> /\ side = <<>>
      BY <2>5 DEF WarmedUp, warm
    <3>2. o = WaitFor(warm) /\ main' = <<>>
      BY <1>1, <3>1
    <3>3. events' = events
      BY <1>2, <2>2, <3>2
    <3>4. WarmedUp'
      BY <3>1, <3>2 DEF WarmedUp
    <3>. QED
      BY <1>3, <1>5, <2>1, <3>3, <3>4 DEF Streams
  <2>. QED
    BY <2>1, <2>3, <2>4, <2>5
<1>. QED
  BY <1>4, <1>5

LEMMA MainKeeps ==
    ASSUME IInv, MainStep
    PROVE  IInv'
<1> DEFINE o == Head(main)
<1>1. /\ main # <<>> /\ Run(o) /\ main' = Tail(main)
      /\ UNCHANGED <<pos, capturing, captured, held, eager, side>>
  BY DEF MainStep, host
<1>2. Types /\ Now \in Memory /\ main \in Seq(Ops)
  BY DEF IInv, Types
<1>3. PICK e \in Memory : /\ Runs(Now, main, e)
                          /\ IF capturing = NoGraph THEN Agrees(e) ELSE Due(e)
  BY DEF IInv, Foreseen
<1>4. /\ o \in Ops /\ Finds(Now, o)
      /\ Tail(main) \in Seq(Ops) /\ Runs(Effect(Now, o), Tail(main), e)
  BY <1>1, <1>2, <1>3, RunsHead
<1>5. Now' = Effect(Now, o) /\ Effect(Now, o) \in Memory
  BY <1>1, <1>2, <1>4, RunIsEffect, EffectType
<1> HIDE DEF o
<1>6. Types'
  BY <1>1, <1>2, <1>4, <1>5 DEF Types
<1>7. Streams'
  BY <1>1, <1>2, MainStreams DEF IInv, o
<1>8. Foreseen'
  <2>1. Runs(Now, main, e)'
    BY <1>1, <1>4, <1>5
  <2>2. (IF capturing = NoGraph THEN Agrees(e) ELSE Due(e))'
    BY <1>1, <1>3 DEF Agrees, Due
  <2>. QED
    BY <1>3, <2>1, <2>2 DEF Foreseen
<1>. QED
  BY <1>6, <1>7, <1>8 DEF IInv

(***************************************************************************)
(* A step of the side stream: its operation is the warm-up's, the main     *)
(* stream waits, and the memory it leaves serves the replay as well.       *)
(***************************************************************************)
LEMMA SideFacts ==
    ASSUME IInv, SideStep
    PROVE  /\ IInv'
           /\ \A s \in 0 .. pos - 1 : slots'[s] = slots[s]
<1> DEFINE o == Head(side)
           g == capturing
           n == Len(side)
           ready == <<g, "ready">>
           warm == <<g, "warm">>
<1>1. /\ side # <<>> /\ Run(o) /\ side' = Tail(side)
      /\ UNCHANGED <<pos, capturing, captured, held, eager, main>>
  BY DEF SideStep, host
<1>2. /\ Types /\ Now \in Memory /\ side \in Seq(Ops) /\ main \in Seq(Ops) /\ pos \in Nat
      /\ eager \in Executors(MaxSeq)
      /\ events \subseteq ((captured \cup {g}) \cap Graphs) \X {"ready", "warm"}
  BY DEF IInv, Types, Streams
<1>3. /\ side' \in Seq(Ops) /\ n \in Nat /\ n >= 1 /\ Len(side') = n - 1
      /\ o = side[1] /\ o \in Ops
      /\ \A i \in 1 .. n - 1 : side'[i] = side[i + 1]
  BY <1>1, <1>2, Taken
<1>4. /\ o.op # "record" => events' = events
      /\ o.op = "record" => events' = events \cup {o.event}
      /\ o.op = "wait" => o.event \in events
  BY <1>1, <1>3, OpFields, RunEvents
<1> HIDE DEF o, n
<1>5. g \in Graphs /\ g \notin captured /\ g # NoGraph /\ SideLeft /\ (NotReady \/ WarmingUp)
  BY <1>1, Sizes DEF IInv, Types, Streams, NoCapture, WarmedUp
<1> HIDE DEF g
<1>6. /\ Record(warm) \in Ops /\ Record(warm).op = "record" /\ Record(warm).event = warm
      /\ WaitFor(ready).op = "wait" /\ WaitFor(ready).event = ready
      /\ WaitFor(warm) \in Ops
      /\ StaticForward(g).op = "static" /\ StaticForward(g).graph = g
      /\ \A d : Effect(d, WaitFor(warm)) = d /\ Effect(d, Record(warm)) = d
                /\ Effect(d, WaitFor(ready)) = d
      /\ \A d : Finds(d, WaitFor(warm)) /\ Finds(d, Record(warm)) /\ Finds(d, WaitFor(ready))
  <2>1. StaticForward(g).op = "static" /\ StaticForward(g).graph = g
    BY DEF StaticForward
  <2>2. "ready" \in {"ready", "warm"} /\ "warm" \in {"ready", "warm"}
    OBVIOUS
  <2>. QED
    BY <1>5, <2>1, <2>2, SyncOps
<1> HIDE DEF ready, warm
<1>7. main = <<WaitFor(warm)>>
  <2>1. CASE NotReady
    <3>1. o = WaitFor(ready) /\ ready \notin events
      BY <2>1 DEF NotReady, o, ready, g
    <3>. QED
      BY <1>4, <1>6, <3>1
  <2>. QED
    BY <1>5, <2>1 DEF WarmingUp, warm, g
<1>8. Due(Now)
  <2>1. PICK e \in Memory : Runs(Now, main, e) /\ Due(e)
    BY <1>5 DEF IInv, Foreseen, g
  <2>2. Head(main) = WaitFor(warm) /\ Tail(main) = <<>> /\ main # <<>>
    BY <1>7
  <2>3. Runs(Now, <<>>, e)
    BY <1>2, <1>6, <2>1, <2>2, RunsHead
  <2>. QED
    BY <2>1, <2>3, RunsNone
<1> DEFINE toks == Now.input[g]
           kv == Stepped(Now, g)
<1>9. /\ Prepared(Now, g) /\ Now.position = pos
      /\ eager.pos = pos + Len(toks)
      /\ eager.kv = Forward(At(Now.slots, pos), toks).kv
      /\ held = [graph |-> g, want |-> Rows(At(Now.slots, pos), toks)]
  BY <1>8 DEF Due, g
<1>10. /\ Now.slots \in [0 .. MaxSeq - 1 -> Slots]
       /\ toks \in Seq(Token) /\ pos + Len(toks) <= MaxSeq
  BY <1>2, <1>5, <1>9, StaticFits
<1>11. o \in {WaitFor(ready), StaticForward(g), Record(warm)}
  <2>1. CASE n = 1
    <3>1. o = Record(warm)
      BY <1>3, <1>5, <2>1 DEF SideLeft, warm, g, n
    <3>. QED
      BY <3>1
  <2>2. CASE n # 1
    <3>1. 1 \in 1 .. n - 1
      BY <1>3, <2>2
    <3>2. o \in {WaitFor(ready), StaticForward(g)}
      BY <1>3, <1>5, <3>1 DEF SideLeft, ready, g, n
    <3>. QED
      BY <3>2
  <2>. QED
    BY <2>1, <2>2
<1>12. Finds(Now, o) /\ Now' = Effect(Now, o) /\ Now' \in Memory
  <2>1. Finds(Now, StaticForward(g))
    BY <1>2, <1>5, <1>9, GraphOps
  <2>2. Finds(Now, o)
    BY <1>6, <1>11, <2>1
  <2>3. Now' = Effect(Now, o) /\ Effect(Now, o) \in Memory
    BY <1>1, <1>2, <1>3, <2>2, RunIsEffect, EffectType
  <2>. QED
    BY <2>2, <2>3
<1>13. Now' = Now \/ Now' = Mem(kv, pos, Now.input, Now.curLen, Now.logits)
  <2>1. Effect(Now, StaticForward(g)) = Mem(kv, pos, Now.input, Now.curLen, Now.logits)
    BY <1>2, <1>5, <1>9, GraphOps
  <2>. QED
    BY <1>6, <1>11, <1>12, <2>1
<1>14. kv = Forward(At(Now.slots, pos), toks).kv
  BY <1>9 DEF Stepped
<1>15. \A s \in 0 .. MaxSeq - 1 : s < pos => kv[s] = Now.slots[s]
  BY <1>2, <1>5, <1>9, SteppedFacts
<1>16. PICK next \in Memory : next = Now'
  BY <1>12
<1>17. Due(next)'
  <2>1. /\ Forward(At(kv, pos), toks).kv = kv
        /\ Rows(At(kv, pos), toks) = Rows(At(Now.slots, pos), toks)
    BY <1>2, <1>10, <1>14, ForwardTwice
  <2>2. CASE next = Now
    BY <1>1, <1>9, <2>2 DEF Due, g
  <2>3. CASE next = Mem(kv, pos, Now.input, Now.curLen, Now.logits)
    <3>1. /\ next.slots = kv /\ next.position = pos /\ next.input = Now.input
          /\ next.curLen = Now.curLen
      BY <2>3, MemFields
    <3>2. Prepared(next, g)
      BY <1>9, <3>1 DEF Prepared
    <3> HIDE DEF kv
    <3>. QED
      BY <1>1, <1>9, <1>14, <2>1, <3>1, <3>2 DEF Due, g
  <2>. QED
    BY <1>13, <1>16, <2>2, <2>3
<1>18. Runs(next, main', next)
  <2>1. /\ <<>> \in Seq(Ops) /\ Runs(next, <<>>, next)
    BY RunsNone
  <2>2. Runs(next, Append(<<>>, WaitFor(warm)), Effect(next, WaitFor(warm)))
    BY <1>6, <2>1, RunsAppend
  <2>3. main' = Append(<<>>, WaitFor(warm))
    BY <1>1, <1>7
  <2>. QED
    BY <1>6, <2>2, <2>3
<1>19. Foreseen'
  <2>1. Runs(Now, main, next)'
    BY <1>16, <1>18
  <2>2. capturing' # NoGraph
    BY <1>1, <1>5 DEF g
  <2>. QED
    BY <1>17, <2>1, <2>2 DEF Foreseen
<1>20. Types'
  BY <1>1, <1>2, <1>3, <1>12 DEF IInv, Types
<1>21. Streams'
  <2>1. CASE o = Record(warm)
    <3>1. events' = events \cup {warm}
      BY <1>4, <1>6, <2>1
    <3>2. n = 1
      <4>1. ASSUME n # 1 PROVE o \in {WaitFor(ready), StaticForward(g)}
        <5>1. 1 \in 1 .. n - 1
          BY <1>3, <4>1
        <5>. QED
          BY <1>3, <1>5, <5>1 DEF SideLeft, ready, g, n
      <4>. QED
        BY <1>6, <2>1, <4>1
    <3>3. side' = <<>>
      BY <1>3, <3>2
    <3>4. WarmedUp'
      BY <1>1, <1>7, <3>3 DEF WarmedUp, warm, g
    <3>5. events' \subseteq ((captured \cup {g}) \cap Graphs) \X {"ready", "warm"}
      BY <1>2, <1>5, <3>1 DEF warm
    <3>. QED
      BY <1>1, <1>5, <3>4, <3>5 DEF Streams, g
  <2>2. CASE o # Record(warm)
    <3>1. o.op # "record"
      BY <1>6, <1>11, <2>2
    <3>2. events' = events
      BY <1>4, <3>1
    <3>3. n # 1
      BY <1>3, <1>5, <2>2 DEF SideLeft, warm, g, n
    <3>4. /\ side' # <<>> /\ Len(side') = n - 1 /\ side'[Len(side')] = side[n]
          /\ \A i \in 1 .. Len(side') - 1 : side'[i] = side[i + 1] /\ i + 1 \in 1 .. n - 1
      BY <1>3, <3>3
    <3>5. SideLeft'
      BY <1>1, <1>5, <3>2, <3>4 DEF SideLeft, n
    <3>6. WarmingUp'
      BY <1>1, <1>7 DEF WarmingUp, warm, g
    <3>. QED
      BY <1>1, <1>2, <1>5, <3>2, <3>5, <3>6 DEF Streams, g
  <2>. QED
    BY <2>1, <2>2
<1>22. \A s \in 0 .. pos - 1 : slots'[s] = slots[s]
  <2>1. Now.slots = slots /\ Now'.slots = slots'
    BY MemFields DEF Now
  <2>2. slots' = slots \/ slots' = kv
    BY <1>13, <2>1, MemFields
  <2>3. \A s \in 0 .. pos - 1 : s \in 0 .. MaxSeq - 1 /\ s < pos
    BY <1>2, <1>10, Sizes
  <2>. QED
    BY <1>15, <2>1, <2>2, <2>3
<1>. QED
  BY <1>19, <1>20, <1>21, <1>22 DEF IInv

-----------------------------------------------------------------------------
(* The invariant, and what follows from it *)

LEMMA InitInv == Init => IInv
<1>. SUFFICES ASSUME Init PROVE IInv
  OBVIOUS
<1>1. /\ pos = 0 /\ capturing = NoGraph /\ captured = {} /\ held = Nothing
      /\ slots = [s \in 0 .. MaxSeq - 1 |-> <<>>] /\ position = 0
      /\ input = [g \in Graphs |-> <<>>] /\ curLen = [g \in Graphs |-> 0]
      /\ logits = [g \in Graphs |-> Lost] /\ main = <<>> /\ side = <<>> /\ events = {}
      /\ eager = NewExecutor(MaxSeq)
  BY DEF Init
<1>2. /\ eager \in Executors(MaxSeq) /\ eager.pos = 0 /\ eager.dev = 0
      /\ eager.kv = slots /\ slots \in [0 .. MaxSeq - 1 -> Slots]
  <2>1. eager.kv = slots
    BY <1>1 DEF NewExecutor
  <2>. QED
    BY <1>1, <2>1, NewExecutorType, Sizes DEF Executors, Slots
<1>3. Now \in Memory /\ Now.position = 0 /\ Now.slots = slots
  <2>1. /\ input \in [Graphs -> Seq(Token)] /\ curLen \in [Graphs -> Nat]
        /\ logits \in [Graphs -> Seq(Slots)] /\ position \in Nat
    BY <1>1 DEF Lost
  <2>. QED
    BY <1>1, <1>2, <2>1 DEF Now, Mem, Memory
<1>4. Types
  BY <1>1, <1>2, <1>3 DEF Types
<1>5. Streams
  BY <1>1 DEF Streams, NoCapture, Plain
<1>6. Foreseen
  <2>1. Runs(Now, main, Now)
    BY <1>1, RunsNone
  <2>2. Agrees(Now)
    BY <1>1, <1>2, <1>3 DEF Agrees
  <2>. QED
    BY <1>1, <1>3, <2>1, <2>2 DEF Foreseen
<1>. QED
  BY <1>4, <1>5, <1>6 DEF IInv

LEMMA GraphCallKeeps ==
    ASSUME IInv, capturing = NoGraph, NEW g \in Graphs, NEW toks \in Seq(Token),
           pos + Len(toks) <= MaxSeq, GraphCall(g, toks)
    PROVE  IInv'
BY ReplayKeeps, CaptureKeeps DEF GraphCall

LEMMA StutterKeeps ==
    ASSUME IInv, UNCHANGED vars
    PROVE  IInv'
<1>1. /\ UNCHANGED <<pos, capturing, captured, held, eager, main, side, events>>
      /\ UNCHANGED <<slots, position, input, curLen, logits>>
  BY DEF vars, host, device
<1>2. Now' = Now
  BY <1>1 DEF Now
<1>3. Types' /\ Streams'
  BY <1>1, <1>2 DEF IInv, Types, Streams, NoCapture, NotReady, WarmingUp, SideLeft, WarmedUp
<1>4. PICK e \in Memory : /\ Runs(Now, main, e)
                          /\ IF capturing = NoGraph THEN Agrees(e) ELSE Due(e)
  BY DEF IInv, Foreseen
<1>5. Runs(Now, main, e)' /\ (IF capturing = NoGraph THEN Agrees(e) ELSE Due(e))'
  BY <1>1, <1>2, <1>4 DEF Agrees, Due
<1>. QED
  BY <1>3, <1>4, <1>5 DEF IInv, Foreseen

LEMMA NextInv == IInv /\ [Next]_vars => IInv'
<1>. SUFFICES ASSUME IInv, [Next]_vars PROVE IInv'
  OBVIOUS
<1>1. ASSUME NEW p \in Prompts, PrefillCall(p) PROVE IInv'
  BY <1>1, PrefillKeeps
<1>2. ASSUME NEW t \in Token, DecodeStepCall(t) PROVE IInv'
  BY <1>2, DecodeStepKeeps
<1>3. ASSUME NEW t \in Token, DecodeStepStatic(t) PROVE IInv'
  BY <1>3, DecodeStaticKeeps
<1>4. ASSUME NEW t \in Token, DecodeStepGraph(t) PROVE IInv'
  <2>1. <<t>> \in Seq(Token) /\ Len(<<t>>) = 1 /\ 0 \in Graphs
    BY Sizes DEF Graphs
  <2>2. capturing = NoGraph /\ pos + 1 <= MaxSeq /\ GraphCall(0, <<t>>)
    BY <1>4 DEF DecodeStepGraph, Call, RoomFor
  <2>. QED
    BY <2>1, <2>2, GraphCallKeeps
<1>5. ASSUME NEW toks \in Inputs, VerifyGammaGraph(toks) PROVE IInv'
  <2>1. toks \in Seq(Token) /\ Len(toks) \in Graphs
    BY Sizes DEF Inputs, Graphs
  <2>2. capturing = NoGraph /\ pos + Len(toks) <= MaxSeq /\ GraphCall(Len(toks), toks)
    BY <1>5 DEF VerifyGammaGraph, Call, RoomFor
  <2>. QED
    BY <2>1, <2>2, GraphCallKeeps
<1>6. ASSUME NEW to \in 0 .. MaxSeq, RollbackCall(to) PROVE IInv'
  BY <1>6, RollbackKeeps
<1>7. CASE CloneCall
  BY <1>7, CloneKeeps
<1>8. CASE FinishCapture
  BY <1>8, FinishKeeps
<1>9. CASE MainStep
  BY <1>9, MainKeeps
<1>10. CASE SideStep
  BY <1>10, SideFacts
<1>11. CASE UNCHANGED vars
  BY <1>11, StutterKeeps
<1>. QED
  BY <1>1, <1>2, <1>3, <1>4, <1>5, <1>6, <1>7, <1>8, <1>9, <1>10, <1>11 DEF Next

(***************************************************************************)
(* In every reachable state the operations still enqueued take the device  *)
(* memory to what the eager executor has, or, during a capture, to what    *)
(* the replay that follows completes to it; and every operation finds the  *)
(* static buffers and rows it was enqueued for.                            *)
(***************************************************************************)
THEOREM Invariance == Spec => []IInv
BY InitInv, NextInv, PTL DEF Spec

\* The copy a caller makes of the live output buffer of decode_step_graph or
\* verify_gamma_graph holds the rows the eager call would have returned, for
\* every size and however late the device runs.
THEOREM Clones == Spec => []ClonesWhatEagerReturns
<1>1. IInv => ClonesWhatEagerReturns
  <2>. SUFFICES ASSUME IInv, main # <<>>, Head(main).op = "clone"
                PROVE  logits[Head(main).graph] = Head(main).want
    BY DEF ClonesWhatEagerReturns
  <2>1. PICK e \in Memory : Runs(Now, main, e)
    BY DEF IInv, Foreseen
  <2>2. main \in Seq(Ops)
    BY DEF IInv, Types
  <2>3. Finds(Now, Head(main))
    BY <2>1, <2>2, RunsHead
  <2>. QED
    BY <2>3, MemFields DEF Finds, Now
<1>. QED
  BY <1>1, Invariance, PTL

\* Once the device has run all it was given, its cache and cursor are those of
\* the eager executor, the stale slots above the cursor included.
THEOREM Settled == Spec => []SettledLikeEager
<1>1. IInv => SettledLikeEager
  <2>. SUFFICES ASSUME IInv, main = <<>>, capturing = NoGraph
                PROVE  pos = eager.pos /\ position = eager.dev /\ slots = eager.kv
    BY DEF SettledLikeEager
  <2>1. PICK e \in Memory : Runs(Now, main, e) /\ Agrees(e)
    BY DEF IInv, Foreseen
  <2>2. Now = e
    BY <2>1, RunsNone
  <2>3. eager.dev = eager.pos
    BY DEF IInv, Types
  <2>. QED
    BY <2>1, <2>2, <2>3, MemFields DEF Agrees, Now
<1>. QED
  BY <1>1, Invariance, PTL

\* The warm-up forwards a capture runs on the second stream change no slot
\* below the cursor.
THEOREM CommittedSlotsSafe == Spec => WarmUpHarmless
<1>1. IInv /\ [Next]_vars => [SideStep => \A s \in 0 .. pos - 1 : slots'[s] = slots[s]]_vars
  BY SideFacts
<1>. QED
  BY <1>1, Invariance, PTL DEF Spec, WarmUpHarmless
=============================================================================
