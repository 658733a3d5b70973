---------------------------- MODULE GraphExecutor ----------------------------
(***************************************************************************)
(* The CUDA-graph paths of an executor (runtime/executor_graph.py and the  *)
(* static buffers of runtime/buffers.py).  The host only enqueues: kernels *)
(* run later, in the order of their stream, and read the device scalars as *)
(* they are then.  A captured graph replays with no arguments at all, so   *)
(* everything it needs must already be in the static buffers.              *)
(*                                                                         *)
(* The eager executor of KVExecutor, given the same calls at the moment    *)
(* the host makes them, is what the graphs must agree with.                *)
(*                                                                         *)
(* Graph 0 is the decode graph, graph S >= 1 the verify graph of S rows.   *)
(***************************************************************************)
EXTENDS KVExecutor

CONSTANTS MaxSeq,        \* buffers.max_seq_len
          MaxRows,       \* MAX_VERIFY_SEQ_LEN, the longest verify
          Prompts,       \* the prompts prefill is called with
          WarmUps,       \* forwards run before a capture
          MaxCalls       \* bound: host calls in a behaviour

ASSUME GraphAssumption ==
    /\ {MaxSeq, MaxRows, WarmUps, MaxCalls} \subseteq Nat
    /\ Prompts \subseteq Seq(Token) \ {<<>>}

Graphs == 0 .. MaxRows
NoGraph == -1
Lost == <<>>          \* a buffer another graph has run over

VARIABLES pos,          \* _cache_pos
          capturing,    \* the graph the host is capturing, or NoGraph
          captured,     \* the graphs there are
          held,         \* the live logits buffer the caller still may read
          slots, position,       \* device: KV cache and cache_position
          input, curLen,         \* device: static buffers of each graph
          logits,                \* device: captured output buffer of each graph
          main, side,   \* the current stream and the one captures warm up on
          events,       \* the stream events that have happened
          eager,        \* the eager executor given the same calls
          calls

host == <<pos, capturing, captured, held, eager, calls>>
device == <<slots, position, input, curLen, logits, events>>
vars == <<host, device, main, side>>

Nothing == [graph |-> NoGraph, want |-> <<>>]

Init ==
    /\ pos = 0 /\ capturing = NoGraph /\ captured = {} /\ held = Nothing
    /\ slots = [s \in 0 .. MaxSeq - 1 |-> <<>>] /\ position = 0
    /\ input = [g \in Graphs |-> <<>>] /\ curLen = [g \in Graphs |-> 0]
    /\ logits = [g \in Graphs |-> Lost]
    /\ main = <<>> /\ side = <<>> /\ events = {}
    /\ eager = NewExecutor(MaxSeq) /\ calls = 0

-----------------------------------------------------------------------------
(* What the host enqueues *)

\* Eager kernels get the cursor as an argument, frozen at the call.
EagerForward(toks, at) == [op |-> "eager", toks |-> toks, at |-> at]
ZeroCache == [op |-> "zero"]
FillPosition(to) == [op |-> "fill", to |-> to]
AddOne == [op |-> "add"]
Prepare(g, toks, at) == [op |-> "prepare", graph |-> g, toks |-> toks, at |-> at]
StaticForward(g) == [op |-> "static", graph |-> g]
Replay(g) == [op |-> "replay", graph |-> g]
CloneRow(h) == [op |-> "clone", graph |-> h.graph, want |-> h.want]
Record(e) == [op |-> "record", event |-> e]
WaitFor(e) == [op |-> "wait", event |-> e]

Advance(n) == IF n = 1 THEN AddOne ELSE FillPosition(pos + n)

Rows(e, toks) == [j \in 1 .. Len(toks) |-> Row(e, toks, j)]

\* _validate_input_ids
RoomFor(n) == pos + n <= MaxSeq

\* Every call the caller makes; the host is busy while it captures.
Call == capturing = NoGraph /\ calls < MaxCalls /\ calls' = calls + 1

PrefillCall(prompt) ==
    /\ Call
    /\ IF Len(prompt) <= MaxSeq
       THEN /\ main' = main \o <<ZeroCache, EagerForward(prompt, 0),
                                 IF Len(prompt) = 1 THEN AddOne ELSE FillPosition(Len(prompt))>>
            /\ pos' = Len(prompt)
            /\ eager' = Prefill(eager, prompt)
       ELSE /\ main' = Append(main, ZeroCache)
            /\ pos' = 0
            /\ eager' = ResetKvCache(eager)
    /\ UNCHANGED <<capturing, captured, held, device, side>>

DecodeStepCall(t) ==
    /\ Call /\ RoomFor(1)
    /\ main' = main \o <<EagerForward(<<t>>, pos), Advance(1)>>
    /\ pos' = pos + 1
    /\ eager' = DecodeStep(eager, t)
    /\ UNCHANGED <<capturing, captured, held, device, side>>

DecodeStepStatic(t) ==
    /\ Call /\ RoomFor(1)
    /\ main' = main \o <<Prepare(0, <<t>>, pos), StaticForward(0), Advance(1)>>
    /\ pos' = pos + 1
    /\ eager' = DecodeStep(eager, t)
    /\ UNCHANGED <<capturing, captured, held, device, side>>

RollbackCall(to) ==
    /\ Call /\ to \in 0 .. pos
    /\ main' = Append(main, FillPosition(to))
    /\ pos' = to
    /\ eager' = RollbackCache(eager, to)
    /\ UNCHANGED <<capturing, captured, held, device, side>>

\* Mutant: the static buffers are left as the last call filled them.
ReplayCallUnprepared(g, toks) ==
    /\ g \in captured
    /\ main' = main \o <<Replay(g), Advance(Len(toks))>>
    /\ pos' = pos + Len(toks)
    /\ eager' = Forward(eager, toks)
    /\ held' = [graph |-> g, want |-> Rows(eager, toks)]
    /\ UNCHANGED <<capturing, captured, device, side>>

\* A replay of a graph there is; the caller gets the live output buffer.
ReplayCall(g, toks) ==
    /\ g \in captured
    /\ main' = main \o <<Prepare(g, toks, pos), Replay(g), Advance(Len(toks))>>
    /\ pos' = pos + Len(toks)
    /\ eager' = Forward(eager, toks)
    /\ held' = [graph |-> g, want |-> Rows(eager, toks)]
    /\ UNCHANGED <<capturing, captured, device, side>>

WarmUpOps(g) == [i \in 1 .. WarmUps |-> StaticForward(g)]

\* Mutant: the warm-up is not ordered after the main stream.
CaptureUnordered(g, toks) ==
    /\ g \notin captured
    /\ main' = main \o <<Prepare(g, toks, pos), WaitFor(<<g, "warm">>)>>
    /\ side' = side \o WarmUpOps(g) \o <<Record(<<g, "warm">>)>>
    /\ capturing' = g
    /\ eager' = Forward(eager, toks)
    /\ held' = [graph |-> g, want |-> Rows(eager, toks)]
    /\ UNCHANGED <<pos, captured, device>>

(***************************************************************************)
(* The first call for a graph: prepare, warm up on the side stream between *)
(* two wait_stream, and wait until the device is idle.                     *)
(***************************************************************************)
CaptureCall(g, toks) ==
    /\ g \notin captured
    /\ main' = main \o <<Prepare(g, toks, pos), Record(<<g, "ready">>), WaitFor(<<g, "warm">>)>>
    /\ side' = side \o <<WaitFor(<<g, "ready">>)>> \o WarmUpOps(g) \o <<Record(<<g, "warm">>)>>
    /\ capturing' = g
    /\ eager' = Forward(eager, toks)
    /\ held' = [graph |-> g, want |-> Rows(eager, toks)]
    /\ UNCHANGED <<pos, captured, device>>

\* Mutant: the cursor moves by one whatever the graph.
AfterCaptureByOne(g) == main' = main \o <<Replay(g), AddOne>> /\ pos' = pos + 1

\* The captured graph is replayed for the call that captured it.
AfterCapture(g) ==
    LET n == Len(input[g])
    IN  main' = main \o <<Replay(g), Advance(n)>> /\ pos' = pos + n

\* synchronize returned; recording runs nothing on the device.
FinishCapture ==
    /\ capturing # NoGraph
    /\ main = <<>> /\ side = <<>>
    /\ captured' = captured \cup {capturing}
    /\ AfterCapture(capturing)
    /\ capturing' = NoGraph
    /\ UNCHANGED <<held, eager, calls, device, side>>

GraphCall(g, toks) == ReplayCall(g, toks) \/ CaptureCall(g, toks)

DecodeStepGraph(t) == Call /\ RoomFor(1) /\ GraphCall(0, <<t>>)

\* toks are the drafts, after the deferred bonus if there is one.
VerifyGammaGraph(toks) ==
    /\ Call
    /\ eager.p1 # NoRow
    /\ RoomFor(Len(toks))
    /\ GraphCall(Len(toks), toks)

\* The caller copies the row it needs before its next graph call.
CloneCall ==
    /\ Call
    /\ held # Nothing
    /\ main' = Append(main, CloneRow(held))
    /\ UNCHANGED <<pos, capturing, captured, held, eager, device, side>>

-----------------------------------------------------------------------------
(* What the device does with it *)

(***************************************************************************)
(* A forward over toks at slot `at`, attending to the first len slots: the *)
(* keys are written first, then row j reads up to its own position.        *)
(***************************************************************************)
TokenIn(toks, at, s) ==
    IF at <= s /\ s < at + Len(toks) THEN toks[s - at + 1] ELSE SlotToken(slots[s])

Computed(toks, at, len) ==
    [j \in 1 .. Len(toks) |->
        [i \in 1 .. len - Len(toks) + j |->
            IF i <= MaxSeq THEN TokenIn(toks, at, i - 1) ELSE NoToken]]

Stored(toks, at, len) ==
    [s \in DOMAIN slots |->
        IF at <= s /\ s < at + Len(toks) THEN Computed(toks, at, len)[s - at + 1]
        ELSE slots[s]]

\* A replay finds its output buffer at a fixed address, in a pool that it
\* shares with the other graphs: theirs may be gone.
ReplayedLogits(g) ==
    [h \in Graphs |-> IF h = g THEN Computed(input[g], position, curLen[g]) ELSE Lost]

Static(g) == slots' = Stored(input[g], position, curLen[g])

Run(o) ==
    \/ /\ o.op = "eager"
       /\ slots' = Stored(o.toks, o.at, o.at + Len(o.toks))
       /\ UNCHANGED <<position, input, curLen, logits, events>>
    \/ /\ o.op = "zero"
       /\ slots' = [s \in DOMAIN slots |-> <<>>]
       /\ position' = 0
       /\ UNCHANGED <<input, curLen, logits, events>>
    \/ /\ o.op = "fill"
       /\ position' = o.to
       /\ UNCHANGED <<slots, input, curLen, logits, events>>
    \/ /\ o.op = "add"
       /\ position' = position + 1
       /\ UNCHANGED <<slots, input, curLen, logits, events>>
    \/ /\ o.op = "prepare"
       /\ input' = [input EXCEPT ![o.graph] = o.toks]
       /\ position' = o.at
       /\ curLen' = [curLen EXCEPT ![o.graph] = o.at + Len(o.toks)]
       /\ UNCHANGED <<slots, logits, events>>
    \/ /\ o.op = "static"
       /\ Static(o.graph)
       /\ UNCHANGED <<position, input, curLen, logits, events>>
    \/ /\ o.op = "replay"
       /\ Static(o.graph)
       /\ logits' = ReplayedLogits(o.graph)
       /\ UNCHANGED <<position, input, curLen, events>>
    \/ /\ o.op = "clone"
       /\ UNCHANGED device
    \/ /\ o.op = "record"
       /\ events' = events \cup {o.event}
       /\ UNCHANGED <<slots, position, input, curLen, logits>>
    \/ /\ o.op = "wait"
       /\ o.event \in events
       /\ UNCHANGED device

MainStep ==
    /\ main # <<>>
    /\ Run(Head(main))
    /\ main' = Tail(main)
    /\ UNCHANGED <<host, side>>

SideStep ==
    /\ side # <<>>
    /\ Run(Head(side))
    /\ side' = Tail(side)
    /\ UNCHANGED <<host, main>>

-----------------------------------------------------------------------------
Inputs == UNION {[1 .. n -> Token] : n \in 1 .. MaxRows}

Next ==
    \/ \E p \in Prompts : PrefillCall(p)
    \/ \E t \in Token : DecodeStepCall(t) \/ DecodeStepStatic(t) \/ DecodeStepGraph(t)
    \/ \E toks \in Inputs : VerifyGammaGraph(toks)
    \/ \E to \in 0 .. MaxSeq : RollbackCall(to)
    \/ CloneCall
    \/ FinishCapture
    \/ MainStep
    \/ SideStep

Spec == Init /\ [][Next]_vars

-----------------------------------------------------------------------------
(* Properties *)

\* A caller that copies its row before the next graph call copies what the
\* eager call would have returned, however late the device gets to the copy.
ClonesWhatEagerReturns ==
    main # <<>> /\ Head(main).op = "clone" => logits[Head(main).graph] = Head(main).want

\* Once the device is idle, its cache and cursor are those of the eager
\* executor: stale slots above the cursor included.
SettledLikeEager ==
    main = <<>> /\ side = <<>> /\ capturing = NoGraph =>
        pos = eager.pos /\ position = eager.dev /\ slots = eager.kv

\* The warm-up forwards of a capture write no slot but those of the call that
\* captures: what was committed before is safe from the second stream.
WarmUpHarmless ==
    [][SideStep => \A s \in 0 .. pos - 1 : slots'[s] = slots[s]]_vars
=============================================================================
