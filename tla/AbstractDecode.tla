--------------------------- MODULE AbstractDecode ---------------------------
(***************************************************************************)
(* What a caller of speculative_generate (runtime/speculative/             *)
(* spec_decode.py) is promised, without drafts, caches or cursors: the     *)
(* text starts as the prompt and only ever grows, each new token is one    *)
(* the target itself could have produced after the text before it, and     *)
(* the call returns exactly the number of tokens asked for or raises.      *)
(***************************************************************************)
EXTENDS Integers, Sequences

CONSTANTS Jobs,          \* requests: [prompt, n, gamma, greedy]
          Argmax(_),     \* the target's greedy token after a context
          Support(_)     \* the tokens its distribution can produce there

VARIABLES phase,         \* "idle", "running", "done" or "raised"
          job,           \* the request being served
          text           \* prompt and tokens generated so far

vars == <<phase, job, text>>

\* The tokens the target can produce after ctx, under the request's rule.
Allowed(greedy, ctx) == IF greedy THEN {Argmax(ctx)} ELSE Support(ctx)

Sanctioned(j, txt) ==
    \A i \in Len(j.prompt) + 1 .. Len(txt) :
        txt[i] \in Allowed(j.greedy, SubSeq(txt, 1, i - 1))

NumNew(j, txt) == Len(txt) - Len(j.prompt)

Init ==
    /\ phase = "idle"
    /\ job \in Jobs
    /\ text = job.prompt

Start(j) ==
    /\ phase # "running"
    /\ phase' = "running"
    /\ job' = j
    /\ text' = j.prompt

\* A prompt no cache can hold.
Refuse(j) ==
    /\ phase # "running"
    /\ phase' = "raised"
    /\ job' = j
    /\ text' = j.prompt

\* One round: at least one sanctioned token, at most gamma + 1 of them.
Emit ==
    /\ phase = "running"
    /\ NumNew(job, text) < job.n
    /\ \E k \in 1 .. job.gamma + 1 :
        /\ Len(text') = Len(text) + k
        /\ SubSeq(text', 1, Len(text)) = text
        /\ Sanctioned(job, text')
    /\ UNCHANGED <<phase, job>>

Return ==
    /\ phase = "running"
    /\ NumNew(job, text) >= job.n
    /\ phase' = "done"
    /\ UNCHANGED <<job, text>>

\* A cache too small for the request, or a token the draft cannot embed.
Raise ==
    /\ phase = "running"
    /\ phase' = "raised"
    /\ UNCHANGED <<job, text>>

Next ==
    \/ \E j \in Jobs : Start(j) \/ Refuse(j)
    \/ Emit
    \/ Return
    \/ Raise

Spec == Init /\ [][Next]_vars
=============================================================================
