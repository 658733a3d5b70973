---------------------------- MODULE LockstepText ----------------------------
(***************************************************************************)
(* What the two ranks of speculative/mpi_coordinator.py do to their copies *)
(* of the text, without messages, drafts or caches: the target extends the *)
(* text by one round, the draft copies that round, and neither may start   *)
(* another before.                                                         *)
(***************************************************************************)
EXTENDS Integers, Sequences

CONSTANTS Jobs,          \* command lines: [prompt, steps, gamma]
          Support(_)     \* the tokens the target's distribution can produce

VARIABLES job, lead, copy, rounds    \* the target's text, the draft's, rounds made

vars == <<job, lead, copy, rounds>>

Init ==
    /\ job \in Jobs
    /\ lead = job.prompt
    /\ copy = job.prompt
    /\ rounds = 0

\* The target adds one to gamma + 1 tokens of its own, in step with the draft.
Lead ==
    /\ copy = lead
    /\ rounds < job.steps
    /\ rounds' = rounds + 1
    /\ Len(lead') \in Len(lead) + 1 .. Len(lead) + job.gamma + 1
    /\ SubSeq(lead', 1, Len(lead)) = lead
    /\ \A i \in Len(lead) + 1 .. Len(lead') : lead'[i] \in Support(SubSeq(lead', 1, i - 1))
    /\ UNCHANGED <<job, copy>>

Follow ==
    /\ copy # lead
    /\ copy' = lead
    /\ UNCHANGED <<job, lead, rounds>>

Next == Lead \/ Follow

Spec == Init /\ [][Next]_vars
=============================================================================
