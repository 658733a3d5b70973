---------------------------- MODULE MCSpecDecode ----------------------------
(***************************************************************************)
(* A small instance of SpecDecode: three tokens, of which the draft can    *)
(* embed two, and a target whose choices depend on the whole context, so   *)
(* that a row computed from a wrong context gives a wrong token.           *)
(***************************************************************************)
EXTENDS SpecDecode

\* A checksum that tells contexts of different lengths, ends and starts apart.
Mix(ctx) ==
    IF ctx = <<>> THEN 0
    ELSE 2 * Len(ctx) + ctx[1] + ctx[Len(ctx)]
         + (IF Len(ctx) > 1 THEN 2 * ctx[Len(ctx) - 1] ELSE 0)

MCArgmax(ctx) == 1 + (Mix(ctx) % 3)

\* One or two tokens, never all three: refusals and divergences happen.
MCSupport(ctx) == {1 + (Mix(ctx) % 3), 1 + ((Mix(ctx) + 1 + (Len(ctx) % 2)) % 3)}

Requests(prompts, counts, gammas) ==
    [prompt : prompts, n : counts, gamma : gammas, greedy : BOOLEAN]

LongPrompt == <<1, 2, 1, 1, 2, 2>>

\* Two requests in a row on caches the first one left dirty, the target's
\* cache of 6 slots the smaller one.
DirtyJobs ==
    Requests({<<1>>, <<2, 1>>}, {0, 2, 4}, {1, 2, 3})
        \cup Requests({Append(LongPrompt, 1)}, {3}, {1})

\* Requests that do not all fit, the draft's cache of 5 slots the smaller one.
TightJobs ==
    Requests({<<1>>, <<2, 1>>, LongPrompt, Append(LongPrompt, 1)}, {2, 3, 4}, {1, 2, 3})
=============================================================================
