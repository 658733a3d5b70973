-------------------------- MODULE MCMpiSpecDecode --------------------------
(***************************************************************************)
(* A small instance of MpiSpecDecode: three tokens, a target whose choices *)
(* depend on the whole context, and caches some command lines overflow.    *)
(***************************************************************************)
EXTENDS MpiSpecDecode

Mix(ctx) ==
    IF ctx = <<>> THEN 0
    ELSE 2 * Len(ctx) + ctx[1] + ctx[Len(ctx)]
         + (IF Len(ctx) > 1 THEN 2 * ctx[Len(ctx) - 1] ELSE 0)

\* One or two tokens, never all three: refusals and divergences happen.
MCSupport(ctx) == {1 + (Mix(ctx) % 3), 1 + ((Mix(ctx) + 1 + (Len(ctx) % 2)) % 3)}

\* Runs that fit, runs that overflow a cache somewhere, no step at all.
MCJobs == [prompt : {<<1>>, <<2, 1>>, <<1, 2, 1, 1, 2, 2, 1>>}, steps : {0, 2, 3}, gamma : {1, 2}]

\* Every send waits for its receive, or none has to.
MCEagerSets == {{}, Messages}
=============================================================================
