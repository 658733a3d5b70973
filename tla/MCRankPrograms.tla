--------------------------- MODULE MCRankPrograms ---------------------------
(* Small command lines for RankPrograms. *)
EXTENDS RankPrograms

MCToken == {0, 1}

Base == [prog |-> "main", size |-> 2, gamma |-> 2, steps |-> 2, warmup |-> 1, trials |-> 2,
         jobs |-> 1, nNew |-> 3, maxSeq |-> 7, prefix |-> <<0>>, requireGpu |-> FALSE,
         devices |-> 2, sameGpu |-> FALSE, eager |-> {}]

Eager == {{}, {"ids", "result"}, Messages}

MainLaunches ==
    {[Base EXCEPT !.eager = e, !.steps = s, !.gamma = g] :
        e \in Eager, s \in 0 .. 2, g \in {1, 2}}
    \cup {[Base EXCEPT !.requireGpu = TRUE, !.devices = d, !.sameGpu = s, !.gamma = 1] :
        d \in 0 .. 2, s \in BOOLEAN}
    \cup {[Base EXCEPT !.gamma = g] : g \in {0, 8}} \cup {[Base EXCEPT !.size = 3]}

BenchmarkLaunches ==
    {[Base EXCEPT !.prog = "benchmark", !.eager = e, !.warmup = w, !.trials = t,
                  !.devices = d, !.sameGpu = s] :
        e \in Eager, w \in 0 .. 1, t \in 0 .. 2, d \in 1 .. 2, s \in BOOLEAN}

WorkerLaunches ==
    {[Base EXCEPT !.prog = "worker", !.eager = e, !.trials = t, !.jobs = j, !.maxSeq = m,
                  !.gamma = g, !.devices = d] :
        e \in Eager, t \in 0 .. 1, j \in 1 .. 2, m \in {0, 4, 5, 6, 7}, g \in 1 .. 3,
        d \in 0 .. 2}

MCLaunches == MainLaunches \cup BenchmarkLaunches \cup WorkerLaunches
=============================================================================
