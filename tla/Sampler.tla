------------------------------- MODULE Sampler -------------------------------
(***************************************************************************)
(* The accept / reject test and the resampling of speculative decoding     *)
(* (speculative/sampler.py), in exact arithmetic: a row of probabilities   *)
(* is a row of shares of Unit, and rng.random() is one of Grid evenly      *)
(* spaced values from 0 on.                                                *)
(***************************************************************************)
EXTENDS Naturals, Sequences, FiniteSets, FiniteSetsExt

CONSTANTS Unit,          \* a row of probabilities sums to it
          Grid,          \* rng.random() is k / Grid, k \in 0 .. Grid - 1
          Draws,         \* the k that can come
          Cases          \* [p, q]: gamma + 1 rows each, of shares of Unit

Mass(w) == MapThenSumSet(LAMBDA t : w[t], DOMAIN w)
Cdf(w, t) == MapThenSumSet(LAMBDA s : w[s], {s \in DOMAIN w : s <= t})

\* What softmax makes of v logits.
Rows(v) == {w \in [0 .. v - 1 -> 0 .. Unit] : Mass(w) = Unit}

\* Every threshold p / q and every cumulative probability falls on an even value
\* of Grid, so that the odd ones count exactly.  rng.random() = 0.0, one value in
\* 2^53, is left out: 0.0 <= cdf holds of a first token of no probability.
ASSUME SamplerAssumption ==
    /\ Unit \in Nat \ {0} /\ Grid \in Nat \ {0}
    /\ \A m \in 1 .. Unit : \E k \in 1 .. Grid : 2 * m * k = Grid
    /\ Draws \subseteq 1 .. Grid - 1
    /\ \A c \in Cases :
           LET v == Cardinality(DOMAIN c.p[1])
           IN  /\ v \in Nat /\ c.p \in Seq(Rows(v)) /\ c.q \in Seq(Rows(v))
               /\ Len(c.p) = Len(c.q) /\ Len(c.p) > 1

VARIABLES case, drafts, result

samplerVars == <<case, drafts, result>>

Gamma == Len(case.p) - 1
Vocab == DOMAIN case.p[1]

NoResult == [n |-> 0, bonus |-> -1]

-----------------------------------------------------------------------------
(* sampler.py *)

\* Mutant: the ratio upside down.
RejectsInverse(c, i, x, r) == c.q[i][x] = 0 \/ r * c.p[i][x] > c.q[i][x] * Grid

\* q_i <= 1e-30, or r_i > p_i / q_i.
Rejects(c, i, x, r) == c.q[i][x] = 0 \/ r * c.q[i][x] > c.p[i][x] * Grid

\* Mutant: the rejection is forgotten.
AdjustedDistributionPlain(c, n, rejected) == c.p[n + 1]

\* max(0, p - q).
Residual(p, q) == [t \in DOMAIN p |-> IF p[t] > q[t] THEN p[t] - q[t] ELSE 0]

AdjustedDistribution(c, n, rejected) ==
    LET rest == Residual(c.p[n + 1], c.q[n + 1])
    IN  IF rejected /\ Mass(rest) > 0 THEN rest ELSE c.p[n + 1]

\* The first token whose cumulative probability reaches u.
SampleFromProbs(w, u) ==
    CHOOSE t \in DOMAIN w :
        /\ u * Mass(w) <= Cdf(w, t) * Grid
        /\ \A s \in DOMAIN w : s < t => u * Mass(w) > Cdf(w, s) * Grid

NumAccepted(c, d, rs) ==
    LET rejected == {i \in 1 .. Len(d) : Rejects(c, i, d[i], rs[i])}
    IN  IF rejected = {} THEN Len(d) ELSE Min(rejected) - 1

\* speculative_acceptance with the random numbers it draws: one for each test,
\* the last for the bonus.
Acceptance(c, d, rs, u) ==
    LET n == NumAccepted(c, d, rs)
    IN  [n |-> n, bonus |-> SampleFromProbs(AdjustedDistribution(c, n, n < Len(d)), u)]

-----------------------------------------------------------------------------
(* One iteration *)

\* How often drafts d come, drawn from the rows of q.
DraftWeight(c, d) == FoldSet(LAMBDA i, w : w * c.q[i][d[i]], 1, DOMAIN d)

SamplerInit ==
    /\ case \in Cases
    /\ drafts \in [1 .. Gamma -> Vocab]
    /\ DraftWeight(case, drafts) > 0
    /\ result = NoResult

SpeculativeAcceptance ==
    /\ result = NoResult
    /\ \E rs \in [1 .. Gamma -> Draws], u \in Draws :
           result' = Acceptance(case, drafts, rs, u)
    /\ UNCHANGED <<case, drafts>>

SamplerNext == SpeculativeAcceptance

SamplerSpec == SamplerInit /\ [][SamplerNext]_samplerVars

-----------------------------------------------------------------------------
(* Properties *)

Emitted(d, res) == Append(SubSeq(d, 1, res.n), res.bonus)

\* No token the target gives no probability to is ever emitted, accepted or
\* resampled (docs/speculative_decoding.md:36-41, 50: a draft passes with
\* probability p / q, the last token is drawn from p').
NoImpossibleToken ==
    result # NoResult =>
        LET text == Emitted(drafts, result)
        IN  \A i \in DOMAIN text : case.p[i][text[i]] > 0

\* Values of rng.random() that fall on no threshold.
Between == {k \in 0 .. Grid - 1 : k % 2 = 1}

\* What every draft becomes with all the random numbers there are.
DrawnDrafts == {d \in [1 .. Gamma -> Vocab] : DraftWeight(case, d) > 0}

Texts == {<<d, dr, Emitted(d, Acceptance(case, d, dr, dr[Gamma + 1]))>> :
             d \in DrawnDrafts, dr \in [1 .. Gamma + 1 -> Between]}

\* The texts of drafts d that begin with x, all of it accepted, and go on with t.
GoingOn(texts, d, x, t) ==
    {y \in texts : /\ y[1] = d /\ SubSeq(d, 1, Len(x)) = x
                   /\ Len(y[3]) > Len(x) /\ y[3][Len(x) + 1] = t}

\* How often a text does.
Count(texts, x, t) ==
    MapThenSumSet(LAMBDA d : DraftWeight(case, d) * Cardinality(GoingOn(texts, d, x, t)), DrawnDrafts)

\* Whatever has been accepted, the next token is distributed exactly as the
\* target's own row says (docs/speculative_decoding.md:15: "Both $M_p$ and $M_q$
\* must use the *same* probability standardization"): speculation changes the
\* speed of the target, never what it says.
Lossless ==
    result = NoResult =>
        LET texts == Texts
        IN  \A j \in 0 .. Gamma :
            LET counts == [t \in Vocab |-> Count(texts, SubSeq(drafts, 1, j), t)]
            IN  \A t \in Vocab : counts[t] * Unit = case.p[j + 1][t] * Mass(counts)
=============================================================================
