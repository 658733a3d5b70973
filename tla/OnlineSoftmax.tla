---------------------------- MODULE OnlineSoftmax ----------------------------
(***************************************************************************)
(* The arithmetic of the attention kernels, exactly.  A row's running sum  *)
(* of exp(s_k - m) * v_k is kept as the exponent of each key's term, so    *)
(* that a key that is missing, counted twice or scaled to the wrong        *)
(* maximum shows.  Rounding is left out.                                   *)
(***************************************************************************)
EXTENDS Integers

CONSTANTS MaxSeq,      \* slots of the KV cache
          MaxScore     \* no score q . k * scale is larger, up or down

ASSUME SoftmaxAssumption == MaxSeq \in Nat /\ MaxScore \in Nat

Keys == 0 .. MaxSeq - 1

\* -INFINITY is below every score and every difference of two: exp of it is no
\* term at all.
NegInf == -(2 * MaxScore + 1)

\* What no kernel may have computed.
Junk == 2 * MaxScore + 1

Finite == -MaxScore .. MaxScore

NoTerms == [k \in Keys |-> NegInf]

Larger(a, b) == IF a > b THEN a ELSE b

\* exp(old - new), the factor that moves a sum from one maximum to another;
\* zero for a sum that has no term yet.
Factor(old, new) == IF old = NegInf THEN NegInf ELSE old - new

Scale(sum, factor) ==
    [k \in Keys |-> IF sum[k] = NegInf \/ factor = NegInf THEN NegInf
                    ELSE sum[k] + factor]

Plus(a, b) ==
    [k \in Keys |-> IF a[k] = NegInf THEN b[k]
                    ELSE IF b[k] = NegInf THEN a[k] ELSE Junk]

\* sum / denominator is the softmax of score over the keys below n, whatever
\* maximum both are relative to.
IsSoftmax(sum, denominator, score(_), n) ==
    /\ sum = denominator
    /\ \A k \in Keys : (sum[k] # NegInf) <=> (k < n)
    /\ \A k \in 0 .. n - 1 : sum[k] - score(k) = sum[0] - score(0)

CeilDiv(a, b) == (a + b - 1) \div b
=============================================================================
