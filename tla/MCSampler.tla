----------------------------- MODULE MCSampler -----------------------------
(***************************************************************************)
(* Small instances of Sampler: every pair of rows over three tokens with   *)
(* one draft, and every two pairs over two tokens with two drafts.  Grid   *)
(* puts every threshold p / q and every cumulative probability on an even  *)
(* value, so that the odd ones count exactly.                              *)
(***************************************************************************)
EXTENDS Sampler

Last(v) == [t \in 0 .. v - 1 |-> IF t = v - 1 THEN Unit - 1 ELSE IF t = 0 THEN 1 ELSE 0]

MCCases ==
    {[p |-> <<a, Last(3)>>, q |-> <<b, Last(3)>>] : a, b \in Rows(3)} \cup
    {[p |-> <<a, b, Last(2)>>, q |-> <<c, d, Last(2)>>] : a, b, c, d \in Rows(2)}

Positive == 1 .. Grid - 1
=============================================================================
