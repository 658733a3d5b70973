-------------------------- MODULE MCFlashAttention --------------------------
(***************************************************************************)
(* A small instance of FlashAttention: two warps of two rows, tiles of two *)
(* keys, so that a text of up to seven keys takes two blocks of rows and   *)
(* four tiles, the last of each only partly filled.  Queries may be the    *)
(* whole text, as prefill makes them, or its tail.                         *)
(***************************************************************************)
EXTENDS FlashAttention

MCScore(shape, r, k) ==
    CASE shape = "rising" -> 2 * k + r
      [] shape = "falling" -> 3 - k - r
      [] OTHER -> (k * k + r) % 3

MCCalls == {c \in [len : 1 .. MaxSeq, rows : 1 .. MaxSeq,
                   shape : {"rising", "falling", "mixed"}] : c.rows <= c.len}
=============================================================================
