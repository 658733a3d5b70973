------------------------- MODULE MCDecodeAttention -------------------------
(***************************************************************************)
(* A small instance of DecodeAttention: two channels, tiles of two rows,   *)
(* three threads, a cache of seven slots in up to three splits, one of which *)
(* may lie past the end of the text.  The shapes make the running maximum  *)
(* grow, shrink and jump.                                                  *)
(***************************************************************************)
EXTENDS DecodeAttention

MCScore(shape, r, k) ==
    CASE shape = "rising" -> 2 * k + r
      [] shape = "falling" -> 3 - k - r
      [] OTHER -> (k * k + r) % 3

MCCalls == {c \in [len : 1 .. MaxSeq, rows : 1 .. 2, dev : BOOLEAN,
                   shape : {"rising", "falling", "mixed"}] : c.rows <= c.len}
=============================================================================
