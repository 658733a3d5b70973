-------------------------- MODULE MCGraphExecutor --------------------------
(***************************************************************************)
(* A small instance of GraphExecutor: one prompt that fits and one that    *)
(* does not, verifies of one and two rows, enough calls to capture two     *)
(* graphs and come back to the first.                                      *)
(***************************************************************************)
EXTENDS GraphExecutor

MCPrompts == {<<1>>, <<1, 2, 1, 1, 2>>}
=============================================================================
