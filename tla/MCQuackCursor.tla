--------------------------- MODULE MCQuackCursor ---------------------------
(***************************************************************************)
(* Instances of QuackCursor for TLC: results of up to three batches, with  *)
(* hollow chunks and an empty batch first, last and in the middle.         *)
(***************************************************************************)
EXTENDS QuackCursor

CONSTANTS r1, r2

SomeResults ==
  { [cut |-> <<1>>, hollow |-> {1}],           \* DDL: one chunk, no rows
    [cut |-> <<2, 3, 3>>, hollow |-> {1, 3}],  \* hollow ones, empty last
    [cut |-> <<0, 2, 3>>, hollow |-> {2}],     \* nothing with PREPARE
    [cut |-> <<1, 1, 2>>, hollow |-> {}] }     \* an empty FETCH, and more
============================================================================
