-------------------------- MODULE MCQuackStatement --------------------------
(***************************************************************************)
(* Instances of QuackStatement for TLC: batches and streams of none, one   *)
(* and two rows, of every kind of type.                                    *)
(***************************************************************************)
EXTENDS QuackStatement

Shape(kind, type, cut, breaks) ==
  [kind |-> kind, type |-> type, cut |-> cut, breaks |-> breaks]

MixedShapes ==
  { Shape("batch", "plain", <<2>>, FALSE),
    Shape("batch", "bare", <<1>>, FALSE),
    Shape("stream", "plain", <<1, 1, 2>>, FALSE),
    Shape("stream", "plain", <<1>>, TRUE),
    Shape("stream", "nested", <<1>>, FALSE),
    Shape("stream", "plain", <<>>, FALSE) }
============================================================================
