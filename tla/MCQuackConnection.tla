------------------------- MODULE MCQuackConnection -------------------------
\* Instances of QuackConnection for TLC: two or three effects.
EXTENDS QuackConnection

CONSTANTS w1, w2, w3

TwoWrites == {w1, w2}
ThreeWrites == {w1, w2, w3}
============================================================================
