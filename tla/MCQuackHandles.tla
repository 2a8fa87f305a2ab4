--------------------------- MODULE MCQuackHandles ---------------------------
EXTENDS QuackHandles
============================================================================
