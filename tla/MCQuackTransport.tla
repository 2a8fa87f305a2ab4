------------------------- MODULE MCQuackTransport -------------------------
\* Instances of QuackTransport for TLC: a host with up to three addresses.
EXTENDS QuackTransport

CONSTANTS a1, a2, a3

ThreeAddresses == {a1, a2, a3}
============================================================================
