-------------------------- MODULE MCPrologixAdapter -------------------------
(* PrologixAdapter with two instruments, which are interchangeable.        *)
EXTENDS PrologixAdapter, TLC
CONSTANTS g1, g2
MCInstruments == {g1, g2}
Symmetry == Permutations(MCInstruments)
=============================================================================
