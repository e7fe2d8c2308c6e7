----------------------------- MODULE MCLibrary ------------------------------
(* Library with two threads and three handles, whose names do not matter.  *)
EXTENDS Library, TLC
CONSTANTS u1, u2, h1, h2, h3
MCUsers == {u1, u2}
MCHandles == {h1, h2, h3}
Symmetry == Permutations(MCUsers) \cup Permutations(MCHandles)
=============================================================================
