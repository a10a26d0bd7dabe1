----------------------------- MODULE MCPairing -----------------------------
(* Pairing on a small instance: two accounts compete for children with one *)
(* code that can be drawn again and one link token.                        *)
EXTENDS Pairing, TLC

Symmetry == Permutations(Masters) \cup Permutations(Children) \cup Permutations(Calls)
=============================================================================
