------------------------------ MODULE MCZeSense ------------------------------
(***************************************************************************)
(* Small instances of ZeSense.  No property of it tells one address or one *)
(* client from another.                                                    *)
(***************************************************************************)
EXTENDS ZeSense, TLC

Symmetry == Permutations(Regs) \cup Permutations(Clients)
=============================================================================
