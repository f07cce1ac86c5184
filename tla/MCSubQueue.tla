------------------------------ MODULE MCSubQueue ------------------------------
(***************************************************************************)
(* Model checking of SubQueue: consumers that race for a few elements.     *)
(***************************************************************************)
EXTENDS SubQueue, TLC

(* Consumers run the same code. *)
Symmetry == Permutations(Consumers)

===============================================================================
