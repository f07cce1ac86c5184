-------------------------- MODULE MCImplicitProducer --------------------------
(***************************************************************************)
(* Model checking of ImplicitProducer.                                     *)
(***************************************************************************)
EXTENDS ImplicitProducer, TLC

(* Consumers run the same code and blocks are told apart only by identity. *)
Symmetry == Permutations(Consumers) \union Permutations(Blocks)
===============================================================================
