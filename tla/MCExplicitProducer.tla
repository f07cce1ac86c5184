-------------------------- MODULE MCExplicitProducer --------------------------
(***************************************************************************)
(* Model checking of ExplicitProducer.                                     *)
(***************************************************************************)
EXTENDS ExplicitProducer, TLC

(* Consumers run the same code and blocks are told apart only by identity. *)
Symmetry == Permutations(Consumers) \union Permutations(Blocks)
===============================================================================
