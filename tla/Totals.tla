-------------------------------- MODULE Totals --------------------------------
(***************************************************************************)
(* The sum of a function into the naturals, over a finite domain.  It is   *)
(* the number of units the function counts, so that what it does when the  *)
(* function changes follows from facts about finite sets (a fold would     *)
(* need an induction, see TotalsProofs).                                   *)
(***************************************************************************)
EXTENDS Integers, FiniteSets

Units(f) == UNION {{x} \X (1..f[x]) : x \in DOMAIN f}

Total(f) == Cardinality(Units(f))
===============================================================================
