-------------------------- MODULE MCConsumerRotation --------------------------
(* An instance of ConsumerRotation for TLC. *)
EXTENDS ConsumerRotation

CONSTANTS k1, k2, k3

MCTokens == {k1, k2, k3}

(* Three tokens alone; or a token and two consumers that call alike; or a  *)
(* token and one consumer that mixes its calls.                            *)
MCCasts ==
    { [tokens |-> MCTokens, consumers |-> {}, kinds |-> {}, elements |-> 0],
      [tokens |-> {k1}, consumers |-> {0, 1}, kinds |-> {"token"}, elements |-> 2],
      [tokens |-> {k1}, consumers |-> {0, 1}, kinds |-> {"scan", "walk"}, elements |-> 3],
      [tokens |-> {k1}, consumers |-> {0}, kinds |-> {"token", "bulk"}, elements |-> 3] }
===============================================================================
