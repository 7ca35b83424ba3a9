---------------------------- MODULE MCLiveOrders ----------------------------
(* LiveOrders for TLC: the processes are model values and interchangeable.  *)
EXTENDS LiveOrders, TLC

Twins == Permutations(Bots)
=============================================================================
