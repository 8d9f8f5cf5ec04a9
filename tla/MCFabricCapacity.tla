-------------------------- MODULE MCFabricCapacity --------------------------
(* One capacity name contended by two clients over two groups and two sizes; *)
(* the clock is long enough for one operation to end while another runs.     *)
EXTENDS FabricCapacity, TLC

CONSTANTS c1, c2, F2, F4, rg1, rg2
MCSymmetry ==
  Permutations({c1, c2}) \cup Permutations({F2, F4}) \cup Permutations({rg1, rg2})
===============================================================================
