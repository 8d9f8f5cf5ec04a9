-------------------------- MODULE MCAsyncOperations --------------------------
(* Two clients, one resource both may operate on, two operation ids, and a   *)
(* delay long enough to advance, freeze or restart within.                   *)
EXTENDS AsyncOperations

MCOffsets == {0, 2}
MCDeltas == {1, 3}
===============================================================================
