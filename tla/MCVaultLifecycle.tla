-------------------------- MODULE MCVaultLifecycle --------------------------
(* One vault name contended by two clients: long enough a clock for a vault  *)
(* to be deleted, lapse and be created again, and two vaults under one name. *)
EXTENDS VaultLifecycle, TLC

CONSTANTS c1, c2
MCSymmetry == Permutations({c1, c2})
===============================================================================
