SPECIFICATION ForwardSpec
CONSTANTS
  c1 = c1
  c2 = c2
  Clients = {c1, c2}
  VaultNames = {"kv"}
  Groups = {"rg"}
  Objects = {"alice"}
  Retention = 1
  LRODelay = 1
  MaxNow = 2
  MaxBorn = 2
INVARIANT NameHeldOnce
