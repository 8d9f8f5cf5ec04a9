SPECIFICATION Spec
CONSTANTS
  c1 = c1
  c2 = c2
  F2 = F2
  F4 = F4
  rg1 = rg1
  rg2 = rg2
  None = None
  Clients = {c1, c2}
  Names = {"cap"}
  Groups = {rg1, rg2}
  Skus = {F2, F4}
  LRODelay = 1
  MaxNow = 1
  MaxIds = 2
SYMMETRY MCSymmetry
INVARIANTS TypeOK RetiredStaysGone WritesKeepTheRest PollerReadsItsState HomeExplained
PROPERTIES ImplementsIdentity
