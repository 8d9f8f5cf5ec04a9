SPECIFICATION FairSpec
CONSTANTS
  Clients = {c1, c2}
  Resources = {v1}
  Ids = {i1, i2}
  LRODelay = 2
  Offsets <- MCOffsets
  Deltas <- MCDeltas
  MaxNow = 4
  MaxFrozen = 2
INVARIANTS TypeOK TerminalMeansSettled
PROPERTIES ImplementsLifecycle FrozenHolds PollersFinish
