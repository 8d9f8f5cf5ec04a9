SPECIFICATION FairSpec
CONSTANTS
  old = old
  new = new
  NoKey = NoKey
  Clients = {1, 2}
  NIssuers = 2
  Kids = {"k1", "k2"}
  Keys = {old, new}
  Docs <- MCDocs
  Tokens <- MCTokens
  MaxDocs = 2
  FaultCalls <- MCFaultCalls
  Subs = {"sub", "resourcegroups"}
  Groups = {"providers"}
  Names = {"kv", "providers"}
  Routers = {1}
INVARIANTS TypeOK AcceptedIsGenuine PublishedKeyFound CacheIsADocument RoutedRight
PROPERTIES EveryTokenAnswered RetriesGetThrough
