SPECIFICATION FairSpec
CONSTANTS
  Scopes = {a, b}
  a = a
  b = b
  Changes <- MCChanges
  Pages <- MCPages
  MaxChanges = 2
  Capacity = 1
  NoValue = NoValue
  NoEntry = NoEntry
INVARIANTS
  TypeOK
  CacheIsCurrent
  ShownIsStored
PROPERTIES
  Settles
