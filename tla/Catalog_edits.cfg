SPECIFICATION FairSpec
CONSTANTS
  Requests = {r1, r2, r3}
  r1 = r1
  r2 = r2
  r3 = r3
  Entries = {g1, g2, g3, s, b1, b2, c1, c2}
  g1 = g1
  g2 = g2
  g3 = g3
  s = s
  b1 = b1
  b2 = b2
  c1 = c1
  c2 = c2
  Names = {one, One, two, three}
  one = one
  One = One
  two = two
  three = three
  KeyOf <- MCKeyOf
  Times = {t1}
  t1 = t1
  NoRow = NoRow
  Whole = Whole
  Scenarios <- MCScenarios
CHECK_DEADLOCK FALSE
INVARIANTS
  NoCycleUnlessRaced
  TypeOK
  SubgroupsOfBlocksExist
PROPERTIES
  Answered
  ResolvedAsNamed
  NothingLostForNothing
