SPECIFICATION RSpec
CONSTANTS
  Requests = {r1, r2, r3}
  r1 = r1
  r2 = r2
  r3 = r3
  Blocks <- MCBlocks
  Batches <- MCBatches
  MaxBatch = 2
  NoTeacher = NoTeacher
  Whole = Whole
  NoBlock = NoBlock
  NoId = NoId
  T1 = T1
  R1 = R1
  R2 = R2
  G1 = G1
  G2 = G2
  SubA = SubA
  SubB = SubB
  WholeGroup = Whole
SYMMETRY Symmetry
CHECK_DEADLOCK FALSE
INVARIANTS
  TypeOK
  CollisionsOnlyFromRaces
PROPERTIES
  OverwriteDeletesClashes
