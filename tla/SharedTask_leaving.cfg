SPECIFICATION HSpec
CONSTANTS
  Users = {o, a, b}
  Owner = o
  o = o
  a = a
  b = b
  Requests = {r1, r2}
  r1 = r1
  r2 = r2
  NoUser = NoUser
  NoRequest = NoRequest
  Ops <- ShareAnswerForwardUnlink
  Watched <- OrphanEvents
  SerialUsers = FALSE
  FaultsAllowed = TRUE
VIEW WithoutInviters
SYMMETRY Symmetry
INVARIANTS
  TypeOK
  CancelsOnlyPending
  UnlinksSerialized
  NoOrphanInvitation
  AloneIsTold
PROPERTIES
  OnlySelfUnlinks
  RefinesMembership
