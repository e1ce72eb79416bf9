SPECIFICATION HFairSpec
CONSTANTS
  Users = {o, a, b}
  Owner = o
  o = o
  a = a
  b = b
  Requests = {r1, r2}
  r1 = r1
  r2 = r2
  NoUser = NoUser
  NoRequest = NoRequest
  Ops <- ShareForwardUnlink
  Watched <- CancelEvents
  SerialUsers = FALSE
  FaultsAllowed = FALSE
PROPERTIES
  RequestsEnd
  CanceledAreTold
