SPECIFICATION Spec
CONSTANTS
  Users = {o, a, b}
  Owner = o
  o = o
  a = a
  b = b
  Requests = {r1, r2}
  r1 = r1
  r2 = r2
  NoUser = NoUser
  NoRequest = NoRequest
  Ops <- ShareAnswerForward
  Watched <- NoEvents
  SerialUsers = TRUE
  FaultsAllowed = FALSE
SYMMETRY Symmetry
PROPERTIES
  ForwardSparesCopies
