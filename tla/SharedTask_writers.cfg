SPECIFICATION Spec
CONSTANTS
  Users = {o, a}
  Owner = o
  o = o
  a = a
  Requests = {r1, r2}
  r1 = r1
  r2 = r2
  NoUser = NoUser
  NoRequest = NoRequest
  Ops <- Everything
  Watched <- CompletedEvents
  SerialUsers = FALSE
  FaultsAllowed = TRUE
SYMMETRY Symmetry
INVARIANTS
  CompletionConsistent
  ReminderOvershoot
