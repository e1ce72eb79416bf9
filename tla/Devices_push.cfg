SPECIFICATION FairSpec
CONSTANTS
  Requests = {r1, r2, r3}
  r1 = r1
  r2 = r2
  r3 = r3
  Users = {ana, luis}
  ana = ana
  luis = luis
  Tokens = {phone, tablet}
  phone = phone
  tablet = tablet
  Lifetimes = {7}
  MaxTime = 7
  Scenarios <- MCScenarios
  NoToken = NoToken
CHECK_DEADLOCK FALSE
INVARIANTS
  OneOwnerUnlessRaced
  AccessTokensValid
PROPERTIES
  EveryDeviceIsTried
