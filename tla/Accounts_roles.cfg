SPECIFICATION HSpec
CONSTANTS
  Requests = {r1, r2, r3}
  r1 = r1
  r2 = r2
  r3 = r3
  Emails = {ana, luis, eva}
  ana = ana
  luis = luis
  eva = eva
  Names = {n1, n2, n3}
  n1 = n1
  n2 = n2
  n3 = n3
  Domains = {uni, ext}
  uni = uni
  ext = ext
  DomainOf <- MCDomainOf
  Listings = {t0}
  t0 = t0
  Codes = {c0}
  c0 = c0
  Scenarios <- MCScenarios
  NoEmail = NoEmail
  NoName = NoName
  NoAccount = NoAccount
  NoRow = NoRow
SYMMETRY Symmetry
CHECK_DEADLOCK FALSE
INVARIANTS
  TypeOK
  RolesFollowCatalog
  AttemptsBounded
  OnePendingUnlessRaced
  OneYearUnlessRaced
PROPERTIES
  AdminRolesAreFixed
  RemovalSparesActive
