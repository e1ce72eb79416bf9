SPECIFICATION HSpec
CONSTANTS
  Requests = {r1, r2, r3}
  r1 = r1
  r2 = r2
  r3 = r3
  Codes = {c0}
  c0 = c0
  Passwords = {p1, p2}
  p1 = p1
  p2 = p2
  Temporary = Temporary
  Roles = {student, teacher, admin}
  student = student
  teacher = teacher
  admin = admin
  WebRoles = {admin}
  MaxTime = 2
  Scenarios <- MCScenarios
  NoRow = NoRow
  NoEntry = NoEntry
  NoToken = NoToken
  NoUser = NoUser
SYMMETRY Symmetry
CHECK_DEADLOCK FALSE
INVARIANTS
  TypeOK
  ThreeFailuresLock
  ResetAttemptsBounded
  OneChangePerCode
PROPERTIES
  PasswordChanges
  VerdictsAgeOut
