SPECIFICATION AccountsSpec
CONSTANTS
  admin = admin
  u1 = u1
  p0 = p0
  p1 = p1
  r1 = r1
  r2 = r2
  Users = {admin, u1}
  Admin = admin
  Passwords = {p0, p1}
  DefaultPassword = p0
  Requests = {r1, r2}
  MaxSecret = 2
SYMMETRY Interchangeable
INVARIANTS
  AccountsTypeOK
  EnabledIsConfirmed
  InitAdminFindsNameFree
  TokensAreCurrent
