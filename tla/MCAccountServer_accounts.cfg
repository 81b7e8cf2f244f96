SPECIFICATION Spec
CONSTANTS
  u1 = u1
  u2 = u2
  m1 = m1
  m2 = m2
  a = a
  b = b
  p1 = p1
  p2 = p2
  Empty = Empty
  NoProgram = NoProgram
  User = {u1, u2}
  Password = {a, b}
  Mail = {m1, m2}
  Code = {k1}
  Program = {p1, p2}
  MaxRequests = 5
  FreshRecovery = TRUE
  ScriptFails = FALSE
  Account <- Literal
  Identity <- Typed
  Registered <- OneAccount
INVARIANTS TypeOK VerifiedAccounts ResetByHolder PasswordStands
CHECK_DEADLOCK FALSE
