SPECIFICATION Spec
CONSTANTS
  u1 = u1
  u2 = u2
  u3 = u3
  p1 = p1
  p2 = p2
  p3 = p3
  NoUser = NoUser
  NoProgram = NoProgram
  User = {u1, u2}
  Program = {p1, p2}
  MaxRequests = 5
  TestAccount = NoUser
  Reinvite = TRUE
  Spaced = FALSE
  PromptServer = FALSE
  MayClose = TRUE
  Lossy = TRUE
  Owner <- OwnTwo
  Invitations <- Anybody
INVARIANT MutualConsent
CHECK_DEADLOCK FALSE
