SPECIFICATION FairSpec
CONSTANTS
  u1 = u1
  u2 = u2
  u3 = u3
  p1 = p1
  p2 = p2
  p3 = p3
  NoUser = NoUser
  NoProgram = NoProgram
  User = {u1, u2}
  Program = {p1, p2}
  MaxRequests = 4
  TestAccount = NoUser
  Reinvite = FALSE
  Spaced = TRUE
  PromptServer = TRUE
  MayClose = FALSE
  Lossy = FALSE
  Owner <- OwnTwo
  Invitations <- Pair
INVARIANTS TypeOK NoCrash OneHost
PROPERTY PairsUp
CHECK_DEADLOCK FALSE
