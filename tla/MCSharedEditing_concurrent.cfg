SPECIFICATION Spec
CONSTANTS
  a = a
  b = b
  nl = nl
  question = question
  wide = wide
  Char = {a, b, nl, question}
  NewLine = nl
  Unknown = question
  Wide = {}
  Writers = {"host", "member"}
  Keys = {"type"}
  MaxSelect = 1
  MaxEdits = 2
  TurnTaking = FALSE
  PromptUndo = TRUE
  StartText <- NothingTyped
  StartLoads <- NothingLoaded
  Faults = {}
  MaxInFlight = 0
INVARIANT Converged
