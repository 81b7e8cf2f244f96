SPECIFICATION Spec
CONSTANTS
  a = a
  b = b
  nl = nl
  question = question
  wide = wide
  Char = {a, nl, question}
  NewLine = nl
  Unknown = question
  Wide = {}
  Writers = {"host"}
  Keys = {"type", "back"}
  MaxSelect = 2
  MaxEdits = 3
  TurnTaking = TRUE
  PromptUndo = TRUE
  StartText <- NothingTyped
  StartLoads <- NothingLoaded
  Faults = {}
  MaxInFlight = 0
INVARIANT NoCrash
