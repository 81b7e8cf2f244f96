SPECIFICATION FairSpec
CONSTANTS
  a = a
  b = b
  nl = nl
  question = question
  wide = wide
  Char = {a, nl, question}
  NewLine = nl
  Unknown = question
  Wide = {}
  Writers = {"host", "member"}
  Keys = {"type", "enter", "back"}
  MaxSelect = 1
  MaxEdits = 4
  TurnTaking = TRUE
  PromptUndo = TRUE
  StartText <- NothingTyped
  StartLoads <- NothingLoaded
  Faults = {}
  MaxInFlight = 0
INVARIANTS NoCrash IntentPreserved TokensBalanced SameText
PROPERTY Settles
