SPECIFICATION FairSpec
CONSTANTS
  a = a
  b = b
  nl = nl
  question = question
  wide = wide
  Char = {a, nl, question}
  NewLine = nl
  Unknown = question
  Wide = {}
  Writers = {"host", "member"}
  Keys = {"type", "enter", "back", "delete"}
  MaxSelect = 1
  MaxEdits = 2
  TurnTaking = FALSE
  PromptUndo = FALSE
  StartText <- EmptyFileSent
  StartLoads <- LoadedByMember
  Faults = {"lose", "reorder"}
  MaxInFlight = 0
INVARIANTS TypeOK UndoFindsEdit
PROPERTY Settles
