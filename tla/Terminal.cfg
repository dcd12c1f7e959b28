CONSTANTS
  Texts <- MCTexts
  Ascii = {"a", "b"}
  Wide = {"W"}
  Pens = {"plain", "tint"}
  Counts = {1, 2}
  ModeLists <- MCModeLists
  Sizes <- MCSizes
  FirstSize <- MCFirstSize
  HistoryLimit = 2
  MaxMarks = 2
  Ops = {"text", "marks", "move", "lines", "position", "erase", "edit", "margins", "modes", "pen", "save", "prompt", "reset", "resize"}
  MaxOps = 4
SPECIFICATION Spec
INVARIANTS ScreenIsWellFormed RunsPrintAsCharacters ResizeKeepsContents KeptRowsAreRewrapped PrimaryComesBack
CHECK_DEADLOCK FALSE
