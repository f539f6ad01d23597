SPECIFICATION TerminalSpec
CONSTANTS
  Rows = 2
  Cols = 4
  LongRows = 4
  PromptLen = 1
  MaxRow = 4
  Strokes <- PlainStrokes
INVARIANTS
  DisplayKept
  LineShown
PROPERTIES
  ImplementsLineEditor
