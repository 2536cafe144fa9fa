SPECIFICATION Spec
CONSTANTS
  HorizontalResolution = 7
  VerticalResolution = 7
  PixelsPerScanLine = 8
  Cell = 2
  Glyphs = {a, b}
  Blank = blank
INVARIANTS ScreenIsText
PROPERTY ImplementsTextConsole
