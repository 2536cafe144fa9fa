SPECIFICATION FairSpec
CONSTANTS
  Rows = 3
  Cols = 2
  Parts = 2
  LineLength = 2
  ErrorLength = 3
  MaxDepth = 2
  MaxEvents = 3
INVARIANTS CursorOnScreen ErrorLegible
PROPERTY ReportsEnd
