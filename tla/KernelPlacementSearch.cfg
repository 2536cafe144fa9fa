SPECIFICATION FairSpec
CONSTANTS
  NumPages = 8
  PageSize = 4
  AddrSpace = 64
  KernelBase = 16
  KernelPages = 2
  Layouts <- MCWideLayouts
  Remains <- MCWideRemains
  FreedRead <- MCNoFreedRead
  FirmwareErrors = FALSE
  PoolGrows = FALSE
  MaxEvents = 0
INVARIANT ByPageStaysInRegion
PROPERTY FoundWhenAhead
