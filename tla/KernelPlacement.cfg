SPECIFICATION FairSpec
CONSTANTS
  NumPages = 5
  PageSize = 4
  AddrSpace = 32
  KernelBase = 8
  KernelPages = 2
  Layouts <- MCLayouts
  Remains <- MCRemains
  FreedRead <- MCFreedRead
  FirmwareErrors = TRUE
  PoolGrows = TRUE
  MaxEvents = 1
INVARIANTS TypeOK LoaderOwnsOneRun PlacedInOwnMemory KnownBadNotRetried BuffersReturned
PROPERTIES RegionSearchEnds ImplementsPlacement
