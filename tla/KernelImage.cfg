SPECIFICATION FairImageSpec
CONSTANTS
  AddrSpace = 64
  PageSize = 4
  Tables <- MCTables
  Places <- MCPlaces
  Fills <- MCFills
  Entries = 2
  cr3 = 4
  FreeFrames <- MCFree
  FirmwareTables <- MCFirmwareTables
  Remains <- MCRemains
INVARIANTS LoadsInsideAllocation ImageFaithful RestAsBefore
PROPERTY MappingEnds
