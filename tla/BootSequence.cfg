SPECIFICATION FairSpec
CONSTANTS
  NumPages = 3
  KernelPages = 2
  Layouts <- MCLayouts
  Files <- MCFiles
INVARIANTS HandedPointersLive NoStaleMapHandedOver KernelLoadedBeforeJump
PROPERTY HandshakeEnds
