SPECIFICATION FairSpec
CONSTANTS
  Vectors = {2, 3, 8, 18, 21, 32}
  HandlerFaults = {8}
  MaxDepth = 4
  MaxEvents = 5
PROPERTY NMIOnItsStack
