SPECIFICATION Spec
CONSTANTS
  NumHandlesInHandleBuffer = 2
  NumDevPathHandles = 2
  NumName2Handles = 2
INVARIANTS NamesFromOneDriver WallNotHeard InterfacesClosed
PROPERTY PciNamesStand
