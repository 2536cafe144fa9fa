SPECIFICATION Spec
CONSTANTS
  NumPages = 3
  KernelPages = 2
  Layouts <- MCLayouts
  Files <- MCFiles
INVARIANT MapHandedOver
