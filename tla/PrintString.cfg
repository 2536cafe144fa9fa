SPECIFICATION FairSpec
CONSTANTS
  ShortBits = 4
  IntBits = 5
  LongBits = 7
  Inputs <- MCInputs
INVARIANTS NumbersFaithful DoublesWhole ArgumentsInStep
PROPERTY PrintEnds
