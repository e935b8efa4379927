\* Proof and failed seeds of one block around the activation heights.
CONSTANTS
  MinSeeds = 10
  MaxSeeds = 20
  V3Height = 3
  SeedHeight = 4
  MaxHeight = 5
  MaxData = 4096
  MaxTrees = 20
SPECIFICATION Spec
CHECK_DEADLOCK FALSE
INVARIANTS
  OwnBlockPasses
  ProofBindsBlock
  RootCommitsToSeeds
  MarkedLeafIsProved
