\* Script checks of a transaction with two XMSS inputs.
CONSTANTS
  SigBytes = 2500
  ChunkSize = 500
  MaxElement = 520
  MaxSigBytes = 4096
  Txs <- MCTxs
  MiningUses <- MCMiningUses
  Recorded0 <- MCRecorded0
SPECIFICATION Spec
CHECK_DEADLOCK FALSE
INVARIANTS
  VerifiesExactly
  ConnectedVerified
  LeavesRecorded
  NoLeafTwice
  SkippedScriptsAgree
