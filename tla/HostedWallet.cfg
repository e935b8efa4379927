CONSTANTS
  u1 = u1
  u2 = u2
  r1 = r1
  r2 = r2
  Users <- MCUsers
  Requests <- MCRequests
  Amounts = {2, 5}
  Reward = 4
  Deposits = {3}
  Fee = 1
  MaxAddresses = 3
  MaxCoins = 2
  MaxFaults = 1
SPECIFICATION Spec
SYMMETRY Symmetry
INVARIANTS
  OwnCoinsOnly
  ReportsWhatItPaid
  DrainedAddressReplaced
PROPERTY ImplementsOneTimeLeaves
CHECK_DEADLOCK FALSE
