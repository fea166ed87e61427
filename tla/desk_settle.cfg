SPECIFICATION FairSpec
CONSTANTS
  a = a
  b = b
  k1 = k1
  k2 = k2
  conv = conv
  quick = quick
  n1 = n1
  n2 = n2
  h1 = h1
  h2 = h2
  exe = exe
  NoOwner = NoOwner
  Users = {a, b}
  Underwriters = {k1}
  Modules = {conv, quick}
  QuickModules = {quick}
  Executors = {}
  RenModules = {conv}
  Nonces = {n1}
  Requests <- Colliding
  Signed <- CollidingByOne
  DepositIds = {h1, h2}
  DepositAmounts = {39}
  MintFee = 1
  Unit = 1000
  LockWord = 1000000
  Fees = {50}
  BaseFees = {1}
  TxGases = {2}
  BurnGases = {2}
  BurnAmounts = {}
  EarnAmounts = {}
  GasRefunds = {1}
  Slippages = {0}
  Drifts <- Losing
  MaxDrift = 1
  WantReserve = 5
  GasReserve = 3
  InitialVault = 90
  InitialEther = 3
  Capacity = 60
  ExecutorFunds = 0
  BlockTimeout <- Timeouts
  Genesis = 1000
  BlockSeconds = 1
  MaxBlock = 1
PROPERTIES
  SettledOnlyByRepay
  DepositSettled
CHECK_DEADLOCK FALSE
