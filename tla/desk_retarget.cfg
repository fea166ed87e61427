SPECIFICATION Spec
CONSTANTS
  a = a
  b = b
  k1 = k1
  k2 = k2
  conv = conv
  quick = quick
  n1 = n1
  n2 = n2
  h1 = h1
  h2 = h2
  exe = exe
  NoOwner = NoOwner
  Users = {a}
  Underwriters = {k1, k2}
  Modules = {conv}
  QuickModules = {}
  Executors = {}
  RenModules = {conv}
  Nonces = {n1, n2}
  Requests <- TwoOfOneUser
  Signed <- Retargeted
  DepositIds = {h1, h2}
  DepositAmounts = {40}
  MintFee = 1
  Unit = 1000
  LockWord = 1000000
  Fees = {50}
  BaseFees = {1}
  TxGases = {2}
  BurnGases = {2}
  BurnAmounts = {}
  EarnAmounts = {0, 20}
  GasRefunds = {1}
  Slippages = {1}
  Drifts = {0}
  MaxDrift = 0
  WantReserve = 5
  GasReserve = 3
  InitialVault = 200
  InitialEther = 3
  Capacity = 60
  ExecutorFunds = 0
  BlockTimeout <- Timeouts
  Genesis = 0
  BlockSeconds = 1
  MaxBlock = 0
PROPERTIES
  FallbackOnlyWithoutLoan
CHECK_DEADLOCK FALSE
