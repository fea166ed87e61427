SPECIFICATION Spec
CONSTANTS
  a = a
  b = b
  k1 = k1
  k2 = k2
  conv = conv
  quick = quick
  n1 = n1
  n2 = n2
  h1 = h1
  h2 = h2
  exe = exe
  NoOwner = NoOwner
  Users = {a}
  Underwriters = {k1, k2}
  Modules = {conv}
  QuickModules = {}
  Executors = {exe}
  RenModules = {conv}
  Nonces = {n1}
  Requests <- TwoAmounts
  Signed <- TwoAmountsSigned
  DepositIds = {h1, h2}
  DepositAmounts = {40}
  MintFee = 1
  Unit = 1000
  LockWord = 1000000
  Fees = {50}
  BaseFees = {1}
  TxGases = {2}
  BurnGases = {9}
  BurnAmounts = {35}
  EarnAmounts = {}
  GasRefunds = {1}
  Slippages = {1}
  Drifts <- Losing
  MaxDrift = 1
  WantReserve = 5
  GasReserve = 3
  InitialVault = 200
  InitialEther = 4
  Capacity = 60
  ExecutorFunds = 5
  BlockTimeout <- NoTimeouts
  Genesis = 0
  BlockSeconds = 1
  MaxBlock = 0
INVARIANTS
  SheetMatchesLoans
  RepaidMatchesMints
PROPERTIES
  ServicesCostOnlyTheirTrades
  LoanIsFinal
SYMMETRY SymmetricIds
CHECK_DEADLOCK FALSE
