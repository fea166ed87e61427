SPECIFICATION FairSpec
CONSTANTS
  c1 = c1
  c2 = c2
  u1 = u1
  u2 = u2
  alice = alice
  bob = bob
  Unset = Unset
  Contracts = {c1, c2}
  Deployments <- DeploymentsInstance
  Chains = {1}
  Underwriters = {u1, u2}
  Accounts = {alice, bob}
  User = alice
  MaxNonce = 1
  Burns = {"b1"}
  Owners = {"o1"}
  Amounts = {1, 2}
  MaxBurnTxs = 2
  MaxUtxos = 3
  MaxLost = 1
  Nothing = Nothing
  Listening = Listening
  Failed = Failed
  Inputs = {0, 1999, 5000}
  Answers = {1000, 3999}
  GasPrices = {0, 1, 2}
  GasCost = 3
  keeperReward = 5
  OneEther = 1000
  Thousandth = 100
  Unanswered = Unanswered
  Addresses = {1, 2, 3}
  Earnings = {0, 10}
  MaxEntries = 3
  MaxProof = 2
  Stored <- StoredInstance
  Setters = {"s1", "s2"}
  Absent = Absent
  MockKeepers = {"k1"}
  MockRequests <- MockInstance
  MaxPublications = 2
INVARIANTS
  SignatureSurvives
  SameGateway
  RepayMatchesLoan
  RemoteNotEarly
  RoutesConnect
  FeesAddUp
  AirdropExact
  StoredIsKept
  RepayFollowsLoan
PROPERTIES
  BurnHeard
  RequestGetsThrough
CHECK_DEADLOCK FALSE
