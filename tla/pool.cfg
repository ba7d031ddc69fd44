CONSTANTS
  Users = {u, t}
  Lockups = {}
  NSLP = n
  OPERATOR = o
  TREASURY = t
  DEVELOPERS = d
  Deposits = {4}
  Requests = {3}
  RewardAmounts = {3}
  Transfers = 1
  NUM_EPOCHS_TO_UNLOCK = 1
  Delays = {1}
  STORAGE_COST_YOCTOS = 1
  ONE_MILLI_NEAR = 1
  min_deposit_amount = 1
  nslp_liquidity_target = 2
  nslp_max_discount_basis_points = 6000
  nslp_min_discount_basis_points = 3000
  treasury_swap_cut_basis_points = 5000
  operator_swap_cut_basis_points = 0
  DEVELOPERS_SWAP_CUT_BASIS_POINTS = 0
  operator_rewards_fee_basis_points = 7000
  DEVELOPERS_REWARDS_FEE_BASIS_POINTS = 2500
  MAX_SUPPLY = 11
  MAX_EPOCH = 0
SPECIFICATION PoolSpec
INVARIANTS
  SumsMatch
  PriceAtLeastOne
PROPERTIES
  PriceNeverFalls
  PriceFrozenWhileBusy
  LiquidityKeepsValue
  LiquidityFair
  TotalsAsInHeartbeat
CHECK_DEADLOCK FALSE
