CONSTANTS
  a = a
  b = b
  c = c
  d = d
  PoolIds = {a, b, c, d}
  WeightLists <- MCWeights
  Amounts = {3}
  RewardAmounts = {}
  MayFail = {"total_balance"}
  DRIFT = 1
  NUM_EPOCHS_TO_UNLOCK = 1
  MIN_STAKE_AMOUNT = 1
  TEN_NEAR = 2
  ORDERS_DUST = 0
  UNSTAKED_YOCTOS_TO_IGNORE = 0
  MIN_STAKE_UNSTAKE_AMOUNT_MOVEMENT = 1
  ONE_NEAR = 1
  SWEEP_MARGIN = 0
  MIN_BALANCE_FOR_STORAGE = 0
  INITIAL_BALANCE = 0
  CAP_BP = 5000
  MAX_SUPPLY = 3
  MAX_EPOCH = 1
  MAX_SYNCS = 1
  STORAGE_COST_YOCTOS = 1
  MAX_ACCOUNTS = 0
SPECIFICATION CarefulRoundingSpec
INVARIANTS
  NearBacksBooks
  LockDiscipline
  TypeOK
  ClaimsCovered
  Solvency
  ReserveWithinClaims
PROPERTIES
  LockedRecordsFrozen
  VaultSpec
CHECK_DEADLOCK FALSE
