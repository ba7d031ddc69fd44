CONSTANTS
  Delegators = {u, o}
  OWNER = o
  Deposits = {3}
  Requests = {2}
  Rewards = {4}
  Fees <- MCFees
  NUM_EPOCHS_TO_UNLOCK = 1
  STAKE_SHARE_PRICE_GUARANTEE_FUND = 3
  INITIAL_BALANCE = 6
  MAX_BALANCE = 16
  MAX_EPOCH = 2
  MAX_CONVERSIONS = 3
SPECIFICATION Spec
INVARIANTS
  TypeOK
  SharesAddUp
  FundCovers
  PingNeverPanics
  UnstakeAllLeavesNothing
  RefusesAsInHeartbeat
PROPERTIES
  PriceNeverFalls
  BalanceKept
  AsInHeartbeat
CHECK_DEADLOCK FALSE
