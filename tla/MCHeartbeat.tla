---------------------------- MODULE MCHeartbeat ----------------------------
(***************************************************************************)
(* Instances of the heartbeat for TLC: three pools a, b and c, the fewest  *)
(* among which weights below 50% can be divided, with their weights set,   *)
(* and in one of them a fourth, d, that can be removed and added.  Every   *)
(* specification leaves out the calls its question is not about.           *)
(***************************************************************************)
EXTENDS HeartbeatProperties

CONSTANTS a, b, c, d

MCPools    == <<a, b, c>>
Weights    == <<4000, 3000, 3000>>
\* Effectively two pools: the third one is too small to be given anything.
TwoWeights == <<4999, 4999, 2>>
NewWeights == <<2, 4999, 4999>>
MCWeights  == {TwoWeights, NewWeights}
OneWeights == {TwoWeights}
NoWeights  == {}

WeightedPools(weights) ==
  [i \in 1..3 |-> [NewPool(MCPools[i]) EXCEPT !.weight_basis_points = weights[i]]]
MCInit == InitWith(WeightedPools(Weights))

Delayed == \E x \in Amounts : DepositAndStake(x, 0) \/ Unstake(x) \/ WithdrawUnstaked(x)
Retrieve == \E i \in DOMAIN staking_pools : RetrieveFundsFromAPool(i)
Rewards  == \E i \in DOMAIN staking_pools : DistributeRewards(i)
\* A pool that never had anything is not asked for a correction.
Syncs    == \E i \in DOMAIN staking_pools :
              TotalBalance(staking_pools[i]) > 0 /\ SyncUnstakedBalance(i)
Rebalances ==
  \/ DoRebalanceUnstake
  \/ \E i \in DOMAIN staking_pools : ForceRebalanceUnstake(i) \/ RebalanceUnstakeSp(i)
Heartbeat == DistributeStaking \/ DistributeUnstaking \/ Retrieve
Reweight  == \E weights \in WeightLists : SetStakingPools(weights)

\* The runtime executes every promise.
RuntimeFair == WF_vars(\E p \in promises : PoolExecutes(p)) /\ WF_vars(Callbacks)

\* Delayed unstaking, from the deposit to the withdrawal.
DelayedNext == Delayed \/ Heartbeat \/ EndOfEpochClearing \/ PoolSteps \/ Callbacks
DelayedSpec == MCInit /\ [][DelayedNext]_vars

\* The weights change and stake is moved between the pools, and new code may
\* be deployed at any moment: calls to several pools are in flight together.
RebalanceNext == DelayedNext \/ Rebalances \/ Reweight \/ Migrate \/ RefundReopens
RebalanceSpec ==
  InitWith(WeightedPools(TwoWeights)) /\ [][RebalanceNext]_vars /\ RuntimeFair

\* Rewards and corrections of the records, with pools that round and keep the
\* order of their calls.
World ==
  \/ \E id \in PoolIds, r \in RewardAmounts : PoolReward(id, r)
  \/ NewEpoch
InOrderSteps == \E p \in promises : InOrder(p) /\ (PoolExecutes(p) \/ Callback(p))
RoundingNext == Delayed \/ Heartbeat \/ Rewards \/ Syncs \/ World \/ InOrderSteps
RoundingSpec == InitWith(WeightedPools(TwoWeights)) /\ [][RoundingNext]_vars

(***************************************************************************)
(* The same, with a careful operator: locks are released and new code is   *)
(* deployed between calls, and d, the first of the list and without a      *)
(* weight, is removed and added again, so that the other pools move.       *)
(***************************************************************************)
AtRest ==
  \/ SetBusy(FALSE)
  \/ \E i \in DOMAIN staking_pools : SpBusy(i, FALSE)
  \/ Migrate
CarefulRoundingNext ==
  \/ RoundingNext
  \/ InFlight = {} /\ AtRest
  \/ promises = {} /\ PoolListCalls
CarefulRoundingSpec ==
  /\ InitWith(<<NewPool(d)>> \o WeightedPools(TwoWeights))
  /\ [][CarefulRoundingNext]_vars

\* The liquidity pool, manual stakes, rewards, accounts that are opened and
\* closed, and the sweep.  The sweep waits for the calls in flight and stops when
\* there are too many accounts: MCClaims shows what happens when it does not.
Liquidity ==
  \E x \in Amounts :
     \/ \E v \in {0, x} : DepositAndStake(x, v)
     \/ NslpAddLiquidity(x) \/ PayFromLiquidityPool(x) \/ StakeFromNslp(x)
     \/ Unstake(x) \/ WithdrawUnstaked(x)
ManualStakes == \E i \in DOMAIN staking_pools, x \in Amounts : ManualStake(i, x)
MoneyNext ==
  \/ Liquidity \/ ManualStakes \/ DistributeUnstaking \/ Retrieve \/ Rewards
  \/ StorageDeposit \/ StorageUnregister
  \/ PoolSteps \/ Callbacks
  \/ InFlight = {} /\ StorageDeposits <= SWEEP_MARGIN /\ TransferExtraBalance
MoneySpec ==
  InitWith(WeightedPools(TwoWeights)) /\ [][MoneyNext /\ AccountsPaidFor]_vars

(***************************************************************************)
(* Users unstake in epoch 0 and withdraw later, as their claims have to    *)
(* wait; the bot that calls the heartbeat is done with an epoch before the *)
(* next one begins.                                                        *)
(***************************************************************************)
BotDone ==
  /\ promises = {}
  /\ ~ENABLED <<DistributeUnstaking>>_vars
  /\ ~ENABLED <<EndOfEpochClearing>>_vars
  /\ ~ENABLED <<Retrieve>>_vars
ServiceNext ==
  \/ epoch < 2 /\ \E x \in Amounts : DepositAndStake(x, 0) \/ Unstake(x)
  \/ epoch > 1 /\ \E x \in Amounts : WithdrawUnstaked(x)
  \/ PauseStaking
  \/ Heartbeat \/ EndOfEpochClearing
  \/ BotDone /\ NewEpoch
  \/ (\E p \in promises : PoolExecutes(p)) \/ Callbacks
ServiceSpec ==
  /\ MCInit /\ [][ServiceNext]_vars /\ RuntimeFair
  /\ SF_vars(DistributeUnstaking) /\ SF_vars(EndOfEpochClearing) /\ SF_vars(Retrieve)
  /\ SF_vars(BotDone /\ NewEpoch)
=============================================================================
