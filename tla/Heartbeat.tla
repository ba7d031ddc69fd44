----------------------------- MODULE Heartbeat -----------------------------
(***************************************************************************)
(* The heartbeat of the Metapool contract: the totals kept by the          *)
(* contract, the list of staking pools, and the asynchronous calls by      *)
(* which NEAR is staked in, unstaked from and retrieved from those pools   *)
(* (distribute.rs, the pool selection and clearing of internal.rs, the     *)
(* pool list of owner.rs, and what the user calls of lib.rs, account.rs    *)
(* and empty_nep_145.rs do to the totals and to the contract's NEAR).      *)
(*                                                                         *)
(* A call of the contract runs to completion or panics; a panic rolls the  *)
(* call back, so it is no step at all.  What one call starts and another   *)
(* one ends is a promise: a record in "promises" that is first executed by *)
(* the pool (stage "sent" to "ok" or "failed") and then delivered to the   *)
(* callback, in any order with every other call.  A callback that panics   *)
(* consumes its promise and leaves the state, locks included, unchanged.   *)
(* Pools are indexed from 1 here, from 0 in the code.                      *)
(***************************************************************************)
EXTENDS PoolAccounts, FiniteSets, SequencesExt

CONSTANTS
  PoolIds,                \* accounts of the staking pools
  WeightLists,            \* weight lists the operator may set
  Amounts,                \* amounts passed to user and operator calls
  RewardAmounts,          \* staking rewards a pool may credit
  MayFail,                \* kinds of call that may fail for a reason outside the model
  DRIFT,                  \* largest rounding difference of a pool, 0 for an exact pool
  NUM_EPOCHS_TO_UNLOCK,   \* types.rs, 4
  MIN_STAKE_AMOUNT,       \* types.rs, 1 NEAR
  TEN_NEAR,               \* types.rs, smallest unstaked balance worth re-staking
  ORDERS_DUST,            \* 10 * TGAS, orders up to it are not unstaked
  UNSTAKED_YOCTOS_TO_IGNORE,
  MIN_STAKE_UNSTAKE_AMOUNT_MOVEMENT,
  ONE_NEAR,
  SWEEP_MARGIN,           \* 10 * NEAR_CENT, kept back when extra balance is swept
  MIN_BALANCE_FOR_STORAGE,
  STORAGE_COST_YOCTOS,    \* empty_nep_145.rs, what a new account deposits
  INITIAL_BALANCE,        \* NEAR the contract account holds when it is deployed
  CAP_BP,                 \* unstake_for_rebalance_cap_bp
  MAX_SUPPLY,             \* bound: NEAR owed to users, and NEAR in one pool
  MAX_ACCOUNTS,           \* bound: accounts registered
  MAX_EPOCH,              \* bound: epochs
  MAX_SYNCS               \* bound: sync_unstaked_balance calls in flight

CallKinds == {"deposit_and_stake", "stake", "unstake", "withdraw_all",
              "total_balance", "unstaked_balance"}
Views     == {"total_balance", "unstaked_balance"}
Stages    == {"sent", "ok", "failed"}

ASSUME SetsAssumption ==
  /\ WeightLists \subseteq Seq(Nat)
  /\ Amounts \subseteq Nat \ {0}
  /\ RewardAmounts \subseteq Nat \ {0}
  /\ MayFail \subseteq CallKinds

ASSUME ThresholdsAssumption ==
  /\ DRIFT \in Nat
  /\ NUM_EPOCHS_TO_UNLOCK \in Nat \ {0}
  /\ MIN_STAKE_AMOUNT \in Nat \ {0}
  /\ TEN_NEAR \in Nat \ {0}
  /\ ORDERS_DUST \in Nat
  /\ UNSTAKED_YOCTOS_TO_IGNORE \in Nat
  /\ MIN_STAKE_UNSTAKE_AMOUNT_MOVEMENT \in Nat \ {0}
  /\ ONE_NEAR \in Nat \ {0}
  /\ SWEEP_MARGIN \in 0..ONE_NEAR
  /\ MIN_BALANCE_FOR_STORAGE \in Nat
  /\ STORAGE_COST_YOCTOS \in Nat
  /\ INITIAL_BALANCE \in Nat
  /\ CAP_BP \in Nat
  /\ MAX_SUPPLY \in Nat
  /\ MAX_ACCOUNTS \in Nat
  /\ MAX_EPOCH \in Nat
  /\ MAX_SYNCS \in Nat

VARIABLES
  contract_busy,                 \* the contract-wide lock
  staking_paused,
  contract_account_balance,      \* what the contract thinks its account holds
  retrieved_for_unstake_claims,  \* NEAR in the contract reserved for claims
  total_available,               \* sum of the accounts' available NEAR
  epoch_stake_orders,            \* NEAR in the contract waiting to be staked
  epoch_unstake_orders,          \* NEAR users asked to unstake, still staked
  total_for_staking,             \* value of all the stNEAR
  total_actually_staked,
  total_unstaked_and_waiting,
  total_unstake_claims,          \* NEAR owed to users who unstaked
  registered,                    \* number of accounts that somebody can close
  unstaked_for_rebalance,
  staking_pools,                 \* the list of pools the contract stakes in
  promises,                      \* calls to the pools and their callbacks
  epoch,                         \* env::epoch_height()
  env_balance,                   \* env::account_balance()
  pool_account                   \* the contract's account inside each pool

orderVars  == <<epoch_stake_orders, epoch_unstake_orders,
                retrieved_for_unstake_claims, unstaked_for_rebalance>>
userVars   == <<total_available, total_for_staking, total_unstake_claims, registered>>
stakeVars  == <<total_actually_staked, total_unstaked_and_waiting>>
moneyVars  == <<contract_account_balance, env_balance>>
listVars   == <<contract_busy, staking_paused, staking_pools, promises>>
worldVars  == <<epoch, pool_account>>
vars == <<orderVars, userVars, stakeVars, moneyVars, listVars, worldVars>>

-----------------------------------------------------------------------------
(* Staking pools and calls.                                                *)

PoolInfo ==
  [account_id : PoolIds, weight_basis_points : Nat, busy_lock : BOOLEAN,
   staked : Nat, unstaked : Nat, unstk_req_epoch_height : Nat,
   last_asked_rewards_epoch_height : Nat]

\* amount is the amount staked, or the part of an unstake that fulfils orders;
\* rebalance is the part of an unstake that does not; answer is a view's result.
Promises ==
  [kind : CallKinds, inx : Nat, pool : PoolIds, amount : Nat, rebalance : Nat,
   stage : Stages, answer : Nat]

NewPool(id) ==
  [account_id |-> id, weight_basis_points |-> 0, busy_lock |-> FALSE,
   staked |-> 0, unstaked |-> 0, unstk_req_epoch_height |-> 0,
   last_asked_rewards_epoch_height |-> 0]

is_empty(sp) ==
  ~sp.busy_lock /\ sp.weight_basis_points = 0 /\ sp.staked = 0 /\ sp.unstaked = 0

\* Mutant: ends one epoch early.
MutWaitEnded(sp) == epoch + 1 >= sp.unstk_req_epoch_height + NUM_EPOCHS_TO_UNLOCK

\* An unstake requested in a later epoch than this one counts as ended too.
wait_period_ended(sp) ==
  \/ sp.unstk_req_epoch_height > epoch
  \/ epoch >= sp.unstk_req_epoch_height + NUM_EPOCHS_TO_UNLOCK

Call(kind, i, amount, rebalance) ==
  [kind |-> kind, inx |-> i, pool |-> staking_pools[i].account_id,
   amount |-> amount, rebalance |-> rebalance, stage |-> "sent", answer |-> 0]

\* Two equal calls are never in flight together: a bound of the model.
Send(call) == call \notin promises /\ promises' = promises \cup {call}

\* Lock the contract and pool i, and schedule the call.
LockAndSend(call) ==
  /\ contract_busy' = TRUE
  /\ staking_pools' = [staking_pools EXCEPT ![call.inx].busy_lock = TRUE]
  /\ Send(call)
  /\ UNCHANGED staking_paused

\* A callback ends: its promise is consumed, both locks are released and the
\* pool's record becomes sp.
Unlocked(sp) == [sp EXCEPT !.busy_lock = FALSE]
MutSettle(p, sp) ==                    \* Mutant: the contract stays busy.
  /\ staking_pools' = [staking_pools EXCEPT ![p.inx] = Unlocked(sp)]
  /\ promises' = promises \ {p}
  /\ UNCHANGED <<contract_busy, staking_paused>>
MutSettleFirst(p, sp) ==               \* Mutant: the wrong index.
  /\ contract_busy' = FALSE
  /\ staking_pools' = [staking_pools EXCEPT ![1] = Unlocked(sp)]
  /\ promises' = promises \ {p}
  /\ UNCHANGED staking_paused
Settle(p, sp) ==
  /\ contract_busy' = FALSE
  /\ staking_pools' = [staking_pools EXCEPT ![p.inx] = Unlocked(sp)]
  /\ promises' = promises \ {p}
  /\ UNCHANGED staking_paused

-----------------------------------------------------------------------------
(* Orders, claims and the reserve.                                         *)

\* Mutant: the comparison with the claims is forgotten.
MutExtraOf(amount) == retrieved_for_unstake_claims + amount - total_unstake_claims

\* The part of "amount", newly retrieved, that exceeds what the claims need.
ExtraOf(amount) == Monus(retrieved_for_unstake_claims + amount, total_unstake_claims)

\* Mutants: the extra also stays in the reserve; the rebalance is not completed.
MutConsidered(amount, stake, unstake) ==
  [stake |-> stake + ExtraOf(amount), unstake |-> unstake,
   reserve |-> retrieved_for_unstake_claims + amount,
   rebal |-> Monus(unstaked_for_rebalance, ExtraOf(amount))]
MutConsideredOpen(amount, stake, unstake) ==
  [stake |-> stake + ExtraOf(amount), unstake |-> unstake,
   reserve |-> retrieved_for_unstake_claims + amount - ExtraOf(amount),
   rebal |-> unstaked_for_rebalance]

(***************************************************************************)
(* consider_retrieved_for_unstake_claims(amount), as the orders after it:  *)
(* the reserve takes the amount up to the claims and the rest goes back to *)
(* the stake orders, completing a rebalance.                               *)
(***************************************************************************)
Considered(amount, stake, unstake) ==
  [stake   |-> stake + ExtraOf(amount),
   unstake |-> unstake,
   reserve |-> retrieved_for_unstake_claims + amount - ExtraOf(amount),
   rebal   |-> Monus(unstaked_for_rebalance, ExtraOf(amount))]

CurrentOrders ==
  [stake |-> epoch_stake_orders, unstake |-> epoch_unstake_orders,
   reserve |-> retrieved_for_unstake_claims, rebal |-> unstaked_for_rebalance]

(***************************************************************************)
(* The orders after internal_end_of_epoch_clearing: opposite orders cancel *)
(* and the NEAR of the cancelled stake orders is kept for the claims.      *)
(***************************************************************************)
ToKeep == Lesser(epoch_stake_orders, epoch_unstake_orders)
MutCleared ==                          \* Mutant: the NEAR is not kept.
  [CurrentOrders EXCEPT !.stake = @ - ToKeep, !.unstake = @ - ToKeep]
MutClearedHalf ==                      \* Mutant: the unstake orders are not cleared.
  IF ToKeep = 0 THEN CurrentOrders
  ELSE Considered(ToKeep, epoch_stake_orders - ToKeep, epoch_unstake_orders)
Cleared ==
  IF ToKeep = 0 THEN CurrentOrders
  ELSE Considered(ToKeep, epoch_stake_orders - ToKeep, epoch_unstake_orders - ToKeep)

SetOrders(o) ==
  /\ epoch_stake_orders' = o.stake
  /\ epoch_unstake_orders' = o.unstake
  /\ retrieved_for_unstake_claims' = o.reserve
  /\ unstaked_for_rebalance' = o.rebal

-----------------------------------------------------------------------------
(* Accounts are registered and closed (empty_nep_145.rs).  Whoever opens   *)
(* one deposits STORAGE_COST_YOCTOS, which stay in the contract's account  *)
(* but outside contract_account_balance, and are paid back to whoever      *)
(* closes it.                                                              *)

StorageDeposits == registered * STORAGE_COST_YOCTOS

\* n accounts are registered.
Opened(n) == registered + n <= MAX_ACCOUNTS /\ registered' = registered + n

\* accounts.get(..).unwrap_or_default(), saved: up to n accounts are registered
\* for which nothing is paid.
OpensUnpaid(n) == \E k \in 0..n : Opened(k)

\* internal_deposit_attached_near_into, a new account's deposit on top of a.
Deposited(a) ==
  /\ contract_account_balance' = contract_account_balance + a
  /\ \E k \in 0..1 :
        Opened(k) /\ env_balance' = env_balance + a + k * STORAGE_COST_YOCTOS

storageStepUnchanged ==
  UNCHANGED <<orderVars, total_available, total_for_staking, total_unstake_claims,
              stakeVars, contract_account_balance, listVars, worldVars>>

StorageDeposit ==
  /\ Opened(1)
  /\ env_balance' = env_balance + STORAGE_COST_YOCTOS
  /\ storageStepUnchanged

\* An account without balances: which one, and how many there are, is left out.
StorageUnregister ==
  /\ registered > 0 /\ env_balance >= STORAGE_COST_YOCTOS
  /\ registered' = registered - 1
  /\ env_balance' = env_balance - STORAGE_COST_YOCTOS
  /\ storageStepUnchanged

\* int_ft_resolve_transfer refunds a sender who has closed the account.
RefundReopens ==
  /\ Opened(1)
  /\ UNCHANGED env_balance
  /\ storageStepUnchanged

StorageCalls == StorageDeposit \/ StorageUnregister \/ RefundReopens

-----------------------------------------------------------------------------
(* What the user calls do to the totals.  Which account holds what, and at *)
(* which share price, is left out: any amount the totals allow is tried.   *)

\* NEAR the contract owes: the bound on what the model lets users bring in.
OwedToUsers == total_for_staking + total_available + total_unstake_claims
Funded(a) == OwedToUsers + a <= MAX_SUPPLY

(***************************************************************************)
(* deposit_and_stake: the deposit is minted into stNEAR and ordered to be  *)
(* staked; then the liquidity pool swaps v of it for stNEAR it holds,      *)
(* which is burned (nslp_try_internal_clearing).                           *)
(***************************************************************************)
DepositAndStake(a, v) ==
  /\ ~contract_busy /\ Funded(a) /\ v <= a
  /\ Deposited(a)
  /\ total_for_staking' = total_for_staking + a - v
  /\ epoch_stake_orders' = epoch_stake_orders + a - v
  /\ total_available' = total_available + v
  /\ UNCHANGED <<epoch_unstake_orders, retrieved_for_unstake_claims,
                 unstaked_for_rebalance, total_unstake_claims,
                 stakeVars, listVars, worldVars>>

\* unstake, unstake_all, unstake_from_lockup_shares: stNEAR worth a is burned.
Unstake(a) ==
  /\ ~contract_busy /\ a <= total_for_staking
  /\ epoch_unstake_orders' = epoch_unstake_orders + a
  /\ total_unstake_claims' = total_unstake_claims + a
  /\ total_for_staking' = total_for_staking - a
  /\ UNCHANGED <<epoch_stake_orders, retrieved_for_unstake_claims,
                 unstaked_for_rebalance, total_available, registered,
                 stakeVars, moneyVars, listVars, worldVars>>

\* Mutant: the transfer is not booked.
MutNativeTransfer(a) ==
  /\ contract_account_balance >= a /\ env_balance >= a
  /\ env_balance' = env_balance - a
  /\ UNCHANGED contract_account_balance

\* native_transfer of NEAR that has left the books; it needs the NEAR to be there.
NativeTransfer(a) ==
  /\ contract_account_balance >= a /\ env_balance >= a
  /\ contract_account_balance' = contract_account_balance - a
  /\ env_balance' = env_balance - a

(***************************************************************************)
(* withdraw, withdraw_all, withdraw_unstaked, withdraw_to_lockup: a claim  *)
(* is paid out of the reserve, through the available balance.  These calls *)
(* do not look at contract_busy.                                           *)
(***************************************************************************)
WithdrawUnstaked(a) ==
  /\ a <= retrieved_for_unstake_claims /\ a <= total_unstake_claims
  /\ retrieved_for_unstake_claims' = retrieved_for_unstake_claims - a
  /\ total_unstake_claims' = total_unstake_claims - a
  /\ NativeTransfer(a)
  /\ UNCHANGED <<epoch_stake_orders, epoch_unstake_orders, unstaked_for_rebalance,
                 total_available, total_for_staking, registered,
                 stakeVars, listVars, worldVars>>

\* nslp_add_liquidity: the deposit becomes available NEAR of the liquidity pool.
NslpAddLiquidity(a) ==
  /\ ~contract_busy /\ Funded(a)
  /\ Deposited(a)
  /\ total_available' = total_available + a
  /\ UNCHANGED <<orderVars, total_for_staking, total_unstake_claims,
                 stakeVars, listVars, worldVars>>

\* liquid_unstake and nslp_remove_liquidity: the liquidity pool pays a out;
\* the stNEAR that changes hands is worth the same before and after.  The three
\* accounts that share the fee of a sale are opened for it if need be.
PayFromLiquidityPool(a) ==
  /\ ~contract_busy /\ a <= total_available
  /\ total_available' = total_available - a
  /\ NativeTransfer(a)
  /\ OpensUnpaid(3)
  /\ UNCHANGED <<orderVars, total_for_staking, total_unstake_claims,
                 stakeVars, listVars, worldVars>>

\* stake_from_nslp: the operator stakes NEAR of the liquidity pool.
StakeFromNslp(a) ==
  /\ ~contract_busy /\ a <= total_available
  /\ total_available' = total_available - a
  /\ total_for_staking' = total_for_staking + a
  /\ epoch_stake_orders' = epoch_stake_orders + a
  /\ UNCHANGED <<epoch_unstake_orders, retrieved_for_unstake_claims,
                 unstaked_for_rebalance, total_unstake_claims, registered,
                 stakeVars, moneyVars, listVars, worldVars>>

UserCalls ==
  \E a \in Amounts :
     \/ \E v \in 0..a : DepositAndStake(a, v)
     \/ Unstake(a)
     \/ WithdrawUnstaked(a)
     \/ NslpAddLiquidity(a)
     \/ PayFromLiquidityPool(a)
     \/ StakeFromNslp(a)

-----------------------------------------------------------------------------
(* distribute_staking and manual_stake.                                    *)

ShouldHave(sp) == apply_pct(sp.weight_basis_points, total_for_staking)

\* What pool i lacks, as get_staking_pool_requiring_stake sees it.
Requires(i) ==
  LET sp == staking_pools[i] IN
  IF ~sp.busy_lock /\ sp.weight_basis_points > 0
  THEN Monus(ShouldHave(sp), sp.staked) ELSE 0

\* The first pool with the largest value: the choice of both search loops,
\* which fall back to the first pool when every value is 0.
FirstLargest(value(_), i) ==
  \A j \in DOMAIN staking_pools :
     value(j) <= value(i) /\ (j < i => value(j) < value(i))

MutStakeLaunched(o, amount) == o       \* Mutant: the order is kept until the pool answers.
\* The orders once a stake has been sent: reduced before the pool has answered.
StakeLaunched(o, amount) == [o EXCEPT !.stake = @ - amount]

(***************************************************************************)
(* launch_direct_stake: with a sizable unstaked balance the pool re-stakes *)
(* part of it, otherwise NEAR of the contract is attached to the call.     *)
(* The stake is counted before the pool has answered.                      *)
(***************************************************************************)
LaunchDirectStake(i, requested, o) ==
  LET sp       == staking_pools[i]
      restakes == sp.unstaked >= TEN_NEAR
      amount   == IF restakes THEN Lesser(requested, sp.unstaked) ELSE requested
  IN  /\ requested > 0
      /\ IF restakes
         THEN /\ LockAndSend(Call("stake", i, amount, 0))
              /\ UNCHANGED env_balance
         ELSE /\ env_balance >= MIN_BALANCE_FOR_STORAGE + amount
              /\ LockAndSend(Call("deposit_and_stake", i, amount, 0))
              /\ env_balance' = env_balance - amount
      /\ total_actually_staked' = total_actually_staked + amount
      /\ SetOrders(StakeLaunched(o, amount))
      /\ UNCHANGED <<userVars, total_unstaked_and_waiting,
                     contract_account_balance, worldVars>>

\* The call ends after the clearing, with nothing sent.
OnlyClearing ==
  /\ SetOrders(Cleared)
  /\ UNCHANGED <<userVars, stakeVars, moneyVars, listVars, worldVars>>

ToStake == Lesser(Cleared.stake, total_for_staking - total_actually_staked)
DistributeStaking ==
  /\ ~contract_busy
  /\ total_for_staking > total_actually_staked
  /\ \/ /\ ToStake < MIN_STAKE_AMOUNT \/ \A i \in DOMAIN staking_pools : Requires(i) = 0
        /\ OnlyClearing
     \/ /\ ToStake >= MIN_STAKE_AMOUNT
        /\ \E i \in DOMAIN staking_pools :
              /\ FirstLargest(Requires, i)
              /\ LaunchDirectStake(i, Lesser(ToStake, Requires(i)), Cleared)

ManualStake(i, amount) ==
  /\ ~contract_busy
  /\ epoch_stake_orders > MIN_STAKE_AMOUNT
  /\ amount <= epoch_stake_orders
  /\ ~staking_pools[i].busy_lock
  /\ LaunchDirectStake(i, amount, CurrentOrders)

-----------------------------------------------------------------------------
(* distribute_unstaking and the rebalancing calls.                         *)

\* perform_unstake: the unstake is counted before the pool has answered.
PerformUnstake(i, from_orders, from_rebalance, o) ==
  LET total == from_orders + from_rebalance
      sp    == staking_pools[i]
  IN  /\ total > 0
      /\ total_actually_staked >= total
      /\ ~sp.busy_lock
      /\ sp.staked >= total
      /\ LockAndSend(Call("unstake", i, from_orders, from_rebalance))
      /\ total_actually_staked' = total_actually_staked - total
      /\ SetOrders([o EXCEPT !.unstake = @ - from_orders])
      /\ UNCHANGED <<userVars, total_unstaked_and_waiting, moneyVars, worldVars>>

\* What pool i has too much, if an unstake there does not extend a wait.
UnstakesFreely(sp) ==
  \/ sp.unstaked <= UNSTAKED_YOCTOS_TO_IGNORE
  \/ sp.unstk_req_epoch_height = epoch
Surplus(i) ==
  LET sp == staking_pools[i] IN
  IF ~sp.busy_lock /\ sp.staked > 0 /\ UnstakesFreely(sp)
  THEN Monus(sp.staked, ShouldHave(sp)) ELSE 0

MaxUnstakeForRebalance == apply_pct(CAP_BP, total_for_staking)

\* The part of the orders pool i is asked for: all of them when it has no
\* surplus, which is also the case of the fall back to the first pool.
FromOrders(i) ==
  IF Surplus(i) > 0 THEN Lesser(Surplus(i), Cleared.unstake) ELSE Cleared.unstake
\* When the pool has more than the orders, some is unstaked for rebalance too.
FromRebalance(i) ==
  LET left == Monus(MaxUnstakeForRebalance, Cleared.rebal) IN
  IF Surplus(i) > Cleared.unstake /\ left > ONE_NEAR
  THEN Lesser(left, Surplus(i) - Cleared.unstake) ELSE 0

DistributeUnstaking ==
  /\ ~contract_busy
  /\ \/ /\ Cleared.unstake <= ORDERS_DUST
        /\ OnlyClearing
     \/ /\ Cleared.unstake > ORDERS_DUST
        /\ \E i \in DOMAIN staking_pools :
              /\ FirstLargest(Surplus, i)
              /\ IF FromOrders(i) + FromRebalance(i) > ORDERS_DUST
                 THEN PerformUnstake(i, FromOrders(i), FromRebalance(i), Cleared)
                 ELSE OnlyClearing

EndOfEpochClearing == ~contract_busy /\ ToKeep > 0 /\ OnlyClearing

\* perform_rebalance, up to a cap.
PerformRebalance(i, cap) ==
  LET sp == staking_pools[i] IN
  /\ ~contract_busy
  /\ ~sp.busy_lock
  /\ sp.unstaked = 0 \/ sp.unstk_req_epoch_height = epoch
  /\ sp.staked > ShouldHave(sp)
  /\ PerformUnstake(i, 0, Lesser(sp.staked - ShouldHave(sp), cap), CurrentOrders)

ForceRebalanceUnstake(i) == PerformRebalance(i, total_for_staking)

RebalanceUnstakeSp(i) ==
  /\ unstaked_for_rebalance + MIN_STAKE_UNSTAKE_AMOUNT_MOVEMENT < MaxUnstakeForRebalance
  /\ PerformRebalance(i, MaxUnstakeForRebalance - unstaked_for_rebalance)

\* The pools the search for a surplus counts: with stake, and of those the
\* ones with no unstaked balance worth waiting for.
WithStake == {i \in DOMAIN staking_pools :
                ~staking_pools[i].busy_lock /\ staking_pools[i].staked > 0}
Unblocked == {i \in WithStake : staking_pools[i].unstaked <= UNSTAKED_YOCTOS_TO_IGNORE}
TotalSurplus == MapThenSumSet(Surplus, DOMAIN staking_pools)

(***************************************************************************)
(* do_rebalance_unstake.  The subtraction of unstaked_for_rebalance from   *)
(* the total surplus panics below zero.                                    *)
(***************************************************************************)
DoRebalanceUnstake ==
  LET left == Monus(MaxUnstakeForRebalance, unstaked_for_rebalance) IN
  /\ ~contract_busy
  /\ left >= MIN_STAKE_UNSTAKE_AMOUNT_MOVEMENT
  /\ Cardinality(Unblocked) >= (Cardinality(WithStake) * 40) \div 100
  /\ \E i \in DOMAIN staking_pools :
        /\ FirstLargest(Surplus, i)
        /\ \/ staking_pools[i].weight_basis_points = 0
           \/ TotalSurplus > unstaked_for_rebalance + total_for_staking \div 2000
        /\ PerformUnstake(i, 0, Lesser(Surplus(i), left), CurrentOrders)

-----------------------------------------------------------------------------
(* Views of a pool, and the retrieval of unstaked NEAR.                    *)

booksUnchanged == UNCHANGED <<orderVars, userVars, stakeVars, moneyVars, worldVars>>

\* sync_unstaked_balance takes no lock.
SyncUnstakedBalance(i) ==
  /\ ~contract_busy /\ ~staking_pools[i].busy_lock
  /\ Cardinality({p \in promises : p.kind = "unstaked_balance"}) < MAX_SYNCS
  /\ Send(Call("unstaked_balance", i, 0, 0))
  /\ UNCHANGED <<contract_busy, staking_paused, staking_pools>>
  /\ booksUnchanged

DistributeRewards(i) ==
  LET sp == staking_pools[i] IN
  /\ ~contract_busy /\ ~sp.busy_lock
  /\ sp.staked > 0 \/ sp.unstaked > 0
  /\ sp.last_asked_rewards_epoch_height # epoch
  /\ LockAndSend(Call("total_balance", i, 0, 0))
  /\ booksUnchanged

RetrieveFundsFromAPool(i) ==
  LET sp == staking_pools[i] IN
  /\ ~contract_busy /\ ~sp.busy_lock
  /\ sp.unstaked > 0
  /\ wait_period_ended(sp)
  /\ LockAndSend(Call("withdraw_all", i, 0, 0))
  /\ booksUnchanged

HeartbeatCalls ==
  \/ DistributeStaking
  \/ DistributeUnstaking
  \/ EndOfEpochClearing
  \/ DoRebalanceUnstake
  \/ \E i \in DOMAIN staking_pools :
        \/ \E a \in Amounts : ManualStake(i, a)
        \/ ForceRebalanceUnstake(i)
        \/ RebalanceUnstakeSp(i)
        \/ SyncUnstakedBalance(i)
        \/ DistributeRewards(i)
        \/ RetrieveFundsFromAPool(i)

-----------------------------------------------------------------------------
(* The pools.  A staking pool is a core-contracts staking pool; only the   *)
(* contract's own account in it is kept.  Its rounding favours the         *)
(* delegator by at most DRIFT: StakingPool shows how that comes about.     *)

Answer(p, stage, answer) ==
  promises' = (promises \ {p}) \cup {[p EXCEPT !.stage = stage, !.answer = answer]}

poolStepUnchanged ==
  UNCHANGED <<orderVars, userVars, stakeVars, contract_account_balance,
              contract_busy, staking_paused, staking_pools, epoch>>

ExecDepositAndStake(p, d) ==
  /\ p.kind = "deposit_and_stake" /\ d < p.amount
  /\ pool_account' = [pool_account EXCEPT ![p.pool] = AfterDepositAndStake(@, p.amount, d)]
  /\ Answer(p, "ok", 0)
  /\ UNCHANGED env_balance

ExecStake(p, d) ==
  /\ p.kind = "stake" /\ d < p.amount
  /\ pool_account[p.pool].unstaked >= p.amount - d
  /\ pool_account' = [pool_account EXCEPT ![p.pool] = AfterStake(@, p.amount, d)]
  /\ Answer(p, "ok", 0)
  /\ UNCHANGED env_balance

ExecUnstake(p, d) ==
  LET total == p.amount + p.rebalance IN
  /\ p.kind = "unstake"
  /\ ~RefusesUnstake(pool_account[p.pool], total)
  /\ pool_account' = [pool_account EXCEPT ![p.pool] =
        AfterUnstake(@, total, d, epoch + NUM_EPOCHS_TO_UNLOCK)]
  /\ Answer(p, "ok", 0)
  /\ UNCHANGED env_balance

\* The transfer to the contract is executed with the call.
ExecWithdrawAll(p) ==
  /\ p.kind = "withdraw_all" /\ ~RefusesWithdraw(pool_account[p.pool], epoch)
  /\ env_balance' = env_balance + pool_account[p.pool].unstaked
  /\ pool_account' = [pool_account EXCEPT ![p.pool] = AfterWithdrawAll(@)]
  /\ Answer(p, "ok", 0)

MutExecView(p) ==                      \* Mutant: the view of the staked balance is asked for.
  LET account == pool_account[p.pool] IN
  /\ p.kind \in Views
  /\ Answer(p, "ok", IF p.kind = "total_balance" THEN account.staked ELSE account.unstaked)
  /\ UNCHANGED <<env_balance, pool_account>>
ExecView(p) ==
  LET account == pool_account[p.pool] IN
  /\ p.kind \in Views
  /\ Answer(p, "ok", IF p.kind = "total_balance"
                     THEN account.staked + account.unstaked ELSE account.unstaked)
  /\ UNCHANGED <<env_balance, pool_account>>

\* The call fails: the pool refuses it, or a failure outside the model.  The
\* NEAR attached to it comes back.
Refuses(p) ==
  LET account == pool_account[p.pool] IN
  \/ p.kind = "deposit_and_stake" /\ RefusesDeposit(p.amount, DRIFT)
  \/ p.kind = "stake" /\ RefusesStake(account, p.amount, DRIFT)
  \/ p.kind = "unstake" /\ RefusesUnstake(account, p.amount + p.rebalance)
  \/ p.kind = "withdraw_all" /\ RefusesWithdraw(account, epoch)
ExecFails(p) ==
  /\ p.kind \in MayFail \/ Refuses(p)
  /\ env_balance' = env_balance + (IF p.kind = "deposit_and_stake" THEN p.amount ELSE 0)
  /\ Answer(p, "failed", 0)
  /\ UNCHANGED pool_account

PoolExecutes(p) ==
  /\ p.stage = "sent"
  /\ \/ \E d \in 0..DRIFT : ExecDepositAndStake(p, d) \/ ExecStake(p, d) \/ ExecUnstake(p, d)
     \/ ExecWithdrawAll(p)
     \/ ExecView(p)
     \/ ExecFails(p)
  /\ poolStepUnchanged

\* internal_ping of the pool: rewards raise the value of the staked shares.
PoolReward(id, r) ==
  /\ pool_account[id].staked > 0
  /\ pool_account[id].staked + r <= MAX_SUPPLY
  /\ pool_account' = [pool_account EXCEPT ![id] = Earned(@, r)]
  /\ UNCHANGED <<env_balance, promises>>
  /\ poolStepUnchanged

\* What the account holds beyond the books.
MutExtraBalance == env_balance         \* Mutant: the whole balance is extra.
ExtraBalance == Monus(env_balance, contract_account_balance)

NewEpoch ==
  /\ epoch < MAX_EPOCH
  /\ epoch' = epoch + 1
  /\ UNCHANGED <<orderVars, userVars, stakeVars, moneyVars, listVars, pool_account>>

(***************************************************************************)
(* NEAR arrives that no call of the contract has asked for: its part of    *)
(* the transaction fees, or a native_transfer that comes back because its  *)
(* receiver does not exist; nothing books it.  Bound: the last extra has   *)
(* been swept.                                                             *)
(***************************************************************************)
NearArrives(r) ==
  /\ ExtraBalance <= SWEEP_MARGIN
  /\ env_balance' = env_balance + r
  /\ UNCHANGED <<orderVars, userVars, stakeVars, contract_account_balance,
                 listVars, worldVars>>

(***************************************************************************)
(* Two calls of one pool keep their order: a view sent without a lock was  *)
(* sent before the locking call in flight, so it is executed and answered  *)
(* before it.  Nothing in the contract enforces it; a specification that   *)
(* needs it says so.                                                       *)
(***************************************************************************)
InOrder(p) ==
  \A q \in promises :
     q.kind = "unstaked_balance" /\ p.kind # "unstaked_balance" /\ q.pool = p.pool
       => p.stage = "sent" /\ q.stage # "sent"

PoolSteps ==
  \/ \E p \in promises : PoolExecutes(p)
  \/ \E id \in PoolIds, r \in RewardAmounts : PoolReward(id, r)
  \/ \E r \in RewardAmounts : NearArrives(r)
  \/ NewEpoch

-----------------------------------------------------------------------------
(* The callbacks.                                                          *)

\* on_staking_pool_stake_maybe_deposit
StakeSucceeded(p) ==
  LET sp == staking_pools[p.inx] IN
  /\ p.stage = "ok"
  /\ \/ /\ p.kind = "deposit_and_stake"
        /\ contract_account_balance >= p.amount
        /\ Settle(p, [sp EXCEPT !.staked = @ + p.amount])
        /\ contract_account_balance' = contract_account_balance - p.amount
        /\ UNCHANGED <<orderVars, total_unstaked_and_waiting>>
     \/ /\ p.kind = "stake"
        /\ sp.unstaked >= p.amount /\ total_unstaked_and_waiting >= p.amount
        /\ Settle(p, [sp EXCEPT !.staked = @ + p.amount, !.unstaked = @ - p.amount])
        /\ total_unstaked_and_waiting' = total_unstaked_and_waiting - p.amount
        /\ SetOrders(Considered(p.amount, epoch_stake_orders, epoch_unstake_orders))
        /\ UNCHANGED contract_account_balance
  /\ UNCHANGED <<userVars, total_actually_staked, env_balance, worldVars>>

StakeFailed(p) ==
  /\ p.stage = "failed" /\ p.kind \in {"deposit_and_stake", "stake"}
  /\ total_actually_staked >= p.amount
  /\ Settle(p, staking_pools[p.inx])
  /\ total_actually_staked' = total_actually_staked - p.amount
  /\ epoch_stake_orders' = epoch_stake_orders + p.amount
  /\ UNCHANGED <<epoch_unstake_orders, retrieved_for_unstake_claims,
                 unstaked_for_rebalance, total_unstaked_and_waiting, userVars,
                 moneyVars, worldVars>>

\* on_staking_pool_unstake
UnstakeSucceeded(p) ==
  LET sp    == staking_pools[p.inx]
      total == p.amount + p.rebalance
  IN  /\ p.stage = "ok" /\ p.kind = "unstake"
      /\ sp.staked >= total
      /\ Settle(p, [sp EXCEPT !.staked = @ - total, !.unstaked = @ + total,
                              !.unstk_req_epoch_height = epoch])
      /\ total_unstaked_and_waiting' = total_unstaked_and_waiting + total
      /\ unstaked_for_rebalance' = unstaked_for_rebalance + p.rebalance
      /\ UNCHANGED <<epoch_stake_orders, epoch_unstake_orders,
                     retrieved_for_unstake_claims, total_actually_staked,
                     userVars, moneyVars, worldVars>>

UnstakeFailed(p) ==
  /\ p.stage = "failed" /\ p.kind = "unstake"
  /\ Settle(p, staking_pools[p.inx])
  /\ total_actually_staked' = total_actually_staked + p.amount + p.rebalance
  /\ epoch_unstake_orders' = epoch_unstake_orders + p.amount
  /\ UNCHANGED <<epoch_stake_orders, retrieved_for_unstake_claims,
                 unstaked_for_rebalance, total_unstaked_and_waiting, userVars,
                 moneyVars, worldVars>>

\* on_retrieve_from_staking_pool: the amount is the one recorded, whatever the
\* pool has really sent.
Retrieved(p) ==
  LET sp     == staking_pools[p.inx]
      amount == sp.unstaked
  IN  /\ p.stage = "ok" /\ p.kind = "withdraw_all"
      /\ Settle(p, [sp EXCEPT !.unstaked = 0])
      /\ total_unstaked_and_waiting' = Monus(total_unstaked_and_waiting, amount)
      /\ contract_account_balance' = contract_account_balance + amount
      /\ SetOrders(Considered(amount, epoch_stake_orders, epoch_unstake_orders))
      /\ UNCHANGED <<userVars, total_actually_staked, env_balance, worldVars>>

RetrieveFailed(p) ==
  /\ p.stage = "failed" /\ p.kind = "withdraw_all"
  /\ Settle(p, staking_pools[p.inx])
  /\ booksUnchanged

\* Mutant: the unstaked balance is taken for a reward.
MutTotalBalance(sp) == sp.staked

\* on_get_sp_total_balance: what the pool has more than recorded is a reward;
\* the fees on it go to two accounts, opened for it if need be.
TotalBalance(sp) == sp.staked + sp.unstaked
RewardsDistributed(p) ==
  LET sp      == staking_pools[p.inx]
      rewards == Monus(p.answer, TotalBalance(sp))
  IN  /\ p.stage = "ok" /\ p.kind = "total_balance"
      /\ p.answer >= sp.unstaked
      /\ Settle(p, [sp EXCEPT !.staked = p.answer - sp.unstaked,
                              !.last_asked_rewards_epoch_height = epoch])
      /\ total_actually_staked' = total_actually_staked + rewards
      /\ total_for_staking' = total_for_staking + rewards
      /\ OpensUnpaid(IF rewards > 0 THEN 2 ELSE 0)
      /\ UNCHANGED <<orderVars, total_available, total_unstake_claims,
                     total_unstaked_and_waiting, moneyVars, worldVars>>

MutSyncRefused(p, sp) == FALSE         \* Mutant: any answer is applied.
\* The answer would change a record while another call is in flight.
SyncRefused(p, sp) == p.answer # sp.unstaked /\ (contract_busy \/ sp.busy_lock)

(***************************************************************************)
(* on_get_sp_unstaked_balance: the difference moves between the pool's     *)
(* staked and unstaked records, unless the answer is refused (a panic).    *)
(***************************************************************************)
UnstakedSynced(p) ==
  LET sp == staking_pools[p.inx] IN
  /\ p.stage = "ok" /\ p.kind = "unstaked_balance"
  /\ ~SyncRefused(p, sp)
  /\ staking_pools' = [staking_pools EXCEPT ![p.inx] =
        [sp EXCEPT !.unstaked = p.answer, !.staked = Monus(@ + sp.unstaked, p.answer)]]
  /\ promises' = promises \ {p}
  /\ UNCHANGED <<contract_busy, staking_paused>>
  /\ booksUnchanged

(***************************************************************************)
(* A callback panics: its index is out of range, the view it needs failed  *)
(* (it is never entered), or a subtraction would underflow.                *)
(***************************************************************************)
Panics(p) ==
  IF p.inx \notin DOMAIN staking_pools THEN TRUE
  ELSE LET sp == staking_pools[p.inx] IN
       \/ p.kind \in Views /\ p.stage = "failed"
       \/ /\ p.stage = "ok"
          /\ \/ p.kind = "deposit_and_stake" /\ contract_account_balance < p.amount
             \/ /\ p.kind = "stake"
                /\ sp.unstaked < p.amount \/ total_unstaked_and_waiting < p.amount
             \/ p.kind = "unstake" /\ sp.staked < p.amount + p.rebalance
             \/ p.kind = "total_balance" /\ p.answer < sp.unstaked
             \/ p.kind = "unstaked_balance" /\ SyncRefused(p, sp)
       \/ /\ p.kind \in {"deposit_and_stake", "stake"} /\ p.stage = "failed"
          /\ total_actually_staked < p.amount
CallbackPanics(p) ==
  /\ Panics(p)
  /\ promises' = promises \ {p}
  /\ UNCHANGED <<contract_busy, staking_paused, staking_pools>>
  /\ booksUnchanged

Callback(p) ==
  /\ p.stage # "sent"
  /\ IF Panics(p) THEN CallbackPanics(p)
     ELSE \/ StakeSucceeded(p) \/ StakeFailed(p)
          \/ UnstakeSucceeded(p) \/ UnstakeFailed(p)
          \/ Retrieved(p) \/ RetrieveFailed(p)
          \/ RewardsDistributed(p) \/ UnstakedSynced(p)
Callbacks == \E p \in promises : Callback(p)

-----------------------------------------------------------------------------
(* Calls of the owner and the operator, and the sweep of extra balance.    *)

PauseStaking ==
  /\ staking_paused' = ~staking_paused      \* pause_staking and un_pause_staking
  /\ UNCHANGED <<contract_busy, staking_pools, promises>>
  /\ booksUnchanged

\* set_busy and sp_busy, by hand.
SetBusy(value) ==
  /\ contract_busy # value
  /\ contract_busy' = value
  /\ UNCHANGED <<staking_paused, staking_pools, promises>>
  /\ booksUnchanged
SpBusy(i, value) ==
  /\ staking_pools[i].busy_lock # value
  /\ staking_pools' = [staking_pools EXCEPT ![i].busy_lock = value]
  /\ UNCHANGED <<contract_busy, staking_paused, promises>>
  /\ booksUnchanged

\* migrate, called by upgrade when new code is deployed: the fields are copied,
\* but the contract is no longer busy, whatever is in flight.
Migrate ==
  /\ contract_busy' = FALSE
  /\ UNCHANGED <<staking_paused, staking_pools, promises>>
  /\ booksUnchanged

AddStakingPool(id) ==
  /\ \A i \in DOMAIN staking_pools : staking_pools[i].account_id # id
  /\ staking_pools' = Append(staking_pools, NewPool(id))
  /\ UNCHANGED <<contract_busy, staking_paused, promises>>
  /\ booksUnchanged

\* The pools behind the removed one move down by one index.
RemoveStakingPool(i) ==
  /\ is_empty(staking_pools[i])
  /\ staking_pools' = RemoveAt(staking_pools, i)
  /\ UNCHANGED <<contract_busy, staking_paused, promises>>
  /\ booksUnchanged

SetStakingPools(weights) ==
  /\ DOMAIN weights = DOMAIN staking_pools
  /\ \A i \in DOMAIN weights :
        /\ weights[i] < 5000
        /\ weights[i] # staking_pools[i].weight_basis_points => ~staking_pools[i].busy_lock
  /\ MapThenSumSet(LAMBDA i : weights[i], DOMAIN weights) = 10000
  /\ staking_pools' = [i \in DOMAIN staking_pools |->
        [staking_pools[i] EXCEPT !.weight_basis_points = weights[i]]]
  /\ UNCHANGED <<contract_busy, staking_paused, promises>>
  /\ booksUnchanged

\* transfer_extra_balance_accumulated, open to anyone.
TransferExtraBalance ==
  /\ ExtraBalance >= ONE_NEAR
  /\ env_balance' = env_balance - (ExtraBalance - SWEEP_MARGIN)
  /\ UNCHANGED <<orderVars, userVars, stakeVars, contract_account_balance,
                 listVars, worldVars>>

ManualFlags ==
  \/ \E value \in BOOLEAN : SetBusy(value)
  \/ \E i \in DOMAIN staking_pools, value \in BOOLEAN : SpBusy(i, value)
PoolListCalls ==
  \/ \E id \in PoolIds : AddStakingPool(id)
  \/ \E i \in DOMAIN staking_pools : RemoveStakingPool(i)

-----------------------------------------------------------------------------
\* The contract when it is deployed, with a given list of pools.
InitWith(pools) ==
  /\ contract_busy = FALSE /\ staking_paused = FALSE
  /\ contract_account_balance = 0
  /\ retrieved_for_unstake_claims = 0
  /\ total_available = 0
  /\ epoch_stake_orders = 0 /\ epoch_unstake_orders = 0
  /\ total_for_staking = 0 /\ total_actually_staked = 0
  /\ total_unstaked_and_waiting = 0
  /\ total_unstake_claims = 0
  /\ registered = 0
  /\ unstaked_for_rebalance = 0
  /\ staking_pools = pools
  /\ promises = {}
  /\ epoch = 0
  /\ env_balance = INITIAL_BALANCE
  /\ pool_account = [id \in PoolIds |-> EmptyAccount]
Init == InitWith(<< >>)

\* What needs no discipline of the operator.
Ordinary ==
  \/ UserCalls
  \/ StorageCalls
  \/ HeartbeatCalls
  \/ PoolSteps
  \/ Callbacks
  \/ PauseStaking
  \/ \E weights \in WeightLists : SetStakingPools(weights)
  \/ TransferExtraBalance

Next == Ordinary \/ ManualFlags \/ PoolListCalls \/ Migrate
Spec == Init /\ [][Next]_vars

(***************************************************************************)
(* The calls in flight that hold the locks, and the discipline the code    *)
(* leaves to the operator: locks are released by hand, and new code is     *)
(* deployed, only when no such call is in flight, and the pool list        *)
(* changes only when no promise is pending at all.                         *)
(***************************************************************************)
InFlight == {p \in promises : p.kind # "unstaked_balance"}

CarefulNext ==
  \/ Ordinary
  \/ /\ InFlight = {}
     /\ \/ SetBusy(FALSE)
        \/ \E i \in DOMAIN staking_pools : SpBusy(i, FALSE)
        \/ Migrate
  \/ promises = {} /\ PoolListCalls
CarefulSpec == Init /\ [][CarefulNext]_vars

(***************************************************************************)
(* The locks of the pools alone: new code is deployed, and contract_busy   *)
(* set and released by hand, at any moment, so that calls to several pools *)
(* are in flight together; the operator releases the lock of a pool only   *)
(* when it has no such call.                                               *)
(***************************************************************************)
Idle(i) == \A p \in InFlight : p.inx # i

UpgradedNext ==
  \/ Ordinary
  \/ Migrate
  \/ \E value \in BOOLEAN : SetBusy(value)
  \/ \E i \in DOMAIN staking_pools : Idle(i) /\ SpBusy(i, FALSE)
  \/ promises = {} /\ PoolListCalls
UpgradedSpec == Init /\ [][UpgradedNext]_vars
=============================================================================
