# TLA+ verification of the Metapool (stNEAR) contract

The repository holds one production contract, `src/metapool`: a liquid-staking
pool on NEAR. Users deposit NEAR and get stNEAR shares; a bot calls the
*heartbeat* methods, which stake the NEAR in many staking pools, unstake it,
retrieve it and collect rewards. Everything that touches a pool is asynchronous:
the method sends a promise, the pool executes it in a later receipt, and a
callback of the contract runs in a still later one, with every other call of the
contract free to run in between. This directory models that machinery in TLA+,
checks it with TLC and proves its central invariants with TLAPS. The
accounts, the share price, the liquidity pool and the token calls, where everything is
synchronous and the difficulty is rounding, are a second model; the staking pool
of `src/test-core-staking-pool`, whose rounding the first model takes for granted,
is a third.

## 1. Inventory

| Part | State | Operations | Interactions |
| --- | --- | --- | --- |
| Heartbeat (`distribute.rs`, searches and clearing in `internal.rs`) | the totals and orders of `MetaPool`, `contract_busy` | `distribute_staking`, `manual_stake`, `distribute_unstaking`, `end_of_epoch_clearing`, `do_rebalance_unstake`, `force_rebalance_unstake`, `rebalance_unstake_sp`, `distribute_rewards`, `sync_unstaked_balance`, `retrieve_funds_from_a_pool`, `transfer_extra_balance_accumulated`, four callbacks | promises to the staking pools; locks `contract_busy` and `sp.busy_lock` held from the call to its callback |
| Pool list (`staking_pools.rs`, `owner.rs`) | `staking_pools[]`: weight, lock, staked, unstaked, epoch of the last unstake | `set_staking_pools`, `add_staking_pool`, `remove_staking_pool`, `sp_busy`, `set_busy`, `pause_staking` | callbacks address pools by index |
| User calls (`lib.rs`, `account.rs`, `internal.rs`) | `accounts`: available, shares, unstake shares, withdrawal epoch | deposit, stake, delayed unstake, withdraw, lockup variants | move the totals and orders the heartbeat works on |
| stNEAR price | `total_for_staking` / `total_stake_shares` | conversions in `internal.rs`, fee shares minted by `on_get_sp_total_balance` | every user call uses it; rewards raise it |
| Liquidity pool (NSLP) | one special account plus LP shares, discount parameters | add and remove liquidity, liquid unstake, internal clearing of stakes, `stake_from_nslp` | pays users at once; takes new deposits in exchange for its stNEAR |
| Fungible token (NEP-141) | the same accounts | `ft_transfer`, `ft_transfer_call`, `ft_resolve_transfer` | a callback that may return tokens |
| Staking pools (`src/test-core-staking-pool`) | per delegator: stake shares, unstaked amount, release epoch; totals, the balance last seen, the fee, a guarantee fund | deposit, deposit and stake, stake, unstake, withdraw, each also for all; ping; views; fee and pause by the owner | called by promises; every call pings first; round in the delegator's favour at the fund's expense; may refuse |
| NEAR runtime (external) | receipts, epochs, account balances | executes promises in any order, refunds what a failed one carries, delivers the result to the callback, rolls back a receipt that panics | the environment of everything above |
| Storage management (NEP-145) | the registration of an account | `storage_deposit`, `storage_unregister` | deposits register accounts too; accounts may be closed under a transfer in flight; the storage deposits lie in the contract's account but outside `contract_account_balance`, where the sweep of extra balance takes them |
| Migrations (`migrations.rs`) | none of its own | `migrate`, run when new code is deployed | copies every field of the old state, except `contract_busy`, which it resets whatever is in flight |
| Owner settings, reward meters, views, epoch test contract | parameters, trip meters | assignments and reads | none with the state above |

`contract_busy` and `busy_lock` are not mutexes in the usual sense: they are
plain fields that one receipt sets and another clears, they are ignored by the
withdrawal calls, by `sync_unstaked_balance` and by the sweep of extra balance,
and a callback that panics does not clear them. What makes the code hard to
test is therefore

* interleaving: user calls, a second heartbeat call, a view that is answered
  late, or an epoch change between a call, its execution and its callback;
* partial failure: totals and orders are changed when the promise is sent and
  must be restored exactly when it fails;
* rounding: the pools keep shares and round in the delegator's favour, so
  the contract's record of a pool differs by some yoctos from what it holds;
* a long protocol: a claim goes through an order, an unstake, a wait of four
  epochs, a retrieval and the reserve, each begun by another call of the bot.

What makes each part correct:

* Heartbeat and totals: no NEAR is promised twice; every claim is reserved,
  waiting or ordered; orders explain the difference between what should be and
  what is staked; locks are held exactly while a call is in flight.
* Pool records: the sums of the records are the totals; what is recorded as
  retrievable can be withdrawn; a record is not changed under a call in flight.
* User calls and price: the sums over the accounts are the totals, rounding never
  lowers the price, a round trip never gains.
* Liquidity pool: the discount grows as liquidity shrinks, fees stay within what
  is swapped, LP shares never lose value by a swap.
* Staking pools: the share price never falls, a balance falls only by what is paid
  out, rounding favours the delegator by at most the price of a share, and the fund pays
  for it one unit a call.
* Runtime: assumed.

## 2. Modules

| Module | What it is |
| --- | --- |
| `ShareMath` | `apply_pct`, `proportional`, shares and amounts, saturating subtraction, minimum |
| `ShareMath_proofs` | lemmas: what floor division does to shares, amounts and the price |
| `Heartbeat` | the heartbeat, the totals, the pool list, the pools and the runtime |
| `HeartbeatProperties` | its type invariant, safety and liveness properties |
| `Heartbeat_proofs` | what holds whatever the pools do: its inductive invariant and theorems |
| `HeartbeatBooks_proofs` | the exact books and the locks, with new code deployed at any moment |
| `HeartbeatHoldings_proofs` | that what the books say is really there: in the account, in the pools, and as `Vault` promises |
| `Vault` | the abstract promise about money the heartbeat implements |
| `MCHeartbeat` | instances for TLC and the specifications of the passing runs |
| `MCClaims`, `MCWaits` | specifications and statements for comments that the code does not satisfy |
| `PoolAccounts` | one account in a staking pool as the contract sees it: what `Heartbeat` and `StakingPool` share |
| `StakingPool` | delegators, share arithmetic, rewards, fee and fund of a staking pool |
| `StakingPoolProperties` | its properties, and the relation to the pools of `Heartbeat` |
| `StakingPool_proofs` | its inductive invariant and the theorems |
| `MCStakingPool` | an instance for TLC |
| `Sums`, `Sums_proofs` | the sum of a function over a finite set, and what changes of the function do to it |
| `StNear` | accounts, stNEAR shares, the liquidity pool, token transfers, storage |
| `StNearProperties` | their properties, and the relation to the totals of `Heartbeat` |
| `StNear_proofs` | their inductive invariant and the theorems |
| `StNearSums_proofs` | that the totals are the sums over the accounts and move as in `Heartbeat`, and what a liquidity share is worth |
| `MCStNear` | instances for TLC, and a statement of a comment that the code does not satisfy |

### How `Heartbeat` corresponds to the code

*State.* Each variable has the name of the field of `MetaPool` (`lib.rs:97-231`).
`staking_pools` is the vector of `StakingPoolInfo`, indexed from 1.
`env_balance` is `env::account_balance()`, kept apart from
`contract_account_balance`, the contract's own idea of it; `epoch` is
`env::epoch_height()`; `pool_account` is the contract's account inside each
staking pool; `registered` is the number of registered accounts, each of which has a storage deposit to get back; `promises` is the set of calls to pools not yet settled.

*Steps.* A method of the contract is one action: it runs to completion or panics,
and a panic rolls it back, so an assertion is a guard. A promise is a record
with a stage: `sent`, then `ok` or `failed` once the pool has executed it
(`PoolExecutes`), then consumed by `Callback`. A callback whose subtraction
underflows, whose index is out of range or whose view has failed *panics*:
`CallbackPanics` consumes the promise and changes nothing else, so locks stay
held, as they do on chain.

*Pool choice.* The two search loops keep the first pool with the largest value and
fall back to the first one when all values are 0: `FirstLargest` says that.
`Requires` and `Surplus` are the values they compare.

*Clearing.* `Cleared` and `Considered` are the orders after
`internal_end_of_epoch_clearing` and `consider_retrieved_for_unstake_claims`,
as records, because the calls go on computing with them.

*Pools.* A pool is the contract's account in it, changed by the operators of `PoolAccounts`:
it rounds by some d in `0..DRIFT`, refuses what it does not hold or what is not released yet, may fail
for reasons outside the model (`MayFail`: gas, a paused pool), and credits
rewards. NEAR attached to a call that fails comes back to the account. `StakingPool` has the
shares, and its run checks that they do no more than this with a drift of the price of one share.

*Storage deposits.* A new account pays `STORAGE_COST_YOCTOS` (`storage_deposit`, or `Deposited` on top of what is deposited), and whoever
closes it gets them back (`storage_unregister`). Both move `env_balance` and leave `contract_account_balance` alone, as the code
does. `RefundReopens` and `OpensUnpaid` are the `unwrap_or_default` that open accounts for which nothing is paid: a refund to a
sender who has closed the account, and fees for the treasury, the operator and the developers. Which account is empty and may be
closed is left out: any registered one.

*Other events.* `NearArrives` is NEAR nobody booked: transaction fees, or a native transfer
whose receiver does not exist. `Migrate` is a deployment: the code copies every field but
`contract_busy`.

*User calls.* Which account holds what is left out: a call may move any amount
of `Amounts` that the totals allow. Over-approximating the users is sound for
the safety properties: whatever the accounts allow, the totals allow too.

*Bounds.* `MAX_SUPPLY` bounds the NEAR owed to users when they deposit (and what a
pool can grow to by rewards), `MAX_ACCOUNTS` the accounts registered at the same time, `MAX_EPOCH` the epochs, `MAX_SYNCS` the views
in flight without a lock; two equal calls are not in flight together (`Send`), and unbooked NEAR
arrives when the last of it has been swept.
They are guards of the actions that add; none of them restricts what happens
to what is there.

### How `StNear` corresponds to the code

*State.* `accounts` is the map of `lib.rs`, a function whose domain is the set of
registered accounts; the liquidity pool is the account `NSLP`. The totals have the names of
`MetaPool`. `resolving` holds the transfer calls whose `ft_resolve_transfer` has not run.
`storage_paid` is a history variable: the accounts whose storage deposit the contract holds.

*Steps.* Each public method is one action, with everything it calls: `DepositAndStake` is
`internal_deposit`, `internal_stake_from_account` and `nslp_try_internal_clearing`. An assertion
is a guard, and so is a subtraction of unsigned integers that would go below zero: the
receipt panics and changes nothing. `CanTake` and `CanBurn` collect those checks.
`Taken` is the amount `take_from_available` really takes: everything, if that is within
`ONE_MILLI_NEAR` of the request, except from lockup accounts.

*Copies.* `liquid_unstake` reads up to five accounts into local copies and saves them at the end.
The action writes them as one function; `MaySell`, the three `assert!(&account_id != ...)`, is what
makes that the same as saving copies in any order. The mutant `MutMaySell` shows that it is needed: with a
seller that is the treasury, one copy overwrites the other.

*Heartbeat.* `AskRewards` and `DistributeRewards` are the call and the callback of a reward as far
as accounts and price are concerned. `Cycle` stands for a whole epoch of the rest of the
heartbeat: orders are sent, NEAR comes back into the reserve. It is an abstraction of `Heartbeat`, which models
those steps in detail, with no counterpart of its own in the code.
In the other direction, `TotalsAsInHeartbeat` says that each call of
`StNear` does to the totals what a user call of `Heartbeat` does or leaves them alone, so
that what `Heartbeat` assumes of users is what the accounts do. Storage deposits are outside that relation: `StNear` has no real balance,
and follows them account by account (`storage_paid`).

*Bounds.* `MAX_SUPPLY` bounds the NEAR owed to users, `MAX_EPOCH` the epochs, `Transfers` the
transfer calls in flight, `Deposits`, `Requests` and `RewardAmounts` the arguments. `min_deposit_amount`,
discounts, cuts and fees are constants, since the owner may set them.

### How `StakingPool` corresponds to the code

*State.* `pool` is `StakingContract` as one record, because a call hands its fields from one internal step
to the next: the ping, the deposit, the conversion. An account that is not stored reads as `NoAccount`, and
`Saved` deletes one without balances, as `internal_save_account` does. `balance` is the locked and the liquid balance of the
account together, which is what `internal_ping` compares with `last_total_balance`.

*Steps.* Each public call is one action: what it does to the record after a ping (`Pinged`), with the
NEAR that comes in and goes out (`Ends`). Assertions are guards: `CanPing`, `CanWithdraw`, `CanStake`, `CanUnstake`, with the
two that say "invariant violation" in the code. `update_staking_key` is a ping; `vote` calls another contract. Restaking is
commented out in the source, so no promise is sent.

*Time.* `NewEpoch` ends an epoch and adds what the protocol pays. The pool notices at the next ping.

*Bounds.* `MAX_BALANCE` bounds the balance of the account, `MAX_EPOCH` the epochs, and `MAX_CONVERSIONS` the
calls that stake or unstake, which `conversions` counts; `FundCovers` is stated with that count.

## 3. Runs

All instances of `Heartbeat` have three pools: a weight must be below 50% (`owner.rs`), so three is the
least number of pools whose weights sum to 100%. `rounding` has a fourth, first in the list and without a weight, which can be removed and added. With `TwoWeights`
the third pool has a weight too small to receive anything, which leaves the
effective choice between two pools. Thresholds are scaled to units of 1 or 2, and
`NUM_EPOCHS_TO_UNLOCK` to 1 or 2. Amounts are chosen so that a deposit is
split between pools (3 to 5 units over weights of 40/30/30 or 50/50), so that half of it
may be moved by a rebalance, and so that what is unstaked is worth re-staking.

| Run | Asks | Bounds |
| --- | --- | --- |
| `rebalance` | While users stake and unstake, weights change, new code is deployed and promises may fail, and an account is opened by a refund, are the books, the claims, the records and the rebalances *exact* in every state, and does a pool serve one call at a time? | deposits of 5, at most 5 owed, two epochs; stakes and unstakes may fail; one account |
| `rounding` | With pools that round, records corrected by `sync_unstaked_balance`, views that fail, locks released and new code deployed between calls, and a pool removed and added: do the invariants of `Heartbeat_proofs` hold, is the NEAR really there, is a locked record frozen? Does the contract implement `Vault`? | drift 1, one view in flight, a deposit of 3 at a time, two epochs; the view for rewards may fail. Only pools that have had something are asked for a correction |
| `money` | With the liquidity pool, manual stakes, rewards, NEAR that arrives unasked, accounts opened and closed, and the sweep: does the account hold the books and the storage deposits, is the contract busy exactly while a call is in flight, do callbacks never panic, are rewards credited once? | deposits of 3 or 5, at most 5 owed, rewards of 2, a balance of 2 at deployment; two accounts with a storage deposit of 1, a margin of 1 left by the sweep; re-stakes and retrievals may fail |
| `service` | Is every claim served in the end, and every lock released? | amounts of 3 and 5, wait of 2 epochs, epochs 0 to 6; stakes may fail again and again, staking may be paused |
| `staking_pool` | Does a staking pool keep its price and its delegators' balances, does the fund cover the rounding, and is a pool of `Heartbeat` a fair picture of it? | a delegator and the owner; deposits of 3, requests of 2, rewards of 4, fees of 0 and 1/2, a fund of 3; 3 units staked at creation, a balance up to 16, three conversions, three epochs |
| `pool` | Do staking, swaps, liquidity, clearing, fees and rewards keep the sums, the price, and the value of liquidity, whatever the rounding? | two users, one of them the treasury; deposits of 4, requests of 3, a reward of 3; at most 11 owed; closeness of 1 |
| `tokens` | Do the sums and the books survive accounts that transfer, withdraw, close and open again with a transfer call in flight? | two users, a lockup account; deposits of 3, requests of 2; at most 6 owed; two epochs; closeness of 1 |

In `staking_pool` a reward of 4 on a stake of 3 makes a share worth more than two, not a multiple of one,
so both kinds of rounding occur at once and a request may buy no share at all.

In `pool` the fee of a reward is not a multiple of the price, so one stNEAR is soon worth a
fraction more than one NEAR and every later conversion rounds. Partial and complete clearings, removals of part
of the liquidity while the pool holds stNEAR, discounts between the two ends, and
requests rounded up to everything all occur: each was confirmed by asking TLC for a
behaviour that contains it.

Deadlock is not checked: every instance ends when its bounds are used up.

### Properties

* `ClaimsExact`: claims and pending rebalances equal reserve + waiting + orders +
  unstakes in flight. `ClaimsCovered` is the inequality that remains with pools that round.
* `BooksExact`: `contract_account_balance` is available + reserve + stake orders +
  the stake in flight. `Solvency` is its inequality; `NearBacksBooks` says that the real
  account balance has the NEAR of the books *and* the storage deposit of every account.
* `StakeExplained`: the orders and pending rebalances are the whole difference between
  `total_for_staking` and `total_actually_staked`.
* `TotalsMatchRecords`, `RecordsMatchPools`: totals, records and pools agree, up to
  the call in flight; what is recorded as released is released.
* `LockDiscipline`, `BusyMeansInFlight`, `LockedRecordsFrozen`,
  `CallbacksNeverPanic`, `LocksReleased`: the locks do what the code needs them for. `LockedRecordsFrozen` follows a record by its account, since its index may change.
* `PoolsServeOne`: what is left of the locks when a deployment has reset `contract_busy`: no two locking
  calls to one pool, because `busy_lock` is copied.
* `ReserveWithinClaims`: the reserve never takes more than the claims need.
* `ClaimsServed`: liveness of a delayed unstake.
* `VaultSpec`: the refinement. `owed` is the value of all stNEAR, the available NEAR,
  the claims and the storage deposits; `held` is the account, the pools, and stakes on their way. Each step pays
  and owes the same amount, earns, credits users with no more than was earned, or sweeps
  no more than is left over.
* `SumsMatch`: each total is the sum over the accounts. `BooksMatch`: `contract_account_balance` is
  available + reserve + stake orders. `OnlyPoolKeepsNear`: no user is left with available NEAR after a call.
* `PriceNeverFalls`, `PriceAtLeastOne`, `PriceFrozenWhileBusy`: no order of calls takes value out of stNEAR, not even one
  unit of rounding, and the price stands still while a reward is awaited. That a clearing
  keeps the price needs an argument: it burns shares rounded *down* for NEAR that is not
  rounded. It holds because the clearing follows the deposit of the same amount, and burns no fewer
  shares than that deposit minted.
* `LiquidityKeepsValue`, `LiquidityFair`: swaps and clearings do not make the liquidity pool poorer; joining and leaving
  do not take from those who stay, up to a unit of rounding. `stake_from_nslp`, a call of the operator, is
  the exception: it buys stNEAR rounded down with NEAR of the pool.
* `TotalsAsInHeartbeat`: the user calls of `Heartbeat` cover those of `StNear`.
* `SharesAddUp` and again a `PriceNeverFalls`: the shares of a staking pool are its delegators' and
  those nobody owns, and the value of a share never falls.
* `FundCovers`: the account has the NEAR of all delegators as long as no more calls have converted than the fund has
  units. `PingNeverPanics`: no order of deposits and withdrawals makes the balance less than the one last seen, which would
  block the pool for ever.
* `BalanceKept`: what a delegator has falls only by what is paid out to it. `UnstakeAllLeavesNothing`: two opposite
  roundings meet exactly.
* `AsInHeartbeat`, `RefusesAsInHeartbeat`: the pool changes and refuses as `PoolAccounts` says, with a drift of at most the price
  of a share.

### What the violation runs show

Each starts from a statement in the code and ends with a behaviour of the code that
contradicts it.

* `restake_panics` (`distribute.rs:180`). `sync_unstaked_balance` raises `sp.unstaked` by what the
  pool's rounding added and leaves `total_unstaked_and_waiting`. If that pool alone is
  waiting, a re-stake of the whole unstaked record subtracts more than the total holds, and the
  callback that "SHOULD NOT PANIC" does. Both locks stay until the operator resets them. The
  unstaked total of the contract differs from the sum of the records from then on.
* `wait_extended` (`internal.rs:210`). A claim is promised "4-8 epochs form now", one or two waits of a pool. But when every
  pool with a surplus is waiting, the search of `distribute_unstaking` falls back to pool 0 (`distribute.rs:382`), and the orders are unstaked there
  even if it is itself waiting: what it had unstaked starts its wait again, which two comments (`distribute.rs:257`, `internal.rs:559`)
  say must not happen. In the run the bot retrieves whatever it can before it unstakes, nothing fails, and a
  claim of epoch 2 is not in the reserve at the end of epoch 6, two waits later.
* `storage_unpaid` (`internal.rs:650`). `storage_unregister` pays the storage deposit back. If the account closed is
  the sender of a transfer call in flight, the refund registers it again unpaid, and the next
  `storage_unregister` pays back what was not paid in. The comment at `fungible_token_standard.rs:144` describes tokens that
  are burned in this case, which the code never does.
* `sweep_in_flight` (`distribute.rs:513`). Between the withdrawal by a pool and the callback, the
  retrieved NEAR looks like accumulated fees: a sweep sends it to the operator, and the callback
  then reserves it for claims.
* `sweep_takes_deposits` (`distribute.rs:513`). Waiting for the calls is not enough. Storage deposits are NEAR of the account that
  `contract_account_balance` does not count, so a sweep takes them for extra. It leaves 10 cents, which pay back 80 accounts;
  `storage_unregister` (`empty_nep_145.rs:69`) pays every further one from the reserve, the stake orders or the liquidity pool, against
  the comment at `empty_nep_145.rs:11`. In the run the margin is one deposit and two accounts are enough. The run `money` sweeps
  between calls and only while the deposits fit in the margin, and holds.

## 4. Fairness and discipline

* `service` assumes weak fairness of the execution of promises and of callbacks: the runtime
  executes every receipt, and a failed call is an execution. It adds strong fairness of the calls of the bot
  (`distribute_unstaking`, `end_of_epoch_clearing`, `retrieve_funds_from_a_pool`) and of the end of an epoch. The bot is documented
  to call the heartbeat many times in an epoch of 12 hours. Its fairness is strong because stakes may fail: a failed stake comes back as
  an order, is sent again and occupies the contract, so that the other calls are enabled again and again but not
  always. An epoch ends when the bot has done what it can (`BotDone`), and nothing is assumed of
  users, except that they unstake in the first two epochs: `wait_extended` shows that an unstake
  in every epoch can extend the wait of the first one for ever. The fairness of the clearing is needed: when the fallback pool
  has less staked than all orders together, `distribute_unstaking` panics, and only a clearing of the orders gets past it.
* `wait_extended` restricts the bot: it unstakes only when nothing can be retrieved.
* `rounding` assumes that two receipts between the contract and one pool keep their order
  (`InOrder`). Nothing in the code enforces it. Without it a stale answer to
  `sync_unstaked_balance` overwrites a record.
* The code leaves its flags and its pool list to the operator; two disciplines say what is expected. `CarefulNext`,
  which `rounding` follows: flags are reset by hand, and new code is deployed, only when no locking call is in flight.
  `UpgradedNext`, which allows more: new code is deployed, and `contract_busy` is set and cleared by hand, at any moment,
  so that any number of calls is in flight together; only the lock of a *pool* is released when that pool has no call.
  In both the pool list changes only when no promise is pending: a pool removed while a call to a later one is in
  flight would shift the index its callback uses. Section 5 says which theorem needs which.
* What the sweep leaves in the account is not tied to the storage deposits. `SweptWithCare` says when it does no harm: no locking call in
  flight, and no more deposits than the margin (`SWEEP_MARGIN`, in the code 0.1 NEAR or 80 deposits). Nothing in the code enforces either, and
  anyone may sweep; `sweep_in_flight` and `sweep_takes_deposits` show what happens. `AccountsPaidFor` says that no account is opened
  unpaid, which a refund to a closed account does (`storage_unpaid`), and the first fee to each of the three fee accounts if its owner has not registered it. `money` follows both.
* `sync_unstaked_balance` takes no lock and rewrites a record from a view. Theorems about exact books
  assume that it is not called (`MAX_SYNCS = 0`): `restake_panics` shows a correction after which the unstaked total is no longer the sum of
  the records.

## 5. What is proved

Every theorem holds for all pools, weights, thresholds, amounts and bounds, from the assumptions on the
constants that the models state. Further hypotheses are named here, with the run that shows why they are
needed.

### The heartbeat: whatever the pools do

`Heartbeat_proofs` proves, for all drifts and with records corrected by hand, that `CarefulSpec` keeps

    IInv == TypeOK /\ LockDiscipline /\ ClaimsCovered /\ Solvency /\ ReserveWithinClaims

The conjuncts need each other.
The locks make the locking call in flight unique, and its callback finds the pool it was
sent to with the staked or unstaked amount still recorded; so the callback of an *unstake* cannot
panic. That is what `ClaimsCovered` needs: while an unstake is in flight its orders have been taken off and are
accounted for by the promise alone, and a callback that panicked would lose them. The
callback of a *stake* may panic (`restake_panics`); `Solvency` survives that because the stake stays booked in
`contract_account_balance`. `ReserveWithinClaims` makes withdrawals keep `ClaimsCovered`: a claim is paid
from the reserve, both by the same amount.

The proof has one lemma per action; calls that share a shape (`LaunchDirectStake`,
`PerformUnstake`, the clearing) share a lemma. `Invariance` combines them; `TypeCorrect`, `LockDisciplineHolds`,
`ClaimsAlwaysCovered`, `AlwaysSolvent` and `ReserveBounded` follow.

`LockedRecordsStayFrozen` (in `HeartbeatBooks_proofs`) is the action property: `CarefulSpec` never changes the record of a locked pool
before its callback. The index of a pool may change when the list does, so the property compares records by account, and the proof keeps
that no account is listed twice (`IdsDistinct`).

### The heartbeat: exact books

`HeartbeatBooks_proofs` is about `UpgradedSpec`: any number of calls may be in flight, because a deployment clears
`contract_busy`. The pools round by any `DRIFT`, earn, refuse and fail. With no record corrected by hand (`MAX_SYNCS = 0`) this is inductive:

    PInv == TypeOK /\ CallsOK /\ RecordsOK /\ PoolsOK /\ BooksOK

* `CallsOK`: one call per pool, with the lock of that pool held and its record still what the call was sent with.
  No contract-wide lock is needed: two calls never meet in one record.
* `RecordsOK`: `total_unstaked_and_waiting` is the sum of the unstaked records. It is what keeps the callback of a re-stake and the saturating
  subtraction of a retrieval exact. Of the staked records only an inequality holds, because a pool that rounds shows a little less
  than was staked, and its record is lowered when its balance is asked for.
* `PoolsOK`: a pool has unstaked at least what its record says, or will say when the call it has executed settles. Therefore the
  answer for rewards is never below the unstaked record, and no callback takes off more than there is.
* `BooksOK`: the three equations `ClaimsExact`, `BooksExact`, `StakeExplained`, and `ReserveWithinClaims`. What a call has taken out of the totals already is the
  sum over the calls in flight, so sending and settling move an amount from one side to the other.

From it follow `ClaimsAlwaysExact`, `BooksAlwaysExact` and `StakeAlwaysExplained`. With the hypothesis that views do not fail
(`MayFail \cap Views = {}`; a view that fails leaves its locks held, section 6), a pool is locked exactly as long as its call is in flight
(`LockInvariance`, `PoolsAlwaysServeOne`), no callback panics (`NoCallbackPanics`), and for a careful operator the same is true of the
contract-wide lock (`BusyAlwaysInFlight`).

### The heartbeat: what is really there

`HeartbeatHoldings_proofs` compares the books with the account and the pools, of `UpgradedSpec` and again with no record corrected by hand (`MAX_SYNCS = 0`).

* `NearAlwaysBacksBooks`, for any drift: the account holds the NEAR of the books. Its invariant `NearInv` counts deposits that have left the account and not the
  books, NEAR a pool has sent back that no callback has booked, and the storage deposits on top. It needs `SweptWithCare`, that extra balance is swept only with no locking call in flight
  and while the deposits fit in what it leaves, and `AccountsPaidFor` (section 4):
  `sweep_in_flight`, `sweep_takes_deposits` and `storage_unpaid` show what happens otherwise.
* `RecordsAlwaysMatchPools`, for pools that do not round (`DRIFT = 0`): the invariant `HoldInv` says that a pool without an answered call holds what is on record of it, and a
  pool whose call is answered holds what its record will be after the callback (`Outcome`).
* `TotalsAlwaysMatchRecords` (`DRIFT = 0`): with that, `total_actually_staked` is the sum of the records too, the calls in flight counted.
* `MoneyMovesAsInVault` (`DRIFT = 0`, `SweptWithCare`, `AccountsPaidFor`, finitely many pools): the contract implements `Vault`. Storage deposits are part of the debt and of the account, and move both alike. The equations of the books say that what users are owed besides is
  `contract_account_balance` and all records (`OwedIsRecorded`). Pool by pool, a record with what has arrived is no more than the pool holds or has sent back
  (`PoolHolds`), and the sum over the pools and over the calls gives that no more is owed than held (`OwedCovered`). With this at both ends, a step of `Vault` is one
  that changes debt and money alike, or money alone, or credits users (`VaultMoves`); each action is one of them. A drift is excluded because of the sweep: what a pool
  rounded into a retrieval is not on the books, looks like extra balance and is swept, although the record of the staked amount still counts it. (With a drift of 1 and no margin of the sweep, TLC finds that behaviour in `money`.) The run `rounding`, without
  the sweep, checks the refinement with a drift.

### The accounts

`StNear_proofs` proves, for all users, amounts, fees, discounts, cuts, thresholds and bounds, that `Spec` keeps

    IInv == TypeOK /\ BooksMatch /\ OnlyPoolKeepsNear /\ PriceAtLeastOne

and never lowers the price (`PriceNeverFalls`). The assumptions are those stated in `StNear`: names do
not clash, a discount is below 100% (which `liquid_unstake` asserts), the fees on a reward are together at most all of it.

* `OnlyPoolKeepsNear` is what makes the rest inductive. The NEAR of a deposit passes through the available balance of the account; if
  the account were not empty before, the rounding to everything of `take_from_available` could stake
  more than was deposited. Because it is empty, what is taken is exactly what was put in (`TakesAll`), so the books balance and
  the clearing works with the amount that was staked.
* `PriceAtLeastOne` bounds the stNEAR minted by an amount, and so keeps the clearing within what was staked.
* The price under a clearing (`ClearingKeepsPrice`) rests on `BuysWhatItMinted`: an amount *a* that has
  just been paid in buys back exactly the shares that were minted for it, although both
  divisions round down. A partial clearing therefore undoes the deposit, a total one burns at the price or below it. Mint and burn
  at the price are `MintKeepsPrice` and `BurnKeepsPrice`; two steps compose by `PriceTransitive`.
* The fees on a reward are two parts of it, each rounded down twice: `FeesWithinRewards`.

`StNearSums_proofs` proves `SumsMatch` (`SumsAlwaysMatch`): with `IInv`, and the fact that no transfer call in flight has the same
sender and receiver (`CallsDiffer`; a resolution saves both accounts, the sender's last), it is inductive. Most calls change one
account and that of the liquidity pool, and each total by as much (`Moves`, `OneAccount`). The others move stNEAR only
(`OnlyStakeMoves`): a transfer and its resolution between two accounts, a reward to two, a sale between four and the pool. There the
sums need `MaySell`: were the seller one of the three fee accounts, two of the balances changed would be one.

It also proves what a liquidity share is worth. `LiquidityAlwaysKept`: no call but those that say so lowers it. A sale pays the seller no more than is left
after the cuts, which are less than the fee; a clearing gives NEAR for the stNEAR it bought at the price. `LiquidityAlwaysFair`: who adds or removes liquidity costs the others at
most one yocto and a fraction of a share, because each of the two halves of what is paid out is rounded down. The invariant for both is that a liquidity pool without shares owns nothing
(`PoolOwned`): otherwise the first provider would be given what is there.

`TotalsMoveAsInHeartbeat` shows, call by call, that `StNear` does to the totals what a user call of `Heartbeat` does or leaves them alone; the amounts a call may have are bounded in both
models, so it needs that no more than `MAX_SUPPLY` is owed (`OwedBounded`). The proof attempt found `Heartbeat` too strict:
its `StakeFromNslp` did not let the operator stake all the NEAR of the liquidity pool, which `take_from_available` does when it rounds up to everything.

`InitSafe` holds with any accounts registered, so the theorems cover the initial states of the run `pool` as well as those of `Spec`.

### The staking pool

`StakingPool_proofs` proves, for all delegators, amounts, fees, funds, waits and bounds, that `Spec` keeps the conjunction `IInv` of

* `TypeOK` and `SharesWithinStake`, strengthened by a part of the shares that nobody owns, so that there are shares to divide by;
* `SharesAddUp` and `FundCovers`;
* that the balance is not below the one last seen, and equal to it once the epoch has been pinged. The equality is what a
  withdrawal needs: it takes the same amount from both, and would otherwise leave `last_total_balance` above the balance.

`BalancesKept` proves the action property: a call lowers what an account has by what is paid out to it and by nothing else, its own and every other account. An unstake and a
stake move an amount between two fields of the caller and round in its favour; the others gain by the price alone.

`PoolsActAsInHeartbeat` and `RefusalsAsInHeartbeat` close the gap to `Heartbeat`: seen from one account (`View`), each call of a pool is the operation of `PoolAccounts` with a
drift of at most the price of a share, calls of others only let the account earn, and a call that the pool refuses is one that `PoolAccounts` refuses. So what is proved of `Heartbeat` with any drift
holds with these pools.

From the invariant follow `PingAlwaysPossible` (`PingNeverPanics`), `FundLasts`, `SharesCounted`, `PriceAtLeastOne`, `NoDust` (`UnstakeAllLeavesNothing`:
rounding the value down loses less than a share because a share is worth at least one) and `PriceKept` (`PriceNeverFalls`, step by step: a ping with its fee, a stake, an unstake).

The sums over delegators and accounts need no induction over data: `Sums` defines `SumOf(f)` as the number of pairs of an argument and
a number below its value, so its laws (`Sums_proofs`) are facts about the cardinality of finite sets.

### What only TLC checks

Of the properties of the passing runs, the two of liveness (`ClaimsServed`, `LocksReleased`) are out of the prover's reach: they need ENABLED. All others are
theorems. What the runs add to those is the instances outside the hypotheses: `rounding` has pools that round *and* records corrected by hand, as long as receipts of one pool keep their order,
and there `NearBacksBooks` and `VaultSpec` are model-checked only.

## 6. What is not modelled

* `vote` and the staking key of a staking pool, and restaking, which its source has commented out.
* Reward meters and trip meters of an account, which nothing depends on.
* `stNEAR` sent to the contract by `ft_on_transfer` of another contract: the receiver's answer in `StNear` is any amount
  up to what was sent.
* That a provider can always remove liquidity. With few units left the assertion at `lib.rs:819` may refuse a
  removal because two values were rounded apart; the repository does not promise otherwise.
* Overflow of 128-bit amounts: the supply of NEAR is far below the limit and products use 256 bits.
* Gas: a call out of gas is one that may fail (`MayFail`); a callback out of gas is not modelled.
* The delay promised to a claim (`internal_compute_current_unstaking_delay`) is one of the two values it can have, chosen freely in `StNear`.
* A view that fails: `Heartbeat` has the step (`CallbackPanics`), and both locks of `distribute_rewards` stay held, as a comment of the code
  (`distribute.rs:572`) warns for another callback. The theorems about the books allow it, since a panic changes nothing; those about locks exclude it by hypothesis.
* Accounts opened unpaid: `Heartbeat` has the steps (`RefundReopens`, `OpensUnpaid`), `rebalance` takes the first, and the theorems about books, records and locks
  allow both. `NearAlwaysBacksBooks` and `MoneyMovesAsInVault` exclude them by hypothesis, since the deposit of such an account is owed and was never paid in.
* A list of pools that changes while a promise is pending, and the lock of a pool released by hand while it has a call in flight: `Next` allows both, no
  run and no theorem is about them. `StNear` has neither `set_busy` nor `migrate`, so `PriceFrozenWhileBusy` says that every call that moves the price looks at the lock.
* Owner settings: each assigns a parameter. The parameters are constants, and the theorems quantify over them. What they need of
  them is stated as assumptions; of `FeesAssumption`, `set_contract_params` does not check all.
* Reward meters (deprecated), views, the epoch contract: no behaviour beyond assignments and reads. Of the migrations, the fields of old
  states are declarations; `migrate` is modelled.

## 7. Plan

Done: `Heartbeat` with its invariants, exact books, refinement of `Vault` and theorems; `StNear` with the liquidity pool
and the token calls, its invariants, price, liquidity and its relation to `Heartbeat`; `StakingPool`, its theorems, and its relation to the pools of `Heartbeat`.
What is left:

1. The refinement of `Vault` for pools that round, with a bound on what a sweep may take in terms of the roundings since the last one.
2. The exact books with records corrected by hand, for the corrections that keep the sum of the unstaked records.
3. The delay of an unstake computed from the records of the pools.
