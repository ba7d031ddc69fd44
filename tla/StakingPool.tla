---------------------------- MODULE StakingPool ----------------------------
(***************************************************************************)
(* The staking pool the Metapool contract delegates to, as the repository  *)
(* has it for its tests (test-core-staking-pool): delegators own shares of *)
(* the staked balance, rewards are found by comparing the balance of the   *)
(* account with the last one seen, and every division is rounded so that   *)
(* the price of a share does not fall, at the expense of a guarantee fund. *)
(*                                                                         *)
(* Every call of the contract begins with a ping and then goes on with     *)
(* the totals the ping has left, so the contract's fields are one record   *)
(* that a call passes from step to step.  An assertion is a guard.         *)
(* Restaking is commented out in the source (internal_restake), so a call  *)
(* changes nothing outside the record but the balance of the account.      *)
(***************************************************************************)
EXTENDS ShareMath, FiniteSets

CONSTANTS
  Delegators,             \* accounts that call the pool
  OWNER,                  \* one of them, who earns the fee on rewards
  Deposits,               \* amounts attached to a call
  Requests,               \* amounts passed to a call
  Rewards,                \* what an epoch may add to the balance of the account
  Fees,                   \* reward fees the owner may set
  NUM_EPOCHS_TO_UNLOCK,
  STAKE_SHARE_PRICE_GUARANTEE_FUND,
  INITIAL_BALANCE,        \* balance of the account when the pool is created
  MAX_BALANCE,            \* bound: balance of the account
  MAX_EPOCH,              \* bound: epochs
  MAX_CONVERSIONS         \* bound: calls that stake or unstake

\* The reward fee is at most all of the reward (assert_valid), and the balance
\* at the start leaves something to stake.
ASSUME PoolAssumption ==
  /\ IsFiniteSet(Delegators) /\ OWNER \in Delegators
  /\ Deposits \subseteq Nat \ {0} /\ Requests \subseteq Nat \ {0} /\ Rewards \subseteq Nat
  /\ Fees \subseteq [numerator : Nat, denominator : Nat \ {0}]
  /\ \A f \in Fees : f.numerator <= f.denominator
  /\ NUM_EPOCHS_TO_UNLOCK \in Nat
  /\ STAKE_SHARE_PRICE_GUARANTEE_FUND \in Nat
  /\ INITIAL_BALANCE \in Nat /\ INITIAL_BALANCE > STAKE_SHARE_PRICE_GUARANTEE_FUND
  /\ MAX_BALANCE \in Nat /\ MAX_EPOCH \in Nat /\ MAX_CONVERSIONS \in Nat

VARIABLES
  pool,          \* the fields of StakingContract
  epoch,         \* env::epoch_height()
  balance,       \* env::account_locked_balance() + env::account_balance()
  conversions    \* history: calls that have staked or unstaked

vars == <<pool, epoch, balance, conversions>>

Account ==
  [unstaked : Nat, stake_shares : Nat, unstaked_available_epoch_height : Nat]

Pool ==
  [accounts : [Delegators -> Account], total_staked_balance : Nat,
   total_stake_shares : Nat, last_total_balance : Nat, last_epoch_height : Nat,
   reward_fee_fraction : Fees, paused : BOOLEAN]

\* An account that is not stored reads as this one.
NoAccount ==
  [unstaked |-> 0, stake_shares |-> 0, unstaked_available_epoch_height |-> 0]

\* Mutant: deleted when nothing is unstaked.
MutSaved(p, id, account) ==
  [p EXCEPT !.accounts[id] = IF account.unstaked > 0 THEN account ELSE NoAccount]
\* internal_save_account: an account without balances is deleted.
Saved(p, id, account) ==
  [p EXCEPT !.accounts[id] =
     IF account.unstaked > 0 \/ account.stake_shares > 0 THEN account ELSE NoAccount]

-----------------------------------------------------------------------------
(* Amounts and shares, rounded down or up.                                 *)

\* (a + b - 1) / b
QuotientUp(a, b) == (a + (b - 1)) \div b

SharesDown(p, amount) ==
  proportional(p.total_stake_shares, amount, p.total_staked_balance)
MutRoundedDown(p, amount) == SharesDown(p, amount)     \* Mutant: rounds down.
SharesUp(p, amount) ==
  QuotientUp(p.total_stake_shares * amount, p.total_staked_balance)
AmountDown(p, shares) ==
  proportional(p.total_staked_balance, shares, p.total_stake_shares)
AmountUp(p, shares) ==
  QuotientUp(p.total_staked_balance * shares, p.total_stake_shares)

-----------------------------------------------------------------------------
(* The steps calls are made of.                                            *)

\* RewardFeeFraction::multiply
FeeOf(p, reward) ==
  proportional(p.reward_fee_fraction.numerator, reward, p.reward_fee_fraction.denominator)

(***************************************************************************)
(* internal_ping, once per epoch: what the balance has grown by is the     *)
(* reward.  The delegators' part raises the price, then the owner's fee    *)
(* buys shares at the new price.                                           *)
(***************************************************************************)
MutRewarded(p, reward) ==                \* Mutant: the fee is counted twice.
  LET fee    == FeeOf(p, reward)
      raised == [p EXCEPT !.total_staked_balance = @ + reward]
      shares == SharesDown(raised, fee)
  IN  [raised EXCEPT !.total_staked_balance = @ + fee,
                     !.total_stake_shares = @ + shares,
                     !.accounts[OWNER].stake_shares = @ + shares]
Rewarded(p, reward) ==
  LET fee    == FeeOf(p, reward)
      raised == [p EXCEPT !.total_staked_balance = @ + (reward - fee)]
      shares == SharesDown(raised, fee)
  IN  [raised EXCEPT !.total_staked_balance = @ + fee,
                     !.total_stake_shares = @ + shares,
                     !.accounts[OWNER].stake_shares = @ + shares]
CanPing == pool.last_epoch_height = epoch \/ balance >= pool.last_total_balance
Pinged ==
  IF pool.last_epoch_height = epoch THEN pool
  ELSE [Rewarded(pool, balance - pool.last_total_balance) EXCEPT
          !.last_epoch_height = epoch, !.last_total_balance = balance]

\* internal_deposit
Deposited(p, id, amount) ==
  [Saved(p, id, [p.accounts[id] EXCEPT !.unstaked = @ + amount]) EXCEPT
     !.last_total_balance = @ + amount]

\* internal_withdraw
MutCanWithdraw(p, id, amount) ==         \* Mutant: more than the account has.
  amount > 0 /\ p.accounts[id].unstaked_available_epoch_height <= epoch
CanWithdraw(p, id, amount) ==
  /\ amount > 0
  /\ p.accounts[id].unstaked >= amount
  /\ p.accounts[id].unstaked_available_epoch_height <= epoch
MutWithdrawn(p, id, amount) ==           \* Mutant: the balance last seen is forgotten.
  Saved(p, id, [p.accounts[id] EXCEPT !.unstaked = @ - amount])
Withdrawn(p, id, amount) ==
  [Saved(p, id, [p.accounts[id] EXCEPT !.unstaked = @ - amount]) EXCEPT
     !.last_total_balance = @ - amount]

(***************************************************************************)
(* internal_stake: the account pays its shares' value rounded down, the    *)
(* total grows by the value rounded up.                                    *)
(***************************************************************************)
MutCharge(p, amount) == amount           \* Mutant: the whole amount is charged.
Charge(p, amount) == AmountDown(p, SharesDown(p, amount))
CanStake(p, id, amount) ==
  /\ amount > 0
  /\ SharesDown(p, amount) > 0 /\ Charge(p, amount) > 0
  /\ p.accounts[id].unstaked >= Charge(p, amount)
MutStaked(p, id, amount) ==              \* Mutant: the total grows by what is charged.
  [Saved(p, id, [p.accounts[id] EXCEPT !.unstaked = @ - Charge(p, amount),
                                       !.stake_shares = @ + SharesDown(p, amount)]) EXCEPT
     !.total_staked_balance = @ + Charge(p, amount),
     !.total_stake_shares = @ + SharesDown(p, amount)]
Staked(p, id, amount) ==
  [Saved(p, id, [p.accounts[id] EXCEPT !.unstaked = @ - Charge(p, amount),
                                       !.stake_shares = @ + SharesDown(p, amount)]) EXCEPT
     !.total_staked_balance = @ + AmountUp(p, SharesDown(p, amount)),
     !.total_stake_shares = @ + SharesDown(p, amount)]

(***************************************************************************)
(* inner_unstake: the account pays shares rounded up and receives their    *)
(* value rounded up; the total loses their value rounded down.             *)
(***************************************************************************)
MutCanUnstake(p, id, amount) ==          \* Mutant: one share must stay.
  amount > 0 /\ p.accounts[id].stake_shares > SharesUp(p, amount)
CanUnstake(p, id, amount) ==
  /\ amount > 0 /\ SharesUp(p, amount) > 0 /\ AmountUp(p, SharesUp(p, amount)) > 0
  /\ p.accounts[id].stake_shares >= SharesUp(p, amount)
MutUnstaked(p, id, amount) ==            \* Mutant: what is unstaked is not locked.
  LET shares == SharesUp(p, amount) IN
  [Saved(p, id, [p.accounts[id] EXCEPT !.unstaked = @ + AmountUp(p, shares),
                                       !.stake_shares = @ - shares]) EXCEPT
     !.total_staked_balance = @ - AmountDown(p, shares),
     !.total_stake_shares = @ - shares]
Unstaked(p, id, amount) ==
  LET shares == SharesUp(p, amount) IN
  [Saved(p, id, [unstaked |-> p.accounts[id].unstaked + AmountUp(p, shares),
                 stake_shares |-> p.accounts[id].stake_shares - shares,
                 unstaked_available_epoch_height |-> epoch + NUM_EPOCHS_TO_UNLOCK]) EXCEPT
     !.total_staked_balance = @ - AmountDown(p, shares),
     !.total_stake_shares = @ - shares]

-----------------------------------------------------------------------------
(* The calls.                                                              *)

\* The call ends with the fields p, and with the account's balance changed by
\* what came in and went out.
Ends(p, received, paid) ==
  /\ CanPing
  /\ pool' = p
  /\ balance' = balance + received - paid
  /\ UNCHANGED epoch

\* A call that converts amounts and shares; how many is bounded.
Converts == conversions < MAX_CONVERSIONS /\ conversions' = conversions + 1

Ping == pool.last_epoch_height # epoch /\ Ends(Pinged, 0, 0) /\ UNCHANGED conversions

Deposit(id, amount) ==
  /\ balance + amount <= MAX_BALANCE
  /\ Ends(Deposited(Pinged, id, amount), amount, 0)
  /\ UNCHANGED conversions

DepositAndStake(id, amount) ==
  LET p == Deposited(Pinged, id, amount) IN
  /\ balance + amount <= MAX_BALANCE
  /\ CanStake(p, id, amount)
  /\ Ends(Staked(p, id, amount), amount, 0)
  /\ Converts

Withdraw(id, amount) ==
  /\ CanWithdraw(Pinged, id, amount)
  /\ balance >= amount
  /\ Ends(Withdrawn(Pinged, id, amount), 0, amount)
  /\ UNCHANGED conversions
WithdrawAll(id) == Withdraw(id, Pinged.accounts[id].unstaked)

Stake(id, amount) ==
  /\ CanStake(Pinged, id, amount)
  /\ Ends(Staked(Pinged, id, amount), 0, 0)
  /\ Converts
StakeAll(id) == Stake(id, Pinged.accounts[id].unstaked)

Unstake(id, amount) ==
  /\ CanUnstake(Pinged, id, amount)
  /\ Ends(Unstaked(Pinged, id, amount), 0, 0)
  /\ Converts
UnstakeAll(id) == Unstake(id, AmountDown(Pinged, Pinged.accounts[id].stake_shares))

UpdateRewardFeeFraction(fee) ==
  /\ fee # pool.reward_fee_fraction
  /\ Ends([Pinged EXCEPT !.reward_fee_fraction = fee], 0, 0)
  /\ UNCHANGED conversions
PauseStaking ==
  /\ ~pool.paused
  /\ Ends([Pinged EXCEPT !.paused = TRUE], 0, 0)
  /\ UNCHANGED conversions
ResumeStaking ==
  /\ pool.paused
  /\ Ends([Pinged EXCEPT !.paused = FALSE], 0, 0)
  /\ UNCHANGED conversions

OwnerCalls ==
  \/ \E fee \in Fees : UpdateRewardFeeFraction(fee)
  \/ PauseStaking
  \/ ResumeStaking

DelegatorCalls(id) ==
  \/ \E amount \in Deposits : Deposit(id, amount) \/ DepositAndStake(id, amount)
  \/ \E amount \in Requests : Withdraw(id, amount) \/ Stake(id, amount) \/ Unstake(id, amount)
  \/ WithdrawAll(id) \/ StakeAll(id) \/ UnstakeAll(id)

\* An epoch ends: the protocol pays the validator.
NewEpoch(reward) ==
  /\ epoch < MAX_EPOCH
  /\ balance + reward <= MAX_BALANCE
  /\ epoch' = epoch + 1
  /\ balance' = balance + reward
  /\ UNCHANGED <<pool, conversions>>

\* new: all of the balance but the fund is staked, for shares nobody owns.
NewPool(fee) ==
  [accounts |-> [id \in Delegators |-> NoAccount],
   total_staked_balance |-> INITIAL_BALANCE - STAKE_SHARE_PRICE_GUARANTEE_FUND,
   total_stake_shares |-> INITIAL_BALANCE - STAKE_SHARE_PRICE_GUARANTEE_FUND,
   last_total_balance |-> INITIAL_BALANCE,
   last_epoch_height |-> 0,
   reward_fee_fraction |-> fee,
   paused |-> FALSE]
Init ==
  /\ \E fee \in Fees : pool = NewPool(fee)
  /\ epoch = 0 /\ balance = INITIAL_BALANCE
  /\ conversions = 0

Next ==
  \/ Ping
  \/ \E id \in Delegators : DelegatorCalls(id)
  \/ OwnerCalls
  \/ \E reward \in Rewards : NewEpoch(reward)

Spec == Init /\ [][Next]_vars
=============================================================================
