---------------------------- MODULE PoolAccounts ----------------------------
(***************************************************************************)
(* What the Metapool contract can tell of its account in a staking pool    *)
(* (get_account of test-core-staking-pool: staked and unstaked balance,    *)
(* and when the latter is released), and what a call does to it.  The pool *)
(* keeps shares and rounds in the delegator's favour; d is what that makes *)
(* of a call.  Heartbeat uses these operators for its pools, and           *)
(* StakingPool, which has the shares, is checked to stay within them.      *)
(***************************************************************************)
EXTENDS ShareMath

PoolAccount == [staked : Nat, unstaked : Nat, available_epoch : Nat]

EmptyAccount == [staked |-> 0, unstaked |-> 0, available_epoch |-> 0]

\* Rewards raise the value of the staked shares.
Earned(account, r) == [account EXCEPT !.staked = @ + r]

\* deposit_and_stake: an uncharged rest of the deposit stays unstaked.
AfterDepositAndStake(account, amount, d) ==
  [account EXCEPT !.staked = @ + amount - d, !.unstaked = @ + d]

AfterStake(account, amount, d) ==
  [account EXCEPT !.staked = @ + amount - d, !.unstaked = @ - (amount - d)]

\* unstake: a little more than asked for is unstaked, and locked for some epochs.
AfterUnstake(account, amount, d, available_epoch) ==
  [staked |-> Monus(account.staked, amount + d),
   unstaked |-> account.unstaked + amount + d,
   available_epoch |-> available_epoch]

AfterWithdrawAll(account) == [account EXCEPT !.unstaked = 0]

-----------------------------------------------------------------------------
(* When the pool refuses a call.                                           *)

\* An amount that buys no share.
RefusesDeposit(amount, drift) == amount <= drift
RefusesStake(account, amount, drift) ==
  amount <= drift \/ account.unstaked < amount
RefusesUnstake(account, amount) == account.staked < amount
\* withdraw_all needs something to withdraw that is released.
RefusesWithdraw(account, epoch) ==
  account.unstaked = 0 \/ account.available_epoch > epoch
=============================================================================
