----------------------- MODULE StakingPoolProperties -----------------------
(***************************************************************************)
(* What the staking pool promises to its delegators, the Metapool contract *)
(* among them, and that the contract's view of its account changes as      *)
(* Heartbeat assumes.                                                      *)
(***************************************************************************)
EXTENDS StakingPool, PoolAccounts, Sums

TypeOK ==
  /\ pool \in Pool
  /\ epoch \in Nat /\ balance \in Nat /\ conversions \in Nat

AllShares(p)   == SumOf([id \in Delegators |-> p.accounts[id].stake_shares])
AllUnstaked(p) == SumOf([id \in Delegators |-> p.accounts[id].unstaked])

(***************************************************************************)
(* A share is never worth less than one (lib.rs:48-50): the calculation of *)
(* charges and of unstake_all relies on it.                                *)
(***************************************************************************)
SharesWithinStake ==
  0 < pool.total_stake_shares /\ pool.total_stake_shares <= pool.total_staked_balance

(***************************************************************************)
(* Every share is either an account's or one of those nobody owns, bought  *)
(* with the initial balance (lib.rs:93 and 161-164).                       *)
(***************************************************************************)
SharesAddUp ==
  pool.total_stake_shares =
    (INITIAL_BALANCE - STAKE_SHARE_PRICE_GUARANTEE_FUND) + AllShares(pool)

(***************************************************************************)
(* Rounding in favour of the delegators costs the fund at most one unit    *)
(* for each call that converts (lib.rs:23-24): until as many calls as the  *)
(* fund has units were made, the account holds all that is staked and all  *)
(* that was unstaked.                                                      *)
(***************************************************************************)
FundCovers ==
  pool.total_staked_balance + AllUnstaked(pool) + STAKE_SHARE_PRICE_GUARANTEE_FUND
    <= pool.last_total_balance + conversions

(***************************************************************************)
(* No call of a pool can be blocked by the assertion of internal_ping: the *)
(* balance is never less than the one last seen, whatever was paid out.    *)
(***************************************************************************)
PingNeverPanics == CanPing

(***************************************************************************)
(* Unstaking the whole value of an account takes all of its shares,        *)
(* although the value was rounded down and the shares are rounded up: no   *)
(* dust stays behind, and whatever get_account shows can be unstaked.      *)
(***************************************************************************)
UnstakeAllLeavesNothing ==
  \A id \in Delegators :
     LET shares == pool.accounts[id].stake_shares IN
     shares > 0 => SharesUp(pool, AmountDown(pool, shares)) = shares

(***************************************************************************)
(* The price of a share never falls, with any order of calls of any        *)
(* delegators and any fee (internal.rs:104-106 and 161-163).               *)
(***************************************************************************)
PriceNeverFalls ==
  [][pool'.total_staked_balance * pool.total_stake_shares
       >= pool.total_staked_balance * pool'.total_stake_shares]_vars

-----------------------------------------------------------------------------
\* An account as get_account shows it.
View(p, id) ==
  [staked |-> AmountDown(p, p.accounts[id].stake_shares),
   unstaked |-> p.accounts[id].unstaked,
   available_epoch |-> p.accounts[id].unstaked_available_epoch_height]

Total(p, id) == View(p, id).staked + View(p, id).unstaked

(***************************************************************************)
(* What an account has never falls by a call, its own or another's, except *)
(* for what is paid out to it: in particular it can always unstake at      *)
(* least what it staked (internal.rs:82-84).                               *)
(***************************************************************************)
KeepsBalance(id) ==
  LET lost == Monus(Total(pool, id), Total(pool', id)) IN
  lost > 0 => balance >= balance' + lost /\ \E a \in 1..balance : Withdraw(id, a)
BalanceKept == [][\A id \in Delegators : KeepsBalance(id)]_vars

-----------------------------------------------------------------------------
(* The pool as Heartbeat has it.                                           *)

\* How far the rounding of one call reaches: the price of a share.
Drift(p) == QuotientUp(p.total_staked_balance, p.total_stake_shares)

\* The account is as given, but for rewards, and for an epoch that is over.
Becomes(account, seen) ==
  /\ seen.unstaked = account.unstaked
  /\ seen.staked >= account.staked
  /\ \/ seen.available_epoch = account.available_epoch
     \/ seen.available_epoch <= epoch /\ account.available_epoch <= epoch

(***************************************************************************)
(* Each call of the Metapool contract does to the account it sees what the *)
(* pools of Heartbeat do with a rounding of at most the price of a share,  *)
(* and rewards; other calls only let it earn.  Any delegator may be the    *)
(* contract.                                                               *)
(***************************************************************************)
ActsAsInHeartbeat(id) ==
  LET before == View(pool, id)
      after  == View(pool', id)
      drifts == 0..Drift(Pinged)
  IN  /\ \A a \in Deposits :
            DepositAndStake(id, a) =>
              \E d \in drifts :
                 d < a /\ Becomes(AfterDepositAndStake(before, a, d), after)
      /\ \A a \in Requests :
            /\ Stake(id, a) =>
                 \E d \in drifts :
                    /\ d < a /\ before.unstaked >= a - d
                    /\ Becomes(AfterStake(before, a, d), after)
            /\ Unstake(id, a) =>
                 /\ View(Pinged, id).staked >= a
                 /\ \E d \in drifts :
                       Becomes(AfterUnstake(before, a, d, epoch + NUM_EPOCHS_TO_UNLOCK),
                               after)
      /\ WithdrawAll(id) =>
           Becomes(AfterWithdrawAll(before), after)
             /\ balance - balance' = before.unstaked
      /\ \/ \E other \in Delegators \ {id} : DelegatorCalls(other)
         \/ Ping \/ OwnerCalls \/ \E r \in Rewards : NewEpoch(r)
         => Becomes(before, after)
AsInHeartbeat == [][\A id \in Delegators : ActsAsInHeartbeat(id)]_vars

(***************************************************************************)
(* A call the pool refuses is one the pools of Heartbeat refuse, so that   *)
(* Heartbeat leaves out no failure.                                        *)
(***************************************************************************)
RefusesAsInHeartbeat ==
  \A id \in Delegators :
     LET account == View(Pinged, id)
         drift   == Drift(Pinged)
     IN  /\ \A a \in Deposits :
               CanStake(Deposited(Pinged, id, a), id, a) \/ RefusesDeposit(a, drift)
         /\ \A a \in Requests :
               /\ CanStake(Pinged, id, a) \/ RefusesStake(account, a, drift)
               /\ CanUnstake(Pinged, id, a) \/ RefusesUnstake(account, a)
         /\ \/ CanWithdraw(Pinged, id, account.unstaked)
            \/ RefusesWithdraw(account, epoch)
=============================================================================
