-------------------------- MODULE StNearProperties --------------------------
(***************************************************************************)
(* What is claimed of the accounts: every total is the sum of its parts,   *)
(* nobody gains by rounding, and the totals change as Heartbeat says.      *)
(***************************************************************************)
EXTENDS StNear, Sums

\* The types of the state: no balance and no total is ever negative, and every
\* account is one that can exist (internal_save_account, internal.rs:480-497).
TypeOK ==
  /\ DOMAIN accounts \subseteq AccountIds
  /\ accounts \in [DOMAIN accounts -> Account]
  /\ contract_busy \in BOOLEAN
  /\ contract_account_balance \in Nat /\ total_available \in Nat
  /\ retrieved_for_unstake_claims \in Nat /\ total_unstake_claims \in Nat
  /\ epoch_stake_orders \in Nat /\ epoch_unstake_orders \in Nat
  /\ total_for_staking \in Nat /\ total_stake_shares \in Nat
  /\ resolving \subseteq [sender : Users, receiver : Named, amount : Nat]
  /\ storage_paid \subseteq Named
  /\ epoch \in Nat

\* The balances of all accounts but the liquidity pool's.
AvailableBalances == [id \in Named |-> AccountOf(id).available]
StakeBalances     == [id \in Named |-> AccountOf(id).stake_shares]
UnstakedBalances  == [id \in Named |-> AccountOf(id).unstaked]
NslpBalances      == [id \in Named |-> AccountOf(id).nslp_shares]

(***************************************************************************)
(* The totals the contract works with are the sums over its accounts, which*)
(* it never recomputes: lib.rs:129 and the totals of account.rs.  The      *)
(* shares of the liquidity pool are totalled in its own account.           *)
(***************************************************************************)
SumsMatch ==
  /\ total_stake_shares = SumOf(StakeBalances) + nslp_account.stake_shares
  /\ total_available = SumOf(AvailableBalances) + nslp_account.available
  /\ total_unstake_claims = SumOf(UnstakedBalances) + nslp_account.unstaked
  /\ nslp_account.nslp_shares = SumOf(NslpBalances)

(***************************************************************************)
(* The NEAR the contract believes to hold is the available NEAR, the       *)
(* reserve and what waits to be staked (native_transfer, internal_deposit).*)
(***************************************************************************)
BooksMatch ==
  contract_account_balance =
    total_available + retrieved_for_unstake_claims + epoch_stake_orders

\* Only the liquidity pool keeps available NEAR from call to call (lib.rs:133):
\* what a call moves through an account it moves out again, to the last yocto.
OnlyPoolKeepsNear == \A id \in DOMAIN accounts \ {NSLP} : accounts[id].available = 0

\* One stNEAR is worth at least one NEAR: burning, minting, fees and clearing
\* all round, and none of them may round below the price of the first deposit.
PriceAtLeastOne == total_stake_shares <= total_for_staking

(***************************************************************************)
(* The value of one stNEAR never falls, not by one unit of rounding.  A    *)
(* clearing burns rounded stNEAR for NEAR that is not rounded, but right   *)
(* after a deposit it burns exactly the stNEAR that the deposit minted     *)
(* (internal.rs:364-412 with 134-174).                                     *)
(***************************************************************************)
PriceNeverFalls ==
  [][total_stake_shares > 0
     => total_for_staking' * total_stake_shares >= total_for_staking * total_stake_shares']_vars

\* While a reward is being asked for no call changes the price at which it will
\* be shared out (assert_not_busy).
PriceFrozenWhileBusy ==
  [][contract_busy /\ contract_busy' => UNCHANGED stakeVars]_vars

(***************************************************************************)
(* A call that neither adds nor removes liquidity leaves the liquidity     *)
(* pool worth at least as much as before: swaps earn it their fee, a       *)
(* clearing costs it nothing (lib.rs:718).  Only stake_from_nslp may round *)
(* against it.                                                             *)
(***************************************************************************)
LiquidityKeepsValue ==
  [][nslp_account'.nslp_shares = nslp_account.nslp_shares
       /\ ~(\E a \in Requests : StakeFromNslp(a))
     => total_pool_value' >= total_pool_value]_vars

\* A share of the pool does not lose value to those who join or leave, beyond
\* one yocto and one share of rounding.
LiquidityFair ==
  [][~(\E a \in Requests : StakeFromNslp(a))
     => (total_pool_value' + 1) * nslp_account.nslp_shares
          >= total_pool_value * (nslp_account'.nslp_shares - 1)]_vars

(***************************************************************************)
(* Heartbeat models the user calls by what they do to the totals, with any *)
(* amounts.  Every call modelled here, account by account, is one of them, *)
(* or leaves the totals alone.  The registration of accounts, which both   *)
(* models have, is left out of the comparison.                             *)
(***************************************************************************)
H == INSTANCE Heartbeat WITH
       PoolIds <- {}, WeightLists <- {}, Amounts <- 1..MAX_SUPPLY, MayFail <- {},
       DRIFT <- 0, MIN_STAKE_AMOUNT <- 1, TEN_NEAR <- 1, ORDERS_DUST <- 0,
       UNSTAKED_YOCTOS_TO_IGNORE <- 0, MIN_STAKE_UNSTAKE_AMOUNT_MOVEMENT <- 1,
       ONE_NEAR <- 1, SWEEP_MARGIN <- 0, MIN_BALANCE_FOR_STORAGE <- 0,
       MAX_ACCOUNTS <- 0, registered <- 0,
       INITIAL_BALANCE <- 0, CAP_BP <- 0, MAX_SYNCS <- 0,
       staking_paused <- FALSE, total_actually_staked <- 0,
       total_unstaked_and_waiting <- 0, unstaked_for_rebalance <- 0,
       staking_pools <- << >>, promises <- {}, pool_account <- << >>,
       env_balance <- contract_account_balance

TotalsAsInHeartbeat == [][H!UserCalls \/ HeartbeatCalls]_(H!vars)
=============================================================================
