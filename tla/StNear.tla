------------------------------- MODULE StNear -------------------------------
(***************************************************************************)
(* The accounts of the Metapool contract: who owns which part of the       *)
(* totals that Heartbeat keeps as plain numbers.  An account holds stNEAR  *)
(* (stake_shares), shares of the liquidity pool (nslp_shares), NEAR being  *)
(* unstaked and NEAR available.  The liquidity pool is itself an account,  *)
(* which sells NEAR for stNEAR at a discount and gets rid of that stNEAR   *)
(* against the deposits of others (lib.rs, account.rs, internal.rs, and    *)
(* the registration of accounts, empty_nep_145.rs).                        *)
(*                                                                         *)
(* What Heartbeat models in detail is here one environment step, Cycle,    *)
(* and the callback that credits rewards.  ft_transfer_call is in two      *)
(* halves: the transfer, and its resolution after the receiver's answer.   *)
(***************************************************************************)
EXTENDS ShareMath, FiniteSets

CONSTANTS
  Users,                  \* accounts whose owners call the contract
  Lockups,                \* accounts named .lockup.near, served by the lockup contract
  NSLP, OPERATOR, TREASURY, DEVELOPERS,
  Deposits,               \* amounts attached to a call
  Requests,               \* amounts passed to a call
  RewardAmounts,          \* rewards a staking pool may report
  Transfers,              \* transfer calls that may be in flight: a bound of the model
  NUM_EPOCHS_TO_UNLOCK,   \* types.rs, 4
  Delays,                 \* what internal_compute_current_unstaking_delay may say
  STORAGE_COST_YOCTOS,    \* empty_nep_145.rs
  ONE_MILLI_NEAR,         \* types.rs
  min_deposit_amount,
  nslp_liquidity_target, nslp_max_discount_basis_points, nslp_min_discount_basis_points,
  treasury_swap_cut_basis_points, operator_swap_cut_basis_points,
  DEVELOPERS_SWAP_CUT_BASIS_POINTS,
  operator_rewards_fee_basis_points, DEVELOPERS_REWARDS_FEE_BASIS_POINTS,
  MAX_SUPPLY,             \* bound: NEAR owed to users
  MAX_EPOCH               \* bound: epochs

FeeAccounts == {OPERATOR, TREASURY, DEVELOPERS}
Named       == Users \cup Lockups \cup FeeAccounts    \* NSLP has no valid name
AccountIds  == Named \cup {NSLP}

ASSUME IdsAssumption ==
  /\ IsFiniteSet(Users) /\ IsFiniteSet(Lockups)
  /\ Users \cap Lockups = {} /\ FeeAccounts \cap Lockups = {}
  /\ NSLP \notin Named
  /\ Cardinality(FeeAccounts) = 3

ASSUME AmountsAssumption ==
  /\ Deposits \subseteq Nat /\ Requests \subseteq Nat
  /\ RewardAmounts \subseteq Nat
  /\ NUM_EPOCHS_TO_UNLOCK \in Nat \ {0}
  /\ Delays \subseteq {NUM_EPOCHS_TO_UNLOCK, 2 * NUM_EPOCHS_TO_UNLOCK}
  /\ STORAGE_COST_YOCTOS \in Nat
  /\ ONE_MILLI_NEAR \in Nat
  /\ min_deposit_amount \in Nat
  /\ MAX_SUPPLY \in Nat /\ MAX_EPOCH \in Nat

\* A discount below 100 %, which liquid_unstake asserts; fees are parts of a whole.
ASSUME FeesAssumption ==
  /\ nslp_liquidity_target \in Nat \ {0}
  /\ nslp_min_discount_basis_points \in Nat
  /\ nslp_max_discount_basis_points \in nslp_min_discount_basis_points..9999
  /\ treasury_swap_cut_basis_points \in Nat
  /\ operator_swap_cut_basis_points \in Nat
  /\ DEVELOPERS_SWAP_CUT_BASIS_POINTS \in Nat
  /\ operator_rewards_fee_basis_points \in Nat
  /\ DEVELOPERS_REWARDS_FEE_BASIS_POINTS \in Nat
  /\ operator_rewards_fee_basis_points + DEVELOPERS_REWARDS_FEE_BASIS_POINTS <= 10000

VARIABLES
  accounts,                      \* the registered accounts
  contract_busy,
  contract_account_balance,
  retrieved_for_unstake_claims,
  total_available,
  epoch_stake_orders,
  epoch_unstake_orders,
  total_for_staking,             \* value of all the stNEAR
  total_stake_shares,            \* the stNEAR
  total_unstake_claims,
  resolving,                     \* transfer calls waiting for their resolution
  storage_paid,                  \* history: accounts whose storage deposit the contract holds
  epoch

orderVars == <<epoch_stake_orders, epoch_unstake_orders>>
claimVars == <<total_unstake_claims, retrieved_for_unstake_claims>>
stakeVars == <<total_for_staking, total_stake_shares>>
nearVars  == <<total_available, contract_account_balance>>
callVars  == <<contract_busy, resolving, epoch>>
vars == <<accounts, storage_paid, orderVars, claimVars, stakeVars, nearVars, callVars>>

-----------------------------------------------------------------------------
(* Accounts and shares.                                                    *)

Account ==
  [available : Nat, stake_shares : Nat, unstaked : Nat,
   unstaked_requested_unlock_epoch : Nat, nslp_shares : Nat]

NoAccount ==
  [available |-> 0, stake_shares |-> 0, unstaked |-> 0,
   unstaked_requested_unlock_epoch |-> 0, nslp_shares |-> 0]

\* accounts.get(id).unwrap_or_default()
AccountOf(id) == IF id \in DOMAIN accounts THEN accounts[id] ELSE NoAccount
nslp_account  == AccountOf(NSLP)

\* Save the account of id, and another one.
Save(id, account) ==
  accounts' = [k \in DOMAIN accounts \cup {id} |-> IF k = id THEN account ELSE accounts[k]]
SaveBoth(id, account, other, otherAccount) ==
  accounts' = [k \in DOMAIN accounts \cup {id, other} |->
    IF k = id THEN account ELSE IF k = other THEN otherAccount ELSE accounts[k]]

MutCanBeClosed(account) ==             \* Mutant: a claim is forgotten.
  account.available = 0 /\ account.stake_shares = 0 /\ account.nslp_shares = 0
can_be_closed(account) ==
  /\ account.available = 0 /\ account.unstaked = 0
  /\ account.stake_shares = 0 /\ account.nslp_shares = 0

is_close(requested, total) ==
  requested >= Monus(total, ONE_MILLI_NEAR) /\ requested <= total + ONE_MILLI_NEAR

MutTaken(id, available, requested) ==  \* Mutant: a lockup account gets one too few.
  IF id \in Lockups THEN Monus(requested, 1) ELSE requested
\* What take_from_available takes: everything, when that is close to the request.
Taken(id, available, requested) ==
  IF id \in Lockups \/ ~is_close(requested, available) THEN requested ELSE available

stake_shares_from_amount(amount) ==
  shares_from_amount(amount, total_for_staking, total_stake_shares)
amount_from_stake_shares(num_shares) ==
  amount_from_shares(num_shares, total_for_staking, total_stake_shares)

\* The liquidity pool owns NEAR and stNEAR.
total_pool_value ==
  nslp_account.available + amount_from_stake_shares(nslp_account.stake_shares)
MutNslpShares(amount) ==               \* Mutant: the pool's stNEAR is forgotten.
  shares_from_amount(amount, nslp_account.available, nslp_account.nslp_shares)
nslp_shares_from_amount(amount) ==
  shares_from_amount(amount, total_pool_value, nslp_account.nslp_shares)
amount_from_nslp_shares(num_shares) ==
  amount_from_shares(num_shares, total_pool_value, nslp_account.nslp_shares)

OwedToUsers == total_for_staking + total_available + total_unstake_claims

\* The checks of take_from_available, and those of a burn: u128 does not go
\* below 0, a call that would panics.
CanTake(available, total, taken) == taken <= available /\ taken <= total
CanBurn(shares, amount, supply, value) == shares <= supply /\ amount <= value

MutNotBusy == TRUE                     \* Mutant: the lock is not looked at.
assert_not_busy == ~contract_busy

MutUnbookedTransfer(amount) ==           \* Mutant: the transfer is not booked.
  contract_account_balance >= amount /\ UNCHANGED contract_account_balance
native_transfer(amount) ==
  /\ contract_account_balance >= amount
  /\ contract_account_balance' = contract_account_balance - amount

-----------------------------------------------------------------------------
(* Deposits.                                                               *)

(***************************************************************************)
(* internal_deposit: a new account pays for its storage out of the amount  *)
(* attached.  Deposited(id, attached) is what is left.                     *)
(***************************************************************************)
Deposited(id, attached) ==
  attached - (IF id \in DOMAIN accounts THEN 0 ELSE STORAGE_COST_YOCTOS)
CanDeposit(id, attached) ==
  /\ attached >= min_deposit_amount
  /\ id \notin DOMAIN accounts => attached > STORAGE_COST_YOCTOS
  /\ OwedToUsers + attached <= MAX_SUPPLY
PayForStorage(id) ==
  storage_paid' = IF id \in DOMAIN accounts THEN storage_paid ELSE storage_paid \cup {id}

\* Mutants: the whole deposit is paid for less stNEAR; one stNEAR too many is sold.
MutClearingPays(shares, staked_amount, value, supply) ==
  IF shares = 0 THEN [sold |-> 0, near |-> 0]
  ELSE [sold |-> Lesser(shares, shares_from_amount(staked_amount, value, supply)),
        near |-> staked_amount]
MutClearingSells(shares, staked_amount, value, supply) ==
  IF shares = 0 THEN [sold |-> 0, near |-> 0]
  ELSE [sold |-> Lesser(shares, shares_from_amount(staked_amount, value, supply) + 1),
        near |-> Lesser(staked_amount, amount_from_shares(shares, value, supply))]

(***************************************************************************)
(* nslp_try_internal_clearing, at the price after the deposit: the         *)
(* liquidity pool hands stNEAR over, which is burned, and gets the NEAR    *)
(* just staked for it; all of its stNEAR if the deposit is worth as much,  *)
(* else as much as the deposit buys.                                       *)
(***************************************************************************)
Clearing(shares, staked_amount, value, supply) ==
  LET valued == amount_from_shares(shares, value, supply) IN
  IF shares = 0 THEN [sold |-> 0, near |-> 0]
  ELSE IF staked_amount >= valued THEN [sold |-> shares, near |-> valued]
  ELSE [sold |-> shares_from_amount(staked_amount, value, supply), near |-> staked_amount]

\* deposit_and_stake and stake_for_lockup
DepositAndStake(id, attached) ==
  LET amount == Deposited(id, attached)
      acc    == [AccountOf(id) EXCEPT !.available = @ + amount]
      staked == Taken(id, acc.available, amount)
      minted == stake_shares_from_amount(staked)
      sale   == Clearing(nslp_account.stake_shares, amount,
                         total_for_staking + staked, total_stake_shares + minted)
  IN  /\ assert_not_busy
      /\ CanDeposit(id, attached)
      /\ amount >= Monus(min_deposit_amount, STORAGE_COST_YOCTOS)
      /\ CanTake(acc.available, total_available + amount, staked)
      /\ minted > 0
      /\ epoch_stake_orders + staked >= amount
      /\ sale.sold <= nslp_account.stake_shares
      /\ CanBurn(sale.sold, sale.near, total_stake_shares + minted, total_for_staking + staked)
      /\ accounts' = [k \in DOMAIN accounts \cup {id} |->
           IF k = id
           THEN [acc EXCEPT !.available = @ - staked, !.stake_shares = @ + minted]
           ELSE IF k = NSLP
           THEN [nslp_account EXCEPT !.available = @ + sale.near,
                                     !.stake_shares = @ - sale.sold]
           ELSE accounts[k]]
      /\ PayForStorage(id)
      /\ contract_account_balance' = contract_account_balance + amount
      /\ total_available' = total_available + amount - staked + sale.near
      /\ total_for_staking' = total_for_staking + staked - sale.near
      /\ total_stake_shares' = total_stake_shares + minted - sale.sold
      /\ epoch_stake_orders' = epoch_stake_orders + staked - sale.near
      /\ UNCHANGED <<epoch_unstake_orders, claimVars, callVars>>

\* stake_from_nslp: the operator stakes NEAR of the liquidity pool.
StakeFromNslp(amount) ==
  LET staked == Taken(NSLP, nslp_account.available, amount)
      minted == stake_shares_from_amount(staked)
  IN  /\ assert_not_busy /\ NSLP \in DOMAIN accounts
      /\ nslp_account.available > amount
      /\ nslp_account.available - amount > nslp_liquidity_target
      /\ amount >= Monus(min_deposit_amount, STORAGE_COST_YOCTOS)
      /\ CanTake(nslp_account.available, total_available, staked)
      /\ minted > 0
      /\ Save(NSLP, [nslp_account EXCEPT !.available = @ - staked,
                                         !.stake_shares = @ + minted])
      /\ total_available' = total_available - staked
      /\ total_for_staking' = total_for_staking + staked
      /\ total_stake_shares' = total_stake_shares + minted
      /\ epoch_stake_orders' = epoch_stake_orders + staked
      /\ UNCHANGED <<storage_paid, epoch_unstake_orders, claimVars,
                     contract_account_balance, callVars>>

-----------------------------------------------------------------------------
(* Delayed unstake and withdrawal.                                         *)

(***************************************************************************)
(* internal_unstake_shares: stNEAR is burned for a claim.  The wait covers *)
(* all of the account's unstaked NEAR, earlier claims included, and is     *)
(* doubled when the pools are waiting already (see Heartbeat).             *)
(***************************************************************************)
UnstakeShares(id, shares) ==
  LET amount == amount_from_stake_shares(shares)
  IN  /\ assert_not_busy /\ id \in DOMAIN accounts
      /\ shares > 0 /\ shares <= accounts[id].stake_shares
      /\ CanBurn(shares, amount, total_stake_shares, total_for_staking)
      /\ \E delay \in Delays :
           Save(id, [accounts[id] EXCEPT
             !.stake_shares = @ - shares, !.unstaked = @ + amount,
             !.unstaked_requested_unlock_epoch = epoch + delay])
      /\ epoch_unstake_orders' = epoch_unstake_orders + amount
      /\ total_unstake_claims' = total_unstake_claims + amount
      /\ total_stake_shares' = total_stake_shares - shares
      /\ total_for_staking' = total_for_staking - amount
      /\ UNCHANGED <<storage_paid, epoch_stake_orders, retrieved_for_unstake_claims,
                     nearVars, callVars>>

\* unstake: an amount close to everything burns everything.
Unstake(id, requested) ==
  LET owned  == AccountOf(id).stake_shares
      shares == stake_shares_from_amount(requested)
  IN  UnstakeShares(id, IF is_close(owned, shares) THEN owned ELSE shares)
UnstakeAll(id) == UnstakeShares(id, AccountOf(id).stake_shares)
UnstakeFromLockupShares(id, shares) == UnstakeShares(id, shares)

(***************************************************************************)
(* internal_withdraw_use_unstaked: a claim whose wait is over moves to the *)
(* available NEAR and from there to the owner, if the reserve has it.      *)
(* withdraw, withdraw_to_lockup; withdraw_all and withdraw_unstaked ask    *)
(* for everything.                                                         *)
(***************************************************************************)
Withdraw(id, requested) ==
  LET acc   == [accounts[id] EXCEPT !.unstaked = @ - requested, !.available = @ + requested]
      taken == Taken(id, acc.available, requested)
  IN  /\ id \in DOMAIN accounts
      /\ requested <= accounts[id].unstaked
      /\ epoch >= accounts[id].unstaked_requested_unlock_epoch
      /\ retrieved_for_unstake_claims >= requested
      /\ total_unstake_claims >= requested
      /\ CanTake(acc.available, total_available + requested, taken)
      /\ Save(id, [acc EXCEPT !.available = @ - taken])
      /\ retrieved_for_unstake_claims' = retrieved_for_unstake_claims - requested
      /\ total_unstake_claims' = total_unstake_claims - requested
      /\ total_available' = total_available + requested - taken
      /\ native_transfer(taken)
      /\ UNCHANGED <<storage_paid, orderVars, stakeVars, callVars>>
WithdrawAll(id) == Withdraw(id, AccountOf(id).unstaked)

-----------------------------------------------------------------------------
(* The liquidity pool.                                                     *)

\* The discount falls linearly as the NEAR left approaches the target.
internal_get_discount_basis_points(available_near, nears_requested) ==
  LET near_after == available_near - nears_requested
      range == nslp_max_discount_basis_points - nslp_min_discount_basis_points
  IN  IF available_near <= nears_requested THEN nslp_max_discount_basis_points
      ELSE IF near_after >= nslp_liquidity_target THEN nslp_min_discount_basis_points
      ELSE nslp_max_discount_basis_points
             - proportional(range, near_after, nslp_liquidity_target)

\* The price of selling stNEAR: what it is worth, the fee on that, what is
\* paid, and the cuts of the fee, taken in stNEAR.
Quote(shares) ==
  LET nears_out == amount_from_stake_shares(shares)
      discount  == internal_get_discount_basis_points(nslp_account.available, nears_out)
      fee       == apply_pct(discount, nears_out)
      fee_shares == stake_shares_from_amount(fee)
  IN  [near |-> nears_out - fee,
       fee_shares |-> fee_shares,
       treasury   |-> apply_pct(treasury_swap_cut_basis_points, fee_shares),
       operator   |-> apply_pct(operator_swap_cut_basis_points, fee_shares),
       developers |-> apply_pct(DEVELOPERS_SWAP_CUT_BASIS_POINTS, fee_shares)]

MutMaySell(id) == TRUE                 \* Mutant: the fee accounts may sell.
\* The accounts that share the fee may not sell: they are saved from copies.
MaySell(id) == id \notin FeeAccounts

\* liquid_unstake
LiquidUnstake(id, requested, min_expected_near) ==
  LET owned == AccountOf(id).stake_shares
      sold  == IF is_close(requested, owned) THEN owned ELSE requested
      quote == Quote(sold)
      cuts  == quote.treasury + quote.operator + quote.developers
      near  == AccountOf(id).available + quote.near
      taken == Taken(id, near, quote.near)
      Cut(k) == CASE k = TREASURY -> quote.treasury
                  [] k = OPERATOR -> quote.operator
                  [] OTHER        -> quote.developers
  IN  /\ assert_not_busy /\ id \in DOMAIN accounts
      /\ sold <= owned
      /\ quote.near >= min_expected_near
      /\ quote.near <= nslp_account.available
      /\ MaySell(id)
      /\ quote.fee_shares > cuts /\ sold >= cuts
      /\ CanTake(near, total_available, taken)
      /\ accounts' = [k \in DOMAIN accounts \cup FeeAccounts \cup {NSLP} |->
           IF k = id
           THEN [accounts[id] EXCEPT !.available = near - taken, !.stake_shares = @ - sold]
           ELSE IF k = NSLP
           THEN [nslp_account EXCEPT !.available = @ - quote.near,
                                     !.stake_shares = @ + (sold - cuts)]
           ELSE IF k \in FeeAccounts
           THEN [AccountOf(k) EXCEPT !.stake_shares = @ + Cut(k)]
           ELSE accounts[k]]
      /\ total_available' = total_available - taken
      /\ native_transfer(taken)
      /\ UNCHANGED <<storage_paid, orderVars, claimVars, stakeVars, callVars>>

\* nslp_add_liquidity
AddLiquidity(id, attached) ==
  LET amount == Deposited(id, attached)
      acc    == [AccountOf(id) EXCEPT !.available = @ + amount]
      added  == Taken(id, acc.available, amount)
      minted == nslp_shares_from_amount(added)
  IN  /\ assert_not_busy
      /\ CanDeposit(id, attached)
      /\ CanTake(acc.available, total_available + amount, added)
      /\ minted > 0
      /\ SaveBoth(id, [acc EXCEPT !.available = @ - added, !.nslp_shares = @ + minted],
                  NSLP, [nslp_account EXCEPT !.available = @ + added, !.nslp_shares = @ + minted])
      /\ PayForStorage(id)
      /\ contract_account_balance' = contract_account_balance + amount
      /\ total_available' = total_available + amount
      /\ UNCHANGED <<orderVars, claimVars, stakeVars, callVars>>

\* What nslp_remove_liquidity takes out of the pool for a request: the shares
\* burned, their part of the pool's stNEAR, and NEAR for the rest of the value.
Removal(id, requested) ==
  LET owned   == AccountOf(id).nslp_shares
      valued  == amount_from_nslp_shares(owned)
      closes  == is_close(requested, valued)
      value   == IF closes THEN valued ELSE requested
      burned  == IF closes THEN owned ELSE nslp_shares_from_amount(requested)
      st_near == proportional(nslp_account.stake_shares, burned, nslp_account.nslp_shares)
  IN  [enough |-> closes \/ valued >= requested, value |-> value, burned |-> burned,
       st_near |-> st_near, st_near_value |-> amount_from_stake_shares(st_near)]

RemoveLiquidity(id, requested) ==
  LET out   == Removal(id, requested)
      near  == out.value - out.st_near_value
      taken == Taken(id, accounts[id].available + near, near)
  IN  /\ assert_not_busy /\ id \in DOMAIN accounts
      /\ AccountOf(id).nslp_shares > 0
      /\ out.enough /\ out.burned > 0
      /\ out.value >= out.st_near_value
      /\ near <= nslp_account.available
      /\ CanBurn(out.burned, out.st_near, accounts[id].nslp_shares, nslp_account.stake_shares)
      /\ out.burned <= nslp_account.nslp_shares
      /\ CanTake(accounts[id].available + near, total_available, taken)
      /\ SaveBoth(id, [accounts[id] EXCEPT !.available = @ + near - taken,
                         !.stake_shares = @ + out.st_near, !.nslp_shares = @ - out.burned],
                  NSLP, [nslp_account EXCEPT !.available = @ - near,
                         !.stake_shares = @ - out.st_near, !.nslp_shares = @ - out.burned])
      /\ total_available' = total_available - taken
      /\ native_transfer(taken)
      /\ UNCHANGED <<storage_paid, orderVars, claimVars, stakeVars, callVars>>

-----------------------------------------------------------------------------
(* Transfers of stNEAR and the registration of accounts.                   *)

MutMove(sender, receiver, amount) ==   \* Mutant: the balance is not checked.
  /\ sender # receiver /\ {sender, receiver} \subseteq DOMAIN accounts
  /\ SaveBoth(sender, [accounts[sender] EXCEPT !.stake_shares = @ - amount],
              receiver, [accounts[receiver] EXCEPT !.stake_shares = @ + amount])
\* internal_st_near_transfer
Move(sender, receiver, amount) ==
  /\ sender # receiver /\ amount > 0
  /\ {sender, receiver} \subseteq DOMAIN accounts
  /\ amount <= accounts[sender].stake_shares
  /\ SaveBoth(sender, [accounts[sender] EXCEPT !.stake_shares = @ - amount],
              receiver, [accounts[receiver] EXCEPT !.stake_shares = @ + amount])

ft_transfer(sender, receiver, amount) ==
  /\ Move(sender, receiver, amount)
  /\ UNCHANGED <<storage_paid, orderVars, claimVars, stakeVars, nearVars, callVars>>

\* Two equal calls are never in flight together: a bound of the model.
ft_transfer_call(sender, receiver, amount) ==
  LET call == [sender |-> sender, receiver |-> receiver, amount |-> amount]
  IN  /\ Cardinality(resolving) < Transfers /\ call \notin resolving
      /\ Move(sender, receiver, amount)
      /\ resolving' = resolving \cup {call}
      /\ UNCHANGED <<storage_paid, orderVars, claimVars, stakeVars, nearVars,
                     contract_busy, epoch>>

(***************************************************************************)
(* ft_resolve_transfer: what the receiver did not use (everything, if its  *)
(* ft_on_transfer failed) goes back, as far as the receiver still has it.  *)
(* Either account may have been closed in between; the sender's is then    *)
(* opened again.                                                           *)
(***************************************************************************)
ft_resolve_transfer(call, unused) ==
  LET from   == AccountOf(call.receiver)
      to     == AccountOf(call.sender)
      refund == Lesser(from.stake_shares, unused)
  IN  /\ resolving' = resolving \ {call}
      /\ IF refund = 0 THEN UNCHANGED accounts
         ELSE SaveBoth(call.receiver, [from EXCEPT !.stake_shares = @ - refund],
                       call.sender, [to EXCEPT !.stake_shares = @ + refund])
      /\ UNCHANGED <<storage_paid, orderVars, claimVars, stakeVars, nearVars,
                     contract_busy, epoch>>

\* storage_deposit, for any account; it takes exactly the cost.
StorageDeposit(id) ==
  /\ id \notin DOMAIN accounts
  /\ Save(id, NoAccount)
  /\ PayForStorage(id)
  /\ UNCHANGED <<orderVars, claimVars, stakeVars, nearVars, callVars>>

\* storage_unregister: the cost is paid back.
StorageUnregister(id) ==
  /\ id \in DOMAIN accounts
  /\ can_be_closed(accounts[id])
  /\ accounts' = [k \in DOMAIN accounts \ {id} |-> accounts[k]]
  /\ storage_paid' = storage_paid \ {id}
  /\ UNCHANGED <<orderVars, claimVars, stakeVars, nearVars, callVars>>

-----------------------------------------------------------------------------
(* What Heartbeat does to the accounts and their totals.                   *)

\* A call to a staking pool holds the lock of the contract.
AskRewards ==
  /\ assert_not_busy
  /\ contract_busy' = TRUE
  /\ UNCHANGED <<accounts, storage_paid, orderVars, claimVars, stakeVars, nearVars,
                 resolving, epoch>>

\* on_get_sp_total_balance: the fees on a reward are minted, at the price after it.
DistributeRewards(rewards) ==
  LET value == total_for_staking + rewards
      Fee(bp) == shares_from_amount(apply_pct(bp, rewards), value, total_stake_shares)
      operator   == Fee(operator_rewards_fee_basis_points)
      developers == Fee(DEVELOPERS_REWARDS_FEE_BASIS_POINTS)
  IN  /\ contract_busy
      /\ OwedToUsers + rewards <= MAX_SUPPLY
      /\ contract_busy' = FALSE
      /\ total_for_staking' = value
      /\ total_stake_shares' = total_stake_shares + operator + developers
      /\ accounts' = [k \in DOMAIN accounts
                            \cup {x \in {OPERATOR} : operator > 0}
                            \cup {x \in {DEVELOPERS} : developers > 0} |->
           [AccountOf(k) EXCEPT !.stake_shares = @
              + (IF k = OPERATOR THEN operator ELSE 0)
              + (IF k = DEVELOPERS THEN developers ELSE 0)]]
      /\ UNCHANGED <<storage_paid, orderVars, claimVars, nearVars, resolving, epoch>>

(***************************************************************************)
(* A new epoch: the orders of the old one have been sent to the pools, and *)
(* what came back is in the reserve, never more than the claims            *)
(* (ReserveWithinClaims of Heartbeat).                                     *)
(***************************************************************************)
Cycle(retrieved) ==
  /\ assert_not_busy /\ epoch < MAX_EPOCH
  /\ retrieved >= retrieved_for_unstake_claims /\ retrieved <= total_unstake_claims
  /\ epoch' = epoch + 1
  /\ epoch_stake_orders' = 0 /\ epoch_unstake_orders' = 0
  /\ retrieved_for_unstake_claims' = retrieved
  /\ contract_account_balance' =
       contract_account_balance - epoch_stake_orders + (retrieved - retrieved_for_unstake_claims)
  /\ UNCHANGED <<accounts, storage_paid, total_unstake_claims, stakeVars, total_available,
                 contract_busy, resolving>>

-----------------------------------------------------------------------------
\* A new contract, with the accounts of ids registered.
InitWith(ids) ==
  /\ accounts = [id \in ids |-> NoAccount] /\ storage_paid = ids
  /\ contract_busy = FALSE /\ resolving = {} /\ epoch = 0
  /\ contract_account_balance = 0 /\ total_available = 0
  /\ retrieved_for_unstake_claims = 0 /\ total_unstake_claims = 0
  /\ epoch_stake_orders = 0 /\ epoch_unstake_orders = 0
  /\ total_for_staking = 0 /\ total_stake_shares = 0
Init == InitWith({})

StakingCalls ==
  \E id \in Users :
     \/ \E a \in Deposits : DepositAndStake(id, a)
     \/ \E a \in Requests : Unstake(id, a) \/ Withdraw(id, a)
     \/ UnstakeAll(id) \/ WithdrawAll(id)

LockupCalls ==
  \E id \in Lockups :
     \/ \E a \in Deposits : DepositAndStake(id, a)
     \/ \E a \in Requests : UnstakeFromLockupShares(id, a) \/ Withdraw(id, a)

LiquidityCalls ==
  \/ \E id \in Users :
       \/ \E a \in Deposits : AddLiquidity(id, a)
       \/ \E a \in Requests, min \in {0} \cup Requests : LiquidUnstake(id, a, min)
       \/ \E a \in Requests : RemoveLiquidity(id, a)
  \/ \E a \in Requests : StakeFromNslp(a)

TokenCalls ==
  \/ \E sender \in Users, receiver \in Named, a \in Requests :
        ft_transfer(sender, receiver, a) \/ ft_transfer_call(sender, receiver, a)
  \/ \E call \in resolving : \E unused \in 0..call.amount : ft_resolve_transfer(call, unused)

StorageCalls ==
  \/ \E id \in Named : StorageDeposit(id)
  \/ \E id \in Users : StorageUnregister(id)

HeartbeatCalls ==
  \/ AskRewards
  \/ \E r \in RewardAmounts : DistributeRewards(r)
  \/ \E r \in 0..MAX_SUPPLY : Cycle(r)

Next ==
  StakingCalls \/ LockupCalls \/ LiquidityCalls \/ TokenCalls \/ StorageCalls \/ HeartbeatCalls
Spec == Init /\ [][Next]_vars
=============================================================================
