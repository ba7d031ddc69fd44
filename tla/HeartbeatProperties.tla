------------------------ MODULE HeartbeatProperties ------------------------
(***************************************************************************)
(* What the heartbeat must keep true.  The first properties hold whatever  *)
(* the pools do and however records are corrected by hand.  The exact      *)
(* books need records that are not corrected, and what says that records   *)
(* and pools agree needs pools that do not round.                          *)
(***************************************************************************)
EXTENDS Heartbeat, Sums

(* No total is ever negative.                                              *)
TotalsNat ==
  /\ contract_account_balance \in Nat
  /\ retrieved_for_unstake_claims \in Nat
  /\ total_available \in Nat
  /\ epoch_stake_orders \in Nat
  /\ epoch_unstake_orders \in Nat
  /\ total_for_staking \in Nat
  /\ total_actually_staked \in Nat
  /\ total_unstaked_and_waiting \in Nat
  /\ total_unstake_claims \in Nat
  /\ registered \in Nat
  /\ unstaked_for_rebalance \in Nat
  /\ epoch \in Nat
  /\ env_balance \in Nat

(* Every variable has its type.                                            *)
TypeOK ==
  /\ TotalsNat
  /\ contract_busy \in BOOLEAN /\ staking_paused \in BOOLEAN
  /\ staking_pools \in Seq(PoolInfo)
  /\ promises \subseteq Promises
  /\ pool_account \in [PoolIds -> PoolAccount]

(***************************************************************************)
(* Lock discipline: at most one locking call is in flight; its callback    *)
(* will find the pool it was sent to, with both locks held, and with the   *)
(* staked or unstaked NEAR it is going to subtract still recorded.         *)
(***************************************************************************)
LockDiscipline ==
  /\ \A p, q \in InFlight : p = q
  /\ \A p \in InFlight :
        /\ contract_busy
        /\ p.inx \in DOMAIN staking_pools
        /\ staking_pools[p.inx].account_id = p.pool
        /\ staking_pools[p.inx].busy_lock
        /\ p.kind = "unstake" => staking_pools[p.inx].staked >= p.amount + p.rebalance
        /\ p.kind = "stake" => staking_pools[p.inx].unstaked >= p.amount

(***************************************************************************)
(* The invariant of lib.rs:125: what is reserved, waiting in the pools or  *)
(* ordered to be unstaked, with the orders of the unstake in flight,       *)
(* covers the claims, and what is unstaked for a rebalance on top.         *)
(***************************************************************************)
Owed   == total_unstake_claims + unstaked_for_rebalance
Coming == retrieved_for_unstake_claims + total_unstaked_and_waiting + epoch_unstake_orders
ClaimsCovered ==
  \/ Owed <= Coming
  \/ \E p \in promises : p.kind = "unstake" /\ Owed <= Coming + p.amount

(***************************************************************************)
(* Solvency: the balance the contract keeps account of covers the          *)
(* available NEAR, the reserve and the stake orders, and a stake in flight *)
(* on top: nothing in the contract is promised twice.                      *)
(***************************************************************************)
Booked == total_available + retrieved_for_unstake_claims + epoch_stake_orders
Solvency ==
  /\ Booked <= contract_account_balance
  /\ \A p \in promises : p.kind \in {"deposit_and_stake", "stake"} =>
        Booked + p.amount <= contract_account_balance

(* The reserve never exceeds the claims it is reserved for; the excess goes *)
(* back to the stake orders in the same call.                              *)
ReserveWithinClaims == retrieved_for_unstake_claims <= total_unstake_claims

-----------------------------------------------------------------------------
(* Exact books: no record is corrected by hand.                            *)

\* What a promise in flight counts for, and the sums over all of them.
StakingOf(p) == IF p.kind \in {"deposit_and_stake", "stake"} THEN p.amount ELSE 0
UnstakingOf(p) == IF p.kind = "unstake" THEN p.amount + p.rebalance ELSE 0
RebalancingOf(p) == IF p.kind = "unstake" THEN p.rebalance ELSE 0
Staking     == SumOf([p \in promises |-> StakingOf(p)])
Unstaking   == SumOf([p \in promises |-> UnstakingOf(p)])
Rebalancing == SumOf([p \in promises |-> RebalancingOf(p)])

\* What the contract has on record of its pools.
StakedRecords   == [i \in DOMAIN staking_pools |-> staking_pools[i].staked]
UnstakedRecords == [i \in DOMAIN staking_pools |-> staking_pools[i].unstaked]

(***************************************************************************)
(* The claims, and the NEAR unstaked for a rebalance, are exactly what is  *)
(* reserved, waiting, ordered or being unstaked for the orders: no claim   *)
(* is counted twice and no rebalance is forgotten (lib.rs:125-126).        *)
(***************************************************************************)
ClaimsExact == Owed + Rebalancing = Coming + Unstaking

(***************************************************************************)
(* The balance the contract keeps account of is the available NEAR, the    *)
(* reserve, the stake orders, and a stake in flight (the invariant the     *)
(* simulation tests check at rest, sim_contract_state.rs:264).             *)
(***************************************************************************)
BooksExact == contract_account_balance = Booked + Staking

(***************************************************************************)
(* What should be staked and is not is ordered to be, or is unstaked for a *)
(* rebalance, less what is ordered to be unstaked: the orders explain the  *)
(* whole difference between the two totals, with any call in flight.       *)
(***************************************************************************)
StakeExplained ==
  total_for_staking + epoch_unstake_orders =
    total_actually_staked + epoch_stake_orders + unstaked_for_rebalance + Rebalancing

(***************************************************************************)
(* The totals are the sums of the pools' records (lib.rs:170-171), with    *)
(* the stake counted before, and the unstake until, the pool has answered. *)
(***************************************************************************)
TotalsMatchRecords ==
  /\ total_unstaked_and_waiting = SumOf(UnstakedRecords)
  /\ total_actually_staked + Unstaking = SumOf(StakedRecords) + Staking

(***************************************************************************)
(* The record of a pool no call has changed behind the contract's back is  *)
(* what the pool holds, rewards not asked for aside; and NEAR the contract *)
(* believes it can retrieve can be withdrawn from the pool.                *)
(***************************************************************************)
RecordsMatchPools ==
  \A i \in DOMAIN staking_pools :
     LET sp == staking_pools[i]
         account == pool_account[sp.account_id]
     IN  (\A p \in InFlight : p.inx = i => p.stage # "ok") =>
            /\ sp.unstaked = account.unstaked
            /\ sp.staked <= account.staked
            /\ sp.unstaked > 0 /\ wait_period_ended(sp) => account.available_epoch <= epoch

(***************************************************************************)
(* The callback of a locking call never panics (distribute.rs:157-158: it  *)
(* would leave both locks held).                                           *)
(***************************************************************************)
CallbacksNeverPanic == \A p \in InFlight : p.stage # "sent" => ~Panics(p)

(***************************************************************************)
(* The locks are held exactly while a locking call is in flight, and by    *)
(* its pool alone: no lock is lost and none is released early.             *)
(***************************************************************************)
BusyMeansInFlight ==
  /\ contract_busy <=> InFlight # {}
  /\ \A i \in DOMAIN staking_pools :
        staking_pools[i].busy_lock <=> \E p \in InFlight : p.inx = i

(***************************************************************************)
(* New code deployed while calls are in flight clears contract_busy alone  *)
(* (migrations.rs:208), and calls to several pools overlap from then on:   *)
(* each pool still has one call in flight at most, and is locked exactly   *)
(* as long as that call is.                                                *)
(***************************************************************************)
PoolsServeOne ==
  /\ \A p, q \in InFlight : p.inx = q.inx => p = q
  /\ \A i \in DOMAIN staking_pools :
        staking_pools[i].busy_lock <=> \E p \in InFlight : p.inx = i

(***************************************************************************)
(* The account really holds the NEAR of the books and, on top of it, the   *)
(* storage deposits (empty_nep_145.rs:11-12): the available NEAR, the      *)
(* reserve and the stake orders can be paid at any moment and the deposit  *)
(* of every account be given back, also while a call is in flight, when    *)
(* users may still withdraw, and after extra balance has been swept.       *)
(***************************************************************************)
NearBacksBooks == Booked + StorageDeposits <= env_balance

(***************************************************************************)
(* What NearBacksBooks needs, and the code leaves to others: extra balance *)
(* is swept between calls, and only while the storage deposits fit in what *)
(* the sweep leaves; and nobody's account is opened unpaid.                *)
(***************************************************************************)
SweptWithCare ==
  TransferExtraBalance => InFlight = {} /\ StorageDeposits <= SWEEP_MARGIN
AccountsPaidFor == registered' > registered => env_balance' > env_balance

(***************************************************************************)
(* While a pool is locked its record is frozen: no other call, and no late *)
(* view of it, changes what the callback of the locking call will find.    *)
(***************************************************************************)
LockedRecordsKept ==
  \A i \in DOMAIN staking_pools, j \in DOMAIN staking_pools' :
     LET before == staking_pools[i]
         after  == staking_pools'[j]
     IN  before.account_id = after.account_id /\ before.busy_lock /\ after.busy_lock
           => after = before
LockedRecordsFrozen == [][LockedRecordsKept]_vars

(***************************************************************************)
(* The money: what the contract owes its users, their storage deposits     *)
(* included, and the NEAR there is for it, in its account, in the pools    *)
(* and on its way to a pool, move as Vault says, through every call,       *)
(* failure and callback, when accounts are opened and closed and extra     *)
(* balance is swept.                                                       *)
(***************************************************************************)
SendingOf(p) == IF p.kind = "deposit_and_stake" /\ p.stage = "sent" THEN p.amount ELSE 0
Sending == SumOf([p \in promises |-> SendingOf(p)])
InPools == SumOf([id \in PoolIds |-> pool_account[id].staked + pool_account[id].unstaked])
Held == env_balance + InPools + Sending
V == INSTANCE Vault WITH owed <- OwedToUsers + StorageDeposits, held <- Held
VaultSpec == V!Spec

(***************************************************************************)
(* Every lock is released in the end, when the pools and the callbacks of  *)
(* the promises are executed, which the runtime guarantees.                *)
(***************************************************************************)
LocksReleased == contract_busy ~> ~contract_busy

(***************************************************************************)
(* A delayed unstake is served: when the bot calls the heartbeat in every  *)
(* epoch and nothing fails, the NEAR of every claim is in the reserve in   *)
(* the end.                                                                *)
(***************************************************************************)
ClaimsServed ==
  total_unstake_claims > 0 ~> retrieved_for_unstake_claims = total_unstake_claims
=============================================================================
