------------------------------ MODULE MCStNear ------------------------------
(***************************************************************************)
(* Instances of the accounts for TLC.                                      *)
(***************************************************************************)
EXTENDS StNearProperties

\* Staking, the liquidity pool and rewards, among registered accounts in one
\* epoch.  One of the users is the treasury.
PoolNext == StakingCalls \/ LiquidityCalls \/ AskRewards
              \/ \E r \in RewardAmounts : DistributeRewards(r)
PoolSpec == InitWith(FeeAccounts \cup Users) /\ [][PoolNext]_vars

\* Accounts that come and go, transfers with their resolution, and claims.
TokenNext ==
  \/ StakingCalls \/ LockupCalls \/ TokenCalls
  \/ \E id \in Users \cup Lockups : StorageDeposit(id)
  \/ \E id \in Users : StorageUnregister(id)
  \/ \E r \in 0..MAX_SUPPLY : Cycle(r)
TokenSpec == Init /\ [][TokenNext]_vars

(***************************************************************************)
(* empty_nep_145.rs:11-12: the storage of every registered account was     *)
(* paid for, and is paid back when the account is closed.  (The contract   *)
(* opens its own accounts itself.)  A refund to an account closed while    *)
(* its ft_transfer_call was in flight opens it again unpaid.               *)
(***************************************************************************)
StoragePaid == DOMAIN accounts \ (FeeAccounts \cup {NSLP}) \subseteq storage_paid
=============================================================================
