---------------------- MODULE HeartbeatHoldings_proofs ----------------------
(***************************************************************************)
(* What the books of the heartbeat say is really there.  The NEAR in the   *)
(* account of the contract is, whatever the pools round, earn and refuse.  *)
(* The NEAR in the pools is when they do not round: each holds what is on  *)
(* record of it, the totals are the sums of the records, and debt and      *)
(* money move as Vault says.                                               *)
(***************************************************************************)
EXTENDS HeartbeatBooks_proofs

\* NEAR attached to the deposits in flight, which has left the account and not
\* the books, and NEAR a pool has sent that is not booked yet.
DepositingOf(p) ==
  IF p.kind = "deposit_and_stake" /\ p.stage # "failed" THEN p.amount ELSE 0
RetrievingOf(p, pools) ==
  IF p.kind = "withdraw_all" /\ p.stage = "ok" THEN pools[p.inx].unstaked ELSE 0
DepositingIn(S)        == SumOf([p \in S |-> DepositingOf(p)])
RetrievingIn(S, pools) == SumOf([p \in S |-> RetrievingOf(p, pools)])
Depositing == DepositingIn(promises)
Retrieving == RetrievingIn(promises, staking_pools)

(* With it the account holds what the books say, at least, and the storage *)
(* deposits.                                                               *)
NearInv ==
  contract_account_balance + StorageDeposits + Retrieving <= env_balance + Depositing

-----------------------------------------------------------------------------
(* The sums.                                                               *)

\* Every call of S finds its pool in the list.
Finds(S, pools) ==
  /\ IsFiniteSet(S) /\ S \subseteq Promises
  /\ \A p \in S : p.inx \in DOMAIN pools /\ pools[p.inx] \in PoolInfo

LEMMA NearTyped ==
  ASSUME NEW S, NEW pools, Finds(S, pools)
  PROVE  /\ [p \in S |-> DepositingOf(p)] \in [S -> Nat]
         /\ [p \in S |-> RetrievingOf(p, pools)] \in [S -> Nat]
         /\ DepositingIn(S) \in Nat /\ RetrievingIn(S, pools) \in Nat
<1> DEFINE d == [p \in S |-> DepositingOf(p)]
           r == [p \in S |-> RetrievingOf(p, pools)]
<1>1. \A p \in S : p.amount \in Nat /\ pools[p.inx].unstaked \in Nat
  BY DEF Finds, Promises, PoolInfo
<1>2. d \in [S -> Nat] /\ r \in [S -> Nat]
  BY <1>1 DEF DepositingOf, RetrievingOf
<1> HIDE DEF d, r
<1>3. SumOf(d) \in Nat /\ SumOf(r) \in Nat
  BY <1>2, SumNat DEF Finds
<1> QED
  BY <1>2, <1>3 DEF DepositingIn, RetrievingIn, d, r

(* One call more adds what it moves.                                       *)
LEMMA NearAdded ==
  ASSUME NEW S, NEW T, NEW pools, NEW later, NEW call \in T, call \notin S,
         \A p : p \in T <=> p \in S \/ p = call,
         Finds(S, pools), Finds(T, later),
         \A p \in S : RetrievingOf(p, later) = RetrievingOf(p, pools)
  PROVE  /\ DepositingIn(T) = DepositingIn(S) + DepositingOf(call)
         /\ RetrievingIn(T, later) = RetrievingIn(S, pools) + RetrievingOf(call, later)
<1> DEFINE d(U) == [p \in U |-> DepositingOf(p)]
           r(U, list) == [p \in U |-> RetrievingOf(p, list)]
<1>1. /\ d(S) \in [S -> Nat] /\ r(S, pools) \in [S -> Nat]
      /\ d(T) \in [T -> Nat] /\ r(T, later) \in [T -> Nat]
      /\ IsFiniteSet(S)
  BY NearTyped DEF Finds
<1>2. /\ \A p \in S : d(T)[p] = d(S)[p] /\ r(T, later)[p] = r(S, pools)[p]
      /\ d(T)[call] = DepositingOf(call) /\ r(T, later)[call] = RetrievingOf(call, later)
  OBVIOUS
<1>3. /\ DepositingIn(S) = SumOf(d(S)) /\ DepositingIn(T) = SumOf(d(T))
      /\ RetrievingIn(S, pools) = SumOf(r(S, pools))
      /\ RetrievingIn(T, later) = SumOf(r(T, later))
  BY DEF DepositingIn, RetrievingIn
<1> HIDE DEF d, r
<1>4. SumOf(d(T)) = SumOf(d(S)) + d(T)[call]
  BY <1>1, <1>2, SumAdded
<1>5. SumOf(r(T, later)) = SumOf(r(S, pools)) + r(T, later)[call]
  BY <1>1, <1>2, SumAdded
<1> QED
  BY <1>2, <1>3, <1>4, <1>5

(* No call, nothing on its way.                                            *)
LEMMA NearAtRest ==
  ASSUME NEW pools
  PROVE  DepositingIn({}) = 0 /\ RetrievingIn({}, pools) = 0
<1>1. \A f \in [{} -> Nat] : SumOf(f) = 0
  BY SumZero
<1>2. /\ [p \in {} |-> DepositingOf(p)] \in [{} -> Nat]
      /\ [p \in {} |-> RetrievingOf(p, pools)] \in [{} -> Nat]
  OBVIOUS
<1> QED
  BY <1>1, <1>2 DEF DepositingIn, RetrievingIn

LEMMA CallsFind == PInv => Finds(promises, staking_pools)
BY PoolTyped DEF PInv, TypeOK, CallsOK, Finds

LEMMA CallsFindAfter == PInv' => Finds(promises', staking_pools')
<1> SUFFICES ASSUME PInv' PROVE Finds(promises', staking_pools')
  OBVIOUS
<1>1. /\ IsFiniteSet(promises') /\ promises' \subseteq Promises
      /\ staking_pools' \in Seq(PoolInfo)
      /\ \A p \in promises' : p.inx \in DOMAIN staking_pools'
  BY DEF PInv, TypeOK, CallsOK
<1>2. \A i \in DOMAIN staking_pools' : staking_pools'[i] \in PoolInfo
  BY <1>1
<1> QED
  BY <1>1, <1>2 DEF Finds

-----------------------------------------------------------------------------
(* What a step moves.                                                      *)

(* Nothing is sent, executed or settled.                                   *)
LEMMA NearStays ==
  ASSUME PInv, UNCHANGED promises,
         \A p \in promises : staking_pools'[p.inx].unstaked = staking_pools[p.inx].unstaked
  PROVE  UNCHANGED <<Depositing, Retrieving>>
<1>1. \A p \in promises : RetrievingOf(p, staking_pools') = RetrievingOf(p, staking_pools)
  BY DEF RetrievingOf
<1> QED
  BY <1>1 DEF Depositing, Retrieving, DepositingIn, RetrievingIn

LEMMA NearSent ==
  ASSUME PInv, PInv', NEW call, LockAndSend(call), call.stage = "sent"
  PROVE  /\ call \in Promises
         /\ Depositing' = Depositing + DepositingOf(call) /\ Retrieving' = Retrieving
<1>1. /\ call \notin promises /\ promises' = promises \cup {call}
      /\ staking_pools' = [staking_pools EXCEPT ![call.inx].busy_lock = TRUE]
  BY DEF LockAndSend, Send
<1>2. Finds(promises, staking_pools) /\ Finds(promises', staking_pools')
  BY CallsFind, CallsFindAfter
<1>3. ASSUME NEW p \in promises
      PROVE  RetrievingOf(p, staking_pools') = RetrievingOf(p, staking_pools)
  <2>1. p.inx \in DOMAIN staking_pools /\ staking_pools[p.inx] \in PoolInfo
    BY <1>2 DEF Finds
  <2>2. staking_pools'[p.inx].unstaked = staking_pools[p.inx].unstaked
    BY <1>1, <2>1 DEF PoolInfo
  <2> QED
    BY <2>2 DEF RetrievingOf
<1>4. /\ call \in promises' /\ call \notin promises
      /\ \A p : p \in promises' <=> p \in promises \/ p = call
  BY <1>1
<1>5. /\ DepositingIn(promises') = DepositingIn(promises) + DepositingOf(call)
      /\ RetrievingIn(promises', staking_pools')
           = RetrievingIn(promises, staking_pools) + RetrievingOf(call, staking_pools')
  BY <1>2, <1>3, <1>4, NearAdded
<1>6. RetrievingOf(call, staking_pools') = 0
  BY DEF RetrievingOf
<1>7. RetrievingIn(promises, staking_pools) \in Nat
  BY <1>2, NearTyped
<1> QED
  BY <1>2, <1>4, <1>5, <1>6, <1>7 DEF Depositing, Retrieving, Finds

LEMMA NearEnded ==
  ASSUME PInv, PInv', NEW p \in promises, promises' = promises \ {p},
         \A q \in promises \ {p} :
            staking_pools'[q.inx].unstaked = staking_pools[q.inx].unstaked
  PROVE  /\ Depositing' \in Nat /\ Depositing = Depositing' + DepositingOf(p)
         /\ Retrieving' \in Nat /\ Retrieving = Retrieving' + RetrievingOf(p, staking_pools)
<1>1. Finds(promises, staking_pools) /\ Finds(promises', staking_pools')
  BY CallsFind, CallsFindAfter
<1>2. \A q \in promises' : RetrievingOf(q, staking_pools) = RetrievingOf(q, staking_pools')
  BY DEF RetrievingOf
<1>3. p \notin promises' /\ \A q : q \in promises <=> q \in promises' \/ q = p
  OBVIOUS
<1>4. /\ DepositingIn(promises) = DepositingIn(promises') + DepositingOf(p)
      /\ RetrievingIn(promises, staking_pools)
           = RetrievingIn(promises', staking_pools') + RetrievingOf(p, staking_pools)
  BY <1>1, <1>2, <1>3, NearAdded
<1>5. DepositingIn(promises') \in Nat /\ RetrievingIn(promises', staking_pools') \in Nat
  BY <1>1, NearTyped
<1> QED
  BY <1>4, <1>5 DEF Depositing, Retrieving

\* What the call p moves when it has been executed, and ends in the given stage.
DepositedBy(p, stage) == IF stage = "failed" THEN 0 ELSE DepositingOf(p)
SentBackBy(p, stage) ==
  IF p.kind = "withdraw_all" /\ stage = "ok" THEN staking_pools[p.inx].unstaked ELSE 0

LEMMA NearRun ==
  ASSUME PInv, PInv', NEW p \in promises, p.stage = "sent",
         NEW stage \in {"ok", "failed"}, NEW answer \in Nat, Answer(p, stage, answer),
         UNCHANGED staking_pools
  PROVE  /\ Depositing' + DepositingOf(p) = Depositing + DepositedBy(p, stage)
         /\ Retrieving' = Retrieving + SentBackBy(p, stage)
<1> DEFINE r == [p EXCEPT !.stage = stage, !.answer = answer]
           T == promises \ {p}
<1>1. /\ Finds(promises, staking_pools) /\ Finds(promises', staking_pools)
      /\ p \in Promises
  BY CallsFind, CallsFindAfter DEF Finds
<1>2. /\ r.kind = p.kind /\ r.inx = p.inx /\ r.amount = p.amount /\ r.stage = stage
  BY <1>1 DEF Promises
<1>3. r \notin promises
  <2>1. r # p /\ r.inx = p.inx
    BY <1>2
  <2> HIDE DEF r
  <2> QED
    BY <2>1 DEF PInv, CallsOK
<1>4. promises' = T \cup {r}
  BY DEF Answer
<1>5. /\ DepositingOf(r) = DepositedBy(p, stage)
      /\ RetrievingOf(r, staking_pools) = SentBackBy(p, stage)
      /\ RetrievingOf(p, staking_pools) = 0
  BY <1>2 DEF DepositingOf, RetrievingOf, DepositedBy, SentBackBy
<1> HIDE DEF r
<1>6. /\ p \notin T /\ r \notin T /\ r \in promises'
      /\ \A q : q \in promises <=> q \in T \/ q = p
      /\ \A q : q \in promises' <=> q \in T \/ q = r
  BY <1>3, <1>4
<1>7. Finds(T, staking_pools)
  BY <1>1, FS_Subset DEF Finds
<1> HIDE DEF T
<1>8. /\ DepositingIn(promises) = DepositingIn(T) + DepositingOf(p)
      /\ RetrievingIn(promises, staking_pools)
           = RetrievingIn(T, staking_pools) + RetrievingOf(p, staking_pools)
  BY <1>1, <1>6, <1>7, NearAdded
<1>9. /\ DepositingIn(promises') = DepositingIn(T) + DepositingOf(r)
      /\ RetrievingIn(promises', staking_pools)
           = RetrievingIn(T, staking_pools) + RetrievingOf(r, staking_pools)
  BY <1>1, <1>6, <1>7, NearAdded
<1>10. /\ DepositingIn(T) \in Nat /\ RetrievingIn(T, staking_pools) \in Nat
  BY <1>7, NearTyped
<1>11. /\ DepositingOf(p) \in Nat /\ DepositedBy(p, stage) \in Nat
  BY <1>1 DEF Promises, DepositingOf, DepositedBy
<1>12. DepositingIn(promises') + DepositingOf(p)
         = DepositingIn(promises) + DepositedBy(p, stage)
  BY <1>5, <1>8, <1>9, <1>10, <1>11
<1>13. RetrievingIn(promises', staking_pools)
         = RetrievingIn(promises, staking_pools) + SentBackBy(p, stage)
  BY <1>5, <1>8, <1>9, <1>10
<1> QED
  BY <1>12, <1>13 DEF Depositing, Retrieving

(* The balances, the deposits and what is on its way are naturals.         *)
LEMMA NearNat ==
  ASSUME PInv
  PROVE  /\ contract_account_balance \in Nat /\ env_balance \in Nat
         /\ Depositing \in Nat /\ Retrieving \in Nat
         /\ registered \in Nat /\ StorageDeposits \in Nat
<1>1. Depositing \in Nat /\ Retrieving \in Nat
  BY CallsFind, NearTyped DEF Depositing, Retrieving
<1>2. registered \in Nat
  BY DEF PInv, TypeOK, TotalsNat
<1>3. StorageDeposits \in Nat
  BY <1>2, StorageNat
<1> QED
  BY <1>1, <1>2, <1>3 DEF PInv, TypeOK, TotalsNat
LEMMA NearNatAfter ==
  ASSUME PInv'
  PROVE  /\ contract_account_balance' \in Nat /\ env_balance' \in Nat
         /\ Depositing' \in Nat /\ Retrieving' \in Nat
         /\ registered' \in Nat /\ StorageDeposits' \in Nat
<1>1. Depositing' \in Nat /\ Retrieving' \in Nat
  BY CallsFindAfter, NearTyped DEF Depositing, Retrieving
<1>2. registered' \in Nat
  BY DEF PInv, TypeOK, TotalsNat
<1>3. StorageDeposits' \in Nat
  <2>1. \A n \in Nat : n * STORAGE_COST_YOCTOS \in Nat
    BY ThresholdsAssumption
  <2> QED
    BY <1>2, <2>1 DEF StorageDeposits
<1> QED
  BY <1>1, <1>2, <1>3 DEF PInv, TypeOK, TotalsNat

(* No account is opened or closed.                                         *)
LEMMA SameDeposits ==
  ASSUME UNCHANGED registered
  PROVE  UNCHANGED StorageDeposits
BY DEF StorageDeposits

-----------------------------------------------------------------------------
(* What a step pays.                                                       *)

(* What goes into the books, or is deposited for an account, goes into the *)
(* account of the contract.                                                *)
LEMMA PaidIn ==
  ASSUME PInv, PInv', NearInv, UNCHANGED <<Depositing, Retrieving>>,
         contract_account_balance' + StorageDeposits' + env_balance
           <= env_balance' + contract_account_balance + StorageDeposits
  PROVE  NearInv'
BY NearNat, NearNatAfter DEF NearInv

(* A call is sent with what is attached to it, and counted: a stake as     *)
(* done, an unstake as done; nothing is booked.                            *)
Sends(call) ==
  /\ LockAndSend(call) /\ call.stage = "sent"
  /\ env_balance' = env_balance - DepositingOf(call)
  /\ UNCHANGED contract_account_balance
  /\ \/ /\ UnstakingOf(call) = 0
        /\ total_actually_staked' = total_actually_staked + StakingOf(call)
     \/ /\ StakingOf(call) = 0
        /\ total_actually_staked' = total_actually_staked - UnstakingOf(call)

LEMMA SendsKept ==
  ASSUME PInv, PInv', NearInv, UNCHANGED StorageDeposits, NEW call, Sends(call)
  PROVE  NearInv'
<1>1. /\ call \in Promises
      /\ Depositing' = Depositing + DepositingOf(call) /\ Retrieving' = Retrieving
  BY NearSent DEF Sends
<1>2. DepositingOf(call) \in Nat
  BY <1>1 DEF Promises, DepositingOf
<1>3. /\ env_balance' = env_balance - DepositingOf(call)
      /\ contract_account_balance' = contract_account_balance
  BY DEF Sends
<1>4. env_balance' + Depositing' = env_balance + Depositing
  BY <1>1, <1>2, <1>3, NearNat
<1>5. contract_account_balance' + StorageDeposits' + Retrieving'
        = contract_account_balance + StorageDeposits + Retrieving
  BY <1>1, <1>3
<1> QED
  BY <1>4, <1>5 DEF NearInv

LEMMA LaunchSends ==
  ASSUME PInv, NEW i, NEW STATE requested, NEW STATE o, LaunchDirectStake(i, requested, o)
  PROVE  \E call : Sends(call)
<1> DEFINE sp == staking_pools[i]
           restakes == sp.unstaked >= TEN_NEAR
           amount == IF restakes THEN Lesser(requested, sp.unstaked) ELSE requested
           restake == Call("stake", i, amount, 0)
           deposit == Call("deposit_and_stake", i, amount, 0)
<1>1. /\ UNCHANGED contract_account_balance
      /\ total_actually_staked' = total_actually_staked + amount
  BY DEF LaunchDirectStake
<1>2. restakes => LockAndSend(restake) /\ UNCHANGED env_balance
  BY DEF LaunchDirectStake
<1>3. ~restakes => LockAndSend(deposit) /\ env_balance' = env_balance - amount
  BY DEF LaunchDirectStake
<1>4. /\ restake.stage = "sent" /\ DepositingOf(restake) = 0
      /\ StakingOf(restake) = amount /\ UnstakingOf(restake) = 0
      /\ deposit.stage = "sent" /\ DepositingOf(deposit) = amount
      /\ StakingOf(deposit) = amount /\ UnstakingOf(deposit) = 0
  BY DEF Call, DepositingOf, StakingOf, UnstakingOf
<1> HIDE DEF restake, deposit, amount, restakes
<1>5. env_balance - 0 = env_balance
  BY NearNat
<1>6. CASE restakes
  BY <1>1, <1>2, <1>4, <1>5, <1>6 DEF Sends
<1>7. CASE ~restakes
  BY <1>1, <1>3, <1>4, <1>7 DEF Sends
<1> QED
  BY <1>6, <1>7

LEMMA CallSends ==
  ASSUME PInv, NEW kind, kind \notin {"deposit_and_stake", "stake"}, NEW i,
         NEW STATE amount, NEW STATE rebalance,
         LockAndSend(Call(kind, i, amount, rebalance)), UNCHANGED moneyVars,
         total_actually_staked'
           = total_actually_staked - (IF kind = "unstake" THEN amount + rebalance ELSE 0)
  PROVE  \E call : Sends(call)
<1> DEFINE call == Call(kind, i, amount, rebalance)
<1>1. /\ call.stage = "sent" /\ DepositingOf(call) = 0 /\ StakingOf(call) = 0
      /\ UnstakingOf(call) = IF kind = "unstake" THEN amount + rebalance ELSE 0
  BY DEF Call, DepositingOf, StakingOf, UnstakingOf
<1>2. LockAndSend(call)
  OBVIOUS
<1> HIDE DEF call
<1>3. env_balance - 0 = env_balance
  BY NearNat
<1> QED
  BY <1>1, <1>2, <1>3 DEF Sends, moneyVars

(* Whatever the heartbeat does, it sends one call at most.                 *)
LEMMA HeartbeatCallsSend ==
  ASSUME PInv, MAX_SYNCS = 0, HeartbeatCalls
  PROVE  OnlyClearing \/ \E call : Sends(call)
<1>1. SUFFICES ASSUME ~OnlyClearing
               PROVE  \E call : Sends(call)
  OBVIOUS
<1>2. CASE DistributeStaking
  BY <1>1, <1>2, LaunchSends DEF DistributeStaking
<1>3. ASSUME NEW i, NEW STATE from_orders, NEW STATE from_rebalance, NEW STATE o,
             PerformUnstake(i, from_orders, from_rebalance, o)
      PROVE  \E call : Sends(call)
  BY <1>3, CallSends DEF PerformUnstake
<1>4. CASE DistributeUnstaking
  BY <1>1, <1>3, <1>4 DEF DistributeUnstaking
<1>5. CASE EndOfEpochClearing
  BY <1>1, <1>5 DEF EndOfEpochClearing
<1>6. CASE DoRebalanceUnstake
  BY <1>3, <1>6 DEF DoRebalanceUnstake
<1>7. ASSUME NEW i \in DOMAIN staking_pools, NEW a \in Amounts, ManualStake(i, a)
      PROVE  \E call : Sends(call)
  BY <1>7, LaunchSends DEF ManualStake
<1>8. ASSUME NEW i \in DOMAIN staking_pools, ForceRebalanceUnstake(i) \/ RebalanceUnstakeSp(i)
      PROVE  \E call : Sends(call)
  BY <1>3, <1>8 DEF ForceRebalanceUnstake, RebalanceUnstakeSp, PerformRebalance
<1>9. total_actually_staked - 0 = total_actually_staked
  BY DEF PInv, TypeOK, TotalsNat
<1>10. ASSUME NEW i \in DOMAIN staking_pools, DistributeRewards(i)
       PROVE  \E call : Sends(call)
  BY <1>10, <1>9, CallSends DEF DistributeRewards, booksUnchanged, stakeVars
<1>11. ASSUME NEW i \in DOMAIN staking_pools, RetrieveFundsFromAPool(i)
       PROVE  \E call : Sends(call)
  BY <1>11, <1>9, CallSends DEF RetrieveFundsFromAPool, booksUnchanged, stakeVars
<1>12. ASSUME NEW i \in DOMAIN staking_pools, SyncUnstakedBalance(i)
       PROVE  FALSE
  BY <1>12, NoSyncs DEF PInv
<1> QED
  BY <1>2, <1>4, <1>5, <1>6, <1>7, <1>8, <1>10, <1>11, <1>12 DEF HeartbeatCalls

(* The calls of the bot change nothing users are owed, and open no account.*)
LEMMA HeartbeatCallsOwe ==
  ASSUME HeartbeatCalls
  PROVE  UNCHANGED userVars
<1>1. ASSUME NEW i, NEW STATE requested, NEW STATE o, LaunchDirectStake(i, requested, o)
      PROVE  UNCHANGED userVars
  BY <1>1 DEF LaunchDirectStake
<1>2. ASSUME NEW i, NEW STATE from_orders, NEW STATE from_rebalance, NEW STATE o,
             PerformUnstake(i, from_orders, from_rebalance, o)
      PROVE  UNCHANGED userVars
  BY <1>2 DEF PerformUnstake
<1>3. OnlyClearing => UNCHANGED userVars
  BY DEF OnlyClearing
<1>4. CASE DistributeStaking
  BY <1>1, <1>3, <1>4 DEF DistributeStaking
<1>5. CASE DistributeUnstaking
  BY <1>2, <1>3, <1>5 DEF DistributeUnstaking
<1>6. CASE EndOfEpochClearing
  BY <1>3, <1>6 DEF EndOfEpochClearing
<1>7. CASE DoRebalanceUnstake
  BY <1>2, <1>7 DEF DoRebalanceUnstake
<1>8. ASSUME NEW i \in DOMAIN staking_pools, NEW a \in Amounts, ManualStake(i, a)
      PROVE  UNCHANGED userVars
  BY <1>1, <1>8 DEF ManualStake
<1>9. ASSUME NEW i \in DOMAIN staking_pools, ForceRebalanceUnstake(i) \/ RebalanceUnstakeSp(i)
      PROVE  UNCHANGED userVars
  BY <1>2, <1>9 DEF ForceRebalanceUnstake, RebalanceUnstakeSp, PerformRebalance
<1>10. ASSUME NEW i \in DOMAIN staking_pools,
              SyncUnstakedBalance(i) \/ DistributeRewards(i) \/ RetrieveFundsFromAPool(i)
       PROVE  UNCHANGED userVars
  BY <1>10 DEF SyncUnstakedBalance, DistributeRewards, RetrieveFundsFromAPool, booksUnchanged
<1> QED
  BY <1>4, <1>5, <1>6, <1>7, <1>8, <1>9, <1>10 DEF HeartbeatCalls

LEMMA HeartbeatCallsPay ==
  ASSUME PInv, PInv', NearInv, MAX_SYNCS = 0, HeartbeatCalls
  PROVE  NearInv'
<1> UNCHANGED StorageDeposits
  BY HeartbeatCallsOwe, SameDeposits DEF userVars
<1>1. CASE OnlyClearing
  <2>1. UNCHANGED <<moneyVars, staking_pools, promises>>
    BY <1>1 DEF OnlyClearing, listVars
  <2>2. UNCHANGED <<Depositing, Retrieving>>
    BY <2>1, NearStays
  <2> QED
    BY <2>1, <2>2 DEF moneyVars, NearInv
<1> QED
  BY <1>1, HeartbeatCallsSend, SendsKept

(* A sale opens accounts for its fee, unpaid, unless there are such.       *)
LEMMA PaysOpeningNone ==
  ASSUME PInv, PInv', AccountsPaidFor, NEW a \in Nat, PayFromLiquidityPool(a)
  PROVE  registered' = registered
<1>1. env_balance' = env_balance - a /\ registered <= registered'
  BY OpensNat, NearNat DEF PayFromLiquidityPool, NativeTransfer
<1>2. ~(registered' > registered)
  BY <1>1, NearNat DEF AccountsPaidFor
<1> QED
  BY <1>1, <1>2, NearNat, NearNatAfter

LEMMA UserCallsPay ==
  ASSUME PInv, PInv', NearInv, AccountsPaidFor, UserCalls
  PROVE  NearInv'
<1>1. PICK a \in Amounts :
        \/ \E v \in 0..a : DepositAndStake(a, v)
        \/ Unstake(a)
        \/ WithdrawUnstaked(a)
        \/ NslpAddLiquidity(a)
        \/ PayFromLiquidityPool(a)
        \/ StakeFromNslp(a)
  BY DEF UserCalls
<1>2. a \in Nat
  BY SetsAssumption
<1>3. UNCHANGED listVars
  BY <1>1 DEF DepositAndStake, Unstake, WithdrawUnstaked, NslpAddLiquidity,
              PayFromLiquidityPool, StakeFromNslp
<1>4. UNCHANGED <<Depositing, Retrieving>>
  BY <1>3, NearStays DEF listVars
<1>5. SUFFICES contract_account_balance' + StorageDeposits' + env_balance
                  <= env_balance' + contract_account_balance + StorageDeposits
  BY <1>4, PaidIn
<1>6. ASSUME Deposited(a)
      PROVE  contract_account_balance' + StorageDeposits' + env_balance
               <= env_balance' + contract_account_balance + StorageDeposits
  <2>1. TotalsNat
    BY DEF PInv, TypeOK
  <2>2. /\ contract_account_balance' = contract_account_balance + a
        /\ env_balance' + StorageDeposits = env_balance + a + StorageDeposits'
    BY <1>2, <1>6, <2>1, DepositedPays
  <2> QED
    BY <1>2, <2>2, NearNat, NearNatAfter
<1>7. ASSUME UNCHANGED registered,
             \/ /\ contract_account_balance' = contract_account_balance - a
                /\ env_balance' = env_balance - a
             \/ UNCHANGED <<contract_account_balance, env_balance>>
      PROVE  contract_account_balance' + StorageDeposits' + env_balance
               <= env_balance' + contract_account_balance + StorageDeposits
  <2>1. UNCHANGED StorageDeposits
    BY <1>7, SameDeposits
  <2> QED
    BY <1>2, <1>7, <2>1, NearNat, NearNatAfter
<1>8. CASE NslpAddLiquidity(a) \/ \E v \in 0..a : DepositAndStake(a, v)
  BY <1>6, <1>8 DEF NslpAddLiquidity, DepositAndStake
<1>9. CASE Unstake(a) \/ WithdrawUnstaked(a) \/ StakeFromNslp(a)
  BY <1>7, <1>9 DEF Unstake, WithdrawUnstaked, StakeFromNslp, NativeTransfer, moneyVars
<1>10. CASE PayFromLiquidityPool(a)
  <2>1. /\ contract_account_balance' = contract_account_balance - a
        /\ env_balance' = env_balance - a
    BY <1>10 DEF PayFromLiquidityPool, NativeTransfer
  <2>2. registered' = registered
    BY <1>2, <1>10, PaysOpeningNone
  <2> QED
    BY <1>7, <2>1, <2>2
<1> QED
  BY <1>1, <1>8, <1>9, <1>10

(* An account is opened, paid for, or closed.                              *)
LEMMA StorageCallsPaidFor ==
  ASSUME PInv, AccountsPaidFor, StorageCalls
  PROVE  /\ storageStepUnchanged
         /\ env_balance' + StorageDeposits = env_balance + StorageDeposits'
<1>1. TotalsNat
  BY DEF PInv, TypeOK
<1>2. ~RefundReopens
  <2>1. RefundReopens => registered' = registered + 1 /\ env_balance' = env_balance
    BY DEF RefundReopens, Opened
  <2>2. registered + 1 > registered /\ ~(env_balance > env_balance)
    BY NearNat
  <2> QED
    BY <2>1, <2>2 DEF AccountsPaidFor
<1> QED
  BY <1>1, <1>2, StorageCallsPay

LEMMA StorageCallsPaid ==
  ASSUME PInv, PInv', NearInv, AccountsPaidFor, StorageCalls
  PROVE  NearInv'
<1>1. /\ storageStepUnchanged
      /\ env_balance' + StorageDeposits = env_balance + StorageDeposits'
  BY StorageCallsPaidFor
<1>2. UNCHANGED <<contract_account_balance, Depositing, Retrieving>>
  BY <1>1, NearStays DEF storageStepUnchanged, listVars
<1>3. contract_account_balance' + StorageDeposits' + env_balance
        <= env_balance' + contract_account_balance + StorageDeposits
  BY <1>1, <1>2, NearNat, NearNatAfter
<1> QED
  BY <1>2, <1>3, PaidIn

(* A pool executes a call: what it does not keep it sends back, and it has *)
(* at least what is on record to be retrieved.                             *)
LEMMA RunPays ==
  ASSUME PInv, PInv', NearInv, NEW p \in promises, p.stage = "sent",
         NEW stage \in {"ok", "failed"}, NEW answer \in Nat, Answer(p, stage, answer),
         poolStepUnchanged,
         env_balance + SentBackBy(p, stage) + DepositingOf(p)
           <= env_balance' + DepositedBy(p, stage)
  PROVE  NearInv'
<1>1. UNCHANGED <<staking_pools, contract_account_balance, StorageDeposits>>
  BY SameDeposits DEF poolStepUnchanged, userVars
<1>2. /\ Depositing' + DepositingOf(p) = Depositing + DepositedBy(p, stage)
      /\ Retrieving' = Retrieving + SentBackBy(p, stage)
  BY <1>1, NearRun
<1>3. /\ p.amount \in Nat /\ staking_pools[p.inx].unstaked \in Nat
  BY CallWaits
<1>4. /\ DepositingOf(p) \in Nat /\ DepositedBy(p, stage) \in Nat
      /\ SentBackBy(p, stage) \in Nat
  BY <1>3 DEF DepositingOf, DepositedBy, SentBackBy
<1> DEFINE d == DepositingOf(p)
           k == DepositedBy(p, stage)
           b == SentBackBy(p, stage)
<1>5. /\ Depositing' + d = Depositing + k
      /\ contract_account_balance + StorageDeposits + Retrieving + b
           <= env_balance + Depositing + b
      /\ env_balance + b + d <= env_balance' + k
      /\ d \in Nat /\ k \in Nat /\ b \in Nat
  BY <1>2, <1>4, NearNat DEF NearInv
<1> HIDE DEF d, k, b
<1>6. contract_account_balance + StorageDeposits + Retrieving + b
        <= env_balance' + Depositing'
  BY <1>5, NearNat, NearNatAfter
<1>7. contract_account_balance' + StorageDeposits' + Retrieving'
        = contract_account_balance + StorageDeposits + Retrieving + b
  BY <1>1, <1>2, <1>4, NearNat DEF b
<1> QED
  BY <1>6, <1>7 DEF NearInv

LEMMA PoolStepsPay ==
  ASSUME PInv, PInv', NearInv, PoolSteps
  PROVE  NearInv'
<1>1. ASSUME NEW p \in promises, PoolExecutes(p)
      PROVE  NearInv'
  <2> DEFINE account == pool_account[p.pool]
             recorded == staking_pools[p.inx].unstaked
             attached == IF p.kind = "deposit_and_stake" THEN p.amount ELSE 0
  <2>1. p.stage = "sent" /\ poolStepUnchanged
    BY <1>1 DEF PoolExecutes
  <2>2. /\ recorded \in Nat /\ account.staked \in Nat /\ account.unstaked \in Nat
        /\ recorded <= account.unstaked /\ p.amount \in Nat
    BY <2>1, CallWaits
  <2>3. attached \in Nat /\ env_balance \in Nat
    BY <2>2, NearNat
  <2>4. /\ DepositingOf(p) = attached
        /\ DepositedBy(p, "ok") = attached /\ DepositedBy(p, "failed") = 0
        /\ SentBackBy(p, "failed") = 0
        /\ p.kind = "withdraw_all" => SentBackBy(p, "ok") = recorded /\ attached = 0
        /\ p.kind # "withdraw_all" => SentBackBy(p, "ok") = 0
    BY <2>1 DEF DepositingOf, DepositedBy, SentBackBy
  <2>5. CASE ExecFails(p)
    <3>1. Answer(p, "failed", 0) /\ env_balance' = env_balance + attached
      BY <2>5 DEF ExecFails
    <3> HIDE DEF attached
    <3>2. env_balance + SentBackBy(p, "failed") + DepositingOf(p)
            <= env_balance' + DepositedBy(p, "failed")
      BY <2>3, <2>4, <3>1
    <3> QED
      BY <2>1, <3>1, <3>2, RunPays
  <2>6. CASE ExecWithdrawAll(p)
    <3>1. /\ p.kind = "withdraw_all" /\ Answer(p, "ok", 0)
          /\ env_balance' = env_balance + account.unstaked
      BY <2>6 DEF ExecWithdrawAll
    <3> HIDE DEF attached, recorded, account
    <3>2. env_balance + SentBackBy(p, "ok") + DepositingOf(p)
            <= env_balance' + DepositedBy(p, "ok")
      BY <2>2, <2>3, <2>4, <3>1
    <3> QED
      BY <2>1, <3>1, <3>2, RunPays
  <2>7. ASSUME p.kind # "withdraw_all", UNCHANGED env_balance,
               NEW answer \in Nat, Answer(p, "ok", answer)
        PROVE  NearInv'
    <3>1. env_balance + SentBackBy(p, "ok") + DepositingOf(p)
            <= env_balance' + DepositedBy(p, "ok")
      <4> HIDE DEF attached
      <4> QED
        BY <2>3, <2>4, <2>7
    <3> QED
      BY <2>1, <2>7, <3>1, RunPays
  <2>8. CASE ExecView(p)
    <3> DEFINE answer == IF p.kind = "total_balance"
                         THEN account.staked + account.unstaked ELSE account.unstaked
    <3>1. /\ p.kind # "withdraw_all" /\ UNCHANGED env_balance
          /\ answer \in Nat /\ Answer(p, "ok", answer)
      BY <2>2, <2>8 DEF ExecView, Views
    <3> HIDE DEF answer
    <3> QED
      BY <2>7, <3>1
  <2>9. ASSUME NEW d, ExecDepositAndStake(p, d) \/ ExecStake(p, d) \/ ExecUnstake(p, d)
        PROVE  NearInv'
    <3>1. p.kind # "withdraw_all" /\ UNCHANGED env_balance /\ Answer(p, "ok", 0)
      BY <2>9 DEF ExecDepositAndStake, ExecStake, ExecUnstake
    <3> QED
      BY <2>7, <3>1
  <2> QED
    BY <1>1, <2>5, <2>6, <2>8, <2>9 DEF PoolExecutes
<1>2. ASSUME UNCHANGED <<staking_pools, promises, contract_account_balance, registered>>,
             env_balance <= env_balance'
      PROVE  NearInv'
  <2>1. UNCHANGED <<Depositing, Retrieving, StorageDeposits>>
    BY <1>2, NearStays, SameDeposits
  <2>2. contract_account_balance' + StorageDeposits' + env_balance
          <= env_balance' + contract_account_balance + StorageDeposits
    BY <1>2, <2>1, NearNat, NearNatAfter
  <2> QED
    BY <2>1, <2>2, PaidIn
<1>3. ASSUME NEW id \in PoolIds, NEW r \in RewardAmounts, PoolReward(id, r)
      PROVE  NearInv'
  BY <1>2, <1>3, NearNat DEF PoolReward, poolStepUnchanged, userVars
<1>4. ASSUME NEW r \in RewardAmounts, NearArrives(r)
      PROVE  NearInv'
  <2>1. r \in Nat /\ env_balance' = env_balance + r
    BY <1>4, SetsAssumption DEF NearArrives
  <2>2. env_balance <= env_balance'
    BY <2>1, NearNat
  <2> QED
    BY <1>2, <1>4, <2>2 DEF NearArrives, listVars, userVars
<1>5. CASE NewEpoch
  BY <1>2, <1>5, NearNat DEF NewEpoch, listVars, moneyVars, userVars
<1> QED
  BY <1>1, <1>3, <1>4, <1>5 DEF PoolSteps

(* A callback books what its call has moved.                               *)
LEMMA EndPays ==
  ASSUME PInv, PInv', NearInv, NEW p \in promises, promises' = promises \ {p},
         \A q \in promises \ {p} :
            staking_pools'[q.inx].unstaked = staking_pools[q.inx].unstaked,
         UNCHANGED <<env_balance, StorageDeposits>>,
         contract_account_balance' + DepositingOf(p)
           = contract_account_balance + RetrievingOf(p, staking_pools)
  PROVE  NearInv'
<1>1. /\ Depositing' \in Nat /\ Depositing = Depositing' + DepositingOf(p)
      /\ Retrieving' \in Nat /\ Retrieving = Retrieving' + RetrievingOf(p, staking_pools)
  BY NearEnded
<1>2. p.amount \in Nat /\ staking_pools[p.inx].unstaked \in Nat
  BY CallWaits
<1>3. DepositingOf(p) \in Nat /\ RetrievingOf(p, staking_pools) \in Nat
  BY <1>2 DEF DepositingOf, RetrievingOf
<1>4. contract_account_balance + StorageDeposits + Retrieving <= env_balance + Depositing
  BY DEF NearInv
<1>5. contract_account_balance' + StorageDeposits + Retrieving' <= env_balance + Depositing'
  BY <1>1, <1>3, <1>4, NearNat, NearNatAfter
<1> QED
  BY <1>5 DEF NearInv

(* Rewards open accounts for their fees, unpaid, unless there are such.    *)
LEMMA CallbackOpensNone ==
  ASSUME PInv, PInv', AccountsPaidFor, NEW p \in promises, Callback(p)
  PROVE  UNCHANGED registered
<1>1. CASE RewardsDistributed(p)
  <2> DEFINE n == IF Monus(p.answer, TotalBalance(staking_pools[p.inx])) > 0 THEN 2 ELSE 0
  <2>1. OpensUnpaid(n) /\ UNCHANGED env_balance /\ n \in Nat
    BY <1>1 DEF RewardsDistributed, moneyVars
  <2> HIDE DEF n
  <2>2. registered <= registered'
    BY <2>1, OpensNat, NearNat
  <2>3. ~(registered' > registered)
    BY <2>1, NearNat DEF AccountsPaidFor
  <2> QED
    BY <2>2, <2>3, NearNat, NearNatAfter
<1>2. CASE CallbackPanics(p)
  BY <1>2 DEF CallbackPanics, booksUnchanged, userVars
<1>3. CASE StakeSucceeded(p) \/ StakeFailed(p)
  BY <1>3 DEF StakeSucceeded, StakeFailed, userVars
<1>4. CASE UnstakeSucceeded(p) \/ UnstakeFailed(p)
  BY <1>4 DEF UnstakeSucceeded, UnstakeFailed, userVars
<1>5. CASE Retrieved(p) \/ RetrieveFailed(p) \/ UnstakedSynced(p)
  BY <1>5 DEF Retrieved, RetrieveFailed, UnstakedSynced, booksUnchanged, userVars
<1> QED
  BY <1>1, <1>2, <1>3, <1>4, <1>5 DEF Callback

LEMMA CallbacksPay ==
  ASSUME PInv, PInv', NearInv, AccountsPaidFor, Callbacks
  PROVE  NearInv'
<1>1. PICK p \in promises : Callback(p)
  BY DEF Callbacks
<1> UNCHANGED StorageDeposits
  BY <1>1, CallbackOpensNone, SameDeposits
<1>2. /\ p.amount \in Nat /\ staking_pools[p.inx].unstaked \in Nat
      /\ p.inx \in DOMAIN staking_pools
      /\ \A q \in promises \ {p} : q.inx \in DOMAIN staking_pools /\ q.inx # p.inx
  BY CallWaits DEF PInv, CallsOK
<1>3. contract_account_balance \in Nat
  BY NearNat
<1>4. CASE CallbackPanics(p)
  <2>1. p.kind \in Views /\ p.stage = "failed"
    BY <1>1, <1>4, OnlyViewsPanic DEF Callback, CallbackPanics
  <2>2. DepositingOf(p) = 0 /\ RetrievingOf(p, staking_pools) = 0
    BY <2>1 DEF DepositingOf, RetrievingOf, Views
  <2>3. promises' = promises \ {p} /\ UNCHANGED <<staking_pools, moneyVars>>
    BY <1>4 DEF CallbackPanics, booksUnchanged
  <2> QED
    BY <1>3, <2>2, <2>3, EndPays DEF moneyVars
<1>5. ASSUME NEW sp, Settle(p, sp), UNCHANGED env_balance,
             contract_account_balance' + DepositingOf(p)
               = contract_account_balance + RetrievingOf(p, staking_pools)
      PROVE  NearInv'
  <2>1. /\ promises' = promises \ {p}
        /\ \A q \in promises \ {p} : staking_pools'[q.inx] = staking_pools[q.inx]
    BY <1>2, <1>5 DEF Settle
  <2> QED
    BY <1>5, <2>1, EndPays
<1>6. ASSUME p.kind \in {"deposit_and_stake", "withdraw_all"} => p.stage = "failed",
             UNCHANGED <<contract_account_balance, env_balance>>, \E sp : Settle(p, sp)
      PROVE  NearInv'
  <2>1. DepositingOf(p) = 0 /\ RetrievingOf(p, staking_pools) = 0
    BY <1>6 DEF DepositingOf, RetrievingOf
  <2> QED
    BY <1>3, <1>5, <1>6, <2>1
<1>7. CASE StakeSucceeded(p)
  <2>1. p.stage = "ok" /\ UNCHANGED env_balance /\ \E sp : Settle(p, sp)
    BY <1>7 DEF StakeSucceeded
  <2>2. CASE p.kind = "deposit_and_stake"
    <3>1. contract_account_balance' = contract_account_balance - p.amount
      BY <1>7, <2>2 DEF StakeSucceeded
    <3>2. DepositingOf(p) = p.amount /\ RetrievingOf(p, staking_pools) = 0
      BY <2>1, <2>2 DEF DepositingOf, RetrievingOf
    <3>3. contract_account_balance' + DepositingOf(p)
            = contract_account_balance + RetrievingOf(p, staking_pools)
      BY <1>2, <1>3, <3>1, <3>2
    <3> QED
      BY <1>5, <2>1, <3>3
  <2>3. CASE p.kind = "stake"
    BY <1>6, <1>7, <2>1, <2>3 DEF StakeSucceeded
  <2> QED
    BY <1>7, <2>2, <2>3 DEF StakeSucceeded
<1>8. CASE Retrieved(p)
  <2>1. /\ p.stage = "ok" /\ p.kind = "withdraw_all"
        /\ UNCHANGED env_balance /\ \E sp : Settle(p, sp)
        /\ contract_account_balance' = contract_account_balance + staking_pools[p.inx].unstaked
    BY <1>8 DEF Retrieved
  <2>2. DepositingOf(p) = 0 /\ RetrievingOf(p, staking_pools) = staking_pools[p.inx].unstaked
    BY <2>1 DEF DepositingOf, RetrievingOf
  <2>3. contract_account_balance' + DepositingOf(p)
          = contract_account_balance + RetrievingOf(p, staking_pools)
    BY <1>2, <1>3, <2>1, <2>2
  <2> QED
    BY <1>5, <2>1, <2>3
<1>9. CASE StakeFailed(p) \/ UnstakeFailed(p) \/ RetrieveFailed(p)
  BY <1>6, <1>9 DEF StakeFailed, UnstakeFailed, RetrieveFailed, moneyVars, booksUnchanged
<1>10. CASE UnstakeSucceeded(p) \/ RewardsDistributed(p)
  BY <1>6, <1>10 DEF UnstakeSucceeded, RewardsDistributed, moneyVars
<1>11. ~UnstakedSynced(p)
  BY DEF PInv, CallsOK, UnstakedSynced
<1> QED
  BY <1>1, <1>4, <1>7, <1>8, <1>9, <1>10, <1>11 DEF Callback

(* Nothing is paid, and no record changes.                                 *)
LEMMA OwnerCallPays ==
  ASSUME PInv, NearInv,
         UNCHANGED <<promises, contract_account_balance, env_balance, registered>>,
         \A i \in DOMAIN staking_pools : staking_pools'[i].unstaked = staking_pools[i].unstaked
  PROVE  NearInv'
<1>1. UNCHANGED <<Depositing, Retrieving, StorageDeposits>>
  BY NearStays, SameDeposits DEF PInv, CallsOK
<1> QED
  BY <1>1 DEF NearInv

(* A sweep leaves SWEEP_MARGIN more than the books say.  With a call in    *)
(* flight it could take what is on its way, and with more storage deposits *)
(* than that, some of these.                                               *)
LEMMA SweepPays ==
  ASSUME PInv, NearInv, SweptWithCare, TransferExtraBalance
  PROVE  NearInv'
<1>1. /\ promises = {} /\ StorageDeposits <= SWEEP_MARGIN
      /\ UNCHANGED <<promises, contract_account_balance, StorageDeposits>>
  BY SameDeposits DEF SweptWithCare, PInv, CallsOK, InFlight, TransferExtraBalance, listVars,
     userVars
<1>2. Depositing' = 0 /\ Retrieving' = 0
  BY <1>1, NearAtRest DEF Depositing, Retrieving
<1>3. /\ ExtraBalance >= ONE_NEAR
      /\ env_balance' = env_balance - (ExtraBalance - SWEEP_MARGIN)
  BY DEF TransferExtraBalance
<1>4. ONE_NEAR \in Nat \ {0} /\ SWEEP_MARGIN \in Nat
  BY ThresholdsAssumption
<1>5. ExtraBalance = env_balance - contract_account_balance
  BY <1>3, <1>4, NearNat DEF ExtraBalance, Monus
<1>6. contract_account_balance' + StorageDeposits' <= env_balance'
  BY <1>1, <1>3, <1>4, <1>5, NearNat
<1> HIDE DEF NearInv
<1>7. contract_account_balance' + StorageDeposits' + Retrieving'
        = contract_account_balance' + StorageDeposits'
  BY <1>1, <1>2, NearNat
<1>8. env_balance' + Depositing' = env_balance'
  BY <1>2, <1>3, <1>4, <1>5, NearNat
<1> QED
  BY <1>6, <1>7, <1>8 DEF NearInv

LEMMA NearKept ==
  ASSUME MAX_SYNCS = 0, PInv, PInv', NearInv, [UpgradedNext]_vars,
         [SweptWithCare]_vars, [AccountsPaidFor]_vars
  PROVE  NearInv'
<1> USE DEF userVars
<1>1. CASE UNCHANGED <<moneyVars, staking_pools, promises, registered>>
  BY <1>1, OwnerCallPays DEF moneyVars
<1>2. CASE UNCHANGED vars
  BY <1>1, <1>2 DEF vars, listVars
<1>3. CASE PauseStaking \/ Migrate \/ \E value \in BOOLEAN : SetBusy(value)
  BY <1>1, <1>3 DEF PauseStaking, Migrate, SetBusy, booksUnchanged
<1>4. CASE TransferExtraBalance
  BY <1>2, <1>4, SweepPays
<1> HIDE DEF userVars
<1>5. ASSUME NEW weights \in WeightLists, SetStakingPools(weights)
      PROVE  NearInv'
  <2>1. /\ UNCHANGED <<promises, contract_account_balance, env_balance, registered>>
        /\ staking_pools' = [i \in DOMAIN staking_pools |->
              [staking_pools[i] EXCEPT !.weight_basis_points = weights[i]]]
    BY <1>5 DEF SetStakingPools, booksUnchanged, moneyVars, userVars
  <2>2. \A i \in DOMAIN staking_pools : staking_pools[i] \in PoolInfo
    BY PoolTyped DEF PInv
  <2>3. \A i \in DOMAIN staking_pools : staking_pools'[i].unstaked = staking_pools[i].unstaked
    BY <2>1, <2>2 DEF PoolInfo
  <2> QED
    BY <2>1, <2>3, OwnerCallPays
<1>6. ASSUME NEW i \in DOMAIN staking_pools, SpBusy(i, FALSE)
      PROVE  NearInv'
  <2>1. /\ UNCHANGED <<promises, contract_account_balance, env_balance, registered>>
        /\ staking_pools' = [staking_pools EXCEPT ![i].busy_lock = FALSE]
    BY <1>6 DEF SpBusy, booksUnchanged, moneyVars, userVars
  <2>2. \A j \in DOMAIN staking_pools : staking_pools[j] \in PoolInfo
    BY PoolTyped DEF PInv
  <2>3. \A j \in DOMAIN staking_pools : staking_pools'[j].unstaked = staking_pools[j].unstaked
    BY <2>1, <2>2 DEF PoolInfo
  <2> QED
    BY <2>1, <2>3, OwnerCallPays
<1>7. CASE promises = {} /\ PoolListCalls
  <2>1. UNCHANGED <<promises, contract_account_balance, env_balance, registered>>
    BY <1>7 DEF PoolListCalls, AddStakingPool, RemoveStakingPool, booksUnchanged, moneyVars,
       userVars
  <2>2. UNCHANGED <<Depositing, Retrieving, StorageDeposits>>
    BY <1>7, <2>1, NearStays, SameDeposits
  <2> QED
    BY <2>1, <2>2 DEF NearInv
<1>8. CASE Ordinary
  <2>1. AccountsPaidFor \/ UNCHANGED vars
    OBVIOUS
  <2> QED
    BY <1>2, <1>3, <1>4, <1>5, <1>8, <2>1, UserCallsPay, StorageCallsPaid, HeartbeatCallsPay,
       PoolStepsPay, CallbacksPay DEF Ordinary
<1> QED
  BY <1>2, <1>3, <1>6, <1>7, <1>8 DEF UpgradedNext

LEMMA NearInitially == Init => NearInv
<1> SUFFICES ASSUME Init PROVE NearInv
  OBVIOUS
<1>1. /\ promises = {} /\ contract_account_balance = 0 /\ env_balance = INITIAL_BALANCE
      /\ registered = 0
  BY DEF Init, InitWith
<1>2. Depositing = 0 /\ Retrieving = 0
  BY <1>1, NearAtRest DEF Depositing, Retrieving
<1>3. StorageDeposits = 0
  BY <1>1, ThresholdsAssumption DEF StorageDeposits
<1> QED
  BY <1>1, <1>2, <1>3, ThresholdsAssumption DEF NearInv

(* What is being deposited is part of what is being staked.                *)
LEMMA DepositingWithinStaking ==
  ASSUME PInv
  PROVE  Depositing <= Staking
<1> DEFINE d == [p \in promises |-> DepositingOf(p)]
           s == [p \in promises |-> StakingOf(p)]
           h == [p \in promises |-> p]
<1>1. IsFiniteSet(promises) /\ d \in [promises -> Nat]
  BY CallsFind, NearTyped DEF Finds
<1>2. s \in [promises -> Nat]
  BY CountsNat DEF PInv, TypeOK
<1>3. \A p \in promises : d[p] <= s[p]
  <2>1. \A p \in promises : p.amount \in Nat
    BY CallWaits
  <2> QED
    BY <2>1 DEF DepositingOf, StakingOf
<1>4. Fits(promises, promises, h, d, s)
  BY <1>3 DEF Fits
<1> HIDE DEF d, s, h
<1>5. SumOf(d) <= SumOf(s)
  BY <1>1, <1>2, <1>4, SumInjected
<1> QED
  BY <1>5 DEF Depositing, DepositingIn, Staking, d, s

(* Whatever the pools do, and whatever is in flight, the account holds     *)
(* what the books promise and the deposit of every account, however many   *)
(* are opened and closed, if the extra balance is swept with care          *)
(* (distribute.rs:513 sees to neither half of it) and no account is opened *)
(* unpaid (internal.rs:650 and the fees do).                               *)
THEOREM NearAlwaysBacksBooks ==
  ASSUME MAX_SYNCS = 0
  PROVE  UpgradedSpec /\ [][SweptWithCare]_vars /\ [][AccountsPaidFor]_vars
           => []NearBacksBooks
<1>1. PInv /\ PInv' /\ NearInv /\ [UpgradedNext]_vars
        /\ [SweptWithCare]_vars /\ [AccountsPaidFor]_vars
        => NearInv'
  BY NearKept
<1>2. PInv /\ NearInv => NearBacksBooks
  <2> SUFFICES ASSUME PInv, NearInv PROVE NearBacksBooks
    OBVIOUS
  <2>1. contract_account_balance = Booked + Staking
    BY DEF PInv, BooksOK, BooksExact
  <2>2. contract_account_balance + StorageDeposits + Retrieving <= env_balance + Depositing
    BY DEF NearInv
  <2>3. Depositing <= Staking /\ Staking \in Nat /\ Booked \in Nat
    BY DepositingWithinStaking, SumsNat DEF PInv, TypeOK, TotalsNat, Booked
  <2>4. Booked + StorageDeposits <= env_balance
    BY <2>1, <2>2, <2>3, NearNat
  <2> QED
    BY <2>4 DEF NearBacksBooks
<1> QED
  BY <1>1, <1>2, NearInitially, BooksInvariance, PTL DEF UpgradedSpec

-----------------------------------------------------------------------------
(* The pools.  When they do not round, each holds what is on record of it, *)
(* or what will be on record when the call it has executed has settled.    *)

\* The record that the call p leaves behind when it settles well, now.
Outcome(p, sp, now) ==
  CASE p.kind = "deposit_and_stake" -> [sp EXCEPT !.staked = @ + p.amount]
    [] p.kind = "stake" ->
         [sp EXCEPT !.staked = @ + p.amount, !.unstaked = @ - p.amount]
    [] p.kind = "unstake" ->
         [sp EXCEPT !.staked = @ - (p.amount + p.rebalance),
                    !.unstaked = @ + p.amount + p.rebalance,
                    !.unstk_req_epoch_height = now]
    [] p.kind = "withdraw_all" -> [sp EXCEPT !.unstaked = 0]
    [] p.kind = "total_balance" -> [sp EXCEPT !.staked = p.answer - sp.unstaked]

\* The account has what is on record, and rewards; what is unstaked there is
\* released when its wait has ended.
Holds(account, sp) ==
  /\ account.unstaked = sp.unstaked
  /\ sp.staked <= account.staked
  /\ sp.unstaked > 0 =>
       account.available_epoch <= sp.unstk_req_epoch_height + NUM_EPOCHS_TO_UNLOCK

\* What has been answered stays there: nothing else takes from a locked pool.
Answered(p, sp, account, now) ==
  /\ Holds(account, Outcome(p, sp, now))
  /\ p.kind = "total_balance" => TotalBalance(sp) <= p.answer

(* A pool that is not in the list has nothing that can be retrieved, so it *)
(* may be added again.                                                     *)
HoldInv ==
  /\ \A i \in DOMAIN staking_pools : staking_pools[i].unstk_req_epoch_height <= epoch
  /\ \A i \in DOMAIN staking_pools :
        (\A p \in promises : p.inx = i => p.stage # "ok")
          => Holds(pool_account[staking_pools[i].account_id], staking_pools[i])
  /\ \A p \in promises : p.stage = "ok" =>
        Answered(p, staking_pools[p.inx], pool_account[p.pool], epoch)
  /\ \A id \in PoolIds :
        (\A i \in DOMAIN staking_pools : staking_pools[i].account_id # id)
          => pool_account[id].unstaked = 0

\* What a record says of the pool's holdings.
SameHoldings(sp, later) ==
  /\ later.account_id = sp.account_id
  /\ later.staked = sp.staked /\ later.unstaked = sp.unstaked
  /\ later.unstk_req_epoch_height = sp.unstk_req_epoch_height

(* What of a record counts is what it says of the holdings.                *)
LEMMA SameOutcome ==
  ASSUME NEW p \in Promises, p.kind # "unstaked_balance",
         NEW sp \in PoolInfo, NEW later \in PoolInfo, SameHoldings(sp, later), NEW now \in Nat
  PROVE  /\ \A account : Holds(account, later) <=> Holds(account, sp)
         /\ \A account : Answered(p, later, account, now) <=> Answered(p, sp, account, now)
<1>1. /\ Outcome(p, later, now).staked = Outcome(p, sp, now).staked
      /\ Outcome(p, later, now).unstaked = Outcome(p, sp, now).unstaked
      /\ Outcome(p, later, now).unstk_req_epoch_height = Outcome(p, sp, now).unstk_req_epoch_height
  <2>1. p.kind \in CallKinds \ {"unstaked_balance"}
    BY DEF Promises
  <2>2. CASE p.kind = "deposit_and_stake"
    BY <2>2 DEF Outcome, SameHoldings, PoolInfo
  <2>3. CASE p.kind = "stake"
    BY <2>3 DEF Outcome, SameHoldings, PoolInfo
  <2>4. CASE p.kind = "unstake"
    BY <2>4 DEF Outcome, SameHoldings, PoolInfo
  <2>5. CASE p.kind = "withdraw_all"
    BY <2>5 DEF Outcome, SameHoldings, PoolInfo
  <2>6. CASE p.kind = "total_balance"
    BY <2>6 DEF Outcome, SameHoldings, PoolInfo
  <2> QED
    BY <2>1, <2>2, <2>3, <2>4, <2>5, <2>6 DEF CallKinds
<1>2. TotalBalance(later) = TotalBalance(sp)
  BY DEF TotalBalance, SameHoldings
<1> QED
  BY <1>1, <1>2 DEF Holds, Answered, SameHoldings

(* What the calls leave: the outcome of a call of each kind.               *)
LEMMA Outcomes ==
  ASSUME NEW p \in Promises, NEW sp \in PoolInfo, NEW now \in Nat
  PROVE  LET o == Outcome(p, sp, now) IN
         /\ p.kind = "deposit_and_stake" =>
              /\ o.staked = sp.staked + p.amount /\ o.unstaked = sp.unstaked
              /\ o.unstk_req_epoch_height = sp.unstk_req_epoch_height
         /\ p.kind = "stake" =>
              /\ o.staked = sp.staked + p.amount /\ o.unstaked = sp.unstaked - p.amount
              /\ o.unstk_req_epoch_height = sp.unstk_req_epoch_height
         /\ p.kind = "unstake" =>
              /\ o.staked = sp.staked - (p.amount + p.rebalance)
              /\ o.unstaked = sp.unstaked + p.amount + p.rebalance
              /\ o.unstk_req_epoch_height = now
         /\ p.kind = "withdraw_all" =>
              /\ o.staked = sp.staked /\ o.unstaked = 0
         /\ p.kind = "total_balance" =>
              /\ o.staked = p.answer - sp.unstaked /\ o.unstaked = sp.unstaked
              /\ o.unstk_req_epoch_height = sp.unstk_req_epoch_height
BY DEF Outcome, PoolInfo

\* The lists of pools before and after a step, and the same holdings.
LEMMA PoolsTypedAfter ==
  ASSUME PInv'
  PROVE  /\ epoch' \in Nat
         /\ \A i \in DOMAIN staking_pools' : staking_pools'[i] \in PoolInfo
         /\ \A p \in promises' : /\ p \in Promises /\ p.kind # "unstaked_balance"
                                 /\ p.inx \in DOMAIN staking_pools'
<1>1. /\ staking_pools' \in Seq(PoolInfo) /\ promises' \subseteq Promises /\ epoch' \in Nat
      /\ \A p \in promises' : p.kind # "unstaked_balance" /\ p.inx \in DOMAIN staking_pools'
  BY DEF PInv, TypeOK, TotalsNat, CallsOK
<1>2. \A i \in DOMAIN staking_pools' : staking_pools'[i] \in PoolInfo
  BY <1>1
<1> QED
  BY <1>1, <1>2

(* No pool executes a call, no call that a pool has executed is settled,    *)
(* and no record changes.                                                  *)
LEMMA HoldStays ==
  ASSUME PInv, PInv', HoldInv, UNCHANGED <<pool_account, epoch>>,
         \A p : p \in promises' /\ p.stage = "ok" <=> p \in promises /\ p.stage = "ok",
         DOMAIN staking_pools' = DOMAIN staking_pools,
         \A i \in DOMAIN staking_pools : SameHoldings(staking_pools[i], staking_pools'[i])
  PROVE  HoldInv'
<1>1. \A i \in DOMAIN staking_pools :
         staking_pools[i] \in PoolInfo /\ staking_pools'[i] \in PoolInfo
  BY PoolTyped, PoolsTypedAfter DEF PInv
<1>2. \A p \in promises : /\ p \in Promises /\ p.kind # "unstaked_balance"
                          /\ p.inx \in DOMAIN staking_pools
  BY CallWaits DEF PInv, CallsOK
<1>3. epoch \in Nat
  BY DEF PInv, TypeOK, TotalsNat
<1>4. ASSUME NEW i \in DOMAIN staking_pools
      PROVE  \A account : Holds(account, staking_pools'[i]) <=> Holds(account, staking_pools[i])
  BY DEF SameHoldings, Holds
<1>5. ASSUME NEW p \in promises
      PROVE  \A account : Answered(p, staking_pools'[p.inx], account, epoch)
                            <=> Answered(p, staking_pools[p.inx], account, epoch)
  BY <1>1, <1>2, <1>3, SameOutcome
<1>6. \A i \in DOMAIN staking_pools :
        /\ staking_pools'[i].unstk_req_epoch_height = staking_pools[i].unstk_req_epoch_height
        /\ staking_pools'[i].account_id = staking_pools[i].account_id
  BY DEF SameHoldings
<1>7. \A i \in DOMAIN staking_pools' : staking_pools'[i].unstk_req_epoch_height <= epoch'
  BY <1>6 DEF HoldInv
<1>8. \A i \in DOMAIN staking_pools' :
        (\A p \in promises' : p.inx = i => p.stage # "ok")
          => Holds(pool_account'[staking_pools'[i].account_id], staking_pools'[i])
  BY <1>4, <1>6 DEF HoldInv
<1>9. \A p \in promises' : p.stage = "ok" =>
        Answered(p, staking_pools'[p.inx], pool_account'[p.pool], epoch')
  BY <1>5 DEF HoldInv
<1>10. \A id \in PoolIds :
         (\A i \in DOMAIN staking_pools' : staking_pools'[i].account_id # id)
           => pool_account'[id].unstaked = 0
  BY <1>6 DEF HoldInv
<1> QED
  BY <1>7, <1>8, <1>9, <1>10 DEF HoldInv

(* A call is sent: the pool has not executed anything yet.                 *)
LEMMA HoldSent ==
  ASSUME PInv, PInv', HoldInv, NEW call, Sends(call), UNCHANGED <<pool_account, epoch>>
  PROVE  HoldInv'
<1>1. /\ promises' = promises \cup {call} /\ call.stage = "sent"
      /\ staking_pools' = [staking_pools EXCEPT ![call.inx].busy_lock = TRUE]
  BY DEF Sends, LockAndSend, Send
<1>2. \A i \in DOMAIN staking_pools : staking_pools[i] \in PoolInfo
  BY PoolTyped DEF PInv
<1>3. \A i \in DOMAIN staking_pools : SameHoldings(staking_pools[i], staking_pools'[i])
  BY <1>1, <1>2 DEF SameHoldings, PoolInfo
<1>4. DOMAIN staking_pools' = DOMAIN staking_pools
  BY <1>1
<1>5. \A p : p \in promises' /\ p.stage = "ok" <=> p \in promises /\ p.stage = "ok"
  BY <1>1
<1> QED
  BY <1>3, <1>4, <1>5, HoldStays

(* A pool executes a call.                                                 *)
LEMMA HoldRun ==
  ASSUME PInv, PInv', HoldInv, NEW p \in promises, p.stage = "sent",
         NEW stage \in {"ok", "failed"}, NEW answer \in Nat, Answer(p, stage, answer),
         UNCHANGED <<staking_pools, epoch>>,
         NEW account, pool_account' = [pool_account EXCEPT ![p.pool] = account],
         stage = "failed" => account = pool_account[p.pool],
         stage = "ok" => Answered([p EXCEPT !.stage = stage, !.answer = answer],
                                  staking_pools[p.inx], account, epoch)
  PROVE  HoldInv'
<1> DEFINE r == [p EXCEPT !.stage = stage, !.answer = answer]
<1>1. /\ p \in Promises /\ p.pool \in PoolIds /\ p.inx \in DOMAIN staking_pools
      /\ staking_pools[p.inx].account_id = p.pool
  BY CallWaits
<1>2. /\ r.inx = p.inx /\ r.pool = p.pool /\ r.stage = stage
  BY <1>1 DEF Promises
<1>3. promises' = (promises \ {p}) \cup {r}
  BY DEF Answer
<1>4. /\ \A q \in promises : q.inx = p.inx => q = p
      /\ \A i, j \in DOMAIN staking_pools :
            staking_pools[i].account_id = staking_pools[j].account_id => i = j
      /\ \A q \in promises : /\ q.inx \in DOMAIN staking_pools /\ q.pool \in PoolIds
                             /\ staking_pools[q.inx].account_id = q.pool
      /\ \A i \in DOMAIN staking_pools : staking_pools[i].account_id \in PoolIds
  BY CallWaits, PoolTyped DEF PInv, CallsOK
<1>5. /\ pool_account'[p.pool] = account
      /\ \A id \in PoolIds \ {p.pool} : pool_account'[id] = pool_account[id]
  BY <1>1 DEF PInv, TypeOK
<1>6. CASE stage = "failed"
  <2>1. UNCHANGED pool_account
    BY <1>1, <1>6 DEF PInv, TypeOK
  <2>2. \A q : q \in promises' /\ q.stage = "ok" <=> q \in promises /\ q.stage = "ok"
    <3> HIDE DEF r
    <3> QED
      BY <1>2, <1>3, <1>6
  <2>3. \A i \in DOMAIN staking_pools : SameHoldings(staking_pools[i], staking_pools'[i])
    BY DEF SameHoldings
  <2> QED
    BY <2>1, <2>2, <2>3, HoldStays
<1>7. CASE stage = "ok"
  <2>1. Answered(r, staking_pools[p.inx], account, epoch)
    BY <1>7
  <2> HIDE DEF r
  <2>2. \A i \in DOMAIN staking_pools :
          (\A q \in promises' : q.inx = i => q.stage # "ok")
            => Holds(pool_account'[staking_pools[i].account_id], staking_pools[i])
    <3> SUFFICES ASSUME NEW i \in DOMAIN staking_pools,
                        \A q \in promises' : q.inx = i => q.stage # "ok"
                 PROVE  Holds(pool_account'[staking_pools[i].account_id], staking_pools[i])
      OBVIOUS
    <3>1. i # p.inx
      BY <1>2, <1>3, <1>7
    <3>2. \A q \in promises : q.inx = i => q.stage # "ok"
      BY <1>3, <3>1
    <3>3. staking_pools[i].account_id \in PoolIds \ {p.pool}
      BY <1>1, <1>4, <3>1
    <3> QED
      BY <1>5, <3>2, <3>3 DEF HoldInv
  <2>3. \A q \in promises' : q.stage = "ok" =>
          Answered(q, staking_pools[q.inx], pool_account'[q.pool], epoch)
    <3> SUFFICES ASSUME NEW q \in promises', q.stage = "ok", q # r
                 PROVE  Answered(q, staking_pools[q.inx], pool_account'[q.pool], epoch)
      BY <1>2, <1>5, <2>1
    <3>1. q \in promises /\ q # p
      BY <1>3
    <3>2. q.pool \in PoolIds \ {p.pool}
      BY <1>1, <1>4, <3>1
    <3> QED
      BY <1>5, <3>1, <3>2 DEF HoldInv
  <2>4. \A id \in PoolIds :
          (\A i \in DOMAIN staking_pools : staking_pools[i].account_id # id)
            => pool_account'[id].unstaked = 0
    BY <1>1, <1>5 DEF HoldInv
  <2> QED
    BY <2>2, <2>3, <2>4 DEF HoldInv
<1> QED
  BY <1>6, <1>7

(* A call that the pool has executed is settled, and its record is what    *)
(* the pool holds.                                                         *)
LEMMA HoldEnded ==
  ASSUME PInv, PInv', HoldInv, NEW p \in promises, promises' = promises \ {p},
         NEW sp, staking_pools' = [staking_pools EXCEPT ![p.inx] = sp],
         sp.account_id = p.pool, sp.unstk_req_epoch_height <= epoch,
         Holds(pool_account[p.pool], sp), UNCHANGED <<pool_account, epoch>>
  PROVE  HoldInv'
<1>1. /\ p.inx \in DOMAIN staking_pools /\ staking_pools[p.inx].account_id = p.pool
  BY CallWaits
<1>2. /\ DOMAIN staking_pools' = DOMAIN staking_pools /\ staking_pools'[p.inx] = sp
      /\ \A i \in DOMAIN staking_pools \ {p.inx} : staking_pools'[i] = staking_pools[i]
  BY <1>1
<1>3. \A q \in promises \ {p} : q.inx # p.inx /\ q.inx \in DOMAIN staking_pools
  BY DEF PInv, CallsOK
<1>4. \A i \in DOMAIN staking_pools : staking_pools'[i].account_id = staking_pools[i].account_id
  BY <1>1, <1>2
<1>5. \A i \in DOMAIN staking_pools' : staking_pools'[i].unstk_req_epoch_height <= epoch'
  BY <1>2 DEF HoldInv
<1>6. \A i \in DOMAIN staking_pools' :
        (\A q \in promises' : q.inx = i => q.stage # "ok")
          => Holds(pool_account'[staking_pools'[i].account_id], staking_pools'[i])
  <2> SUFFICES ASSUME NEW i \in DOMAIN staking_pools, i # p.inx,
                      \A q \in promises' : q.inx = i => q.stage # "ok"
               PROVE  Holds(pool_account[staking_pools[i].account_id], staking_pools[i])
    BY <1>2
  <2>1. \A q \in promises : q.inx = i => q.stage # "ok"
    OBVIOUS
  <2> QED
    BY <2>1 DEF HoldInv
<1>7. \A q \in promises' : q.stage = "ok" =>
        Answered(q, staking_pools'[q.inx], pool_account'[q.pool], epoch')
  BY <1>2, <1>3 DEF HoldInv
<1>8. \A id \in PoolIds :
        (\A i \in DOMAIN staking_pools' : staking_pools'[i].account_id # id)
          => pool_account'[id].unstaked = 0
  BY <1>2, <1>4 DEF HoldInv
<1> QED
  BY <1>5, <1>6, <1>7, <1>8 DEF HoldInv

(* What a pool that does not round answers.                                *)
LEMMA HoldExecuted ==
  ASSUME DRIFT = 0, PInv, PInv', HoldInv, NEW p \in promises, PoolExecutes(p)
  PROVE  HoldInv'
<1> DEFINE account == pool_account[p.pool]
           sp == staking_pools[p.inx]
           total == p.amount + p.rebalance
           r(answer) == [p EXCEPT !.stage = "ok", !.answer = answer]
<1>1. p.stage = "sent" /\ UNCHANGED <<staking_pools, epoch>>
  BY DEF PoolExecutes, poolStepUnchanged
<1>2. /\ p \in Promises /\ p.pool \in PoolIds /\ p.inx \in DOMAIN staking_pools
      /\ p.amount \in Nat /\ p.rebalance \in Nat /\ total \in Nat
      /\ sp \in PoolInfo /\ sp.staked \in Nat /\ sp.unstaked \in Nat
      /\ account \in PoolAccount /\ account.staked \in Nat /\ account.unstaked \in Nat
  BY CallWaits
<1>3. epoch \in Nat /\ NUM_EPOCHS_TO_UNLOCK \in Nat
  BY ThresholdsAssumption DEF PInv, TypeOK, TotalsNat
<1>4. /\ account.unstaked = sp.unstaked /\ sp.staked <= account.staked
      /\ sp.unstaked > 0 =>
           account.available_epoch <= sp.unstk_req_epoch_height + NUM_EPOCHS_TO_UNLOCK
      /\ sp.unstk_req_epoch_height \in Nat /\ account.available_epoch \in Nat
  <2>1. \A q \in promises : q.inx = p.inx => q.stage # "ok"
    BY <1>1 DEF PInv, CallsOK
  <2>2. Holds(account, sp)
    BY <1>2, <2>1, CallWaits DEF HoldInv
  <2> QED
    BY <1>2, <2>2 DEF Holds, PoolInfo, PoolAccount
<1>5. \A answer \in Nat : /\ r(answer) \in Promises /\ r(answer).kind = p.kind
                          /\ r(answer).amount = p.amount /\ r(answer).rebalance = p.rebalance
                          /\ r(answer).answer = answer
  BY <1>2 DEF Promises, Stages
<1> HIDE DEF r
<1>6. pool_account \in [PoolIds -> PoolAccount]
  BY DEF PInv, TypeOK
<1>7. ASSUME NEW answer \in Nat, Answer(p, "ok", answer),
             NEW a, pool_account' = [pool_account EXCEPT ![p.pool] = a],
             Answered(r(answer), sp, a, epoch)
      PROVE  HoldInv'
  BY <1>1, <1>7, HoldRun DEF r
<1>8. CASE ExecFails(p)
  <2>1. Answer(p, "failed", 0) /\ pool_account' = [pool_account EXCEPT ![p.pool] = account]
    BY <1>2, <1>6, <1>8 DEF ExecFails
  <2> QED
    BY <1>1, <2>1, HoldRun
<1>9. CASE ExecDepositAndStake(p, 0)
  <2> DEFINE a == AfterDepositAndStake(account, p.amount, 0)
  <2>1. /\ p.kind = "deposit_and_stake" /\ Answer(p, "ok", 0)
        /\ pool_account' = [pool_account EXCEPT ![p.pool] = a]
    BY <1>9 DEF ExecDepositAndStake
  <2>2. /\ a.staked = account.staked + p.amount /\ a.unstaked = account.unstaked
        /\ a.available_epoch = account.available_epoch
    BY <1>2 DEF AfterDepositAndStake, PoolAccount
  <2>3. r(0).kind = "deposit_and_stake"
    BY <1>5, <2>1
  <2>4. LET o == Outcome(r(0), sp, epoch) IN
        /\ o.staked = sp.staked + p.amount /\ o.unstaked = sp.unstaked
        /\ o.unstk_req_epoch_height = sp.unstk_req_epoch_height
    BY <1>2, <1>3, <1>5, <2>3, Outcomes
  <2> HIDE DEF a
  <2>5. Answered(r(0), sp, a, epoch)
    BY <1>2, <1>4, <2>2, <2>3, <2>4 DEF Answered, Holds
  <2> QED
    BY <1>7, <2>1, <2>5
<1>10. CASE ExecStake(p, 0)
  <2> DEFINE a == AfterStake(account, p.amount, 0)
  <2>1. /\ p.kind = "stake" /\ Answer(p, "ok", 0)
        /\ pool_account' = [pool_account EXCEPT ![p.pool] = a]
    BY <1>10 DEF ExecStake
  <2>2. /\ a.staked = account.staked + p.amount /\ a.unstaked = account.unstaked - p.amount
        /\ a.available_epoch = account.available_epoch
    BY <1>2 DEF AfterStake, PoolAccount
  <2>3. r(0).kind = "stake"
    BY <1>5, <2>1
  <2>4. LET o == Outcome(r(0), sp, epoch) IN
        /\ o.staked = sp.staked + p.amount /\ o.unstaked = sp.unstaked - p.amount
        /\ o.unstk_req_epoch_height = sp.unstk_req_epoch_height
    BY <1>2, <1>3, <1>5, <2>3, Outcomes
  <2>5. sp.unstaked >= p.amount
    BY <2>1 DEF PInv, CallsOK
  <2> HIDE DEF a
  <2>6. Answered(r(0), sp, a, epoch)
    BY <1>2, <1>4, <2>2, <2>3, <2>4, <2>5 DEF Answered, Holds
  <2> QED
    BY <1>7, <2>1, <2>6
<1>11. CASE ExecUnstake(p, 0)
  <2> DEFINE a == AfterUnstake(account, total, 0, epoch + NUM_EPOCHS_TO_UNLOCK)
  <2>1. /\ p.kind = "unstake" /\ Answer(p, "ok", 0) /\ account.staked >= total
        /\ pool_account' = [pool_account EXCEPT ![p.pool] = a]
    BY <1>2, <1>11 DEF ExecUnstake, RefusesUnstake
  <2>2. /\ a.staked = Monus(account.staked, total + 0)
        /\ a.unstaked = account.unstaked + total + 0
        /\ a.available_epoch = epoch + NUM_EPOCHS_TO_UNLOCK
    BY DEF AfterUnstake
  <2>3. r(0).kind = "unstake"
    BY <1>5, <2>1
  <2>4. LET o == Outcome(r(0), sp, epoch) IN
        /\ o.staked = sp.staked - total /\ o.unstaked = sp.unstaked + p.amount + p.rebalance
        /\ o.unstk_req_epoch_height = epoch
    BY <1>2, <1>3, <1>5, <2>3, Outcomes
  <2>5. a.staked = account.staked - total /\ a.unstaked = account.unstaked + total
    BY <1>2, <2>1, <2>2 DEF Monus
  <2> HIDE DEF a
  <2>6. Answered(r(0), sp, a, epoch)
    BY <1>2, <1>3, <1>4, <2>1, <2>2, <2>3, <2>4, <2>5 DEF Answered, Holds
  <2> QED
    BY <1>7, <2>1, <2>6
<1>12. CASE ExecWithdrawAll(p)
  <2> DEFINE a == AfterWithdrawAll(account)
  <2>1. /\ p.kind = "withdraw_all" /\ Answer(p, "ok", 0)
        /\ pool_account' = [pool_account EXCEPT ![p.pool] = a]
    BY <1>12 DEF ExecWithdrawAll
  <2>2. a.staked = account.staked /\ a.unstaked = 0
    BY <1>2 DEF AfterWithdrawAll, PoolAccount
  <2>3. r(0).kind = "withdraw_all"
    BY <1>5, <2>1
  <2>4. LET o == Outcome(r(0), sp, epoch) IN o.staked = sp.staked /\ o.unstaked = 0
    BY <1>2, <1>3, <1>5, <2>3, Outcomes
  <2> HIDE DEF a
  <2>5. Answered(r(0), sp, a, epoch)
    BY <1>4, <2>2, <2>3, <2>4 DEF Answered, Holds
  <2> QED
    BY <1>7, <2>1, <2>5
<1>13. CASE ExecView(p)
  <2> DEFINE answer == account.staked + account.unstaked
  <2>1. p.kind = "total_balance" /\ Answer(p, "ok", answer) /\ UNCHANGED pool_account
    BY <1>13 DEF ExecView, Views, PInv, CallsOK
  <2>2. pool_account' = [pool_account EXCEPT ![p.pool] = account] /\ answer \in Nat
    BY <1>2, <1>6, <2>1
  <2>3. r(answer).kind = "total_balance" /\ r(answer).answer = answer
    BY <1>5, <2>1, <2>2
  <2>4. LET o == Outcome(r(answer), sp, epoch) IN
        /\ o.staked = answer - sp.unstaked /\ o.unstaked = sp.unstaked
        /\ o.unstk_req_epoch_height = sp.unstk_req_epoch_height
    BY <1>2, <1>3, <1>5, <2>2, <2>3, Outcomes
  <2>5. answer - sp.unstaked <= account.staked /\ TotalBalance(sp) <= answer
    BY <1>2, <1>4 DEF TotalBalance
  <2> HIDE DEF answer
  <2>6. Answered(r(answer), sp, account, epoch)
    BY <1>4, <2>3, <2>4, <2>5 DEF Answered, Holds
  <2> HIDE DEF account
  <2> QED
    BY <1>7, <2>1, <2>2, <2>6
<1> QED
  BY <1>8, <1>9, <1>10, <1>11, <1>12, <1>13 DEF PoolExecutes

\* The account has earned.
Grown(account, later) ==
  /\ later.unstaked = account.unstaked
  /\ account.staked <= later.staked
  /\ later.available_epoch = account.available_epoch

LEMMA HoldsGrown ==
  ASSUME NEW p \in Promises, p.kind # "unstaked_balance", NEW sp \in PoolInfo,
         p.kind = "unstake" => sp.staked >= p.amount + p.rebalance,
         p.kind = "stake" => sp.unstaked >= p.amount,
         NEW account \in PoolAccount, NEW later \in PoolAccount, Grown(account, later),
         NEW now \in Nat, NEW then \in Nat, now <= then
  PROVE  /\ Holds(account, sp) => Holds(later, sp)
         /\ Answered(p, sp, account, now) => Answered(p, sp, later, then)
<1>1. /\ account.staked \in Nat /\ later.staked \in Nat
      /\ account.available_epoch \in Nat /\ NUM_EPOCHS_TO_UNLOCK \in Nat
      /\ sp.staked \in Nat /\ sp.unstaked \in Nat /\ sp.unstk_req_epoch_height \in Nat
      /\ p.amount \in Nat /\ p.rebalance \in Nat /\ p.answer \in Nat
  BY ThresholdsAssumption DEF PoolAccount, PoolInfo, Promises
<1>2. Holds(account, sp) => Holds(later, sp)
  BY <1>1 DEF Holds, Grown
<1>3. ASSUME Answered(p, sp, account, now)
      PROVE  Answered(p, sp, later, then)
  <2> DEFINE o == Outcome(p, sp, now)
             e == Outcome(p, sp, then)
  <2>1. /\ account.unstaked = o.unstaked /\ o.staked <= account.staked
        /\ o.unstaked > 0 =>
             account.available_epoch <= o.unstk_req_epoch_height + NUM_EPOCHS_TO_UNLOCK
    BY <1>3 DEF Answered, Holds
  <2>2. p.kind \in CallKinds \ {"unstaked_balance"}
    BY DEF Promises
  <2>3. CASE p.kind = "unstake"
    <3>1. /\ o.staked = sp.staked - (p.amount + p.rebalance) /\ e.staked = o.staked
          /\ e.unstaked = o.unstaked
          /\ o.unstk_req_epoch_height = now /\ e.unstk_req_epoch_height = then
      BY <2>3, Outcomes
    <3> HIDE DEF o, e
    <3>2. e.staked <= later.staked
      BY <1>1, <2>1, <2>3, <3>1 DEF Grown
    <3>3. e.unstaked > 0 => later.available_epoch <= then + NUM_EPOCHS_TO_UNLOCK
      BY <1>1, <2>1, <3>1 DEF Grown
    <3>4. Holds(later, e)
      BY <2>1, <3>1, <3>2, <3>3 DEF Holds, Grown
    <3> QED
      BY <2>3, <3>4 DEF Answered, e
  <2>4. CASE p.kind # "unstake"
    <3>1. e = o
      BY <2>2, <2>4 DEF Outcome, CallKinds
    <3>2. o.staked <= account.staked => o.staked <= later.staked
      <4>1. o.staked \in Int
        BY <1>1, <2>2, <2>4, Outcomes DEF CallKinds
      <4> HIDE DEF o
      <4> QED
        BY <1>1, <4>1 DEF Grown
    <3> HIDE DEF o, e
    <3>3. Holds(later, e)
      BY <2>1, <3>1, <3>2 DEF Holds, Grown
    <3> QED
      BY <1>3, <3>3 DEF Answered, e
  <2> QED
    BY <2>3, <2>4
<1> QED
  BY <1>2, <1>3

(* Rewards and epochs only add.                                            *)
LEMMA HoldGrown ==
  ASSUME PInv, PInv', HoldInv, UNCHANGED <<staking_pools, promises>>, epoch <= epoch',
         \A id \in PoolIds : Grown(pool_account[id], pool_account'[id])
  PROVE  HoldInv'
<1>1. /\ epoch \in Nat /\ epoch' \in Nat
      /\ \A id \in PoolIds : /\ pool_account[id] \in PoolAccount
                             /\ pool_account'[id] \in PoolAccount
  BY DEF PInv, TypeOK, TotalsNat
<1>2. \A i \in DOMAIN staking_pools :
         staking_pools[i] \in PoolInfo /\ staking_pools[i].account_id \in PoolIds
  BY PoolTyped DEF PInv
<1>3. \A p \in promises : /\ p \in Promises /\ p.kind # "unstaked_balance"
                          /\ p.pool \in PoolIds /\ p.inx \in DOMAIN staking_pools
                          /\ p.kind = "unstake" =>
                               staking_pools[p.inx].staked >= p.amount + p.rebalance
                          /\ p.kind = "stake" => staking_pools[p.inx].unstaked >= p.amount
  BY CallWaits DEF PInv, CallsOK
<1>4. \A i \in DOMAIN staking_pools' : staking_pools'[i].unstk_req_epoch_height <= epoch'
  <2> SUFFICES ASSUME NEW i \in DOMAIN staking_pools
               PROVE  staking_pools[i].unstk_req_epoch_height <= epoch'
    OBVIOUS
  <2>1. staking_pools[i].unstk_req_epoch_height \in Nat
    BY <1>2 DEF PoolInfo
  <2>2. staking_pools[i].unstk_req_epoch_height <= epoch
    BY DEF HoldInv
  <2> QED
    BY <1>1, <2>1, <2>2
<1>5. \A i \in DOMAIN staking_pools' :
        (\A p \in promises' : p.inx = i => p.stage # "ok")
          => Holds(pool_account'[staking_pools'[i].account_id], staking_pools'[i])
  <2> SUFFICES ASSUME NEW i \in DOMAIN staking_pools,
                      \A p \in promises : p.inx = i => p.stage # "ok"
               PROVE  Holds(pool_account'[staking_pools[i].account_id], staking_pools[i])
    OBVIOUS
  <2>1. Holds(pool_account[staking_pools[i].account_id], staking_pools[i])
    BY DEF HoldInv
  <2>2. Grown(pool_account[staking_pools[i].account_id],
              pool_account'[staking_pools[i].account_id])
    BY <1>2
  <2>3. /\ staking_pools[i].staked \in Nat
        /\ pool_account[staking_pools[i].account_id].staked \in Nat
        /\ pool_account'[staking_pools[i].account_id].staked \in Nat
    BY <1>1, <1>2 DEF PoolInfo, PoolAccount
  <2> QED
    BY <2>1, <2>2, <2>3 DEF Holds, Grown
<1>6. \A p \in promises' : p.stage = "ok" =>
        Answered(p, staking_pools'[p.inx], pool_account'[p.pool], epoch')
  <2> SUFFICES ASSUME NEW p \in promises, p.stage = "ok"
               PROVE  Answered(p, staking_pools[p.inx], pool_account'[p.pool], epoch')
    OBVIOUS
  <2>1. Answered(p, staking_pools[p.inx], pool_account[p.pool], epoch)
    BY DEF HoldInv
  <2> QED
    BY <1>1, <1>2, <1>3, <2>1, HoldsGrown
<1>7. \A id \in PoolIds :
        (\A i \in DOMAIN staking_pools' : staking_pools'[i].account_id # id)
          => pool_account'[id].unstaked = 0
  BY DEF HoldInv, Grown
<1> QED
  BY <1>4, <1>5, <1>6, <1>7 DEF HoldInv

LEMMA HoldPoolSteps ==
  ASSUME DRIFT = 0, PInv, PInv', HoldInv, PoolSteps
  PROVE  HoldInv'
<1>1. /\ epoch \in Nat /\ pool_account \in [PoolIds -> PoolAccount]
      /\ \A id \in PoolIds : pool_account[id].staked \in Nat
  BY DEF PInv, TypeOK, TotalsNat, PoolAccount
<1>2. ASSUME UNCHANGED <<staking_pools, promises, pool_account>>, epoch <= epoch'
      PROVE  HoldInv'
  <2>1. \A id \in PoolIds : Grown(pool_account[id], pool_account'[id])
    BY <1>1, <1>2 DEF Grown
  <2> QED
    BY <1>2, <2>1, HoldGrown
<1>3. ASSUME NEW p \in promises, PoolExecutes(p)
      PROVE  HoldInv'
  BY <1>3, HoldExecuted
<1>4. ASSUME NEW id \in PoolIds, NEW r \in RewardAmounts, PoolReward(id, r)
      PROVE  HoldInv'
  <2>1. /\ pool_account' = [pool_account EXCEPT ![id] = Earned(@, r)] /\ r \in Nat
        /\ UNCHANGED <<staking_pools, promises, epoch>>
    BY <1>4, SetsAssumption DEF PoolReward, poolStepUnchanged
  <2>2. Grown(pool_account[id], Earned(pool_account[id], r))
    BY <1>1, <2>1 DEF Grown, Earned, PoolAccount
  <2>3. \A other \in PoolIds : Grown(pool_account[other], pool_account'[other])
    <3>1. pool_account'[id] = Earned(pool_account[id], r)
      BY <1>1, <2>1
    <3>2. \A other \in PoolIds \ {id} : pool_account'[other] = pool_account[other]
      BY <1>1, <2>1
    <3>3. \A other \in PoolIds : Grown(pool_account[other], pool_account[other])
      BY <1>1 DEF Grown
    <3> QED
      BY <2>2, <3>1, <3>2, <3>3
  <2>4. epoch <= epoch'
    BY <1>1, <2>1
  <2> QED
    BY <2>1, <2>3, <2>4, HoldGrown
<1>5. ASSUME NEW r \in RewardAmounts, NearArrives(r)
      PROVE  HoldInv'
  BY <1>1, <1>2, <1>5 DEF NearArrives, listVars, worldVars
<1>6. CASE NewEpoch
  BY <1>1, <1>2, <1>6 DEF NewEpoch, listVars
<1> QED
  BY <1>3, <1>4, <1>5, <1>6 DEF PoolSteps

(* A callback leaves the record the answer of the pool has announced.      *)
LEMMA HoldCallbacks ==
  ASSUME PInv, PInv', HoldInv, Callbacks
  PROVE  HoldInv'
<1>1. PICK p \in promises : Callback(p)
  BY DEF Callbacks
<1> DEFINE account == pool_account[p.pool]
           sp == staking_pools[p.inx]
           o == Outcome(p, sp, epoch)
<1>2. /\ p \in Promises /\ p.inx \in DOMAIN staking_pools /\ sp \in PoolInfo
      /\ sp.account_id = p.pool /\ epoch \in Nat
  BY CallWaits DEF PInv, TypeOK, TotalsNat
<1>3. sp.unstk_req_epoch_height <= epoch
  BY <1>2 DEF HoldInv
<1>4. p.stage = "ok" =>
        /\ account.unstaked = o.unstaked /\ o.staked <= account.staked
        /\ o.unstaked > 0 =>
             account.available_epoch <= o.unstk_req_epoch_height + NUM_EPOCHS_TO_UNLOCK
  BY DEF HoldInv, Answered, Holds
<1>5. ASSUME p.stage # "ok", promises' = promises \ {p}, UNCHANGED <<pool_account, epoch>>,
             \/ UNCHANGED staking_pools
             \/ staking_pools' = [staking_pools EXCEPT ![p.inx] = Unlocked(sp)]
      PROVE  HoldInv'
  <2>1. \A q : q \in promises' /\ q.stage = "ok" <=> q \in promises /\ q.stage = "ok"
    BY <1>5
  <2>2. SameHoldings(sp, Unlocked(sp))
    BY <1>2 DEF SameHoldings, Unlocked, PoolInfo
  <2>3. \A i \in DOMAIN staking_pools : SameHoldings(staking_pools[i], staking_pools[i])
    BY DEF SameHoldings
  <2>4. \A i \in DOMAIN staking_pools : SameHoldings(staking_pools[i], staking_pools'[i])
    BY <1>2, <1>5, <2>2, <2>3
  <2>5. DOMAIN staking_pools' = DOMAIN staking_pools
    BY <1>5
  <2> QED
    BY <1>5, <2>1, <2>4, <2>5, HoldStays
<1>6. CASE CallbackPanics(p)
  <2>1. p.stage # "ok"
    BY <1>1, <1>6, OnlyViewsPanic DEF Callback, CallbackPanics
  <2> QED
    BY <1>5, <1>6, <2>1 DEF CallbackPanics, booksUnchanged, worldVars
<1>7. CASE StakeFailed(p) \/ UnstakeFailed(p) \/ RetrieveFailed(p)
  BY <1>5, <1>7 DEF StakeFailed, UnstakeFailed, RetrieveFailed, Settle, booksUnchanged, worldVars
<1>8. ASSUME p.stage = "ok", promises' = promises \ {p}, UNCHANGED <<pool_account, epoch>>,
             NEW new, staking_pools' = [staking_pools EXCEPT ![p.inx] = new],
             new.account_id = sp.account_id,
             new.unstk_req_epoch_height \in {epoch, sp.unstk_req_epoch_height},
             new.staked = o.staked, new.unstaked = o.unstaked,
             new.unstaked > 0 => new.unstk_req_epoch_height = o.unstk_req_epoch_height
      PROVE  HoldInv'
  <2> HIDE DEF o, sp
  <2>1. new.unstk_req_epoch_height <= epoch
    BY <1>2, <1>3, <1>8
  <2>2. Holds(account, new)
    BY <1>4, <1>8 DEF Holds
  <2> QED
    BY <1>2, <1>8, <2>1, <2>2, HoldEnded
<1>9. CASE StakeSucceeded(p)
  <2>1. CASE p.kind = "deposit_and_stake"
    <3> DEFINE new == Unlocked([sp EXCEPT !.staked = @ + p.amount])
    <3>1. /\ p.stage = "ok" /\ promises' = promises \ {p} /\ UNCHANGED <<pool_account, epoch>>
          /\ staking_pools' = [staking_pools EXCEPT ![p.inx] = new]
      BY <1>9, <2>1 DEF StakeSucceeded, Settle, worldVars
    <3>2. /\ new.account_id = sp.account_id
          /\ new.unstk_req_epoch_height = sp.unstk_req_epoch_height
          /\ new.staked = sp.staked + p.amount /\ new.unstaked = sp.unstaked
      BY <1>2 DEF Unlocked, PoolInfo
    <3>3. /\ o.staked = sp.staked + p.amount /\ o.unstaked = sp.unstaked
          /\ o.unstk_req_epoch_height = sp.unstk_req_epoch_height
      BY <1>2, <2>1, Outcomes
    <3> HIDE DEF new, o, sp
    <3> QED
      BY <1>8, <3>1, <3>2, <3>3
  <2>2. CASE p.kind = "stake"
    <3> DEFINE new == Unlocked([sp EXCEPT !.staked = @ + p.amount, !.unstaked = @ - p.amount])
    <3>1. /\ p.stage = "ok" /\ promises' = promises \ {p} /\ UNCHANGED <<pool_account, epoch>>
          /\ staking_pools' = [staking_pools EXCEPT ![p.inx] = new]
      BY <1>9, <2>2 DEF StakeSucceeded, Settle, worldVars
    <3>2. /\ new.account_id = sp.account_id
          /\ new.unstk_req_epoch_height = sp.unstk_req_epoch_height
          /\ new.staked = sp.staked + p.amount /\ new.unstaked = sp.unstaked - p.amount
      BY <1>2 DEF Unlocked, PoolInfo
    <3>3. /\ o.staked = sp.staked + p.amount /\ o.unstaked = sp.unstaked - p.amount
          /\ o.unstk_req_epoch_height = sp.unstk_req_epoch_height
      BY <1>2, <2>2, Outcomes
    <3> HIDE DEF new, o, sp
    <3> QED
      BY <1>8, <3>1, <3>2, <3>3
  <2> QED
    BY <1>9, <2>1, <2>2 DEF StakeSucceeded
<1>10. CASE UnstakeSucceeded(p)
  <2> DEFINE total == p.amount + p.rebalance
             new == Unlocked([sp EXCEPT !.staked = @ - total, !.unstaked = @ + total,
                                        !.unstk_req_epoch_height = epoch])
  <2>1. /\ p.stage = "ok" /\ p.kind = "unstake" /\ promises' = promises \ {p}
        /\ UNCHANGED <<pool_account, epoch>>
        /\ staking_pools' = [staking_pools EXCEPT ![p.inx] = new]
    BY <1>10 DEF UnstakeSucceeded, Settle, worldVars
  <2>2. /\ new.account_id = sp.account_id /\ new.unstk_req_epoch_height = epoch
        /\ new.staked = sp.staked - total /\ new.unstaked = sp.unstaked + total
    BY <1>2 DEF Unlocked, PoolInfo
  <2>3. /\ o.staked = sp.staked - total /\ o.unstaked = sp.unstaked + p.amount + p.rebalance
        /\ o.unstk_req_epoch_height = epoch
    BY <1>2, <2>1, Outcomes
  <2>4. sp.unstaked + p.amount + p.rebalance = sp.unstaked + total
    BY CallWaits
  <2> HIDE DEF new, o, sp, total
  <2> QED
    BY <1>8, <2>1, <2>2, <2>3, <2>4
<1>11. CASE Retrieved(p)
  <2> DEFINE new == Unlocked([sp EXCEPT !.unstaked = 0])
  <2>1. /\ p.stage = "ok" /\ p.kind = "withdraw_all" /\ promises' = promises \ {p}
        /\ UNCHANGED <<pool_account, epoch>>
        /\ staking_pools' = [staking_pools EXCEPT ![p.inx] = new]
    BY <1>11 DEF Retrieved, Settle, worldVars
  <2>2. /\ new.account_id = sp.account_id
        /\ new.unstk_req_epoch_height = sp.unstk_req_epoch_height
        /\ new.staked = sp.staked /\ new.unstaked = 0
    BY <1>2 DEF Unlocked, PoolInfo
  <2>3. o.staked = sp.staked /\ o.unstaked = 0
    BY <1>2, <2>1, Outcomes
  <2> HIDE DEF new, o, sp
  <2>4. ~(new.unstaked > 0) /\ new.staked = o.staked /\ new.unstaked = o.unstaked
    BY <2>2, <2>3
  <2> QED
    BY <1>8, <2>1, <2>2, <2>4
<1>12. CASE RewardsDistributed(p)
  <2> DEFINE new == Unlocked([sp EXCEPT !.staked = p.answer - sp.unstaked,
                                        !.last_asked_rewards_epoch_height = epoch])
  <2>1. /\ p.stage = "ok" /\ p.kind = "total_balance" /\ promises' = promises \ {p}
        /\ UNCHANGED <<pool_account, epoch>>
        /\ staking_pools' = [staking_pools EXCEPT ![p.inx] = new]
    BY <1>12 DEF RewardsDistributed, Settle, worldVars
  <2>2. /\ new.account_id = sp.account_id
        /\ new.unstk_req_epoch_height = sp.unstk_req_epoch_height
        /\ new.staked = p.answer - sp.unstaked /\ new.unstaked = sp.unstaked
    BY <1>2 DEF Unlocked, PoolInfo
  <2>3. /\ o.staked = p.answer - sp.unstaked /\ o.unstaked = sp.unstaked
        /\ o.unstk_req_epoch_height = sp.unstk_req_epoch_height
    BY <1>2, <2>1, Outcomes
  <2> HIDE DEF new, o, sp
  <2> QED
    BY <1>8, <2>1, <2>2, <2>3
<1>13. ~UnstakedSynced(p)
  BY DEF PInv, CallsOK, UnstakedSynced
<1> QED
  BY <1>1, <1>6, <1>7, <1>9, <1>10, <1>11, <1>12, <1>13 DEF Callback

(* A pool that joins the list, or leaves it, has nothing to be retrieved.  *)
LEMMA HoldListCalls ==
  ASSUME PInv, PInv', HoldInv, promises = {}, PoolListCalls
  PROVE  HoldInv'
<1>1. UNCHANGED <<promises, pool_account, epoch>>
  BY DEF PoolListCalls, AddStakingPool, RemoveStakingPool, booksUnchanged, worldVars
<1>2. /\ staking_pools \in Seq(PoolInfo) /\ epoch \in Nat
      /\ pool_account \in [PoolIds -> PoolAccount]
  BY DEF PInv, TypeOK, TotalsNat
<1> DEFINE n == Len(staking_pools)
<1>3. DOMAIN staking_pools = 1..n /\ n \in Nat
  BY <1>2
<1>4. \A i \in DOMAIN staking_pools :
        /\ staking_pools[i].unstk_req_epoch_height <= epoch
        /\ Holds(pool_account[staking_pools[i].account_id], staking_pools[i])
  BY DEF HoldInv
<1> DEFINE Matched(pools) ==
             /\ \A i \in DOMAIN pools :
                  /\ pools[i].unstk_req_epoch_height <= epoch
                  /\ Holds(pool_account[pools[i].account_id], pools[i])
             /\ \A id \in PoolIds :
                  (\A i \in DOMAIN pools : pools[i].account_id # id)
                    => pool_account[id].unstaked = 0
<1>5. Matched(staking_pools') => HoldInv'
  BY <1>1 DEF HoldInv
<1>6. ASSUME NEW id \in PoolIds, AddStakingPool(id)
      PROVE  Matched(staking_pools')
  <2> DEFINE new == NewPool(id)
  <2>1. /\ staking_pools' = Append(staking_pools, new)
        /\ \A i \in DOMAIN staking_pools : staking_pools[i].account_id # id
    BY <1>6 DEF AddStakingPool
  <2>2. /\ new \in PoolInfo /\ new.account_id = id /\ new.staked = 0 /\ new.unstaked = 0
        /\ new.unstk_req_epoch_height = 0
    BY <1>6 DEF NewPool, PoolInfo
  <2> HIDE DEF new
  <2>3. pool_account[id].unstaked = 0 /\ pool_account[id].staked \in Nat
    BY <1>2, <2>1 DEF HoldInv, PoolAccount
  <2>4. Holds(pool_account[id], new) /\ new.unstk_req_epoch_height <= epoch
    BY <1>2, <2>2, <2>3 DEF Holds
  <2>5. /\ DOMAIN staking_pools' = 1..(n + 1)
        /\ \A i \in 1..n : staking_pools'[i] = staking_pools[i]
        /\ staking_pools'[n + 1] = new
    BY <1>3, <1>2, <2>1, <2>2
  <2>6. \A i \in DOMAIN staking_pools' :
           i \in DOMAIN staking_pools \/ staking_pools'[i] = new
    BY <1>3, <2>5
  <2>7. \A i \in DOMAIN staking_pools : /\ i \in DOMAIN staking_pools'
                                        /\ staking_pools'[i] = staking_pools[i]
    BY <1>3, <2>5
  <2>8. \A other \in PoolIds :
           (\A i \in DOMAIN staking_pools' : staking_pools'[i].account_id # other)
             => pool_account[other].unstaked = 0
    BY <2>7 DEF HoldInv
  <2> QED
    BY <1>4, <2>2, <2>4, <2>6, <2>7, <2>8
<1>7. ASSUME NEW k \in DOMAIN staking_pools, RemoveStakingPool(k)
      PROVE  Matched(staking_pools')
  <2>1. /\ staking_pools' = RemoveAt(staking_pools, k)
        /\ staking_pools[k].unstaked = 0
    BY <1>7 DEF RemoveStakingPool, is_empty
  <2>2. pool_account[staking_pools[k].account_id].unstaked = 0
    BY <1>4, <2>1 DEF Holds
  <2> DEFINE up(j) == IF j < k THEN j ELSE j + 1
             down(j) == IF j < k THEN j ELSE j - 1
  <2>3. /\ DOMAIN staking_pools' = 1..(n - 1)
        /\ \A j \in 1..(n - 1) : staking_pools'[j] = staking_pools[up(j)]
    BY <1>7, PoolsMoveDown DEF PInv
  <2>4. \A j \in 1..(n - 1) : up(j) \in 1..n
    BY <1>3
  <2>5. \A j \in 1..n : j # k => down(j) \in 1..(n - 1) /\ up(down(j)) = j
    BY <1>3
  <2> HIDE DEF up, down
  <2>6. \A i \in DOMAIN staking_pools' : \E j \in DOMAIN staking_pools :
           staking_pools'[i] = staking_pools[j]
    BY <1>3, <2>3, <2>4
  <2>7. \A j \in DOMAIN staking_pools : j # k =>
           \E i \in DOMAIN staking_pools' : staking_pools'[i] = staking_pools[j]
    BY <1>3, <2>3, <2>5
  <2>8. \A id \in PoolIds :
           (\A i \in DOMAIN staking_pools' : staking_pools'[i].account_id # id)
             => pool_account[id].unstaked = 0
    BY <2>2, <2>7 DEF HoldInv
  <2> QED
    BY <1>4, <2>6, <2>8
<1> QED
  BY <1>5, <1>6, <1>7 DEF PoolListCalls

LEMMA HoldHeartbeatCalls ==
  ASSUME MAX_SYNCS = 0, PInv, PInv', HoldInv, HeartbeatCalls
  PROVE  HoldInv'
<1>1. UNCHANGED <<pool_account, epoch>>
  BY DEF HeartbeatCalls, DistributeStaking, LaunchDirectStake, OnlyClearing,
         DistributeUnstaking, PerformUnstake, EndOfEpochClearing, DoRebalanceUnstake,
         ManualStake, ForceRebalanceUnstake, RebalanceUnstakeSp, PerformRebalance,
         SyncUnstakedBalance, DistributeRewards, RetrieveFundsFromAPool, booksUnchanged,
         worldVars
<1>2. CASE OnlyClearing
  <2>1. UNCHANGED <<staking_pools, promises>>
    BY <1>2 DEF OnlyClearing, listVars
  <2>2. \A i \in DOMAIN staking_pools : SameHoldings(staking_pools[i], staking_pools'[i])
    BY <2>1 DEF SameHoldings
  <2> QED
    BY <1>1, <2>1, <2>2, HoldStays
<1>3. CASE \E call : Sends(call)
  BY <1>1, <1>3, HoldSent
<1> QED
  BY <1>2, <1>3, HeartbeatCallsSend

LEMMA HoldKept ==
  ASSUME MAX_SYNCS = 0, DRIFT = 0, PInv, PInv', HoldInv, [UpgradedNext]_vars
  PROVE  HoldInv'
<1>1. ASSUME UNCHANGED <<promises, pool_account, epoch>>,
             DOMAIN staking_pools' = DOMAIN staking_pools,
             \A i \in DOMAIN staking_pools : SameHoldings(staking_pools[i], staking_pools'[i])
      PROVE  HoldInv'
  BY <1>1, HoldStays
<1>2. ASSUME UNCHANGED <<staking_pools, promises, pool_account, epoch>>
      PROVE  HoldInv'
  <2>1. \A i \in DOMAIN staking_pools : SameHoldings(staking_pools[i], staking_pools'[i])
    BY <1>2 DEF SameHoldings
  <2> QED
    BY <1>1, <1>2, <2>1
<1>3. CASE UNCHANGED vars
  BY <1>2, <1>3 DEF vars, listVars, worldVars
<1>4. CASE PauseStaking \/ Migrate \/ \E value \in BOOLEAN : SetBusy(value)
  BY <1>2, <1>4 DEF PauseStaking, Migrate, SetBusy, booksUnchanged, worldVars
<1>5. CASE TransferExtraBalance
  BY <1>2, <1>5 DEF TransferExtraBalance, listVars, worldVars
<1>6. CASE UserCalls
  BY <1>2, <1>6 DEF UserCalls, DepositAndStake, Unstake, WithdrawUnstaked, NslpAddLiquidity,
                    PayFromLiquidityPool, StakeFromNslp, listVars, worldVars
<1>7. \A i \in DOMAIN staking_pools : staking_pools[i] \in PoolInfo
  BY PoolTyped DEF PInv
<1>8. ASSUME NEW weights \in WeightLists, SetStakingPools(weights)
      PROVE  HoldInv'
  <2>1. /\ UNCHANGED <<promises, pool_account, epoch>>
        /\ staking_pools' = [i \in DOMAIN staking_pools |->
              [staking_pools[i] EXCEPT !.weight_basis_points = weights[i]]]
    BY <1>8 DEF SetStakingPools, booksUnchanged, worldVars
  <2>2. \A i \in DOMAIN staking_pools : SameHoldings(staking_pools[i], staking_pools'[i])
    BY <1>7, <2>1 DEF SameHoldings, PoolInfo
  <2> QED
    BY <1>1, <2>1, <2>2
<1>9. ASSUME NEW i \in DOMAIN staking_pools, SpBusy(i, FALSE)
      PROVE  HoldInv'
  <2>1. /\ UNCHANGED <<promises, pool_account, epoch>>
        /\ staking_pools' = [staking_pools EXCEPT ![i].busy_lock = FALSE]
    BY <1>9 DEF SpBusy, booksUnchanged, worldVars
  <2>2. \A j \in DOMAIN staking_pools : SameHoldings(staking_pools[j], staking_pools'[j])
    BY <1>7, <2>1 DEF SameHoldings, PoolInfo
  <2> QED
    BY <1>1, <2>1, <2>2
<1>10. CASE StorageCalls
  BY <1>2, <1>10 DEF StorageCalls, StorageDeposit, StorageUnregister, RefundReopens,
                     storageStepUnchanged, listVars, worldVars
<1>11. CASE Ordinary
  BY <1>4, <1>5, <1>6, <1>8, <1>10, <1>11, HoldHeartbeatCalls, HoldPoolSteps, HoldCallbacks
     DEF Ordinary
<1> QED
  BY <1>3, <1>4, <1>9, <1>11, HoldListCalls DEF UpgradedNext

LEMMA HoldInitially == Init => HoldInv
<1> SUFFICES ASSUME Init PROVE HoldInv
  OBVIOUS
<1>1. /\ staking_pools = << >> /\ promises = {}
      /\ \A id \in PoolIds : pool_account[id].unstaked = 0
  BY DEF Init, InitWith, EmptyAccount
<1>2. DOMAIN staking_pools = {}
  BY <1>1
<1> QED
  BY <1>1, <1>2 DEF HoldInv

(* Pools that do not round hold what is on record of them, rewards not     *)
(* asked for aside, and what the contract believes it can retrieve has     *)
(* been released, whichever calls overlap.                                 *)
THEOREM RecordsAlwaysMatchPools ==
  ASSUME MAX_SYNCS = 0, DRIFT = 0
  PROVE  UpgradedSpec => []RecordsMatchPools
<1>1. PInv /\ PInv' /\ HoldInv /\ [UpgradedNext]_vars => HoldInv'
  BY HoldKept
<1>2. PInv /\ HoldInv => RecordsMatchPools
  <2> SUFFICES ASSUME PInv, HoldInv, NEW i \in DOMAIN staking_pools,
                      \A p \in InFlight : p.inx = i => p.stage # "ok"
               PROVE  LET sp == staking_pools[i]
                          account == pool_account[sp.account_id]
                      IN  /\ sp.unstaked = account.unstaked
                          /\ sp.staked <= account.staked
                          /\ sp.unstaked > 0 /\ wait_period_ended(sp)
                               => account.available_epoch <= epoch
    BY DEF RecordsMatchPools
  <2> DEFINE sp == staking_pools[i]
             account == pool_account[sp.account_id]
  <2>1. promises = InFlight
    BY DEF PInv, CallsOK, InFlight
  <2>2. Holds(account, sp) /\ sp.unstk_req_epoch_height <= epoch
    BY <2>1 DEF HoldInv
  <2>3. /\ sp.unstk_req_epoch_height \in Nat /\ epoch \in Nat /\ account.available_epoch \in Nat
        /\ NUM_EPOCHS_TO_UNLOCK \in Nat
    BY PoolTyped, ThresholdsAssumption DEF PInv, TypeOK, TotalsNat, PoolInfo, PoolAccount
  <2>4. wait_period_ended(sp) => sp.unstk_req_epoch_height + NUM_EPOCHS_TO_UNLOCK <= epoch
    BY <2>2, <2>3 DEF wait_period_ended
  <2> QED
    BY <2>2, <2>3, <2>4 DEF Holds
<1> QED
  BY <1>1, <1>2, HoldInitially, BooksInvariance, PTL DEF UpgradedSpec


-----------------------------------------------------------------------------
(* The totals are the sums of the records: RecordsOK already says so of    *)
(* what is unstaked; of what is staked it leaves room for a pool that has  *)
(* lost some, and a pool that does not round has not.                      *)
TotalsExact == total_actually_staked + Unstaking = StakedSum + Staking

LEMMA TotalsTyped ==
  ASSUME PInv
  PROVE  /\ total_actually_staked \in Nat
         /\ Staking \in Nat /\ Unstaking \in Nat /\ StakedSum \in Nat
BY SumsNat DEF PInv, TypeOK, TotalsNat

(* No call starts or ends, and nothing is staked or unstaked.              *)
LEMMA TotalsStay ==
  ASSUME PInv, TotalsExact, UNCHANGED <<promises, total_actually_staked>>,
         DOMAIN staking_pools' = DOMAIN staking_pools,
         \A i \in DOMAIN staking_pools : staking_pools'[i].staked = staking_pools[i].staked
  PROVE  TotalsExact'
<1>1. StakedRecords' = StakedRecords
  BY DEF StakedRecords
<1>2. UNCHANGED <<Staking, Unstaking, StakedSum>>
  BY <1>1 DEF Staking, Unstaking, StakedSum
<1> QED
  BY <1>2 DEF TotalsExact

(* A call is sent: it counts as in flight and in the total.                *)
LEMMA TotalsSent ==
  ASSUME PInv, PInv', TotalsExact, NEW call, Sends(call)
  PROVE  TotalsExact'
<1>1. /\ call \notin promises /\ promises' = promises \cup {call}
      /\ staking_pools' = [staking_pools EXCEPT ![call.inx].busy_lock = TRUE]
  BY DEF Sends, LockAndSend, Send
<1>2. /\ TypeOK /\ CallsOK /\ promises' \subseteq Promises
      /\ \A i \in DOMAIN staking_pools : staking_pools[i] \in PoolInfo
  BY PoolTyped DEF PInv, TypeOK
<1>3. call \in Promises
  BY <1>1, <1>2
<1>4. /\ Staking = StakingIn(promises) /\ Staking' = StakingIn(promises \cup {call})
      /\ Unstaking = UnstakingIn(promises) /\ Unstaking' = UnstakingIn(promises \cup {call})
  BY <1>1, CountsInFlight
<1>5. /\ Staking' = Staking + StakingOf(call)
      /\ Unstaking' = Unstaking + UnstakingOf(call)
  BY <1>1, <1>2, <1>3, <1>4, CountAdded DEF CallsOK
<1>6. \A i \in DOMAIN staking_pools : staking_pools'[i].staked = staking_pools[i].staked
  BY <1>1, <1>2 DEF PoolInfo
<1>7. StakedRecords' = StakedRecords
  BY <1>1, <1>6 DEF StakedRecords
<1>8. StakedSum' = StakedSum
  BY <1>7 DEF StakedSum
<1>9. StakingOf(call) \in Nat /\ UnstakingOf(call) \in Nat
  BY <1>3, CountsNat
<1>10. total_actually_staked' + UnstakingOf(call) = total_actually_staked + StakingOf(call)
  BY <1>9, TotalsTyped DEF Sends
<1>11. total_actually_staked' + Unstaking + UnstakingOf(call)
         = StakedSum + Staking + StakingOf(call)
  <2>1. total_actually_staked + Unstaking = StakedSum + Staking
    BY DEF TotalsExact
  <2>2. total_actually_staked' \in Int
    BY <1>9, TotalsTyped DEF Sends
  <2> QED
    BY <1>9, <1>10, <2>1, <2>2, TotalsTyped
<1>12. total_actually_staked' \in Int
  BY <1>9, TotalsTyped DEF Sends
<1>13. total_actually_staked' + Unstaking' = StakedSum' + Staking'
  BY <1>5, <1>8, <1>9, <1>11, <1>12, TotalsTyped
<1> QED
  BY <1>13 DEF TotalsExact

\* A call ends with the record of its pool as sp, and what it has counted for
\* moves into the record, or out of it, or back into the total.
EndsWith(p, sp) ==
  /\ promises' = promises \ {p}
  /\ staking_pools' = [staking_pools EXCEPT ![p.inx] = sp]
  /\ total_actually_staked' \in Nat
  /\ total_actually_staked' + staking_pools[p.inx].staked + StakingOf(p)
       = total_actually_staked + sp.staked + UnstakingOf(p)

LEMMA TotalsSettled ==
  ASSUME PInv, TotalsExact, NEW p \in promises, NEW sp \in PoolInfo, EndsWith(p, sp)
  PROVE  TotalsExact'
<1>1. /\ TypeOK /\ CallsOK /\ p \in Promises /\ p.inx \in DOMAIN staking_pools
      /\ staking_pools[p.inx].staked \in Nat /\ sp.staked \in Nat
  BY CallWaits DEF PInv, PoolInfo
<1>2. StakingOf(p) \in Nat /\ UnstakingOf(p) \in Nat
  BY <1>1, CountsNat
<1>3. /\ StakingOf(p) <= Staking /\ Staking' = Staking - StakingOf(p)
      /\ UnstakingOf(p) <= Unstaking /\ Unstaking' = Unstaking - UnstakingOf(p)
  BY <1>1, CountConsumed DEF EndsWith
<1>4. StakedSum' + staking_pools[p.inx].staked = StakedSum + sp.staked
  BY <1>1, RecordSums DEF EndsWith
<1>5. StakedSum' \in Nat
  <2>1. /\ DOMAIN staking_pools' = DOMAIN staking_pools
        /\ \A i \in DOMAIN staking_pools :
              staking_pools'[i] = IF i = p.inx THEN sp ELSE staking_pools[i]
    BY <1>1 DEF EndsWith
  <2>2. StakedRecords' \in [DOMAIN staking_pools -> Nat]
    BY <1>1, <2>1, PoolTyped DEF StakedRecords, PoolInfo
  <2> QED
    BY <1>1, <2>2, PoolsFinite, SumNat DEF StakedSum
<1>6. total_actually_staked + Unstaking = StakedSum + Staking
  BY DEF TotalsExact
<1>7. /\ total_actually_staked' \in Nat
      /\ total_actually_staked' + staking_pools[p.inx].staked + StakingOf(p)
           = total_actually_staked + sp.staked + UnstakingOf(p)
  BY DEF EndsWith
<1>8. total_actually_staked' + Unstaking' = StakedSum' + Staking'
  BY <1>1, <1>2, <1>3, <1>4, <1>5, <1>6, <1>7, TotalsTyped
<1> QED
  BY <1>8 DEF TotalsExact

LEMMA TotalsHeartbeatCalls ==
  ASSUME MAX_SYNCS = 0, PInv, PInv', TotalsExact, HeartbeatCalls
  PROVE  TotalsExact'
<1>1. CASE OnlyClearing
  BY <1>1, TotalsStay DEF OnlyClearing, listVars, stakeVars
<1>2. CASE \E call : Sends(call)
  BY <1>2, TotalsSent
<1> QED
  BY <1>1, <1>2, HeartbeatCallsSend


(* A pool answers: nothing else moves in the contract.                     *)
LEMMA PoolAnswers ==
  ASSUME PInv, NEW p \in promises, PoolExecutes(p)
  PROVE  /\ p.stage = "sent" /\ poolStepUnchanged
         /\ \E stage \in {"ok", "failed"}, answer \in Nat : Answer(p, stage, answer)
<1>1. p.stage = "sent" /\ poolStepUnchanged
  BY DEF PoolExecutes
<1>2. pool_account[p.pool].staked \in Nat /\ pool_account[p.pool].unstaked \in Nat
  BY CallWaits
<1>3. CASE ExecView(p)
  <2> DEFINE answer == IF p.kind = "total_balance"
                       THEN pool_account[p.pool].staked + pool_account[p.pool].unstaked
                       ELSE pool_account[p.pool].unstaked
  <2>1. answer \in Nat /\ Answer(p, "ok", answer)
    BY <1>2, <1>3 DEF ExecView
  <2> HIDE DEF answer
  <2> QED
    BY <1>1, <2>1
<1>4. CASE ExecFails(p)
  BY <1>1, <1>4 DEF ExecFails
<1>5. ASSUME NEW d, \/ ExecDepositAndStake(p, d) \/ ExecStake(p, d) \/ ExecUnstake(p, d)
                    \/ ExecWithdrawAll(p)
      PROVE  Answer(p, "ok", 0)
  BY <1>5 DEF ExecDepositAndStake, ExecStake, ExecUnstake, ExecWithdrawAll
<1> QED
  BY <1>1, <1>3, <1>4, <1>5 DEF PoolExecutes

LEMMA TotalsPoolSteps ==
  ASSUME PInv, TotalsExact, PoolSteps
  PROVE  TotalsExact'
<1>1. ASSUME UNCHANGED <<promises, staking_pools, total_actually_staked>>
      PROVE  TotalsExact'
  BY <1>1, TotalsStay
<1>2. ASSUME NEW p \in promises, PoolExecutes(p)
      PROVE  TotalsExact'
  <2>1. PICK stage \in {"ok", "failed"}, answer \in Nat : Answer(p, stage, answer)
    BY <1>2, PoolAnswers
  <2>2. /\ p.stage = "sent" /\ TypeOK /\ CallsOK
        /\ UNCHANGED <<staking_pools, total_actually_staked>>
    BY <1>2, PoolAnswers DEF PInv, poolStepUnchanged, stakeVars
  <2>3. Staking' = Staking /\ Unstaking' = Unstaking
    BY <2>1, <2>2, CountAnswered DEF Stages
  <2>4. StakedSum' = StakedSum
    BY <2>2 DEF StakedSum, StakedRecords
  <2> QED
    BY <2>2, <2>3, <2>4 DEF TotalsExact
<1>3. ASSUME NEW id \in PoolIds, NEW r \in RewardAmounts, PoolReward(id, r)
      PROVE  TotalsExact'
  BY <1>1, <1>3 DEF PoolReward, poolStepUnchanged, stakeVars
<1>4. ASSUME NEW r \in RewardAmounts, NearArrives(r)
      PROVE  TotalsExact'
  BY <1>1, <1>4 DEF NearArrives, stakeVars, listVars
<1>5. CASE NewEpoch
  BY <1>1, <1>5 DEF NewEpoch, stakeVars, listVars
<1> QED
  BY <1>2, <1>3, <1>4, <1>5 DEF PoolSteps

LEMMA TotalsCallbacks ==
  ASSUME PInv, HoldInv, TotalsExact, Callbacks
  PROVE  TotalsExact'
<1>1. PICK p \in promises : Callback(p)
  BY DEF Callbacks
<1> DEFINE sp == staking_pools[p.inx]
           Ends(later) == /\ promises' = promises \ {p}
                          /\ staking_pools' = [staking_pools EXCEPT ![p.inx] = Unlocked(later)]
<1>2. /\ sp \in PoolInfo /\ sp.staked \in Nat /\ sp.unstaked \in Nat
      /\ p.amount \in Nat /\ p.rebalance \in Nat /\ p.answer \in Nat
      /\ p.inx \in DOMAIN staking_pools /\ total_actually_staked \in Nat /\ epoch \in Nat
  BY CallWaits, TotalsTyped DEF PInv, TypeOK, TotalsNat
<1>3. ASSUME NEW later \in PoolInfo, Ends(later), total_actually_staked' \in Nat,
             total_actually_staked' + sp.staked + StakingOf(p)
               = total_actually_staked + later.staked + UnstakingOf(p)
      PROVE  TotalsExact'
  <2>1. Unlocked(later) \in PoolInfo /\ Unlocked(later).staked = later.staked
    BY DEF Unlocked, PoolInfo
  <2>2. EndsWith(p, Unlocked(later))
    BY <1>3, <2>1 DEF EndsWith
  <2> QED
    BY <2>1, <2>2, TotalsSettled
<1>4. CASE CallbackPanics(p)
  <2>1. p.kind \in Views
    BY <1>1, <1>4, OnlyViewsPanic DEF Callback, CallbackPanics
  <2>2. StakingOf(p) = 0 /\ UnstakingOf(p) = 0
    BY <2>1 DEF StakingOf, UnstakingOf, Views
  <2>3. [staking_pools EXCEPT ![p.inx] = sp] = staking_pools
    <3>1. staking_pools \in [1..Len(staking_pools) -> PoolInfo]
      BY DEF PInv, TypeOK
    <3> QED
      BY <3>1
  <2>4. /\ promises' = promises \ {p} /\ total_actually_staked' = total_actually_staked
        /\ staking_pools' = [staking_pools EXCEPT ![p.inx] = sp]
    BY <1>4, <2>3 DEF CallbackPanics, booksUnchanged, stakeVars
  <2> HIDE DEF sp
  <2>5. EndsWith(p, sp)
    BY <1>2, <2>2, <2>4 DEF EndsWith, sp
  <2> QED
    BY <1>2, <2>5, TotalsSettled
<1>5. CASE StakeSucceeded(p)
  <2> DEFINE deposited == [sp EXCEPT !.staked = @ + p.amount]
             restaked  == [sp EXCEPT !.staked = @ + p.amount, !.unstaked = @ - p.amount]
  <2>1. /\ UNCHANGED total_actually_staked
        /\ StakingOf(p) = p.amount /\ UnstakingOf(p) = 0
        /\ \/ Ends(deposited)
           \/ Ends(restaked) /\ sp.unstaked >= p.amount
    BY <1>5 DEF StakeSucceeded, Settle, StakingOf, UnstakingOf
  <2>2. /\ deposited \in PoolInfo /\ deposited.staked = sp.staked + p.amount
        /\ restaked.staked = sp.staked + p.amount
        /\ sp.unstaked >= p.amount => restaked \in PoolInfo
    <3>1. /\ sp.staked + p.amount \in Nat
          /\ sp.unstaked >= p.amount => sp.unstaked - p.amount \in Nat
      BY <1>2
    <3> HIDE DEF sp
    <3> QED
      BY <1>2, <3>1 DEF PoolInfo
  <2> HIDE DEF sp, deposited, restaked, Ends
  <2>3. total_actually_staked' + sp.staked + StakingOf(p)
          = total_actually_staked + (sp.staked + p.amount) + UnstakingOf(p)
    BY <1>2, <2>1
  <2> QED
    BY <1>2, <1>3, <2>1, <2>2, <2>3
<1>6. CASE StakeFailed(p)
  <2>1. /\ total_actually_staked >= p.amount
        /\ total_actually_staked' = total_actually_staked - p.amount
        /\ StakingOf(p) = p.amount /\ UnstakingOf(p) = 0 /\ Ends(sp)
    BY <1>6 DEF StakeFailed, Settle, StakingOf, UnstakingOf
  <2> HIDE DEF sp, Ends
  <2>2. /\ total_actually_staked' \in Nat
        /\ total_actually_staked' + sp.staked + StakingOf(p)
             = total_actually_staked + sp.staked + UnstakingOf(p)
    BY <1>2, <2>1
  <2> QED
    BY <1>2, <1>3, <2>1, <2>2
<1>7. CASE UnstakeSucceeded(p)
  <2> DEFINE total == p.amount + p.rebalance
             later == [sp EXCEPT !.staked = @ - total, !.unstaked = @ + total,
                                 !.unstk_req_epoch_height = epoch]
  <2>1. /\ UNCHANGED total_actually_staked /\ sp.staked >= total
        /\ StakingOf(p) = 0 /\ UnstakingOf(p) = total /\ Ends(later)
    BY <1>7 DEF UnstakeSucceeded, Settle, StakingOf, UnstakingOf
  <2>2. total \in Nat
    BY <1>2
  <2> HIDE DEF total
  <2>3. later \in PoolInfo /\ later.staked = sp.staked - total
    <3>1. sp.staked - total \in Nat /\ sp.unstaked + total \in Nat
      BY <1>2, <2>1, <2>2
    <3> HIDE DEF sp
    <3> QED
      BY <1>2, <3>1 DEF PoolInfo
  <2> HIDE DEF sp, later, Ends
  <2>4. total_actually_staked' + sp.staked + StakingOf(p)
          = total_actually_staked + later.staked + UnstakingOf(p)
    BY <1>2, <2>1, <2>2, <2>3
  <2> QED
    BY <1>2, <1>3, <2>1, <2>3, <2>4
<1>8. CASE UnstakeFailed(p)
  <2>1. /\ total_actually_staked' = total_actually_staked + p.amount + p.rebalance
        /\ StakingOf(p) = 0 /\ UnstakingOf(p) = p.amount + p.rebalance /\ Ends(sp)
    BY <1>8 DEF UnstakeFailed, Settle, StakingOf, UnstakingOf
  <2> HIDE DEF sp, Ends
  <2>2. /\ total_actually_staked' \in Nat
        /\ total_actually_staked' + sp.staked + StakingOf(p)
             = total_actually_staked + sp.staked + UnstakingOf(p)
    BY <1>2, <2>1
  <2> QED
    BY <1>2, <1>3, <2>1, <2>2
<1>9. ASSUME p.kind = "withdraw_all", NEW later \in PoolInfo, Ends(later),
             later.staked = sp.staked, UNCHANGED total_actually_staked
      PROVE  TotalsExact'
  <2>1. StakingOf(p) = 0 /\ UnstakingOf(p) = 0
    BY <1>9 DEF StakingOf, UnstakingOf
  <2> HIDE DEF sp, Ends
  <2>2. /\ total_actually_staked' \in Nat
        /\ total_actually_staked' + sp.staked + StakingOf(p)
             = total_actually_staked + later.staked + UnstakingOf(p)
    BY <1>2, <1>9, <2>1
  <2> QED
    BY <1>3, <1>9, <2>2
<1>10. CASE RetrieveFailed(p)
  BY <1>2, <1>9, <1>10 DEF RetrieveFailed, Settle, booksUnchanged, stakeVars
<1>11. CASE Retrieved(p)
  <2> DEFINE later == [sp EXCEPT !.unstaked = 0]
  <2>1. p.kind = "withdraw_all" /\ Ends(later) /\ UNCHANGED total_actually_staked
    BY <1>11 DEF Retrieved, Settle
  <2>2. later \in PoolInfo /\ later.staked = sp.staked
    BY <1>2 DEF PoolInfo
  <2> HIDE DEF sp, later, Ends
  <2> QED
    BY <1>9, <2>1, <2>2
<1>12. CASE RewardsDistributed(p)
  <2> DEFINE later == [sp EXCEPT !.staked = p.answer - sp.unstaked,
                                 !.last_asked_rewards_epoch_height = epoch]
  <2>1. /\ p.answer >= sp.unstaked /\ Ends(later)
        /\ total_actually_staked' = total_actually_staked + Monus(p.answer, TotalBalance(sp))
        /\ StakingOf(p) = 0 /\ UnstakingOf(p) = 0
    BY <1>12 DEF RewardsDistributed, Settle, StakingOf, UnstakingOf
  <2>2. TotalBalance(sp) <= p.answer
    BY <1>12 DEF RewardsDistributed, HoldInv, Answered
  <2>3. later \in PoolInfo /\ later.staked = p.answer - sp.unstaked
    <3>1. p.answer - sp.unstaked \in Nat
      BY <1>2, <2>1
    <3> HIDE DEF sp
    <3> QED
      BY <1>2, <3>1 DEF PoolInfo
  <2>4. Monus(p.answer, TotalBalance(sp)) = p.answer - (sp.staked + sp.unstaked)
    BY <1>2, <2>2 DEF Monus, TotalBalance
  <2> HIDE DEF sp, later, Ends
  <2>5. /\ total_actually_staked' \in Nat
        /\ total_actually_staked' + sp.staked + StakingOf(p)
             = total_actually_staked + later.staked + UnstakingOf(p)
    BY <1>2, <2>1, <2>2, <2>3, <2>4 DEF TotalBalance
  <2> QED
    BY <1>3, <2>1, <2>3, <2>5
<1>13. ~UnstakedSynced(p)
  BY DEF PInv, CallsOK, UnstakedSynced
<1> QED
  BY <1>1, <1>4, <1>5, <1>6, <1>7, <1>8, <1>10, <1>11, <1>12, <1>13 DEF Callback


LEMMA TotalsKept ==
  ASSUME MAX_SYNCS = 0, PInv, PInv', HoldInv, TotalsExact, [UpgradedNext]_vars
  PROVE  TotalsExact'
<1>1. ASSUME UNCHANGED <<promises, staking_pools, total_actually_staked>>
      PROVE  TotalsExact'
  BY <1>1, TotalsStay
<1>2. CASE UNCHANGED vars
  BY <1>1, <1>2 DEF vars, listVars, stakeVars
<1>3. CASE PauseStaking \/ Migrate \/ \E value \in BOOLEAN : SetBusy(value)
  BY <1>1, <1>3 DEF PauseStaking, Migrate, SetBusy, booksUnchanged, stakeVars
<1>4. CASE TransferExtraBalance
  BY <1>1, <1>4 DEF TransferExtraBalance, listVars, stakeVars
<1>5. CASE UserCalls
  BY <1>1, <1>5 DEF UserCalls, DepositAndStake, Unstake, WithdrawUnstaked, NslpAddLiquidity,
                    PayFromLiquidityPool, StakeFromNslp, listVars, stakeVars
<1>6. \A i \in DOMAIN staking_pools : staking_pools[i] \in PoolInfo
  BY PoolTyped DEF PInv
<1>7. ASSUME NEW weights \in WeightLists, SetStakingPools(weights)
      PROVE  TotalsExact'
  BY <1>6, <1>7, TotalsStay DEF SetStakingPools, booksUnchanged, stakeVars, PoolInfo
<1>8. ASSUME NEW i \in DOMAIN staking_pools, SpBusy(i, FALSE)
      PROVE  TotalsExact'
  BY <1>6, <1>8, TotalsStay DEF SpBusy, booksUnchanged, stakeVars, PoolInfo
<1>9. CASE promises = {} /\ PoolListCalls
  <2>1. TypeOK /\ CallsOK /\ PoolsOK
    BY DEF PInv
  <2>2. UNCHANGED <<Staking, Unstaking, StakedSum>>
    BY <1>9, <2>1, PoolAdded, PoolRemoved DEF PoolListCalls
  <2>3. UNCHANGED total_actually_staked
    BY <1>9 DEF PoolListCalls, AddStakingPool, RemoveStakingPool, booksUnchanged, stakeVars
  <2> QED
    BY <2>2, <2>3 DEF TotalsExact
<1>10. CASE StorageCalls
  BY <1>1, <1>10 DEF StorageCalls, StorageDeposit, StorageUnregister, RefundReopens,
                     storageStepUnchanged, listVars, stakeVars
<1>11. CASE Ordinary
  BY <1>3, <1>4, <1>5, <1>7, <1>10, <1>11, TotalsHeartbeatCalls, TotalsPoolSteps,
     TotalsCallbacks DEF Ordinary
<1> QED
  BY <1>2, <1>3, <1>8, <1>9, <1>11 DEF UpgradedNext

LEMMA TotalsInitially == Init => TotalsExact
<1> SUFFICES ASSUME Init PROVE TotalsExact
  OBVIOUS
<1>1. staking_pools = << >> /\ promises = {} /\ total_actually_staked = 0
  BY DEF Init, InitWith
<1>2. \A f \in [{} -> Nat] : SumOf(f) = 0
  BY SumZero
<1>3. /\ [p \in {} |-> StakingOf(p)] \in [{} -> Nat]
      /\ [p \in {} |-> UnstakingOf(p)] \in [{} -> Nat]
      /\ StakedRecords \in [{} -> Nat]
  BY <1>1 DEF StakedRecords
<1>4. Staking = 0 /\ Unstaking = 0 /\ StakedSum = 0
  BY <1>1, <1>2, <1>3 DEF Staking, Unstaking, StakedSum
<1> QED
  BY <1>1, <1>4 DEF TotalsExact

(* While the pools do not round, the totals are the sums of the records,   *)
(* whichever calls overlap and whichever of them fail: a reward is counted *)
(* once, and no stake or unstake is counted by the wrong record.           *)
THEOREM TotalsAlwaysMatchRecords ==
  ASSUME MAX_SYNCS = 0, DRIFT = 0
  PROVE  UpgradedSpec => []TotalsMatchRecords
<1>1. PInv /\ PInv' /\ HoldInv /\ [UpgradedNext]_vars => HoldInv'
  BY HoldKept
<1>2. PInv /\ PInv' /\ HoldInv /\ TotalsExact /\ [UpgradedNext]_vars => TotalsExact'
  BY TotalsKept
<1>3. PInv /\ TotalsExact => TotalsMatchRecords
  BY DEF PInv, RecordsOK, TotalsExact, TotalsMatchRecords, StakedSum, UnstakedSum
<1> QED
  BY <1>1, <1>2, <1>3, HoldInitially, TotalsInitially, BooksInvariance, PTL DEF UpgradedSpec

-----------------------------------------------------------------------------
(* The money.  What users are owed is what the books count: the balance of *)
(* the contract and the records of the pools.  Pool by pool, that is there *)
(* while the pools do not round; so the contract implements Vault.         *)

\* What a pool has taken in or sent back that its callback has yet to record.
Answering(i, kind) == \E p \in promises : p.inx = i /\ p.kind = kind /\ p.stage = "ok"
CallOf(i) == CHOOSE p \in promises : p.inx = i
DepositedAt(i) == IF Answering(i, "deposit_and_stake") THEN CallOf(i).amount ELSE 0
RetrievedAt(i) == IF Answering(i, "withdraw_all") THEN staking_pools[i].unstaked ELSE 0
DepositedOf(p) == IF p.kind = "deposit_and_stake" /\ p.stage = "ok" THEN p.amount ELSE 0
Arrived == SumOf([p \in promises |-> DepositedOf(p)])

HeldBy(account) == account.staked + account.unstaked

(* A pool has what is on record of it and what it has taken in, or has     *)
(* sent the difference back.                                               *)
LEMMA PoolHolds ==
  ASSUME PInv, HoldInv, NEW i \in DOMAIN staking_pools
  PROVE  /\ DepositedAt(i) \in Nat /\ RetrievedAt(i) \in Nat
         /\ HeldBy(pool_account[staking_pools[i].account_id]) \in Nat
         /\ TotalBalance(staking_pools[i]) \in Nat
         /\ TotalBalance(staking_pools[i]) + DepositedAt(i)
              <= HeldBy(pool_account[staking_pools[i].account_id]) + RetrievedAt(i)
<1> DEFINE sp == staking_pools[i]
           account == pool_account[sp.account_id]
<1>1. sp \in PoolInfo /\ sp.staked \in Nat /\ sp.unstaked \in Nat /\ sp.account_id \in PoolIds
  BY PoolTyped DEF PInv, PoolInfo
<1>2. account.staked \in Nat /\ account.unstaked \in Nat
  BY <1>1 DEF PInv, TypeOK, PoolAccount
<1>3. HeldBy(account) \in Nat /\ TotalBalance(sp) \in Nat
  BY <1>1, <1>2 DEF HeldBy, TotalBalance
<1>4. CASE \A p \in promises : p.inx = i => p.stage # "ok"
  <2>1. DepositedAt(i) = 0 /\ RetrievedAt(i) = 0
    BY <1>4 DEF DepositedAt, RetrievedAt, Answering
  <2>2. Holds(account, sp)
    BY <1>4 DEF HoldInv
  <2>3. account.unstaked = sp.unstaked /\ sp.staked <= account.staked
    BY <2>2 DEF Holds
  <2> HIDE DEF sp, account
  <2>4. TotalBalance(sp) <= HeldBy(account)
    BY <1>1, <1>2, <2>3 DEF TotalBalance, HeldBy
  <2> QED
    BY <1>3, <2>1, <2>4 DEF sp, account
<1>5. CASE \E p \in promises : p.inx = i /\ p.stage = "ok"
  <2>1. PICK p \in promises : p.inx = i /\ p.stage = "ok"
    BY <1>5
  <2>2. p \in Promises /\ p.amount \in Nat /\ p.rebalance \in Nat /\ p.answer \in Nat
        /\ p.kind \in CallKinds
    BY DEF PInv, TypeOK, Promises
  <2>3. /\ p.kind # "unstaked_balance" /\ sp.account_id = p.pool
        /\ p.kind = "unstake" => sp.staked >= p.amount + p.rebalance
        /\ p.kind = "stake" => sp.unstaked >= p.amount
    BY <2>1 DEF PInv, CallsOK
  <2>4. \A q \in promises : q.inx = i => q = p
    BY <2>1 DEF PInv, CallsOK
  <2>5. CallOf(i) = p
    BY <2>1, <2>4 DEF CallOf
  <2>6. \A kind : Answering(i, kind) <=> p.kind = kind
    BY <2>1, <2>4 DEF Answering
  <2>7. /\ DepositedAt(i) = IF p.kind = "deposit_and_stake" THEN p.amount ELSE 0
        /\ RetrievedAt(i) = IF p.kind = "withdraw_all" THEN sp.unstaked ELSE 0
    BY <2>5, <2>6 DEF DepositedAt, RetrievedAt
  <2>8. DepositedAt(i) \in Nat /\ RetrievedAt(i) \in Nat
    BY <1>1, <2>2, <2>7
  <2>9. epoch \in Nat
    BY DEF PInv, TypeOK, TotalsNat
  <2> DEFINE o == Outcome(p, sp, epoch)
  <2>10. Answered(p, sp, account, epoch)
    BY <2>1, <2>3 DEF HoldInv
  <2>11. /\ account.unstaked = o.unstaked /\ o.staked <= account.staked
         /\ p.kind = "total_balance" => TotalBalance(sp) <= p.answer
    BY <2>10 DEF Answered, Holds
  <2>12. /\ p.kind = "deposit_and_stake" =>
               o.staked = sp.staked + p.amount /\ o.unstaked = sp.unstaked
         /\ p.kind = "stake" =>
               o.staked = sp.staked + p.amount /\ o.unstaked = sp.unstaked - p.amount
         /\ p.kind = "unstake" =>
               /\ o.staked = sp.staked - (p.amount + p.rebalance)
               /\ o.unstaked = sp.unstaked + p.amount + p.rebalance
         /\ p.kind = "withdraw_all" => o.staked = sp.staked /\ o.unstaked = 0
         /\ p.kind = "total_balance" =>
               o.staked = p.answer - sp.unstaked /\ o.unstaked = sp.unstaked
    BY <1>1, <2>2, <2>9, Outcomes
  <2> HIDE DEF sp, account, o
  <2>13. TotalBalance(sp) + DepositedAt(i) <= HeldBy(account) + RetrievedAt(i)
    BY <1>1, <1>2, <2>2, <2>3, <2>7, <2>11, <2>12 DEF TotalBalance, HeldBy, CallKinds
  <2> QED
    BY <1>3, <2>8, <2>13 DEF sp, account
<1> QED
  BY <1>4, <1>5


(* What was sent to the pools is on its way or has arrived.                *)
LEMMA SentOrArrived ==
  ASSUME PInv
  PROVE  /\ Sending \in Nat /\ Arrived \in Nat
         /\ Depositing = Sending + Arrived
<1> DEFINE d == [p \in promises |-> DepositingOf(p)]
           s == [p \in promises |-> SendingOf(p)]
           a == [p \in promises |-> DepositedOf(p)]
<1>1. IsFiniteSet(promises) /\ d \in [promises -> Nat]
  BY CallsFind, NearTyped DEF Finds
<1>2. \A p \in promises : p.amount \in Nat /\ p.stage \in Stages
  BY DEF PInv, TypeOK, Promises
<1>3. s \in [promises -> Nat] /\ a \in [promises -> Nat]
  BY <1>2 DEF SendingOf, DepositedOf
<1>4. \A p \in promises : d[p] = s[p] + a[p]
  BY <1>2 DEF SendingOf, DepositedOf, DepositingOf, Stages
<1> HIDE DEF d, s, a
<1>5. SumOf(d) = SumOf(s) + SumOf(a) /\ SumOf(s) \in Nat /\ SumOf(a) \in Nat
  BY <1>1, <1>3, <1>4, SumPlus, SumNat
<1> QED
  BY <1>5 DEF Depositing, DepositingIn, Sending, Arrived, d, s, a

(* A pool has one call, so what the calls have moved is what the pools     *)
(* have taken in and sent back.                                            *)
LEMMA MovedByCalls ==
  ASSUME PInv, HoldInv
  PROVE  LET D == DOMAIN staking_pools IN
         /\ Arrived <= SumOf([i \in D |-> DepositedAt(i)])
         /\ SumOf([i \in D |-> RetrievedAt(i)]) <= Retrieving
<1> DEFINE D == DOMAIN staking_pools
           Busy == {i \in D : \E p \in promises : p.inx = i}
           a == [p \in promises |-> DepositedOf(p)]
           r == [p \in promises |-> RetrievingOf(p, staking_pools)]
           at == [i \in D |-> DepositedAt(i)]
           from == [i \in D |-> RetrievedAt(i)]
           busy == [i \in Busy |-> RetrievedAt(i)]
           pool == [p \in promises |-> p.inx]
           call == [i \in Busy |-> CallOf(i)]
<1>1. IsFiniteSet(promises) /\ r \in [promises -> Nat]
  BY CallsFind, NearTyped DEF Finds
<1>2. \A p \in promises : p.amount \in Nat /\ p.inx \in D
  BY DEF PInv, TypeOK, Promises, CallsOK
<1>3. a \in [promises -> Nat]
  BY <1>2 DEF DepositedOf
<1>4. IsFiniteSet(D) /\ Busy \in SUBSET D
  BY PoolsFinite DEF PInv
<1>5. at \in [D -> Nat] /\ from \in [D -> Nat] /\ busy \in [Busy -> Nat]
  BY PoolHolds
<1>6. ASSUME NEW p \in promises PROVE CallOf(p.inx) = p
  <2>1. \A q \in promises : q.inx = p.inx => q = p
    BY DEF PInv, CallsOK
  <2> QED
    BY <2>1 DEF CallOf
<1>7. Fits(promises, D, pool, a, at)
  <2>1. \A p, q \in promises : p.inx = q.inx => p = q
    BY DEF PInv, CallsOK
  <2>2. \A p \in promises : DepositedOf(p) <= DepositedAt(p.inx)
    <3> SUFFICES ASSUME NEW p \in promises PROVE DepositedOf(p) <= DepositedAt(p.inx)
      OBVIOUS
    <3>1. DepositedAt(p.inx) \in Nat /\ p.amount \in Nat
      BY <1>2, PoolHolds
    <3>2. CASE p.kind = "deposit_and_stake" /\ p.stage = "ok"
      <4>1. Answering(p.inx, "deposit_and_stake")
        BY <3>2 DEF Answering
      <4>2. DepositedAt(p.inx) = p.amount
        BY <1>6, <4>1 DEF DepositedAt
      <4> QED
        BY <3>1, <4>2 DEF DepositedOf
    <3> QED
      BY <3>1, <3>2 DEF DepositedOf
  <2> QED
    BY <1>2, <2>1, <2>2 DEF Fits
<1>8. /\ \A i \in Busy : busy[i] = from[i]
      /\ \A i \in D \ Busy : from[i] = 0
  BY DEF RetrievedAt, Answering
<1>9. \A i \in Busy : CallOf(i) \in promises /\ CallOf(i).inx = i
  BY DEF CallOf
<1>10. Fits(Busy, promises, call, busy, r)
  <2>1. \A i \in Busy : RetrievedAt(i) <= RetrievingOf(CallOf(i), staking_pools)
    <3> SUFFICES ASSUME NEW i \in Busy
                 PROVE  RetrievedAt(i) <= RetrievingOf(CallOf(i), staking_pools)
      OBVIOUS
    <3>1. r[CallOf(i)] \in Nat /\ RetrievedAt(i) \in Nat
      BY <1>1, <1>9, PoolHolds
    <3>2. RetrievingOf(CallOf(i), staking_pools) \in Nat
      BY <1>9, <3>1
    <3>3. CASE Answering(i, "withdraw_all")
      <4>1. CallOf(i).kind = "withdraw_all" /\ CallOf(i).stage = "ok"
        BY <1>6, <3>3 DEF Answering
      <4>2. RetrievingOf(CallOf(i), staking_pools) = staking_pools[i].unstaked
        BY <1>9, <4>1 DEF RetrievingOf
      <4> QED
        BY <3>1, <3>2, <3>3, <4>2 DEF RetrievedAt
    <3> QED
      BY <3>2, <3>3 DEF RetrievedAt
  <2> QED
    BY <1>9, <2>1 DEF Fits
<1> HIDE DEF D, Busy, a, r, at, from, busy, pool, call
<1>11. SumOf(a) <= SumOf(at)
  BY <1>3, <1>4, <1>5, <1>7, SumInjected
<1>12. SumOf(busy) = SumOf(from)
  BY <1>4, <1>5, <1>8, SumSupported
<1>13. SumOf(busy) <= SumOf(r)
  BY <1>1, <1>5, <1>10, SumInjected
<1> QED
  BY <1>11, <1>12, <1>13 DEF Arrived, Retrieving, RetrievingIn, D, a, r, at, from


(* What is on record of the pools, and has arrived there, is in the pools  *)
(* or has been sent back.                                                  *)
LEMMA RecordsHeld ==
  ASSUME PInv, HoldInv, IsFiniteSet(PoolIds)
  PROVE  /\ InPools \in Nat
         /\ StakedSum + UnstakedSum + Arrived <= InPools + Retrieving
<1> DEFINE D == DOMAIN staking_pools
           records == [i \in D |-> TotalBalance(staking_pools[i])]
           at == [i \in D |-> DepositedAt(i)]
           from == [i \in D |-> RetrievedAt(i)]
           account == [i \in D |-> HeldBy(pool_account[staking_pools[i].account_id])]
           left == [i \in D |-> records[i] + at[i]]
           right == [i \in D |-> account[i] + from[i]]
           accounts == [id \in PoolIds |-> pool_account[id].staked + pool_account[id].unstaked]
           name == [i \in D |-> staking_pools[i].account_id]
           same == [i \in D |-> i]
<1>1. /\ IsFiniteSet(D)
      /\ StakedRecords \in [D -> Nat] /\ UnstakedRecords \in [D -> Nat]
  BY PoolsFinite DEF PInv
<1>2. \A i \in D : staking_pools[i].account_id \in PoolIds
  BY PoolTyped DEF PInv, PoolInfo
<1>3. accounts \in [PoolIds -> Nat]
  BY DEF PInv, TypeOK, PoolAccount
<1>4. /\ records \in [D -> Nat] /\ at \in [D -> Nat]
      /\ from \in [D -> Nat] /\ account \in [D -> Nat]
  BY PoolHolds
<1>5. left \in [D -> Nat] /\ right \in [D -> Nat]
  BY <1>4
<1>6. \A i \in D : records[i] = StakedRecords[i] + UnstakedRecords[i]
  BY DEF TotalBalance, StakedRecords, UnstakedRecords
<1>7. \A i \in D : left[i] <= right[i]
  BY PoolHolds
<1>8. \A i, j \in D : name[i] = name[j] => i = j
  BY DEF PInv, CallsOK
<1>9. \A i \in D : account[i] = accounts[name[i]]
  BY <1>2 DEF HeldBy
<1>10. name \in [D -> PoolIds]
  BY <1>2
<1>11. same \in [D -> D] /\ \A i \in D : same[i] = i
  OBVIOUS
<1>12. /\ \A i \in D : left[i] = records[i] + at[i]
       /\ \A i \in D : right[i] = account[i] + from[i]
  OBVIOUS
<1>13. InPools = SumOf(accounts)
  BY DEF InPools
<1>14. Arrived <= SumOf(at) /\ SumOf(from) <= Retrieving
  BY MovedByCalls
<1> HIDE DEF D, records, at, from, account, left, right, accounts, name, same
<1>15. Fits(D, D, same, left, right)
  BY <1>7, <1>11 DEF Fits
<1>16. SumOf(left) <= SumOf(right)
  BY <1>1, <1>5, <1>15, SumInjected
<1>17. \A i \in D : account[i] \in Nat /\ account[i] <= accounts[name[i]]
  BY <1>4, <1>9
<1>18. Fits(D, PoolIds, name, account, accounts)
  BY <1>8, <1>10, <1>17 DEF Fits
<1>19. SumOf(account) <= SumOf(accounts) /\ SumOf(accounts) \in Nat
  BY <1>3, <1>4, <1>18, SumInjected, SumNat
<1>20. SumOf(left) = SumOf(records) + SumOf(at)
  BY <1>1, <1>4, <1>5, <1>12, SumPlus
<1>21. SumOf(right) = SumOf(account) + SumOf(from)
  BY <1>1, <1>4, <1>5, <1>12, SumPlus
<1>22. SumOf(records) = StakedSum + UnstakedSum
  BY <1>1, <1>4, <1>6, SumPlus DEF StakedSum, UnstakedSum
<1>23. /\ SumOf(records) \in Nat /\ SumOf(at) \in Nat
       /\ SumOf(account) \in Nat /\ SumOf(from) \in Nat
  BY <1>1, <1>4, SumNat
<1>24. Arrived \in Nat /\ Retrieving \in Nat
  BY SentOrArrived, NearNat
<1> QED
  BY <1>13, <1>14, <1>16, <1>19, <1>20, <1>21, <1>22, <1>23, <1>24

(* What users are owed is what the books count.                            *)
LEMMA OwedIsRecorded ==
  ASSUME PInv, TotalsExact
  PROVE  OwedToUsers = contract_account_balance + StakedSum + UnstakedSum
<1>1. /\ Staking \in Nat /\ Unstaking \in Nat /\ Rebalancing \in Nat
      /\ StakedSum \in Nat /\ UnstakedSum \in Nat
  BY SumsNat DEF PInv
<1>2. TotalsNat
  BY DEF PInv, TypeOK
<1> QED
  BY <1>1, <1>2 DEF PInv, BooksOK, RecordsOK, TotalsExact, OwedToUsers, TotalsNat,
                    ClaimsExact, BooksExact, StakeExplained, Owed, Coming, Booked

(* The invariant under the refinement.                                     *)
MoneyInv == PInv /\ NearInv /\ HoldInv /\ TotalsExact

\* What users can claim, and what is given back to them for their accounts.
Due == OwedToUsers + StorageDeposits

\* No more is owed than is held.
Covered == Due \in Nat /\ Held \in Nat /\ Due <= Held

LEMMA OwedCovered ==
  ASSUME MoneyInv, IsFiniteSet(PoolIds)
  PROVE  Covered
<1> USE DEF MoneyInv
<1>1. OwedToUsers = contract_account_balance + StakedSum + UnstakedSum
  BY OwedIsRecorded
<1>2. /\ contract_account_balance \in Nat /\ env_balance \in Nat
      /\ Depositing \in Nat /\ Retrieving \in Nat /\ StorageDeposits \in Nat
  BY NearNat
<1>3. contract_account_balance + StorageDeposits + Retrieving <= env_balance + Depositing
  BY DEF NearInv
<1>4. Sending \in Nat /\ Arrived \in Nat /\ Depositing = Sending + Arrived
  BY SentOrArrived
<1>5. InPools \in Nat /\ StakedSum + UnstakedSum + Arrived <= InPools + Retrieving
  BY RecordsHeld
<1>6. StakedSum \in Nat /\ UnstakedSum \in Nat
  BY SumsNat DEF PInv
<1> QED
  BY <1>1, <1>2, <1>3, <1>4, <1>5, <1>6 DEF Held, Due, Covered

(* How debt and money may move.                                            *)
Moves ==
  \/ Due' + Held = Due + Held'
  \/ UNCHANGED Due
  \/ UNCHANGED Held /\ Due <= Due'

LEMMA VaultMoves ==
  ASSUME Covered, Covered', Moves
  PROVE  [V!Next]_<<OwedToUsers + StorageDeposits, Held>>
<1>1. CASE Due' + Held = Due + Held'
  <2>1. Held' > Held \/ Held' < Held \/ (Held' = Held /\ Due' = Due)
    BY <1>1 DEF Covered
  <2> QED
    BY <1>1, <2>1 DEF Due, V!Next, V!Deposit, V!Pay
<1>2. CASE UNCHANGED Due
  <2>1. Held' > Held \/ Held' < Held \/ Held' = Held
    BY DEF Covered
  <2>2. Due <= Held'
    BY <1>2 DEF Covered
  <2> QED
    BY <1>2, <2>1, <2>2 DEF Due, V!Next, V!Earn, V!Sweep
<1>3. CASE UNCHANGED Held /\ Due <= Due'
  <2>1. Due' > Due \/ Due' = Due
    BY <1>3 DEF Covered
  <2>2. Due' <= Held'
    BY DEF Covered
  <2> QED
    BY <1>3, <2>1, <2>2 DEF Due, V!Next, V!Credit
<1> QED
  BY <1>1, <1>2, <1>3 DEF Moves

LEMMA InPoolsNat ==
  ASSUME TypeOK, IsFiniteSet(PoolIds)
  PROVE  InPools \in Nat
<1>1. [id \in PoolIds |-> pool_account[id].staked + pool_account[id].unstaked]
        \in [PoolIds -> Nat]
  BY DEF TypeOK, PoolAccount
<1> QED
  BY <1>1, SumNat DEF InPools

(* A user brings in or takes out as much as the debt changes.              *)
LEMMA UserCallsMove ==
  ASSUME PInv, PInv', AccountsPaidFor, UserCalls, IsFiniteSet(PoolIds)
  PROVE  Moves
<1>1. UNCHANGED <<promises, pool_account>>
  BY DEF UserCalls, DepositAndStake, Unstake, WithdrawUnstaked, NslpAddLiquidity,
         PayFromLiquidityPool, StakeFromNslp, listVars, worldVars
<1>2. UNCHANGED <<InPools, Sending>>
  BY <1>1 DEF InPools, Sending
<1>3. TotalsNat /\ InPools \in Nat /\ Sending \in Nat
  BY InPoolsNat, SentOrArrived DEF PInv, TypeOK
<1>4. \A x \in Amounts : x \in Nat
  BY SetsAssumption
<1>5. Due' + env_balance = Due + env_balance'
  <2>1. PICK a \in Amounts : \/ \E v \in 0..a : DepositAndStake(a, v)
                            \/ Unstake(a) \/ WithdrawUnstaked(a) \/ NslpAddLiquidity(a)
                            \/ PayFromLiquidityPool(a) \/ StakeFromNslp(a)
    BY DEF UserCalls
  <2>2. a \in Nat /\ a > 0
    BY <2>1, SetsAssumption
  <2>3. /\ env_balance \in Nat /\ env_balance' \in Nat
        /\ StorageDeposits \in Nat /\ StorageDeposits' \in Nat
        /\ OwedToUsers \in Nat /\ registered \in Nat /\ registered' \in Nat
    BY <1>3, NearNat, NearNatAfter DEF OwedToUsers, TotalsNat
  <2>4. ASSUME OwedToUsers' = OwedToUsers + a, Deposited(a)
        PROVE  Due' + env_balance = Due + env_balance'
    <3>1. env_balance' + StorageDeposits = env_balance + a + StorageDeposits'
      BY <1>3, <2>2, <2>4, DepositedPays
    <3> QED
      BY <2>2, <2>3, <2>4, <3>1 DEF Due
  <2>5. ASSUME OwedToUsers' + env_balance = OwedToUsers + env_balance', UNCHANGED registered
        PROVE  Due' + env_balance = Due + env_balance'
    <3>1. UNCHANGED StorageDeposits
      BY <2>5, SameDeposits
    <3>2. OwedToUsers' \in Nat
      <4>1. TotalsNat'
        BY DEF PInv, TypeOK
      <4>2. /\ total_for_staking' \in Nat /\ total_available' \in Nat
            /\ total_unstake_claims' \in Nat
        BY <4>1 DEF TotalsNat
      <4>3. OwedToUsers' = total_for_staking' + total_available' + total_unstake_claims'
        BY DEF OwedToUsers
      <4>4. \A x, y, z \in Nat : x + y + z \in Nat
        OBVIOUS
      <4> QED
        BY <4>2, <4>3, <4>4
    <3> QED
      BY <2>3, <2>5, <3>1, <3>2 DEF Due
  <2>6. CASE \/ NslpAddLiquidity(a)
             \/ \E v \in 0..a : DepositAndStake(a, v)
    <3>1. OwedToUsers' = OwedToUsers + a /\ Deposited(a)
      BY <1>3, <2>2, <2>6 DEF NslpAddLiquidity, DepositAndStake, OwedToUsers, TotalsNat
    <3> QED
      BY <2>4, <3>1
  <2>7. CASE Unstake(a) \/ WithdrawUnstaked(a) \/ StakeFromNslp(a)
    <3>1. OwedToUsers' + env_balance = OwedToUsers + env_balance' /\ UNCHANGED registered
      BY <1>3, <2>2, <2>7 DEF Unstake, WithdrawUnstaked, StakeFromNslp, NativeTransfer,
         moneyVars, OwedToUsers, TotalsNat
    <3> QED
      BY <2>5, <3>1
  <2>8. CASE PayFromLiquidityPool(a)
    <3>1. OwedToUsers' + env_balance = OwedToUsers + env_balance'
      BY <1>3, <2>2, <2>8 DEF PayFromLiquidityPool, NativeTransfer, OwedToUsers, TotalsNat
    <3>2. registered' = registered
      BY <2>2, <2>8, PaysOpeningNone
    <3> QED
      BY <2>5, <3>1, <3>2
  <2> QED
    BY <2>1, <2>6, <2>7, <2>8
<1>6. Due' + Held = Due + Held'
  <2>1. Due \in Int /\ Due' \in Int /\ env_balance' \in Int
    <3>1. TotalsNat' /\ StorageDeposits' \in Nat /\ StorageDeposits \in Nat
      BY NearNat, NearNatAfter DEF PInv, TypeOK
    <3> QED
      BY <1>3, <3>1 DEF Due, OwedToUsers, TotalsNat
  <2>2. Held = env_balance + InPools + Sending /\ Held' = env_balance' + InPools + Sending
    BY <1>2 DEF Held
  <2>3. env_balance \in Int
    BY <1>3 DEF TotalsNat
  <2> QED
    BY <1>3, <1>5, <2>1, <2>2, <2>3
<1> QED
  BY <1>6 DEF Moves

(* A reward is credited when it has been in the pool already.              *)
LEMMA RewardMoves ==
  ASSUME PInv, NEW p \in promises, RewardsDistributed(p), UNCHANGED registered
  PROVE  Moves
<1> DEFINE sp == staking_pools[p.inx]
           rewards == Monus(p.answer, TotalBalance(sp))
           s == [q \in promises |-> SendingOf(q)]
           t == [q \in promises' |-> SendingOf(q)]
<1>1. /\ promises' = promises \ {p} /\ UNCHANGED <<env_balance, pool_account>>
      /\ p.kind = "total_balance"
      /\ total_for_staking' = total_for_staking + rewards
      /\ UNCHANGED <<total_available, total_unstake_claims>>
  BY DEF RewardsDistributed, Settle, moneyVars, worldVars
<1>2. \A q \in promises : q.amount \in Nat /\ q.answer \in Nat
  BY DEF PInv, TypeOK, Promises
<1>3. s \in [promises -> Nat] /\ t \in [promises' -> Nat]
  BY <1>1, <1>2 DEF SendingOf
<1>4. /\ \A q \in promises' : t[q] = s[q]
      /\ \A q \in promises \ promises' : s[q] = 0
  BY <1>1 DEF SendingOf
<1>5. Sending' = SumOf(t) /\ Sending = SumOf(s)
  BY DEF Sending
<1>6. sp.staked \in Nat /\ sp.unstaked \in Nat
  BY PoolTyped DEF PInv, CallsOK, PoolInfo
<1>7. rewards \in Nat
  BY <1>2, <1>6 DEF Monus, TotalBalance
<1> HIDE DEF s, t, rewards
<1>8. Sending' = Sending
  BY <1>1, <1>3, <1>4, <1>5, SumSupported
<1>9. UNCHANGED Held
  BY <1>1, <1>8 DEF Held, InPools
<1>10. TotalsNat
  BY DEF PInv, TypeOK
<1>11. Due <= Due'
  <2>1. StorageDeposits \in Nat /\ StorageDeposits' = StorageDeposits
    BY NearNat, SameDeposits
  <2> QED
    BY <1>1, <1>7, <1>10, <2>1 DEF Due, OwedToUsers, TotalsNat
<1> QED
  BY <1>9, <1>11 DEF Moves

LEMMA CallbacksMove ==
  ASSUME PInv, PInv', AccountsPaidFor, Callbacks
  PROVE  Moves
<1>1. PICK p \in promises : Callback(p)
  BY DEF Callbacks
<1>2. CASE RewardsDistributed(p)
  BY <1>1, <1>2, RewardMoves, CallbackOpensNone
<1>3. CASE ~RewardsDistributed(p)
  <2>1. UNCHANGED userVars
    BY <1>1, <1>3 DEF Callback, CallbackPanics, StakeSucceeded, StakeFailed, UnstakeSucceeded,
       UnstakeFailed, Retrieved, RetrieveFailed, UnstakedSynced, booksUnchanged
  <2> QED
    BY <2>1, SameDeposits DEF userVars, OwedToUsers, Due, Moves
<1> QED
  BY <1>2, <1>3

(* An account is opened, paid for, or closed and paid back.                *)
LEMMA StorageCallsMove ==
  ASSUME PInv, PInv', AccountsPaidFor, StorageCalls, IsFiniteSet(PoolIds)
  PROVE  Moves
<1>1. /\ storageStepUnchanged
      /\ env_balance' + StorageDeposits = env_balance + StorageDeposits'
  BY StorageCallsPaidFor
<1>2. UNCHANGED <<OwedToUsers, InPools, Sending>>
  BY <1>1 DEF storageStepUnchanged, listVars, worldVars, OwedToUsers, InPools, Sending
<1>3. TotalsNat /\ InPools \in Nat /\ Sending \in Nat
  BY InPoolsNat, SentOrArrived DEF PInv, TypeOK
<1>4. OwedToUsers \in Int
  BY <1>3 DEF OwedToUsers, TotalsNat
<1>5. Due' + Held = Due + Held'
  BY <1>1, <1>2, <1>3, <1>4, NearNat, NearNatAfter DEF Due, Held
<1> QED
  BY <1>5 DEF Moves

LEMMA StepMoves ==
  ASSUME PInv, PInv', IsFiniteSet(PoolIds), [UpgradedNext]_vars, [AccountsPaidFor]_vars
  PROVE  Moves
<1>1. ASSUME UNCHANGED userVars PROVE Moves
  BY <1>1, SameDeposits DEF userVars, OwedToUsers, Due, Moves
<1>2. CASE UNCHANGED vars
  BY <1>1, <1>2 DEF vars
<1>3. CASE \/ PauseStaking \/ Migrate \/ \E value \in BOOLEAN : SetBusy(value)
           \/ \E i \in DOMAIN staking_pools : SpBusy(i, FALSE)
           \/ PoolListCalls \/ TransferExtraBalance
  BY <1>1, <1>3 DEF PauseStaking, Migrate, SetBusy, SpBusy, PoolListCalls, AddStakingPool,
     RemoveStakingPool, TransferExtraBalance, booksUnchanged
<1>4. ASSUME NEW weights \in WeightLists, SetStakingPools(weights)
      PROVE  Moves
  <2>1. booksUnchanged
    BY <1>4 DEF SetStakingPools
  <2> QED
    BY <1>1, <2>1 DEF booksUnchanged
<1>5. CASE PoolSteps
  BY <1>1, <1>5 DEF PoolSteps, PoolExecutes, PoolReward, NearArrives, NewEpoch,
     poolStepUnchanged
<1>6. CASE Ordinary
  <2>1. AccountsPaidFor \/ UNCHANGED vars
    OBVIOUS
  <2> QED
    BY <1>1, <1>2, <1>3, <1>4, <1>5, <1>6, <2>1, HeartbeatCallsOwe, UserCallsMove,
       StorageCallsMove, CallbacksMove DEF Ordinary
<1> QED
  BY <1>2, <1>3, <1>6 DEF UpgradedNext

LEMMA OwedNothing ==
  ASSUME Init, IsFiniteSet(PoolIds)
  PROVE  V!Init
<1>1. OwedToUsers + StorageDeposits = 0
  BY ThresholdsAssumption DEF Init, InitWith, OwedToUsers, StorageDeposits
<1>2. promises = {} /\ env_balance = INITIAL_BALANCE
      /\ pool_account = [id \in PoolIds |-> EmptyAccount]
  BY DEF Init, InitWith
<1>3. Sending = 0
  <2>1. [p \in {} |-> SendingOf(p)] \in [{} -> Nat]
    OBVIOUS
  <2>2. SumOf([p \in {} |-> SendingOf(p)]) = 0
    BY <2>1, SumZero
  <2> QED
    BY <1>2, <2>2 DEF Sending
<1>4. InPools \in Nat
  <2>1. [id \in PoolIds |-> pool_account[id].staked + pool_account[id].unstaked]
          \in [PoolIds -> Nat]
    BY <1>2 DEF EmptyAccount
  <2> QED
    BY <2>1, SumNat DEF InPools
<1> QED
  BY <1>1, <1>2, <1>3, <1>4, ThresholdsAssumption DEF Held, V!Init

(* The contract implements Vault while the pools do not round: users bring *)
(* in and take out what they are owed, rewards come in before anyone is    *)
(* credited with them, a failed call loses nothing, whoever closes an      *)
(* account gets its deposit back, and what is swept with care is owed to   *)
(* nobody; as long as no account is opened unpaid.                         *)
THEOREM MoneyMovesAsInVault ==
  ASSUME IsFiniteSet(PoolIds), MAX_SYNCS = 0, DRIFT = 0
  PROVE  UpgradedSpec /\ [][SweptWithCare]_vars /\ [][AccountsPaidFor]_vars => VaultSpec
<1>1. Init => PInv /\ NearInv /\ HoldInv /\ TotalsExact /\ V!Init
  BY InitExact, NearInitially, HoldInitially, TotalsInitially, OwedNothing
<1>2. PInv /\ PInv' /\ NearInv /\ [UpgradedNext]_vars
        /\ [SweptWithCare]_vars /\ [AccountsPaidFor]_vars
        => NearInv'
  BY NearKept
<1>3. PInv /\ PInv' /\ HoldInv /\ [UpgradedNext]_vars => HoldInv'
  BY HoldKept
<1>4. PInv /\ PInv' /\ HoldInv /\ TotalsExact /\ [UpgradedNext]_vars => TotalsExact'
  BY TotalsKept
<1>5. PInv /\ NearInv /\ HoldInv /\ TotalsExact => Covered
  BY OwedCovered DEF MoneyInv
<1>6. PInv /\ PInv' /\ Covered /\ Covered' /\ [UpgradedNext]_vars /\ [AccountsPaidFor]_vars
        => [V!Next]_<<OwedToUsers + StorageDeposits, Held>>
  BY StepMoves, VaultMoves
<1> QED
  BY <1>1, <1>2, <1>3, <1>4, <1>5, <1>6, BooksInvariance, PTL DEF UpgradedSpec, VaultSpec, V!Spec
=============================================================================
