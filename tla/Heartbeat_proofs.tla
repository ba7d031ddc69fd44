-------------------------- MODULE Heartbeat_proofs --------------------------
(***************************************************************************)
(* The safety of the heartbeat for any pools, weights, amounts and         *)
(* thresholds: the inductive invariant IInv is the conjunction of the      *)
(* properties themselves.  The locks make the coverage of the claims       *)
(* inductive: only because the unstake in flight is alone, and its         *)
(* callback cannot panic, are its orders still there when it ends.         *)
(***************************************************************************)
EXTENDS HeartbeatProperties, TLAPS

(* The inductive invariant.                                                *)
IInv == TypeOK /\ LockDiscipline /\ ClaimsCovered /\ Solvency /\ ReserveWithinClaims

Orders == [stake : Nat, unstake : Nat, reserve : Nat, rebal : Nat]

(* The orders o keep the claims covered and the books backed.              *)
SafeOrders(o) ==
  /\ o \in Orders
  /\ total_unstake_claims + o.rebal <= o.reserve + total_unstaked_and_waiting + o.unstake
  /\ total_available + o.reserve + o.stake <= contract_account_balance
  /\ o.reserve <= total_unstake_claims

-----------------------------------------------------------------------------
(* Arithmetic and orders.                                                  *)

(* The saturating subtraction and a share of basis points are naturals.    *)
LEMMA MonusNat == ASSUME NEW a \in Nat, NEW b \in Nat
                  PROVE  Monus(a, b) \in Nat /\ Monus(a, b) <= a
  BY SMT DEF Monus

LEMMA ApplyPctNat == ASSUME NEW a \in Nat, NEW b \in Nat
                     PROVE  apply_pct(a, b) \in Nat
  BY SMT DEF apply_pct

(* When nobody holds the contract, no locking call is in flight, hence the *)
(* claims are covered without any.                                         *)
LEMMA NotBusy ==
  ASSUME IInv, ~contract_busy
  PROVE  InFlight = {} /\ SafeOrders(CurrentOrders)
<1>1. InFlight = {}
  BY DEF IInv, LockDiscipline
<1>2. \A p \in promises : p.kind # "unstake"
  BY <1>1 DEF InFlight
<1>3. Owed <= Coming /\ Booked <= contract_account_balance
  BY <1>2 DEF IInv, ClaimsCovered, Solvency
<1> QED
  BY <1>1, <1>3 DEF IInv, TypeOK, TotalsNat, SafeOrders, Orders, CurrentOrders, Owed, Coming,
                    Booked, ReserveWithinClaims

(* What consider_retrieved_for_unstake_claims does with a retrieved amount: *)
(* it is split between the reserve, never beyond the claims, and the stake *)
(* orders; and what covered the claims with the amount still outside of    *)
(* the reserve covers them after.                                          *)
LEMMA ConsideredSplits ==
  ASSUME TypeOK, ReserveWithinClaims,
         NEW amount \in Nat, NEW stake \in Nat, NEW unstake \in Nat
  PROVE  LET o == Considered(amount, stake, unstake) IN
         /\ o \in Orders
         /\ o.unstake = unstake
         /\ o.reserve + o.stake = retrieved_for_unstake_claims + amount + stake
         /\ o.reserve <= total_unstake_claims
         /\ \A w \in Nat :
              total_unstake_claims + unstaked_for_rebalance
                  <= retrieved_for_unstake_claims + amount + w
                => total_unstake_claims + o.rebal <= o.reserve + w
<1> DEFINE o == Considered(amount, stake, unstake)
           e == ExtraOf(amount)
<1>1. e \in Nat /\ e <= amount
  BY DEF TypeOK, TotalsNat, ReserveWithinClaims, ExtraOf, Monus
<1>2. /\ o.stake = stake + e
      /\ o.unstake = unstake
      /\ o.reserve = retrieved_for_unstake_claims + amount - e
      /\ o.rebal = Monus(unstaked_for_rebalance, e)
  BY DEF Considered
<1>3. o.reserve \in Nat /\ o.rebal \in Nat
  BY <1>1, <1>2 DEF TypeOK, TotalsNat, Monus
<1>4. o \in Orders
  BY <1>1, <1>2, <1>3 DEF Considered, Orders
<1>5. o.reserve <= total_unstake_claims
  BY <1>2 DEF TypeOK, TotalsNat, ReserveWithinClaims, ExtraOf, Monus
<1>6. o.reserve + o.stake = retrieved_for_unstake_claims + amount + stake
  BY <1>1, <1>2 DEF TypeOK, TotalsNat
<1>7. ASSUME NEW w \in Nat,
             total_unstake_claims + unstaked_for_rebalance
               <= retrieved_for_unstake_claims + amount + w
      PROVE  total_unstake_claims + o.rebal <= o.reserve + w
  BY <1>2, <1>7 DEF TypeOK, TotalsNat, ReserveWithinClaims, ExtraOf, Monus
<1> HIDE DEF o
<1> QED
  BY <1>2, <1>4, <1>5, <1>6, <1>7 DEF o

(* The clearing keeps the orders safe.                                     *)
LEMMA ClearedSafe ==
  ASSUME IInv, ~contract_busy
  PROVE  SafeOrders(Cleared)
<1>1. SafeOrders(CurrentOrders)
  BY NotBusy
<1>2. CASE ToKeep = 0
  BY <1>1, <1>2 DEF Cleared
<1>3. CASE ToKeep # 0
  <2> DEFINE stake == epoch_stake_orders - ToKeep
             unstake == epoch_unstake_orders - ToKeep
             o == Considered(ToKeep, stake, unstake)
  <2>1. ToKeep \in Nat /\ stake \in Nat /\ unstake \in Nat
    BY DEF IInv, TypeOK, TotalsNat, ToKeep, Lesser
  <2>2. Cleared = o
    BY <1>3 DEF Cleared
  <2> HIDE DEF stake, unstake, o
  <2>3. /\ o \in Orders
        /\ o.unstake = unstake
        /\ o.reserve + o.stake = retrieved_for_unstake_claims + ToKeep + stake
        /\ o.reserve <= total_unstake_claims
        /\ \A w \in Nat :
             total_unstake_claims + unstaked_for_rebalance
                 <= retrieved_for_unstake_claims + ToKeep + w
               => total_unstake_claims + o.rebal <= o.reserve + w
    BY <2>1, ConsideredSplits DEF IInv, o
  <2>4. total_unstaked_and_waiting + unstake \in Nat
    BY <2>1 DEF IInv, TypeOK, TotalsNat
  <2>5. total_unstake_claims + unstaked_for_rebalance
          <= retrieved_for_unstake_claims + ToKeep + (total_unstaked_and_waiting + unstake)
    BY <1>1, <2>1 DEF IInv, TypeOK, TotalsNat, SafeOrders, CurrentOrders, unstake
  <2>6. total_unstake_claims + o.rebal <= o.reserve + (total_unstaked_and_waiting + unstake)
    BY <2>3, <2>4, <2>5
  <2>7. total_available + o.reserve + o.stake <= contract_account_balance
    BY <1>1, <2>1, <2>3 DEF IInv, TypeOK, TotalsNat, SafeOrders, CurrentOrders, Orders, stake
  <2>8. total_unstake_claims + o.rebal <= o.reserve + total_unstaked_and_waiting + o.unstake
    BY <2>3, <2>6, <2>1 DEF IInv, TypeOK, TotalsNat, Orders
  <2> QED
    BY <2>2, <2>3, <2>7, <2>8 DEF SafeOrders
<1> QED
  BY <1>2, <1>3

-----------------------------------------------------------------------------
(* Accounts that are opened and closed.                                    *)

(* One account more is one deposit more.                                   *)
LEMMA OneMore ==
  ASSUME NEW n \in Nat
  PROVE  (n + 1) * STORAGE_COST_YOCTOS = n * STORAGE_COST_YOCTOS + STORAGE_COST_YOCTOS
  BY ThresholdsAssumption

LEMMA StorageNat ==
  ASSUME registered \in Nat
  PROVE  StorageDeposits \in Nat /\ STORAGE_COST_YOCTOS \in Nat
  BY ThresholdsAssumption DEF StorageDeposits

LEMMA OpensNat ==
  ASSUME registered \in Nat, NEW n \in Nat, OpensUnpaid(n)
  PROVE  registered' \in Nat /\ registered <= registered'
<1>1. PICK k \in 0..n : registered' = registered + k
  BY DEF OpensUnpaid, Opened
<1> QED
  BY <1>1

(* A deposit is booked, and what a new account pays for its storage comes  *)
(* on top of it.                                                           *)
LEMMA DepositedPays ==
  ASSUME TotalsNat, NEW a \in Nat, Deposited(a)
  PROVE  /\ contract_account_balance' = contract_account_balance + a
         /\ registered' \in Nat /\ env_balance' \in Nat
         /\ env_balance' + StorageDeposits = env_balance + a + StorageDeposits'
<1>1. PICK k \in 0..1 : /\ registered' = registered + k
                        /\ env_balance' = env_balance + a + k * STORAGE_COST_YOCTOS
  BY DEF Deposited, Opened
<1>2. registered \in Nat /\ env_balance \in Nat /\ STORAGE_COST_YOCTOS \in Nat
  BY ThresholdsAssumption DEF TotalsNat
<1>3. CASE k = 0
  <2>1. k * STORAGE_COST_YOCTOS = 0
    BY <1>2, <1>3
  <2>2. registered' = registered /\ env_balance' = env_balance + a
    BY <1>1, <1>2, <1>3, <2>1
  <2> QED
    BY <1>2, <2>2, StorageNat DEF Deposited, StorageDeposits
<1>4. CASE k = 1
  <2>1. k * STORAGE_COST_YOCTOS = STORAGE_COST_YOCTOS
    BY <1>2, <1>4
  <2>2. registered' = registered + 1 /\ env_balance' = env_balance + a + STORAGE_COST_YOCTOS
    BY <1>1, <1>4, <2>1
  <2>3. StorageDeposits' = StorageDeposits + STORAGE_COST_YOCTOS
    BY <1>2, <2>2, OneMore DEF StorageDeposits
  <2> QED
    BY <1>2, <2>2, <2>3, StorageNat DEF Deposited
<1> QED
  BY <1>3, <1>4

(* The calls of empty_nep_145.rs: the NEAR in the account changes with the *)
(* deposits, unless an account is reopened unpaid.                         *)
LEMMA StorageCallsPay ==
  ASSUME TotalsNat, StorageCalls
  PROVE  /\ storageStepUnchanged /\ registered' \in Nat /\ env_balance' \in Nat
         /\ \/ env_balance' + StorageDeposits = env_balance + StorageDeposits'
            \/ RefundReopens
<1>1. registered \in Nat /\ env_balance \in Nat /\ STORAGE_COST_YOCTOS \in Nat
  BY ThresholdsAssumption DEF TotalsNat
<1>2. CASE StorageDeposit
  <2>1. registered' = registered + 1 /\ env_balance' = env_balance + STORAGE_COST_YOCTOS
    BY <1>2 DEF StorageDeposit, Opened
  <2>2. StorageDeposits' = StorageDeposits + STORAGE_COST_YOCTOS
    BY <1>1, <2>1, OneMore DEF StorageDeposits
  <2> QED
    BY <1>1, <1>2, <2>1, <2>2, StorageNat DEF StorageDeposit
<1>3. CASE StorageUnregister
  <2>1. /\ registered' = registered - 1 /\ registered' \in Nat
        /\ env_balance' = env_balance - STORAGE_COST_YOCTOS /\ env_balance' \in Nat
    BY <1>1, <1>3 DEF StorageUnregister
  <2>2. registered = registered' + 1
    BY <1>1, <2>1
  <2>3. StorageDeposits = StorageDeposits' + STORAGE_COST_YOCTOS
    BY <2>1, <2>2, OneMore DEF StorageDeposits
  <2>4. StorageDeposits \in Nat /\ StorageDeposits' \in Nat
    BY <1>1, <2>1 DEF StorageDeposits
  <2> QED
    BY <1>1, <1>3, <2>1, <2>3, <2>4 DEF StorageUnregister
<1>4. CASE RefundReopens
  BY <1>1, <1>4 DEF RefundReopens, Opened
<1> QED
  BY <1>2, <1>3, <1>4 DEF StorageCalls

-----------------------------------------------------------------------------
(* Calls that leave locks, pools and promises alone.                       *)

(* Nothing the lock discipline reads changes.                              *)
LEMMA LocksKept ==
  ASSUME LockDiscipline, UNCHANGED listVars
  PROVE  LockDiscipline'
BY DEF LockDiscipline, InFlight, listVars

(* The user calls keep the invariant.                                      *)
LEMMA UserCallsSafe ==
  ASSUME IInv, UserCalls
  PROVE  IInv'
<1> USE DEF IInv
<1> PICK a \in Amounts :
       \/ \E v \in 0..a : DepositAndStake(a, v)
       \/ Unstake(a)
       \/ WithdrawUnstaked(a)
       \/ NslpAddLiquidity(a)
       \/ PayFromLiquidityPool(a)
       \/ StakeFromNslp(a)
  BY DEF UserCalls
<1> a \in Nat \ {0}
  BY SetsAssumption
<1> SUFFICES /\ UNCHANGED <<listVars, total_unstaked_and_waiting, unstaked_for_rebalance>>
             /\ TypeOK' /\ ClaimsCovered' /\ Solvency' /\ ReserveWithinClaims'
  BY LocksKept DEF IInv
<1>1. ASSUME NEW v \in 0..a, DepositAndStake(a, v)
      PROVE  /\ UNCHANGED <<listVars, total_unstaked_and_waiting, unstaked_for_rebalance>>
             /\ TypeOK' /\ ClaimsCovered' /\ Solvency' /\ ReserveWithinClaims'
  <2>0. /\ contract_account_balance' = contract_account_balance + a
        /\ registered' \in Nat /\ env_balance' \in Nat
    BY <1>1, DepositedPays DEF DepositAndStake, TypeOK
  <2> USE <1>1, <2>0 DEF DepositAndStake, listVars, stakeVars, worldVars
  <2>1. TypeOK'
    BY DEF TypeOK, TotalsNat
  <2>2. ClaimsCovered'
    BY DEF ClaimsCovered, Owed, Coming
  <2>3. Solvency'
    BY DEF TypeOK, TotalsNat, Solvency, Booked, Promises
  <2>4. ReserveWithinClaims'
    BY DEF ReserveWithinClaims
  <2> QED
    BY <2>1, <2>2, <2>3, <2>4
<1>2. ASSUME Unstake(a)
      PROVE  /\ UNCHANGED <<listVars, total_unstaked_and_waiting, unstaked_for_rebalance>>
             /\ TypeOK' /\ ClaimsCovered' /\ Solvency' /\ ReserveWithinClaims'
  <2> USE <1>2 DEF Unstake, listVars, stakeVars, moneyVars, worldVars
  <2>1. TypeOK'
    BY DEF TypeOK, TotalsNat
  <2>2. ClaimsCovered'
    BY NotBusy DEF TypeOK, TotalsNat, ClaimsCovered, Owed, Coming, SafeOrders, CurrentOrders
  <2>3. Solvency'
    BY DEF Solvency, Booked
  <2>4. ReserveWithinClaims'
    BY DEF TypeOK, TotalsNat, ReserveWithinClaims
  <2> QED
    BY <2>1, <2>2, <2>3, <2>4
<1>3. ASSUME WithdrawUnstaked(a)
      PROVE  /\ UNCHANGED <<listVars, total_unstaked_and_waiting, unstaked_for_rebalance>>
             /\ TypeOK' /\ ClaimsCovered' /\ Solvency' /\ ReserveWithinClaims'
  <2> USE <1>3 DEF WithdrawUnstaked, NativeTransfer, listVars, stakeVars, worldVars
  <2>1. TypeOK'
    BY DEF TypeOK, TotalsNat
  <2>2. ClaimsCovered'
    <3>1. CASE Owed <= Coming
      BY <3>1 DEF TypeOK, TotalsNat, ClaimsCovered, Owed, Coming
    <3>2. CASE \E p \in promises : p.kind = "unstake" /\ Owed <= Coming + p.amount
      <4> PICK p \in promises : p.kind = "unstake" /\ Owed <= Coming + p.amount
        BY <3>2
      <4> p.amount \in Nat
        BY DEF TypeOK, TotalsNat, Promises
      <4>1. Owed' <= (Coming + p.amount)'
        BY DEF TypeOK, TotalsNat, Owed, Coming
      <4> QED
        BY <4>1 DEF ClaimsCovered
    <3> QED
      BY <3>1, <3>2 DEF ClaimsCovered
  <2>3. Solvency'
    BY DEF TypeOK, TotalsNat, Solvency, Booked, Promises
  <2>4. ReserveWithinClaims'
    BY DEF TypeOK, TotalsNat, ReserveWithinClaims
  <2> QED
    BY <2>1, <2>2, <2>3, <2>4
<1>4. ASSUME NslpAddLiquidity(a)
      PROVE  /\ UNCHANGED <<listVars, total_unstaked_and_waiting, unstaked_for_rebalance>>
             /\ TypeOK' /\ ClaimsCovered' /\ Solvency' /\ ReserveWithinClaims'
  <2>0. /\ contract_account_balance' = contract_account_balance + a
        /\ registered' \in Nat /\ env_balance' \in Nat
    BY <1>4, DepositedPays DEF NslpAddLiquidity, TypeOK
  <2> USE <1>4, <2>0 DEF NslpAddLiquidity, orderVars, listVars, stakeVars, worldVars
  <2>1. TypeOK'
    BY DEF TypeOK, TotalsNat
  <2>2. ClaimsCovered'
    BY DEF ClaimsCovered, Owed, Coming
  <2>3. Solvency'
    BY DEF TypeOK, TotalsNat, Solvency, Booked, Promises
  <2>4. ReserveWithinClaims'
    BY DEF ReserveWithinClaims
  <2> QED
    BY <2>1, <2>2, <2>3, <2>4
<1>5. ASSUME PayFromLiquidityPool(a)
      PROVE  /\ UNCHANGED <<listVars, total_unstaked_and_waiting, unstaked_for_rebalance>>
             /\ TypeOK' /\ ClaimsCovered' /\ Solvency' /\ ReserveWithinClaims'
  <2>0. registered' \in Nat
    BY <1>5, OpensNat DEF PayFromLiquidityPool, TypeOK, TotalsNat
  <2> USE <1>5, <2>0 DEF PayFromLiquidityPool, NativeTransfer, orderVars, listVars, stakeVars,
                         worldVars
  <2>1. TypeOK'
    BY DEF TypeOK, TotalsNat
  <2>2. ClaimsCovered'
    BY DEF ClaimsCovered, Owed, Coming
  <2>3. Solvency'
    BY DEF TypeOK, TotalsNat, Solvency, Booked, Promises
  <2>4. ReserveWithinClaims'
    BY DEF ReserveWithinClaims
  <2> QED
    BY <2>1, <2>2, <2>3, <2>4
<1>6. ASSUME StakeFromNslp(a)
      PROVE  /\ UNCHANGED <<listVars, total_unstaked_and_waiting, unstaked_for_rebalance>>
             /\ TypeOK' /\ ClaimsCovered' /\ Solvency' /\ ReserveWithinClaims'
  <2> USE <1>6 DEF StakeFromNslp, listVars, stakeVars, moneyVars, worldVars
  <2>1. TypeOK'
    BY DEF TypeOK, TotalsNat
  <2>2. ClaimsCovered'
    BY DEF ClaimsCovered, Owed, Coming
  <2>3. Solvency'
    BY DEF TypeOK, TotalsNat, Solvency, Booked, Promises
  <2>4. ReserveWithinClaims'
    BY DEF ReserveWithinClaims
  <2> QED
    BY <2>1, <2>2, <2>3, <2>4
<1> QED
  BY <1>1, <1>2, <1>3, <1>4, <1>5, <1>6

-----------------------------------------------------------------------------
(* Calls that lock a pool and send a promise.                              *)

(* Records and promises have their types.                                  *)
LEMMA PoolTyped ==
  ASSUME TypeOK, NEW i \in DOMAIN staking_pools
  PROVE  /\ i \in Nat
         /\ staking_pools[i] \in PoolInfo
         /\ staking_pools[i].account_id \in PoolIds
         /\ staking_pools[i].staked \in Nat
         /\ staking_pools[i].unstaked \in Nat
<1>1. i \in Nat /\ staking_pools[i] \in PoolInfo
  BY DEF TypeOK, TotalsNat
<1> QED
  BY <1>1 DEF PoolInfo

LEMMA PromiseTyped ==
  ASSUME TypeOK, NEW p \in promises
  PROVE  /\ p \in Promises
         /\ p.kind \in CallKinds /\ p.stage \in Stages
         /\ p.amount \in Nat /\ p.rebalance \in Nat /\ p.answer \in Nat
BY DEF TypeOK, TotalsNat, Promises

(* A replaced record of the list.                                          *)
LEMMA RecordReplaced ==
  ASSUME NEW i \in DOMAIN staking_pools, NEW sp \in PoolInfo, TypeOK,
         staking_pools' = [staking_pools EXCEPT ![i] = sp]
  PROVE  /\ staking_pools' \in Seq(PoolInfo)
         /\ DOMAIN staking_pools' = DOMAIN staking_pools
         /\ staking_pools'[i] = sp
         /\ \A j \in DOMAIN staking_pools : j # i => staking_pools'[j] = staking_pools[j]
BY DEF TypeOK, TotalsNat

(* The call is alone in flight, with both locks.                           *)
LEMMA LockAndSendSafe ==
  ASSUME TypeOK, InFlight = {}, NEW call \in Promises, LockAndSend(call),
         call.kind # "unstaked_balance",
         call.inx \in DOMAIN staking_pools,
         staking_pools[call.inx].account_id = call.pool,
         call.kind = "unstake" => staking_pools[call.inx].staked >= call.amount + call.rebalance,
         call.kind = "stake" => staking_pools[call.inx].unstaked >= call.amount
  PROVE  /\ LockDiscipline'
         /\ contract_busy' \in BOOLEAN /\ UNCHANGED staking_paused
         /\ staking_pools' \in Seq(PoolInfo)
         /\ promises' = promises \cup {call} /\ promises' \subseteq Promises
<1> DEFINE sp == [staking_pools[call.inx] EXCEPT !.busy_lock = TRUE]
<1>1. staking_pools[call.inx] \in PoolInfo
  BY PoolTyped
<1>2. sp \in PoolInfo
  BY <1>1 DEF PoolInfo
<1>3. staking_pools' = [staking_pools EXCEPT ![call.inx] = sp]
  BY DEF LockAndSend
<1>4. /\ sp.account_id = staking_pools[call.inx].account_id
      /\ sp.staked = staking_pools[call.inx].staked
      /\ sp.unstaked = staking_pools[call.inx].unstaked
      /\ sp.busy_lock
  BY <1>1 DEF PoolInfo
<1> HIDE DEF sp
<1>5. /\ staking_pools' \in Seq(PoolInfo)
      /\ DOMAIN staking_pools' = DOMAIN staking_pools
      /\ staking_pools'[call.inx] = sp
  BY <1>2, <1>3, RecordReplaced
<1>6. promises' = promises \cup {call} /\ promises' \subseteq Promises
  BY DEF LockAndSend, Send, TypeOK, TotalsNat
<1>7. InFlight' = {call}
  BY <1>6 DEF InFlight
<1>8. contract_busy' /\ UNCHANGED staking_paused
  BY DEF LockAndSend
<1>9. LockDiscipline'
  <2> USE <1>7 DEF LockDiscipline
  <2>1. \A p, q \in InFlight' : p = q
    OBVIOUS
  <2>2. /\ call.inx \in DOMAIN staking_pools'
        /\ staking_pools'[call.inx].account_id = call.pool
        /\ staking_pools'[call.inx].busy_lock
        /\ call.kind = "unstake" =>
             staking_pools'[call.inx].staked >= call.amount + call.rebalance
        /\ call.kind = "stake" => staking_pools'[call.inx].unstaked >= call.amount
    BY <1>4, <1>5
  <2> QED
    BY <1>8, <2>1, <2>2
<1> QED
  BY <1>5, <1>6, <1>8, <1>9 DEF TypeOK, TotalsNat

(* A call of pool i is a promise of the right pool.                        *)
LEMMA CallTyped ==
  ASSUME TypeOK, NEW kind \in CallKinds, NEW i \in DOMAIN staking_pools,
         NEW amount \in Nat, NEW rebalance \in Nat
  PROVE  LET call == Call(kind, i, amount, rebalance) IN
         /\ call \in Promises
         /\ call.kind = kind /\ call.inx = i /\ call.stage = "sent"
         /\ call.pool = staking_pools[i].account_id
         /\ call.amount = amount /\ call.rebalance = rebalance
<1>1. staking_pools[i].account_id \in PoolIds /\ i \in Nat
  BY PoolTyped
<1>2. Call(kind, i, amount, rebalance) \in Promises
  BY <1>1 DEF Call, Promises, Stages
<1> QED
  BY <1>2 DEF Call

(* A stake is sent with no more than the safe orders have.                 *)
LEMMA LaunchDirectStakeSafe ==
  ASSUME IInv, ~contract_busy, NEW i \in DOMAIN staking_pools,
         NEW STATE requested, requested \in Nat, NEW STATE o, SafeOrders(o), requested <= o.stake,
         LaunchDirectStake(i, requested, o)
  PROVE  IInv'
<1> USE DEF IInv
<1> DEFINE sp       == staking_pools[i]
           restakes == sp.unstaked >= TEN_NEAR
           amount   == IF restakes THEN Lesser(requested, sp.unstaked) ELSE requested
           kind     == IF restakes THEN "stake" ELSE "deposit_and_stake"
           call     == Call(kind, i, amount, 0)
<1>1. sp.unstaked \in Nat
  BY PoolTyped
<1>2. /\ amount \in Nat /\ amount <= requested
      /\ restakes => amount <= sp.unstaked
  BY <1>1, ThresholdsAssumption DEF Lesser
<1>3. /\ call \in Promises
      /\ call.kind = kind /\ call.inx = i
      /\ call.pool = sp.account_id /\ call.amount = amount
  BY <1>2, CallTyped DEF CallKinds
<1>4. LockAndSend(call)
  BY DEF LaunchDirectStake
<1>5. InFlight = {}
  BY NotBusy
<1>6. call.kind \notin {"unstaked_balance", "unstake"}
  BY <1>3
<1>7. call.kind = "stake" => sp.unstaked >= call.amount
  BY <1>1, <1>2, <1>3
<1> HIDE DEF call
<1>8. /\ LockDiscipline'
      /\ contract_busy' \in BOOLEAN /\ UNCHANGED staking_paused
      /\ staking_pools' \in Seq(PoolInfo)
      /\ promises' = promises \cup {call} /\ promises' \subseteq Promises
  BY <1>3, <1>4, <1>5, <1>6, <1>7, LockAndSendSafe
<1>9. /\ total_actually_staked' = total_actually_staked + amount
      /\ UNCHANGED <<userVars, total_unstaked_and_waiting,
                     contract_account_balance, worldVars>>
      /\ env_balance' = IF restakes THEN env_balance ELSE env_balance - amount
      /\ ~restakes => env_balance >= MIN_BALANCE_FOR_STORAGE + amount
  BY DEF LaunchDirectStake
<1>15. SetOrders([o EXCEPT !.stake = @ - amount])
  BY DEF LaunchDirectStake, StakeLaunched
<1> HIDE DEF amount, restakes, kind
<1>10. /\ epoch_stake_orders' = o.stake - amount
       /\ epoch_unstake_orders' = o.unstake
       /\ retrieved_for_unstake_claims' = o.reserve
       /\ unstaked_for_rebalance' = o.rebal
       /\ o.stake \in Nat /\ o.unstake \in Nat /\ o.reserve \in Nat /\ o.rebal \in Nat
  BY <1>15 DEF SetOrders, SafeOrders, Orders
<1>0. TotalsNat /\ MIN_BALANCE_FOR_STORAGE \in Nat
  BY ThresholdsAssumption DEF TypeOK
<1>16. TotalsNat'
  BY <1>0, <1>2, <1>9, <1>10 DEF TotalsNat, userVars, worldVars
<1>11. TypeOK'
  BY <1>8, <1>9, <1>16 DEF TypeOK, worldVars
<1>12. ClaimsCovered'
  BY <1>9, <1>10 DEF TypeOK, TotalsNat, ClaimsCovered, Owed, Coming, SafeOrders, userVars
<1>13. Solvency'
  <2>1. Booked' + amount <= contract_account_balance'
    BY <1>0, <1>2, <1>9, <1>10 DEF TotalsNat, Booked, SafeOrders, userVars
  <2>2. \A p \in promises' : p.kind \in {"deposit_and_stake", "stake"} => p.amount = amount
    BY <1>3, <1>5, <1>8 DEF InFlight
  <2>3. Booked' <= contract_account_balance'
    BY <1>0, <1>2, <1>9, <1>10 DEF TotalsNat, Booked, SafeOrders, userVars
  <2> QED
    BY <2>1, <2>2, <2>3 DEF Solvency
<1>14. ReserveWithinClaims'
  BY <1>9, <1>10 DEF ReserveWithinClaims, SafeOrders, userVars
<1> QED
  BY <1>8, <1>11, <1>12, <1>13, <1>14

(* An unstake is sent with no more than the unstake orders.                *)
LEMMA PerformUnstakeSafe ==
  ASSUME IInv, ~contract_busy, NEW i \in DOMAIN staking_pools,
         NEW STATE from_orders, from_orders \in Nat,
         NEW STATE from_rebalance, from_rebalance \in Nat, NEW STATE o, SafeOrders(o), from_orders <= o.unstake,
         PerformUnstake(i, from_orders, from_rebalance, o)
  PROVE  IInv'
<1> USE DEF IInv
<1> DEFINE call == Call("unstake", i, from_orders, from_rebalance)
<1>1. /\ call \in Promises
      /\ call.kind = "unstake" /\ call.inx = i
      /\ call.pool = staking_pools[i].account_id
      /\ call.amount = from_orders /\ call.rebalance = from_rebalance
  BY CallTyped DEF CallKinds
<1>2. /\ LockAndSend(call)
      /\ total_actually_staked >= from_orders + from_rebalance
      /\ total_actually_staked' = total_actually_staked - (from_orders + from_rebalance)
      /\ staking_pools[i].staked >= from_orders + from_rebalance
      /\ UNCHANGED <<userVars, total_unstaked_and_waiting, moneyVars, worldVars>>
  BY DEF PerformUnstake
<1>10. SetOrders([o EXCEPT !.unstake = @ - from_orders])
  BY DEF PerformUnstake
<1>3. InFlight = {}
  BY NotBusy
<1> HIDE DEF call
<1>4. /\ LockDiscipline'
      /\ contract_busy' \in BOOLEAN /\ UNCHANGED staking_paused
      /\ staking_pools' \in Seq(PoolInfo)
      /\ promises' = promises \cup {call} /\ promises' \subseteq Promises
  BY <1>1, <1>2, <1>3, LockAndSendSafe
<1>5. /\ epoch_stake_orders' = o.stake
      /\ epoch_unstake_orders' = o.unstake - from_orders
      /\ retrieved_for_unstake_claims' = o.reserve
      /\ unstaked_for_rebalance' = o.rebal
      /\ o.stake \in Nat /\ o.unstake \in Nat /\ o.reserve \in Nat /\ o.rebal \in Nat
  BY <1>10 DEF SetOrders, SafeOrders, Orders
<1>0. TotalsNat
  BY DEF TypeOK
<1>6. TypeOK'
  <2>1. total_actually_staked' \in Nat
    BY <1>0, <1>2 DEF TotalsNat
  <2>2. /\ epoch_stake_orders' \in Nat /\ epoch_unstake_orders' \in Nat
        /\ retrieved_for_unstake_claims' \in Nat /\ unstaked_for_rebalance' \in Nat
    BY <1>5
  <2>3. TotalsNat'
    BY <1>0, <1>2, <2>1, <2>2 DEF TotalsNat, userVars, moneyVars, worldVars
  <2> QED
    BY <1>2, <1>4, <2>3 DEF TypeOK, worldVars
<1>7. ClaimsCovered'
  <2>1. Owed' <= Coming' + from_orders
    BY <1>0, <1>2, <1>5 DEF TotalsNat, Owed, Coming, SafeOrders, userVars
  <2>2. call \in promises'
    BY <1>4
  <2> QED
    BY <1>1, <2>1, <2>2 DEF ClaimsCovered
<1>8. Solvency'
  <2>1. Booked' <= contract_account_balance'
    BY <1>2, <1>5 DEF TypeOK, TotalsNat, Booked, SafeOrders, userVars, moneyVars
  <2>2. \A p \in promises' : p.kind \notin {"deposit_and_stake", "stake"}
    BY <1>1, <1>3, <1>4 DEF InFlight
  <2> QED
    BY <2>1, <2>2 DEF Solvency
<1>9. ReserveWithinClaims'
  BY <1>2, <1>5 DEF ReserveWithinClaims, SafeOrders, userVars
<1> QED
  BY <1>4, <1>6, <1>7, <1>8, <1>9

(* A view or a retrieval is sent, and nothing else changes.                *)
LEMMA ViewSentSafe ==
  ASSUME IInv, ~contract_busy, NEW i \in DOMAIN staking_pools,
         NEW kind \in {"total_balance", "withdraw_all"},
         LockAndSend(Call(kind, i, 0, 0)), booksUnchanged
  PROVE  IInv'
<1> USE DEF IInv
<1> DEFINE call == Call(kind, i, 0, 0)
<1>1. /\ call \in Promises
      /\ call.kind = kind /\ call.inx = i
      /\ call.pool = staking_pools[i].account_id
  BY CallTyped DEF CallKinds
<1>2. InFlight = {} /\ SafeOrders(CurrentOrders)
  BY NotBusy
<1> HIDE DEF call
<1>3. /\ LockDiscipline'
      /\ contract_busy' \in BOOLEAN /\ UNCHANGED staking_paused
      /\ staking_pools' \in Seq(PoolInfo)
      /\ promises' = promises \cup {call} /\ promises' \subseteq Promises
  BY <1>1, <1>2, LockAndSendSafe DEF call
<1> USE DEF booksUnchanged, orderVars, userVars, stakeVars, moneyVars, worldVars
<1>4. TypeOK'
  BY <1>3 DEF TypeOK, TotalsNat
<1>5. ClaimsCovered'
  BY <1>2 DEF ClaimsCovered, Owed, Coming, SafeOrders, CurrentOrders
<1>6. Solvency'
  <2>1. \A p \in promises' : p.kind \notin {"deposit_and_stake", "stake"}
    BY <1>1, <1>2, <1>3 DEF InFlight
  <2> QED
    BY <1>2, <2>1 DEF Solvency, Booked, SafeOrders, CurrentOrders
<1>7. ReserveWithinClaims'
  BY DEF ReserveWithinClaims
<1> QED
  BY <1>3, <1>4, <1>5, <1>6, <1>7

(* The clearing alone.                                                     *)
LEMMA OnlyClearingSafe ==
  ASSUME IInv, ~contract_busy, OnlyClearing
  PROVE  IInv'
<1> USE DEF IInv
<1> DEFINE o == Cleared
<1>1. SafeOrders(o)
  BY ClearedSafe
<1>2. InFlight = {}
  BY NotBusy
<1>3. /\ SetOrders(o)
      /\ UNCHANGED <<userVars, stakeVars, moneyVars, listVars, worldVars>>
  BY DEF OnlyClearing
<1> HIDE DEF o
<1>4. /\ epoch_stake_orders' = o.stake
      /\ epoch_unstake_orders' = o.unstake
      /\ retrieved_for_unstake_claims' = o.reserve
      /\ unstaked_for_rebalance' = o.rebal
      /\ o.stake \in Nat /\ o.unstake \in Nat /\ o.reserve \in Nat /\ o.rebal \in Nat
  BY <1>1, <1>3 DEF SetOrders, SafeOrders, Orders
<1> USE <1>3, <1>4 DEF userVars, stakeVars, moneyVars, listVars, worldVars
<1>5. TypeOK'
  BY DEF TypeOK, TotalsNat
<1>6. LockDiscipline'
  BY LocksKept
<1>7. ClaimsCovered'
  BY <1>1 DEF ClaimsCovered, Owed, Coming, SafeOrders
<1>8. Solvency'
  <2>1. \A p \in promises' : p.kind \notin {"deposit_and_stake", "stake"}
    BY <1>2 DEF InFlight
  <2> QED
    BY <1>1, <2>1 DEF TypeOK, TotalsNat, Solvency, Booked, SafeOrders
<1>9. ReserveWithinClaims'
  BY <1>1 DEF ReserveWithinClaims, SafeOrders
<1> QED
  BY <1>5, <1>6, <1>7, <1>8, <1>9

(* What the searches compute are amounts.                                  *)
LEMMA SearchNat ==
  ASSUME TypeOK, NEW i \in DOMAIN staking_pools
  PROVE  /\ ShouldHave(staking_pools[i]) \in Nat
         /\ Requires(i) \in Nat /\ Surplus(i) \in Nat
         /\ MaxUnstakeForRebalance \in Nat
<1>1. /\ staking_pools[i].weight_basis_points \in Nat
      /\ staking_pools[i].staked \in Nat
      /\ total_for_staking \in Nat
      /\ CAP_BP \in Nat
  BY PoolTyped, ThresholdsAssumption DEF TypeOK, TotalsNat, PoolInfo
<1>2. ShouldHave(staking_pools[i]) \in Nat
  BY <1>1, ApplyPctNat DEF ShouldHave
<1>3. MaxUnstakeForRebalance \in Nat
  BY <1>1, ApplyPctNat DEF MaxUnstakeForRebalance
<1>4. Requires(i) \in Nat
  BY <1>1, <1>2, MonusNat DEF Requires
<1>5. Surplus(i) \in Nat
  BY <1>1, <1>2, MonusNat DEF Surplus
<1> QED
  BY <1>2, <1>3, <1>4, <1>5

(* The heartbeat calls keep the invariant.                                 *)
LEMMA HeartbeatCallsSafe ==
  ASSUME IInv, HeartbeatCalls
  PROVE  IInv'
<1> USE DEF IInv
<1>1. CASE DistributeStaking
  <2>1. ~contract_busy /\ total_for_staking > total_actually_staked
    BY <1>1 DEF DistributeStaking
  <2>2. CASE OnlyClearing
    BY <2>1, <2>2, OnlyClearingSafe
  <2>3. ASSUME NEW i \in DOMAIN staking_pools,
               LaunchDirectStake(i, Lesser(ToStake, Requires(i)), Cleared)
        PROVE  IInv'
    <3> DEFINE requested == Lesser(ToStake, Requires(i))
    <3>1. SafeOrders(Cleared) /\ Cleared.stake \in Nat
      BY <2>1, ClearedSafe DEF SafeOrders, Orders
    <3>2. total_for_staking - total_actually_staked \in Nat
      BY <2>1 DEF TypeOK, TotalsNat
    <3>3. requested \in Nat /\ requested <= Cleared.stake
      BY <3>1, <3>2, SearchNat DEF ToStake, Lesser
    <3> HIDE DEF requested
    <3> QED
      BY <2>1, <2>3, <3>1, <3>3, LaunchDirectStakeSafe DEF requested
  <2> QED
    BY <1>1, <2>2, <2>3 DEF DistributeStaking
<1>2. CASE DistributeUnstaking
  <2>1. ~contract_busy
    BY <1>2 DEF DistributeUnstaking
  <2>2. CASE OnlyClearing
    BY <2>1, <2>2, OnlyClearingSafe
  <2>3. ASSUME NEW i \in DOMAIN staking_pools,
               PerformUnstake(i, FromOrders(i), FromRebalance(i), Cleared)
        PROVE  IInv'
    <3>1. SafeOrders(Cleared) /\ Cleared.unstake \in Nat /\ Cleared.rebal \in Nat
      BY <2>1, ClearedSafe DEF SafeOrders, Orders
    <3>2. Surplus(i) \in Nat /\ MaxUnstakeForRebalance \in Nat
      BY SearchNat
    <3>3. FromOrders(i) \in Nat /\ FromOrders(i) <= Cleared.unstake
      BY <3>1, <3>2 DEF FromOrders, Lesser
    <3>4. FromRebalance(i) \in Nat
      <4>1. Monus(MaxUnstakeForRebalance, Cleared.rebal) \in Nat
        BY <3>1, <3>2, MonusNat
      <4>2. Surplus(i) > Cleared.unstake => Surplus(i) - Cleared.unstake \in Nat
        BY <3>1, <3>2
      <4> QED
        BY <4>1, <4>2 DEF FromRebalance, Lesser
    <3> QED
      BY <2>1, <2>3, <3>1, <3>3, <3>4, PerformUnstakeSafe
  <2> QED
    BY <1>2, <2>2, <2>3 DEF DistributeUnstaking
<1>3. CASE EndOfEpochClearing
  BY <1>3, OnlyClearingSafe DEF EndOfEpochClearing
<1>4. CASE DoRebalanceUnstake
  <2> DEFINE left == Monus(MaxUnstakeForRebalance, unstaked_for_rebalance)
  <2>1. PICK i \in DOMAIN staking_pools :
           PerformUnstake(i, 0, Lesser(Surplus(i), left), CurrentOrders)
    BY <1>4 DEF DoRebalanceUnstake
  <2>2. ~contract_busy
    BY <1>4 DEF DoRebalanceUnstake
  <2>3. Lesser(Surplus(i), left) \in Nat
    BY SearchNat, MonusNat DEF TypeOK, TotalsNat, Lesser
  <2>4. SafeOrders(CurrentOrders) /\ 0 <= CurrentOrders.unstake
    BY <2>2, NotBusy DEF SafeOrders, Orders
  <2> HIDE DEF left
  <2> QED
    BY <2>1, <2>2, <2>3, <2>4, PerformUnstakeSafe
<1>5. ASSUME NEW i \in DOMAIN staking_pools, NEW a \in Amounts, ManualStake(i, a)
      PROVE  IInv'
  <2>1. /\ ~contract_busy /\ a <= epoch_stake_orders
        /\ LaunchDirectStake(i, a, CurrentOrders)
    BY <1>5 DEF ManualStake
  <2>2. a \in Nat /\ SafeOrders(CurrentOrders) /\ a <= CurrentOrders.stake
    BY <2>1, NotBusy, SetsAssumption DEF CurrentOrders
  <2> QED
    BY <2>1, <2>2, LaunchDirectStakeSafe
<1>6. ASSUME NEW i \in DOMAIN staking_pools, NEW STATE cap, cap \in Nat, PerformRebalance(i, cap)
      PROVE  IInv'
  <2> DEFINE amount == Lesser(staking_pools[i].staked - ShouldHave(staking_pools[i]), cap)
  <2>1. /\ ~contract_busy
        /\ staking_pools[i].staked > ShouldHave(staking_pools[i])
        /\ PerformUnstake(i, 0, amount, CurrentOrders)
    BY <1>6 DEF PerformRebalance
  <2>2. amount \in Nat
    BY <1>6, <2>1, SearchNat, PoolTyped DEF Lesser
  <2>3. SafeOrders(CurrentOrders) /\ 0 <= CurrentOrders.unstake
    BY <2>1, NotBusy DEF SafeOrders, Orders
  <2> HIDE DEF amount
  <2> QED
    BY <2>1, <2>2, <2>3, PerformUnstakeSafe
<1>7. ASSUME NEW i \in DOMAIN staking_pools, ForceRebalanceUnstake(i)
      PROVE  IInv'
  <2>1. total_for_staking \in Nat
    BY DEF TypeOK, TotalsNat
  <2> QED
    BY <1>6, <1>7, <2>1 DEF ForceRebalanceUnstake
<1>8. ASSUME NEW i \in DOMAIN staking_pools, RebalanceUnstakeSp(i)
      PROVE  IInv'
  <2> DEFINE cap == MaxUnstakeForRebalance - unstaked_for_rebalance
  <2>1. cap \in Nat
    BY <1>8, SearchNat, ThresholdsAssumption DEF RebalanceUnstakeSp, TypeOK, TotalsNat
  <2>2. PerformRebalance(i, cap)
    BY <1>8 DEF RebalanceUnstakeSp
  <2> HIDE DEF cap
  <2> QED
    BY <1>6, <2>1, <2>2
<1>9. ASSUME NEW i \in DOMAIN staking_pools, SyncUnstakedBalance(i)
      PROVE  IInv'
  <2> DEFINE call == Call("unstaked_balance", i, 0, 0)
  <2>1. /\ ~contract_busy
        /\ promises' = promises \cup {call}
        /\ UNCHANGED <<contract_busy, staking_paused, staking_pools>>
        /\ booksUnchanged
    BY <1>9 DEF SyncUnstakedBalance, Send
  <2>2. call \in Promises /\ call.kind = "unstaked_balance"
    BY CallTyped DEF CallKinds
  <2>3. InFlight = {} /\ SafeOrders(CurrentOrders)
    BY <2>1, NotBusy
  <2> HIDE DEF call
  <2>4. InFlight' = {}
    BY <2>1, <2>2, <2>3 DEF InFlight
  <2> USE <2>1 DEF booksUnchanged, orderVars, userVars, stakeVars, moneyVars, worldVars
  <2>5. TypeOK'
    BY <2>2 DEF TypeOK, TotalsNat
  <2>6. LockDiscipline'
    BY <2>4 DEF LockDiscipline
  <2>7. ClaimsCovered'
    BY <2>3 DEF ClaimsCovered, Owed, Coming, SafeOrders, CurrentOrders
  <2>8. Solvency'
    <3>1. \A p \in promises' : p.kind \notin {"deposit_and_stake", "stake"}
      BY <2>4 DEF InFlight
    <3> QED
      BY <2>3, <3>1 DEF Solvency, Booked, SafeOrders, CurrentOrders
  <2>9. ReserveWithinClaims'
    BY DEF ReserveWithinClaims
  <2> QED
    BY <2>5, <2>6, <2>7, <2>8, <2>9
<1>10. ASSUME NEW i \in DOMAIN staking_pools, DistributeRewards(i)
       PROVE  IInv'
  BY <1>10, ViewSentSafe DEF DistributeRewards
<1>11. ASSUME NEW i \in DOMAIN staking_pools, RetrieveFundsFromAPool(i)
       PROVE  IInv'
  BY <1>11, ViewSentSafe DEF RetrieveFundsFromAPool
<1> QED
  BY <1>1, <1>2, <1>3, <1>4, <1>5, <1>7, <1>8, <1>9, <1>10, <1>11 DEF HeartbeatCalls

-----------------------------------------------------------------------------
(* Steps of the pools.                                                     *)

(* An answered call is the same call to everybody: only its stage and its  *)
(* answer change, and the books do not.                                    *)
LEMMA AnswerSafe ==
  ASSUME IInv, NEW p \in promises, NEW stage \in Stages, NEW STATE answer, answer \in Nat,
         Answer(p, stage, answer), poolStepUnchanged
  PROVE  /\ promises' \subseteq Promises
         /\ LockDiscipline' /\ ClaimsCovered' /\ Solvency' /\ ReserveWithinClaims'
<1> USE DEF IInv
<1> DEFINE r == [p EXCEPT !.stage = stage, !.answer = answer]
<1>1. p \in Promises
  BY PromiseTyped
<1>2. r \in Promises
  BY <1>1 DEF Promises
<1>3. /\ r.kind = p.kind /\ r.inx = p.inx /\ r.pool = p.pool
      /\ r.amount = p.amount /\ r.rebalance = p.rebalance
  BY <1>1 DEF Promises
<1>4. promises' = (promises \ {p}) \cup {r}
  BY DEF Answer
<1> HIDE DEF r
<1> USE DEF poolStepUnchanged, orderVars, userVars, stakeVars
<1>5. promises' \subseteq Promises
  BY <1>2, <1>4 DEF TypeOK
<1>6. LockDiscipline'
  <2>1. ASSUME NEW x \in InFlight'
        PROVE  \E y \in InFlight :
                 /\ x.kind = y.kind /\ x.inx = y.inx /\ x.pool = y.pool
                 /\ x.amount = y.amount /\ x.rebalance = y.rebalance
                 /\ x = r => y = p
                 /\ x # r => y = x /\ y # p
    BY <1>3, <1>4 DEF InFlight
  <2>2. \A x, y \in InFlight' : x = y
    BY <2>1 DEF LockDiscipline
  <2>3. UNCHANGED <<contract_busy, staking_pools>>
    OBVIOUS
  <2> QED
    BY <2>1, <2>2, <2>3 DEF LockDiscipline
<1>7. ClaimsCovered'
  <2>1. UNCHANGED <<Owed, Coming>>
    BY DEF Owed, Coming
  <2> QED
    BY <1>3, <1>4, <2>1 DEF ClaimsCovered
<1>8. Solvency'
  <2>1. UNCHANGED <<Booked, contract_account_balance>>
    BY DEF Booked
  <2> QED
    BY <1>3, <1>4, <2>1 DEF Solvency
<1>9. ReserveWithinClaims'
  BY DEF ReserveWithinClaims
<1> QED
  BY <1>5, <1>6, <1>7, <1>8, <1>9

(* The account of the contract in a pool keeps its type.                   *)
LEMMA AccountReplaced ==
  ASSUME TypeOK, NEW id \in PoolIds, NEW STATE account, account \in PoolAccount,
         pool_account' = [pool_account EXCEPT ![id] = account]
  PROVE  pool_account' \in [PoolIds -> PoolAccount]
BY DEF TypeOK

(* The steps of the pools keep the invariant.                              *)
LEMMA PoolStepsSafe ==
  ASSUME IInv, PoolSteps
  PROVE  IInv'
<1> USE DEF IInv
<1>1. ASSUME NEW p \in promises, PoolExecutes(p)
      PROVE  IInv'
  <2> DEFINE account == pool_account[p.pool]
  <2>1. /\ p \in Promises /\ p.pool \in PoolIds
        /\ p.amount \in Nat /\ p.rebalance \in Nat
    BY PromiseTyped DEF Promises
  <2>2. /\ account \in PoolAccount
        /\ account.staked \in Nat /\ account.unstaked \in Nat
        /\ account.available_epoch \in Nat
    BY <2>1 DEF TypeOK, PoolAccount
  <2>3. poolStepUnchanged
    BY <1>1 DEF PoolExecutes
  <2>4. SUFFICES /\ \E stage \in Stages, answer \in Nat : Answer(p, stage, answer)
                 /\ env_balance' \in Nat
                 /\ pool_account' \in [PoolIds -> PoolAccount]
    <3>1. ASSUME NEW stage \in Stages, NEW answer \in Nat, Answer(p, stage, answer),
                 env_balance' \in Nat, pool_account' \in [PoolIds -> PoolAccount]
          PROVE  IInv'
      <4>1. /\ promises' \subseteq Promises
            /\ LockDiscipline' /\ ClaimsCovered' /\ Solvency' /\ ReserveWithinClaims'
        BY <2>3, <3>1, AnswerSafe
      <4>2. TypeOK'
        BY <2>3, <3>1, <4>1 DEF TypeOK, TotalsNat, poolStepUnchanged, orderVars,
                                userVars, stakeVars
      <4> QED
        BY <4>1, <4>2
    <3> QED
      BY <3>1
  <2>5. "ok" \in Stages /\ "failed" \in Stages /\ 0 \in Nat
    BY DEF Stages
  <2>6. env_balance \in Nat /\ DRIFT \in Nat /\ epoch \in Nat /\ NUM_EPOCHS_TO_UNLOCK \in Nat
    BY ThresholdsAssumption DEF TypeOK, TotalsNat
  <2>7. ASSUME NEW d \in 0..DRIFT, ExecDepositAndStake(p, d)
        PROVE  /\ Answer(p, "ok", 0) /\ env_balance' \in Nat
               /\ pool_account' \in [PoolIds -> PoolAccount]
    <3> DEFINE a == [account EXCEPT !.staked = @ + p.amount - d, !.unstaked = @ + d]
    <3>1. d \in Nat /\ d < p.amount
      BY <2>6, <2>7 DEF ExecDepositAndStake
    <3>2. a \in PoolAccount
      <4>1. account.staked + p.amount - d \in Nat /\ account.unstaked + d \in Nat
        BY <2>1, <2>2, <3>1
      <4> QED
        BY <2>2, <4>1 DEF PoolAccount
    <3>3. pool_account' = [pool_account EXCEPT ![p.pool] = a]
      BY <2>7 DEF ExecDepositAndStake, AfterDepositAndStake
    <3> HIDE DEF a
    <3>4. pool_account' \in [PoolIds -> PoolAccount]
      BY <2>1, <3>2, <3>3, AccountReplaced
    <3> QED
      BY <2>6, <2>7, <3>4 DEF ExecDepositAndStake
  <2>8. ASSUME NEW d \in 0..DRIFT, ExecStake(p, d)
        PROVE  /\ Answer(p, "ok", 0) /\ env_balance' \in Nat
               /\ pool_account' \in [PoolIds -> PoolAccount]
    <3> DEFINE a == [account EXCEPT !.staked = @ + p.amount - d,
                                    !.unstaked = @ - (p.amount - d)]
    <3>1. d \in Nat /\ d < p.amount /\ account.unstaked >= p.amount - d
      BY <2>6, <2>8 DEF ExecStake
    <3>2. a \in PoolAccount
      <4>1. account.staked + p.amount - d \in Nat /\ account.unstaked - (p.amount - d) \in Nat
        BY <2>1, <2>2, <3>1
      <4> QED
        BY <2>2, <4>1 DEF PoolAccount
    <3>3. pool_account' = [pool_account EXCEPT ![p.pool] = a]
      BY <2>8 DEF ExecStake, AfterStake
    <3> HIDE DEF a
    <3>4. pool_account' \in [PoolIds -> PoolAccount]
      BY <2>1, <3>2, <3>3, AccountReplaced
    <3> QED
      BY <2>6, <2>8, <3>4 DEF ExecStake
  <2>9. ASSUME NEW d \in 0..DRIFT, ExecUnstake(p, d)
        PROVE  /\ Answer(p, "ok", 0) /\ env_balance' \in Nat
               /\ pool_account' \in [PoolIds -> PoolAccount]
    <3> DEFINE total == p.amount + p.rebalance
               a == [staked |-> Monus(account.staked, total + d),
                     unstaked |-> account.unstaked + total + d,
                     available_epoch |-> epoch + NUM_EPOCHS_TO_UNLOCK]
    <3>1. d \in Nat /\ total \in Nat /\ total + d \in Nat
      BY <2>1, <2>6
    <3>2. Monus(account.staked, total + d) \in Nat
      BY <2>2, <3>1, MonusNat
    <3>3. a \in PoolAccount
      BY <2>2, <2>6, <3>1, <3>2 DEF PoolAccount
    <3>4. pool_account' = [pool_account EXCEPT ![p.pool] = a]
      BY <2>9 DEF ExecUnstake, AfterUnstake
    <3> HIDE DEF a
    <3>5. pool_account' \in [PoolIds -> PoolAccount]
      BY <2>1, <3>3, <3>4, AccountReplaced
    <3> QED
      BY <2>6, <2>9, <3>5 DEF ExecUnstake
  <2>10. ASSUME ExecWithdrawAll(p)
         PROVE  /\ Answer(p, "ok", 0) /\ env_balance' \in Nat
                /\ pool_account' \in [PoolIds -> PoolAccount]
    <3> DEFINE a == [account EXCEPT !.unstaked = 0]
    <3>1. a \in PoolAccount
      BY <2>2 DEF PoolAccount
    <3>2. pool_account' = [pool_account EXCEPT ![p.pool] = a]
      BY <2>10 DEF ExecWithdrawAll, AfterWithdrawAll
    <3> HIDE DEF a
    <3>3. pool_account' \in [PoolIds -> PoolAccount]
      BY <2>1, <3>1, <3>2, AccountReplaced
    <3> QED
      BY <2>2, <2>6, <2>10, <3>3 DEF ExecWithdrawAll
  <2>11. ASSUME ExecView(p)
         PROVE  /\ \E answer \in Nat : Answer(p, "ok", answer)
                /\ env_balance' \in Nat
                /\ pool_account' \in [PoolIds -> PoolAccount]
    <3> DEFINE answer == IF p.kind = "total_balance"
                         THEN account.staked + account.unstaked ELSE account.unstaked
    <3>1. answer \in Nat
      BY <2>2
    <3>2. Answer(p, "ok", answer) /\ UNCHANGED <<env_balance, pool_account>>
      BY <2>11 DEF ExecView
    <3> HIDE DEF answer
    <3> QED
      BY <2>6, <3>1, <3>2 DEF TypeOK
  <2>12. ASSUME ExecFails(p)
         PROVE  /\ Answer(p, "failed", 0) /\ env_balance' \in Nat
                /\ pool_account' \in [PoolIds -> PoolAccount]
    BY <2>1, <2>6, <2>12 DEF ExecFails, TypeOK
  <2> QED
    BY <1>1, <2>5, <2>7, <2>8, <2>9, <2>10, <2>11, <2>12 DEF PoolExecutes
<1>2. ASSUME NEW id \in PoolIds, NEW r \in RewardAmounts, PoolReward(id, r)
      PROVE  IInv'
  <2> DEFINE a == [pool_account[id] EXCEPT !.staked = @ + r]
  <2>1. r \in Nat /\ pool_account[id] \in PoolAccount
    BY SetsAssumption DEF TypeOK
  <2>2. a \in PoolAccount
    BY <2>1 DEF PoolAccount
  <2>3. /\ pool_account' = [pool_account EXCEPT ![id] = a]
        /\ UNCHANGED <<env_balance, promises>> /\ poolStepUnchanged
    BY <1>2 DEF PoolReward, Earned
  <2> HIDE DEF a
  <2>4. pool_account' \in [PoolIds -> PoolAccount]
    BY <2>2, <2>3, AccountReplaced
  <2> USE <2>3 DEF poolStepUnchanged, orderVars, userVars, stakeVars, listVars
  <2>5. TypeOK'
    BY <2>4 DEF TypeOK, TotalsNat
  <2>6. LockDiscipline'
    BY LocksKept
  <2>7. ClaimsCovered'
    BY DEF ClaimsCovered, Owed, Coming
  <2>8. Solvency' /\ ReserveWithinClaims'
    BY DEF Solvency, Booked, ReserveWithinClaims
  <2> QED
    BY <2>5, <2>6, <2>7, <2>8
<1>3. CASE NewEpoch
  <2> USE <1>3 DEF NewEpoch, orderVars, userVars, stakeVars, moneyVars, listVars
  <2>1. TypeOK'
    BY DEF TypeOK, TotalsNat
  <2>2. LockDiscipline'
    BY LocksKept
  <2>3. ClaimsCovered' /\ Solvency' /\ ReserveWithinClaims'
    BY DEF ClaimsCovered, Owed, Coming, Solvency, Booked, ReserveWithinClaims
  <2> QED
    BY <2>1, <2>2, <2>3
<1>4. ASSUME NEW r \in RewardAmounts, NearArrives(r)
      PROVE  IInv'
  <2>1. r \in Nat
    BY SetsAssumption
  <2>2. /\ UNCHANGED <<orderVars, userVars, stakeVars, contract_account_balance,
                       listVars, worldVars>>
        /\ env_balance' = env_balance + r
    BY <1>4 DEF NearArrives
  <2> USE <2>1, <2>2 DEF orderVars, userVars, stakeVars, listVars, worldVars
  <2>3. TypeOK'
    BY DEF TypeOK, TotalsNat
  <2>4. LockDiscipline'
    BY LocksKept
  <2>5. ClaimsCovered' /\ Solvency' /\ ReserveWithinClaims'
    BY DEF ClaimsCovered, Owed, Coming, Solvency, Booked, ReserveWithinClaims
  <2> QED
    BY <2>3, <2>4, <2>5
<1> QED
  BY <1>1, <1>2, <1>3, <1>4 DEF PoolSteps

-----------------------------------------------------------------------------
(* Callbacks.                                                              *)

(* The callback of a locking call knows that its call is alone: what the   *)
(* invariant grants any call in flight it grants this one.                 *)
LEMMA AloneInFlight ==
  ASSUME IInv, NEW p \in promises, p.kind # "unstaked_balance"
  PROVE  /\ InFlight = {p}
         /\ p.inx \in DOMAIN staking_pools
         /\ staking_pools[p.inx] \in PoolInfo
         /\ staking_pools[p.inx].staked \in Nat /\ staking_pools[p.inx].unstaked \in Nat
         /\ p.amount \in Nat /\ p.rebalance \in Nat /\ p.answer \in Nat
         /\ p.kind = "unstake" =>
              /\ Owed <= Coming + p.amount
              /\ staking_pools[p.inx].staked >= p.amount + p.rebalance
         /\ p.kind # "unstake" => Owed <= Coming
         /\ Booked <= contract_account_balance
         /\ p.kind \in {"stake", "deposit_and_stake"} =>
              Booked + p.amount <= contract_account_balance
<1> USE DEF IInv
<1>1. InFlight = {p}
  BY DEF InFlight, LockDiscipline
<1>2. p.inx \in DOMAIN staking_pools
  BY <1>1 DEF LockDiscipline
<1>3. /\ staking_pools[p.inx] \in PoolInfo
      /\ staking_pools[p.inx].staked \in Nat /\ staking_pools[p.inx].unstaked \in Nat
  BY <1>2, PoolTyped
<1>4. p.amount \in Nat /\ p.rebalance \in Nat /\ p.answer \in Nat
  BY PromiseTyped
<1>5. \A q \in promises : q.kind = "unstake" => q = p
  BY <1>1 DEF InFlight
<1>6. Owed \in Nat /\ Coming \in Nat
  BY DEF TypeOK, TotalsNat, Owed, Coming
<1>7. Owed <= Coming \/ (p.kind = "unstake" /\ Owed <= Coming + p.amount)
  BY <1>5 DEF ClaimsCovered
<1>8. p.kind = "unstake" => staking_pools[p.inx].staked >= p.amount + p.rebalance
  BY <1>1 DEF LockDiscipline
<1>9. /\ Booked <= contract_account_balance
      /\ p.kind \in {"stake", "deposit_and_stake"} =>
           Booked + p.amount <= contract_account_balance
  BY DEF Solvency
<1>10. Owed <= Coming => Owed <= Coming + p.amount
  BY <1>4, <1>6
<1> QED
  BY <1>1, <1>2, <1>3, <1>4, <1>7, <1>8, <1>9, <1>10

(* With the call gone, the discipline asks nothing more.                   *)
LEMMA NoneInFlight ==
  ASSUME IInv, NEW p \in promises, p.kind # "unstaked_balance", promises' = promises \ {p}
  PROVE  /\ LockDiscipline' /\ promises' \subseteq Promises
         /\ \A q \in promises' : q.kind = "unstaked_balance"
<1>1. InFlight' = {}
  BY AloneInFlight DEF InFlight
<1> QED
  BY <1>1 DEF LockDiscipline, InFlight, IInv, TypeOK

(* A settled call leaves a list of records.                                *)
LEMMA SettleSafe ==
  ASSUME IInv, NEW p \in promises, p.kind # "unstaked_balance",
         NEW STATE sp, sp \in PoolInfo, Settle(p, sp)
  PROVE  /\ contract_busy' \in BOOLEAN /\ UNCHANGED staking_paused
         /\ staking_pools' \in Seq(PoolInfo)
         /\ promises' = promises \ {p}
<1> DEFINE r == Unlocked(sp)
<1>1. r \in PoolInfo
  BY DEF Unlocked, PoolInfo
<1>2. staking_pools' = [staking_pools EXCEPT ![p.inx] = r]
  BY DEF Settle
<1> HIDE DEF r
<1>3. staking_pools' \in Seq(PoolInfo)
  BY <1>1, <1>2, AloneInFlight, RecordReplaced DEF IInv
<1> QED
  BY <1>3 DEF Settle

(* The books once a locking call has ended: it suffices that the new       *)
(* totals are typed, cover the claims and are backed.                      *)
LEMMA CallbackEnds ==
  ASSUME IInv, NEW p \in promises, p.kind # "unstaked_balance",
         NEW STATE sp, sp \in PoolInfo, Settle(p, sp),
         TotalsNat', UNCHANGED pool_account, Owed' <= Coming',
         Booked' <= contract_account_balance', ReserveWithinClaims'
  PROVE  IInv'
<1>1. /\ contract_busy' \in BOOLEAN /\ UNCHANGED staking_paused
      /\ staking_pools' \in Seq(PoolInfo)
      /\ promises' = promises \ {p}
  BY SettleSafe
<1>2. /\ LockDiscipline' /\ promises' \subseteq Promises
      /\ \A q \in promises' : q.kind = "unstaked_balance"
  BY <1>1, NoneInFlight
<1>3. TypeOK'
  BY <1>1, <1>2 DEF IInv, TypeOK
<1>4. ClaimsCovered'
  BY DEF ClaimsCovered
<1>5. Solvency'
  BY <1>2 DEF Solvency
<1> QED
  BY <1>2, <1>3, <1>4, <1>5 DEF IInv

(* on_staking_pool_stake_maybe_deposit                                     *)
LEMMA StakeSucceededSafe ==
  ASSUME IInv, NEW p \in promises, StakeSucceeded(p)
  PROVE  IInv'
<1> DEFINE sp == staking_pools[p.inx]
<1>1. TotalsNat /\ TypeOK /\ ReserveWithinClaims
  BY DEF IInv, TypeOK
<1>2. UNCHANGED <<userVars, total_actually_staked, env_balance, worldVars>>
  BY DEF StakeSucceeded
<1>3. CASE p.kind = "deposit_and_stake"
  <2> DEFINE r == [sp EXCEPT !.staked = @ + p.amount]
  <2>1. /\ Settle(p, r) /\ contract_account_balance >= p.amount
        /\ contract_account_balance' = contract_account_balance - p.amount
        /\ UNCHANGED <<orderVars, total_unstaked_and_waiting>>
    BY <1>3 DEF StakeSucceeded
  <2>2. /\ sp \in PoolInfo /\ sp.staked \in Nat /\ p.amount \in Nat
        /\ Owed <= Coming /\ Booked + p.amount <= contract_account_balance
    BY <1>3, AloneInFlight
  <2>3. r \in PoolInfo
    BY <2>2 DEF PoolInfo
  <2> HIDE DEF r
  <2> USE <1>1, <1>2, <2>1, <2>2 DEF userVars, worldVars, orderVars
  <2>4. TotalsNat'
    BY DEF TotalsNat
  <2>5. Owed' <= Coming' /\ ReserveWithinClaims'
    BY DEF Owed, Coming, ReserveWithinClaims
  <2>6. Booked' <= contract_account_balance'
    BY DEF TotalsNat, Booked
  <2> QED
    BY <1>3, <2>3, <2>4, <2>5, <2>6, CallbackEnds
<1>4. CASE p.kind = "stake"
  <2> DEFINE r == [sp EXCEPT !.staked = @ + p.amount, !.unstaked = @ - p.amount]
             o == Considered(p.amount, epoch_stake_orders, epoch_unstake_orders)
  <2>1. /\ Settle(p, r)
        /\ sp.unstaked >= p.amount /\ total_unstaked_and_waiting >= p.amount
        /\ total_unstaked_and_waiting' = total_unstaked_and_waiting - p.amount
        /\ SetOrders(o)
        /\ UNCHANGED contract_account_balance
    BY <1>4 DEF StakeSucceeded
  <2>2. /\ sp \in PoolInfo /\ sp.staked \in Nat /\ sp.unstaked \in Nat /\ p.amount \in Nat
        /\ Owed <= Coming /\ Booked + p.amount <= contract_account_balance
    BY <1>4, AloneInFlight
  <2>3. r \in PoolInfo
    <3>1. sp.staked + p.amount \in Nat /\ sp.unstaked - p.amount \in Nat
      BY <2>1, <2>2
    <3> QED
      BY <2>2, <3>1 DEF PoolInfo
  <2>4. /\ o \in Orders
        /\ o.unstake = epoch_unstake_orders
        /\ o.reserve + o.stake
             = retrieved_for_unstake_claims + p.amount + epoch_stake_orders
        /\ o.reserve <= total_unstake_claims
        /\ \A w \in Nat :
             total_unstake_claims + unstaked_for_rebalance
                 <= retrieved_for_unstake_claims + p.amount + w
               => total_unstake_claims + o.rebal <= o.reserve + w
    BY <1>1, <2>2, ConsideredSplits DEF TotalsNat
  <2> HIDE DEF r, o
  <2>5. /\ epoch_stake_orders' = o.stake /\ epoch_unstake_orders' = o.unstake
        /\ retrieved_for_unstake_claims' = o.reserve /\ unstaked_for_rebalance' = o.rebal
        /\ o.stake \in Nat /\ o.unstake \in Nat /\ o.reserve \in Nat /\ o.rebal \in Nat
    BY <2>1, <2>4 DEF SetOrders, Orders
  <2> DEFINE w == total_unstaked_and_waiting - p.amount + epoch_unstake_orders
  <2>6. /\ w \in Nat
        /\ total_unstake_claims + unstaked_for_rebalance
             <= retrieved_for_unstake_claims + p.amount + w
    BY <1>1, <2>1, <2>2 DEF TotalsNat, Owed, Coming
  <2>7. total_unstake_claims + o.rebal <= o.reserve + w
    BY <2>4, <2>6
  <2> USE <1>1, <1>2, <2>1, <2>2, <2>5 DEF userVars, worldVars
  <2>8. TotalsNat'
    BY DEF TotalsNat
  <2>9. Owed' <= Coming'
    BY <2>4, <2>7 DEF TotalsNat, Owed, Coming
  <2>10. ReserveWithinClaims'
    BY <2>4 DEF ReserveWithinClaims
  <2>11. Booked' <= contract_account_balance'
    BY <2>4 DEF TotalsNat, Booked
  <2>12. UNCHANGED pool_account
    OBVIOUS
  <2> QED
    BY <1>4, <2>3, <2>8, <2>9, <2>10, <2>11, <2>12, CallbackEnds
<1> QED
  BY <1>3, <1>4 DEF StakeSucceeded

LEMMA StakeFailedSafe ==
  ASSUME IInv, NEW p \in promises, StakeFailed(p)
  PROVE  IInv'
<1>1. TotalsNat /\ ReserveWithinClaims
  BY DEF IInv, TypeOK
<1>2. p.kind \in {"deposit_and_stake", "stake"}
  BY DEF StakeFailed
<1>3. /\ staking_pools[p.inx] \in PoolInfo /\ p.amount \in Nat
      /\ Owed <= Coming /\ Booked + p.amount <= contract_account_balance
  BY <1>2, AloneInFlight
<1>4. /\ Settle(p, staking_pools[p.inx])
      /\ total_actually_staked >= p.amount
      /\ total_actually_staked' = total_actually_staked - p.amount
      /\ epoch_stake_orders' = epoch_stake_orders + p.amount
      /\ UNCHANGED <<epoch_unstake_orders, retrieved_for_unstake_claims,
                     unstaked_for_rebalance, total_unstaked_and_waiting, userVars,
                     moneyVars, worldVars>>
  BY DEF StakeFailed
<1> USE <1>1, <1>3, <1>4 DEF userVars, moneyVars, worldVars
<1>5. TotalsNat'
  BY DEF TotalsNat
<1>6. Owed' <= Coming' /\ ReserveWithinClaims'
  BY DEF Owed, Coming, ReserveWithinClaims
<1>7. Booked' <= contract_account_balance'
  BY DEF TotalsNat, Booked
<1> QED
  BY <1>2, <1>5, <1>6, <1>7, CallbackEnds

(* on_staking_pool_unstake: the orders in flight become NEAR waiting, or   *)
(* orders again.                                                           *)
LEMMA UnstakeSucceededSafe ==
  ASSUME IInv, NEW p \in promises, UnstakeSucceeded(p)
  PROVE  IInv'
<1> DEFINE sp    == staking_pools[p.inx]
           total == p.amount + p.rebalance
           r     == [sp EXCEPT !.staked = @ - total, !.unstaked = @ + total,
                               !.unstk_req_epoch_height = epoch]
<1>1. TotalsNat /\ ReserveWithinClaims
  BY DEF IInv, TypeOK
<1>2. p.kind = "unstake"
  BY DEF UnstakeSucceeded
<1>3. /\ sp \in PoolInfo /\ sp.staked \in Nat /\ sp.unstaked \in Nat
      /\ p.amount \in Nat /\ p.rebalance \in Nat /\ sp.staked >= total
      /\ Owed <= Coming + p.amount /\ Booked <= contract_account_balance
  BY <1>2, AloneInFlight
<1>4. /\ Settle(p, r)
      /\ total_unstaked_and_waiting' = total_unstaked_and_waiting + total
      /\ unstaked_for_rebalance' = unstaked_for_rebalance + p.rebalance
      /\ UNCHANGED <<epoch_stake_orders, epoch_unstake_orders,
                     retrieved_for_unstake_claims, total_actually_staked,
                     userVars, moneyVars, worldVars>>
  BY DEF UnstakeSucceeded
<1>5. r \in PoolInfo
  <2>1. sp.staked - total \in Nat /\ sp.unstaked + total \in Nat /\ epoch \in Nat
    BY <1>1, <1>3 DEF TotalsNat
  <2> QED
    BY <1>3, <2>1 DEF PoolInfo
<1> HIDE DEF r
<1> USE <1>1, <1>3, <1>4 DEF userVars, moneyVars, worldVars
<1>6. TotalsNat'
  BY DEF TotalsNat
<1>7. Owed' <= Coming'
  BY DEF TotalsNat, Owed, Coming
<1>8. ReserveWithinClaims' /\ Booked' <= contract_account_balance'
  BY DEF ReserveWithinClaims, Booked
<1> QED
  BY <1>2, <1>5, <1>6, <1>7, <1>8, CallbackEnds

LEMMA UnstakeFailedSafe ==
  ASSUME IInv, NEW p \in promises, UnstakeFailed(p)
  PROVE  IInv'
<1>1. TotalsNat /\ ReserveWithinClaims
  BY DEF IInv, TypeOK
<1>2. p.kind = "unstake"
  BY DEF UnstakeFailed
<1>3. /\ staking_pools[p.inx] \in PoolInfo /\ p.amount \in Nat /\ p.rebalance \in Nat
      /\ Owed <= Coming + p.amount /\ Booked <= contract_account_balance
  BY <1>2, AloneInFlight
<1>4. /\ Settle(p, staking_pools[p.inx])
      /\ total_actually_staked' = total_actually_staked + p.amount + p.rebalance
      /\ epoch_unstake_orders' = epoch_unstake_orders + p.amount
      /\ UNCHANGED <<epoch_stake_orders, retrieved_for_unstake_claims,
                     unstaked_for_rebalance, total_unstaked_and_waiting, userVars,
                     moneyVars, worldVars>>
  BY DEF UnstakeFailed
<1> USE <1>1, <1>3, <1>4 DEF userVars, moneyVars, worldVars
<1>5. TotalsNat'
  BY DEF TotalsNat
<1>6. Owed' <= Coming'
  BY DEF TotalsNat, Owed, Coming
<1>7. ReserveWithinClaims' /\ Booked' <= contract_account_balance'
  BY DEF ReserveWithinClaims, Booked
<1> QED
  BY <1>2, <1>5, <1>6, <1>7, CallbackEnds

(* on_retrieve_from_staking_pool                                           *)
LEMMA RetrievedSafe ==
  ASSUME IInv, NEW p \in promises, Retrieved(p)
  PROVE  IInv'
<1> DEFINE sp     == staking_pools[p.inx]
           amount == sp.unstaked
           r      == [sp EXCEPT !.unstaked = 0]
           o      == Considered(amount, epoch_stake_orders, epoch_unstake_orders)
<1>1. TotalsNat /\ TypeOK /\ ReserveWithinClaims
  BY DEF IInv, TypeOK
<1>2. p.kind = "withdraw_all"
  BY DEF Retrieved
<1>3. /\ sp \in PoolInfo /\ amount \in Nat
      /\ Owed <= Coming /\ Booked <= contract_account_balance
  BY <1>2, AloneInFlight
<1>4. /\ Settle(p, r)
      /\ total_unstaked_and_waiting' = Monus(total_unstaked_and_waiting, amount)
      /\ contract_account_balance' = contract_account_balance + amount
      /\ SetOrders(o)
      /\ UNCHANGED <<userVars, total_actually_staked, env_balance, worldVars>>
  BY DEF Retrieved
<1>5. r \in PoolInfo
  BY <1>3 DEF PoolInfo
<1>6. /\ o \in Orders
      /\ o.unstake = epoch_unstake_orders
      /\ o.reserve + o.stake = retrieved_for_unstake_claims + amount + epoch_stake_orders
      /\ o.reserve <= total_unstake_claims
      /\ \A w \in Nat :
           total_unstake_claims + unstaked_for_rebalance
               <= retrieved_for_unstake_claims + amount + w
             => total_unstake_claims + o.rebal <= o.reserve + w
  BY <1>1, <1>3, ConsideredSplits DEF TotalsNat
<1> HIDE DEF r, o, amount
<1>7. /\ epoch_stake_orders' = o.stake /\ epoch_unstake_orders' = o.unstake
      /\ retrieved_for_unstake_claims' = o.reserve /\ unstaked_for_rebalance' = o.rebal
      /\ o.stake \in Nat /\ o.unstake \in Nat /\ o.reserve \in Nat /\ o.rebal \in Nat
  BY <1>4, <1>6 DEF SetOrders, Orders
<1> DEFINE rest == Monus(total_unstaked_and_waiting, amount)
           w    == rest + epoch_unstake_orders
<1>8. rest \in Nat /\ total_unstaked_and_waiting <= rest + amount
  BY <1>1, <1>3 DEF TotalsNat, Monus
<1> HIDE DEF rest
<1>9. /\ w \in Nat
      /\ total_unstake_claims + unstaked_for_rebalance
           <= retrieved_for_unstake_claims + amount + w
  BY <1>1, <1>3, <1>8 DEF TotalsNat, Owed, Coming
<1>10. total_unstake_claims + o.rebal <= o.reserve + w
  BY <1>6, <1>9
<1>11. total_unstaked_and_waiting' = rest
  BY <1>4 DEF rest
<1> USE <1>1, <1>3, <1>7, <1>8, <1>11 DEF userVars, worldVars
<1>12. TotalsNat'
  BY <1>4 DEF TotalsNat
<1>13. Owed' <= Coming'
  BY <1>4, <1>6, <1>10 DEF TotalsNat, Owed, Coming
<1>14. ReserveWithinClaims'
  BY <1>4, <1>6 DEF ReserveWithinClaims
<1>15. Booked' <= contract_account_balance'
  BY <1>4, <1>6 DEF TotalsNat, Booked
<1>16. UNCHANGED pool_account
  BY <1>4
<1> QED
  BY <1>2, <1>4, <1>5, <1>12, <1>13, <1>14, <1>15, <1>16, CallbackEnds

LEMMA RetrieveFailedSafe ==
  ASSUME IInv, NEW p \in promises, RetrieveFailed(p)
  PROVE  IInv'
<1>1. p.kind = "withdraw_all" /\ Settle(p, staking_pools[p.inx]) /\ booksUnchanged
  BY DEF RetrieveFailed
<1>2. /\ staking_pools[p.inx] \in PoolInfo
      /\ Owed <= Coming /\ Booked <= contract_account_balance
  BY <1>1, AloneInFlight
<1> USE <1>1, <1>2 DEF IInv, booksUnchanged, orderVars, userVars, stakeVars, moneyVars,
                       worldVars
<1>3. TotalsNat'
  BY DEF TypeOK, TotalsNat
<1>4. Owed' <= Coming' /\ Booked' <= contract_account_balance' /\ ReserveWithinClaims'
  BY DEF Owed, Coming, Booked, ReserveWithinClaims
<1> QED
  BY <1>3, <1>4, CallbackEnds

(* on_get_sp_total_balance                                                 *)
LEMMA RewardsDistributedSafe ==
  ASSUME IInv, NEW p \in promises, RewardsDistributed(p)
  PROVE  IInv'
<1> DEFINE sp      == staking_pools[p.inx]
           rewards == Monus(p.answer, TotalBalance(sp))
           r       == [sp EXCEPT !.staked = p.answer - sp.unstaked,
                                 !.last_asked_rewards_epoch_height = epoch]
<1>1. TotalsNat /\ ReserveWithinClaims
  BY DEF IInv, TypeOK
<1>2. p.kind = "total_balance" /\ p.answer >= sp.unstaked
  BY DEF RewardsDistributed
<1>3. /\ sp \in PoolInfo /\ sp.staked \in Nat /\ sp.unstaked \in Nat /\ p.answer \in Nat
      /\ Owed <= Coming /\ Booked <= contract_account_balance
  BY <1>2, AloneInFlight
<1>4. /\ Settle(p, r)
      /\ total_actually_staked' = total_actually_staked + rewards
      /\ total_for_staking' = total_for_staking + rewards
      /\ UNCHANGED <<orderVars, total_available, total_unstake_claims,
                     total_unstaked_and_waiting, moneyVars, worldVars>>
      /\ OpensUnpaid(IF rewards > 0 THEN 2 ELSE 0)
  BY DEF RewardsDistributed
<1>5. rewards \in Nat
  <2>1. TotalBalance(sp) \in Nat
    BY <1>3 DEF TotalBalance
  <2> QED
    BY <1>3, <2>1, MonusNat
<1>6. r \in PoolInfo
  <2>1. p.answer - sp.unstaked \in Nat /\ epoch \in Nat
    BY <1>1, <1>2, <1>3 DEF TotalsNat
  <2> QED
    BY <1>3, <2>1 DEF PoolInfo
<1> HIDE DEF r, rewards
<1>0. registered' \in Nat
  BY <1>1, <1>4, <1>5, OpensNat DEF TotalsNat
<1> USE <1>0, <1>1, <1>3, <1>4, <1>5 DEF orderVars, moneyVars, worldVars
<1>7. TotalsNat'
  BY DEF TotalsNat
<1>8. Owed' <= Coming' /\ Booked' <= contract_account_balance' /\ ReserveWithinClaims'
  BY DEF Owed, Coming, Booked, ReserveWithinClaims
<1> QED
  BY <1>2, <1>6, <1>7, <1>8, CallbackEnds

(* Frame of the two callbacks that release no lock.                        *)
LEMMA BooksKept ==
  ASSUME IInv, booksUnchanged, promises' \subseteq promises,
         \A p \in promises \ promises' : p.kind = "unstake" => Owed <= Coming
  PROVE  TotalsNat' /\ ClaimsCovered' /\ Solvency' /\ ReserveWithinClaims'
<1> USE DEF IInv, booksUnchanged, orderVars, userVars, stakeVars, moneyVars, worldVars
<1>1. TotalsNat'
  BY DEF TypeOK, TotalsNat
<1>2. UNCHANGED <<Owed, Coming, Booked, contract_account_balance>>
  BY DEF Owed, Coming, Booked
<1>3. ClaimsCovered'
  BY <1>2 DEF ClaimsCovered
<1>4. Solvency' /\ ReserveWithinClaims'
  BY <1>2 DEF Solvency, ReserveWithinClaims
<1> QED
  BY <1>1, <1>3, <1>4

(* on_get_sp_unstaked_balance: it may come at any moment, and while a pool *)
(* is locked it changes nothing its callback will subtract.                *)
LEMMA UnstakedSyncedSafe ==
  ASSUME IInv, NEW p \in promises, p.inx \in DOMAIN staking_pools, UnstakedSynced(p)
  PROVE  IInv'
<1> DEFINE sp == staking_pools[p.inx]
           r  == [sp EXCEPT !.unstaked = p.answer, !.staked = Monus(@ + sp.unstaked, p.answer)]
<1>1. /\ p.kind = "unstaked_balance"
      /\ ~SyncRefused(p, sp)
      /\ staking_pools' = [staking_pools EXCEPT ![p.inx] = r]
      /\ promises' = promises \ {p}
      /\ UNCHANGED <<contract_busy, staking_paused>>
      /\ booksUnchanged
  BY DEF UnstakedSynced
<1>2. TypeOK
  BY DEF IInv
<1>3. /\ sp \in PoolInfo /\ sp.staked \in Nat /\ sp.unstaked \in Nat
      /\ p.answer \in Nat
  BY <1>2, PoolTyped, PromiseTyped
<1>4. r \in PoolInfo
  <2>1. Monus(sp.staked + sp.unstaked, p.answer) \in Nat
    <3>1. sp.staked + sp.unstaked \in Nat
      BY <1>3
    <3> QED
      BY <1>3, <3>1, MonusNat
  <2> QED
    BY <1>3, <2>1 DEF PoolInfo
<1>5. /\ r.account_id = sp.account_id /\ r.busy_lock = sp.busy_lock
      /\ contract_busy => r.staked = sp.staked /\ r.unstaked = sp.unstaked
  <2>1. /\ r.account_id = sp.account_id /\ r.busy_lock = sp.busy_lock
        /\ r.unstaked = p.answer
        /\ r.staked = Monus(sp.staked + sp.unstaked, p.answer)
    BY <1>3 DEF PoolInfo
  <2>2. contract_busy => p.answer = sp.unstaked
    BY <1>1 DEF SyncRefused
  <2>3. Monus(sp.staked + sp.unstaked, sp.unstaked) = sp.staked
    BY <1>3 DEF Monus
  <2> QED
    BY <2>1, <2>2, <2>3
<1> HIDE DEF r
<1>6. /\ staking_pools' \in Seq(PoolInfo)
      /\ DOMAIN staking_pools' = DOMAIN staking_pools
      /\ staking_pools'[p.inx] = r
      /\ \A j \in DOMAIN staking_pools : j # p.inx => staking_pools'[j] = staking_pools[j]
  BY <1>1, <1>2, <1>4, RecordReplaced
<1>7. InFlight' = InFlight
  BY <1>1 DEF InFlight
<1>8. LockDiscipline'
  <2>1. \A q \in InFlight :
           /\ contract_busy /\ q.inx \in DOMAIN staking_pools
           /\ staking_pools'[q.inx].account_id = staking_pools[q.inx].account_id
           /\ staking_pools'[q.inx].busy_lock = staking_pools[q.inx].busy_lock
           /\ staking_pools'[q.inx].staked = staking_pools[q.inx].staked
           /\ staking_pools'[q.inx].unstaked = staking_pools[q.inx].unstaked
    BY <1>5, <1>6 DEF IInv, LockDiscipline
  <2> QED
    BY <1>1, <1>6, <1>7, <2>1 DEF IInv, LockDiscipline
<1>9. TotalsNat' /\ ClaimsCovered' /\ Solvency' /\ ReserveWithinClaims'
  <2>1. promises' \subseteq promises /\ \A q \in promises \ promises' : q.kind # "unstake"
    BY <1>1
  <2> QED
    BY <1>1, <2>1, BooksKept
<1>10. TypeOK'
  BY <1>1, <1>2, <1>6, <1>9 DEF TypeOK, booksUnchanged, worldVars
<1> QED
  BY <1>8, <1>9, <1>10 DEF IInv

(* A panic loses its call: never an unstake, whose orders would be lost.   *)
LEMMA CallbackPanicsSafe ==
  ASSUME IInv, NEW p \in promises, p.stage # "sent", CallbackPanics(p)
  PROVE  IInv'
<1>1. /\ Panics(p) /\ promises' = promises \ {p}
      /\ UNCHANGED <<contract_busy, staking_paused, staking_pools>>
      /\ booksUnchanged
  BY DEF CallbackPanics
<1>2. ASSUME p.kind = "unstake"
      PROVE  FALSE
  <2>1. /\ p.inx \in DOMAIN staking_pools
        /\ staking_pools[p.inx].staked >= p.amount + p.rebalance
        /\ staking_pools[p.inx].staked \in Nat /\ p.amount \in Nat /\ p.rebalance \in Nat
    BY <1>2, AloneInFlight
  <2>2. ~(staking_pools[p.inx].staked < p.amount + p.rebalance)
    BY <2>1
  <2>3. ~Panics(p)
    BY <1>2, <2>1, <2>2 DEF Panics, Views
  <2> QED
    BY <1>1, <2>3
<1>3. TotalsNat' /\ ClaimsCovered' /\ Solvency' /\ ReserveWithinClaims'
  BY <1>1, <1>2, BooksKept
<1>4. InFlight' \subseteq InFlight
  BY <1>1 DEF InFlight
<1>5. LockDiscipline'
  BY <1>1, <1>4 DEF IInv, LockDiscipline
<1>6. TypeOK'
  BY <1>1, <1>3 DEF IInv, TypeOK, booksUnchanged, worldVars
<1> QED
  BY <1>3, <1>5, <1>6 DEF IInv

LEMMA CallbacksSafe ==
  ASSUME IInv, Callbacks
  PROVE  IInv'
<1>1. PICK p \in promises : Callback(p)
  BY DEF Callbacks
<1>2. p.stage # "sent"
  BY <1>1 DEF Callback
<1>3. CASE CallbackPanics(p)
  BY <1>2, <1>3, CallbackPanicsSafe
<1>4. CASE ~Panics(p)
  <2>1. p.inx \in DOMAIN staking_pools
    BY <1>4 DEF Panics
  <2> QED
    BY <1>1, <1>4, <2>1, StakeSucceededSafe, StakeFailedSafe, UnstakeSucceededSafe,
       UnstakeFailedSafe, RetrievedSafe, RetrieveFailedSafe, RewardsDistributedSafe,
       UnstakedSyncedSafe DEF Callback
<1> QED
  BY <1>1, <1>3, <1>4 DEF Callback

-----------------------------------------------------------------------------
(* Calls of the owner, the operator and anyone.                            *)

(* Only flags, weights, registrations or NEAR outside of the books change. *)
LEMMA OwnerCallSafe ==
  ASSUME IInv, UNCHANGED <<orderVars, total_available, total_for_staking,
                           total_unstake_claims, stakeVars, contract_account_balance,
                           promises, worldVars>>,
         registered' \in Nat, env_balance' \in Nat,
         contract_busy' \in BOOLEAN, staking_paused' \in BOOLEAN,
         staking_pools' \in Seq(PoolInfo), LockDiscipline'
  PROVE  IInv'
<1> USE DEF IInv, orderVars, stakeVars, worldVars
<1>1. TypeOK'
  BY DEF TypeOK, TotalsNat
<1>2. UNCHANGED <<Owed, Coming, Booked>>
  BY DEF Owed, Coming, Booked
<1>3. ClaimsCovered' /\ Solvency' /\ ReserveWithinClaims'
  BY <1>2 DEF ClaimsCovered, Solvency, ReserveWithinClaims
<1> QED
  BY <1>1, <1>3

LEMMA PauseStakingSafe ==
  ASSUME IInv, PauseStaking
  PROVE  IInv'
<1>1. LockDiscipline'
  BY DEF PauseStaking, IInv, LockDiscipline, InFlight
<1>2. /\ env_balance' \in Nat /\ contract_busy' \in BOOLEAN /\ staking_paused' \in BOOLEAN
      /\ staking_pools' \in Seq(PoolInfo)
  BY DEF PauseStaking, IInv, TypeOK, TotalsNat, booksUnchanged, moneyVars
<1>3. booksUnchanged /\ UNCHANGED promises
  BY DEF PauseStaking
<1>4. registered' \in Nat
  BY <1>3 DEF IInv, TypeOK, TotalsNat, booksUnchanged, userVars
<1> QED
  BY <1>1, <1>2, <1>3, <1>4, OwnerCallSafe DEF booksUnchanged, moneyVars, userVars

(* New weights touch no lock and no amount.                                *)
LEMMA SetStakingPoolsSafe ==
  ASSUME IInv, NEW weights \in WeightLists, SetStakingPools(weights)
  PROVE  IInv'
<1> DEFINE sp(i) == [staking_pools[i] EXCEPT !.weight_basis_points = weights[i]]
<1>1. TypeOK
  BY DEF IInv
<1>2. /\ DOMAIN weights = DOMAIN staking_pools
      /\ staking_pools' = [i \in DOMAIN staking_pools |-> sp(i)]
      /\ UNCHANGED <<contract_busy, staking_paused, promises>>
      /\ booksUnchanged
  BY DEF SetStakingPools
<1>3. ASSUME NEW i \in DOMAIN staking_pools
      PROVE  /\ sp(i) \in PoolInfo
             /\ sp(i).account_id = staking_pools[i].account_id
             /\ sp(i).busy_lock = staking_pools[i].busy_lock
             /\ sp(i).staked = staking_pools[i].staked
             /\ sp(i).unstaked = staking_pools[i].unstaked
  <2>1. staking_pools[i] \in PoolInfo
    BY <1>1, PoolTyped
  <2>2. weights \in Seq(Nat) /\ i \in DOMAIN weights
    BY <1>2, SetsAssumption
  <2>3. weights[i] \in Nat
    BY <2>2
  <2> QED
    BY <2>1, <2>3 DEF PoolInfo
<1> HIDE DEF sp
<1>4. staking_pools' \in Seq(PoolInfo) /\ DOMAIN staking_pools' = DOMAIN staking_pools
  <2>1. PICK n \in Nat : DOMAIN staking_pools = 1..n
    BY <1>1 DEF TypeOK
  <2> QED
    BY <1>2, <1>3, <2>1
<1>5. LockDiscipline'
  <2>1. InFlight' = InFlight
    BY <1>2 DEF InFlight
  <2>2. \A i \in DOMAIN staking_pools :
           /\ staking_pools'[i].account_id = staking_pools[i].account_id
           /\ staking_pools'[i].busy_lock = staking_pools[i].busy_lock
           /\ staking_pools'[i].staked = staking_pools[i].staked
           /\ staking_pools'[i].unstaked = staking_pools[i].unstaked
    BY <1>2, <1>3
  <2> QED
    BY <1>2, <1>4, <2>1, <2>2 DEF IInv, LockDiscipline
<1>6. /\ env_balance' \in Nat /\ registered' \in Nat
      /\ contract_busy' \in BOOLEAN /\ staking_paused' \in BOOLEAN
  BY <1>1, <1>2 DEF TypeOK, TotalsNat, booksUnchanged, moneyVars, userVars
<1> QED
  BY <1>2, <1>4, <1>5, <1>6, OwnerCallSafe DEF booksUnchanged, moneyVars, userVars

(* Accounts are opened and closed outside of the books.                    *)
LEMMA StorageCallsSafe ==
  ASSUME IInv, StorageCalls
  PROVE  IInv'
<1>1. TypeOK /\ TotalsNat /\ LockDiscipline
  BY DEF IInv, TypeOK
<1>2. storageStepUnchanged /\ registered' \in Nat /\ env_balance' \in Nat
  BY <1>1, StorageCallsPay
<1>3. LockDiscipline'
  BY <1>1, <1>2, LocksKept DEF storageStepUnchanged
<1>4. UNCHANGED <<contract_busy, staking_paused, staking_pools, promises>>
  BY <1>2 DEF storageStepUnchanged, listVars
<1> QED
  BY <1>1, <1>2, <1>3, <1>4, OwnerCallSafe DEF storageStepUnchanged, TypeOK

(* The sweep leaves the account with a natural balance.                    *)
LEMMA TransferExtraBalanceSafe ==
  ASSUME IInv, TransferExtraBalance
  PROVE  IInv'
<1>1. TotalsNat /\ TypeOK /\ LockDiscipline
  BY DEF IInv, TypeOK
<1>2. ONE_NEAR \in Nat /\ SWEEP_MARGIN \in Nat /\ SWEEP_MARGIN <= ONE_NEAR
  BY ThresholdsAssumption
<1>3. ExtraBalance \in Nat /\ ExtraBalance <= env_balance
  BY <1>1, MonusNat DEF TotalsNat, ExtraBalance
<1>4. env_balance' \in Nat
  BY <1>1, <1>2, <1>3 DEF TransferExtraBalance, TotalsNat
<1>5. registered' \in Nat
  BY <1>1 DEF TransferExtraBalance, TotalsNat, userVars
<1>6. LockDiscipline'
  BY <1>1, LocksKept DEF TransferExtraBalance
<1>7. UNCHANGED <<contract_busy, staking_paused, staking_pools, promises>>
  BY DEF TransferExtraBalance, listVars
<1> QED
  BY <1>1, <1>4, <1>5, <1>6, <1>7, OwnerCallSafe DEF TransferExtraBalance, TypeOK, userVars

(* Locks released by hand, and changes of the list: at rest.               *)
LEMMA AtRestSafe ==
  ASSUME IInv, InFlight = {}, UNCHANGED <<staking_paused, promises>>, booksUnchanged,
         contract_busy' \in BOOLEAN, staking_pools' \in Seq(PoolInfo)
  PROVE  IInv'
<1>1. LockDiscipline'
  BY DEF LockDiscipline, InFlight
<1>2. env_balance' \in Nat /\ registered' \in Nat /\ staking_paused' \in BOOLEAN
  BY DEF IInv, TypeOK, TotalsNat, booksUnchanged, moneyVars, userVars
<1> QED
  BY <1>1, <1>2, OwnerCallSafe DEF booksUnchanged, moneyVars, userVars

LEMMA ReleasedByHandSafe ==
  ASSUME IInv, InFlight = {},
         \/ SetBusy(FALSE)
         \/ \E i \in DOMAIN staking_pools : SpBusy(i, FALSE)
         \/ Migrate
  PROVE  IInv'
<1>1. TypeOK
  BY DEF IInv
<1>2. CASE SetBusy(FALSE)
  BY <1>1, <1>2, AtRestSafe DEF SetBusy, TypeOK
<1>3. ASSUME NEW i \in DOMAIN staking_pools, SpBusy(i, FALSE)
      PROVE  IInv'
  <2> DEFINE sp == [staking_pools[i] EXCEPT !.busy_lock = FALSE]
  <2>1. sp \in PoolInfo
    BY <1>1, PoolTyped DEF PoolInfo
  <2>2. /\ staking_pools' = [staking_pools EXCEPT ![i] = sp]
        /\ UNCHANGED <<contract_busy, staking_paused, promises>>
        /\ booksUnchanged
    BY <1>3 DEF SpBusy
  <2> HIDE DEF sp
  <2>3. staking_pools' \in Seq(PoolInfo)
    BY <1>1, <2>1, <2>2, RecordReplaced
  <2> QED
    BY <1>1, <2>2, <2>3, AtRestSafe DEF TypeOK
<1>4. CASE Migrate
  BY <1>1, <1>4, AtRestSafe DEF Migrate, TypeOK
<1> QED
  BY <1>2, <1>3, <1>4

LEMMA PoolListCallsSafe ==
  ASSUME IInv, promises = {}, PoolListCalls
  PROVE  IInv'
<1>1. TypeOK /\ InFlight = {}
  BY DEF IInv, InFlight
<1>2. ASSUME NEW id \in PoolIds, AddStakingPool(id)
      PROVE  IInv'
  <2>1. NewPool(id) \in PoolInfo
    BY DEF NewPool, PoolInfo
  <2>2. staking_pools' \in Seq(PoolInfo)
    BY <1>1, <1>2, <2>1 DEF AddStakingPool, TypeOK
  <2> QED
    BY <1>1, <1>2, <2>2, AtRestSafe DEF AddStakingPool, TypeOK
<1>3. ASSUME NEW i \in DOMAIN staking_pools, RemoveStakingPool(i)
      PROVE  IInv'
  <2>1. staking_pools' \in Seq(PoolInfo)
    BY <1>1, <1>3 DEF RemoveStakingPool, RemoveAt, TypeOK
  <2> QED
    BY <1>1, <1>3, <2>1, AtRestSafe DEF RemoveStakingPool, TypeOK
<1> QED
  BY <1>2, <1>3 DEF PoolListCalls

-----------------------------------------------------------------------------
(* The invariant of the contract run by a careful operator.                *)

LEMMA InitSafe == Init => IInv
<1> SUFFICES ASSUME Init PROVE IInv
  OBVIOUS
<1> USE DEF Init, InitWith
<1>1. TypeOK
  <2>1. pool_account \in [PoolIds -> PoolAccount]
    BY DEF PoolAccount, EmptyAccount
  <2>2. TotalsNat
    BY ThresholdsAssumption DEF TotalsNat
  <2>3. staking_pools \in Seq(PoolInfo)
    OBVIOUS
  <2> QED
    BY <2>1, <2>2, <2>3 DEF TypeOK
<1>2. LockDiscipline
  BY DEF LockDiscipline, InFlight
<1>3. ClaimsCovered /\ Solvency /\ ReserveWithinClaims
  BY DEF ClaimsCovered, Owed, Coming, Solvency, Booked, ReserveWithinClaims
<1> QED
  BY <1>1, <1>2, <1>3 DEF IInv

LEMMA StepSafe == IInv /\ [CarefulNext]_vars => IInv'
<1> SUFFICES ASSUME IInv, [CarefulNext]_vars
             PROVE  IInv'
  OBVIOUS
<1>1. CASE Ordinary
  BY <1>1, UserCallsSafe, StorageCallsSafe, HeartbeatCallsSafe, PoolStepsSafe, CallbacksSafe,
     PauseStakingSafe, SetStakingPoolsSafe, TransferExtraBalanceSafe DEF Ordinary
<1>2. CASE /\ InFlight = {}
           /\ \/ SetBusy(FALSE)
              \/ \E i \in DOMAIN staking_pools : SpBusy(i, FALSE)
              \/ Migrate
  BY <1>2, ReleasedByHandSafe
<1>3. CASE promises = {} /\ PoolListCalls
  BY <1>3, PoolListCallsSafe
<1>4. CASE UNCHANGED vars
  <2> USE <1>4 DEF vars, orderVars, userVars, stakeVars, moneyVars, listVars, worldVars
  <2>1. TypeOK'
    BY DEF IInv, TypeOK, TotalsNat
  <2>2. LockDiscipline'
    BY LocksKept DEF IInv
  <2>3. ClaimsCovered' /\ Solvency' /\ ReserveWithinClaims'
    BY DEF IInv, ClaimsCovered, Owed, Coming, Solvency, Booked, ReserveWithinClaims
  <2> QED
    BY <2>1, <2>2, <2>3 DEF IInv
<1> QED
  BY <1>1, <1>2, <1>3, <1>4 DEF CarefulNext

(* The inductive invariant holds in every reachable state.                 *)
THEOREM Invariance == CarefulSpec => []IInv
  BY InitSafe, StepSafe, PTL DEF CarefulSpec

(* No total of the contract ever becomes negative, whatever its pools do.  *)
THEOREM TypeCorrect == CarefulSpec => []TypeOK
<1>1. IInv => TypeOK
  BY DEF IInv
<1> QED
  BY <1>1, Invariance, PTL

(* At most one locking call is in flight, and its callback finds the pool  *)
(* it was sent to, locked, with what it subtracts.                         *)
THEOREM LockDisciplineHolds == CarefulSpec => []LockDiscipline
<1>1. IInv => LockDiscipline
  BY DEF IInv
<1> QED
  BY <1>1, Invariance, PTL

(* The claims of the users are covered (lib.rs:125), with the orders of    *)
(* the unstake in flight.                                                  *)
THEOREM ClaimsAlwaysCovered == CarefulSpec => []ClaimsCovered
<1>1. IInv => ClaimsCovered
  BY DEF IInv
<1> QED
  BY <1>1, Invariance, PTL

(* The books never promise the same NEAR twice.                            *)
THEOREM AlwaysSolvent == CarefulSpec => []Solvency
<1>1. IInv => Solvency
  BY DEF IInv
<1> QED
  BY <1>1, Invariance, PTL

(* The reserve for claims never exceeds the claims.                        *)
THEOREM ReserveBounded == CarefulSpec => []ReserveWithinClaims
<1>1. IInv => ReserveWithinClaims
  BY DEF IInv
<1> QED
  BY <1>1, Invariance, PTL
=============================================================================
