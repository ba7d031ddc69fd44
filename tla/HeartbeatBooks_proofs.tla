------------------------ MODULE HeartbeatBooks_proofs ------------------------
(***************************************************************************)
(* The exact books of the heartbeat, for pools that round by any DRIFT,    *)
(* earn any rewards and refuse or fail any call, and with new code         *)
(* deployed while calls are in flight, so that any number of them is       *)
(* (UpgradedSpec).  The argument needs no contract-wide lock: each pool    *)
(* serves one call at a time, and the sums over the calls in flight make   *)
(* up for what they have taken out of the totals already.                  *)
(***************************************************************************)
EXTENDS Heartbeat_proofs, Sums_proofs

\* A pool has one call in flight at most; its lock is held, and its record is
\* still the one the call was sent with.
CallsOK ==
  /\ IsFiniteSet(promises)
  /\ \A p \in promises :
        /\ p.kind # "unstaked_balance"
        /\ p.inx \in DOMAIN staking_pools
        /\ staking_pools[p.inx].account_id = p.pool
        /\ staking_pools[p.inx].busy_lock
        /\ p.kind = "unstake" => staking_pools[p.inx].staked >= p.amount + p.rebalance
        /\ p.kind = "stake" => staking_pools[p.inx].unstaked >= p.amount
  /\ \A p, q \in promises : p.inx = q.inx => p = q
  /\ \A i, j \in DOMAIN staking_pools :
        staking_pools[i].account_id = staking_pools[j].account_id => i = j

\* The records sum up to the totals.  A pool that rounds may have paid out more
\* than was on record; when its balance is asked for, its record falls behind.
StakedSum   == SumOf(StakedRecords)
UnstakedSum == SumOf(UnstakedRecords)
RecordsOK ==
  /\ total_unstaked_and_waiting = UnstakedSum
  /\ StakedSum + Staking <= total_actually_staked + Unstaking

\* What the record will be once the call p has settled is there in the pool.
Settles(p, recorded, unstaked) ==
  /\ p.kind \in {"deposit_and_stake", "total_balance"} => recorded <= unstaked
  /\ p.kind = "total_balance" => recorded <= p.answer
  /\ p.kind = "stake" => recorded <= unstaked + p.amount
  /\ p.kind = "unstake" => recorded + p.amount + p.rebalance <= unstaked
PoolsOK ==
  /\ \A i \in DOMAIN staking_pools :
        (\A p \in promises : p.inx = i => p.stage # "ok")
          => staking_pools[i].unstaked <= pool_account[staking_pools[i].account_id].unstaked
  /\ \A p \in promises : p.stage = "ok" =>
        Settles(p, staking_pools[p.inx].unstaked, pool_account[p.pool].unstaked)

BooksOK == ClaimsExact /\ BooksExact /\ StakeExplained /\ ReserveWithinClaims

(* The inductive invariant.                                                *)
PInv == TypeOK /\ CallsOK /\ RecordsOK /\ PoolsOK /\ BooksOK

-----------------------------------------------------------------------------
(* The sums.                                                               *)

(* What a promise counts for.                                              *)
LEMMA CountsNat ==
  ASSUME NEW p \in Promises
  PROVE  /\ StakingOf(p) \in Nat /\ UnstakingOf(p) \in Nat /\ RebalancingOf(p) \in Nat
         /\ RebalancingOf(p) <= UnstakingOf(p)
BY DEF Promises, StakingOf, UnstakingOf, RebalancingOf

(* The list of pools is finite.                                            *)
LEMMA PoolsFinite ==
  ASSUME TypeOK
  PROVE  /\ IsFiniteSet(DOMAIN staking_pools)
         /\ StakedRecords \in [DOMAIN staking_pools -> Nat]
         /\ UnstakedRecords \in [DOMAIN staking_pools -> Nat]
<1>1. DOMAIN staking_pools = 1..Len(staking_pools) /\ Len(staking_pools) \in Nat
  BY DEF TypeOK
<1>2. IsFiniteSet(1..Len(staking_pools))
  BY <1>1, FS_Interval
<1>3. \A i \in DOMAIN staking_pools :
         staking_pools[i].staked \in Nat /\ staking_pools[i].unstaked \in Nat
  BY PoolTyped
<1> QED
  BY <1>1, <1>2, <1>3 DEF StakedRecords, UnstakedRecords

(* All the sums are naturals, and of what is unstaked a part is rebalanced. *)
LEMMA SumsNat ==
  ASSUME TypeOK, CallsOK
  PROVE  /\ Staking \in Nat /\ Unstaking \in Nat /\ Rebalancing \in Nat
         /\ Rebalancing <= Unstaking
         /\ StakedSum \in Nat /\ UnstakedSum \in Nat
<1> DEFINE s == [p \in promises |-> StakingOf(p)]
           u == [p \in promises |-> UnstakingOf(p)]
           r == [p \in promises |-> RebalancingOf(p)]
           h == [p \in promises |-> p]
<1>1. IsFiniteSet(promises)
  BY DEF CallsOK
<1>2. s \in [promises -> Nat] /\ u \in [promises -> Nat] /\ r \in [promises -> Nat]
  BY CountsNat DEF TypeOK
<1>3. \A p \in promises : r[p] <= u[h[p]]
  BY CountsNat DEF TypeOK
<1>4. h \in [promises -> promises] /\ \A p, q \in promises : h[p] = h[q] => p = q
  OBVIOUS
<1>5. SumOf(s) \in Nat /\ SumOf(u) \in Nat /\ SumOf(r) \in Nat
  <2> HIDE DEF s, u, r
  <2> QED
    BY <1>1, <1>2, SumNat
<1>6. SumOf(r) <= SumOf(u)
  <2>1. Fits(promises, promises, h, r, u)
    BY <1>3, <1>4 DEF Fits
  <2> HIDE DEF u, r, h
  <2> QED
    BY <1>1, <1>2, <2>1, SumInjected
<1>7. StakedSum \in Nat /\ UnstakedSum \in Nat
  BY PoolsFinite, SumNat DEF StakedSum, UnstakedSum
<1> QED
  BY <1>5, <1>6, <1>7 DEF Staking, Unstaking, Rebalancing

(* One more call among those in flight adds what it counts for.            *)
StakingIn(S)     == SumOf([p \in S |-> StakingOf(p)])
UnstakingIn(S)   == SumOf([p \in S |-> UnstakingOf(p)])
RebalancingIn(S) == SumOf([p \in S |-> RebalancingOf(p)])

LEMMA CountAdded ==
  ASSUME NEW S, IsFiniteSet(S), S \subseteq Promises, NEW call \in Promises, call \notin S
  PROVE  /\ StakingIn(S \cup {call}) = StakingIn(S) + StakingOf(call)
         /\ UnstakingIn(S \cup {call}) = UnstakingIn(S) + UnstakingOf(call)
         /\ RebalancingIn(S \cup {call}) = RebalancingIn(S) + RebalancingOf(call)
<1> DEFINE T == S \cup {call}
           s(U) == [p \in U |-> StakingOf(p)]
           u(U) == [p \in U |-> UnstakingOf(p)]
           r(U) == [p \in U |-> RebalancingOf(p)]
<1>1. call \in T /\ T \subseteq Promises /\ \A p : p \in T <=> p \in S \/ p = call
  OBVIOUS
<1> HIDE DEF T
<1>2. /\ s(S) \in [S -> Nat] /\ s(T) \in [T -> Nat]
      /\ u(S) \in [S -> Nat] /\ u(T) \in [T -> Nat]
      /\ r(S) \in [S -> Nat] /\ r(T) \in [T -> Nat]
  BY <1>1, CountsNat
<1>3. /\ \A p \in S : s(T)[p] = s(S)[p] /\ u(T)[p] = u(S)[p] /\ r(T)[p] = r(S)[p]
      /\ s(T)[call] = StakingOf(call) /\ u(T)[call] = UnstakingOf(call)
      /\ r(T)[call] = RebalancingOf(call)
  BY <1>1
<1>4. /\ StakingIn(S) = SumOf(s(S)) /\ StakingIn(T) = SumOf(s(T))
      /\ UnstakingIn(S) = SumOf(u(S)) /\ UnstakingIn(T) = SumOf(u(T))
      /\ RebalancingIn(S) = SumOf(r(S)) /\ RebalancingIn(T) = SumOf(r(T))
  BY DEF StakingIn, UnstakingIn, RebalancingIn
<1> HIDE DEF s, u, r
<1>5. SumOf(s(T)) = SumOf(s(S)) + s(T)[call]
  BY <1>1, <1>2, <1>3, SumAdded
<1>6. SumOf(u(T)) = SumOf(u(S)) + u(T)[call]
  BY <1>1, <1>2, <1>3, SumAdded
<1>7. SumOf(r(T)) = SumOf(r(S)) + r(T)[call]
  BY <1>1, <1>2, <1>3, SumAdded
<1> QED
  BY <1>3, <1>4, <1>5, <1>6, <1>7 DEF T

LEMMA CountsInFlight ==
  /\ Staking = StakingIn(promises) /\ Unstaking = UnstakingIn(promises)
  /\ Rebalancing = RebalancingIn(promises)
  /\ Staking' = StakingIn(promises') /\ Unstaking' = UnstakingIn(promises')
  /\ Rebalancing' = RebalancingIn(promises')
BY DEF Staking, Unstaking, Rebalancing, StakingIn, UnstakingIn, RebalancingIn

(* A call is sent: it counts from now on.                                  *)
LEMMA CountSent ==
  ASSUME TypeOK, CallsOK, NEW STATE call, call \in Promises,
         call \notin promises, promises' = promises \cup {call}
  PROVE  /\ Staking' = Staking + StakingOf(call)
         /\ Unstaking' = Unstaking + UnstakingOf(call)
         /\ Rebalancing' = Rebalancing + RebalancingOf(call)
BY CountAdded, CountsInFlight DEF TypeOK, CallsOK

(* Any finite set of calls counts for naturals.                            *)
LEMMA CountsTyped ==
  ASSUME NEW S, IsFiniteSet(S), S \subseteq Promises
  PROVE  StakingIn(S) \in Nat /\ UnstakingIn(S) \in Nat /\ RebalancingIn(S) \in Nat
<1> DEFINE s == [p \in S |-> StakingOf(p)]
           u == [p \in S |-> UnstakingOf(p)]
           r == [p \in S |-> RebalancingOf(p)]
<1>1. s \in [S -> Nat] /\ u \in [S -> Nat] /\ r \in [S -> Nat]
  BY CountsNat
<1> HIDE DEF s, u, r
<1>2. SumOf(s) \in Nat /\ SumOf(u) \in Nat /\ SumOf(r) \in Nat
  BY <1>1, SumNat
<1> QED
  BY <1>2 DEF StakingIn, UnstakingIn, RebalancingIn, s, u, r

(* A call has been settled: it counts no more.                             *)
LEMMA CountConsumed ==
  ASSUME TypeOK, CallsOK, NEW p \in promises, promises' = promises \ {p}
  PROVE  /\ StakingOf(p) <= Staking /\ Staking' = Staking - StakingOf(p)
         /\ UnstakingOf(p) <= Unstaking /\ Unstaking' = Unstaking - UnstakingOf(p)
         /\ RebalancingOf(p) <= Rebalancing /\ Rebalancing' = Rebalancing - RebalancingOf(p)
<1> DEFINE T == promises \ {p}
<1>1. /\ IsFiniteSet(T) /\ T \subseteq Promises /\ p \notin T
      /\ p \in Promises /\ promises = T \cup {p} /\ promises' = T
  BY FS_RemoveElement DEF TypeOK, CallsOK
<1> HIDE DEF T
<1>2. /\ StakingIn(promises) = StakingIn(T) + StakingOf(p)
      /\ UnstakingIn(promises) = UnstakingIn(T) + UnstakingOf(p)
      /\ RebalancingIn(promises) = RebalancingIn(T) + RebalancingOf(p)
  BY <1>1, CountAdded
<1>3. /\ StakingIn(T) \in Nat /\ UnstakingIn(T) \in Nat /\ RebalancingIn(T) \in Nat
      /\ StakingOf(p) \in Nat /\ UnstakingOf(p) \in Nat /\ RebalancingOf(p) \in Nat
  BY <1>1, CountsTyped, CountsNat
<1>4. /\ StakingOf(p) <= StakingIn(promises)
      /\ StakingIn(T) = StakingIn(promises) - StakingOf(p)
      /\ UnstakingOf(p) <= UnstakingIn(promises)
      /\ UnstakingIn(T) = UnstakingIn(promises) - UnstakingOf(p)
      /\ RebalancingOf(p) <= RebalancingIn(promises)
      /\ RebalancingIn(T) = RebalancingIn(promises) - RebalancingOf(p)
  BY <1>2, <1>3
<1> QED
  BY <1>1, <1>4, CountsInFlight

(* A call that has been executed counts as much as before.                 *)
LEMMA CountAnswered ==
  ASSUME TypeOK, CallsOK, NEW p \in promises, NEW stage \in Stages \ {p.stage},
         NEW STATE answer, answer \in Nat, Answer(p, stage, answer)
  PROVE  LET r == [p EXCEPT !.stage = stage, !.answer = answer] IN
         /\ r \in Promises /\ r \notin promises
         /\ r.kind = p.kind /\ r.inx = p.inx /\ r.pool = p.pool
         /\ r.amount = p.amount /\ r.rebalance = p.rebalance
         /\ r.stage = stage /\ r.answer = answer
         /\ promises' = (promises \ {p}) \cup {r}
         /\ Staking' = Staking /\ Unstaking' = Unstaking /\ Rebalancing' = Rebalancing
<1> DEFINE r == [p EXCEPT !.stage = stage, !.answer = answer]
           T == promises \ {p}
<1>1. p \in Promises /\ promises \subseteq Promises /\ IsFiniteSet(promises)
  BY DEF TypeOK, CallsOK
<1>2. /\ r \in Promises
      /\ r.kind = p.kind /\ r.inx = p.inx /\ r.pool = p.pool
      /\ r.amount = p.amount /\ r.rebalance = p.rebalance
      /\ r.stage = stage /\ r.answer = answer
  BY <1>1 DEF Promises
<1>3. r \notin promises
  <2>1. r # p
    BY <1>2
  <2> QED
    BY <1>2, <2>1 DEF CallsOK
<1>4. promises' = (promises \ {p}) \cup {r}
  BY DEF Answer
<1>5. /\ StakingOf(r) = StakingOf(p) /\ UnstakingOf(r) = UnstakingOf(p)
      /\ RebalancingOf(r) = RebalancingOf(p)
  BY <1>2 DEF StakingOf, UnstakingOf, RebalancingOf
<1> HIDE DEF r
<1>6. /\ IsFiniteSet(T) /\ T \subseteq Promises /\ p \notin T /\ r \notin T
      /\ T \cup {p} = promises /\ T \cup {r} = promises'
  BY <1>1, <1>3, <1>4, FS_RemoveElement
<1> HIDE DEF T
<1>7. /\ StakingIn(T \cup {p}) = StakingIn(T \cup {r})
      /\ UnstakingIn(T \cup {p}) = UnstakingIn(T \cup {r})
      /\ RebalancingIn(T \cup {p}) = RebalancingIn(T \cup {r})
  BY <1>1, <1>2, <1>5, <1>6, CountAdded
<1> QED
  BY <1>2, <1>3, <1>4, <1>6, <1>7, CountsInFlight DEF r

(* One record is replaced.                                                 *)
LEMMA RecordSums ==
  ASSUME TypeOK, NEW i \in DOMAIN staking_pools, NEW sp \in PoolInfo,
         staking_pools' = [staking_pools EXCEPT ![i] = sp]
  PROVE  /\ StakedSum' + staking_pools[i].staked = StakedSum + sp.staked
         /\ UnstakedSum' + staking_pools[i].unstaked = UnstakedSum + sp.unstaked
<1>1. /\ DOMAIN staking_pools' = DOMAIN staking_pools /\ staking_pools'[i] = sp
      /\ \A j \in DOMAIN staking_pools : j # i => staking_pools'[j] = staking_pools[j]
  BY RecordReplaced
<1>2. sp.staked \in Nat /\ sp.unstaked \in Nat
  BY DEF PoolInfo
<1> DEFINE D == DOMAIN staking_pools
<1>3. /\ IsFiniteSet(D) /\ StakedRecords \in [D -> Nat] /\ UnstakedRecords \in [D -> Nat]
      /\ \A j \in D : StakedRecords[j] = staking_pools[j].staked
      /\ \A j \in D : UnstakedRecords[j] = staking_pools[j].unstaked
  BY PoolsFinite DEF StakedRecords, UnstakedRecords
<1>4. /\ StakedRecords' = [j \in D |-> staking_pools'[j].staked]
      /\ UnstakedRecords' = [j \in D |-> staking_pools'[j].unstaked]
  BY <1>1 DEF StakedRecords, UnstakedRecords
<1>5. /\ StakedRecords' \in [D -> Nat] /\ UnstakedRecords' \in [D -> Nat]
      /\ StakedRecords'[i] = sp.staked /\ UnstakedRecords'[i] = sp.unstaked
      /\ \A j \in D \ {i} : /\ StakedRecords'[j] = StakedRecords[j]
                            /\ UnstakedRecords'[j] = UnstakedRecords[j]
  <2>1. \A j \in D : staking_pools'[j].staked \in Nat /\ staking_pools'[j].unstaked \in Nat
    BY <1>1, <1>2, PoolTyped
  <2> QED
    BY <1>1, <1>3, <1>4, <2>1
<1> HIDE DEF D
<1>6. i \in D
  BY DEF D
<1>7. /\ SumOf(StakedRecords') + StakedRecords[i] = SumOf(StakedRecords) + StakedRecords'[i]
      /\ SumOf(UnstakedRecords') + UnstakedRecords[i]
           = SumOf(UnstakedRecords) + UnstakedRecords'[i]
  BY <1>3, <1>5, <1>6, SumChanged
<1> QED
  BY <1>3, <1>5, <1>6, <1>7 DEF StakedSum, UnstakedSum

-----------------------------------------------------------------------------
(* What a step does to the calls and the records.                          *)

(* What no amount and no owner of a record has changed by.                 *)
LEMMA CallsKept ==
  ASSUME TypeOK, CallsOK, PoolsOK, UNCHANGED promises,
         DOMAIN staking_pools' = DOMAIN staking_pools,
         \A i \in DOMAIN staking_pools :
            /\ staking_pools'[i].account_id = staking_pools[i].account_id
            /\ staking_pools'[i].staked = staking_pools[i].staked
            /\ staking_pools'[i].unstaked = staking_pools[i].unstaked,
         \A p \in promises : staking_pools'[p.inx].busy_lock = staking_pools[p.inx].busy_lock,
         \A id \in PoolIds : pool_account'[id].unstaked = pool_account[id].unstaked
  PROVE  /\ CallsOK' /\ PoolsOK'
         /\ UNCHANGED <<Staking, Unstaking, Rebalancing, StakedSum, UnstakedSum>>
<1>1. UNCHANGED <<StakedRecords, UnstakedRecords>>
  BY DEF StakedRecords, UnstakedRecords
<1>2. UNCHANGED <<StakedSum, UnstakedSum>>
  BY <1>1 DEF StakedSum, UnstakedSum
<1>3. UNCHANGED <<Staking, Unstaking, Rebalancing>>
  BY CountsInFlight
<1>4. CallsOK'
  BY DEF CallsOK
<1>5. \A i \in DOMAIN staking_pools : staking_pools[i].account_id \in PoolIds
  BY PoolTyped
<1>6. \A p \in promises : p.pool \in PoolIds /\ p.inx \in DOMAIN staking_pools
  BY DEF TypeOK, Promises, CallsOK
<1>7. PoolsOK'
  BY <1>5, <1>6 DEF PoolsOK
<1> QED
  BY <1>2, <1>3, <1>4, <1>7

(* A call locks a pool that was not locked.                                *)
LEMMA CallSent ==
  ASSUME TypeOK, CallsOK, PoolsOK, NEW STATE call, call \in Promises,
         LockAndSend(call), UNCHANGED pool_account,
         call.kind # "unstaked_balance", call.stage = "sent",
         call.inx \in DOMAIN staking_pools, ~staking_pools[call.inx].busy_lock,
         staking_pools[call.inx].account_id = call.pool,
         call.kind = "unstake" => staking_pools[call.inx].staked >= call.amount + call.rebalance,
         call.kind = "stake" => staking_pools[call.inx].unstaked >= call.amount
  PROVE  /\ CallsOK' /\ PoolsOK'
         /\ contract_busy' \in BOOLEAN /\ UNCHANGED staking_paused
         /\ staking_pools' \in Seq(PoolInfo) /\ promises' \subseteq Promises
         /\ Staking' = Staking + StakingOf(call)
         /\ Unstaking' = Unstaking + UnstakingOf(call)
         /\ Rebalancing' = Rebalancing + RebalancingOf(call)
         /\ UNCHANGED <<StakedSum, UnstakedSum>>
<1> DEFINE sp == [staking_pools[call.inx] EXCEPT !.busy_lock = TRUE]
<1>1. sp \in PoolInfo
  BY PoolTyped DEF PoolInfo
<1>2. staking_pools' = [staking_pools EXCEPT ![call.inx] = sp]
  BY DEF LockAndSend
<1>3. /\ sp.account_id = staking_pools[call.inx].account_id
      /\ sp.staked = staking_pools[call.inx].staked
      /\ sp.unstaked = staking_pools[call.inx].unstaked
      /\ sp.busy_lock
  BY PoolTyped DEF PoolInfo
<1> HIDE DEF sp
<1>4. /\ staking_pools' \in Seq(PoolInfo)
      /\ DOMAIN staking_pools' = DOMAIN staking_pools
      /\ staking_pools'[call.inx] = sp
      /\ \A j \in DOMAIN staking_pools : j # call.inx => staking_pools'[j] = staking_pools[j]
  BY <1>1, <1>2, RecordReplaced
<1>5. \A i \in DOMAIN staking_pools :
         /\ staking_pools'[i].account_id = staking_pools[i].account_id
         /\ staking_pools'[i].staked = staking_pools[i].staked
         /\ staking_pools'[i].unstaked = staking_pools[i].unstaked
  BY <1>3, <1>4
<1>6. /\ call \notin promises /\ promises' = promises \cup {call}
      /\ contract_busy' /\ UNCHANGED staking_paused
  BY DEF LockAndSend, Send
<1>7. \A p \in promises : p.inx # call.inx
  BY DEF CallsOK
<1>8. CallsOK'
  <2>1. IsFiniteSet(promises')
    BY <1>6, FS_AddElement DEF CallsOK
  <2>2. ASSUME NEW p \in promises'
        PROVE  /\ p.kind # "unstaked_balance"
               /\ p.inx \in DOMAIN staking_pools'
               /\ staking_pools'[p.inx].account_id = p.pool
               /\ staking_pools'[p.inx].busy_lock
               /\ p.kind = "unstake" => staking_pools'[p.inx].staked >= p.amount + p.rebalance
               /\ p.kind = "stake" => staking_pools'[p.inx].unstaked >= p.amount
    <3>1. CASE p = call
      BY <1>3, <1>4, <3>1
    <3>2. CASE p \in promises
      BY <1>4, <1>7, <3>2 DEF CallsOK
    <3> QED
      BY <1>6, <3>1, <3>2
  <2>3. \A p, q \in promises' : p.inx = q.inx => p = q
    BY <1>6, <1>7 DEF CallsOK
  <2>4. \A i, j \in DOMAIN staking_pools' :
           staking_pools'[i].account_id = staking_pools'[j].account_id => i = j
    BY <1>4, <1>5 DEF CallsOK
  <2> QED
    BY <2>1, <2>2, <2>3, <2>4 DEF CallsOK
<1>9. PoolsOK'
  <2>1. ASSUME NEW i \in DOMAIN staking_pools', \A p \in promises' : p.inx = i => p.stage # "ok"
        PROVE  staking_pools'[i].unstaked <= pool_account'[staking_pools'[i].account_id].unstaked
    <3>1. \A p \in promises : p.inx = i => p.stage # "ok"
      BY <1>6, <2>1
    <3> QED
      BY <1>4, <1>5, <2>1, <3>1 DEF PoolsOK
  <2>2. ASSUME NEW p \in promises', p.stage = "ok"
        PROVE  Settles(p, staking_pools'[p.inx].unstaked, pool_account'[p.pool].unstaked)
    <3>1. p \in promises /\ p.inx \in DOMAIN staking_pools
      BY <1>6, <2>2 DEF CallsOK
    <3>2. Settles(p, staking_pools[p.inx].unstaked, pool_account[p.pool].unstaked)
      BY <2>2, <3>1 DEF PoolsOK
    <3> QED
      BY <1>5, <3>1, <3>2
  <2> QED
    BY <2>1, <2>2 DEF PoolsOK
<1>10. UNCHANGED <<StakedSum, UnstakedSum>>
  <2>1. UNCHANGED <<StakedRecords, UnstakedRecords>>
    BY <1>4, <1>5 DEF StakedRecords, UnstakedRecords
  <2> QED
    BY <2>1 DEF StakedSum, UnstakedSum
<1>11. promises' \subseteq Promises /\ contract_busy' \in BOOLEAN /\ UNCHANGED staking_paused
  BY <1>6 DEF TypeOK
<1>12. /\ Staking' = Staking + StakingOf(call)
       /\ Unstaking' = Unstaking + UnstakingOf(call)
       /\ Rebalancing' = Rebalancing + RebalancingOf(call)
  BY <1>6, CountSent
<1> QED
  BY <1>4, <1>8, <1>9, <1>10, <1>11, <1>12

(* A pool has executed a call: if it has done what was asked, the account  *)
(* holds what will be recorded; if it has not, nothing has changed.        *)
LEMMA CallAnswered ==
  ASSUME TypeOK, CallsOK, PoolsOK, NEW p \in promises, p.stage = "sent",
         NEW stage \in {"ok", "failed"}, NEW STATE answer, answer \in Nat,
         Answer(p, stage, answer), UNCHANGED staking_pools,
         pool_account' \in [PoolIds -> PoolAccount],
         \A id \in PoolIds \ {p.pool} : pool_account'[id] = pool_account[id],
         stage = "failed" => UNCHANGED pool_account,
         stage = "ok" => Settles([p EXCEPT !.stage = stage, !.answer = answer],
                                 staking_pools[p.inx].unstaked, pool_account'[p.pool].unstaked)
  PROVE  /\ CallsOK' /\ PoolsOK' /\ promises' \subseteq Promises
         /\ UNCHANGED <<Staking, Unstaking, Rebalancing, StakedSum, UnstakedSum>>
<1> DEFINE r == [p EXCEPT !.stage = stage, !.answer = answer]
<1>1. stage \in Stages \ {p.stage}
  BY DEF Stages
<1>2. /\ r \in Promises /\ r \notin promises
      /\ r.kind = p.kind /\ r.inx = p.inx /\ r.pool = p.pool
      /\ r.amount = p.amount /\ r.rebalance = p.rebalance
      /\ r.stage = stage /\ r.answer = answer
      /\ promises' = (promises \ {p}) \cup {r}
      /\ Staking' = Staking /\ Unstaking' = Unstaking /\ Rebalancing' = Rebalancing
  BY <1>1, CountAnswered
<1>3. stage = "ok" =>
        Settles(r, staking_pools[p.inx].unstaked, pool_account'[p.pool].unstaked)
  OBVIOUS
<1> HIDE DEF r
<1>4. promises' \subseteq Promises
  BY <1>2 DEF TypeOK
<1>5. CallsOK'
  <2>1. IsFiniteSet(promises')
    BY <1>2, FS_RemoveElement, FS_AddElement DEF CallsOK
  <2> QED
    BY <1>2, <2>1 DEF CallsOK
<1>6. PoolsOK'
  <2>1. ASSUME NEW i \in DOMAIN staking_pools', \A q \in promises' : q.inx = i => q.stage # "ok"
        PROVE  staking_pools'[i].unstaked <= pool_account'[staking_pools'[i].account_id].unstaked
    <3>1. staking_pools[i].account_id \in PoolIds
      BY PoolTyped
    <3>2. CASE i = p.inx
      <4>1. stage = "failed"
        BY <1>2, <2>1, <3>2
      <4>2. \A q \in promises : q.inx = i => q.stage # "ok"
        BY <3>2 DEF CallsOK
      <4> QED
        BY <4>1, <4>2 DEF PoolsOK
    <3>3. CASE i # p.inx
      <4>1. \A q \in promises : q.inx = i => q.stage # "ok"
        BY <1>2, <2>1, <3>3
      <4>2. staking_pools[i].account_id # p.pool
        BY <3>3 DEF CallsOK
      <4> QED
        BY <3>1, <4>1, <4>2 DEF PoolsOK
    <3> QED
      BY <3>2, <3>3
  <2>2. ASSUME NEW q \in promises', q.stage = "ok"
        PROVE  Settles(q, staking_pools'[q.inx].unstaked, pool_account'[q.pool].unstaked)
    <3>1. CASE q = r
      BY <1>2, <1>3, <2>2, <3>1
    <3>2. CASE q # r
      <4>1. q \in promises /\ q # p /\ q.inx # p.inx
        BY <1>2, <3>2 DEF CallsOK
      <4>2. q.pool # p.pool /\ q.pool \in PoolIds
        BY <4>1 DEF CallsOK, TypeOK, Promises
      <4> QED
        BY <2>2, <4>1, <4>2 DEF PoolsOK
    <3> QED
      BY <3>1, <3>2
  <2> QED
    BY <2>1, <2>2 DEF PoolsOK
<1>7. UNCHANGED <<StakedSum, UnstakedSum>>
  BY DEF StakedSum, UnstakedSum, StakedRecords, UnstakedRecords
<1> QED
  BY <1>2, <1>4, <1>5, <1>6, <1>7

(* A call has ended: the pool's record is replaced by one that the pool    *)
(* backs.                                                                  *)
LEMMA CallEnded ==
  ASSUME TypeOK, CallsOK, PoolsOK, NEW p \in promises, promises' = promises \ {p},
         NEW STATE sp, sp \in PoolInfo,
         staking_pools' = [staking_pools EXCEPT ![p.inx] = sp], UNCHANGED pool_account,
         sp.account_id = p.pool, sp.unstaked <= pool_account[p.pool].unstaked
  PROVE  /\ CallsOK' /\ PoolsOK'
         /\ staking_pools' \in Seq(PoolInfo) /\ promises' \subseteq Promises
         /\ StakingOf(p) <= Staking /\ Staking' = Staking - StakingOf(p)
         /\ UnstakingOf(p) <= Unstaking /\ Unstaking' = Unstaking - UnstakingOf(p)
         /\ RebalancingOf(p) <= Rebalancing /\ Rebalancing' = Rebalancing - RebalancingOf(p)
         /\ StakedSum' + staking_pools[p.inx].staked = StakedSum + sp.staked
         /\ UnstakedSum' + staking_pools[p.inx].unstaked = UnstakedSum + sp.unstaked
<1>1. p.inx \in DOMAIN staking_pools
  BY DEF CallsOK
<1>2. /\ staking_pools' \in Seq(PoolInfo)
      /\ DOMAIN staking_pools' = DOMAIN staking_pools
      /\ staking_pools'[p.inx] = sp
      /\ \A j \in DOMAIN staking_pools : j # p.inx => staking_pools'[j] = staking_pools[j]
  BY <1>1, RecordReplaced
<1>3. \A q \in promises' : q \in promises /\ q.inx # p.inx /\ q.inx \in DOMAIN staking_pools
  BY DEF CallsOK
<1>4. \A i \in DOMAIN staking_pools : staking_pools'[i].account_id = staking_pools[i].account_id
  BY <1>2 DEF CallsOK
<1>5. CallsOK'
  <2>1. IsFiniteSet(promises')
    BY FS_RemoveElement DEF CallsOK
  <2>2. \A q \in promises' :
           /\ q.kind # "unstaked_balance"
           /\ q.inx \in DOMAIN staking_pools'
           /\ staking_pools'[q.inx].account_id = q.pool
           /\ staking_pools'[q.inx].busy_lock
           /\ q.kind = "unstake" => staking_pools'[q.inx].staked >= q.amount + q.rebalance
           /\ q.kind = "stake" => staking_pools'[q.inx].unstaked >= q.amount
    BY <1>2, <1>3 DEF CallsOK
  <2>3. \A q, x \in promises' : q.inx = x.inx => q = x
    BY <1>3 DEF CallsOK
  <2>4. \A i, j \in DOMAIN staking_pools' :
           staking_pools'[i].account_id = staking_pools'[j].account_id => i = j
    BY <1>2, <1>4 DEF CallsOK
  <2> QED
    BY <2>1, <2>2, <2>3, <2>4 DEF CallsOK
<1>6. PoolsOK'
  <2>1. ASSUME NEW i \in DOMAIN staking_pools', \A q \in promises' : q.inx = i => q.stage # "ok"
        PROVE  staking_pools'[i].unstaked <= pool_account'[staking_pools'[i].account_id].unstaked
    <3>1. CASE i = p.inx
      BY <1>2, <3>1
    <3>2. CASE i # p.inx
      <4>1. \A q \in promises : q.inx = i => q.stage # "ok"
        BY <2>1, <3>2
      <4> QED
        BY <1>2, <3>2, <4>1 DEF PoolsOK
    <3> QED
      BY <3>1, <3>2
  <2>2. \A q \in promises' : q.stage = "ok" =>
           Settles(q, staking_pools'[q.inx].unstaked, pool_account'[q.pool].unstaked)
    BY <1>2, <1>3 DEF PoolsOK
  <2> QED
    BY <2>1, <2>2 DEF PoolsOK
<1>7. promises' \subseteq Promises
  BY DEF TypeOK
<1>8. /\ StakingOf(p) <= Staking /\ Staking' = Staking - StakingOf(p)
      /\ UnstakingOf(p) <= Unstaking /\ Unstaking' = Unstaking - UnstakingOf(p)
      /\ RebalancingOf(p) <= Rebalancing /\ Rebalancing' = Rebalancing - RebalancingOf(p)
  BY CountConsumed
<1>9. /\ StakedSum' + staking_pools[p.inx].staked = StakedSum + sp.staked
      /\ UnstakedSum' + staking_pools[p.inx].unstaked = UnstakedSum + sp.unstaked
  BY <1>1, RecordSums
<1> QED
  BY <1>2, <1>5, <1>6, <1>7, <1>8, <1>9

(* A new pool of the list has nothing, and nothing is on record of it.     *)
LEMMA PoolAdded ==
  ASSUME TypeOK, CallsOK, PoolsOK, promises = {}, NEW id \in PoolIds, AddStakingPool(id)
  PROVE  /\ CallsOK' /\ PoolsOK' /\ staking_pools' \in Seq(PoolInfo)
         /\ UNCHANGED <<Staking, Unstaking, Rebalancing, StakedSum, UnstakedSum>>
<1> DEFINE new == NewPool(id)
           n   == Len(staking_pools)
           D   == DOMAIN staking_pools
           E   == 1..(n + 1)
<1>1. new \in PoolInfo /\ new.account_id = id /\ new.staked = 0 /\ new.unstaked = 0
  BY DEF NewPool, PoolInfo
<1>2. /\ promises' = promises /\ UNCHANGED pool_account
      /\ staking_pools' = Append(staking_pools, new)
      /\ \A i \in D : staking_pools[i].account_id # id
  BY DEF AddStakingPool, booksUnchanged, worldVars
<1> HIDE DEF new
<1>3. /\ n \in Nat /\ D = 1..n /\ n + 1 \notin D /\ IsFiniteSet(D)
      /\ DOMAIN staking_pools' = E /\ n + 1 \in E
      /\ \A i : i \in E <=> i \in D \/ i = n + 1
      /\ staking_pools' \in Seq(PoolInfo)
      /\ staking_pools'[n + 1] = new
      /\ \A i \in D : staking_pools'[i] = staking_pools[i]
  <2>1. n \in Nat /\ D = 1..n /\ IsFiniteSet(D)
    BY PoolsFinite DEF TypeOK
  <2>2. n + 1 \notin D /\ n + 1 \in E /\ \A i : i \in E <=> i \in D \/ i = n + 1
    BY <2>1
  <2> QED
    BY <1>1, <1>2, <2>1, <2>2 DEF TypeOK
<1> HIDE DEF D, E, n
<1>4. CallsOK'
  BY <1>1, <1>2, <1>3 DEF CallsOK, D
<1>5. PoolsOK'
  <2>1. pool_account[id].unstaked \in Nat
    BY DEF TypeOK, PoolAccount
  <2>2. \A i \in D : staking_pools[i].unstaked
                       <= pool_account[staking_pools[i].account_id].unstaked
    BY DEF PoolsOK, D
  <2> QED
    BY <1>1, <1>2, <1>3, <2>1, <2>2 DEF PoolsOK
<1>6. UNCHANGED <<StakedSum, UnstakedSum>>
  <2>1. /\ StakedRecords \in [D -> Nat] /\ UnstakedRecords \in [D -> Nat]
        /\ \A i \in D : /\ StakedRecords[i] = staking_pools[i].staked
                        /\ UnstakedRecords[i] = staking_pools[i].unstaked
    BY PoolsFinite DEF D, StakedRecords, UnstakedRecords
  <2>2. /\ StakedRecords' = [i \in E |-> staking_pools'[i].staked]
        /\ UnstakedRecords' = [i \in E |-> staking_pools'[i].unstaked]
    BY <1>3 DEF StakedRecords, UnstakedRecords
  <2> DEFINE k == n + 1
  <2>3. /\ k \in E /\ k \notin D /\ IsFiniteSet(D) /\ D \subseteq E
        /\ \A i : i \in E <=> i \in D \/ i = k
        /\ staking_pools'[k] = new
        /\ \A i \in D : staking_pools'[i] = staking_pools[i]
    BY <1>3
  <2> HIDE DEF k
  <2>4. \A i \in E : staking_pools'[i].staked \in Nat /\ staking_pools'[i].unstaked \in Nat
    BY <1>1, <2>3, PoolTyped DEF D
  <2>5. /\ StakedRecords' \in [E -> Nat] /\ UnstakedRecords' \in [E -> Nat]
        /\ StakedRecords'[k] = 0 /\ UnstakedRecords'[k] = 0
        /\ \A i \in D : /\ StakedRecords'[i] = StakedRecords[i]
                        /\ UnstakedRecords'[i] = UnstakedRecords[i]
    BY <1>1, <2>1, <2>2, <2>3, <2>4
  <2>6. SumOf(StakedRecords') = SumOf(StakedRecords) + StakedRecords'[k]
    BY <2>1, <2>3, <2>5, SumAdded
  <2>7. SumOf(UnstakedRecords') = SumOf(UnstakedRecords) + UnstakedRecords'[k]
    BY <2>1, <2>3, <2>5, SumAdded
  <2>8. SumOf(StakedRecords) \in Nat /\ SumOf(UnstakedRecords) \in Nat
    BY <2>1, <2>3, SumNat
  <2> QED
    BY <2>5, <2>6, <2>7, <2>8 DEF StakedSum, UnstakedSum
<1>7. UNCHANGED <<Staking, Unstaking, Rebalancing>>
  BY <1>2, CountsInFlight
<1> QED
  BY <1>3, <1>4, <1>5, <1>6, <1>7

(* The pools behind one that leaves the list move down by one index.       *)
LEMMA PoolsMoveDown ==
  ASSUME TypeOK, NEW i \in DOMAIN staking_pools, RemoveStakingPool(i)
  PROVE  /\ staking_pools' \in Seq(PoolInfo)
         /\ DOMAIN staking_pools' = 1..(Len(staking_pools) - 1)
         /\ \A j \in 1..(Len(staking_pools) - 1) :
               staking_pools'[j] = staking_pools[IF j < i THEN j ELSE j + 1]
<1> DEFINE n     == Len(staking_pools)
           up(j) == IF j < i THEN j ELSE j + 1
<1>1. staking_pools' = SubSeq(staking_pools, 1, i - 1) \o SubSeq(staking_pools, i + 1, n)
  BY DEF RemoveStakingPool, RemoveAt
<1>2. /\ n \in Nat /\ i \in 1..n /\ DOMAIN staking_pools = 1..n
      /\ staking_pools \in Seq(PoolInfo)
  BY DEF TypeOK
<1>3. \A j \in 1..(n - 1) :
         /\ up(j) \in 1..n
         /\ j < i => j \in 1..(i - 1)
         /\ ~(j < i) => j - (i - 1) \in 1..(n - i)
  BY <1>2
<1> DEFINE left == SubSeq(staking_pools, 1, i - 1)
           right == SubSeq(staking_pools, i + 1, n)
<1>4. left \in Seq(PoolInfo) /\ right \in Seq(PoolInfo)
  BY <1>2
<1>5. Len(left) = i - 1 /\ Len(right) = n - i
  BY <1>2
<1>6. /\ \A j \in 1..(i - 1) : left[j] = staking_pools[j]
      /\ \A j \in 1..(n - i) : right[j] = staking_pools[i + j]
  BY <1>2
<1> HIDE DEF left, right
<1>7. staking_pools' = left \o right
  BY <1>1 DEF left, right
<1>8. staking_pools' \in Seq(PoolInfo) /\ Len(staking_pools') = n - 1
  <2>1. staking_pools' \in Seq(PoolInfo) /\ Len(staking_pools') = Len(left) + Len(right)
    BY <1>4, <1>7
  <2> QED
    BY <1>2, <1>5, <2>1
<1>9. ASSUME NEW j \in 1..(n - 1)
      PROVE  staking_pools'[j] = staking_pools[up(j)]
  <2>1. CASE j < i
    <3>1. staking_pools'[j] = left[j]
      BY <1>2, <1>4, <1>5, <1>7, <2>1
    <3> QED
      BY <1>3, <1>6, <2>1, <3>1
  <2>2. CASE ~(j < i)
    <3>1. staking_pools'[j] = right[j - (i - 1)]
      BY <1>2, <1>4, <1>5, <1>7, <2>2
    <3>2. i + (j - (i - 1)) = j + 1
      BY <1>2
    <3> QED
      BY <1>3, <1>6, <2>2, <3>1, <3>2
  <2> QED
    BY <2>1, <2>2
<1> QED
  BY <1>8, <1>9

(* A pool that leaves the list takes no record with it.                    *)
LEMMA PoolRemoved ==
  ASSUME TypeOK, CallsOK, PoolsOK, promises = {}, NEW i \in DOMAIN staking_pools,
         RemoveStakingPool(i)
  PROVE  /\ CallsOK' /\ PoolsOK' /\ staking_pools' \in Seq(PoolInfo)
         /\ UNCHANGED <<Staking, Unstaking, Rebalancing, StakedSum, UnstakedSum>>
<1> DEFINE n     == Len(staking_pools)
           up(j) == IF j < i THEN j ELSE j + 1
<1>1. /\ promises' = promises /\ UNCHANGED pool_account
      /\ staking_pools[i].staked = 0 /\ staking_pools[i].unstaked = 0
  BY DEF RemoveStakingPool, is_empty, booksUnchanged, worldVars
<1>2. /\ n \in Nat /\ i \in 1..n /\ DOMAIN staking_pools = 1..n
      /\ staking_pools \in Seq(PoolInfo)
  BY DEF TypeOK
<1>3. \A j \in 1..(n - 1) : up(j) \in 1..n
  BY <1>2
<1>4. /\ staking_pools' \in Seq(PoolInfo)
      /\ DOMAIN staking_pools' = 1..(n - 1)
      /\ \A j \in 1..(n - 1) : staking_pools'[j] = staking_pools[up(j)]
  BY PoolsMoveDown
<1>5. \A j, k \in 1..(n - 1) : up(j) = up(k) => j = k
  BY <1>2
<1> HIDE DEF up
<1> DEFINE D == 1..n
           E == 1..(n - 1)
<1>6. /\ DOMAIN staking_pools = D /\ DOMAIN staking_pools' = E
      /\ \A j \in E : up(j) \in D /\ staking_pools'[j] = staking_pools[up(j)]
      /\ \A j, k \in E : up(j) = up(k) => j = k
  BY <1>2, <1>3, <1>4, <1>5
<1> HIDE DEF D, E
<1>7. CallsOK'
  <2>1. ASSUME NEW j \in E, NEW k \in E,
               staking_pools'[j].account_id = staking_pools'[k].account_id
        PROVE  j = k
    <3>1. /\ up(j) \in DOMAIN staking_pools /\ up(k) \in DOMAIN staking_pools
          /\ staking_pools[up(j)].account_id = staking_pools[up(k)].account_id
      BY <1>6, <2>1
    <3>2. up(j) = up(k)
      BY <3>1 DEF CallsOK
    <3> QED
      BY <1>6, <3>2
  <2>2. promises' = {} /\ DOMAIN staking_pools' = E /\ IsFiniteSet(promises')
    BY <1>1, <1>6 DEF CallsOK
  <2> QED
    BY <2>1, <2>2 DEF CallsOK
<1>8. PoolsOK'
  <2>1. \A j \in D : staking_pools[j].unstaked
                       <= pool_account[staking_pools[j].account_id].unstaked
    BY <1>6 DEF PoolsOK
  <2>2. \A j \in E : staking_pools'[j].unstaked
                       <= pool_account'[staking_pools'[j].account_id].unstaked
    <3>1. ASSUME NEW j \in E
          PROVE  staking_pools'[j].unstaked
                   <= pool_account[staking_pools'[j].account_id].unstaked
      <4>1. up(j) \in D /\ staking_pools'[j] = staking_pools[up(j)]
        BY <1>6
      <4> QED
        BY <2>1, <4>1
    <3> QED
      BY <1>1, <3>1
  <2>3. promises' = {} /\ DOMAIN staking_pools' = E
    BY <1>1, <1>6
  <2> QED
    BY <2>2, <2>3 DEF PoolsOK
<1>9. UNCHANGED <<StakedSum, UnstakedSum>>
  <2>1. /\ StakedRecords \in [D -> Nat] /\ UnstakedRecords \in [D -> Nat]
        /\ \A j \in D : /\ StakedRecords[j] = staking_pools[j].staked
                        /\ UnstakedRecords[j] = staking_pools[j].unstaked
    BY <1>6, PoolsFinite DEF StakedRecords, UnstakedRecords
  <2>2. /\ StakedRecords' = [j \in E |-> staking_pools'[j].staked]
        /\ UnstakedRecords' = [j \in E |-> staking_pools'[j].unstaked]
    BY <1>6 DEF StakedRecords, UnstakedRecords
  <2>3. /\ StakedRecords' \in [E -> Nat] /\ UnstakedRecords' \in [E -> Nat]
        /\ \A j \in E : /\ StakedRecords'[j] = StakedRecords[up(j)]
                        /\ UnstakedRecords'[j] = UnstakedRecords[up(j)]
    BY <1>6, <2>1, <2>2
  <2>4. StakedRecords[i] = 0 /\ UnstakedRecords[i] = 0
    BY <1>1, <1>2, <2>1 DEF D
  <2>5. SumOf(StakedRecords') = SumOf(StakedRecords)
    BY <1>2, <2>1, <2>3, <2>4, SumDropped DEF D, E, up
  <2>6. SumOf(UnstakedRecords') = SumOf(UnstakedRecords)
    BY <1>2, <2>1, <2>3, <2>4, SumDropped DEF D, E, up
  <2> QED
    BY <2>5, <2>6 DEF StakedSum, UnstakedSum
<1>10. UNCHANGED <<Staking, Unstaking, Rebalancing>>
  BY <1>1, CountsInFlight
<1> QED
  BY <1>4, <1>7, <1>8, <1>9, <1>10

-----------------------------------------------------------------------------
(* Orders, and the calls of the users.                                     *)

(* The orders o keep the books exact, with the calls in flight.            *)
ExactOrders(o) ==
  /\ o \in Orders
  /\ total_unstake_claims + o.rebal + Rebalancing
       = o.reserve + total_unstaked_and_waiting + o.unstake + Unstaking
  /\ contract_account_balance = total_available + o.reserve + o.stake + Staking
  /\ total_for_staking + o.unstake
       = total_actually_staked + o.stake + o.rebal + Rebalancing
  /\ o.reserve <= total_unstake_claims

(* They are exact before any clearing.                                     *)
LEMMA CurrentExact ==
  ASSUME TypeOK, CallsOK, BooksOK
  PROVE  ExactOrders(CurrentOrders)
<1> DEFINE o == CurrentOrders
<1>1. /\ o \in Orders
      /\ o.stake = epoch_stake_orders /\ o.unstake = epoch_unstake_orders
      /\ o.reserve = retrieved_for_unstake_claims /\ o.rebal = unstaked_for_rebalance
  BY DEF CurrentOrders, Orders, TypeOK, TotalsNat
<1> HIDE DEF o
<1>2. TotalsNat /\ Staking \in Nat /\ Unstaking \in Nat /\ Rebalancing \in Nat
  BY SumsNat DEF TypeOK
<1> QED
  BY <1>1, <1>2 DEF ExactOrders, BooksOK, ClaimsExact, BooksExact, StakeExplained,
                    ReserveWithinClaims, Owed, Coming, Booked, TotalsNat, o

(* What is retrieved beyond the claims had been unstaked for a rebalance,  *)
(* if the claims and the rebalance need the whole amount.                  *)
LEMMA ConsideredExactly ==
  ASSUME TypeOK, ReserveWithinClaims,
         NEW amount \in Nat, NEW stake \in Nat, NEW unstake \in Nat,
         retrieved_for_unstake_claims + amount
           <= total_unstake_claims + unstaked_for_rebalance
  PROVE  LET o == Considered(amount, stake, unstake) IN
         /\ o \in Orders
         /\ \E e \in Nat :
              /\ e <= amount /\ e <= unstaked_for_rebalance
              /\ o.stake = stake + e /\ o.unstake = unstake
              /\ o.reserve = retrieved_for_unstake_claims + amount - e
              /\ o.rebal = unstaked_for_rebalance - e
              /\ o.reserve <= total_unstake_claims
<1> DEFINE o == Considered(amount, stake, unstake)
           e == ExtraOf(amount)
<1>1. o \in Orders
  BY ConsideredSplits
<1>2. e \in Nat /\ e <= amount /\ e <= unstaked_for_rebalance
  BY DEF TypeOK, TotalsNat, ReserveWithinClaims, ExtraOf, Monus
<1>3. /\ o.stake = stake + e
      /\ o.unstake = unstake
      /\ o.reserve = retrieved_for_unstake_claims + amount - e
      /\ o.rebal = Monus(unstaked_for_rebalance, e)
  BY DEF Considered
<1>4. o.reserve <= total_unstake_claims
  BY <1>3 DEF TypeOK, TotalsNat, ReserveWithinClaims, ExtraOf, Monus
<1> HIDE DEF o, e
<1>5. o.rebal = unstaked_for_rebalance - e
  BY <1>2, <1>3 DEF TypeOK, TotalsNat, Monus
<1> QED
  BY <1>1, <1>2, <1>3, <1>4, <1>5 DEF o

(* They are exact after the clearing.                                      *)
LEMMA ClearedExact ==
  ASSUME TypeOK, CallsOK, BooksOK
  PROVE  ExactOrders(Cleared)
<1>1. ExactOrders(CurrentOrders)
  BY CurrentExact
<1>2. CASE ToKeep = 0
  BY <1>1, <1>2 DEF Cleared
<1>3. CASE ToKeep # 0
  <2> DEFINE stake == epoch_stake_orders - ToKeep
             unstake == epoch_unstake_orders - ToKeep
             o == Considered(ToKeep, stake, unstake)
  <2>1. /\ ToKeep \in Nat /\ stake \in Nat /\ unstake \in Nat
        /\ ToKeep <= epoch_stake_orders /\ ToKeep <= epoch_unstake_orders
    BY DEF TypeOK, TotalsNat, ToKeep, Lesser
  <2>2. Cleared = o
    BY <1>3 DEF Cleared
  <2>3. /\ TotalsNat /\ Staking \in Nat /\ Unstaking \in Nat /\ Rebalancing \in Nat
        /\ Rebalancing <= Unstaking
    BY SumsNat DEF TypeOK
  <2>4. retrieved_for_unstake_claims + ToKeep <= total_unstake_claims + unstaked_for_rebalance
    BY <2>1, <2>3 DEF BooksOK, ClaimsExact, Owed, Coming, TotalsNat
  <2> HIDE DEF stake, unstake, o
  <2>5. /\ o \in Orders
        /\ \E e \in Nat :
             /\ e <= ToKeep /\ e <= unstaked_for_rebalance
             /\ o.stake = stake + e /\ o.unstake = unstake
             /\ o.reserve = retrieved_for_unstake_claims + ToKeep - e
             /\ o.rebal = unstaked_for_rebalance - e
             /\ o.reserve <= total_unstake_claims
    BY <2>1, <2>4, ConsideredExactly DEF BooksOK, o
  <2>6. ExactOrders(o)
    BY <2>1, <2>3, <2>5 DEF ExactOrders, BooksOK, ClaimsExact, BooksExact, StakeExplained,
                            Owed, Coming, Booked, TotalsNat, stake, unstake
  <2> QED
    BY <2>2, <2>6
<1> QED
  BY <1>2, <1>3

(* The step leaves calls, pools and what is staked alone.                  *)
LEMMA QuietStep ==
  ASSUME TypeOK, CallsOK, PoolsOK, RecordsOK,
         UNCHANGED <<stakeVars, staking_pools, promises, pool_account>>
  PROVE  /\ CallsOK' /\ PoolsOK' /\ RecordsOK'
         /\ UNCHANGED <<Staking, Unstaking, Rebalancing>>
<1>1. /\ CallsOK' /\ PoolsOK'
      /\ UNCHANGED <<Staking, Unstaking, Rebalancing, StakedSum, UnstakedSum>>
  BY CallsKept
<1> QED
  BY <1>1 DEF RecordsOK, stakeVars

(* The user calls.                                                         *)
LEMMA UserCallsExact ==
  ASSUME PInv, UserCalls
  PROVE  PInv'
<1> USE DEF PInv
<1> PICK a \in Amounts :
       \/ \E v \in 0..a : DepositAndStake(a, v)
       \/ Unstake(a)
       \/ WithdrawUnstaked(a)
       \/ NslpAddLiquidity(a)
       \/ PayFromLiquidityPool(a)
       \/ StakeFromNslp(a)
  BY DEF UserCalls
<1> a \in Nat \ {0}
  BY SetsAssumption
<1>0. UNCHANGED <<listVars, worldVars, stakeVars>>
  BY DEF DepositAndStake, Unstake, WithdrawUnstaked, NslpAddLiquidity, PayFromLiquidityPool,
         StakeFromNslp
<1>1. /\ CallsOK' /\ PoolsOK' /\ RecordsOK'
      /\ UNCHANGED <<Staking, Unstaking, Rebalancing>>
  BY <1>0, QuietStep DEF listVars, worldVars
<1>2. TotalsNat /\ Staking \in Nat /\ Unstaking \in Nat /\ Rebalancing \in Nat
  BY SumsNat DEF TypeOK
<1>3. SUFFICES TotalsNat' /\ BooksOK'
  BY <1>0, <1>1 DEF TypeOK, listVars, worldVars
<1>4. UNCHANGED <<total_actually_staked, total_unstaked_and_waiting, epoch>>
  BY <1>0 DEF stakeVars, worldVars
<1> USE <1>1, <1>2, <1>4
        DEF TotalsNat, BooksOK, ClaimsExact, BooksExact, StakeExplained, ReserveWithinClaims,
            Owed, Coming, Booked, orderVars, userVars, moneyVars
<1>5. ASSUME NEW v \in 0..a, DepositAndStake(a, v)
      PROVE  TotalsNat' /\ BooksOK'
  <2>1. /\ contract_account_balance' = contract_account_balance + a
        /\ registered' \in Nat /\ env_balance' \in Nat
    BY <1>5, DepositedPays DEF DepositAndStake
  <2> QED
    BY <1>5, <2>1 DEF DepositAndStake
<1>6. CASE Unstake(a)
  BY <1>6 DEF Unstake
<1>7. CASE WithdrawUnstaked(a)
  BY <1>7 DEF WithdrawUnstaked, NativeTransfer
<1>8. CASE NslpAddLiquidity(a)
  <2>1. /\ contract_account_balance' = contract_account_balance + a
        /\ registered' \in Nat /\ env_balance' \in Nat
    BY <1>8, DepositedPays DEF NslpAddLiquidity
  <2> QED
    BY <1>8, <2>1 DEF NslpAddLiquidity
<1>9. CASE PayFromLiquidityPool(a)
  <2>1. registered' \in Nat
    BY <1>9, OpensNat DEF PayFromLiquidityPool
  <2> QED
    BY <1>9, <2>1 DEF PayFromLiquidityPool, NativeTransfer
<1>10. CASE StakeFromNslp(a)
  BY <1>10 DEF StakeFromNslp
<1> QED
  BY <1>5, <1>6, <1>7, <1>8, <1>9, <1>10

-----------------------------------------------------------------------------
(* The heartbeat calls.                                                    *)

(* A stake takes its amount from exact orders.                             *)
LEMMA LaunchDirectStakeExact ==
  ASSUME PInv, NEW i \in DOMAIN staking_pools, ~staking_pools[i].busy_lock,
         NEW STATE requested, requested \in Nat, NEW STATE o, ExactOrders(o),
         requested <= o.stake, LaunchDirectStake(i, requested, o)
  PROVE  PInv'
<1> DEFINE sp       == staking_pools[i]
           restakes == sp.unstaked >= TEN_NEAR
           amount   == IF restakes THEN Lesser(requested, sp.unstaked) ELSE requested
           kind     == IF restakes THEN "stake" ELSE "deposit_and_stake"
           call     == Call(kind, i, amount, 0)
<1>1. TypeOK /\ CallsOK /\ PoolsOK /\ RecordsOK /\ BooksOK
  BY DEF PInv
<1>2. sp.unstaked \in Nat
  BY <1>1, PoolTyped
<1>3. /\ amount \in Nat /\ amount <= requested
      /\ restakes => amount <= sp.unstaked
  BY <1>2, ThresholdsAssumption DEF Lesser
<1>4. /\ call \in Promises
      /\ call.kind = kind /\ call.inx = i /\ call.stage = "sent"
      /\ call.pool = sp.account_id /\ call.amount = amount /\ call.rebalance = 0
  BY <1>1, <1>3, CallTyped DEF CallKinds
<1>5. LockAndSend(call) /\ UNCHANGED pool_account
  BY DEF LaunchDirectStake, worldVars
<1>6. call.kind \notin {"unstaked_balance", "unstake"}
  BY <1>4
<1>7. call.kind = "stake" => sp.unstaked >= call.amount
  BY <1>2, <1>3, <1>4
<1>8. StakingOf(call) = amount /\ UnstakingOf(call) = 0 /\ RebalancingOf(call) = 0
  BY <1>4 DEF StakingOf, UnstakingOf, RebalancingOf
<1> HIDE DEF call
<1>9. /\ CallsOK' /\ PoolsOK'
      /\ contract_busy' \in BOOLEAN /\ UNCHANGED staking_paused
      /\ staking_pools' \in Seq(PoolInfo) /\ promises' \subseteq Promises
      /\ Staking' = Staking + amount
      /\ Unstaking' = Unstaking + 0
      /\ Rebalancing' = Rebalancing + 0
      /\ UNCHANGED <<StakedSum, UnstakedSum>>
  BY <1>1, <1>4, <1>5, <1>6, <1>7, <1>8, CallSent
<1>10. /\ total_actually_staked' = total_actually_staked + amount
       /\ UNCHANGED <<userVars, total_unstaked_and_waiting,
                      contract_account_balance, worldVars>>
       /\ env_balance' = IF restakes THEN env_balance ELSE env_balance - amount
       /\ ~restakes => env_balance >= MIN_BALANCE_FOR_STORAGE + amount
  BY DEF LaunchDirectStake
<1>11. SetOrders([o EXCEPT !.stake = @ - amount])
  BY DEF LaunchDirectStake, StakeLaunched
<1> HIDE DEF amount, restakes, kind
<1>12. /\ epoch_stake_orders' = o.stake - amount
       /\ epoch_unstake_orders' = o.unstake
       /\ retrieved_for_unstake_claims' = o.reserve
       /\ unstaked_for_rebalance' = o.rebal
       /\ o.stake \in Nat /\ o.unstake \in Nat /\ o.reserve \in Nat /\ o.rebal \in Nat
  BY <1>11 DEF SetOrders, ExactOrders, Orders
<1>13. /\ TotalsNat /\ MIN_BALANCE_FOR_STORAGE \in Nat
       /\ Staking \in Nat /\ Unstaking \in Nat /\ Rebalancing \in Nat
       /\ StakedSum \in Nat /\ UnstakedSum \in Nat
  BY <1>1, SumsNat, ThresholdsAssumption DEF TypeOK
<1>14. TotalsNat'
  BY <1>3, <1>10, <1>12, <1>13 DEF TotalsNat, userVars, worldVars
<1>15. TypeOK'
  BY <1>1, <1>9, <1>10, <1>14 DEF TypeOK, worldVars
<1>16. RecordsOK'
  BY <1>1, <1>3, <1>9, <1>10, <1>13 DEF TotalsNat, RecordsOK
<1>17. BooksOK'
  <2>1. /\ total_unstake_claims + o.rebal + Rebalancing
             = o.reserve + total_unstaked_and_waiting + o.unstake + Unstaking
        /\ contract_account_balance = total_available + o.reserve + o.stake + Staking
        /\ total_for_staking + o.unstake
             = total_actually_staked + o.stake + o.rebal + Rebalancing
        /\ o.reserve <= total_unstake_claims
    BY DEF ExactOrders
  <2>2. UNCHANGED <<total_available, total_for_staking, total_unstake_claims,
                    total_unstaked_and_waiting, contract_account_balance>>
    BY <1>10 DEF userVars
  <2>7. /\ Staking' = Staking + amount /\ Unstaking' = Unstaking + 0
        /\ Rebalancing' = Rebalancing + 0
        /\ total_actually_staked' = total_actually_staked + amount
    BY <1>9, <1>10
  <2>8. amount \in Nat /\ amount <= o.stake
    BY <1>3, <1>12
  <2>3. ClaimsExact'
    BY <2>1, <2>2, <2>7, <2>8, <1>12, <1>13 DEF TotalsNat, ClaimsExact, Owed, Coming
  <2>4. BooksExact'
    BY <2>1, <2>2, <2>7, <2>8, <1>12, <1>13 DEF TotalsNat, BooksExact, Booked
  <2>5. StakeExplained'
    BY <2>1, <2>2, <2>7, <2>8, <1>12, <1>13 DEF TotalsNat, StakeExplained
  <2>6. ReserveWithinClaims'
    BY <2>1, <2>2, <1>12 DEF ReserveWithinClaims
  <2> QED
    BY <2>3, <2>4, <2>5, <2>6 DEF BooksOK
<1> QED
  BY <1>9, <1>15, <1>16, <1>17 DEF PInv

(* An unstake takes its amount from exact orders.                          *)
LEMMA PerformUnstakeExact ==
  ASSUME PInv, NEW i \in DOMAIN staking_pools,
         NEW STATE from_orders, from_orders \in Nat,
         NEW STATE from_rebalance, from_rebalance \in Nat, NEW STATE o, ExactOrders(o),
         from_orders <= o.unstake,
         PerformUnstake(i, from_orders, from_rebalance, o)
  PROVE  PInv'
<1> DEFINE call == Call("unstake", i, from_orders, from_rebalance)
<1>1. TypeOK /\ CallsOK /\ PoolsOK /\ RecordsOK /\ BooksOK
  BY DEF PInv
<1>2. /\ call \in Promises
      /\ call.kind = "unstake" /\ call.inx = i /\ call.stage = "sent"
      /\ call.pool = staking_pools[i].account_id
      /\ call.amount = from_orders /\ call.rebalance = from_rebalance
  BY <1>1, CallTyped DEF CallKinds
<1>3. /\ LockAndSend(call) /\ ~staking_pools[i].busy_lock
      /\ total_actually_staked >= from_orders + from_rebalance
      /\ total_actually_staked' = total_actually_staked - (from_orders + from_rebalance)
      /\ staking_pools[i].staked >= from_orders + from_rebalance
      /\ UNCHANGED <<userVars, total_unstaked_and_waiting, moneyVars, worldVars>>
  BY DEF PerformUnstake
<1>4. SetOrders([o EXCEPT !.unstake = @ - from_orders])
  BY DEF PerformUnstake
<1>5. /\ StakingOf(call) = 0 /\ UnstakingOf(call) = from_orders + from_rebalance
      /\ RebalancingOf(call) = from_rebalance
  BY <1>2 DEF StakingOf, UnstakingOf, RebalancingOf
<1> HIDE DEF call
<1>6. UNCHANGED pool_account
  BY <1>3 DEF worldVars
<1>7. /\ CallsOK' /\ PoolsOK'
      /\ contract_busy' \in BOOLEAN /\ UNCHANGED staking_paused
      /\ staking_pools' \in Seq(PoolInfo) /\ promises' \subseteq Promises
      /\ Staking' = Staking + 0
      /\ Unstaking' = Unstaking + (from_orders + from_rebalance)
      /\ Rebalancing' = Rebalancing + from_rebalance
      /\ UNCHANGED <<StakedSum, UnstakedSum>>
  BY <1>1, <1>2, <1>3, <1>5, <1>6, CallSent
<1>8. /\ epoch_stake_orders' = o.stake
      /\ epoch_unstake_orders' = o.unstake - from_orders
      /\ retrieved_for_unstake_claims' = o.reserve
      /\ unstaked_for_rebalance' = o.rebal
      /\ o.stake \in Nat /\ o.unstake \in Nat /\ o.reserve \in Nat /\ o.rebal \in Nat
  BY <1>4 DEF SetOrders, ExactOrders, Orders
<1>9. /\ TotalsNat
      /\ Staking \in Nat /\ Unstaking \in Nat /\ Rebalancing \in Nat
      /\ StakedSum \in Nat /\ UnstakedSum \in Nat
  BY <1>1, SumsNat DEF TypeOK
<1>10. TotalsNat'
  BY <1>3, <1>8, <1>9 DEF TotalsNat, userVars, moneyVars, worldVars
<1>11. TypeOK'
  BY <1>1, <1>3, <1>7, <1>10 DEF TypeOK, worldVars
<1>12. RecordsOK'
  BY <1>1, <1>3, <1>7, <1>9 DEF TotalsNat, RecordsOK
<1>13. BooksOK'
  <2>1. /\ total_unstake_claims + o.rebal + Rebalancing
             = o.reserve + total_unstaked_and_waiting + o.unstake + Unstaking
        /\ contract_account_balance = total_available + o.reserve + o.stake + Staking
        /\ total_for_staking + o.unstake
             = total_actually_staked + o.stake + o.rebal + Rebalancing
        /\ o.reserve <= total_unstake_claims
    BY DEF ExactOrders
  <2>2. UNCHANGED <<total_available, total_for_staking, total_unstake_claims,
                    total_unstaked_and_waiting, contract_account_balance>>
    BY <1>3 DEF userVars, moneyVars
  <2>7. /\ Staking' = Staking + 0
        /\ Unstaking' = Unstaking + (from_orders + from_rebalance)
        /\ Rebalancing' = Rebalancing + from_rebalance
        /\ total_actually_staked' = total_actually_staked - (from_orders + from_rebalance)
    BY <1>3, <1>7
  <2>8. from_orders <= o.unstake /\ total_actually_staked >= from_orders + from_rebalance
    BY <1>3
  <2>3. ClaimsExact'
    BY <2>1, <2>2, <2>7, <2>8, <1>8, <1>9 DEF TotalsNat, ClaimsExact, Owed, Coming
  <2>4. BooksExact'
    BY <2>1, <2>2, <2>7, <2>8, <1>8, <1>9 DEF TotalsNat, BooksExact, Booked
  <2>5. StakeExplained'
    BY <2>1, <2>2, <2>7, <2>8, <1>8, <1>9 DEF TotalsNat, StakeExplained
  <2>6. ReserveWithinClaims'
    BY <2>1, <2>2, <1>8 DEF ReserveWithinClaims
  <2> QED
    BY <2>3, <2>4, <2>5, <2>6 DEF BooksOK
<1> QED
  BY <1>7, <1>11, <1>12, <1>13 DEF PInv

(* The books when only calls and records change, and no sum does.          *)
LEMMA BooksStay ==
  ASSUME PInv, booksUnchanged,
         UNCHANGED <<Staking, Unstaking, Rebalancing, StakedSum, UnstakedSum>>
  PROVE  TotalsNat' /\ RecordsOK' /\ BooksOK'
<1> USE DEF PInv, booksUnchanged, orderVars, userVars, stakeVars, moneyVars, worldVars
<1>1. TotalsNat'
  BY DEF TypeOK, TotalsNat
<1>2. RecordsOK'
  BY DEF RecordsOK
<1>3. UNCHANGED <<Owed, Coming, Booked>>
  BY DEF Owed, Coming, Booked
<1>4. BooksOK'
  BY <1>3 DEF BooksOK, ClaimsExact, BooksExact, StakeExplained, ReserveWithinClaims
<1> QED
  BY <1>1, <1>2, <1>4

(* A view or a retrieval counts for nothing.                               *)
LEMMA ViewSentExact ==
  ASSUME PInv, NEW i \in DOMAIN staking_pools, ~staking_pools[i].busy_lock,
         NEW kind \in {"total_balance", "withdraw_all"},
         LockAndSend(Call(kind, i, 0, 0)), booksUnchanged
  PROVE  PInv'
<1> DEFINE call == Call(kind, i, 0, 0)
<1>1. TypeOK /\ CallsOK /\ PoolsOK
  BY DEF PInv
<1>2. /\ call \in Promises
      /\ call.kind = kind /\ call.inx = i /\ call.stage = "sent"
      /\ call.pool = staking_pools[i].account_id
  BY <1>1, CallTyped DEF CallKinds
<1>3. StakingOf(call) = 0 /\ UnstakingOf(call) = 0 /\ RebalancingOf(call) = 0
  BY <1>2 DEF StakingOf, UnstakingOf, RebalancingOf
<1>4. LockAndSend(call)
  OBVIOUS
<1> HIDE DEF call
<1>5. UNCHANGED pool_account
  BY DEF booksUnchanged, worldVars
<1>6. call.kind \notin {"unstaked_balance", "stake", "unstake"}
  BY <1>2
<1>7. /\ CallsOK' /\ PoolsOK'
      /\ contract_busy' \in BOOLEAN /\ UNCHANGED staking_paused
      /\ staking_pools' \in Seq(PoolInfo) /\ promises' \subseteq Promises
      /\ Staking' = Staking + 0
      /\ Unstaking' = Unstaking + 0
      /\ Rebalancing' = Rebalancing + 0
      /\ UNCHANGED <<StakedSum, UnstakedSum>>
  BY <1>1, <1>2, <1>3, <1>4, <1>5, <1>6, CallSent
<1>8. UNCHANGED <<Staking, Unstaking, Rebalancing>>
  BY <1>1, <1>7, SumsNat
<1>9. TotalsNat' /\ RecordsOK' /\ BooksOK'
  BY <1>7, <1>8, BooksStay
<1>10. TypeOK'
  BY <1>1, <1>5, <1>7, <1>9 DEF TypeOK
<1> QED
  BY <1>7, <1>9, <1>10 DEF PInv

(* The clearing alone.                                                     *)
LEMMA OnlyClearingExact ==
  ASSUME PInv, OnlyClearing
  PROVE  PInv'
<1> DEFINE o == Cleared
<1>1. TypeOK /\ CallsOK /\ PoolsOK /\ RecordsOK /\ BooksOK
  BY DEF PInv
<1>2. ExactOrders(o)
  BY <1>1, ClearedExact
<1>3. /\ SetOrders(o)
      /\ UNCHANGED <<userVars, stakeVars, moneyVars, listVars, worldVars>>
  BY DEF OnlyClearing
<1> HIDE DEF o
<1>4. /\ epoch_stake_orders' = o.stake
      /\ epoch_unstake_orders' = o.unstake
      /\ retrieved_for_unstake_claims' = o.reserve
      /\ unstaked_for_rebalance' = o.rebal
      /\ o.stake \in Nat /\ o.unstake \in Nat /\ o.reserve \in Nat /\ o.rebal \in Nat
  BY <1>2, <1>3 DEF SetOrders, ExactOrders, Orders
<1>5. /\ CallsOK' /\ PoolsOK' /\ RecordsOK'
      /\ UNCHANGED <<Staking, Unstaking, Rebalancing>>
  BY <1>1, <1>3, QuietStep DEF listVars, worldVars
<1>6. TypeOK'
  BY <1>1, <1>3, <1>4
     DEF TypeOK, TotalsNat, userVars, stakeVars, moneyVars, listVars, worldVars
<1>7. BooksOK'
  BY <1>2, <1>3, <1>4, <1>5
     DEF BooksOK, ExactOrders, ClaimsExact, BooksExact, StakeExplained, ReserveWithinClaims,
         Owed, Coming, Booked, userVars, stakeVars, moneyVars
<1> QED
  BY <1>5, <1>6, <1>7 DEF PInv

(* MAX_SYNCS = 0: no view of an unstaked balance is asked for.             *)
LEMMA NoSyncs ==
  ASSUME CallsOK, MAX_SYNCS = 0, NEW i
  PROVE  ~SyncUnstakedBalance(i)
<1> DEFINE views == {p \in promises : p.kind = "unstaked_balance"}
<1>1. Cardinality(views) \in Nat
  <2>1. IsFiniteSet(views)
    BY FS_Subset DEF CallsOK
  <2> QED
    BY <2>1, FS_CardinalityType
<1>2. SyncUnstakedBalance(i) => Cardinality(views) < MAX_SYNCS
  BY DEF SyncUnstakedBalance
<1> HIDE DEF views
<1> QED
  BY <1>1, <1>2

(* The heartbeat calls.                                                    *)
LEMMA HeartbeatCallsExact ==
  ASSUME PInv, MAX_SYNCS = 0, HeartbeatCalls
  PROVE  PInv'
<1>0. TypeOK /\ CallsOK /\ ExactOrders(CurrentOrders) /\ ExactOrders(Cleared)
  BY CurrentExact, ClearedExact DEF PInv
<1>1. CASE DistributeStaking
  <2>1. total_for_staking > total_actually_staked
    BY <1>1 DEF DistributeStaking
  <2>2. CASE OnlyClearing
    BY <2>2, OnlyClearingExact
  <2>3. ASSUME NEW i \in DOMAIN staking_pools,
               LaunchDirectStake(i, Lesser(ToStake, Requires(i)), Cleared)
        PROVE  PInv'
    <3> DEFINE requested == Lesser(ToStake, Requires(i))
    <3>1. Cleared.stake \in Nat
      BY <1>0 DEF ExactOrders, Orders
    <3>2. total_for_staking - total_actually_staked \in Nat
      BY <1>0, <2>1 DEF TypeOK, TotalsNat
    <3>3. requested \in Nat /\ requested <= Cleared.stake /\ requested <= Requires(i)
      BY <1>0, <3>1, <3>2, SearchNat DEF ToStake, Lesser
    <3>4. requested > 0
      BY <2>3 DEF LaunchDirectStake
    <3> HIDE DEF requested
    <3>5. Requires(i) # 0
      BY <1>0, <3>3, <3>4, SearchNat
    <3>6. ~staking_pools[i].busy_lock
      BY <3>5 DEF Requires
    <3>7. LaunchDirectStake(i, requested, Cleared)
      BY <2>3 DEF requested
    <3> QED
      BY <1>0, <3>3, <3>6, <3>7, LaunchDirectStakeExact
  <2> QED
    BY <1>1, <2>2, <2>3 DEF DistributeStaking
<1>2. CASE DistributeUnstaking
  <2>2. CASE OnlyClearing
    BY <2>2, OnlyClearingExact
  <2>3. ASSUME NEW i \in DOMAIN staking_pools,
               PerformUnstake(i, FromOrders(i), FromRebalance(i), Cleared)
        PROVE  PInv'
    <3>1. Cleared.unstake \in Nat /\ Cleared.rebal \in Nat
      BY <1>0 DEF ExactOrders, Orders
    <3>2. Surplus(i) \in Nat /\ MaxUnstakeForRebalance \in Nat
      BY <1>0, SearchNat
    <3>3. FromOrders(i) \in Nat /\ FromOrders(i) <= Cleared.unstake
      BY <3>1, <3>2 DEF FromOrders, Lesser
    <3>4. FromRebalance(i) \in Nat
      <4>1. Monus(MaxUnstakeForRebalance, Cleared.rebal) \in Nat
        BY <3>1, <3>2, MonusNat
      <4>2. Surplus(i) > Cleared.unstake => Surplus(i) - Cleared.unstake \in Nat
        BY <3>1, <3>2
      <4> QED
        BY <4>1, <4>2 DEF FromRebalance, Lesser
    <3> QED
      BY <1>0, <2>3, <3>3, <3>4, PerformUnstakeExact
  <2> QED
    BY <1>2, <2>2, <2>3 DEF DistributeUnstaking
<1>3. CASE EndOfEpochClearing
  BY <1>3, OnlyClearingExact DEF EndOfEpochClearing
<1>4. ASSUME NEW i \in DOMAIN staking_pools, NEW STATE amount, amount \in Nat,
             PerformUnstake(i, 0, amount, CurrentOrders)
      PROVE  PInv'
  <2>1. 0 \in Nat /\ 0 <= CurrentOrders.unstake
    BY <1>0 DEF ExactOrders, Orders
  <2> QED
    BY <1>0, <1>4, <2>1, PerformUnstakeExact
<1>5. CASE DoRebalanceUnstake
  <2> DEFINE left == Monus(MaxUnstakeForRebalance, unstaked_for_rebalance)
  <2>1. PICK i \in DOMAIN staking_pools :
           PerformUnstake(i, 0, Lesser(Surplus(i), left), CurrentOrders)
    BY <1>5 DEF DoRebalanceUnstake
  <2>2. left \in Nat
    BY <1>0, SearchNat, MonusNat DEF TypeOK, TotalsNat
  <2> HIDE DEF left
  <2> DEFINE amount == Lesser(Surplus(i), left)
  <2>3. amount \in Nat
    BY <1>0, <2>2, SearchNat DEF Lesser
  <2>4. PerformUnstake(i, 0, amount, CurrentOrders)
    BY <2>1
  <2> HIDE DEF amount
  <2> QED
    BY <1>4, <2>3, <2>4
<1>6. ASSUME NEW i \in DOMAIN staking_pools, NEW a \in Amounts, ManualStake(i, a)
      PROVE  PInv'
  <2>1. /\ ~staking_pools[i].busy_lock /\ a <= epoch_stake_orders
        /\ LaunchDirectStake(i, a, CurrentOrders)
    BY <1>6 DEF ManualStake
  <2>2. a \in Nat /\ a <= CurrentOrders.stake
    BY <2>1, SetsAssumption DEF CurrentOrders
  <2> QED
    BY <1>0, <2>1, <2>2, LaunchDirectStakeExact
<1>7. ASSUME NEW i \in DOMAIN staking_pools, NEW STATE cap, cap \in Nat, PerformRebalance(i, cap)
      PROVE  PInv'
  <2> DEFINE amount == Lesser(staking_pools[i].staked - ShouldHave(staking_pools[i]), cap)
  <2>1. /\ staking_pools[i].staked > ShouldHave(staking_pools[i])
        /\ PerformUnstake(i, 0, amount, CurrentOrders)
    BY <1>7 DEF PerformRebalance
  <2>2. amount \in Nat
    BY <1>0, <1>7, <2>1, SearchNat, PoolTyped DEF Lesser
  <2> HIDE DEF amount
  <2> QED
    BY <1>4, <2>1, <2>2
<1>8. ASSUME NEW i \in DOMAIN staking_pools, ForceRebalanceUnstake(i)
      PROVE  PInv'
  <2>1. total_for_staking \in Nat
    BY <1>0 DEF TypeOK, TotalsNat
  <2> QED
    BY <1>7, <1>8, <2>1 DEF ForceRebalanceUnstake
<1>9. ASSUME NEW i \in DOMAIN staking_pools, RebalanceUnstakeSp(i)
      PROVE  PInv'
  <2> DEFINE cap == MaxUnstakeForRebalance - unstaked_for_rebalance
  <2>1. cap \in Nat
    BY <1>0, <1>9, SearchNat, ThresholdsAssumption DEF RebalanceUnstakeSp, TypeOK, TotalsNat
  <2>2. PerformRebalance(i, cap)
    BY <1>9 DEF RebalanceUnstakeSp
  <2> HIDE DEF cap
  <2> QED
    BY <1>7, <2>1, <2>2
<1>10. ASSUME NEW i \in DOMAIN staking_pools
       PROVE  ~SyncUnstakedBalance(i)
  BY <1>0, NoSyncs
<1>11. ASSUME NEW i \in DOMAIN staking_pools, DistributeRewards(i)
       PROVE  PInv'
  BY <1>11, ViewSentExact DEF DistributeRewards
<1>12. ASSUME NEW i \in DOMAIN staking_pools, RetrieveFundsFromAPool(i)
       PROVE  PInv'
  BY <1>12, ViewSentExact DEF RetrieveFundsFromAPool
<1> QED
  BY <1>1, <1>2, <1>3, <1>5, <1>6, <1>8, <1>9, <1>10, <1>11, <1>12 DEF HeartbeatCalls

-----------------------------------------------------------------------------
(* Steps of the pools.                                                     *)

(* Only calls and pools change, and no sum does.                           *)
LEMMA PoolStepStays ==
  ASSUME PInv, poolStepUnchanged, env_balance' \in Nat,
         promises' \subseteq Promises, pool_account' \in [PoolIds -> PoolAccount],
         CallsOK', PoolsOK',
         UNCHANGED <<Staking, Unstaking, Rebalancing, StakedSum, UnstakedSum>>
  PROVE  PInv'
<1> USE DEF PInv, poolStepUnchanged, orderVars, userVars, stakeVars
<1>1. TypeOK'
  BY DEF TypeOK, TotalsNat
<1>2. RecordsOK'
  BY DEF RecordsOK
<1>3. UNCHANGED <<Owed, Coming, Booked>>
  BY DEF Owed, Coming, Booked
<1>4. BooksOK'
  BY <1>3 DEF BooksOK, ClaimsExact, BooksExact, StakeExplained, ReserveWithinClaims
<1> QED
  BY <1>1, <1>2, <1>4

(* A pool executes a call: it has done what will be recorded.              *)
LEMMA PoolAnsweredExact ==
  ASSUME PInv, NEW p \in promises, p.stage = "sent", NEW stage \in {"ok", "failed"},
         NEW STATE answer, answer \in Nat, Answer(p, stage, answer),
         poolStepUnchanged, env_balance' \in Nat,
         NEW STATE account, account \in PoolAccount,
         pool_account' = [pool_account EXCEPT ![p.pool] = account],
         stage = "failed" => account = pool_account[p.pool],
         stage = "ok" =>
           LET recorded == staking_pools[p.inx].unstaked
               unstaked == account.unstaked
           IN  /\ p.kind \in {"deposit_and_stake", "total_balance"} => recorded <= unstaked
               /\ p.kind = "total_balance" => recorded <= answer
               /\ p.kind = "stake" => recorded <= unstaked + p.amount
               /\ p.kind = "unstake" => recorded + p.amount + p.rebalance <= unstaked
  PROVE  PInv'
<1>1. TypeOK /\ CallsOK /\ PoolsOK
  BY DEF PInv
<1>2. p \in Promises /\ p.pool \in PoolIds /\ pool_account \in [PoolIds -> PoolAccount]
  BY <1>1 DEF TypeOK, Promises
<1>3. /\ pool_account' \in [PoolIds -> PoolAccount]
      /\ pool_account'[p.pool] = account
      /\ \A id \in PoolIds \ {p.pool} : pool_account'[id] = pool_account[id]
  BY <1>2
<1>4. stage = "failed" => UNCHANGED pool_account
  BY <1>2
<1>5. UNCHANGED staking_pools
  BY DEF poolStepUnchanged
<1> DEFINE r == [p EXCEPT !.stage = stage, !.answer = answer]
<1>6. /\ r.kind = p.kind /\ r.amount = p.amount /\ r.rebalance = p.rebalance
      /\ r.answer = answer
  BY <1>2 DEF Promises
<1>7. stage = "ok" =>
        Settles(r, staking_pools[p.inx].unstaked, pool_account'[p.pool].unstaked)
  <2> HIDE DEF r
  <2> QED
    BY <1>3, <1>6 DEF Settles
<1>8. /\ CallsOK' /\ PoolsOK' /\ promises' \subseteq Promises
      /\ UNCHANGED <<Staking, Unstaking, Rebalancing, StakedSum, UnstakedSum>>
  BY <1>1, <1>3, <1>4, <1>5, <1>7, CallAnswered
<1> QED
  BY <1>3, <1>8, PoolStepStays

(* A call that waits for its pool finds the account as it was recorded.    *)
LEMMA CallWaits ==
  ASSUME PInv, NEW p \in promises
  PROVE  /\ p \in Promises /\ p.pool \in PoolIds
         /\ p.amount \in Nat /\ p.rebalance \in Nat /\ p.answer \in Nat
         /\ p.inx \in DOMAIN staking_pools
         /\ staking_pools[p.inx].account_id = p.pool
         /\ staking_pools[p.inx] \in PoolInfo
         /\ staking_pools[p.inx].staked \in Nat /\ staking_pools[p.inx].unstaked \in Nat
         /\ pool_account[p.pool] \in PoolAccount
         /\ pool_account[p.pool].staked \in Nat /\ pool_account[p.pool].unstaked \in Nat
         /\ p.stage # "ok" =>
              staking_pools[p.inx].unstaked <= pool_account[p.pool].unstaked
<1>1. TypeOK /\ CallsOK /\ PoolsOK
  BY DEF PInv
<1>2. /\ p \in Promises /\ p.pool \in PoolIds
      /\ p.amount \in Nat /\ p.rebalance \in Nat /\ p.answer \in Nat
  BY <1>1 DEF TypeOK, Promises
<1>3. p.inx \in DOMAIN staking_pools /\ staking_pools[p.inx].account_id = p.pool
  BY <1>1 DEF CallsOK
<1>4. /\ staking_pools[p.inx] \in PoolInfo
      /\ staking_pools[p.inx].staked \in Nat /\ staking_pools[p.inx].unstaked \in Nat
  BY <1>1, <1>3, PoolTyped
<1>5. /\ pool_account[p.pool] \in PoolAccount
      /\ pool_account[p.pool].staked \in Nat /\ pool_account[p.pool].unstaked \in Nat
  BY <1>1, <1>2 DEF TypeOK, PoolAccount
<1>6. p.stage # "ok" =>
        staking_pools[p.inx].unstaked <= pool_account[p.pool].unstaked
  <2>1. \A q \in promises : q.inx = p.inx => q = p
    BY <1>1 DEF CallsOK
  <2> QED
    BY <1>1, <1>3, <2>1 DEF PoolsOK
<1> QED
  BY <1>2, <1>3, <1>4, <1>5, <1>6

(* The steps of the pools.                                                 *)
LEMMA PoolExecutesExact ==
  ASSUME PInv, NEW p \in promises, PoolExecutes(p)
  PROVE  PInv'
<1> DEFINE account  == pool_account[p.pool]
           recorded == staking_pools[p.inx].unstaked
<1>1. p.stage = "sent" /\ poolStepUnchanged
  BY DEF PoolExecutes
<1>2. /\ p \in Promises /\ p.pool \in PoolIds
      /\ p.amount \in Nat /\ p.rebalance \in Nat
      /\ account \in PoolAccount
      /\ account.staked \in Nat /\ account.unstaked \in Nat
      /\ recorded \in Nat /\ recorded <= account.unstaked
  BY <1>1, CallWaits
<1>3. /\ env_balance \in Nat /\ DRIFT \in Nat /\ epoch \in Nat
      /\ NUM_EPOCHS_TO_UNLOCK \in Nat /\ pool_account \in [PoolIds -> PoolAccount]
  BY ThresholdsAssumption DEF PInv, TypeOK, TotalsNat
<1>4. ASSUME NEW d \in 0..DRIFT, ExecDepositAndStake(p, d)
      PROVE  PInv'
  <2> DEFINE a == [account EXCEPT !.staked = @ + p.amount - d, !.unstaked = @ + d]
  <2>1. d \in Nat /\ d < p.amount
    BY <1>3, <1>4 DEF ExecDepositAndStake
  <2>2. a \in PoolAccount /\ a.unstaked = account.unstaked + d
    <3>1. account.staked + p.amount - d \in Nat /\ account.unstaked + d \in Nat
      BY <1>2, <2>1
    <3> QED
      BY <1>2, <3>1 DEF PoolAccount
  <2>3. /\ pool_account' = [pool_account EXCEPT ![p.pool] = a]
        /\ p.kind = "deposit_and_stake" /\ Answer(p, "ok", 0) /\ UNCHANGED env_balance
    BY <1>4 DEF ExecDepositAndStake, AfterDepositAndStake
  <2> HIDE DEF a
  <2>4. recorded <= a.unstaked
    BY <1>2, <2>1, <2>2
  <2> QED
    BY <1>1, <1>3, <2>2, <2>3, <2>4, PoolAnsweredExact
<1>5. ASSUME NEW d \in 0..DRIFT, ExecStake(p, d)
      PROVE  PInv'
  <2> DEFINE a == [account EXCEPT !.staked = @ + p.amount - d, !.unstaked = @ - (p.amount - d)]
  <2>1. d \in Nat /\ d < p.amount /\ account.unstaked >= p.amount - d
    BY <1>3, <1>5 DEF ExecStake
  <2>2. a \in PoolAccount /\ a.unstaked = account.unstaked - (p.amount - d)
    <3>1. account.staked + p.amount - d \in Nat /\ account.unstaked - (p.amount - d) \in Nat
      BY <1>2, <2>1
    <3> QED
      BY <1>2, <3>1 DEF PoolAccount
  <2>3. /\ pool_account' = [pool_account EXCEPT ![p.pool] = a]
        /\ p.kind = "stake" /\ Answer(p, "ok", 0) /\ UNCHANGED env_balance
    BY <1>5 DEF ExecStake, AfterStake
  <2> HIDE DEF a
  <2>4. recorded <= a.unstaked + p.amount
    BY <1>2, <2>1, <2>2
  <2> QED
    BY <1>1, <1>3, <2>2, <2>3, <2>4, PoolAnsweredExact
<1>6. ASSUME NEW d \in 0..DRIFT, ExecUnstake(p, d)
      PROVE  PInv'
  <2> DEFINE total == p.amount + p.rebalance
             a == [staked |-> Monus(account.staked, total + d),
                   unstaked |-> account.unstaked + total + d,
                   available_epoch |-> epoch + NUM_EPOCHS_TO_UNLOCK]
  <2>1. d \in Nat /\ total \in Nat /\ total + d \in Nat
    BY <1>2, <1>3
  <2>2. Monus(account.staked, total + d) \in Nat
    BY <1>2, <2>1, MonusNat
  <2>3. a \in PoolAccount /\ a.unstaked = account.unstaked + total + d
    BY <1>2, <1>3, <2>1, <2>2 DEF PoolAccount
  <2>4. /\ pool_account' = [pool_account EXCEPT ![p.pool] = a]
        /\ p.kind = "unstake" /\ Answer(p, "ok", 0) /\ UNCHANGED env_balance
    BY <1>6 DEF ExecUnstake, AfterUnstake
  <2> HIDE DEF a
  <2>5. recorded + p.amount + p.rebalance <= a.unstaked
    BY <1>2, <2>1, <2>3
  <2> QED
    BY <1>1, <1>3, <2>3, <2>4, <2>5, PoolAnsweredExact
<1>7. CASE ExecWithdrawAll(p)
  <2> DEFINE a == [account EXCEPT !.unstaked = 0]
  <2>1. a \in PoolAccount
    BY <1>2 DEF PoolAccount
  <2>2. /\ pool_account' = [pool_account EXCEPT ![p.pool] = a]
        /\ p.kind = "withdraw_all" /\ Answer(p, "ok", 0)
        /\ env_balance' = env_balance + account.unstaked
    BY <1>7 DEF ExecWithdrawAll, AfterWithdrawAll
  <2> HIDE DEF a
  <2>3. env_balance' \in Nat
    BY <1>2, <1>3, <2>2
  <2> QED
    BY <1>1, <2>1, <2>2, <2>3, PoolAnsweredExact
<1>8. CASE ExecView(p)
  <2> DEFINE answer == IF p.kind = "total_balance"
                       THEN account.staked + account.unstaked ELSE account.unstaked
  <2>1. answer \in Nat /\ recorded <= answer
    BY <1>2
  <2>2. /\ Answer(p, "ok", answer) /\ UNCHANGED <<env_balance, pool_account>>
        /\ p.kind \in Views
    BY <1>8 DEF ExecView
  <2>3. pool_account' = [pool_account EXCEPT ![p.pool] = account]
    BY <1>2, <1>3, <2>2
  <2>4. p.kind \notin {"deposit_and_stake", "stake", "unstake"}
    BY <2>2 DEF Views
  <2> HIDE DEF answer
  <2> QED
    BY <1>1, <1>2, <1>3, <2>1, <2>2, <2>3, <2>4, PoolAnsweredExact
<1>9. CASE ExecFails(p)
  <2>1. /\ Answer(p, "failed", 0) /\ UNCHANGED pool_account
        /\ env_balance' = env_balance + (IF p.kind = "deposit_and_stake" THEN p.amount ELSE 0)
    BY <1>9 DEF ExecFails
  <2>2. env_balance' \in Nat /\ pool_account' = [pool_account EXCEPT ![p.pool] = account]
    BY <1>2, <1>3, <2>1
  <2> QED
    BY <1>1, <1>2, <2>1, <2>2, PoolAnsweredExact
<1> QED
  BY <1>4, <1>5, <1>6, <1>7, <1>8, <1>9 DEF PoolExecutes

LEMMA PoolStepsExact ==
  ASSUME PInv, PoolSteps
  PROVE  PInv'
<1>0. TypeOK /\ CallsOK /\ PoolsOK /\ RecordsOK
  BY DEF PInv
<1>1. ASSUME NEW p \in promises, PoolExecutes(p)
      PROVE  PInv'
  BY <1>1, PoolExecutesExact
<1>2. ASSUME NEW id \in PoolIds, NEW r \in RewardAmounts, PoolReward(id, r)
      PROVE  PInv'
  <2> DEFINE a == [pool_account[id] EXCEPT !.staked = @ + r]
  <2>1. /\ r \in Nat /\ pool_account[id] \in PoolAccount
        /\ pool_account \in [PoolIds -> PoolAccount]
    BY <1>0, SetsAssumption DEF TypeOK
  <2>2. a \in PoolAccount /\ a.unstaked = pool_account[id].unstaked
    BY <2>1 DEF PoolAccount
  <2>3. /\ pool_account' = [pool_account EXCEPT ![id] = a]
        /\ UNCHANGED <<env_balance, promises, staking_pools>> /\ poolStepUnchanged
    BY <1>2 DEF PoolReward, Earned, poolStepUnchanged
  <2> HIDE DEF a
  <2>4. /\ pool_account' \in [PoolIds -> PoolAccount]
        /\ \A x \in PoolIds : pool_account'[x].unstaked = pool_account[x].unstaked
    BY <2>1, <2>2, <2>3
  <2>5. /\ CallsOK' /\ PoolsOK'
        /\ UNCHANGED <<Staking, Unstaking, Rebalancing, StakedSum, UnstakedSum>>
    BY <1>0, <2>3, <2>4, CallsKept
  <2>6. env_balance' \in Nat /\ promises' \subseteq Promises
    BY <1>0, <2>3 DEF TypeOK, TotalsNat
  <2> QED
    BY <2>3, <2>4, <2>5, <2>6, PoolStepStays
<1>3. ASSUME UNCHANGED <<orderVars, userVars, stakeVars, contract_account_balance,
                         listVars, pool_account>>,
             env_balance' \in Nat, epoch' \in Nat
      PROVE  PInv'
  <2> USE <1>0, <1>3 DEF orderVars, userVars, stakeVars, listVars
  <2>1. /\ CallsOK' /\ PoolsOK' /\ RecordsOK'
        /\ UNCHANGED <<Staking, Unstaking, Rebalancing>>
    BY QuietStep
  <2>2. TypeOK'
    BY DEF TypeOK, TotalsNat
  <2>3. UNCHANGED <<Owed, Coming, Booked>>
    BY DEF Owed, Coming, Booked
  <2>4. BooksOK'
    BY <2>1, <2>3 DEF PInv, BooksOK, ClaimsExact, BooksExact, StakeExplained, ReserveWithinClaims
  <2> QED
    BY <2>1, <2>2, <2>4 DEF PInv
<1>4. ASSUME NEW r \in RewardAmounts, NearArrives(r)
      PROVE  PInv'
  BY <1>0, <1>3, <1>4, SetsAssumption DEF NearArrives, worldVars, TypeOK, TotalsNat
<1>5. CASE NewEpoch
  BY <1>0, <1>3, <1>5 DEF NewEpoch, moneyVars, TypeOK, TotalsNat
<1> QED
  BY <1>1, <1>2, <1>4, <1>5 DEF PoolSteps

-----------------------------------------------------------------------------
(* The callbacks.                                                          *)

(* A call settles: what it counted for is free to be booked.               *)
LEMMA SettleExact ==
  ASSUME PInv, NEW p \in promises, NEW STATE sp, sp \in PoolInfo, Settle(p, sp),
         UNCHANGED pool_account, sp.account_id = p.pool,
         sp.unstaked <= pool_account[p.pool].unstaked
  PROVE  /\ CallsOK' /\ PoolsOK'
         /\ TotalsNat' => TypeOK'
         /\ TotalsNat
         /\ Staking \in Nat /\ StakingOf(p) <= Staking
         /\ Unstaking \in Nat /\ UnstakingOf(p) <= Unstaking
         /\ Rebalancing \in Nat /\ RebalancingOf(p) <= Rebalancing
         /\ Staking' = Staking - StakingOf(p)
         /\ Unstaking' = Unstaking - UnstakingOf(p)
         /\ Rebalancing' = Rebalancing - RebalancingOf(p)
         /\ StakedSum \in Nat /\ UnstakedSum \in Nat
         /\ StakedSum' \in Nat /\ UnstakedSum' \in Nat
         /\ StakedSum' + staking_pools[p.inx].staked = StakedSum + sp.staked
         /\ UnstakedSum' + staking_pools[p.inx].unstaked = UnstakedSum + sp.unstaked
<1> DEFINE r == Unlocked(sp)
<1>1. TypeOK /\ CallsOK /\ PoolsOK
  BY DEF PInv
<1>2. /\ r \in PoolInfo /\ r.account_id = sp.account_id
      /\ r.staked = sp.staked /\ r.unstaked = sp.unstaked
  BY DEF Unlocked, PoolInfo
<1>3. /\ staking_pools' = [staking_pools EXCEPT ![p.inx] = r]
      /\ promises' = promises \ {p}
      /\ contract_busy' = FALSE /\ UNCHANGED staking_paused
  BY DEF Settle
<1> HIDE DEF r
<1>4. /\ CallsOK' /\ PoolsOK'
      /\ staking_pools' \in Seq(PoolInfo) /\ promises' \subseteq Promises
      /\ StakingOf(p) <= Staking /\ Staking' = Staking - StakingOf(p)
      /\ UnstakingOf(p) <= Unstaking /\ Unstaking' = Unstaking - UnstakingOf(p)
      /\ RebalancingOf(p) <= Rebalancing /\ Rebalancing' = Rebalancing - RebalancingOf(p)
      /\ StakedSum' + staking_pools[p.inx].staked = StakedSum + r.staked
      /\ UnstakedSum' + staking_pools[p.inx].unstaked = UnstakedSum + r.unstaked
  BY <1>1, <1>2, <1>3, CallEnded
<1>5. /\ Staking \in Nat /\ Unstaking \in Nat /\ Rebalancing \in Nat
      /\ StakedSum \in Nat /\ UnstakedSum \in Nat
  BY <1>1, SumsNat
<1>6. ASSUME TotalsNat' PROVE TypeOK'
  BY <1>1, <1>3, <1>4, <1>6 DEF TypeOK
<1>7. StakedSum' \in Nat /\ UnstakedSum' \in Nat
  <2>1. /\ p.inx \in DOMAIN staking_pools
        /\ DOMAIN staking_pools' = DOMAIN staking_pools
        /\ staking_pools'[p.inx] = r
        /\ \A j \in DOMAIN staking_pools : j # p.inx => staking_pools'[j] = staking_pools[j]
    BY <1>1, <1>2, <1>3, RecordReplaced DEF CallsOK
  <2>2. r.staked \in Nat /\ r.unstaked \in Nat
    BY <1>2 DEF PoolInfo
  <2>3. \A j \in DOMAIN staking_pools :
           staking_pools'[j].staked \in Nat /\ staking_pools'[j].unstaked \in Nat
    BY <1>1, <2>1, <2>2, PoolTyped
  <2>4. /\ StakedRecords' \in [DOMAIN staking_pools -> Nat]
        /\ UnstakedRecords' \in [DOMAIN staking_pools -> Nat]
    BY <2>1, <2>3 DEF StakedRecords, UnstakedRecords
  <2> QED
    BY <1>1, <2>4, PoolsFinite, SumNat DEF StakedSum, UnstakedSum
<1> QED
  BY <1>1, <1>2, <1>4, <1>5, <1>6, <1>7 DEF TypeOK

(* The exact books, equation by equation.                                  *)
LEMMA BooksSpelled ==
  ASSUME BooksOK, RecordsOK
  PROVE  /\ total_unstake_claims + unstaked_for_rebalance + Rebalancing
              = retrieved_for_unstake_claims + total_unstaked_and_waiting
                + epoch_unstake_orders + Unstaking
         /\ contract_account_balance
              = total_available + retrieved_for_unstake_claims + epoch_stake_orders + Staking
         /\ total_for_staking + epoch_unstake_orders
              = total_actually_staked + epoch_stake_orders + unstaked_for_rebalance
                + Rebalancing
         /\ retrieved_for_unstake_claims <= total_unstake_claims
         /\ total_unstaked_and_waiting = UnstakedSum
         /\ StakedSum + Staking <= total_actually_staked + Unstaking
BY DEF BooksOK, RecordsOK, ClaimsExact, BooksExact, StakeExplained, ReserveWithinClaims,
       Owed, Coming, Booked

(* What is left of the reserve, the orders and the rebalance when "amount" *)
(* has been considered.                                                    *)
LEMMA ConsideredBooked ==
  ASSUME PInv, NEW STATE amount, amount \in Nat, amount <= total_unstaked_and_waiting,
         SetOrders(Considered(amount, epoch_stake_orders, epoch_unstake_orders))
  PROVE  \E e \in Nat :
           /\ e <= amount /\ e <= unstaked_for_rebalance
           /\ epoch_stake_orders' = epoch_stake_orders + e
           /\ epoch_unstake_orders' = epoch_unstake_orders
           /\ retrieved_for_unstake_claims' = retrieved_for_unstake_claims + amount - e
           /\ unstaked_for_rebalance' = unstaked_for_rebalance - e
           /\ retrieved_for_unstake_claims' <= total_unstake_claims
           /\ retrieved_for_unstake_claims' \in Nat
<1> DEFINE o == Considered(amount, epoch_stake_orders, epoch_unstake_orders)
<1>1. TypeOK /\ CallsOK /\ TotalsNat /\ ReserveWithinClaims /\ BooksOK /\ RecordsOK
  BY DEF PInv, TypeOK, BooksOK
<1>2. Staking \in Nat /\ Unstaking \in Nat /\ Rebalancing \in Nat /\ Rebalancing <= Unstaking
  BY <1>1, SumsNat
<1>3. retrieved_for_unstake_claims + amount <= total_unstake_claims + unstaked_for_rebalance
  BY <1>1, <1>2, BooksSpelled DEF TotalsNat
<1>4. epoch_stake_orders \in Nat /\ epoch_unstake_orders \in Nat
  BY <1>1 DEF TotalsNat
<1>5. /\ o \in Orders
      /\ \E e \in Nat :
           /\ e <= amount /\ e <= unstaked_for_rebalance
           /\ o.stake = epoch_stake_orders + e /\ o.unstake = epoch_unstake_orders
           /\ o.reserve = retrieved_for_unstake_claims + amount - e
           /\ o.rebal = unstaked_for_rebalance - e
           /\ o.reserve <= total_unstake_claims
  BY <1>1, <1>3, <1>4, ConsideredExactly
<1>6. SetOrders(o)
  OBVIOUS
<1> HIDE DEF o
<1> QED
  BY <1>5, <1>6 DEF SetOrders, Orders

(* on_staking_pool_stake_maybe_deposit                                     *)
LEMMA StakeSucceededExact ==
  ASSUME PInv, NEW p \in promises, StakeSucceeded(p)
  PROVE  PInv'
<1> DEFINE sp == staking_pools[p.inx]
<1>1. /\ p \in Promises /\ p.amount \in Nat
      /\ sp \in PoolInfo /\ sp.account_id = p.pool
      /\ sp.staked \in Nat /\ sp.unstaked \in Nat
  BY CallWaits
<1>2. Settles(p, sp.unstaked, pool_account[p.pool].unstaked)
  BY DEF StakeSucceeded, PInv, PoolsOK
<1>3. /\ TotalsNat /\ BooksOK /\ RecordsOK
      /\ UNCHANGED <<userVars, total_actually_staked, env_balance, worldVars>>
  BY DEF PInv, TypeOK, StakeSucceeded
<1>4. UNCHANGED <<total_available, total_for_staking, total_unstake_claims, registered,
                  total_actually_staked, env_balance, epoch, pool_account>>
  BY <1>3 DEF userVars, worldVars
<1>5. CASE /\ p.kind = "deposit_and_stake"
           /\ contract_account_balance >= p.amount
           /\ Settle(p, [sp EXCEPT !.staked = @ + p.amount])
           /\ contract_account_balance' = contract_account_balance - p.amount
           /\ UNCHANGED <<orderVars, total_unstaked_and_waiting>>
  <2> DEFINE r == [sp EXCEPT !.staked = @ + p.amount]
  <2>1. /\ r \in PoolInfo /\ r.account_id = p.pool
        /\ r.staked = sp.staked + p.amount /\ r.unstaked = sp.unstaked
    BY <1>1 DEF PoolInfo
  <2>2. Settle(p, r)
    BY <1>5
  <2>3. r.unstaked <= pool_account[p.pool].unstaked
    BY <1>2, <1>5, <2>1 DEF Settles
  <2>4. StakingOf(p) = p.amount /\ UnstakingOf(p) = 0 /\ RebalancingOf(p) = 0
    BY <1>5 DEF StakingOf, UnstakingOf, RebalancingOf
  <2> HIDE DEF r
  <2>5. /\ CallsOK' /\ PoolsOK' /\ (TotalsNat' => TypeOK')
        /\ Staking \in Nat /\ p.amount <= Staking /\ Staking' = Staking - p.amount
        /\ Unstaking \in Nat /\ Unstaking' = Unstaking - 0
        /\ Rebalancing \in Nat /\ Rebalancing' = Rebalancing - 0
        /\ StakedSum \in Nat /\ UnstakedSum \in Nat
        /\ StakedSum' \in Nat /\ UnstakedSum' \in Nat
        /\ StakedSum' + sp.staked = StakedSum + r.staked
        /\ UnstakedSum' + sp.unstaked = UnstakedSum + r.unstaked
    BY <1>4, <2>1, <2>2, <2>3, <2>4, SettleExact
  <2>6. /\ UNCHANGED <<epoch_stake_orders, epoch_unstake_orders,
                       retrieved_for_unstake_claims, unstaked_for_rebalance,
                       total_unstaked_and_waiting>>
        /\ contract_account_balance' = contract_account_balance - p.amount
        /\ contract_account_balance >= p.amount
    BY <1>5 DEF orderVars
  <2>7. TotalsNat'
    BY <1>1, <1>3, <1>4, <2>6 DEF TotalsNat
  <2>8. StakedSum' = StakedSum + p.amount /\ UnstakedSum' = UnstakedSum
    BY <1>1, <2>1, <2>5
  <2>9. RecordsOK'
    BY <1>1, <1>3, <1>4, <2>5, <2>6, <2>8, BooksSpelled DEF TotalsNat, RecordsOK
  <2>10. Unstaking' = Unstaking /\ Rebalancing' = Rebalancing
    BY <2>5
  <2>11. ClaimsExact' /\ StakeExplained' /\ ReserveWithinClaims'
    BY <1>3, <1>4, <2>6, <2>10
       DEF BooksOK, ClaimsExact, Owed, Coming, StakeExplained, ReserveWithinClaims
  <2>12. BooksExact'
    BY <1>1, <1>3, <1>4, <2>5, <2>6, BooksSpelled DEF TotalsNat, BooksExact, Booked
  <2> QED
    BY <2>5, <2>7, <2>9, <2>11, <2>12 DEF PInv, BooksOK
<1>6. CASE /\ p.kind = "stake"
           /\ sp.unstaked >= p.amount /\ total_unstaked_and_waiting >= p.amount
           /\ Settle(p, [sp EXCEPT !.staked = @ + p.amount, !.unstaked = @ - p.amount])
           /\ total_unstaked_and_waiting' = total_unstaked_and_waiting - p.amount
           /\ SetOrders(Considered(p.amount, epoch_stake_orders, epoch_unstake_orders))
           /\ UNCHANGED contract_account_balance
  <2> DEFINE r == [sp EXCEPT !.staked = @ + p.amount, !.unstaked = @ - p.amount]
  <2>0. sp.unstaked >= p.amount /\ total_unstaked_and_waiting >= p.amount
    BY <1>6
  <2>1. /\ r \in PoolInfo /\ r.account_id = p.pool
        /\ r.staked = sp.staked + p.amount /\ r.unstaked = sp.unstaked - p.amount
    <3>1. sp.staked + p.amount \in Nat /\ sp.unstaked - p.amount \in Nat
      BY <1>1, <2>0
    <3> QED
      BY <1>1, <3>1 DEF PoolInfo
  <2>2. Settle(p, r)
    BY <1>6
  <2>3. r.unstaked <= pool_account[p.pool].unstaked
    <3>1. sp.unstaked <= pool_account[p.pool].unstaked + p.amount
      BY <1>2, <1>6 DEF Settles
    <3>2. pool_account[p.pool].unstaked \in Nat
      BY CallWaits
    <3> QED
      BY <1>1, <2>1, <3>1, <3>2
  <2>4. StakingOf(p) = p.amount /\ UnstakingOf(p) = 0 /\ RebalancingOf(p) = 0
    BY <1>6 DEF StakingOf, UnstakingOf, RebalancingOf
  <2> HIDE DEF r
  <2>5. /\ CallsOK' /\ PoolsOK' /\ (TotalsNat' => TypeOK')
        /\ Staking \in Nat /\ p.amount <= Staking /\ Staking' = Staking - p.amount
        /\ Unstaking \in Nat /\ Unstaking' = Unstaking - 0
        /\ Rebalancing \in Nat /\ Rebalancing' = Rebalancing - 0
        /\ StakedSum \in Nat /\ UnstakedSum \in Nat
        /\ StakedSum' \in Nat /\ UnstakedSum' \in Nat
        /\ StakedSum' + sp.staked = StakedSum + r.staked
        /\ UnstakedSum' + sp.unstaked = UnstakedSum + r.unstaked
    BY <1>4, <2>1, <2>2, <2>3, <2>4, SettleExact
  <2>6. PICK e \in Nat :
           /\ e <= p.amount /\ e <= unstaked_for_rebalance
           /\ epoch_stake_orders' = epoch_stake_orders + e
           /\ epoch_unstake_orders' = epoch_unstake_orders
           /\ retrieved_for_unstake_claims' = retrieved_for_unstake_claims + p.amount - e
           /\ unstaked_for_rebalance' = unstaked_for_rebalance - e
           /\ retrieved_for_unstake_claims' <= total_unstake_claims
           /\ retrieved_for_unstake_claims' \in Nat
    BY <1>1, <1>6, ConsideredBooked DEF TotalsNat
  <2>7. /\ UNCHANGED contract_account_balance
        /\ total_unstaked_and_waiting' = total_unstaked_and_waiting - p.amount
    BY <1>6
  <2>8. TotalsNat'
    BY <1>1, <1>3, <1>4, <2>0, <2>6, <2>7 DEF TotalsNat
  <2>9. /\ StakedSum' = StakedSum + p.amount
        /\ UnstakedSum' + p.amount = UnstakedSum
    BY <1>1, <2>1, <2>5
  <2>10. RecordsOK'
    BY <1>1, <1>3, <1>4, <2>5, <2>7, <2>9, BooksSpelled DEF TotalsNat, RecordsOK
  <2>11. ClaimsExact'
    BY <1>1, <1>3, <1>4, <2>5, <2>6, <2>7, BooksSpelled DEF TotalsNat, ClaimsExact, Owed, Coming
  <2>12. BooksExact'
    BY <1>1, <1>3, <1>4, <2>5, <2>6, <2>7, BooksSpelled DEF TotalsNat, BooksExact, Booked
  <2>13. StakeExplained'
    <3>1. Rebalancing' = Rebalancing
      BY <2>5
    <3>2. epoch_stake_orders' + unstaked_for_rebalance'
            = epoch_stake_orders + unstaked_for_rebalance
      BY <1>3, <2>6 DEF TotalsNat
    <3> QED
      BY <1>3, <1>4, <2>5, <2>6, <2>8, <3>1, <3>2, BooksSpelled DEF TotalsNat, StakeExplained
  <2>14. ReserveWithinClaims'
    BY <1>4, <2>6 DEF ReserveWithinClaims
  <2> QED
    BY <2>5, <2>8, <2>10, <2>11, <2>12, <2>13, <2>14 DEF PInv, BooksOK
<1> QED
  BY <1>5, <1>6 DEF StakeSucceeded


LEMMA StakeFailedExact ==
  ASSUME PInv, NEW p \in promises, StakeFailed(p)
  PROVE  PInv'
<1> DEFINE sp == staking_pools[p.inx]
<1>1. /\ p.amount \in Nat /\ sp \in PoolInfo /\ sp.account_id = p.pool
      /\ sp.staked \in Nat /\ sp.unstaked \in Nat
      /\ sp.unstaked <= pool_account[p.pool].unstaked
  BY CallWaits DEF StakeFailed
<1>2. /\ Settle(p, sp) /\ total_actually_staked >= p.amount
      /\ total_actually_staked' = total_actually_staked - p.amount
      /\ epoch_stake_orders' = epoch_stake_orders + p.amount
      /\ UNCHANGED <<epoch_unstake_orders, retrieved_for_unstake_claims,
                     unstaked_for_rebalance, total_unstaked_and_waiting, total_available,
                     total_for_staking, total_unstake_claims, registered, contract_account_balance,
                     env_balance, epoch, pool_account>>
  BY DEF StakeFailed, userVars, moneyVars, worldVars
<1>3. StakingOf(p) = p.amount /\ UnstakingOf(p) = 0 /\ RebalancingOf(p) = 0
  BY DEF StakeFailed, StakingOf, UnstakingOf, RebalancingOf
<1>4. TotalsNat /\ BooksOK /\ RecordsOK
  BY DEF PInv, TypeOK
<1> HIDE DEF sp
<1>5. /\ CallsOK' /\ PoolsOK' /\ (TotalsNat' => TypeOK')
      /\ Staking \in Nat /\ p.amount <= Staking /\ Staking' = Staking - p.amount
      /\ Unstaking \in Nat /\ Unstaking' = Unstaking - 0
      /\ Rebalancing \in Nat /\ Rebalancing' = Rebalancing - 0
      /\ StakedSum \in Nat /\ UnstakedSum \in Nat
      /\ StakedSum' \in Nat /\ UnstakedSum' \in Nat
      /\ StakedSum' + sp.staked = StakedSum + sp.staked
      /\ UnstakedSum' + sp.unstaked = UnstakedSum + sp.unstaked
  BY <1>1, <1>2, <1>3, SettleExact DEF sp
<1>6. TotalsNat'
  BY <1>1, <1>2, <1>4 DEF TotalsNat
<1>7. StakedSum' = StakedSum /\ UnstakedSum' = UnstakedSum
  BY <1>1, <1>5
<1>8. RecordsOK'
  BY <1>1, <1>2, <1>4, <1>5, <1>7, BooksSpelled DEF TotalsNat, RecordsOK
<1>9. Unstaking' = Unstaking /\ Rebalancing' = Rebalancing
  BY <1>5
<1>10. ClaimsExact' /\ ReserveWithinClaims'
  BY <1>2, <1>4, <1>9 DEF BooksOK, ClaimsExact, ReserveWithinClaims, Owed, Coming
<1>11. BooksExact'
  BY <1>1, <1>2, <1>4, <1>5, BooksSpelled DEF TotalsNat, BooksExact, Booked
<1>12. StakeExplained'
  BY <1>1, <1>2, <1>4, <1>9, BooksSpelled DEF TotalsNat, StakeExplained
<1> QED
  BY <1>5, <1>6, <1>8, <1>10, <1>11, <1>12 DEF PInv, BooksOK

(* on_staking_pool_unstake                                                 *)
LEMMA UnstakeSucceededExact ==
  ASSUME PInv, NEW p \in promises, UnstakeSucceeded(p)
  PROVE  PInv'
<1> DEFINE sp    == staking_pools[p.inx]
           total == p.amount + p.rebalance
           r     == [sp EXCEPT !.staked = @ - total, !.unstaked = @ + total,
                               !.unstk_req_epoch_height = epoch]
<1>1. /\ p.amount \in Nat /\ p.rebalance \in Nat /\ total \in Nat
      /\ sp \in PoolInfo /\ sp.account_id = p.pool
      /\ sp.staked \in Nat /\ sp.unstaked \in Nat
  BY CallWaits
<1>2. /\ p.kind = "unstake" /\ sp.staked >= total /\ Settle(p, r)
      /\ total_unstaked_and_waiting' = total_unstaked_and_waiting + total
      /\ unstaked_for_rebalance' = unstaked_for_rebalance + p.rebalance
      /\ UNCHANGED <<epoch_stake_orders, epoch_unstake_orders,
                     retrieved_for_unstake_claims, total_actually_staked, total_available,
                     total_for_staking, total_unstake_claims, registered, contract_account_balance,
                     env_balance, epoch, pool_account>>
  BY DEF UnstakeSucceeded, userVars, moneyVars, worldVars
<1>3. StakingOf(p) = 0 /\ UnstakingOf(p) = total /\ RebalancingOf(p) = p.rebalance
  BY <1>2 DEF StakingOf, UnstakingOf, RebalancingOf
<1>4. TotalsNat /\ BooksOK /\ RecordsOK
  BY DEF PInv, TypeOK
<1>5. sp.unstaked + p.amount + p.rebalance <= pool_account[p.pool].unstaked
  BY <1>2 DEF UnstakeSucceeded, PInv, PoolsOK, Settles
<1>6. /\ r \in PoolInfo /\ r.account_id = p.pool
      /\ r.staked = sp.staked - total /\ r.unstaked = sp.unstaked + total
  <2>1. sp.staked - total \in Nat /\ sp.unstaked + total \in Nat /\ epoch \in Nat
    BY <1>1, <1>2, <1>4 DEF TotalsNat
  <2> HIDE DEF total
  <2> QED
    BY <1>1, <2>1 DEF PoolInfo
<1> HIDE DEF sp, r
<1>7. r.unstaked <= pool_account[p.pool].unstaked
  BY <1>1, <1>5, <1>6
<1> HIDE DEF total
<1>8. /\ CallsOK' /\ PoolsOK' /\ (TotalsNat' => TypeOK')
      /\ Staking \in Nat /\ Staking' = Staking - 0
      /\ Unstaking \in Nat /\ total <= Unstaking /\ Unstaking' = Unstaking - total
      /\ Rebalancing \in Nat /\ p.rebalance <= Rebalancing
      /\ Rebalancing' = Rebalancing - p.rebalance
      /\ StakedSum \in Nat /\ UnstakedSum \in Nat
      /\ StakedSum' \in Nat /\ UnstakedSum' \in Nat
      /\ StakedSum' + sp.staked = StakedSum + r.staked
      /\ UnstakedSum' + sp.unstaked = UnstakedSum + r.unstaked
  BY <1>2, <1>3, <1>6, <1>7, SettleExact DEF sp
<1>9. TotalsNat'
  BY <1>1, <1>2, <1>4 DEF TotalsNat
<1>10. StakedSum' + total = StakedSum /\ UnstakedSum' = UnstakedSum + total
  BY <1>1, <1>2, <1>6, <1>8
<1>11. Staking' = Staking /\ Unstaking' + total = Unstaking
  BY <1>1, <1>8
<1>12. RecordsOK'
  <2>1. /\ total_unstaked_and_waiting = UnstakedSum
        /\ StakedSum + Staking <= total_actually_staked + Unstaking
    BY <1>4 DEF RecordsOK
  <2>2. total_unstaked_and_waiting' = UnstakedSum'
    BY <1>2, <1>10, <2>1
  <2>3. /\ total_actually_staked \in Nat /\ total_actually_staked' = total_actually_staked
        /\ total \in Nat /\ StakedSum \in Nat /\ StakedSum' \in Nat /\ Staking \in Nat
        /\ Unstaking \in Nat /\ Unstaking' \in Nat
    BY <1>1, <1>2, <1>4, <1>8 DEF TotalsNat
  <2>4. \A s, s1, k, a, u, u1, t \in Nat :
           s1 + t = s /\ u1 + t = u /\ s + k <= a + u => s1 + k <= a + u1
    OBVIOUS
  <2>5. StakedSum' + Staking <= total_actually_staked + Unstaking'
    BY <1>10, <1>11, <2>1, <2>3, <2>4
  <2>6. StakedSum' + Staking' <= total_actually_staked' + Unstaking'
    BY <1>11, <2>3, <2>5
  <2> QED
    BY <2>2, <2>6 DEF RecordsOK
<1>13. total = p.amount + p.rebalance
  BY DEF total
<1>14. ClaimsExact'
  <2>1. /\ total_unstake_claims + unstaked_for_rebalance + Rebalancing
            = retrieved_for_unstake_claims + total_unstaked_and_waiting
              + epoch_unstake_orders + Unstaking
        /\ total_unstake_claims \in Nat /\ unstaked_for_rebalance \in Nat
        /\ retrieved_for_unstake_claims \in Nat /\ total_unstaked_and_waiting \in Nat
        /\ epoch_unstake_orders \in Nat
    BY <1>4, BooksSpelled DEF TotalsNat
  <2>2. total_unstake_claims' + unstaked_for_rebalance' + Rebalancing'
          = retrieved_for_unstake_claims' + total_unstaked_and_waiting'
            + epoch_unstake_orders' + Unstaking'
    BY <1>1, <1>2, <1>8, <1>13, <2>1
  <2> QED
    BY <2>2 DEF ClaimsExact, Owed, Coming
<1>15. BooksExact' /\ ReserveWithinClaims'
  BY <1>2, <1>4, <1>11 DEF BooksOK, BooksExact, Booked, ReserveWithinClaims
<1>16. StakeExplained'
  BY <1>1, <1>2, <1>4, <1>8, BooksSpelled DEF TotalsNat, StakeExplained
<1> QED
  BY <1>8, <1>9, <1>12, <1>14, <1>15, <1>16 DEF PInv, BooksOK

LEMMA UnstakeFailedExact ==
  ASSUME PInv, NEW p \in promises, UnstakeFailed(p)
  PROVE  PInv'
<1> DEFINE sp    == staking_pools[p.inx]
           total == p.amount + p.rebalance
<1>1. /\ p.amount \in Nat /\ p.rebalance \in Nat /\ total \in Nat
      /\ sp \in PoolInfo /\ sp.account_id = p.pool
      /\ sp.staked \in Nat /\ sp.unstaked \in Nat
      /\ sp.unstaked <= pool_account[p.pool].unstaked
  BY CallWaits DEF UnstakeFailed
<1>2. TotalsNat /\ BooksOK /\ RecordsOK
  BY DEF PInv, TypeOK
<1>3. /\ p.kind = "unstake" /\ Settle(p, sp)
      /\ total_actually_staked' = total_actually_staked + p.amount + p.rebalance
      /\ epoch_unstake_orders' = epoch_unstake_orders + p.amount
      /\ UNCHANGED <<epoch_stake_orders, retrieved_for_unstake_claims,
                     unstaked_for_rebalance, total_unstaked_and_waiting, total_available,
                     total_for_staking, total_unstake_claims, registered, contract_account_balance,
                     env_balance, epoch, pool_account>>
  BY DEF UnstakeFailed, userVars, moneyVars, worldVars
<1>4. StakingOf(p) = 0 /\ UnstakingOf(p) = total /\ RebalancingOf(p) = p.rebalance
  BY <1>3 DEF StakingOf, UnstakingOf, RebalancingOf
<1> HIDE DEF sp, total
<1>5. /\ CallsOK' /\ PoolsOK' /\ (TotalsNat' => TypeOK')
      /\ Staking \in Nat /\ Staking' = Staking - 0
      /\ Unstaking \in Nat /\ total <= Unstaking /\ Unstaking' = Unstaking - total
      /\ Rebalancing \in Nat /\ p.rebalance <= Rebalancing
      /\ Rebalancing' = Rebalancing - p.rebalance
      /\ StakedSum \in Nat /\ UnstakedSum \in Nat
      /\ StakedSum' \in Nat /\ UnstakedSum' \in Nat
      /\ StakedSum' + sp.staked = StakedSum + sp.staked
      /\ UnstakedSum' + sp.unstaked = UnstakedSum + sp.unstaked
  BY <1>1, <1>3, <1>4, SettleExact DEF sp
<1>6. TotalsNat'
  BY <1>1, <1>2, <1>3 DEF TotalsNat
<1>7. StakedSum' = StakedSum /\ UnstakedSum' = UnstakedSum
  BY <1>1, <1>5
<1>8. total = p.amount + p.rebalance
  BY DEF total
<1>9. RecordsOK'
  BY <1>1, <1>2, <1>3, <1>5, <1>7, <1>8, BooksSpelled DEF TotalsNat, RecordsOK
<1>10. Staking' = Staking
  BY <1>5
<1>11. ClaimsExact'
  <2>1. /\ Unstaking' = Unstaking - (p.amount + p.rebalance)
        /\ p.amount + p.rebalance <= Unstaking
    BY <1>5, <1>8
  <2>2. total_unstake_claims + unstaked_for_rebalance + Rebalancing
          = retrieved_for_unstake_claims + total_unstaked_and_waiting
            + epoch_unstake_orders + Unstaking
    BY <1>2, BooksSpelled
  <2>3. /\ p.amount \in Nat /\ p.rebalance \in Nat
        /\ Unstaking \in Nat /\ Rebalancing \in Nat
        /\ p.rebalance <= Rebalancing /\ Rebalancing' = Rebalancing - p.rebalance
        /\ epoch_unstake_orders' = epoch_unstake_orders + p.amount
        /\ UNCHANGED <<retrieved_for_unstake_claims, unstaked_for_rebalance,
                       total_unstaked_and_waiting, total_unstake_claims>>
    BY <1>1, <1>3, <1>5
  <2>4. total_unstake_claims + unstaked_for_rebalance + (Rebalancing - p.rebalance)
          = retrieved_for_unstake_claims + total_unstaked_and_waiting
            + (epoch_unstake_orders + p.amount) + (Unstaking - (p.amount + p.rebalance))
    <3>1. total_unstake_claims \in Nat /\ unstaked_for_rebalance \in Nat
          /\ retrieved_for_unstake_claims \in Nat /\ total_unstaked_and_waiting \in Nat
          /\ epoch_unstake_orders \in Nat
      BY <1>2 DEF TotalsNat
    <3> QED
      BY <2>1, <2>2, <2>3, <3>1
  <2> QED
    BY <2>1, <2>3, <2>4 DEF ClaimsExact, Owed, Coming
<1>12. BooksExact' /\ ReserveWithinClaims'
  BY <1>2, <1>3, <1>10 DEF BooksOK, BooksExact, Booked, ReserveWithinClaims
<1>13. StakeExplained'
  BY <1>1, <1>2, <1>3, <1>5, <1>8, BooksSpelled DEF TotalsNat, StakeExplained
<1> QED
  BY <1>5, <1>6, <1>9, <1>11, <1>12, <1>13 DEF PInv, BooksOK


(* on_retrieve_from_staking_pool                                           *)
LEMMA RetrievedExact ==
  ASSUME PInv, NEW p \in promises, Retrieved(p)
  PROVE  PInv'
<1> DEFINE sp     == staking_pools[p.inx]
           amount == sp.unstaked
           r      == [sp EXCEPT !.unstaked = 0]
<1>1. /\ sp \in PoolInfo /\ sp.account_id = p.pool
      /\ sp.staked \in Nat /\ amount \in Nat
      /\ pool_account[p.pool].unstaked \in Nat
  BY CallWaits
<1>2. /\ TotalsNat /\ BooksOK /\ RecordsOK /\ TypeOK /\ CallsOK
  BY DEF PInv, TypeOK
<1>3. /\ p.kind = "withdraw_all" /\ Settle(p, r)
      /\ total_unstaked_and_waiting' = Monus(total_unstaked_and_waiting, amount)
      /\ contract_account_balance' = contract_account_balance + amount
      /\ SetOrders(Considered(amount, epoch_stake_orders, epoch_unstake_orders))
      /\ UNCHANGED <<total_actually_staked, total_available, total_for_staking,
                     total_unstake_claims, registered, env_balance, epoch, pool_account>>
  BY DEF Retrieved, userVars, worldVars
<1>4. StakingOf(p) = 0 /\ UnstakingOf(p) = 0 /\ RebalancingOf(p) = 0
  BY <1>3 DEF StakingOf, UnstakingOf, RebalancingOf
<1>5. amount <= total_unstaked_and_waiting
  <2> DEFINE D == DOMAIN staking_pools
  <2>1. /\ IsFiniteSet(D) /\ UnstakedRecords \in [D -> Nat]
        /\ p.inx \in D /\ UnstakedRecords[p.inx] = amount
    BY <1>2, PoolsFinite, CallWaits DEF UnstakedRecords
  <2> HIDE DEF D, amount
  <2>2. amount <= UnstakedSum
    BY <2>1, SumAtLeast DEF UnstakedSum
  <2> QED
    BY <1>2, <2>2 DEF RecordsOK
<1>6. r \in PoolInfo /\ r.account_id = p.pool /\ r.staked = sp.staked /\ r.unstaked = 0
  BY <1>1 DEF PoolInfo
<1>7. r.unstaked <= pool_account[p.pool].unstaked
  BY <1>1, <1>6
<1> HIDE DEF r, amount
<1>8. /\ CallsOK' /\ PoolsOK' /\ (TotalsNat' => TypeOK')
      /\ Staking \in Nat /\ Staking' = Staking - 0
      /\ Unstaking \in Nat /\ Unstaking' = Unstaking - 0
      /\ Rebalancing \in Nat /\ Rebalancing' = Rebalancing - 0
      /\ StakedSum \in Nat /\ UnstakedSum \in Nat
      /\ StakedSum' \in Nat /\ UnstakedSum' \in Nat
      /\ StakedSum' + sp.staked = StakedSum + r.staked
      /\ UnstakedSum' + sp.unstaked = UnstakedSum + r.unstaked
  BY <1>3, <1>4, <1>6, <1>7, SettleExact
<1>9. PICK e \in Nat :
         /\ e <= amount /\ e <= unstaked_for_rebalance
         /\ epoch_stake_orders' = epoch_stake_orders + e
         /\ epoch_unstake_orders' = epoch_unstake_orders
         /\ retrieved_for_unstake_claims' = retrieved_for_unstake_claims + amount - e
         /\ unstaked_for_rebalance' = unstaked_for_rebalance - e
         /\ retrieved_for_unstake_claims' <= total_unstake_claims
         /\ retrieved_for_unstake_claims' \in Nat
  BY <1>1, <1>3, <1>5, ConsideredBooked
<1>10. total_unstaked_and_waiting' = total_unstaked_and_waiting - amount
  BY <1>1, <1>2, <1>3, <1>5 DEF TotalsNat, Monus
<1>11. TotalsNat'
  BY <1>1, <1>2, <1>3, <1>5, <1>9, <1>10 DEF TotalsNat
<1>12. StakedSum' = StakedSum /\ UnstakedSum' = UnstakedSum - amount
  BY <1>1, <1>6, <1>8 DEF amount
<1>13. Staking' = Staking /\ Unstaking' = Unstaking /\ Rebalancing' = Rebalancing
  BY <1>8
<1>14. RecordsOK'
  BY <1>1, <1>2, <1>3, <1>8, <1>10, <1>12, <1>13, BooksSpelled DEF TotalsNat, RecordsOK
<1>15. ClaimsExact'
  BY <1>1, <1>2, <1>3, <1>8, <1>9, <1>10, <1>13, BooksSpelled
     DEF TotalsNat, ClaimsExact, Owed, Coming
<1>16. BooksExact'
  BY <1>1, <1>2, <1>3, <1>8, <1>9, <1>13, BooksSpelled DEF TotalsNat, BooksExact, Booked
<1>17. StakeExplained'
  <2>1. epoch_stake_orders' + unstaked_for_rebalance'
          = epoch_stake_orders + unstaked_for_rebalance
    BY <1>2, <1>9 DEF TotalsNat
  <2> QED
    BY <1>2, <1>3, <1>8, <1>9, <1>11, <1>13, <2>1, BooksSpelled DEF TotalsNat, StakeExplained
<1>18. ReserveWithinClaims'
  BY <1>3, <1>9 DEF ReserveWithinClaims
<1> QED
  BY <1>8, <1>11, <1>14, <1>15, <1>16, <1>17, <1>18 DEF PInv, BooksOK

LEMMA RetrieveFailedExact ==
  ASSUME PInv, NEW p \in promises, RetrieveFailed(p)
  PROVE  PInv'
<1> DEFINE sp == staking_pools[p.inx]
<1>1. /\ sp \in PoolInfo /\ sp.account_id = p.pool
      /\ sp.staked \in Nat /\ sp.unstaked \in Nat
      /\ sp.unstaked <= pool_account[p.pool].unstaked
  BY CallWaits DEF RetrieveFailed
<1>2. p.kind = "withdraw_all" /\ Settle(p, sp) /\ booksUnchanged
  BY DEF RetrieveFailed
<1>3. StakingOf(p) = 0 /\ UnstakingOf(p) = 0 /\ RebalancingOf(p) = 0
  BY <1>2 DEF StakingOf, UnstakingOf, RebalancingOf
<1>4. UNCHANGED pool_account
  BY <1>2 DEF booksUnchanged, worldVars
<1> HIDE DEF sp
<1>5. /\ CallsOK' /\ PoolsOK' /\ (TotalsNat' => TypeOK')
      /\ Staking \in Nat /\ Staking' = Staking - 0
      /\ Unstaking \in Nat /\ Unstaking' = Unstaking - 0
      /\ Rebalancing \in Nat /\ Rebalancing' = Rebalancing - 0
      /\ StakedSum \in Nat /\ UnstakedSum \in Nat
      /\ StakedSum' \in Nat /\ UnstakedSum' \in Nat
      /\ StakedSum' + sp.staked = StakedSum + sp.staked
      /\ UnstakedSum' + sp.unstaked = UnstakedSum + sp.unstaked
  BY <1>1, <1>2, <1>3, <1>4, SettleExact DEF sp
<1>6. UNCHANGED <<Staking, Unstaking, Rebalancing, StakedSum, UnstakedSum>>
  <2>1. StakedSum' = StakedSum /\ UnstakedSum' = UnstakedSum
    BY <1>1, <1>5
  <2>2. Staking' = Staking /\ Unstaking' = Unstaking /\ Rebalancing' = Rebalancing
    BY <1>5
  <2> QED
    BY <2>1, <2>2
<1> QED
  BY <1>2, <1>5, <1>6, BooksStay DEF PInv

(* on_get_sp_total_balance                                                 *)
LEMMA RewardsDistributedExact ==
  ASSUME PInv, NEW p \in promises, RewardsDistributed(p)
  PROVE  PInv'
<1> DEFINE sp      == staking_pools[p.inx]
           rewards == Monus(p.answer, TotalBalance(sp))
           r       == [sp EXCEPT !.staked = p.answer - sp.unstaked,
                                 !.last_asked_rewards_epoch_height = epoch]
<1>1. /\ p.answer \in Nat /\ sp \in PoolInfo /\ sp.account_id = p.pool
      /\ sp.staked \in Nat /\ sp.unstaked \in Nat
  BY CallWaits
<1>2. TotalsNat /\ BooksOK /\ RecordsOK
  BY DEF PInv, TypeOK
<1>3. /\ p.kind = "total_balance" /\ p.answer >= sp.unstaked /\ Settle(p, r)
      /\ total_actually_staked' = total_actually_staked + rewards
      /\ total_for_staking' = total_for_staking + rewards
      /\ UNCHANGED <<epoch_stake_orders, epoch_unstake_orders,
                     retrieved_for_unstake_claims, unstaked_for_rebalance,
                     total_available, total_unstake_claims, total_unstaked_and_waiting,
                     contract_account_balance, env_balance, epoch, pool_account>>
  BY DEF RewardsDistributed, orderVars, moneyVars, worldVars
<1>4. StakingOf(p) = 0 /\ UnstakingOf(p) = 0 /\ RebalancingOf(p) = 0
  BY <1>3 DEF StakingOf, UnstakingOf, RebalancingOf
<1>5. /\ sp.unstaked <= pool_account[p.pool].unstaked
      /\ registered' \in Nat
  <2>1. OpensUnpaid(IF rewards > 0 THEN 2 ELSE 0)
    BY DEF RewardsDistributed
  <2> HIDE DEF rewards
  <2>2. registered' \in Nat
    BY <1>2, <2>1, OpensNat DEF TotalsNat
  <2> QED
    BY <1>3, <2>2 DEF RewardsDistributed, PInv, PoolsOK, Settles
<1>6. /\ r \in PoolInfo /\ r.account_id = p.pool
      /\ r.staked = p.answer - sp.unstaked /\ r.unstaked = sp.unstaked
  <2>1. p.answer - sp.unstaked \in Nat /\ epoch \in Nat
    BY <1>1, <1>2, <1>3 DEF TotalsNat
  <2> QED
    BY <1>1, <2>1 DEF PoolInfo
<1>7. rewards \in Nat /\ p.answer <= sp.staked + sp.unstaked + rewards
  BY <1>1 DEF Monus, TotalBalance
<1> HIDE DEF sp, r, rewards
<1>8. /\ CallsOK' /\ PoolsOK' /\ (TotalsNat' => TypeOK')
      /\ Staking \in Nat /\ Staking' = Staking - 0
      /\ Unstaking \in Nat /\ Unstaking' = Unstaking - 0
      /\ Rebalancing \in Nat /\ Rebalancing' = Rebalancing - 0
      /\ StakedSum \in Nat /\ UnstakedSum \in Nat
      /\ StakedSum' \in Nat /\ UnstakedSum' \in Nat
      /\ StakedSum' + sp.staked = StakedSum + r.staked
      /\ UnstakedSum' + sp.unstaked = UnstakedSum + r.unstaked
  BY <1>3, <1>4, <1>5, <1>6, SettleExact DEF sp
<1>9. TotalsNat'
  BY <1>2, <1>3, <1>5, <1>7 DEF TotalsNat
<1>10. StakedSum' <= StakedSum + rewards /\ UnstakedSum' = UnstakedSum
  BY <1>1, <1>3, <1>6, <1>7, <1>8
<1>11. Staking' = Staking /\ Unstaking' = Unstaking /\ Rebalancing' = Rebalancing
  BY <1>8
<1>12. RecordsOK'
  <2>1. total_unstaked_and_waiting' = UnstakedSum'
    BY <1>2, <1>3, <1>10 DEF RecordsOK
  <2>2. StakedSum + Staking <= total_actually_staked + Unstaking
    BY <1>2 DEF RecordsOK
  <2>3. PICK s \in Nat : s = StakedSum' /\ s <= StakedSum + rewards
    BY <1>8, <1>10
  <2>4. s + Staking <= total_actually_staked + rewards + Unstaking
    <3>1. /\ StakedSum \in Nat /\ Staking \in Nat /\ Unstaking \in Nat
          /\ rewards \in Nat /\ total_actually_staked \in Nat
          /\ s <= StakedSum + rewards
      BY <1>2, <1>7, <1>8, <2>3 DEF TotalsNat
    <3> QED
      BY <2>2, <3>1
  <2> QED
    BY <1>3, <1>11, <2>1, <2>3, <2>4 DEF RecordsOK
<1>13. ClaimsExact' /\ BooksExact' /\ ReserveWithinClaims'
  BY <1>2, <1>3, <1>11
     DEF BooksOK, ClaimsExact, Owed, Coming, BooksExact, Booked, ReserveWithinClaims
<1>14. StakeExplained'
  BY <1>2, <1>3, <1>7, <1>8, <1>11, BooksSpelled DEF TotalsNat, StakeExplained
<1> QED
  BY <1>8, <1>9, <1>12, <1>13, <1>14 DEF PInv, BooksOK


(* What is being unstaked is still on record; what is being staked is among *)
(* what the contract believes to be staked, and in its books.              *)
LEMMA InFlightBacked ==
  ASSUME PInv, NEW p \in promises
  PROVE  /\ StakingOf(p) \in Nat
         /\ StakingOf(p) <= total_actually_staked
         /\ StakingOf(p) <= contract_account_balance
         /\ staking_pools[p.inx].unstaked <= total_unstaked_and_waiting
<1> DEFINE D == DOMAIN staking_pools
           s == [q \in promises |-> StakingOf(q)]
           u == [q \in promises |-> UnstakingOf(q)]
           h == [q \in promises |-> q.inx]
<1>1. TypeOK /\ CallsOK /\ TotalsNat /\ BooksOK /\ RecordsOK /\ IsFiniteSet(promises)
  BY DEF PInv, TypeOK, CallsOK
<1>2. /\ Staking \in Nat /\ Unstaking \in Nat /\ StakedSum \in Nat /\ UnstakedSum \in Nat
      /\ StakingOf(p) \in Nat
  BY <1>1, SumsNat, CountsNat DEF TypeOK
<1>3. StakingOf(p) <= Staking
  <2>1. s \in [promises -> Nat] /\ s[p] = StakingOf(p)
    BY <1>1, CountsNat DEF TypeOK
  <2>2. Staking = SumOf(s)
    BY DEF Staking
  <2> HIDE DEF s
  <2> QED
    BY <1>1, <2>1, <2>2, SumAtLeast
<1>4. /\ IsFiniteSet(D) /\ StakedRecords \in [D -> Nat] /\ UnstakedRecords \in [D -> Nat]
  BY <1>1, PoolsFinite
<1>5. Unstaking <= StakedSum
  <2>1. u \in [promises -> Nat]
    BY <1>1, CountsNat DEF TypeOK
  <2>2. \A q \in promises : q.inx \in D /\ u[q] <= StakedRecords[q.inx]
    <3>1. ASSUME NEW q \in promises
          PROVE  q.inx \in D /\ UnstakingOf(q) <= staking_pools[q.inx].staked
      BY CallWaits, <1>1 DEF CallsOK, UnstakingOf
    <3> QED
      BY <3>1 DEF StakedRecords
  <2>3. \A q, x \in promises : q.inx = x.inx => q = x
    BY <1>1 DEF CallsOK
  <2>4. Fits(promises, D, h, u, StakedRecords)
    BY <2>2, <2>3 DEF Fits
  <2>5. Unstaking = SumOf(u)
    BY DEF Unstaking
  <2> HIDE DEF u, D, h
  <2> QED
    BY <1>4, <2>1, <2>4, <2>5, SumInjected DEF StakedSum
<1>6. staking_pools[p.inx].unstaked <= UnstakedSum
  <2>1. p.inx \in D /\ UnstakedRecords[p.inx] = staking_pools[p.inx].unstaked
    BY CallWaits DEF UnstakedRecords
  <2> HIDE DEF D
  <2> QED
    BY <1>4, <2>1, SumAtLeast DEF UnstakedSum
<1>7. Staking <= total_actually_staked
  BY <1>1, <1>2, <1>5, BooksSpelled DEF TotalsNat
<1>8. Staking <= contract_account_balance
  BY <1>1, <1>2, BooksSpelled DEF TotalsNat
<1> QED
  BY <1>1, <1>2, <1>3, <1>6, <1>7, <1>8, BooksSpelled DEF TotalsNat

(* The only callback that panics is the one of a view that has failed.     *)
LEMMA OnlyViewsPanic ==
  ASSUME PInv, NEW p \in promises, p.stage # "sent", Panics(p)
  PROVE  p.kind \in Views /\ p.stage = "failed"
<1> DEFINE sp == staking_pools[p.inx]
<1>1. /\ p.inx \in DOMAIN staking_pools /\ p.kind # "unstaked_balance"
      /\ p.kind = "unstake" => sp.staked >= p.amount + p.rebalance
      /\ p.kind = "stake" => sp.unstaked >= p.amount
  BY DEF PInv, CallsOK
<1>2. /\ p.amount \in Nat /\ p.rebalance \in Nat /\ p.answer \in Nat
      /\ sp.staked \in Nat /\ sp.unstaked \in Nat
  BY CallWaits
<1>3. /\ contract_account_balance \in Nat /\ total_actually_staked \in Nat
      /\ total_unstaked_and_waiting \in Nat
  BY DEF PInv, TypeOK, TotalsNat
<1>4. p.kind \in {"deposit_and_stake", "stake"} =>
        p.amount <= total_actually_staked /\ p.amount <= contract_account_balance
  BY InFlightBacked DEF StakingOf
<1>5. sp.unstaked <= total_unstaked_and_waiting
  BY InFlightBacked
<1>6. p.kind = "total_balance" /\ p.stage = "ok" => sp.unstaked <= p.answer
  BY DEF PInv, PoolsOK, Settles
<1> HIDE DEF sp
<1>7. \/ p.kind \in Views /\ p.stage = "failed"
      \/ /\ p.stage = "ok"
         /\ \/ p.kind = "deposit_and_stake" /\ contract_account_balance < p.amount
            \/ /\ p.kind = "stake"
               /\ sp.unstaked < p.amount \/ total_unstaked_and_waiting < p.amount
            \/ p.kind = "unstake" /\ sp.staked < p.amount + p.rebalance
            \/ p.kind = "total_balance" /\ p.answer < sp.unstaked
            \/ p.kind = "unstaked_balance" /\ SyncRefused(p, sp)
      \/ /\ p.kind \in {"deposit_and_stake", "stake"} /\ p.stage = "failed"
         /\ total_actually_staked < p.amount
  BY <1>1 DEF Panics, sp
<1>8. ~(p.kind = "deposit_and_stake" /\ contract_account_balance < p.amount)
  BY <1>2, <1>3, <1>4
<1>9. ~(/\ p.kind = "stake"
        /\ sp.unstaked < p.amount \/ total_unstaked_and_waiting < p.amount)
  BY <1>1, <1>2, <1>3, <1>5
<1>10. ~(p.kind = "unstake" /\ sp.staked < p.amount + p.rebalance)
  BY <1>1, <1>2
<1>11. ~(p.stage = "ok" /\ p.kind = "total_balance" /\ p.answer < sp.unstaked)
  BY <1>2, <1>6
<1>12. ~(p.kind \in {"deposit_and_stake", "stake"} /\ total_actually_staked < p.amount)
  BY <1>2, <1>3, <1>4
<1> QED
  BY <1>1, <1>7, <1>8, <1>9, <1>10, <1>11, <1>12

(* A view that has failed leaves its locks, and nothing else.              *)
LEMMA CallbackPanicsExact ==
  ASSUME PInv, NEW p \in promises, p.stage # "sent", CallbackPanics(p)
  PROVE  PInv'
<1> DEFINE sp == staking_pools[p.inx]
<1>1. /\ Panics(p) /\ promises' = promises \ {p}
      /\ UNCHANGED <<contract_busy, staking_paused, staking_pools>>
      /\ booksUnchanged
  BY DEF CallbackPanics
<1>2. p.kind \in Views /\ p.stage = "failed"
  BY <1>1, OnlyViewsPanic
<1>3. TypeOK /\ CallsOK /\ PoolsOK
  BY DEF PInv
<1>4. /\ sp \in PoolInfo /\ sp.account_id = p.pool /\ p.inx \in DOMAIN staking_pools
      /\ sp.staked \in Nat /\ sp.unstaked \in Nat
      /\ sp.unstaked <= pool_account[p.pool].unstaked
  BY <1>2, CallWaits
<1>5. staking_pools' = [staking_pools EXCEPT ![p.inx] = sp]
  BY <1>1, <1>3, <1>4 DEF TypeOK
<1>6. UNCHANGED pool_account
  BY <1>1 DEF booksUnchanged, worldVars
<1>7. StakingOf(p) = 0 /\ UnstakingOf(p) = 0 /\ RebalancingOf(p) = 0
  BY <1>2 DEF StakingOf, UnstakingOf, RebalancingOf, Views
<1> HIDE DEF sp
<1>8. /\ CallsOK' /\ PoolsOK' /\ promises' \subseteq Promises
      /\ Staking' = Staking - 0 /\ Unstaking' = Unstaking - 0
      /\ Rebalancing' = Rebalancing - 0
  BY <1>1, <1>3, <1>4, <1>5, <1>6, <1>7, CallEnded DEF sp
<1>9. UNCHANGED <<StakedSum, UnstakedSum>>
  BY <1>1 DEF StakedSum, UnstakedSum, StakedRecords, UnstakedRecords
<1>10. UNCHANGED <<Staking, Unstaking, Rebalancing>>
  BY <1>3, <1>8, SumsNat
<1>11. TotalsNat' /\ RecordsOK' /\ BooksOK'
  BY <1>1, <1>9, <1>10, BooksStay
<1>12. TypeOK'
  BY <1>1, <1>3, <1>6, <1>8, <1>11 DEF TypeOK
<1> QED
  BY <1>8, <1>11, <1>12 DEF PInv

(* The callbacks.                                                          *)
LEMMA CallbacksExact ==
  ASSUME PInv, Callbacks
  PROVE  PInv'
<1>1. PICK p \in promises : Callback(p)
  BY DEF Callbacks
<1>2. CASE CallbackPanics(p)
  BY <1>1, <1>2, CallbackPanicsExact DEF Callback
<1>3. ~UnstakedSynced(p)
  BY DEF PInv, CallsOK, UnstakedSynced
<1> QED
  BY <1>1, <1>2, <1>3, StakeSucceededExact, StakeFailedExact, UnstakeSucceededExact,
     UnstakeFailedExact, RetrievedExact, RetrieveFailedExact, RewardsDistributedExact
     DEF Callback

-----------------------------------------------------------------------------
(* Calls of the owner, the operator and anyone.                            *)

(* Flags, weights or the list of pools change, and no sum does.            *)
LEMMA OwnerCallExact ==
  ASSUME PInv, booksUnchanged, UNCHANGED promises,
         contract_busy' \in BOOLEAN, staking_paused' \in BOOLEAN,
         staking_pools' \in Seq(PoolInfo), CallsOK', PoolsOK',
         UNCHANGED <<Staking, Unstaking, Rebalancing, StakedSum, UnstakedSum>>
  PROVE  PInv'
<1>1. TotalsNat' /\ RecordsOK' /\ BooksOK'
  BY BooksStay
<1>2. TypeOK'
  BY <1>1 DEF PInv, TypeOK, booksUnchanged, worldVars
<1> QED
  BY <1>1, <1>2 DEF PInv

(* Only flags of the contract change.                                      *)
LEMMA FlagsExact ==
  ASSUME PInv, booksUnchanged, UNCHANGED <<staking_pools, promises>>,
         contract_busy' \in BOOLEAN, staking_paused' \in BOOLEAN
  PROVE  PInv'
<1>1. TypeOK /\ CallsOK /\ PoolsOK
  BY DEF PInv
<1>2. UNCHANGED pool_account
  BY DEF booksUnchanged, worldVars
<1>3. /\ CallsOK' /\ PoolsOK'
      /\ UNCHANGED <<Staking, Unstaking, Rebalancing, StakedSum, UnstakedSum>>
  BY <1>1, <1>2, CallsKept
<1>4. staking_pools' \in Seq(PoolInfo)
  BY <1>1 DEF TypeOK
<1> QED
  BY <1>3, <1>4, OwnerCallExact

(* New weights touch no lock and no amount.                                *)
LEMMA SetStakingPoolsExact ==
  ASSUME PInv, NEW weights \in WeightLists, SetStakingPools(weights)
  PROVE  PInv'
<1> DEFINE sp(i) == [staking_pools[i] EXCEPT !.weight_basis_points = weights[i]]
<1>1. TypeOK /\ CallsOK /\ PoolsOK
  BY DEF PInv
<1>2. /\ DOMAIN weights = DOMAIN staking_pools
      /\ staking_pools' = [i \in DOMAIN staking_pools |-> sp(i)]
      /\ UNCHANGED <<contract_busy, staking_paused, promises>>
      /\ booksUnchanged
  BY DEF SetStakingPools
<1>3. ASSUME NEW i \in DOMAIN staking_pools
      PROVE  /\ sp(i) \in PoolInfo
             /\ sp(i).account_id = staking_pools[i].account_id
             /\ sp(i).busy_lock = staking_pools[i].busy_lock
             /\ sp(i).staked = staking_pools[i].staked
             /\ sp(i).unstaked = staking_pools[i].unstaked
  <2>1. staking_pools[i] \in PoolInfo
    BY <1>1, PoolTyped
  <2>2. weights \in Seq(Nat) /\ i \in DOMAIN weights
    BY <1>2, SetsAssumption
  <2>3. weights[i] \in Nat
    BY <2>2
  <2> QED
    BY <2>1, <2>3 DEF PoolInfo
<1> HIDE DEF sp
<1>4. staking_pools' \in Seq(PoolInfo) /\ DOMAIN staking_pools' = DOMAIN staking_pools
  <2>1. PICK n \in Nat : DOMAIN staking_pools = 1..n
    BY <1>1 DEF TypeOK
  <2> QED
    BY <1>2, <1>3, <2>1
<1>5. \A i \in DOMAIN staking_pools :
         /\ staking_pools'[i].account_id = staking_pools[i].account_id
         /\ staking_pools'[i].busy_lock = staking_pools[i].busy_lock
         /\ staking_pools'[i].staked = staking_pools[i].staked
         /\ staking_pools'[i].unstaked = staking_pools[i].unstaked
  BY <1>2, <1>3
<1>6. UNCHANGED pool_account
  BY <1>2 DEF booksUnchanged, worldVars
<1>7. \A p \in promises : staking_pools'[p.inx].busy_lock = staking_pools[p.inx].busy_lock
  BY <1>1, <1>5 DEF CallsOK
<1>8. /\ CallsOK' /\ PoolsOK'
      /\ UNCHANGED <<Staking, Unstaking, Rebalancing, StakedSum, UnstakedSum>>
  BY <1>1, <1>2, <1>4, <1>5, <1>6, <1>7, CallsKept
<1>9. contract_busy' \in BOOLEAN /\ staking_paused' \in BOOLEAN
  BY <1>1, <1>2 DEF TypeOK
<1> QED
  BY <1>2, <1>4, <1>8, <1>9, OwnerCallExact

(* The lock of a pool without a call is released by hand.                  *)
LEMMA PoolReleasedExact ==
  ASSUME PInv, NEW i \in DOMAIN staking_pools, Idle(i), SpBusy(i, FALSE)
  PROVE  PInv'
<1> DEFINE sp == [staking_pools[i] EXCEPT !.busy_lock = FALSE]
<1>1. TypeOK /\ CallsOK /\ PoolsOK
  BY DEF PInv
<1>2. /\ sp \in PoolInfo /\ sp.account_id = staking_pools[i].account_id
      /\ sp.staked = staking_pools[i].staked /\ sp.unstaked = staking_pools[i].unstaked
  BY <1>1, PoolTyped DEF PoolInfo
<1>3. /\ staking_pools' = [staking_pools EXCEPT ![i] = sp]
      /\ UNCHANGED <<contract_busy, staking_paused, promises>>
      /\ booksUnchanged
  BY DEF SpBusy
<1> HIDE DEF sp
<1>4. /\ staking_pools' \in Seq(PoolInfo)
      /\ DOMAIN staking_pools' = DOMAIN staking_pools
      /\ staking_pools'[i] = sp
      /\ \A j \in DOMAIN staking_pools : j # i => staking_pools'[j] = staking_pools[j]
  BY <1>1, <1>2, <1>3, RecordReplaced
<1>5. \A j \in DOMAIN staking_pools :
         /\ staking_pools'[j].account_id = staking_pools[j].account_id
         /\ staking_pools'[j].staked = staking_pools[j].staked
         /\ staking_pools'[j].unstaked = staking_pools[j].unstaked
  BY <1>2, <1>4
<1>6. \A p \in promises : staking_pools'[p.inx].busy_lock = staking_pools[p.inx].busy_lock
  <2>1. \A p \in promises : p.inx # i /\ p.inx \in DOMAIN staking_pools
    BY <1>1 DEF CallsOK, Idle, InFlight
  <2> QED
    BY <1>4, <2>1
<1>7. UNCHANGED pool_account
  BY <1>3 DEF booksUnchanged, worldVars
<1>8. /\ CallsOK' /\ PoolsOK'
      /\ UNCHANGED <<Staking, Unstaking, Rebalancing, StakedSum, UnstakedSum>>
  BY <1>1, <1>3, <1>4, <1>5, <1>6, <1>7, CallsKept
<1>9. contract_busy' \in BOOLEAN /\ staking_paused' \in BOOLEAN
  BY <1>1, <1>3 DEF TypeOK
<1> QED
  BY <1>3, <1>4, <1>8, <1>9, OwnerCallExact

(* The sweep is not booked, and needs not be.                              *)
LEMMA TransferExtraBalanceExact ==
  ASSUME PInv, TransferExtraBalance
  PROVE  PInv'
<1>1. TypeOK /\ CallsOK /\ PoolsOK /\ RecordsOK /\ TotalsNat
  BY DEF PInv, TypeOK
<1>2. /\ UNCHANGED <<orderVars, userVars, stakeVars, contract_account_balance,
                     contract_busy, staking_paused, staking_pools, promises>>
      /\ UNCHANGED worldVars
  BY DEF TransferExtraBalance, listVars
<1>3. env_balance' \in Nat
  <2>1. ONE_NEAR \in Nat /\ SWEEP_MARGIN \in Nat /\ SWEEP_MARGIN <= ONE_NEAR
    BY ThresholdsAssumption
  <2>2. ExtraBalance \in Nat /\ ExtraBalance <= env_balance
    BY <1>1, MonusNat DEF TotalsNat, ExtraBalance
  <2> QED
    BY <1>1, <2>1, <2>2 DEF TransferExtraBalance, TotalsNat
<1>4. /\ CallsOK' /\ PoolsOK' /\ RecordsOK'
      /\ UNCHANGED <<Staking, Unstaking, Rebalancing>>
  BY <1>1, <1>2, QuietStep DEF worldVars
<1>5. TotalsNat'
  BY <1>1, <1>2, <1>3 DEF TotalsNat, orderVars, userVars, stakeVars, worldVars
<1>6. TypeOK'
  BY <1>1, <1>2, <1>5 DEF TypeOK, worldVars
<1>7. BooksOK'
  <2>1. UNCHANGED <<Owed, Coming, Booked>>
    BY <1>2 DEF Owed, Coming, Booked, orderVars, userVars, stakeVars
  <2> QED
    BY <1>2, <1>4, <2>1 DEF PInv, BooksOK, ClaimsExact, BooksExact, StakeExplained,
       ReserveWithinClaims, orderVars, userVars, stakeVars
<1> QED
  BY <1>4, <1>6, <1>7 DEF PInv

(* Nor are accounts that are opened and closed.                            *)
LEMMA StorageCallsExact ==
  ASSUME PInv, StorageCalls
  PROVE  PInv'
<1>1. TypeOK /\ CallsOK /\ PoolsOK /\ RecordsOK /\ TotalsNat
  BY DEF PInv, TypeOK
<1>2. storageStepUnchanged /\ registered' \in Nat /\ env_balance' \in Nat
  BY <1>1, StorageCallsPay
<1>3. /\ UNCHANGED <<orderVars, total_available, total_for_staking, total_unstake_claims,
                     stakeVars, contract_account_balance, contract_busy, staking_paused,
                     staking_pools, promises>>
      /\ UNCHANGED worldVars
  BY <1>2 DEF storageStepUnchanged, listVars
<1>4. /\ CallsOK' /\ PoolsOK' /\ RecordsOK'
      /\ UNCHANGED <<Staking, Unstaking, Rebalancing>>
  BY <1>1, <1>3, QuietStep DEF worldVars
<1>5. TotalsNat'
  BY <1>1, <1>2, <1>3 DEF TotalsNat, orderVars, stakeVars, worldVars
<1>6. TypeOK'
  BY <1>1, <1>3, <1>5 DEF TypeOK, worldVars
<1>7. BooksOK'
  <2>1. UNCHANGED <<Owed, Coming, Booked>>
    BY <1>3 DEF Owed, Coming, Booked, orderVars, stakeVars
  <2> QED
    BY <1>3, <1>4, <2>1 DEF PInv, BooksOK, ClaimsExact, BooksExact, StakeExplained,
       ReserveWithinClaims, orderVars, stakeVars
<1> QED
  BY <1>4, <1>6, <1>7 DEF PInv

(* The list changes when no call is pending.                               *)
LEMMA PoolListCallsExact ==
  ASSUME PInv, promises = {}, PoolListCalls
  PROVE  PInv'
<1>1. TypeOK /\ CallsOK /\ PoolsOK
  BY DEF PInv
<1>2. ASSUME NEW id \in PoolIds, AddStakingPool(id)
      PROVE  PInv'
  <2>1. /\ CallsOK' /\ PoolsOK' /\ staking_pools' \in Seq(PoolInfo)
        /\ UNCHANGED <<Staking, Unstaking, Rebalancing, StakedSum, UnstakedSum>>
    BY <1>1, <1>2, PoolAdded
  <2>2. booksUnchanged /\ UNCHANGED <<contract_busy, staking_paused, promises>>
    BY <1>2 DEF AddStakingPool
  <2> QED
    BY <1>1, <2>1, <2>2, OwnerCallExact DEF TypeOK
<1>3. ASSUME NEW i \in DOMAIN staking_pools, RemoveStakingPool(i)
      PROVE  PInv'
  <2>1. /\ CallsOK' /\ PoolsOK' /\ staking_pools' \in Seq(PoolInfo)
        /\ UNCHANGED <<Staking, Unstaking, Rebalancing, StakedSum, UnstakedSum>>
    BY <1>1, <1>3, PoolRemoved
  <2>2. booksUnchanged /\ UNCHANGED <<contract_busy, staking_paused, promises>>
    BY <1>3 DEF RemoveStakingPool
  <2> QED
    BY <1>1, <2>1, <2>2, OwnerCallExact DEF TypeOK
<1> QED
  BY <1>2, <1>3 DEF PoolListCalls

(* Flags set by hand or by a migration.                                    *)
LEMMA FlagCallsExact ==
  ASSUME PInv, PauseStaking \/ Migrate \/ \E value \in BOOLEAN : SetBusy(value)
  PROVE  PInv'
<1>1. TypeOK
  BY DEF PInv
<1>2. CASE PauseStaking
  BY <1>1, <1>2, FlagsExact DEF PauseStaking, TypeOK
<1>3. CASE Migrate
  BY <1>1, <1>3, FlagsExact DEF Migrate, TypeOK
<1>4. ASSUME NEW value \in BOOLEAN, SetBusy(value)
      PROVE  PInv'
  BY <1>1, <1>4, FlagsExact DEF SetBusy, TypeOK
<1> QED
  BY <1>2, <1>3, <1>4

-----------------------------------------------------------------------------
(* The invariant of the contract upgraded at any moment.                   *)

LEMMA InitExact == Init => PInv
<1> SUFFICES ASSUME Init PROVE PInv
  OBVIOUS
<1>1. /\ total_unstaked_and_waiting = 0 /\ total_actually_staked = 0
      /\ contract_account_balance = 0 /\ retrieved_for_unstake_claims = 0
      /\ total_available = 0 /\ epoch_stake_orders = 0 /\ epoch_unstake_orders = 0
      /\ total_for_staking = 0 /\ total_unstake_claims = 0 /\ unstaked_for_rebalance = 0
      /\ staking_pools = << >> /\ promises = {}
  BY DEF Init, InitWith
<1>2. TypeOK
  BY InitSafe DEF IInv
<1>3. CallsOK
  BY <1>1, FS_EmptySet DEF CallsOK
<1>4. PoolsOK
  BY <1>1 DEF PoolsOK
<1>5. Staking = 0 /\ Unstaking = 0 /\ Rebalancing = 0 /\ StakedSum = 0 /\ UnstakedSum = 0
  <2>1. \A f \in [{} -> Nat] : SumOf(f) = 0
    BY SumZero
  <2>2. /\ promises = {} /\ DOMAIN staking_pools = {}
        /\ [p \in {} |-> StakingOf(p)] \in [{} -> Nat]
        /\ [p \in {} |-> UnstakingOf(p)] \in [{} -> Nat]
        /\ [p \in {} |-> RebalancingOf(p)] \in [{} -> Nat]
        /\ [i \in {} |-> staking_pools[i].staked] \in [{} -> Nat]
        /\ [i \in {} |-> staking_pools[i].unstaked] \in [{} -> Nat]
    BY <1>1
  <2> QED
    BY <2>1, <2>2 DEF Staking, Unstaking, Rebalancing, StakedSum, UnstakedSum,
                      StakedRecords, UnstakedRecords
<1>6. RecordsOK
  BY <1>1, <1>5 DEF RecordsOK
<1>7. BooksOK
  BY <1>1, <1>5 DEF BooksOK, ClaimsExact, BooksExact, StakeExplained, ReserveWithinClaims,
                    Owed, Coming, Booked
<1> QED
  BY <1>2, <1>3, <1>4, <1>6, <1>7 DEF PInv

LEMMA StutterExact ==
  ASSUME PInv, UNCHANGED vars
  PROVE  PInv'
<1>1. /\ booksUnchanged /\ UNCHANGED listVars
  BY DEF vars, booksUnchanged
<1>2. TypeOK
  BY DEF PInv
<1> QED
  BY <1>1, <1>2, FlagsExact DEF listVars, TypeOK

LEMMA StepExact ==
  ASSUME MAX_SYNCS = 0, PInv, [UpgradedNext]_vars
  PROVE  PInv'
<1>1. CASE Ordinary
  BY <1>1, UserCallsExact, HeartbeatCallsExact, PoolStepsExact, CallbacksExact,
     FlagCallsExact, SetStakingPoolsExact, TransferExtraBalanceExact, StorageCallsExact
     DEF Ordinary
<1>2. CASE Migrate \/ \E value \in BOOLEAN : SetBusy(value)
  BY <1>2, FlagCallsExact
<1>3. CASE \E i \in DOMAIN staking_pools : Idle(i) /\ SpBusy(i, FALSE)
  BY <1>3, PoolReleasedExact
<1>4. CASE promises = {} /\ PoolListCalls
  BY <1>4, PoolListCallsExact
<1>5. CASE UNCHANGED vars
  BY <1>5, StutterExact
<1> QED
  BY <1>1, <1>2, <1>3, <1>4, <1>5 DEF UpgradedNext

(* The inductive invariant, when no record is corrected by hand.           *)
THEOREM BooksInvariance ==
  ASSUME MAX_SYNCS = 0
  PROVE  UpgradedSpec => []PInv
<1>1. PInv /\ [UpgradedNext]_vars => PInv'
  BY StepExact
<1> QED
  BY <1>1, InitExact, PTL DEF UpgradedSpec

(* The claims are exactly what is reserved, waiting, ordered or being      *)
(* unstaked (lib.rs:125-126).                                              *)
THEOREM ClaimsAlwaysExact ==
  ASSUME MAX_SYNCS = 0
  PROVE  UpgradedSpec => []ClaimsExact
<1>1. PInv => ClaimsExact
  BY DEF PInv, BooksOK
<1> QED
  BY <1>1, BooksInvariance, PTL

(* The balance the contract keeps account of is exactly what it has        *)
(* promised (sim_contract_state.rs:264).                                   *)
THEOREM BooksAlwaysExact ==
  ASSUME MAX_SYNCS = 0
  PROVE  UpgradedSpec => []BooksExact
<1>1. PInv => BooksExact
  BY DEF PInv, BooksOK
<1> QED
  BY <1>1, BooksInvariance, PTL

(* The orders explain the whole difference between what should be staked   *)
(* and what is.                                                            *)
THEOREM StakeAlwaysExplained ==
  ASSUME MAX_SYNCS = 0
  PROVE  UpgradedSpec => []StakeExplained
<1>1. PInv => StakeExplained
  BY DEF PInv, BooksOK
<1> QED
  BY <1>1, BooksInvariance, PTL

-----------------------------------------------------------------------------
(* The locks.  A view that fails is never entered by its callback, and     *)
(* leaves its locks behind; when no view fails, no lock is lost, however   *)
(* many calls are in flight together.                                      *)

ViewsAnswer == \A p \in promises : p.kind \in Views => p.stage # "failed"
LocksHeld ==
  \A i \in DOMAIN staking_pools :
     staking_pools[i].busy_lock => \E p \in promises : p.inx = i
LockInv == ViewsAnswer /\ LocksHeld

(* What a step does to the locks: nothing, or it sends, executes or ends   *)
(* one call.                                                               *)
LocksUntouched ==
  /\ UNCHANGED <<contract_busy, promises>>
  /\ DOMAIN staking_pools' = DOMAIN staking_pools
  /\ \A i \in DOMAIN staking_pools :
        staking_pools'[i].busy_lock = staking_pools[i].busy_lock
CallLocks == \E call : LockAndSend(call) /\ call.stage = "sent"
CallRuns ==
  /\ \E p \in promises : \E stage \in Stages \ {"sent"} : \E answer \in Nat :
        /\ p.stage = "sent" /\ Answer(p, stage, answer)
        /\ p.kind \in Views => stage = "ok"
  /\ UNCHANGED <<contract_busy, staking_pools>>
CallEnds == \E p \in promises : \E sp : Settle(p, sp)
LockStep == LocksUntouched \/ CallLocks \/ CallRuns \/ CallEnds

LEMMA LocksAlone ==
  ASSUME UNCHANGED <<contract_busy, staking_pools, promises>>
  PROVE  LockStep
BY DEF LockStep, LocksUntouched

LEMMA LaunchLocks ==
  ASSUME NEW i, NEW STATE requested, NEW STATE o, LaunchDirectStake(i, requested, o)
  PROVE  LockStep
<1>1. PICK kind, amount : LockAndSend(Call(kind, i, amount, 0))
  BY DEF LaunchDirectStake
<1>2. Call(kind, i, amount, 0).stage = "sent"
  BY DEF Call
<1> QED
  BY <1>1, <1>2 DEF LockStep, CallLocks

LEMMA UnstakeLocks ==
  ASSUME NEW i, NEW STATE from_orders, NEW STATE from_rebalance, NEW STATE o,
         PerformUnstake(i, from_orders, from_rebalance, o)
  PROVE  LockStep
<1>1. LockAndSend(Call("unstake", i, from_orders, from_rebalance))
  BY DEF PerformUnstake
<1>2. Call("unstake", i, from_orders, from_rebalance).stage = "sent"
  BY DEF Call
<1> QED
  BY <1>1, <1>2 DEF LockStep, CallLocks

LEMMA HeartbeatCallsLock ==
  ASSUME PInv, MAX_SYNCS = 0, HeartbeatCalls
  PROVE  LockStep
<1>1. CASE OnlyClearing
  BY <1>1, LocksAlone DEF OnlyClearing, listVars
<1>2. CASE DistributeStaking
  BY <1>1, <1>2, LaunchLocks DEF DistributeStaking
<1>3. CASE DistributeUnstaking
  BY <1>1, <1>3, UnstakeLocks DEF DistributeUnstaking
<1>4. CASE EndOfEpochClearing
  BY <1>1, <1>4 DEF EndOfEpochClearing
<1>5. CASE DoRebalanceUnstake
  BY <1>5, UnstakeLocks DEF DoRebalanceUnstake
<1>6. ASSUME NEW i \in DOMAIN staking_pools, NEW a \in Amounts, ManualStake(i, a)
      PROVE  LockStep
  BY <1>6, LaunchLocks DEF ManualStake
<1>7. ASSUME NEW i \in DOMAIN staking_pools, ForceRebalanceUnstake(i) \/ RebalanceUnstakeSp(i)
      PROVE  LockStep
  BY <1>7, UnstakeLocks DEF ForceRebalanceUnstake, RebalanceUnstakeSp, PerformRebalance
<1>8. ASSUME NEW i \in DOMAIN staking_pools, DistributeRewards(i) \/ RetrieveFundsFromAPool(i)
      PROVE  LockStep
  <2>1. PICK kind : LockAndSend(Call(kind, i, 0, 0))
    BY <1>8 DEF DistributeRewards, RetrieveFundsFromAPool
  <2>2. Call(kind, i, 0, 0).stage = "sent"
    BY DEF Call
  <2> QED
    BY <2>1, <2>2 DEF LockStep, CallLocks
<1>9. ASSUME NEW i \in DOMAIN staking_pools, SyncUnstakedBalance(i)
      PROVE  FALSE
  BY <1>9, NoSyncs DEF PInv
<1> QED
  BY <1>2, <1>3, <1>4, <1>5, <1>6, <1>7, <1>8, <1>9 DEF HeartbeatCalls

(* No pool refuses a view.                                                 *)
LEMMA PoolStepsLock ==
  ASSUME PInv, MayFail \cap Views = {}, PoolSteps
  PROVE  LockStep
<1>1. ASSUME NEW p \in promises, PoolExecutes(p)
      PROVE  LockStep
  <2>1. p.stage = "sent" /\ UNCHANGED <<contract_busy, staking_pools>>
    BY <1>1 DEF PoolExecutes, poolStepUnchanged
  <2>2. ASSUME ExecFails(p)
        PROVE  Answer(p, "failed", 0) /\ p.kind \notin Views
    BY <2>2 DEF ExecFails, Refuses, Views
  <2>3. ASSUME ExecView(p)
        PROVE  \E answer \in Nat : Answer(p, "ok", answer)
    <3> DEFINE account == pool_account[p.pool]
               answer  == IF p.kind = "total_balance"
                          THEN account.staked + account.unstaked ELSE account.unstaked
    <3>1. account.staked \in Nat /\ account.unstaked \in Nat
      BY DEF PInv, TypeOK, Promises, PoolAccount
    <3>2. answer \in Nat
      BY <3>1
    <3>3. Answer(p, "ok", answer)
      BY <2>3 DEF ExecView
    <3> QED
      BY <3>2, <3>3
  <2>4. CASE ExecFails(p)
    BY <2>1, <2>2, <2>4 DEF LockStep, CallRuns, Stages
  <2>5. CASE ExecView(p)
    BY <2>1, <2>3, <2>5 DEF LockStep, CallRuns, Stages
  <2>6. ASSUME ~ExecFails(p), ~ExecView(p)
        PROVE  LockStep
    <3>1. Answer(p, "ok", 0)
      BY <1>1, <2>6 DEF PoolExecutes, ExecDepositAndStake, ExecStake, ExecUnstake,
                        ExecWithdrawAll
    <3> QED
      BY <2>1, <3>1 DEF LockStep, CallRuns, Stages
  <2> QED
    BY <2>4, <2>5, <2>6
<1>2. ASSUME NEW id \in PoolIds, NEW r \in RewardAmounts, PoolReward(id, r)
      PROVE  LockStep
  BY <1>2, LocksAlone DEF PoolReward, poolStepUnchanged
<1>3. ASSUME NEW r \in RewardAmounts, NearArrives(r)
      PROVE  LockStep
  BY <1>3, LocksAlone DEF NearArrives, listVars
<1>4. CASE NewEpoch
  BY <1>4, LocksAlone DEF NewEpoch, listVars
<1> QED
  BY <1>1, <1>2, <1>3, <1>4 DEF PoolSteps

LEMMA CallbacksLock ==
  ASSUME PInv, ViewsAnswer, Callbacks
  PROVE  LockStep
<1>1. PICK p \in promises : Callback(p)
  BY DEF Callbacks
<1>2. ~Panics(p)
  BY <1>1, OnlyViewsPanic DEF ViewsAnswer, Callback
<1>3. ~UnstakedSynced(p)
  BY DEF PInv, CallsOK, UnstakedSynced
<1>4. \E sp : Settle(p, sp)
  BY <1>1, <1>2, <1>3 DEF Callback, StakeSucceeded, StakeFailed, UnstakeSucceeded,
     UnstakeFailed, Retrieved, RetrieveFailed, RewardsDistributed
<1> QED
  BY <1>4 DEF LockStep, CallEnds

LEMMA OrdinaryLocks ==
  ASSUME MAX_SYNCS = 0, MayFail \cap Views = {}, PInv, ViewsAnswer, Ordinary
  PROVE  LockStep
<1>1. CASE UserCalls
  <2>1. UNCHANGED listVars
    BY <1>1 DEF UserCalls, DepositAndStake, Unstake, WithdrawUnstaked, NslpAddLiquidity,
                PayFromLiquidityPool, StakeFromNslp
  <2> QED
    BY <2>1, LocksAlone DEF listVars
<1>2. ASSUME NEW weights \in WeightLists, SetStakingPools(weights)
      PROVE  LockStep
  <2>1. /\ UNCHANGED <<contract_busy, promises>>
        /\ staking_pools' = [i \in DOMAIN staking_pools |->
              [staking_pools[i] EXCEPT !.weight_basis_points = weights[i]]]
    BY <1>2 DEF SetStakingPools
  <2>2. \A i \in DOMAIN staking_pools : staking_pools[i] \in PoolInfo
    BY PoolTyped DEF PInv
  <2>3. \A i \in DOMAIN staking_pools :
           staking_pools'[i].busy_lock = staking_pools[i].busy_lock
    BY <2>1, <2>2 DEF PoolInfo
  <2> QED
    BY <2>1, <2>3 DEF LockStep, LocksUntouched
<1>3. CASE TransferExtraBalance
  BY <1>3, LocksAlone DEF TransferExtraBalance, listVars
<1>4. CASE PauseStaking
  BY <1>4, LocksAlone DEF PauseStaking
<1>5. CASE StorageCalls
  BY <1>5, LocksAlone DEF StorageCalls, StorageDeposit, StorageUnregister, RefundReopens,
     storageStepUnchanged, listVars
<1> QED
  BY <1>1, <1>2, <1>3, <1>4, <1>5, HeartbeatCallsLock, PoolStepsLock, CallbacksLock DEF Ordinary

(* A locking step keeps every lock accounted for by a call.                *)
LEMMA LockStepKept ==
  ASSUME PInv, LockInv, LockStep
  PROVE  LockInv'
<1>1. /\ TypeOK /\ CallsOK
      /\ \A p \in promises : p \in Promises /\ p.inx \in DOMAIN staking_pools
  BY DEF PInv, TypeOK, CallsOK
<1>2. CASE LocksUntouched
  BY <1>2 DEF LocksUntouched, LockInv, ViewsAnswer, LocksHeld
<1>3. ASSUME NEW call, LockAndSend(call), call.stage = "sent"
      PROVE  LockInv'
  <2>1. /\ promises' = promises \cup {call}
        /\ staking_pools' = [staking_pools EXCEPT ![call.inx].busy_lock = TRUE]
    BY <1>3 DEF LockAndSend, Send
  <2>2. ViewsAnswer'
    BY <1>3, <2>1 DEF LockInv, ViewsAnswer
  <2>3. ASSUME NEW i \in DOMAIN staking_pools', staking_pools'[i].busy_lock
        PROVE  \E p \in promises' : p.inx = i
    <3>1. CASE i = call.inx
      BY <2>1, <3>1
    <3>2. CASE i # call.inx
      <4>1. i \in DOMAIN staking_pools /\ staking_pools'[i] = staking_pools[i]
        BY <2>1, <3>2
      <4>2. PICK p \in promises : p.inx = i
        BY <2>3, <4>1 DEF LockInv, LocksHeld
      <4> QED
        BY <2>1, <4>2
    <3> QED
      BY <3>1, <3>2
  <2> QED
    BY <2>2, <2>3 DEF LockInv, LocksHeld
<1>4. ASSUME NEW p \in promises, NEW stage \in Stages \ {"sent"}, NEW answer \in Nat,
             p.stage = "sent", Answer(p, stage, answer),
             p.kind \in Views => stage = "ok", UNCHANGED <<contract_busy, staking_pools>>
      PROVE  LockInv'
  <2> DEFINE r == [p EXCEPT !.stage = stage, !.answer = answer]
  <2>1. r.inx = p.inx /\ r.kind = p.kind /\ r.stage = stage
    BY <1>1 DEF Promises
  <2>2. promises' = (promises \ {p}) \cup {r}
    BY <1>4 DEF Answer
  <2> HIDE DEF r
  <2>3. ViewsAnswer'
    BY <1>4, <2>1, <2>2 DEF LockInv, ViewsAnswer
  <2>4. LocksHeld'
    BY <1>4, <2>1, <2>2 DEF LockInv, LocksHeld
  <2> QED
    BY <2>3, <2>4 DEF LockInv
<1>5. ASSUME NEW p \in promises, NEW sp, Settle(p, sp)
      PROVE  LockInv'
  <2>1. /\ promises' = promises \ {p}
        /\ staking_pools' = [staking_pools EXCEPT ![p.inx] = [sp EXCEPT !.busy_lock = FALSE]]
    BY <1>5 DEF Settle, Unlocked
  <2>2. ViewsAnswer'
    BY <2>1 DEF LockInv, ViewsAnswer
  <2>3. ASSUME NEW i \in DOMAIN staking_pools', staking_pools'[i].busy_lock
        PROVE  \E q \in promises' : q.inx = i
    <3>1. i \in DOMAIN staking_pools
      BY <2>1
    <3>2. i # p.inx
      BY <1>1, <2>1, <2>3
    <3>3. staking_pools'[i] = staking_pools[i]
      BY <2>1, <3>1, <3>2
    <3>4. PICK q \in promises : q.inx = i
      BY <2>3, <3>1, <3>3 DEF LockInv, LocksHeld
    <3> QED
      BY <2>1, <3>2, <3>4
  <2> QED
    BY <2>2, <2>3 DEF LockInv, LocksHeld
<1> QED
  BY <1>2, <1>3, <1>4, <1>5 DEF LockStep, CallLocks, CallRuns, CallEnds

(* The list of pools changes when no call is pending, and no lock is held. *)
LEMMA PoolListLocks ==
  ASSUME PInv, LockInv, promises = {}, PoolListCalls
  PROVE  LockInv'
<1>1. staking_pools \in Seq(PoolInfo) /\ UNCHANGED promises
  BY DEF PInv, TypeOK, PoolListCalls, AddStakingPool, RemoveStakingPool
<1>2. \A i \in DOMAIN staking_pools : ~staking_pools[i].busy_lock
  BY DEF LockInv, LocksHeld
<1>3. ASSUME NEW id \in PoolIds, AddStakingPool(id)
      PROVE  \A i \in DOMAIN staking_pools' : ~staking_pools'[i].busy_lock
  <2> DEFINE new == NewPool(id)
  <2>1. new \in PoolInfo /\ ~new.busy_lock
    BY DEF NewPool, PoolInfo
  <2>2. staking_pools' = Append(staking_pools, new)
    BY <1>3 DEF AddStakingPool
  <2> HIDE DEF new
  <2> QED
    BY <1>1, <1>2, <2>1, <2>2
<1>4. ASSUME NEW i \in DOMAIN staking_pools, RemoveStakingPool(i)
      PROVE  \A j \in DOMAIN staking_pools' : ~staking_pools'[j].busy_lock
  <2> DEFINE n     == Len(staking_pools)
             left  == SubSeq(staking_pools, 1, i - 1)
             right == SubSeq(staking_pools, i + 1, n)
  <2>1. /\ n \in Nat /\ i \in 1..n /\ DOMAIN staking_pools = 1..n
        /\ staking_pools \in Seq(PoolInfo)
    BY <1>1
  <2>2. left \in Seq(PoolInfo) /\ right \in Seq(PoolInfo)
    BY <2>1
  <2>3. Len(left) = i - 1 /\ Len(right) = n - i
    BY <2>1
  <2>4. /\ \A j \in 1..(i - 1) : left[j] = staking_pools[j]
        /\ \A j \in 1..(n - i) : right[j] = staking_pools[i + j]
    BY <2>1
  <2> HIDE DEF left, right
  <2>5. staking_pools' = left \o right
    BY <1>4 DEF RemoveStakingPool, RemoveAt, left, right
  <2>6. DOMAIN staking_pools' = 1..(n - 1)
    <3>1. staking_pools' \in Seq(PoolInfo) /\ Len(staking_pools') = Len(left) + Len(right)
      BY <2>2, <2>5
    <3> QED
      BY <2>1, <2>3, <3>1
  <2>7. ASSUME NEW j \in 1..(n - 1)
        PROVE  ~staking_pools'[j].busy_lock
    <3>1. CASE j < i
      <4>1. staking_pools'[j] = left[j]
        BY <2>1, <2>2, <2>3, <2>5, <3>1
      <4>2. j \in 1..(i - 1) /\ j \in 1..n
        BY <2>1, <3>1
      <4>3. left[j] = staking_pools[j]
        BY <2>4, <4>2
      <4> QED
        BY <1>2, <2>1, <4>1, <4>2, <4>3
    <3>2. CASE ~(j < i)
      <4> DEFINE k == j - (i - 1)
      <4>1. staking_pools'[j] = right[k]
        <5>1. /\ j \in 1..(Len(left) + Len(right)) /\ ~(j <= Len(left))
              /\ k = j - Len(left)
          BY <2>1, <2>3, <3>2
        <5>2. (left \o right)[j] = right[j - Len(left)]
          BY <2>2, <5>1
        <5> QED
          BY <2>5, <5>1, <5>2
      <4>2. k \in 1..(n - i) /\ i + k \in 1..n
        BY <2>1, <3>2
      <4> HIDE DEF k
      <4>3. right[k] = staking_pools[i + k]
        BY <2>4, <4>2
      <4> QED
        BY <1>2, <2>1, <4>1, <4>2, <4>3
    <3> QED
      BY <3>1, <3>2
  <2> QED
    BY <2>6, <2>7
<1> QED
  BY <1>1, <1>3, <1>4 DEF PoolListCalls, LockInv, ViewsAnswer, LocksHeld

LEMMA LockInvKept ==
  ASSUME MAX_SYNCS = 0, MayFail \cap Views = {}, PInv, LockInv, [UpgradedNext]_vars
  PROVE  LockInv'
<1>1. CASE Ordinary
  BY <1>1, OrdinaryLocks, LockStepKept DEF LockInv
<1>2. CASE UNCHANGED <<staking_pools, promises>>
  BY <1>2 DEF LockInv, ViewsAnswer, LocksHeld
<1>3. CASE Migrate \/ \E value \in BOOLEAN : SetBusy(value)
  BY <1>2, <1>3 DEF Migrate, SetBusy
<1>4. ASSUME NEW i \in DOMAIN staking_pools, SpBusy(i, FALSE)
      PROVE  LockInv'
  <2>1. /\ UNCHANGED promises
        /\ staking_pools' = [staking_pools EXCEPT ![i].busy_lock = FALSE]
    BY <1>4 DEF SpBusy
  <2>2. staking_pools[i] \in PoolInfo
    BY PoolTyped DEF PInv
  <2>3. \A j \in DOMAIN staking_pools' :
           staking_pools'[j].busy_lock => staking_pools[j].busy_lock
    BY <2>1, <2>2 DEF PoolInfo
  <2>4. DOMAIN staking_pools' = DOMAIN staking_pools
    BY <2>1
  <2> QED
    BY <2>1, <2>3, <2>4 DEF LockInv, ViewsAnswer, LocksHeld
<1>5. CASE promises = {} /\ PoolListCalls
  BY <1>5, PoolListLocks
<1>6. CASE UNCHANGED vars
  BY <1>2, <1>6 DEF vars, listVars
<1> QED
  BY <1>1, <1>3, <1>4, <1>5, <1>6 DEF UpgradedNext

LEMMA LockInvInitially == Init => LockInv
<1> SUFFICES ASSUME Init PROVE LockInv
  OBVIOUS
<1>1. promises = {} /\ staking_pools = << >>
  BY DEF Init, InitWith
<1> QED
  BY <1>1 DEF LockInv, ViewsAnswer, LocksHeld

(* No lock is lost when no view fails.                                     *)
THEOREM LockInvariance ==
  ASSUME MAX_SYNCS = 0, MayFail \cap Views = {}
  PROVE  UpgradedSpec => []LockInv
<1>1. PInv /\ LockInv /\ [UpgradedNext]_vars => LockInv'
  BY LockInvKept
<1> QED
  BY <1>1, LockInvInitially, BooksInvariance, PTL DEF UpgradedSpec

(* New code deployed at any moment: calls to several pools overlap, and    *)
(* each pool is still locked exactly as long as its one call is in flight. *)
THEOREM PoolsAlwaysServeOne ==
  ASSUME MAX_SYNCS = 0, MayFail \cap Views = {}
  PROVE  UpgradedSpec => []PoolsServeOne
<1>1. PInv /\ LockInv => PoolsServeOne
  <2>1. PInv => InFlight = promises
    BY DEF PInv, CallsOK, InFlight
  <2> QED
    BY <2>1 DEF PInv, CallsOK, LockInv, LocksHeld, PoolsServeOne
<1> QED
  BY <1>1, BooksInvariance, LockInvariance, PTL

(* No callback of a locking call panics (distribute.rs:157-158).           *)
THEOREM NoCallbackPanics ==
  ASSUME MAX_SYNCS = 0, MayFail \cap Views = {}
  PROVE  UpgradedSpec => []CallbacksNeverPanic
<1>1. PInv /\ LockInv => CallbacksNeverPanic
  <2> SUFFICES ASSUME PInv, LockInv, NEW p \in InFlight, p.stage # "sent"
               PROVE  ~Panics(p)
    BY DEF CallbacksNeverPanic
  <2>1. p \in promises
    BY DEF InFlight
  <2> QED
    BY <2>1, OnlyViewsPanic DEF LockInv, ViewsAnswer
<1> QED
  BY <1>1, BooksInvariance, LockInvariance, PTL

(* A careful operator's contract is busy only while a call is in flight.   *)
BusyInv == contract_busy => promises # {}

LEMMA CarefulIsUpgraded == [CarefulNext]_vars => [UpgradedNext]_vars
BY DEF CarefulNext, UpgradedNext, Idle

LEMMA BusyKept ==
  ASSUME MAX_SYNCS = 0, MayFail \cap Views = {}, PInv, LockInv, BusyInv,
         [CarefulNext]_vars
  PROVE  BusyInv'
<1>1. CASE Ordinary
  <2>1. LockStep
    BY <1>1, OrdinaryLocks DEF LockInv
  <2>2. CASE LocksUntouched
    BY <2>2 DEF LocksUntouched, BusyInv
  <2>3. CASE CallLocks
    BY <2>3 DEF CallLocks, LockAndSend, Send, BusyInv
  <2>4. CASE CallRuns
    BY <2>4 DEF CallRuns, Answer, BusyInv
  <2>5. CASE CallEnds
    BY <2>5 DEF CallEnds, Settle, BusyInv
  <2> QED
    BY <2>1, <2>2, <2>3, <2>4, <2>5 DEF LockStep
<1>2. CASE SetBusy(FALSE) \/ Migrate
  BY <1>2 DEF SetBusy, Migrate, BusyInv
<1>3. CASE UNCHANGED <<contract_busy, promises>>
  BY <1>3 DEF BusyInv
<1>4. CASE \E i \in DOMAIN staking_pools : SpBusy(i, FALSE)
  BY <1>3, <1>4 DEF SpBusy
<1>5. CASE PoolListCalls
  BY <1>3, <1>5 DEF PoolListCalls, AddStakingPool, RemoveStakingPool
<1>6. CASE UNCHANGED vars
  BY <1>3, <1>6 DEF vars, listVars
<1> QED
  BY <1>1, <1>2, <1>4, <1>5, <1>6 DEF CarefulNext

(* A careful operator: the locks are held exactly while a call is in       *)
(* flight, and by its pool alone.                                          *)
THEOREM BusyAlwaysInFlight ==
  ASSUME MAX_SYNCS = 0, MayFail \cap Views = {}
  PROVE  CarefulSpec => []BusyMeansInFlight
<1>1. CarefulSpec => UpgradedSpec
  BY CarefulIsUpgraded, PTL DEF CarefulSpec, UpgradedSpec
<1>2. Init => BusyInv
  BY DEF Init, InitWith, BusyInv
<1>3. PInv /\ LockInv /\ BusyInv /\ [CarefulNext]_vars => BusyInv'
  BY BusyKept
<1>4. CarefulSpec => []BusyInv
  BY <1>1, <1>2, <1>3, BooksInvariance, LockInvariance, PTL DEF CarefulSpec
<1>5. IInv /\ PInv /\ LockInv /\ BusyInv => BusyMeansInFlight
  <2>1. PInv => InFlight = promises
    BY DEF PInv, CallsOK, InFlight
  <2> QED
    BY <2>1 DEF IInv, LockDiscipline, PInv, CallsOK, LockInv, LocksHeld, BusyInv,
                BusyMeansInFlight
<1> QED
  BY <1>1, <1>4, <1>5, Invariance, BooksInvariance, LockInvariance, PTL


-----------------------------------------------------------------------------
(* The records of locked pools, also with views sent without a lock and    *)
(* records corrected by hand: CarefulSpec, for every MAX_SYNCS.            *)

IdsDistinct ==
  \A i, j \in DOMAIN staking_pools :
     staking_pools[i].account_id = staking_pools[j].account_id => i = j

\* What a step that does not change the list of pools does to their records.
KeepsLocked ==
  /\ DOMAIN staking_pools' = DOMAIN staking_pools
  /\ \A i \in DOMAIN staking_pools :
        /\ staking_pools'[i].account_id = staking_pools[i].account_id
        /\ staking_pools[i].busy_lock /\ staking_pools'[i].busy_lock
             => staking_pools'[i] = staking_pools[i]

LEMMA KeptFrozen ==
  ASSUME IdsDistinct, KeepsLocked
  PROVE  IdsDistinct' /\ LockedRecordsKept
  BY DEF IdsDistinct, KeepsLocked, LockedRecordsKept

LEMMA PoolsUntouched ==
  ASSUME UNCHANGED staking_pools
  PROVE  KeepsLocked
  BY DEF KeepsLocked

LEMMA LockingKeeps ==
  ASSUME TypeOK, NEW i, NEW value \in BOOLEAN,
         staking_pools' = [staking_pools EXCEPT ![i].busy_lock = value]
  PROVE  KeepsLocked
<1>1. \A j \in DOMAIN staking_pools : staking_pools[j] \in PoolInfo
  BY DEF TypeOK
<1>2. DOMAIN staking_pools' = DOMAIN staking_pools
  OBVIOUS
<1>3. SUFFICES ASSUME NEW j \in DOMAIN staking_pools
      PROVE  /\ staking_pools'[j].account_id = staking_pools[j].account_id
             /\ staking_pools[j].busy_lock /\ staking_pools'[j].busy_lock
                  => staking_pools'[j] = staking_pools[j]
  BY <1>2 DEF KeepsLocked
<1>4. CASE j # i
  BY <1>4
<1>5. CASE j = i
  <2>1. staking_pools'[j] = [staking_pools[j] EXCEPT !.busy_lock = value]
    BY <1>5
  <2> QED
    BY <1>1, <2>1 DEF PoolInfo
<1> QED
  BY <1>4, <1>5

LEMMA SettlingKeeps ==
  ASSUME TypeOK, NEW p, NEW STATE sp, sp \in PoolInfo, Settle(p, sp),
         sp.account_id = staking_pools[p.inx].account_id
  PROVE  KeepsLocked
<1>1. staking_pools' = [staking_pools EXCEPT ![p.inx] = Unlocked(sp)]
  BY DEF Settle
<1>2. Unlocked(sp).busy_lock = FALSE /\ Unlocked(sp).account_id = sp.account_id
  BY DEF Unlocked, PoolInfo
<1> QED
  BY <1>1, <1>2 DEF KeepsLocked

LEMMA HeartbeatCallsKeep ==
  ASSUME TypeOK, HeartbeatCalls
  PROVE  KeepsLocked
<1>1. ASSUME NEW call, LockAndSend(call)
      PROVE  KeepsLocked
  BY <1>1, LockingKeeps DEF LockAndSend
<1>2. ASSUME NEW i, NEW STATE requested, NEW STATE o, LaunchDirectStake(i, requested, o)
      PROVE  KeepsLocked
  BY <1>1, <1>2 DEF LaunchDirectStake
<1>3. ASSUME NEW i, NEW STATE from_orders, NEW STATE from_rebalance, NEW STATE o,
             PerformUnstake(i, from_orders, from_rebalance, o)
      PROVE  KeepsLocked
  BY <1>1, <1>3 DEF PerformUnstake
<1>4. ASSUME OnlyClearing
      PROVE  KeepsLocked
  BY <1>4, PoolsUntouched DEF OnlyClearing, listVars
<1>5. CASE DistributeStaking
  BY <1>2, <1>4, <1>5 DEF DistributeStaking
<1>6. CASE DistributeUnstaking
  BY <1>3, <1>4, <1>6 DEF DistributeUnstaking
<1>7. CASE EndOfEpochClearing
  BY <1>4, <1>7 DEF EndOfEpochClearing
<1>8. CASE DoRebalanceUnstake
  BY <1>3, <1>8 DEF DoRebalanceUnstake
<1>9. ASSUME NEW i \in DOMAIN staking_pools, NEW a \in Amounts, ManualStake(i, a)
      PROVE  KeepsLocked
  BY <1>2, <1>9 DEF ManualStake
<1>10. ASSUME NEW i \in DOMAIN staking_pools, ForceRebalanceUnstake(i) \/ RebalanceUnstakeSp(i)
       PROVE  KeepsLocked
  BY <1>3, <1>10 DEF ForceRebalanceUnstake, RebalanceUnstakeSp, PerformRebalance
<1>11. ASSUME NEW i \in DOMAIN staking_pools, SyncUnstakedBalance(i)
       PROVE  KeepsLocked
  BY <1>11, PoolsUntouched DEF SyncUnstakedBalance
<1>12. ASSUME NEW i \in DOMAIN staking_pools, DistributeRewards(i) \/ RetrieveFundsFromAPool(i)
       PROVE  KeepsLocked
  BY <1>1, <1>12 DEF DistributeRewards, RetrieveFundsFromAPool
<1> QED
  BY <1>5, <1>6, <1>7, <1>8, <1>9, <1>10, <1>11, <1>12 DEF HeartbeatCalls

\* An answer that is applied while the pool is locked is the recorded balance.
LEMMA UnstakedSyncedKeeps ==
  ASSUME TypeOK, NEW p \in promises, p.inx \in DOMAIN staking_pools, UnstakedSynced(p)
  PROVE  KeepsLocked
<1> DEFINE sp == staking_pools[p.inx]
           synced == [sp EXCEPT !.unstaked = p.answer, !.staked = Monus(@ + sp.unstaked, p.answer)]
<1>1. sp \in PoolInfo /\ p.answer \in Nat
  BY DEF TypeOK, Promises
<1>2. staking_pools' = [staking_pools EXCEPT ![p.inx] = synced]
  BY DEF UnstakedSynced
<1>3. synced.account_id = sp.account_id /\ synced.busy_lock = sp.busy_lock
  BY <1>1 DEF PoolInfo
<1>4. ASSUME sp.busy_lock PROVE synced = sp
  <2>1. p.answer = sp.unstaked
    BY <1>4 DEF UnstakedSynced, SyncRefused
  <2>2. sp.staked \in Nat /\ sp.unstaked \in Nat
    BY <1>1 DEF PoolInfo
  <2>3. Monus(sp.staked + sp.unstaked, sp.unstaked) = sp.staked
    BY <2>2, SMT DEF Monus
  <2>4. synced = [sp EXCEPT !.unstaked = sp.unstaked, !.staked = sp.staked]
    BY <1>1, <2>1, <2>3 DEF PoolInfo
  <2> QED
    BY <1>1, <2>4 DEF PoolInfo
<1> HIDE DEF synced
<1> QED
  BY <1>2, <1>3, <1>4 DEF KeepsLocked

LEMMA CallbacksKeep ==
  ASSUME TypeOK, Callbacks
  PROVE  KeepsLocked
<1>1. PICK p \in promises : Callback(p)
  BY DEF Callbacks
<1>2. CASE Panics(p)
  BY <1>1, <1>2, PoolsUntouched DEF Callback, CallbackPanics
<1>3. CASE ~Panics(p)
  <2> DEFINE sp == staking_pools[p.inx]
  <2>1. p.inx \in DOMAIN staking_pools
    BY <1>3 DEF Panics
  <2>2. /\ sp \in PoolInfo /\ sp.staked \in Nat /\ sp.unstaked \in Nat
        /\ p.amount \in Nat /\ p.rebalance \in Nat /\ p.answer \in Nat /\ epoch \in Nat
    <3>1. sp \in PoolInfo
      BY <2>1 DEF TypeOK
    <3>2. p \in Promises /\ epoch \in Nat
      BY DEF TypeOK, TotalsNat
    <3> QED
      BY <3>1, <3>2 DEF PoolInfo, Promises
  <2>3. CASE StakeSucceeded(p)
    <3>1. CASE p.kind = "deposit_and_stake"
      <4>1. [sp EXCEPT !.staked = @ + p.amount] \in PoolInfo
        BY <2>2 DEF PoolInfo
      <4> QED
        BY <2>2, <2>3, <3>1, <4>1, SettlingKeeps DEF StakeSucceeded, PoolInfo
    <3>2. CASE p.kind = "stake"
      <4>1. sp.unstaked >= p.amount
        BY <2>3, <3>2 DEF StakeSucceeded
      <4>2. [sp EXCEPT !.staked = @ + p.amount, !.unstaked = @ - p.amount] \in PoolInfo
        <5>1. sp.staked + p.amount \in Nat /\ sp.unstaked - p.amount \in Nat
          BY <2>2, <4>1, SMT
        <5> QED
          BY <2>2, <5>1 DEF PoolInfo
      <4> QED
        BY <2>2, <2>3, <3>2, <4>2, SettlingKeeps DEF StakeSucceeded, PoolInfo
    <3> QED
      BY <2>3, <3>1, <3>2 DEF StakeSucceeded
  <2>4. CASE StakeFailed(p) \/ UnstakeFailed(p) \/ RetrieveFailed(p)
    BY <2>2, <2>4, SettlingKeeps DEF StakeFailed, UnstakeFailed, RetrieveFailed
  <2>5. CASE UnstakeSucceeded(p)
    <3> DEFINE total == p.amount + p.rebalance
    <3>1. sp.staked >= total
      BY <2>5 DEF UnstakeSucceeded
    <3>2. [sp EXCEPT !.staked = @ - total, !.unstaked = @ + total,
                     !.unstk_req_epoch_height = epoch] \in PoolInfo
      <4>1. sp.staked - total \in Nat /\ sp.unstaked + total \in Nat
        BY <2>2, <3>1, SMT
      <4> QED
        BY <2>2, <4>1 DEF PoolInfo
    <3> QED
      BY <2>2, <2>5, <3>2, SettlingKeeps DEF UnstakeSucceeded, PoolInfo
  <2>6. CASE Retrieved(p)
    <3>1. [sp EXCEPT !.unstaked = 0] \in PoolInfo
      BY <2>2 DEF PoolInfo
    <3> QED
      BY <2>2, <2>6, <3>1, SettlingKeeps DEF Retrieved, PoolInfo
  <2>7. CASE RewardsDistributed(p)
    <3>1. p.answer >= sp.unstaked
      BY <2>7 DEF RewardsDistributed
    <3>2. [sp EXCEPT !.staked = p.answer - sp.unstaked,
                     !.last_asked_rewards_epoch_height = epoch] \in PoolInfo
      <4>1. p.answer - sp.unstaked \in Nat
        BY <2>2, <3>1, SMT
      <4> QED
        BY <2>2, <4>1 DEF PoolInfo
    <3> QED
      BY <2>2, <2>7, <3>2, SettlingKeeps DEF RewardsDistributed, PoolInfo
  <2>8. CASE UnstakedSynced(p)
    BY <2>1, <2>8, UnstakedSyncedKeeps
  <2> QED
    BY <1>1, <1>3, <2>3, <2>4, <2>5, <2>6, <2>7, <2>8 DEF Callback
<1> QED
  BY <1>2, <1>3

LEMMA WeightsKeep ==
  ASSUME TypeOK, NEW weights \in WeightLists, SetStakingPools(weights)
  PROVE  KeepsLocked
<1>1. SUFFICES ASSUME NEW i \in DOMAIN staking_pools
      PROVE  /\ staking_pools'[i].account_id = staking_pools[i].account_id
             /\ staking_pools[i].busy_lock => staking_pools'[i] = staking_pools[i]
  BY DEF KeepsLocked, SetStakingPools
<1>2. staking_pools[i] \in PoolInfo
  BY DEF TypeOK
<1>3. staking_pools'[i] = [staking_pools[i] EXCEPT !.weight_basis_points = weights[i]]
  BY DEF SetStakingPools
<1>4. ASSUME staking_pools[i].busy_lock
      PROVE  weights[i] = staking_pools[i].weight_basis_points
  BY <1>4 DEF SetStakingPools
<1> QED
  BY <1>2, <1>3, <1>4 DEF PoolInfo

LEMMA ListKeeps ==
  ASSUME TypeOK, IdsDistinct, PoolListCalls
  PROVE  IdsDistinct' /\ LockedRecordsKept
<1>1. ASSUME NEW id \in PoolIds, AddStakingPool(id)
      PROVE  IdsDistinct' /\ LockedRecordsKept
  <2>1. /\ staking_pools \in Seq(PoolInfo)
        /\ staking_pools' = Append(staking_pools, NewPool(id))
        /\ \A i \in DOMAIN staking_pools : staking_pools[i].account_id # id
    BY <1>1 DEF TypeOK, AddStakingPool
  <2>2. NewPool(id).account_id = id /\ ~NewPool(id).busy_lock
    BY DEF NewPool
  <2>3. /\ DOMAIN staking_pools' = DOMAIN staking_pools \cup {Len(staking_pools) + 1}
        /\ staking_pools'[Len(staking_pools) + 1] = NewPool(id)
        /\ \A i \in DOMAIN staking_pools : staking_pools'[i] = staking_pools[i]
    BY <2>1
  <2> QED
    BY <2>1, <2>2, <2>3 DEF IdsDistinct, LockedRecordsKept
<1>2. ASSUME NEW i \in DOMAIN staking_pools, RemoveStakingPool(i)
      PROVE  IdsDistinct' /\ LockedRecordsKept
  <2> DEFINE old(j) == IF j < i THEN j ELSE j + 1
  <2>1. /\ DOMAIN staking_pools' = 1..(Len(staking_pools) - 1)
        /\ \A j \in 1..(Len(staking_pools) - 1) : staking_pools'[j] = staking_pools[old(j)]
    BY <1>2, PoolsMoveDown
  <2>2. i \in Nat /\ Len(staking_pools) \in Nat /\ DOMAIN staking_pools = 1..Len(staking_pools)
    BY DEF TypeOK
  <2>3. /\ \A j \in DOMAIN staking_pools' : old(j) \in DOMAIN staking_pools
        /\ \A j, k \in DOMAIN staking_pools' : old(j) = old(k) => j = k
    BY <2>1, <2>2, SMT
  <2> HIDE DEF old
  <2> QED
    BY <2>1, <2>3 DEF IdsDistinct, LockedRecordsKept
<1> QED
  BY <1>1, <1>2 DEF PoolListCalls

LEMMA FrozenKept ==
  ASSUME TypeOK, IdsDistinct, [CarefulNext]_vars
  PROVE  IdsDistinct' /\ (CarefulNext => LockedRecordsKept)
<1>1. SUFFICES ASSUME ~(promises = {} /\ PoolListCalls)
               PROVE  KeepsLocked
  BY KeptFrozen, ListKeeps
<1>2. CASE UserCalls
  <2>1. UNCHANGED staking_pools
    BY <1>2 DEF UserCalls, DepositAndStake, Unstake, WithdrawUnstaked, NslpAddLiquidity,
                PayFromLiquidityPool, StakeFromNslp, listVars
  <2> QED
    BY <2>1, PoolsUntouched
<1>3. CASE PoolSteps
  <2>1. UNCHANGED staking_pools
    BY <1>3 DEF PoolSteps, PoolExecutes, PoolReward, NearArrives, NewEpoch,
                poolStepUnchanged, listVars
  <2> QED
    BY <2>1, PoolsUntouched
<1>4. CASE PauseStaking \/ TransferExtraBalance \/ UNCHANGED vars
           \/ SetBusy(FALSE) \/ Migrate
  <2>1. UNCHANGED staking_pools
    BY <1>4 DEF PauseStaking, TransferExtraBalance, vars, listVars, SetBusy, Migrate
  <2> QED
    BY <2>1, PoolsUntouched
<1>5. ASSUME NEW i \in DOMAIN staking_pools, SpBusy(i, FALSE)
      PROVE  KeepsLocked
  BY <1>5, LockingKeeps DEF SpBusy
<1>6. CASE StorageCalls
  BY <1>6, PoolsUntouched DEF StorageCalls, StorageDeposit, StorageUnregister, RefundReopens,
     storageStepUnchanged, listVars
<1> QED
  BY <1>1, <1>2, <1>3, <1>4, <1>5, <1>6, HeartbeatCallsKeep, CallbacksKeep, WeightsKeep
     DEF CarefulNext, Ordinary

(* No step changes the record of a pool that is locked before and after    *)
(* it, however many views are answered late (distribute.rs:594).       *)
THEOREM LockedRecordsStayFrozen == CarefulSpec => LockedRecordsFrozen
<1>1. Init => IdsDistinct
  BY DEF Init, InitWith, IdsDistinct
<1>2. TypeOK /\ IdsDistinct /\ [CarefulNext]_vars => IdsDistinct'
  BY FrozenKept
<1>3. TypeOK /\ IdsDistinct /\ [CarefulNext]_vars => [LockedRecordsKept]_vars
  BY FrozenKept
<1> QED
  BY <1>1, <1>2, <1>3, TypeCorrect, PTL DEF CarefulSpec, LockedRecordsFrozen
=============================================================================
