-------------------------- MODULE StNearSums_proofs --------------------------
(***************************************************************************)
(* The totals of the contract are the sums over its accounts, for any      *)
(* accounts, amounts, fees and thresholds.  Each call changes the balances *)
(* of a few accounts and the totals by the same amounts; Sums_proofs says  *)
(* what that does to a sum.  What rests on the sums comes after: what the  *)
(* shares of the liquidity pool are worth, and that Heartbeat's user calls *)
(* are all that the calls do to the totals.                                *)
(***************************************************************************)
EXTENDS StNear_proofs, Sums_proofs

-----------------------------------------------------------------------------
(* Sums over the accounts.                                                 *)

(* There are finitely many accounts.                                       *)
LEMMA NamedFinite == IsFiniteSet(Named)
<1>1. IsFiniteSet({OPERATOR}) /\ IsFiniteSet({TREASURY}) /\ IsFiniteSet({DEVELOPERS})
  BY FS_Singleton
<1>2. FeeAccounts = {OPERATOR} \cup ({TREASURY} \cup {DEVELOPERS})
  BY DEF FeeAccounts
<1>3. IsFiniteSet(FeeAccounts)
  BY <1>1, <1>2, FS_Union
<1> QED
  BY <1>3, IdsAssumption, FS_Union DEF Named

(* The accounts that share fees are three.                                 *)
LEMMA FeeAccountsDiffer ==
  OPERATOR # TREASURY /\ OPERATOR # DEVELOPERS /\ TREASURY # DEVELOPERS
<1>1. ASSUME NEW x, NEW y PROVE Cardinality({x, y}) <= 2
  <2>1. IsFiniteSet({x}) /\ IsFiniteSet({y}) /\ Cardinality({x}) = 1 /\ Cardinality({y}) = 1
    BY FS_Singleton
  <2>2. Cardinality({x} \cup {y}) <= Cardinality({x}) + Cardinality({y})
    <3>1. IsFiniteSet({x} \cap {y}) /\ Cardinality({x} \cap {y}) \in Nat
      BY <2>1, FS_Intersection, FS_CardinalityType
    <3>2. Cardinality({x} \cup {y})
            = Cardinality({x}) + Cardinality({y}) - Cardinality({x} \cap {y})
      BY <2>1, FS_Union
    <3>3. \A n \in Nat : 1 + 1 - n <= 1 + 1
      OBVIOUS
    <3> QED
      BY <2>1, <3>1, <3>2, <3>3
  <2>3. {x} \cup {y} = {x, y}
    OBVIOUS
  <2> QED
    BY <2>1, <2>2, <2>3
<1>2. Cardinality(FeeAccounts) = 3
  BY IdsAssumption
<1>3. OPERATOR = TREASURY => FeeAccounts = {OPERATOR, DEVELOPERS}
  BY DEF FeeAccounts
<1>4. OPERATOR = DEVELOPERS => FeeAccounts = {OPERATOR, TREASURY}
  BY DEF FeeAccounts
<1>5. TREASURY = DEVELOPERS => FeeAccounts = {OPERATOR, TREASURY}
  BY DEF FeeAccounts
<1>6. /\ ~(Cardinality({OPERATOR, DEVELOPERS}) = 3)
      /\ ~(Cardinality({OPERATOR, TREASURY}) = 3)
  <2>1. \A n \in Nat : n <= 2 => n # 3
    OBVIOUS
  <2>2. ASSUME NEW x, NEW y PROVE Cardinality({x, y}) \in Nat
    <3>1. IsFiniteSet({x}) /\ IsFiniteSet({y})
      BY FS_Singleton
    <3>2. {x, y} = {x} \cup {y}
      OBVIOUS
    <3>3. IsFiniteSet({x} \cup {y})
      BY <3>1, FS_Union
    <3> QED
      BY <3>2, <3>3, FS_CardinalityType
  <2> QED
    BY <1>1, <2>1, <2>2
<1> QED
  BY <1>2, <1>3, <1>4, <1>5, <1>6

(* The balances are numbers, now and after a step.                         *)
LEMMA BalancesType ==
  ASSUME AccountsOK
  PROVE  /\ StakeBalances \in [Named -> Nat] /\ AvailableBalances \in [Named -> Nat]
         /\ UnstakedBalances \in [Named -> Nat] /\ NslpBalances \in [Named -> Nat]
<1>1. \A id \in Named : AccountOf(id) \in Account
  BY AccountOfType
<1> QED
  BY <1>1 DEF StakeBalances, AvailableBalances, UnstakedBalances, NslpBalances, Account

(* The same of the next state.                                             *)
LEMMA AccountOfTypeNext ==
  ASSUME AccountsOK', NEW id
  PROVE  AccountOf(id)' \in Account /\ (id # NSLP => AccountOf(id)'.available = 0)
  BY DEF AccountsOK, OnlyPoolKeepsNear, AccountOf, NoAccount, Account

(* The same of the balances in the next state.                             *)
LEMMA BalancesTypeNext ==
  ASSUME AccountsOK'
  PROVE  /\ StakeBalances' \in [Named -> Nat] /\ AvailableBalances' \in [Named -> Nat]
         /\ UnstakedBalances' \in [Named -> Nat] /\ NslpBalances' \in [Named -> Nat]
<1>1. \A id \in Named : AccountOf(id)' \in Account
  BY AccountOfTypeNext
<1> QED
  BY <1>1 DEF StakeBalances, AvailableBalances, UnstakedBalances, NslpBalances, Account

(* One balance changes.                                                    *)
LEMMA OneBalance ==
  ASSUME NEW f \in [Named -> Nat], NEW g \in [Named -> Nat], NEW x \in Named,
         \A k \in Named \ {x} : g[k] = f[k]
  PROVE  SumOf(f) \in Nat /\ SumOf(g) \in Nat /\ SumOf(g) + f[x] = SumOf(f) + g[x]
  BY NamedFinite, SumNat, SumChanged

(* Two balances change.                                                    *)
LEMMA TwoBalances ==
  ASSUME NEW f \in [Named -> Nat], NEW g \in [Named -> Nat],
         NEW x \in Named, NEW y \in Named, x # y,
         \A k \in Named \ {x, y} : g[k] = f[k]
  PROVE  /\ SumOf(f) \in Nat /\ SumOf(g) \in Nat
         /\ SumOf(g) + (f[x] + f[y]) = SumOf(f) + (g[x] + g[y])
<1> DEFINE h == [f EXCEPT ![x] = g[x]]
<1>1. h \in [Named -> Nat] /\ h[x] = g[x] /\ h[y] = f[y]
  OBVIOUS
<1>2. \A k \in Named \ {x} : h[k] = f[k]
  OBVIOUS
<1>3. \A k \in Named \ {y} : g[k] = h[k]
  OBVIOUS
<1> HIDE DEF h
<1>4. SumOf(f) \in Nat /\ SumOf(h) \in Nat /\ SumOf(h) + f[x] = SumOf(f) + h[x]
  BY <1>1, <1>2, OneBalance
<1>5. SumOf(g) \in Nat /\ SumOf(g) + h[y] = SumOf(h) + g[y]
  BY <1>1, <1>3, OneBalance
<1>6. f[x] \in Nat /\ f[y] \in Nat /\ g[x] \in Nat /\ g[y] \in Nat
  OBVIOUS
<1> QED
  BY <1>1, <1>4, <1>5, <1>6

(* Four balances change.                                                   *)
LEMMA FourBalances ==
  ASSUME NEW f \in [Named -> Nat], NEW g \in [Named -> Nat],
         NEW w \in Named, NEW x \in Named, NEW y \in Named, NEW z \in Named,
         w # x, w # y, w # z, x # y, x # z, y # z,
         \A k \in Named \ {w, x, y, z} : g[k] = f[k]
  PROVE  /\ SumOf(f) \in Nat /\ SumOf(g) \in Nat
         /\ SumOf(g) + (f[w] + f[x] + f[y] + f[z]) = SumOf(f) + (g[w] + g[x] + g[y] + g[z])
<1> DEFINE h == [f EXCEPT ![w] = g[w], ![x] = g[x]]
<1>1. h \in [Named -> Nat] /\ h[w] = g[w] /\ h[x] = g[x] /\ h[y] = f[y] /\ h[z] = f[z]
  OBVIOUS
<1>2. \A k \in Named \ {w, x} : h[k] = f[k]
  OBVIOUS
<1>3. \A k \in Named \ {y, z} : g[k] = h[k]
  OBVIOUS
<1> HIDE DEF h
<1>4. SumOf(f) \in Nat /\ SumOf(h) \in Nat
        /\ SumOf(h) + (f[w] + f[x]) = SumOf(f) + (h[w] + h[x])
  BY <1>1, <1>2, TwoBalances
<1>5. SumOf(g) \in Nat /\ SumOf(g) + (h[y] + h[z]) = SumOf(h) + (g[y] + g[z])
  BY <1>1, <1>3, TwoBalances
<1>6. /\ f[w] \in Nat /\ f[x] \in Nat /\ f[y] \in Nat /\ f[z] \in Nat
      /\ g[w] \in Nat /\ g[x] \in Nat /\ g[y] \in Nat /\ g[z] \in Nat
  OBVIOUS
<1> QED
  BY <1>1, <1>4, <1>5, <1>6

-----------------------------------------------------------------------------
(* The totals follow.                                                      *)

(* A step changes the account id and that of the liquidity pool, and each  *)
(* total by as much.                                                       *)
Moves(id, before, after, pool, poolAfter) ==
  /\ before = AccountOf(id) /\ after = AccountOf(id)'
  /\ pool = nslp_account /\ poolAfter = nslp_account'
  /\ \A k \in Named \ {id} : AccountOf(k)' = AccountOf(k)
  /\ total_stake_shares' + (before.stake_shares + pool.stake_shares)
       = total_stake_shares + (after.stake_shares + poolAfter.stake_shares)
  /\ total_unstake_claims' + (before.unstaked + pool.unstaked)
       = total_unstake_claims + (after.unstaked + poolAfter.unstaked)
  /\ total_available' + pool.available = total_available + poolAfter.available
  /\ poolAfter.nslp_shares + before.nslp_shares = pool.nslp_shares + after.nslp_shares

(* Such a step keeps the sums.                                             *)
LEMMA OneAccount ==
  ASSUME IInv, IInv', SumsMatch, NEW id \in Named,
         NEW before \in Account, NEW after \in Account,
         NEW pool \in Account, NEW poolAfter \in Account,
         Moves(id, before, after, pool, poolAfter)
  PROVE  SumsMatch'
<1> USE DEF Moves
<1>1. /\ AccountsOK /\ TotalsOK /\ StakeOK
      /\ AccountsOK' /\ TotalsOK' /\ StakeOK'
  BY IInvParts, IInvPartsNext
<1>2. /\ total_stake_shares \in Nat /\ total_stake_shares' \in Nat
      /\ total_unstake_claims \in Nat /\ total_unstake_claims' \in Nat
      /\ total_available \in Nat /\ total_available' \in Nat
  BY <1>1 DEF TotalsOK, StakeOK
<1>3. /\ before.stake_shares \in Nat /\ before.unstaked \in Nat /\ before.nslp_shares \in Nat
      /\ after.stake_shares \in Nat /\ after.unstaked \in Nat /\ after.nslp_shares \in Nat
      /\ pool.stake_shares \in Nat /\ pool.unstaked \in Nat /\ pool.nslp_shares \in Nat
      /\ poolAfter.stake_shares \in Nat /\ poolAfter.unstaked \in Nat
      /\ poolAfter.nslp_shares \in Nat
      /\ pool.available \in Nat /\ poolAfter.available \in Nat
  BY DEF Account
<1>4. before.available = 0 /\ after.available = 0
  BY <1>1, AccountOfType, AccountOfTypeNext, Ids
<1>5. /\ SumOf(StakeBalances) \in Nat /\ SumOf(StakeBalances') \in Nat
      /\ SumOf(StakeBalances') + before.stake_shares = SumOf(StakeBalances) + after.stake_shares
  <2>1. \A k \in Named \ {id} : StakeBalances'[k] = StakeBalances[k]
    BY DEF StakeBalances
  <2>2. StakeBalances[id] = before.stake_shares /\ StakeBalances'[id] = after.stake_shares
    BY DEF StakeBalances
  <2> QED
    BY <1>1, <2>1, <2>2, BalancesType, BalancesTypeNext, OneBalance
<1>6. /\ SumOf(UnstakedBalances) \in Nat /\ SumOf(UnstakedBalances') \in Nat
      /\ SumOf(UnstakedBalances') + before.unstaked = SumOf(UnstakedBalances) + after.unstaked
  <2>1. \A k \in Named \ {id} : UnstakedBalances'[k] = UnstakedBalances[k]
    BY DEF UnstakedBalances
  <2>2. UnstakedBalances[id] = before.unstaked /\ UnstakedBalances'[id] = after.unstaked
    BY DEF UnstakedBalances
  <2> QED
    BY <1>1, <2>1, <2>2, BalancesType, BalancesTypeNext, OneBalance
<1>7. /\ SumOf(NslpBalances) \in Nat /\ SumOf(NslpBalances') \in Nat
      /\ SumOf(NslpBalances') + before.nslp_shares = SumOf(NslpBalances) + after.nslp_shares
  <2>1. \A k \in Named \ {id} : NslpBalances'[k] = NslpBalances[k]
    BY DEF NslpBalances
  <2>2. NslpBalances[id] = before.nslp_shares /\ NslpBalances'[id] = after.nslp_shares
    BY DEF NslpBalances
  <2> QED
    BY <1>1, <2>1, <2>2, BalancesType, BalancesTypeNext, OneBalance
<1>8. /\ SumOf(AvailableBalances) \in Nat /\ SumOf(AvailableBalances') \in Nat
      /\ SumOf(AvailableBalances') = SumOf(AvailableBalances)
  <2>1. \A k \in Named \ {id} : AvailableBalances'[k] = AvailableBalances[k]
    BY DEF AvailableBalances
  <2>2. AvailableBalances[id] = 0 /\ AvailableBalances'[id] = 0
    BY <1>4 DEF AvailableBalances
  <2>3. /\ SumOf(AvailableBalances) \in Nat /\ SumOf(AvailableBalances') \in Nat
        /\ SumOf(AvailableBalances') + AvailableBalances[id]
             = SumOf(AvailableBalances) + AvailableBalances'[id]
    BY <1>1, <2>1, BalancesType, BalancesTypeNext, OneBalance
  <2> QED
    BY <2>2, <2>3
<1>9. /\ total_stake_shares' = SumOf(StakeBalances') + poolAfter.stake_shares
      /\ total_available' = SumOf(AvailableBalances') + poolAfter.available
      /\ total_unstake_claims' = SumOf(UnstakedBalances') + poolAfter.unstaked
      /\ poolAfter.nslp_shares = SumOf(NslpBalances')
  <2>1. /\ total_stake_shares = SumOf(StakeBalances) + pool.stake_shares
        /\ total_available = SumOf(AvailableBalances) + pool.available
        /\ total_unstake_claims = SumOf(UnstakedBalances) + pool.unstaked
        /\ pool.nslp_shares = SumOf(NslpBalances)
    BY DEF SumsMatch
  <2>2. total_stake_shares' = SumOf(StakeBalances') + poolAfter.stake_shares
    <3>1. PICK s, r, t, u, b, a, p, q \in Nat :
            /\ s = SumOf(StakeBalances) /\ r = SumOf(StakeBalances')
            /\ t = total_stake_shares /\ u = total_stake_shares'
            /\ b = before.stake_shares /\ a = after.stake_shares
            /\ p = pool.stake_shares /\ q = poolAfter.stake_shares
      BY <1>2, <1>3, <1>5
    <3>2. t = s + p /\ r + b = s + a /\ u + (b + p) = t + (a + q)
      BY <1>5, <2>1, <3>1
    <3>3. u = r + q
      BY <3>2
    <3> QED
      BY <3>1, <3>3
  <2>3. total_available' = SumOf(AvailableBalances') + poolAfter.available
    <3>1. PICK s, t, u, p, q \in Nat :
            /\ s = SumOf(AvailableBalances) /\ t = total_available /\ u = total_available'
            /\ p = pool.available /\ q = poolAfter.available
      BY <1>2, <1>3, <1>8
    <3>2. t = s + p /\ u + p = t + q
      BY <2>1, <3>1
    <3>3. u = s + q
      BY <3>2
    <3> QED
      BY <1>8, <3>1, <3>3
  <2>4. total_unstake_claims' = SumOf(UnstakedBalances') + poolAfter.unstaked
    <3>1. PICK s, r, t, u, b, a, p, q \in Nat :
            /\ s = SumOf(UnstakedBalances) /\ r = SumOf(UnstakedBalances')
            /\ t = total_unstake_claims /\ u = total_unstake_claims'
            /\ b = before.unstaked /\ a = after.unstaked
            /\ p = pool.unstaked /\ q = poolAfter.unstaked
      BY <1>2, <1>3, <1>6
    <3>2. t = s + p /\ r + b = s + a /\ u + (b + p) = t + (a + q)
      BY <1>6, <2>1, <3>1
    <3>3. u = r + q
      BY <3>2
    <3> QED
      BY <3>1, <3>3
  <2>5. poolAfter.nslp_shares = SumOf(NslpBalances')
    <3>1. PICK s, t, b, a, p, q \in Nat :
            /\ s = SumOf(NslpBalances) /\ t = SumOf(NslpBalances')
            /\ b = before.nslp_shares /\ a = after.nslp_shares
            /\ p = pool.nslp_shares /\ q = poolAfter.nslp_shares
      BY <1>3, <1>7
    <3>2. p = s /\ t + b = s + a /\ q + b = p + a
      BY <1>7, <2>1, <3>1
    <3>3. q = t
      BY <3>2
    <3> QED
      BY <3>1, <3>3
  <2> QED
    BY <2>2, <2>3, <2>4, <2>5
<1> QED
  BY <1>9 DEF SumsMatch

(* What is saved is what is read afterwards.                               *)
LEMMA SaveEffect ==
  ASSUME NEW id, NEW account, Save(id, account)
  PROVE  \A k : AccountOf(k)' = IF k = id THEN account ELSE AccountOf(k)
  BY DEF Save, AccountOf

(* The same of two accounts.                                               *)
LEMMA SaveBothEffect ==
  ASSUME NEW id, NEW account, NEW other, NEW otherAccount,
         SaveBoth(id, account, other, otherAccount)
  PROVE  \A k : AccountOf(k)' = IF k = id THEN account
                                ELSE IF k = other THEN otherAccount ELSE AccountOf(k)
  BY DEF SaveBoth, AccountOf

(* The accounts a step reads and writes are accounts.                      *)
LEMMA AccountsBeforeAndAfter ==
  ASSUME IInv, IInv', NEW id \in Named
  PROVE  \E before, after, pool, poolAfter \in Account :
           /\ before = AccountOf(id) /\ after = AccountOf(id)'
           /\ pool = nslp_account /\ poolAfter = nslp_account'
           /\ before.available = 0
<1>1. AccountsOK /\ AccountsOK'
  BY IInvParts, IInvPartsNext
<1>2. nslp_account' \in Account
  BY <1>1, AccountOfTypeNext DEF nslp_account
<1> QED
  BY <1>1, <1>2, AccountOfType, AccountOfTypeNext, NslpType, Ids

(* A step that leaves every account as it is, registered or not.           *)
LEMMA SameBalances ==
  ASSUME SumsMatch, \A k : AccountOf(k)' = AccountOf(k),
         UNCHANGED <<total_stake_shares, total_available, total_unstake_claims>>
  PROVE  SumsMatch'
<1>1. /\ StakeBalances' = StakeBalances /\ AvailableBalances' = AvailableBalances
      /\ UnstakedBalances' = UnstakedBalances /\ NslpBalances' = NslpBalances
      /\ nslp_account' = nslp_account
  BY DEF StakeBalances, AvailableBalances, UnstakedBalances, NslpBalances, nslp_account
<1> QED
  BY <1>1 DEF SumsMatch

(* The same of a step that does not touch them at all.                     *)
LEMMA NothingMoves ==
  ASSUME SumsMatch, UNCHANGED <<accounts, total_stake_shares, total_available,
                                total_unstake_claims>>
  PROVE  SumsMatch'
  BY SameBalances DEF AccountOf

-----------------------------------------------------------------------------
(* Deposits, unstakes and withdrawals.                                     *)

(* A deposit that is staked.                                               *)
LEMMA DepositAndStakeSums ==
  ASSUME IInv, IInv', SumsMatch, NEW id \in Users \cup Lockups, NEW attached \in Deposits,
         DepositAndStake(id, attached)
  PROVE  SumsMatch'
<1>1. PICK amount, minted, shares, sold, near \in Nat :
         /\ StakedAndCleared(amount, minted, shares, sold, near)
         /\ DepositSaved(id, minted, shares, sold, near)
  BY DepositComputes
<1>2. id \in Named
  BY DEF Named
<1>3. PICK before, after, pool, poolAfter \in Account :
        /\ before = AccountOf(id) /\ after = AccountOf(id)'
        /\ pool = nslp_account /\ poolAfter = nslp_account'
        /\ before.available = 0
  BY <1>2, AccountsBeforeAndAfter
<1>4. /\ \A k \in Named \ {id} : AccountOf(k)' = AccountOf(k)
      /\ after = [before EXCEPT !.stake_shares = @ + minted]
      /\ poolAfter = [pool EXCEPT !.available = @ + near, !.stake_shares = @ - sold]
      /\ sold <= pool.stake_shares
  BY <1>1, <1>3 DEF DepositSaved
<1>5. /\ total_available' = total_available + near
      /\ total_stake_shares' = total_stake_shares + minted - sold
      /\ total_unstake_claims' = total_unstake_claims
  BY <1>1 DEF StakedAndCleared, DepositAndStake, claimVars
<1>6. /\ after.stake_shares = before.stake_shares + minted
      /\ after.unstaked = before.unstaked /\ after.nslp_shares = before.nslp_shares
      /\ poolAfter.available = pool.available + near
      /\ poolAfter.stake_shares = pool.stake_shares - sold
      /\ poolAfter.unstaked = pool.unstaked /\ poolAfter.nslp_shares = pool.nslp_shares
  BY <1>4 DEF Account
<1>7. total_stake_shares \in Nat /\ total_available \in Nat /\ total_unstake_claims \in Nat
  BY IInvParts DEF StakeOK, TotalsOK
<1>8. /\ before.stake_shares \in Nat /\ pool.stake_shares \in Nat /\ pool.available \in Nat
      /\ before.unstaked \in Nat /\ pool.unstaked \in Nat
      /\ before.nslp_shares \in Nat /\ pool.nslp_shares \in Nat
  BY DEF Account
<1>9. /\ total_stake_shares' + (before.stake_shares + pool.stake_shares)
           = total_stake_shares + (after.stake_shares + poolAfter.stake_shares)
      /\ total_unstake_claims' + (before.unstaked + pool.unstaked)
           = total_unstake_claims + (after.unstaked + poolAfter.unstaked)
      /\ total_available' + pool.available = total_available + poolAfter.available
      /\ poolAfter.nslp_shares + before.nslp_shares = pool.nslp_shares + after.nslp_shares
  BY <1>5, <1>6, <1>7, <1>8
<1>10. Moves(id, before, after, pool, poolAfter)
  BY <1>3, <1>4, <1>9 DEF Moves
<1> QED
  BY <1>2, <1>10, OneAccount

(* stNEAR burned for a claim.                                              *)
LEMMA UnstakeSharesSums ==
  ASSUME IInv, IInv', SumsMatch, NEW id \in Users \cup Lockups, NEW shares \in Nat,
         UnstakeShares(id, shares)
  PROVE  SumsMatch'
<1> DEFINE amount == amount_from_stake_shares(shares)
<1>1. AccountsOK /\ TotalsOK /\ StakeOK
  BY IInvParts
<1>2. id \in Named /\ id # NSLP
  BY Ids DEF Named
<1>3. PICK before, after, pool, poolAfter \in Account :
        /\ before = AccountOf(id) /\ after = AccountOf(id)'
        /\ pool = nslp_account /\ poolAfter = nslp_account'
        /\ before.available = 0
  BY <1>2, AccountsBeforeAndAfter
<1>4. id \in DOMAIN accounts /\ accounts[id] = before /\ shares <= before.stake_shares
  BY <1>3 DEF UnstakeShares, AccountOf
<1>5. /\ total_unstake_claims' = total_unstake_claims + amount
      /\ total_stake_shares' = total_stake_shares - shares
      /\ total_available' = total_available
  BY DEF UnstakeShares, nearVars
<1>6. PICK delay \in Delays :
        Save(id, [accounts[id] EXCEPT
          !.stake_shares = @ - shares, !.unstaked = @ + amount,
          !.unstaked_requested_unlock_epoch = epoch + delay])
  BY DEF UnstakeShares
<1>7. /\ \A k \in Named \ {id} : AccountOf(k)' = AccountOf(k)
      /\ after = [before EXCEPT !.stake_shares = @ - shares, !.unstaked = @ + amount,
                    !.unstaked_requested_unlock_epoch = epoch + delay]
      /\ poolAfter = pool
  BY <1>2, <1>3, <1>4, <1>6, SaveEffect DEF nslp_account
<1>8. amount \in Nat
  BY <1>1, StakeAmountType
<1> HIDE DEF amount
<1>9. /\ after.stake_shares = before.stake_shares - shares
      /\ after.unstaked = before.unstaked + amount
      /\ after.nslp_shares = before.nslp_shares
  BY <1>7 DEF Account
<1>10. total_stake_shares \in Nat /\ total_available \in Nat /\ total_unstake_claims \in Nat
  BY <1>1 DEF StakeOK, TotalsOK
<1>11. /\ before.stake_shares \in Nat /\ pool.stake_shares \in Nat /\ pool.available \in Nat
       /\ before.unstaked \in Nat /\ pool.unstaked \in Nat
       /\ before.nslp_shares \in Nat /\ pool.nslp_shares \in Nat
  BY DEF Account
<1>12. /\ total_stake_shares' + (before.stake_shares + pool.stake_shares)
            = total_stake_shares + (after.stake_shares + poolAfter.stake_shares)
       /\ total_unstake_claims' + (before.unstaked + pool.unstaked)
            = total_unstake_claims + (after.unstaked + poolAfter.unstaked)
       /\ total_available' + pool.available = total_available + poolAfter.available
       /\ poolAfter.nslp_shares + before.nslp_shares = pool.nslp_shares + after.nslp_shares
  BY <1>5, <1>7, <1>8, <1>9, <1>10, <1>11
<1>13. Moves(id, before, after, pool, poolAfter)
  BY <1>3, <1>7, <1>12 DEF Moves
<1> QED
  BY <1>2, <1>13, OneAccount

(* A claim paid out: the NEAR passes through the account to its owner.     *)
LEMMA WithdrawSums ==
  ASSUME IInv, IInv', SumsMatch, NEW id \in Users \cup Lockups, NEW requested \in Nat,
         Withdraw(id, requested)
  PROVE  SumsMatch'
<1> DEFINE acc   == [accounts[id] EXCEPT !.unstaked = @ - requested, !.available = @ + requested]
           taken == Taken(id, acc.available, requested)
<1>1. AccountsOK /\ TotalsOK /\ StakeOK
  BY IInvParts
<1>2. id \in Named /\ id # NSLP
  BY Ids DEF Named
<1>3. PICK before, after, pool, poolAfter \in Account :
        /\ before = AccountOf(id) /\ after = AccountOf(id)'
        /\ pool = nslp_account /\ poolAfter = nslp_account'
        /\ before.available = 0
  BY <1>2, AccountsBeforeAndAfter
<1>4. id \in DOMAIN accounts /\ accounts[id] = before /\ requested <= before.unstaked
  BY <1>3 DEF Withdraw, AccountOf
<1>5. /\ Save(id, [acc EXCEPT !.available = @ - taken])
      /\ total_unstake_claims >= requested
      /\ total_unstake_claims' = total_unstake_claims - requested
      /\ total_available' = total_available + requested - taken
      /\ total_stake_shares' = total_stake_shares
  BY DEF Withdraw, stakeVars
<1>6. acc.available = requested
  BY <1>3, <1>4 DEF Account
<1>7. taken = requested
  BY <1>6, TakesAll
<1>8. /\ \A k \in Named \ {id} : AccountOf(k)' = AccountOf(k)
      /\ after = [acc EXCEPT !.available = @ - taken]
      /\ poolAfter = pool
  <2> HIDE DEF acc, taken
  <2> QED
    BY <1>2, <1>3, <1>5, SaveEffect DEF nslp_account
<1>9. /\ after.stake_shares = before.stake_shares
      /\ after.unstaked = before.unstaked - requested
      /\ after.nslp_shares = before.nslp_shares
  BY <1>4, <1>8 DEF Account
<1> HIDE DEF acc, taken
<1>10. total_stake_shares \in Nat /\ total_available \in Nat /\ total_unstake_claims \in Nat
  BY <1>1 DEF StakeOK, TotalsOK
<1>11. /\ before.stake_shares \in Nat /\ pool.stake_shares \in Nat /\ pool.available \in Nat
       /\ before.unstaked \in Nat /\ pool.unstaked \in Nat
       /\ before.nslp_shares \in Nat /\ pool.nslp_shares \in Nat
  BY DEF Account
<1>12. /\ total_stake_shares' + (before.stake_shares + pool.stake_shares)
            = total_stake_shares + (after.stake_shares + poolAfter.stake_shares)
       /\ total_unstake_claims' + (before.unstaked + pool.unstaked)
            = total_unstake_claims + (after.unstaked + poolAfter.unstaked)
       /\ total_available' + pool.available = total_available + poolAfter.available
       /\ poolAfter.nslp_shares + before.nslp_shares = pool.nslp_shares + after.nslp_shares
  BY <1>4, <1>5, <1>7, <1>8, <1>9, <1>10, <1>11
<1>13. Moves(id, before, after, pool, poolAfter)
  BY <1>3, <1>8, <1>12 DEF Moves
<1> QED
  BY <1>2, <1>13, OneAccount

-----------------------------------------------------------------------------
(* The liquidity pool.                                                     *)

(* NEAR of the liquidity pool that the operator stakes.                    *)
LEMMA StakeFromNslpSums ==
  ASSUME IInv, IInv', SumsMatch, NEW amount \in Requests, StakeFromNslp(amount)
  PROVE  SumsMatch'
<1> DEFINE staked == Taken(NSLP, nslp_account.available, amount)
           minted == stake_shares_from_amount(staked)
<1>1. AccountsOK /\ TotalsOK /\ StakeOK
  BY IInvParts
<1>2. OPERATOR \in Named
  BY DEF Named, FeeAccounts
<1>3. PICK before, after, pool, poolAfter \in Account :
        /\ before = AccountOf(OPERATOR) /\ after = AccountOf(OPERATOR)'
        /\ pool = nslp_account /\ poolAfter = nslp_account'
        /\ before.available = 0
  BY <1>2, AccountsBeforeAndAfter
<1>4. /\ Save(NSLP, [nslp_account EXCEPT !.available = @ - staked,
                                         !.stake_shares = @ + minted])
      /\ staked <= nslp_account.available /\ staked <= total_available
      /\ total_available' = total_available - staked
      /\ total_stake_shares' = total_stake_shares + minted
      /\ total_unstake_claims' = total_unstake_claims
  BY DEF StakeFromNslp, claimVars, CanTake
<1>5. staked \in Nat /\ minted \in Nat
  <2>1. staked \in Nat
    BY <1>3, AmountsAssumption DEF Taken, Account
  <2> HIDE DEF staked
  <2> QED
    BY <1>1, <2>1, StakeAmountType
<1> HIDE DEF staked, minted
<1>6. /\ \A k \in Named : AccountOf(k)' = AccountOf(k)
      /\ poolAfter = [pool EXCEPT !.available = @ - staked, !.stake_shares = @ + minted]
  BY <1>3, <1>4, SaveEffect, Ids DEF nslp_account
<1>7. /\ poolAfter.available = pool.available - staked
      /\ poolAfter.stake_shares = pool.stake_shares + minted
      /\ poolAfter.unstaked = pool.unstaked /\ poolAfter.nslp_shares = pool.nslp_shares
      /\ after = before
  BY <1>2, <1>3, <1>6 DEF Account
<1>8. total_stake_shares \in Nat /\ total_available \in Nat /\ total_unstake_claims \in Nat
  BY <1>1 DEF StakeOK, TotalsOK
<1>9. /\ before.stake_shares \in Nat /\ pool.stake_shares \in Nat /\ pool.available \in Nat
      /\ before.unstaked \in Nat /\ pool.unstaked \in Nat
      /\ before.nslp_shares \in Nat /\ pool.nslp_shares \in Nat
  BY DEF Account
<1>10. /\ total_stake_shares' + (before.stake_shares + pool.stake_shares)
            = total_stake_shares + (after.stake_shares + poolAfter.stake_shares)
       /\ total_unstake_claims' + (before.unstaked + pool.unstaked)
            = total_unstake_claims + (after.unstaked + poolAfter.unstaked)
       /\ total_available' + pool.available = total_available + poolAfter.available
       /\ poolAfter.nslp_shares + before.nslp_shares = pool.nslp_shares + after.nslp_shares
  BY <1>3, <1>4, <1>5, <1>7, <1>8, <1>9
<1>11. Moves(OPERATOR, before, after, pool, poolAfter)
  BY <1>3, <1>6, <1>10 DEF Moves
<1> QED
  BY <1>2, <1>11, OneAccount

(* Liquidity added.                                                        *)
LEMMA AddLiquiditySums ==
  ASSUME IInv, IInv', SumsMatch, NEW id \in Users, NEW attached \in Deposits,
         AddLiquidity(id, attached)
  PROVE  SumsMatch'
<1> DEFINE amount == Deposited(id, attached)
           acc    == [AccountOf(id) EXCEPT !.available = @ + amount]
           added  == Taken(id, acc.available, amount)
           minted == nslp_shares_from_amount(added)
           mine   == [acc EXCEPT !.available = @ - added, !.nslp_shares = @ + minted]
           rich   == [nslp_account EXCEPT !.available = @ + added, !.nslp_shares = @ + minted]
<1>1. AccountsOK /\ TotalsOK /\ StakeOK /\ CallsOK
  BY IInvParts
<1>2. id \in Named /\ id # NSLP
  BY Ids DEF Named
<1>3. PICK before, after, pool, poolAfter \in Account :
        /\ before = AccountOf(id) /\ after = AccountOf(id)'
        /\ pool = nslp_account /\ poolAfter = nslp_account'
        /\ before.available = 0
  BY <1>2, AccountsBeforeAndAfter
<1>4. /\ SaveBoth(id, mine, NSLP, rich)
      /\ total_available' = total_available + amount
      /\ total_stake_shares' = total_stake_shares
      /\ total_unstake_claims' = total_unstake_claims
  BY DEF AddLiquidity, claimVars, stakeVars
<1>5. amount \in Nat
  BY <1>1, Deposit DEF AddLiquidity
<1>6. acc \in Account /\ acc.available = amount /\ added = amount
  BY <1>3, <1>5, TakesAll DEF Account
<1>7. minted \in Nat
  BY <1>1, <1>5, <1>6, PoolValueType
<1>8. /\ \A k \in Named \ {id} : AccountOf(k)' = AccountOf(k)
      /\ after = mine /\ poolAfter = rich
  <2> HIDE DEF mine, rich
  <2> QED
    BY <1>2, <1>3, <1>4, SaveBothEffect, Ids DEF nslp_account
<1> HIDE DEF minted, added, amount
<1>9. /\ after.stake_shares = before.stake_shares
      /\ after.unstaked = before.unstaked
      /\ after.nslp_shares = before.nslp_shares + minted
      /\ poolAfter.available = pool.available + amount
      /\ poolAfter.stake_shares = pool.stake_shares /\ poolAfter.unstaked = pool.unstaked
      /\ poolAfter.nslp_shares = pool.nslp_shares + minted
  BY <1>3, <1>6, <1>8 DEF Account
<1> HIDE DEF acc, mine, rich
<1>10. total_stake_shares \in Nat /\ total_available \in Nat /\ total_unstake_claims \in Nat
  BY <1>1 DEF StakeOK, TotalsOK
<1>11. /\ before.stake_shares \in Nat /\ pool.stake_shares \in Nat /\ pool.available \in Nat
       /\ before.unstaked \in Nat /\ pool.unstaked \in Nat
       /\ before.nslp_shares \in Nat /\ pool.nslp_shares \in Nat
  BY DEF Account
<1>12. /\ total_stake_shares' + (before.stake_shares + pool.stake_shares)
            = total_stake_shares + (after.stake_shares + poolAfter.stake_shares)
       /\ total_unstake_claims' + (before.unstaked + pool.unstaked)
            = total_unstake_claims + (after.unstaked + poolAfter.unstaked)
       /\ total_available' + pool.available = total_available + poolAfter.available
       /\ poolAfter.nslp_shares + before.nslp_shares = pool.nslp_shares + after.nslp_shares
  BY <1>4, <1>5, <1>7, <1>9, <1>10, <1>11
<1>13. Moves(id, before, after, pool, poolAfter)
  BY <1>3, <1>8, <1>12 DEF Moves
<1> QED
  BY <1>2, <1>13, OneAccount

(* Liquidity removed.                                                      *)
LEMMA RemoveLiquiditySums ==
  ASSUME IInv, IInv', SumsMatch, NEW id \in Users, NEW requested \in Requests,
         RemoveLiquidity(id, requested)
  PROVE  SumsMatch'
<1> DEFINE out   == Removal(id, requested)
           near  == out.value - out.st_near_value
           taken == Taken(id, accounts[id].available + near, near)
           mine  == [accounts[id] EXCEPT !.available = @ + near - taken,
                       !.stake_shares = @ + out.st_near, !.nslp_shares = @ - out.burned]
           rest  == [nslp_account EXCEPT !.available = @ - near,
                       !.stake_shares = @ - out.st_near, !.nslp_shares = @ - out.burned]
<1>1. AccountsOK /\ TotalsOK /\ StakeOK
  BY IInvParts
<1>2. id \in Named /\ id # NSLP
  BY Ids DEF Named
<1>3. PICK before, after, pool, poolAfter \in Account :
        /\ before = AccountOf(id) /\ after = AccountOf(id)'
        /\ pool = nslp_account /\ poolAfter = nslp_account'
        /\ before.available = 0
  BY <1>2, AccountsBeforeAndAfter
<1>4. /\ id \in DOMAIN accounts /\ out.burned > 0
      /\ out.value >= out.st_near_value /\ near <= nslp_account.available
      /\ out.burned <= accounts[id].nslp_shares /\ out.st_near <= nslp_account.stake_shares
      /\ out.burned <= nslp_account.nslp_shares
      /\ SaveBoth(id, mine, NSLP, rest)
      /\ total_available' = total_available - taken
      /\ total_stake_shares' = total_stake_shares
      /\ total_unstake_claims' = total_unstake_claims
  BY DEF RemoveLiquidity, CanTake, CanBurn, stakeVars, claimVars
<1>5. /\ out.value \in Nat /\ out.burned \in Nat /\ out.st_near \in Nat
      /\ out.st_near_value \in Nat
  BY <1>1, <1>4, AmountsAssumption, RemovalType
<1> HIDE DEF out
<1>6. before = accounts[id]
  BY <1>3, <1>4 DEF AccountOf
<1>7. near \in Nat /\ accounts[id].available + near = near
  BY <1>3, <1>4, <1>5, <1>6
<1>8. taken = near
  BY <1>7, TakesAll
<1>9. /\ \A k \in Named \ {id} : AccountOf(k)' = AccountOf(k)
      /\ after = mine /\ poolAfter = rest
  <2> HIDE DEF mine, rest
  <2> QED
    BY <1>2, <1>3, <1>4, SaveBothEffect, Ids DEF nslp_account
<1> HIDE DEF near, taken
<1>10. /\ after.stake_shares = before.stake_shares + out.st_near
       /\ after.unstaked = before.unstaked
       /\ after.nslp_shares = before.nslp_shares - out.burned
       /\ poolAfter.available = pool.available - near
       /\ poolAfter.stake_shares = pool.stake_shares - out.st_near
       /\ poolAfter.unstaked = pool.unstaked
       /\ poolAfter.nslp_shares = pool.nslp_shares - out.burned
  BY <1>3, <1>6, <1>9 DEF Account
<1> HIDE DEF mine, rest
<1>11. total_stake_shares \in Nat /\ total_available \in Nat /\ total_unstake_claims \in Nat
  BY <1>1 DEF StakeOK, TotalsOK
<1>12. /\ before.stake_shares \in Nat /\ pool.stake_shares \in Nat /\ pool.available \in Nat
       /\ before.unstaked \in Nat /\ pool.unstaked \in Nat
       /\ before.nslp_shares \in Nat /\ pool.nslp_shares \in Nat
  BY DEF Account
<1>13. /\ total_stake_shares' + (before.stake_shares + pool.stake_shares)
            = total_stake_shares + (after.stake_shares + poolAfter.stake_shares)
       /\ total_unstake_claims' + (before.unstaked + pool.unstaked)
            = total_unstake_claims + (after.unstaked + poolAfter.unstaked)
       /\ total_available' + pool.available = total_available + poolAfter.available
       /\ poolAfter.nslp_shares + before.nslp_shares = pool.nslp_shares + after.nslp_shares
  BY <1>4, <1>5, <1>7, <1>8, <1>10, <1>11, <1>12
<1>14. Moves(id, before, after, pool, poolAfter)
  BY <1>3, <1>9, <1>13 DEF Moves
<1> QED
  BY <1>2, <1>14, OneAccount

-----------------------------------------------------------------------------
(* stNEAR between accounts.                                                *)

(* A step after which only the stNEAR of the accounts differs.             *)
OnlyStakeMoves ==
  /\ \A k \in Named : /\ AccountOf(k)'.available = AccountOf(k).available
                      /\ AccountOf(k)'.unstaked = AccountOf(k).unstaked
                      /\ AccountOf(k)'.nslp_shares = AccountOf(k).nslp_shares
  /\ nslp_account'.unstaked = nslp_account.unstaked
  /\ nslp_account'.nslp_shares = nslp_account.nslp_shares
  /\ total_unstake_claims' = total_unstake_claims
  /\ total_available' + nslp_account.available = total_available + nslp_account'.available

(* Such a step keeps the sums, if it keeps that of the stNEAR.             *)
LEMMA StakeAlone ==
  ASSUME IInv, IInv', SumsMatch, OnlyStakeMoves,
         total_stake_shares' = SumOf(StakeBalances') + nslp_account'.stake_shares
  PROVE  SumsMatch'
<1>1. AccountsOK /\ TotalsOK /\ AccountsOK' /\ TotalsOK'
  BY IInvParts, IInvPartsNext
<1>2. /\ AvailableBalances' = AvailableBalances /\ UnstakedBalances' = UnstakedBalances
      /\ NslpBalances' = NslpBalances
  BY DEF OnlyStakeMoves, AvailableBalances, UnstakedBalances, NslpBalances
<1>3. total_available' = SumOf(AvailableBalances') + nslp_account'.available
  <2>1. nslp_account' \in Account
    BY <1>1, AccountOfTypeNext DEF nslp_account
  <2>2. PICK t, u, p, q \in Nat :
          /\ t = total_available /\ u = total_available'
          /\ p = nslp_account.available /\ q = nslp_account'.available
    BY <1>1, <2>1, NslpType DEF TotalsOK, Account
  <2>3. PICK s \in Nat : s = SumOf(AvailableBalances)
    BY <1>1, NamedFinite, SumNat, BalancesType
  <2>4. t = s + p /\ u + p = t + q
    BY <2>2, <2>3 DEF SumsMatch, OnlyStakeMoves
  <2>5. u = s + q
    BY <2>4
  <2> QED
    BY <1>2, <2>2, <2>3, <2>5
<1> QED
  BY <1>2, <1>3 DEF SumsMatch, OnlyStakeMoves

(* stNEAR moved from one account to another.                               *)
LEMMA MovedSums ==
  ASSUME IInv, IInv', SumsMatch, NEW x \in Named, NEW y \in Named, x # y, NEW n \in Nat,
         n <= AccountOf(x).stake_shares,
         SaveBoth(x, [AccountOf(x) EXCEPT !.stake_shares = @ - n],
                  y, [AccountOf(y) EXCEPT !.stake_shares = @ + n]),
         UNCHANGED <<stakeVars, claimVars, nearVars>>
  PROVE  SumsMatch'
<1>1. AccountsOK /\ StakeOK /\ AccountsOK'
  BY IInvParts, IInvPartsNext
<1>2. x # NSLP /\ y # NSLP
  BY Ids
<1>3. PICK a, b \in Account : a = AccountOf(x) /\ b = AccountOf(y)
  BY <1>1, AccountOfType
<1>4. /\ AccountOf(x)' = [a EXCEPT !.stake_shares = @ - n]
      /\ AccountOf(y)' = [b EXCEPT !.stake_shares = @ + n]
      /\ \A k : k # x /\ k # y => AccountOf(k)' = AccountOf(k)
      /\ nslp_account' = nslp_account
  BY <1>2, <1>3, SaveBothEffect DEF nslp_account
<1>5. /\ total_stake_shares' = total_stake_shares /\ total_available' = total_available
      /\ total_unstake_claims' = total_unstake_claims
  BY DEF stakeVars, claimVars, nearVars
<1>6. OnlyStakeMoves
  BY <1>3, <1>4, <1>5 DEF OnlyStakeMoves, Account
<1>7. SumOf(StakeBalances') = SumOf(StakeBalances)
  <2>1. \A k \in Named \ {x, y} : StakeBalances'[k] = StakeBalances[k]
    BY <1>4 DEF StakeBalances
  <2>2. /\ StakeBalances[x] = a.stake_shares /\ StakeBalances[y] = b.stake_shares
        /\ StakeBalances'[x] = a.stake_shares - n /\ StakeBalances'[y] = b.stake_shares + n
    BY <1>3, <1>4 DEF StakeBalances, Account
  <2>3. PICK s, t, p, q \in Nat :
          /\ s = SumOf(StakeBalances) /\ t = SumOf(StakeBalances')
          /\ p = a.stake_shares /\ q = b.stake_shares
          /\ t + (p + q) = s + ((p - n) + (q + n))
    <3>1. /\ SumOf(StakeBalances) \in Nat /\ SumOf(StakeBalances') \in Nat
          /\ SumOf(StakeBalances') + (StakeBalances[x] + StakeBalances[y])
               = SumOf(StakeBalances) + (StakeBalances'[x] + StakeBalances'[y])
      <4>1. StakeBalances \in [Named -> Nat] /\ StakeBalances' \in [Named -> Nat]
        BY <1>1, BalancesType, BalancesTypeNext
      <4>2. PICK f, g \in [Named -> Nat] : f = StakeBalances /\ g = StakeBalances'
        BY <4>1
      <4>3. \A k \in Named \ {x, y} : g[k] = f[k]
        BY <2>1, <4>2
      <4>4. /\ SumOf(f) \in Nat /\ SumOf(g) \in Nat
            /\ SumOf(g) + (f[x] + f[y]) = SumOf(f) + (g[x] + g[y])
        BY <4>3, TwoBalances
      <4> QED
        BY <4>2, <4>4
    <3>2. a.stake_shares \in Nat /\ b.stake_shares \in Nat
      BY DEF Account
    <3> QED
      BY <2>2, <3>1, <3>2
  <2>4. t = s
    BY <2>3
  <2> QED
    BY <2>3, <2>4
<1>8. total_stake_shares' = SumOf(StakeBalances') + nslp_account'.stake_shares
  BY <1>4, <1>5, <1>7 DEF SumsMatch
<1> QED
  BY <1>6, <1>8, StakeAlone

(* The transfer itself.                                                    *)
LEMMA TransferSums ==
  ASSUME IInv, IInv', SumsMatch, NEW sender \in Users, NEW receiver \in Named,
         NEW amount \in Nat, Move(sender, receiver, amount),
         UNCHANGED <<stakeVars, claimVars, nearVars>>
  PROVE  SumsMatch'
<1>1. sender \in Named
  BY DEF Named
<1>2. /\ sender # receiver /\ amount <= AccountOf(sender).stake_shares
      /\ SaveBoth(sender, [AccountOf(sender) EXCEPT !.stake_shares = @ - amount],
                  receiver, [AccountOf(receiver) EXCEPT !.stake_shares = @ + amount])
  BY DEF Move, AccountOf
<1> QED
  BY <1>1, <1>2, MovedSums

(* Nobody sends stNEAR to himself: the calls in flight are between two     *)
(* accounts.                                                               *)
CallsDiffer == \A call \in resolving : call.sender # call.receiver

(* A resolution moves the refund back.                                     *)
LEMMA ResolveTransferSums ==
  ASSUME IInv, IInv', SumsMatch, CallsDiffer, NEW call \in resolving,
         NEW unused \in 0..call.amount, ft_resolve_transfer(call, unused)
  PROVE  SumsMatch'
<1> DEFINE refund == Lesser(AccountOf(call.receiver).stake_shares, unused)
<1>1. AccountsOK /\ CallsOK
  BY IInvParts
<1>2. /\ call.sender \in Named /\ call.receiver \in Named /\ call.amount \in Nat
      /\ call.receiver # call.sender
  BY <1>1 DEF CallsOK, CallsDiffer, Named
<1>3. AccountOf(call.receiver).stake_shares \in Nat
  BY <1>1, AccountOfType DEF Account
<1>4. refund \in Nat /\ refund <= AccountOf(call.receiver).stake_shares
  BY <1>2, <1>3 DEF Lesser
<1>5. /\ IF refund = 0 THEN UNCHANGED accounts
         ELSE SaveBoth(call.receiver,
                       [AccountOf(call.receiver) EXCEPT !.stake_shares = @ - refund],
                       call.sender,
                       [AccountOf(call.sender) EXCEPT !.stake_shares = @ + refund])
      /\ UNCHANGED <<stakeVars, claimVars, nearVars>>
  BY DEF ft_resolve_transfer
<1> HIDE DEF refund
<1>6. CASE refund = 0
  BY <1>5, <1>6, SameBalances DEF AccountOf, stakeVars, claimVars, nearVars
<1>7. CASE refund # 0
  BY <1>2, <1>4, <1>5, <1>7, MovedSums
<1> QED
  BY <1>6, <1>7

(* Only a transfer call adds to the calls in flight.                       *)
LEMMA CallsStayDifferent ==
  ASSUME CallsDiffer, [Next]_vars
  PROVE  CallsDiffer'
<1>1. CASE \E sender \in Users, receiver \in Named, a \in Requests :
              ft_transfer_call(sender, receiver, a)
  BY <1>1 DEF ft_transfer_call, Move, CallsDiffer
<1>2. CASE \E call \in resolving : \E unused \in 0..call.amount :
              ft_resolve_transfer(call, unused)
  BY <1>2 DEF ft_resolve_transfer, CallsDiffer
<1>3. CASE \E sender \in Users, receiver \in Named, a \in Requests :
              ft_transfer(sender, receiver, a)
  BY <1>3 DEF ft_transfer, callVars, CallsDiffer
<1>4. CASE StakingCalls \/ LockupCalls
  <2>1. \A id, a : DepositAndStake(id, a) => UNCHANGED resolving
    BY DEF DepositAndStake, callVars
  <2>2. \A id, n : UnstakeShares(id, n) => UNCHANGED resolving
    BY DEF UnstakeShares, callVars
  <2>3. \A id, a : Withdraw(id, a) => UNCHANGED resolving
    BY DEF Withdraw, callVars
  <2>4. UNCHANGED resolving
    BY <1>4, <2>1, <2>2, <2>3 DEF StakingCalls, LockupCalls, Unstake, UnstakeAll,
       UnstakeFromLockupShares, WithdrawAll
  <2> QED
    BY <2>4 DEF CallsDiffer
<1>5. CASE LiquidityCalls
  <2>1. \A id, a : AddLiquidity(id, a) => UNCHANGED resolving
    BY DEF AddLiquidity, callVars
  <2>2. \A id, a, min : LiquidUnstake(id, a, min) => UNCHANGED resolving
    BY DEF LiquidUnstake, callVars
  <2>3. \A id, a : RemoveLiquidity(id, a) => UNCHANGED resolving
    BY DEF RemoveLiquidity, callVars
  <2>4. \A a : StakeFromNslp(a) => UNCHANGED resolving
    BY DEF StakeFromNslp, callVars
  <2>5. UNCHANGED resolving
    BY <1>5, <2>1, <2>2, <2>3, <2>4 DEF LiquidityCalls
  <2> QED
    BY <2>5 DEF CallsDiffer
<1>6. CASE StorageCalls
  BY <1>6 DEF StorageCalls, StorageDeposit, StorageUnregister, callVars, CallsDiffer
<1>7. CASE HeartbeatCalls
  BY <1>7 DEF HeartbeatCalls, AskRewards, DistributeRewards, Cycle, CallsDiffer
<1>8. CASE UNCHANGED vars
  BY <1>8 DEF vars, callVars, CallsDiffer
<1> QED
  BY <1>1, <1>2, <1>3, <1>4, <1>5, <1>6, <1>7, <1>8 DEF Next, TokenCalls

-----------------------------------------------------------------------------
(* The registration of accounts, and what Heartbeat does.                  *)

(* An account opened is empty.                                             *)
LEMMA StorageDepositSums ==
  ASSUME SumsMatch, NEW id \in Named, StorageDeposit(id)
  PROVE  SumsMatch'
<1>1. \A k : AccountOf(k)' = AccountOf(k)
  BY DEF StorageDeposit, Save, AccountOf
<1> QED
  BY <1>1, SameBalances DEF StorageDeposit, claimVars, stakeVars, nearVars

(* An account closed was empty, but for the epoch of its last claim.       *)
LEMMA StorageUnregisterSums ==
  ASSUME IInv, IInv', SumsMatch, NEW id \in Users, StorageUnregister(id)
  PROVE  SumsMatch'
<1>1. id \in Named /\ id # NSLP
  BY Ids DEF Named
<1>2. PICK before, after, pool, poolAfter \in Account :
        /\ before = AccountOf(id) /\ after = AccountOf(id)'
        /\ pool = nslp_account /\ poolAfter = nslp_account'
        /\ before.available = 0
  BY <1>1, AccountsBeforeAndAfter
<1>3. /\ \A k : k # id => AccountOf(k)' = AccountOf(k)
      /\ after = NoAccount /\ poolAfter = pool
  BY <1>1, <1>2 DEF StorageUnregister, AccountOf, nslp_account
<1>4. before.stake_shares = 0 /\ before.unstaked = 0 /\ before.nslp_shares = 0
  BY <1>2 DEF StorageUnregister, can_be_closed, AccountOf
<1>5. after.stake_shares = 0 /\ after.unstaked = 0 /\ after.nslp_shares = 0
  BY <1>3 DEF NoAccount
<1>6. /\ total_stake_shares' = total_stake_shares
      /\ total_unstake_claims' = total_unstake_claims
      /\ total_available' = total_available
  BY DEF StorageUnregister, claimVars, stakeVars, nearVars
<1>7. Moves(id, before, after, pool, poolAfter)
  BY <1>2, <1>3, <1>4, <1>5, <1>6 DEF Moves
<1> QED
  BY <1>1, <1>7, OneAccount

(* A percentage of an amount is a whole number.                            *)
LEMMA PercentNat ==
  ASSUME NEW bp \in Nat, NEW amount \in Nat
  PROVE  apply_pct(bp, amount) \in Nat
<1>1. bp * amount \in Nat
  BY Z3
<1> QED
  BY <1>1, Floor DEF apply_pct

(* A reward mints the fees into the accounts that get them.                *)
LEMMA DistributeRewardsSums ==
  ASSUME IInv, IInv', SumsMatch, NEW rewards \in RewardAmounts, DistributeRewards(rewards)
  PROVE  SumsMatch'
<1> DEFINE value == total_for_staking + rewards
           Fee(bp) == shares_from_amount(apply_pct(bp, rewards), value, total_stake_shares)
           m == Fee(operator_rewards_fee_basis_points)
           n == Fee(DEVELOPERS_REWARDS_FEE_BASIS_POINTS)
<1>1. AccountsOK /\ StakeOK /\ AccountsOK'
  BY IInvParts, IInvPartsNext
<1>2. /\ OPERATOR \in Named /\ DEVELOPERS \in Named /\ OPERATOR # DEVELOPERS
      /\ OPERATOR # NSLP /\ DEVELOPERS # NSLP /\ NSLP \notin Named
  BY Ids, FeeAccountsDiffer, IdsAssumption DEF Named, FeeAccounts
<1>3. /\ total_stake_shares' = total_stake_shares + m + n
      /\ accounts' = [k \in DOMAIN accounts
                            \cup {x \in {OPERATOR} : m > 0}
                            \cup {x \in {DEVELOPERS} : n > 0} |->
           [AccountOf(k) EXCEPT !.stake_shares = @
              + (IF k = OPERATOR THEN m ELSE 0)
              + (IF k = DEVELOPERS THEN n ELSE 0)]]
      /\ total_available' = total_available
      /\ total_unstake_claims' = total_unstake_claims
  BY DEF DistributeRewards, claimVars, nearVars
<1>4. m \in Nat /\ n \in Nat
  <2>1. rewards \in Nat /\ value \in Nat
    BY <1>1, AmountsAssumption DEF StakeOK
  <2>2. PICK a \in Nat, b \in Nat : /\ a = operator_rewards_fee_basis_points
                                    /\ b = DEVELOPERS_REWARDS_FEE_BASIS_POINTS
                                    /\ a + b <= 10000
    BY FeesAssumption
  <2>3. apply_pct(a, rewards) \in Nat /\ apply_pct(b, rewards) \in Nat
    <3> HIDE DEF m, n, value, Fee
    <3> QED
      BY <2>1, PercentNat
  <2>4. /\ m = shares_from_amount(apply_pct(a, rewards), value, total_stake_shares)
        /\ n = shares_from_amount(apply_pct(b, rewards), value, total_stake_shares)
    BY <2>2
  <2> HIDE DEF m, n, value, Fee
  <2> QED
    BY <1>1, <2>1, <2>3, <2>4, SharesBought DEF StakeOK
<1> HIDE DEF m, n
<1>5. \A k : /\ AccountOf(k)'.stake_shares
                   = AccountOf(k).stake_shares + (IF k = OPERATOR THEN m ELSE 0)
                                               + (IF k = DEVELOPERS THEN n ELSE 0)
             /\ AccountOf(k)'.available = AccountOf(k).available
             /\ AccountOf(k)'.unstaked = AccountOf(k).unstaked
             /\ AccountOf(k)'.nslp_shares = AccountOf(k).nslp_shares
  <2>1. SUFFICES ASSUME NEW k
                 PROVE  /\ AccountOf(k)'.stake_shares
                             = AccountOf(k).stake_shares + (IF k = OPERATOR THEN m ELSE 0)
                                                         + (IF k = DEVELOPERS THEN n ELSE 0)
                        /\ AccountOf(k)'.available = AccountOf(k).available
                        /\ AccountOf(k)'.unstaked = AccountOf(k).unstaked
                        /\ AccountOf(k)'.nslp_shares = AccountOf(k).nslp_shares
    OBVIOUS
  <2>2. PICK old \in Account : old = AccountOf(k)
    BY <1>1, AccountOfType
  <2>3. CASE k \in DOMAIN accounts'
    BY <1>3, <2>2, <2>3 DEF AccountOf, Account
  <2>4. CASE k \notin DOMAIN accounts'
    <3>1. k \notin DOMAIN accounts /\ AccountOf(k)' = NoAccount /\ AccountOf(k) = NoAccount
      BY <1>3, <2>4 DEF AccountOf
    <3>2. (k = OPERATOR => m = 0) /\ (k = DEVELOPERS => n = 0)
      BY <1>3, <1>4, <2>4
    <3> QED
      BY <3>1, <3>2 DEF NoAccount
  <2> QED
    BY <2>3, <2>4
<1>6. nslp_account'.stake_shares = nslp_account.stake_shares
  <2>1. nslp_account.stake_shares \in Nat
    BY <1>1, NslpType DEF Account
  <2> QED
    BY <1>2, <1>5, <2>1 DEF nslp_account
<1>7. OnlyStakeMoves
  BY <1>3, <1>5 DEF OnlyStakeMoves, nslp_account
<1>8. SumOf(StakeBalances) \in Nat /\ SumOf(StakeBalances') = SumOf(StakeBalances) + m + n
  <2>1. PICK f, g \in [Named -> Nat] : f = StakeBalances /\ g = StakeBalances'
    BY <1>1, BalancesType, BalancesTypeNext
  <2>2. \A k \in Named : g[k] = f[k] + (IF k = OPERATOR THEN m ELSE 0)
                                     + (IF k = DEVELOPERS THEN n ELSE 0)
    BY <1>5, <2>1 DEF StakeBalances
  <2>3. \A k \in Named \ {OPERATOR, DEVELOPERS} : g[k] = f[k]
    BY <2>2
  <2>4. /\ SumOf(f) \in Nat /\ SumOf(g) \in Nat
        /\ SumOf(g) + (f[OPERATOR] + f[DEVELOPERS])
             = SumOf(f) + (g[OPERATOR] + g[DEVELOPERS])
    BY <1>2, <2>3, TwoBalances
  <2>5. g[OPERATOR] = f[OPERATOR] + m /\ g[DEVELOPERS] = f[DEVELOPERS] + n
    BY <1>2, <1>4, <2>2
  <2>6. f[OPERATOR] \in Nat /\ f[DEVELOPERS] \in Nat
    BY <1>2
  <2> QED
    BY <1>4, <2>1, <2>4, <2>5, <2>6
<1>9. total_stake_shares' = SumOf(StakeBalances') + nslp_account'.stake_shares
  <2>1. PICK p \in Nat : p = nslp_account.stake_shares
    BY <1>1, NslpType DEF Account
  <2>2. total_stake_shares = SumOf(StakeBalances) + p
    BY <2>1 DEF SumsMatch
  <2> QED
    BY <1>3, <1>4, <1>6, <1>8, <2>1, <2>2
<1> QED
  BY <1>7, <1>9, StakeAlone

-----------------------------------------------------------------------------
(* A sale of stNEAR to the liquidity pool: the buyer's NEAR comes from the *)
(* pool, and the fee accounts get their cuts of the stNEAR.                *)

(* What a sale does to the accounts.                                       *)
SaleSaved(id, sold, near, treasury, operator, developers) ==
  /\ AccountOf(id)' = [AccountOf(id) EXCEPT !.stake_shares = @ - sold]
  /\ nslp_account' = [nslp_account EXCEPT !.available = @ - near,
                        !.stake_shares = @ + (sold - (treasury + operator + developers))]
  /\ AccountOf(TREASURY)' = [AccountOf(TREASURY) EXCEPT !.stake_shares = @ + treasury]
  /\ AccountOf(OPERATOR)' = [AccountOf(OPERATOR) EXCEPT !.stake_shares = @ + operator]
  /\ AccountOf(DEVELOPERS)' = [AccountOf(DEVELOPERS) EXCEPT !.stake_shares = @ + developers]
  /\ \A k \in Named \ {id, TREASURY, OPERATOR, DEVELOPERS} : AccountOf(k)' = AccountOf(k)
  /\ sold <= AccountOf(id).stake_shares /\ treasury + operator + developers <= sold
  /\ near <= nslp_account.available /\ near <= total_available
  /\ total_available' = total_available - near
  /\ UNCHANGED <<stakeVars, claimVars>>

(* A sale saves this.                                                      *)
LEMMA SaleComputes ==
  ASSUME IInv, NEW id \in Users, NEW requested \in Requests, NEW min,
         LiquidUnstake(id, requested, min)
  PROVE  /\ id \notin FeeAccounts
         /\ \E sold, near, treasury, operator, developers \in Nat :
              SaleSaved(id, sold, near, treasury, operator, developers)
<1> DEFINE owned == AccountOf(id).stake_shares
           sold  == IF is_close(requested, owned) THEN owned ELSE requested
           quote == Quote(sold)
           cuts  == quote.treasury + quote.operator + quote.developers
           near  == AccountOf(id).available + quote.near
           taken == Taken(id, near, quote.near)
           Cut(k) == CASE k = TREASURY -> quote.treasury
                       [] k = OPERATOR -> quote.operator
                       [] OTHER        -> quote.developers
<1>1. AccountsOK /\ StakeOK
  BY IInvParts
<1>2. /\ id \in DOMAIN accounts /\ sold <= owned /\ quote.near <= nslp_account.available
      /\ id \notin FeeAccounts /\ sold >= cuts /\ taken <= total_available
      /\ accounts' = [k \in DOMAIN accounts \cup FeeAccounts \cup {NSLP} |->
           IF k = id
           THEN [accounts[id] EXCEPT !.available = near - taken, !.stake_shares = @ - sold]
           ELSE IF k = NSLP
           THEN [nslp_account EXCEPT !.available = @ - quote.near,
                                     !.stake_shares = @ + (sold - cuts)]
           ELSE IF k \in FeeAccounts
           THEN [AccountOf(k) EXCEPT !.stake_shares = @ + Cut(k)]
           ELSE accounts[k]]
      /\ total_available' = total_available - taken
      /\ UNCHANGED <<stakeVars, claimVars>>
  BY DEF LiquidUnstake, MaySell, CanTake
<1>3. PICK before \in Account : before = accounts[id] /\ before.available = 0
                                 /\ before = AccountOf(id)
  BY <1>1, <1>2, AccountOfType, Ids
<1>4. sold \in Nat
  BY <1>3, AmountsAssumption DEF Account
<1>5. /\ quote.near \in Nat /\ quote.treasury \in Nat
      /\ quote.operator \in Nat /\ quote.developers \in Nat
  BY <1>1, <1>4, QuoteType
<1>6. near = quote.near /\ taken = quote.near
  BY <1>3, <1>5, TakesAll
<1>7. /\ TREASURY \in FeeAccounts /\ OPERATOR \in FeeAccounts /\ DEVELOPERS \in FeeAccounts
      /\ NSLP \notin FeeAccounts /\ id # NSLP /\ NSLP \notin Named
      /\ OPERATOR # TREASURY /\ OPERATOR # DEVELOPERS /\ TREASURY # DEVELOPERS
  BY FeeAccountsDiffer, IdsAssumption, Ids DEF FeeAccounts, Named
<1>8. /\ Cut(TREASURY) = quote.treasury /\ Cut(OPERATOR) = quote.operator
      /\ Cut(DEVELOPERS) = quote.developers
  BY <1>7
<1> HIDE DEF owned, sold, quote, near, taken, Cut
<1>9. AccountOf(id)' = [AccountOf(id) EXCEPT !.stake_shares = @ - sold]
  <2>1. near - taken = 0
    BY <1>5, <1>6
  <2>2. AccountOf(id)' = [before EXCEPT !.available = 0, !.stake_shares = @ - sold]
    BY <1>2, <1>3, <2>1 DEF AccountOf
  <2> QED
    BY <1>3, <2>2 DEF Account
<1>10. nslp_account' = [nslp_account EXCEPT !.available = @ - quote.near,
                                            !.stake_shares = @ + (sold - cuts)]
  <2> HIDE DEF cuts
  <2> QED
    BY <1>2, <1>7 DEF nslp_account, AccountOf
<1>11. \A k \in FeeAccounts :
         AccountOf(k)' = [AccountOf(k) EXCEPT !.stake_shares = @ + Cut(k)]
  BY <1>2, <1>7 DEF AccountOf
<1>12. \A k \in Named \ {id, TREASURY, OPERATOR, DEVELOPERS} : AccountOf(k)' = AccountOf(k)
  BY <1>2, <1>7 DEF AccountOf, FeeAccounts
<1>13. SaleSaved(id, sold, quote.near, quote.treasury, quote.operator, quote.developers)
  BY <1>2, <1>6, <1>7, <1>8, <1>9, <1>10, <1>11, <1>12 DEF SaleSaved, owned
<1> QED
  BY <1>2, <1>4, <1>5, <1>13

(* A sale keeps the sums.                                                  *)
LEMMA LiquidUnstakeSums ==
  ASSUME IInv, IInv', SumsMatch, NEW id \in Users, NEW requested \in Requests, NEW min,
         LiquidUnstake(id, requested, min)
  PROVE  SumsMatch'
<1>1. id \notin FeeAccounts
  BY SaleComputes
<1>2. PICK sold, near, treasury, operator, developers \in Nat :
        SaleSaved(id, sold, near, treasury, operator, developers)
  BY SaleComputes
<1>3. AccountsOK /\ TotalsOK /\ StakeOK /\ AccountsOK'
  BY IInvParts, IInvPartsNext
<1>4. /\ id \in Named /\ TREASURY \in Named /\ OPERATOR \in Named /\ DEVELOPERS \in Named
      /\ id # TREASURY /\ id # OPERATOR /\ id # DEVELOPERS
      /\ OPERATOR # TREASURY /\ OPERATOR # DEVELOPERS /\ TREASURY # DEVELOPERS
  BY <1>1, FeeAccountsDiffer DEF FeeAccounts, Named
<1>5. PICK a, b, c, d, pool \in Account :
        /\ a = AccountOf(id) /\ b = AccountOf(TREASURY) /\ c = AccountOf(OPERATOR)
        /\ d = AccountOf(DEVELOPERS) /\ pool = nslp_account
  BY <1>3, AccountOfType, NslpType
<1>6. /\ AccountOf(id)' = [a EXCEPT !.stake_shares = @ - sold]
      /\ AccountOf(TREASURY)' = [b EXCEPT !.stake_shares = @ + treasury]
      /\ AccountOf(OPERATOR)' = [c EXCEPT !.stake_shares = @ + operator]
      /\ AccountOf(DEVELOPERS)' = [d EXCEPT !.stake_shares = @ + developers]
      /\ nslp_account' = [pool EXCEPT !.available = @ - near,
                            !.stake_shares = @ + (sold - (treasury + operator + developers))]
      /\ \A k \in Named \ {id, TREASURY, OPERATOR, DEVELOPERS} : AccountOf(k)' = AccountOf(k)
      /\ near <= pool.available /\ near <= total_available
      /\ total_available' = total_available - near
      /\ total_unstake_claims' = total_unstake_claims
      /\ total_stake_shares' = total_stake_shares
  BY <1>2, <1>5 DEF SaleSaved, stakeVars, claimVars
<1>7. OnlyStakeMoves
  <2>1. nslp_account'.unstaked = pool.unstaked /\ nslp_account'.nslp_shares = pool.nslp_shares
          /\ nslp_account'.available = pool.available - near
    BY <1>6 DEF Account
  <2>2. total_available' + pool.available = total_available + (pool.available - near)
    BY <1>3, <1>6 DEF TotalsOK, Account
  <2>3. \A k \in Named : /\ AccountOf(k)'.available = AccountOf(k).available
                         /\ AccountOf(k)'.unstaked = AccountOf(k).unstaked
                         /\ AccountOf(k)'.nslp_shares = AccountOf(k).nslp_shares
    BY <1>5, <1>6 DEF Account
  <2> QED
    BY <1>5, <1>6, <2>1, <2>2, <2>3 DEF OnlyStakeMoves
<1>8. total_stake_shares' = SumOf(StakeBalances') + nslp_account'.stake_shares
  <2>1. PICK f, g \in [Named -> Nat] : f = StakeBalances /\ g = StakeBalances'
    BY <1>3, BalancesType, BalancesTypeNext
  <2>2. \A k \in Named \ {id, TREASURY, OPERATOR, DEVELOPERS} : g[k] = f[k]
    BY <1>6, <2>1 DEF StakeBalances
  <2>3. /\ SumOf(f) \in Nat /\ SumOf(g) \in Nat
        /\ SumOf(g) + (f[id] + f[TREASURY] + f[OPERATOR] + f[DEVELOPERS])
             = SumOf(f) + (g[id] + g[TREASURY] + g[OPERATOR] + g[DEVELOPERS])
    BY <1>4, <2>2, FourBalances
  <2>4. /\ f[id] = a.stake_shares /\ f[TREASURY] = b.stake_shares
        /\ f[OPERATOR] = c.stake_shares /\ f[DEVELOPERS] = d.stake_shares
    BY <1>4, <1>5, <2>1 DEF StakeBalances
  <2>5. /\ g[id] = a.stake_shares - sold /\ g[TREASURY] = b.stake_shares + treasury
        /\ g[OPERATOR] = c.stake_shares + operator
        /\ g[DEVELOPERS] = d.stake_shares + developers
    BY <1>4, <1>6, <2>1 DEF StakeBalances, Account
  <2>6. nslp_account'.stake_shares
          = pool.stake_shares + (sold - (treasury + operator + developers))
    BY <1>6 DEF Account
  <2>7. total_stake_shares = SumOf(f) + pool.stake_shares
    BY <1>5, <2>1 DEF SumsMatch
  <2>8. PICK s, t, p, w, x, y, z \in Nat :
          /\ s = SumOf(f) /\ t = SumOf(g) /\ p = pool.stake_shares
          /\ w = a.stake_shares /\ x = b.stake_shares /\ y = c.stake_shares
          /\ z = d.stake_shares
    BY <2>3 DEF Account
  <2>9. t + (w + x + y + z)
          = s + ((w - sold) + (x + treasury) + (y + operator) + (z + developers))
    BY <2>3, <2>4, <2>5, <2>8
  <2>10. s + p = t + (p + (sold - (treasury + operator + developers)))
    BY <2>9
  <2> QED
    BY <1>6, <2>1, <2>6, <2>7, <2>8, <2>10
<1> QED
  BY <1>7, <1>8, StakeAlone

-----------------------------------------------------------------------------
(* The specification.                                                      *)

(* Unstaking for an amount,                                                *)
LEMMA UnstakeSums ==
  ASSUME IInv, IInv', SumsMatch, NEW id \in Users \cup Lockups, NEW requested \in Requests,
         Unstake(id, requested)
  PROVE  SumsMatch'
<1>1. AccountOf(id).stake_shares \in Nat
  BY IInvParts, AccountOfType DEF Account
<1>2. stake_shares_from_amount(requested) \in Nat
  BY IInvParts, AmountsAssumption, SharesBought DEF StakeOK, stake_shares_from_amount
<1> QED
  BY <1>1, <1>2, UnstakeSharesSums DEF Unstake

(* unstaking everything,                                                   *)
LEMMA UnstakeAllSums ==
  ASSUME IInv, IInv', SumsMatch, NEW id \in Users \cup Lockups, UnstakeAll(id)
  PROVE  SumsMatch'
<1>1. AccountOf(id).stake_shares \in Nat
  BY IInvParts, AccountOfType DEF Account
<1> QED
  BY <1>1, UnstakeSharesSums DEF UnstakeAll

(* and withdrawing everything.                                             *)
LEMMA WithdrawAllSums ==
  ASSUME IInv, IInv', SumsMatch, NEW id \in Users \cup Lockups, WithdrawAll(id)
  PROVE  SumsMatch'
<1>1. AccountOf(id).unstaked \in Nat
  BY IInvParts, AccountOfType DEF Account
<1> QED
  BY <1>1, WithdrawSums DEF WithdrawAll

(* A new contract has nothing to sum.                                      *)
LEMMA InitSums ==
  ASSUME NEW ids \in SUBSET Named, InitWith(ids)
  PROVE  SumsMatch /\ CallsDiffer
<1>1. \A k : AccountOf(k) = NoAccount
  BY DEF InitWith, AccountOf
<1>2. \A k \in Named : /\ StakeBalances[k] = 0 /\ AvailableBalances[k] = 0
                       /\ UnstakedBalances[k] = 0 /\ NslpBalances[k] = 0
  BY <1>1 DEF StakeBalances, AvailableBalances, UnstakedBalances, NslpBalances, NoAccount
<1>3. AccountsOK
  BY InitSafe, IInvParts
<1>4. /\ SumOf(StakeBalances) = 0 /\ SumOf(AvailableBalances) = 0
      /\ SumOf(UnstakedBalances) = 0 /\ SumOf(NslpBalances) = 0
  BY <1>2, <1>3, BalancesType, SumZero
<1>5. /\ nslp_account.stake_shares = 0 /\ nslp_account.available = 0
      /\ nslp_account.unstaked = 0 /\ nslp_account.nslp_shares = 0
  BY <1>1 DEF nslp_account, NoAccount
<1>6. /\ total_stake_shares = 0 /\ total_available = 0 /\ total_unstake_claims = 0
      /\ resolving = {}
  BY DEF InitWith
<1> QED
  BY <1>4, <1>5, <1>6 DEF SumsMatch, CallsDiffer

(* Every step keeps the sums.                                              *)
LEMMA StepSums ==
  ASSUME IInv, SumsMatch, CallsDiffer, [Next]_vars
  PROVE  SumsMatch' /\ CallsDiffer'
<1> SUFFICES SumsMatch'
  BY CallsStayDifferent
<1>0. IInv'
  BY StepSafe
<1>1. CASE StakingCalls
  <2>1. PICK id \in Users :
          \/ \E a \in Deposits : DepositAndStake(id, a)
          \/ \E a \in Requests : Unstake(id, a) \/ Withdraw(id, a)
          \/ UnstakeAll(id) \/ WithdrawAll(id)
    BY <1>1 DEF StakingCalls
  <2>2. CASE \E a \in Deposits : DepositAndStake(id, a)
    BY <1>0, <2>2, DepositAndStakeSums
  <2>3. CASE \E a \in Requests : Unstake(id, a)
    BY <1>0, <2>3, UnstakeSums
  <2>4. CASE \E a \in Requests : Withdraw(id, a)
    BY <1>0, <2>4, WithdrawSums, AmountsAssumption
  <2>5. CASE UnstakeAll(id)
    BY <1>0, <2>5, UnstakeAllSums
  <2>6. CASE WithdrawAll(id)
    BY <1>0, <2>6, WithdrawAllSums
  <2> QED
    BY <2>1, <2>2, <2>3, <2>4, <2>5, <2>6
<1>2. CASE LockupCalls
  <2>1. PICK id \in Lockups :
          \/ \E a \in Deposits : DepositAndStake(id, a)
          \/ \E a \in Requests : UnstakeFromLockupShares(id, a) \/ Withdraw(id, a)
    BY <1>2 DEF LockupCalls
  <2>2. CASE \E a \in Deposits : DepositAndStake(id, a)
    BY <1>0, <2>2, DepositAndStakeSums
  <2>3. CASE \E a \in Requests : UnstakeFromLockupShares(id, a)
    BY <1>0, <2>3, UnstakeSharesSums, AmountsAssumption DEF UnstakeFromLockupShares
  <2>4. CASE \E a \in Requests : Withdraw(id, a)
    BY <1>0, <2>4, WithdrawSums, AmountsAssumption
  <2> QED
    BY <2>1, <2>2, <2>3, <2>4
<1>3. CASE LiquidityCalls
  <2>1. CASE \E id \in Users : \E a \in Deposits : AddLiquidity(id, a)
    BY <1>0, <2>1, AddLiquiditySums
  <2>2. CASE \E id \in Users : \E a \in Requests, min \in {0} \cup Requests :
               LiquidUnstake(id, a, min)
    BY <1>0, <2>2, LiquidUnstakeSums
  <2>3. CASE \E id \in Users : \E a \in Requests : RemoveLiquidity(id, a)
    BY <1>0, <2>3, RemoveLiquiditySums
  <2>4. CASE \E a \in Requests : StakeFromNslp(a)
    BY <1>0, <2>4, StakeFromNslpSums
  <2> QED
    BY <1>3, <2>1, <2>2, <2>3, <2>4 DEF LiquidityCalls
<1>4. CASE TokenCalls
  <2>1. CASE \E sender \in Users, receiver \in Named, a \in Requests :
               ft_transfer(sender, receiver, a)
    BY <1>0, <2>1, TransferSums, AmountsAssumption DEF ft_transfer
  <2>2. CASE \E sender \in Users, receiver \in Named, a \in Requests :
               ft_transfer_call(sender, receiver, a)
    BY <1>0, <2>2, TransferSums, AmountsAssumption DEF ft_transfer_call
  <2>3. CASE \E call \in resolving : \E unused \in 0..call.amount :
               ft_resolve_transfer(call, unused)
    BY <1>0, <2>3, ResolveTransferSums
  <2> QED
    BY <1>4, <2>1, <2>2, <2>3 DEF TokenCalls
<1>5. CASE StorageCalls
  BY <1>0, <1>5, StorageDepositSums, StorageUnregisterSums DEF StorageCalls
<1>6. CASE HeartbeatCalls
  <2>1. CASE AskRewards
    BY <2>1, NothingMoves DEF AskRewards, claimVars, stakeVars, nearVars
  <2>2. CASE \E r \in RewardAmounts : DistributeRewards(r)
    BY <1>0, <2>2, DistributeRewardsSums
  <2>3. CASE \E r \in 0..MAX_SUPPLY : Cycle(r)
    BY <2>3, NothingMoves DEF Cycle, stakeVars
  <2> QED
    BY <1>6, <2>1, <2>2, <2>3 DEF HeartbeatCalls
<1>7. CASE UNCHANGED vars
  BY <1>7, NothingMoves DEF vars, claimVars, stakeVars, nearVars
<1> QED
  BY <1>1, <1>2, <1>3, <1>4, <1>5, <1>6, <1>7 DEF Next

(* The totals of the contract, which it adds to and subtracts from and     *)
(* never recomputes, are the sums over its accounts in every state, for    *)
(* any accounts and amounts (lib.rs:129, account.rs, internal.rs).         *)
THEOREM SumsAlwaysMatch == Spec => []SumsMatch
<1> DEFINE Inv == IInv /\ SumsMatch /\ CallsDiffer
<1>1. Init => Inv
  <2>1. {} \in SUBSET Named
    OBVIOUS
  <2> QED
    BY <2>1, InitSafe, InitSums DEF Init
<1>2. Inv /\ [Next]_vars => Inv'
  BY StepSafe, StepSums
<1>3. Inv => SumsMatch
  OBVIOUS
<1> QED
  BY <1>1, <1>2, <1>3, PTL DEF Spec

-----------------------------------------------------------------------------
(* What the shares of the liquidity pool are worth.                        *)

(* stNEAR the liquidity pool keeps is worth no less at a price that has    *)
(* not fallen.                                                             *)
LEMMA WorthKept ==
  ASSUME NEW T \in Nat, NEW S \in Nat, NEW T1 \in Nat, NEW S1 \in Nat, NEW s \in Nat,
         s <= S, s <= S1, S > 0 => T1 * S >= T * S1
  PROVE  amount_from_shares(s, T, S) <= amount_from_shares(s, T1, S1)
<1>0. /\ amount_from_shares(s, T, S) \in Nat /\ amount_from_shares(s, T1, S1) \in Nat
      /\ S * amount_from_shares(s, T, S) <= s * T
      /\ S1 > 0 => s * T1 < S1 * amount_from_shares(s, T1, S1) + S1
  BY SharesSold
<1>1. PICK a \in Nat, b \in Nat :
         /\ a = amount_from_shares(s, T, S) /\ b = amount_from_shares(s, T1, S1)
         /\ S * a <= s * T /\ (S1 > 0 => s * T1 < S1 * b + S1)
  BY <1>0
<1>2. CASE s = 0
  BY <1>1, <1>2 DEF amount_from_shares
<1>3. CASE s > 0
  <2>1. 0 < S /\ 0 < S1 /\ T1 * S >= T * S1
    BY <1>3
  <2>2. S * a <= T * s /\ T1 * s < S1 * b + S1
    BY <1>1, <2>1, Z3
  <2>3. a <= b
    BY <2>1, <2>2, WorthNoLess
  <2> QED
    BY <1>1, <2>3
<1> QED
  BY <1>2, <1>3

(* A clearing after a deposit pays for the stNEAR it takes.                *)
LEMMA ClearingPays ==
  ASSUME NEW T \in Nat, NEW S \in Nat, S <= T, NEW s \in Nat, s <= S,
         NEW amount \in Nat, NEW m \in Nat, m = shares_from_amount(amount, T, S),
         NEW sold \in Nat, NEW near \in Nat,
         sold = Clearing(s, amount, T + amount, S + m).sold,
         near = Clearing(s, amount, T + amount, S + m).near,
         sold <= s
  PROVE  amount_from_shares(s, T, S)
           <= near + amount_from_shares(s - sold, T + amount - near, S + m - sold)
<1> DEFINE valued == amount_from_shares(s, T + amount, S + m)
           before == amount_from_shares(s, T, S)
           left   == amount_from_shares(s - sold, T + amount - near, S + m - sold)
<1>1. before \in Nat /\ S * before <= s * T
  BY SharesSold
<1>2. CASE s = 0
  <2>1. before = 0 /\ near = 0 /\ left = 0 /\ sold = 0
    BY <1>2 DEF Clearing, amount_from_shares
  <2> QED
    BY <2>1
<1>3. CASE s > 0
  <2>1. S > 0 /\ T > 0
    BY <1>3
  <2>2. T * m <= amount * S
    BY <2>1, SharesBought
  <2>3. CASE amount >= valued
    <3>1. sold = s /\ near = valued
      BY <1>3, <2>3 DEF Clearing
    <3>2. (T + amount) * S >= T * (S + m)
      BY <2>2, MintKeepsPrice
    <3>3. T + amount \in Nat /\ S + m \in Nat /\ s <= S + m
      OBVIOUS
    <3>4. before <= valued
      BY <3>2, <3>3, WorthKept
    <3>5. left = 0
      BY <3>1 DEF amount_from_shares
    <3> HIDE DEF before, valued, left
    <3> QED
      BY <1>1, <3>1, <3>4, <3>5 DEF before, left
  <2>4. CASE ~(amount >= valued)
    <3>1. shares_from_amount(amount, T + amount, S + m) = m
      BY <2>1, BuysWhatItMinted
    <3>2. sold = m /\ near = amount
      BY <1>3, <2>4, <3>1 DEF Clearing
    <3>3. T + amount - near = T /\ S + m - sold = S
      BY <3>2
    <3>4. PICK n \in Nat : n = s - sold
      OBVIOUS
    <3>5. PICK c \in Nat : c = amount_from_shares(n, T, S) /\ n * T < S * c + S
      <4>1. /\ amount_from_shares(n, T, S) \in Nat
            /\ n * T < S * amount_from_shares(n, T, S) + S
        BY <2>1, SharesSold
      <4> QED
        BY <4>1
    <3>6. PICK a \in Nat : a = before
      BY <1>1
    <3>7. n + m = s
      BY <3>2, <3>4
    <3>8. S * a <= T * (n + m) /\ T * m <= S * amount /\ T * n < S * c + S
      BY <1>1, <2>2, <3>5, <3>6, <3>7, Z3
    <3>9. a <= c + amount
      BY <2>1, <3>8, WorthApart
    <3>10. left = c
      BY <3>3, <3>4, <3>5
    <3> HIDE DEF before, left
    <3> QED
      BY <3>2, <3>6, <3>9, <3>10 DEF before, left
  <2> QED
    BY <2>3, <2>4
<1> QED
  BY <1>2, <1>3

(* What the liquidity pool pays for stNEAR is no more than the stNEAR is   *)
(* worth that is left of it after the cuts.                                *)
LEMMA SalePays ==
  ASSUME NEW T \in Nat, NEW S \in Nat, S > 0, S <= T, NEW s \in Nat,
         NEW sold \in Nat, NEW out \in Nat, out = amount_from_shares(sold, T, S),
         NEW fee \in Nat, fee <= out,
         NEW fee_shares \in Nat, fee_shares = shares_from_amount(fee, T, S),
         NEW cuts \in Nat, cuts < fee_shares, cuts <= sold
  PROVE  (out - fee) + amount_from_shares(s, T, S) <= amount_from_shares(s + (sold - cuts), T, S)
<1>1. PICK n \in Nat, near \in Nat : n = sold - cuts /\ near = out - fee
  <2>1. sold - cuts \in Nat
    OBVIOUS
  <2>2. out - fee \in Nat
    <3>1. PICK o \in Nat : o = out
      OBVIOUS
    <3>2. o - fee \in Nat
      BY <3>1
    <3> QED
      BY <3>1, <3>2
  <2> QED
    BY <2>1, <2>2
<1>2. S * out <= sold * T /\ T * fee_shares <= fee * S
  BY SharesSold, SharesBought
<1>3. PICK a \in Nat : a = amount_from_shares(s, T, S) /\ S * a <= s * T
  <2>1. amount_from_shares(s, T, S) \in Nat /\ S * amount_from_shares(s, T, S) <= s * T
    BY SharesSold
  <2> QED
    BY <2>1
<1>4. PICK c \in Nat : c = amount_from_shares(s + n, T, S) /\ (s + n) * T < S * c + S
  <2>1. PICK k \in Nat : k = s + n
    OBVIOUS
  <2>2. amount_from_shares(k, T, S) \in Nat /\ k * T < S * amount_from_shares(k, T, S) + S
    BY SharesSold
  <2> QED
    BY <2>1, <2>2
<1>5. S * near <= T * n
  <2>1. near + fee = out /\ n + cuts = sold
    BY <1>1
  <2>2. T * cuts <= T * fee_shares
    BY Z3
  <2>3. S * near + S * fee = S * out /\ T * n + T * cuts = T * sold
    BY <2>1, Z3
  <2> QED
    BY <1>2, <2>2, <2>3, Z3
<1>6. S * a <= T * s /\ T * (s + n) < S * c + S
  BY <1>3, <1>4, Z3
<1>7. a + near <= c
  BY <1>5, <1>6, WorthTogether
<1> QED
  BY <1>1, <1>3, <1>4, <1>7

(* Who adds to the pool gets no more shares than the amount is worth.      *)
LEMMA JoiningIsFair ==
  ASSUME NEW P \in Nat, NEW N \in Nat, N = 0 => P = 0, NEW a \in Nat,
         NEW m \in Nat, m = shares_from_amount(a, P, N)
  PROVE  (P + a + 1) * N >= P * (N + m - 1)
<1>1. N > 0 => P * m <= a * N
  BY SharesBought
<1>2. CASE N = 0
  <2>1. P = 0
    BY <1>2
  <2> QED
    BY <1>2, <2>1, Z3
<1>3. CASE N > 0
  <2>1. P * m <= a * N
    BY <1>1, <1>3
  <2>2. P * (N + m - 1) = P * N + P * m - P /\ (P + a + 1) * N = P * N + a * N + N
    BY Z3
  <2>3. P * N \in Nat /\ P * m \in Nat /\ a * N \in Nat
    BY Z3
  <2> QED
    BY <2>1, <2>2, <2>3, Z3
<1> QED
  BY <1>2, <1>3
\* Of a pool worth P with N shares, who has some owned takes a value out.
Burns(P, N, owned, requested, value, burned) ==
  /\ N > 0 /\ owned <= N /\ burned > 0
  /\ \/ value = amount_from_shares(owned, P, N) /\ burned = owned
     \/ /\ requested <= amount_from_shares(owned, P, N)
        /\ value = requested /\ burned = shares_from_amount(requested, P, N)

(* Who takes value out of the pool burns at least as many shares, less a   *)
(* fraction of one, as it is worth; all shares are worth all of it.        *)
LEMMA RemovalBurns ==
  ASSUME NEW P \in Nat, NEW N \in Nat, NEW owned \in Nat, NEW requested \in Nat,
         NEW value \in Nat, NEW burned \in Nat,
         Burns(P, N, owned, requested, value, burned)
  PROVE  /\ value * N <= P * (burned + 1)
         /\ burned = N => value = P
<1> USE DEF Burns
<1>1. PICK valued \in Nat : valued = amount_from_shares(owned, P, N)
  <2>1. amount_from_shares(owned, P, N) \in Nat
    BY SharesSold
  <2> QED
    BY <2>1
<1>2. N * valued <= owned * P /\ valued <= P /\ owned * P < N * valued + N
  BY <1>1, SharesSold
<1>3. CASE value = valued /\ burned = owned
  <2>1. N * value <= burned * P /\ burned * P < N * value + N
    BY <1>2, <1>3
  <2>2. value * N <= P * (burned + 1)
    BY <2>1, Z3
  <2>3. ASSUME burned = N PROVE value = P
    <3>1. N * P < N * (value + 1)
      BY <2>1, <2>3, Z3
    <3>2. P < value + 1
      BY <3>1, Z3
    <3> QED
      BY <1>2, <1>3, <3>2
  <2> QED
    BY <2>2, <2>3
<1>4. CASE requested <= valued /\ value = requested
             /\ burned = shares_from_amount(requested, P, N)
  <2>1. P > 0
    BY <1>4 DEF shares_from_amount
  <2>2. P * burned <= value * N /\ value * N < P * burned + P
    BY <1>4, <2>1, SharesBought
  <2>3. value * N <= P * (burned + 1)
    BY <2>2, Z3
  <2>4. ASSUME burned = N PROVE value = P
    <3>1. P * N <= value * N
      BY <2>2, <2>4
    <3>2. P <= value
      BY <3>1, Z3
    <3> QED
      BY <1>2, <1>4, <3>2
  <2> QED
    BY <2>3, <2>4
<1> QED
  BY <1>1, <1>3, <1>4

\* A pool with NEAR A and stNEAR s, worth P, pays a value, st of it in stNEAR
\* worth stv, for enough of its N shares, and is then worth Q.
Leaves(T, S, A, s, P, value, st, stv, Q, N, burned) ==
  /\ s <= S /\ P = A + amount_from_shares(s, T, S)
  /\ st <= s /\ stv = amount_from_shares(st, T, S)
  /\ stv <= value /\ value - stv <= A
  /\ Q = A - (value - stv) + amount_from_shares(s - st, T, S)
  /\ burned <= N /\ value * N <= P * (burned + 1)

(* Those who stay lose no more than a yocto by what another takes out.     *)
LEMMA LeavingIsFair ==
  ASSUME NEW T \in Nat, NEW S \in Nat, NEW A \in Nat, NEW s \in Nat, NEW P \in Nat,
         NEW value \in Nat, NEW st \in Nat, NEW stv \in Nat, NEW Q \in Nat,
         NEW N \in Nat, NEW burned \in Nat,
         Leaves(T, S, A, s, P, value, st, stv, Q, N, burned)
  PROVE  (Q + 1) * N >= P * (N - burned - 1)
<1> USE DEF Leaves
<1>1. PICK n \in Nat : n = s - st
  OBVIOUS
<1>2. /\ amount_from_shares(s, T, S) \in Nat /\ amount_from_shares(n, T, S) \in Nat
      /\ S * amount_from_shares(s, T, S) <= s * T
      /\ S > 0 => n * T < S * amount_from_shares(n, T, S) + S
      /\ S > 0 => st * T < S * amount_from_shares(st, T, S) + S
  BY SharesSold
<1>3. PICK a \in Nat, c \in Nat :
         /\ a = amount_from_shares(s, T, S) /\ c = amount_from_shares(n, T, S)
  BY <1>2
<1>4. a <= c + stv + 1
  <2>1. CASE S = 0
    <3>1. a = 0
      BY <1>3, <2>1 DEF amount_from_shares
    <3> QED
      BY <3>1
  <2>2. CASE S > 0
    <3>1. n + st = s
      BY <1>1
    <3>2. S * a <= T * (n + st) /\ T * st <= S * (stv + 1) /\ T * n < S * c + S
      BY <1>2, <1>3, <2>2, <3>1, Z3
    <3>3. stv + 1 \in Nat
      OBVIOUS
    <3> QED
      BY <2>2, <3>2, <3>3, WorthApart
  <2> QED
    BY <2>1, <2>2
<1>5. P <= Q + 1 + value
  BY <1>1, <1>3, <1>4
<1>6. P * N <= (Q + 1 + value) * N
  BY <1>5, Z3
<1>7. P * N <= (Q + 1) * N + P * (burned + 1)
  BY <1>6, Z3
<1> QED
  BY <1>7, Z3

(* Who owns all of the pool's shares takes everything out.                 *)
LEMMA LastLeaves ==
  ASSUME NEW s \in Nat, NEW N \in Nat, N > 0
  PROVE  proportional(s, N, N) = s
<1>1. PICK q \in Nat : q = proportional(s, N, N) /\ N * q <= s * N /\ s * N < N * q + N
  <2>1. /\ proportional(s, N, N) \in Nat /\ N * proportional(s, N, N) <= s * N
        /\ s * N < N * proportional(s, N, N) + N
    BY ProportionalFloor
  <2> QED
    BY <2>1
<1>2. N * q <= N * s /\ N * s < N * (q + 1)
  BY <1>1, Z3
<1>3. q <= s /\ s < q + 1
  BY <1>2, Z3
<1> QED
  BY <1>1, <1>3

-----------------------------------------------------------------------------
(* The pool before and after a call.                                       *)

\* The liquidity pool has NEAR A, stNEAR s and shares N, when the stNEAR S is
\* worth T.
PoolHas(A, s, N, T, S) ==
  /\ A = nslp_account.available /\ s = nslp_account.stake_shares
  /\ N = nslp_account.nslp_shares
  /\ T = total_for_staking /\ S = total_stake_shares
  /\ s <= S /\ S <= T
  /\ total_pool_value = A + amount_from_shares(s, T, S)

LEMMA PoolNow ==
  IInv /\ SumsMatch => \E A, s, N, T, S \in Nat : PoolHas(A, s, N, T, S)
<1> SUFFICES ASSUME IInv, SumsMatch
             PROVE  \E A, s, N, T, S \in Nat : PoolHas(A, s, N, T, S)
  OBVIOUS
<1>1. AccountsOK /\ StakeOK
  BY IInvParts
<1>2. nslp_account \in Account
  BY <1>1, NslpType
<1>3. SumOf(StakeBalances) \in Nat
  BY <1>1, BalancesType, NamedFinite, SumNat
<1>4. PICK A, s, N, T, S \in Nat :
         /\ A = nslp_account.available /\ s = nslp_account.stake_shares
         /\ N = nslp_account.nslp_shares
         /\ T = total_for_staking /\ S = total_stake_shares
  BY <1>1, <1>2 DEF Account, StakeOK
<1>5. s <= S
  BY <1>3, <1>4 DEF SumsMatch
<1>6. S <= T
  BY <1>1, <1>4 DEF StakeOK, PriceAtLeastOne
<1>7. total_pool_value = A + amount_from_shares(s, T, S)
  BY <1>4 DEF total_pool_value, amount_from_stake_shares
<1> QED
  BY <1>4, <1>5, <1>6, <1>7 DEF PoolHas

LEMMA PoolNext ==
  (IInv /\ SumsMatch => \E A, s, N, T, S \in Nat : PoolHas(A, s, N, T, S))'
  BY PoolNow, PTL

\* Nobody's liquidity is worth nothing.
PoolOwned ==
  nslp_account.nslp_shares = 0 =>
    nslp_account.available = 0 /\ nslp_account.stake_shares = 0

\* No liquidity joins or leaves, and the pool is worth no less than before.
ValueKept ==
  /\ nslp_account'.nslp_shares = nslp_account.nslp_shares
  /\ total_pool_value' >= total_pool_value

\* Liquidity joins or leaves, and a share is worth as much but for rounding.
ShareKept ==
  /\ nslp_account'.nslp_shares # nslp_account.nslp_shares
  /\ (total_pool_value' + 1) * nslp_account.nslp_shares
       >= total_pool_value * (nslp_account'.nslp_shares - 1)

LiquidityKept == PoolOwned' /\ (ValueKept \/ ShareKept)

(* A call that leaves the pool alone, at a price that does not fall.       *)
LEMMA PoolLeftAlone ==
  ASSUME IInv, IInv', SumsMatch, SumsMatch', PoolOwned, PriceKept,
         nslp_account' = nslp_account
  PROVE  LiquidityKept
<1>1. PICK A, s, N, T, S \in Nat : PoolHas(A, s, N, T, S)
  BY PoolNow
<1>2. PICK A1, s1, N1, T1, S1 \in Nat : PoolHas(A1, s1, N1, T1, S1)'
  BY PoolNext
<1>3. A1 = A /\ s1 = s /\ N1 = N
  BY <1>1, <1>2 DEF PoolHas
<1>4. s <= S /\ s <= S1 /\ (S > 0 => T1 * S >= T * S1)
  BY <1>1, <1>2, <1>3 DEF PoolHas, PriceKept
<1>5. amount_from_shares(s, T, S) <= amount_from_shares(s, T1, S1)
  BY <1>4, WorthKept
<1>6. amount_from_shares(s, T, S) \in Nat /\ amount_from_shares(s, T1, S1) \in Nat
  BY SharesSold
<1>7. total_pool_value' >= total_pool_value
  BY <1>1, <1>2, <1>3, <1>5, <1>6 DEF PoolHas
<1>8. PoolOwned'
  BY DEF PoolOwned
<1> QED
  BY <1>7, <1>8 DEF LiquidityKept, ValueKept
-----------------------------------------------------------------------------
(* What each call does to the liquidity pool.                              *)

(* A deposit and its clearing.                                             *)
LEMMA DepositAndStakeLiquidity ==
  ASSUME IInv, IInv', SumsMatch, SumsMatch', PoolOwned,
         NEW id \in Users \cup Lockups, NEW attached \in Deposits,
         DepositAndStake(id, attached)
  PROVE  LiquidityKept
<1>1. PICK A, s, N, T, S \in Nat : PoolHas(A, s, N, T, S)
  BY PoolNow
<1>2. PICK A1, s1, N1, T1, S1 \in Nat : PoolHas(A1, s1, N1, T1, S1)'
  BY PoolNext
<1>3. PICK amount, minted, shares, sold, near \in Nat :
         /\ StakedAndCleared(amount, minted, shares, sold, near)
         /\ DepositSaved(id, minted, shares, sold, near)
  BY DepositComputes
<1>4. /\ shares = s /\ sold <= s /\ minted = shares_from_amount(amount, T, S)
      /\ sold = Clearing(s, amount, T + amount, S + minted).sold
      /\ near = Clearing(s, amount, T + amount, S + minted).near
      /\ T1 = T + amount - near /\ S1 = S + minted - sold
  BY <1>1, <1>2, <1>3 DEF PoolHas, StakedAndCleared, DepositSaved, stake_shares_from_amount
<1>5. A1 = A + near /\ s1 = s - sold /\ N1 = N
  <2>1. nslp_account \in Account
    BY IInvParts, NslpType
  <2>2. nslp_account' = [nslp_account EXCEPT !.available = @ + near, !.stake_shares = @ - sold]
    BY <1>3 DEF DepositSaved
  <2> QED
    BY <1>1, <1>2, <2>1, <2>2 DEF PoolHas, Account
<1>6. s <= S /\ S <= T
  BY <1>1 DEF PoolHas
<1>7. amount_from_shares(s, T, S) <= near + amount_from_shares(s1, T1, S1)
  BY <1>4, <1>5, <1>6, ClearingPays
<1>8. amount_from_shares(s, T, S) \in Nat /\ amount_from_shares(s1, T1, S1) \in Nat
  BY SharesSold
<1>9. total_pool_value' >= total_pool_value
  BY <1>1, <1>2, <1>5, <1>7, <1>8 DEF PoolHas
<1>10. N1 = 0 => A1 = 0 /\ s1 = 0
  <2> SUFFICES ASSUME N1 = 0 PROVE A1 = 0 /\ s1 = 0
    OBVIOUS
  <2>1. A = 0 /\ s = 0
    BY <1>1, <1>5 DEF PoolHas, PoolOwned
  <2>2. near = 0 /\ sold = 0
    BY <1>4, <2>1 DEF Clearing
  <2> QED
    BY <1>5, <2>1, <2>2
<1> QED
  BY <1>1, <1>2, <1>5, <1>9, <1>10 DEF PoolHas, PoolOwned, LiquidityKept, ValueKept

(* A quote pays what the stNEAR is worth less a fee below that.            *)
LEMMA QuotePays ==
  ASSUME AccountsOK, StakeOK, NEW shares \in Nat
  PROVE  \E out, fee \in Nat :
            /\ out = amount_from_stake_shares(shares) /\ fee <= out
            /\ out > 0 => fee < out
            /\ Quote(shares).fee_shares = stake_shares_from_amount(fee)
            /\ Quote(shares).near = out - fee
<1> DEFINE worth    == amount_from_stake_shares(shares)
           discount == internal_get_discount_basis_points(nslp_account.available, worth)
<1>1. worth \in Nat
  BY StakeAmountType
<1>2. PICK a, out, bp \in Nat : a = nslp_account.available /\ out = worth
                                  /\ bp = discount /\ bp <= 9999
  <2>1. nslp_account.available \in Nat
    BY NslpType DEF Account
  <2>2. PICK a, out \in Nat : a = nslp_account.available /\ out = worth
    BY <1>1, <2>1
  <2>3. /\ internal_get_discount_basis_points(a, out) \in Nat
        /\ internal_get_discount_basis_points(a, out) <= 9999
    BY DiscountType
  <2>4. discount = internal_get_discount_basis_points(a, out)
    BY <2>2
  <2> HIDE DEF worth, discount
  <2> QED
    BY <2>2, <2>3, <2>4
<1> HIDE DEF worth, discount
<1>3. PICK fee \in Nat : fee = apply_pct(bp, out) /\ 10000 * fee <= bp * out
  <2>1. PICK product \in Nat : product = bp * out
    BY Z3
  <2>2. product \div 10000 \in Nat /\ 10000 * (product \div 10000) <= product
    BY Floor
  <2> QED
    BY <2>1, <2>2 DEF apply_pct
<1>4. fee <= out /\ (out > 0 => fee < out)
  <2>1. bp * out <= 9999 * out
    BY <1>2, Z3
  <2> QED
    BY <1>3, <2>1
<1>5. Quote(shares).near = worth - apply_pct(discount, worth)
      /\ Quote(shares).fee_shares = stake_shares_from_amount(apply_pct(discount, worth))
  BY DEF Quote, worth, discount
<1>6. out = amount_from_stake_shares(shares)
  BY <1>2 DEF worth
<1> QED
  BY <1>2, <1>3, <1>4, <1>5, <1>6

(* A sale of stNEAR to the pool.                                           *)
LEMMA SaleOfShares ==
  ASSUME IInv, NEW id \in Users, NEW requested \in Requests, NEW min,
         LiquidUnstake(id, requested, min)
  PROVE  \E sold, cuts, out, fee, near, fee_shares \in Nat :
            /\ sold <= AccountOf(id).stake_shares
            /\ out = amount_from_stake_shares(sold) /\ fee <= out
            /\ out > 0 => fee < out
            /\ fee_shares = stake_shares_from_amount(fee) /\ cuts < fee_shares
            /\ near = out - fee /\ cuts <= sold /\ near <= nslp_account.available
            /\ nslp_account' = [nslp_account EXCEPT !.available = @ - near,
                                                    !.stake_shares = @ + (sold - cuts)]
            /\ UNCHANGED stakeVars
<1> DEFINE owned == AccountOf(id).stake_shares
           sold  == IF is_close(requested, owned) THEN owned ELSE requested
           quote == Quote(sold)
           cuts  == quote.treasury + quote.operator + quote.developers
<1>1. AccountsOK /\ StakeOK
  BY IInvParts
<1>2. /\ sold <= owned /\ quote.near <= nslp_account.available
      /\ quote.fee_shares > cuts /\ sold >= cuts
      /\ UNCHANGED stakeVars
  BY DEF LiquidUnstake
<1>3. nslp_account' = [nslp_account EXCEPT !.available = @ - quote.near,
                                           !.stake_shares = @ + (sold - cuts)]
  <2>1. NSLP \notin FeeAccounts /\ id # NSLP
    BY IdsAssumption, Ids DEF Named
  <2> HIDE DEF sold, quote, cuts
  <2>2. NSLP \in DOMAIN accounts \cup FeeAccounts \cup {NSLP}
    OBVIOUS
  <2>3. \E f : /\ accounts' = [k \in DOMAIN accounts \cup FeeAccounts \cup {NSLP} |-> f[k]]
               /\ f[NSLP] = [nslp_account EXCEPT !.available = @ - quote.near,
                                                 !.stake_shares = @ + (sold - cuts)]
    <3> DEFINE near == AccountOf(id).available + quote.near
               taken == Taken(id, near, quote.near)
               Cut(k) == CASE k = TREASURY -> quote.treasury
                           [] k = OPERATOR -> quote.operator
                           [] OTHER        -> quote.developers
               f == [k \in DOMAIN accounts \cup FeeAccounts \cup {NSLP} |->
           IF k = id
           THEN [accounts[id] EXCEPT !.available = near - taken, !.stake_shares = @ - sold]
           ELSE IF k = NSLP
           THEN [nslp_account EXCEPT !.available = @ - quote.near,
                                     !.stake_shares = @ + (sold - cuts)]
           ELSE IF k \in FeeAccounts
           THEN [AccountOf(k) EXCEPT !.stake_shares = @ + Cut(k)]
           ELSE accounts[k]]
    <3>1. accounts' = f
      BY DEF LiquidUnstake, sold, quote, cuts, owned
    <3>2. f[NSLP] = [nslp_account EXCEPT !.available = @ - quote.near,
                                         !.stake_shares = @ + (sold - cuts)]
      BY <2>1, <2>2
    <3>3. f = [k \in DOMAIN accounts \cup FeeAccounts \cup {NSLP} |-> f[k]]
      OBVIOUS
    <3> HIDE DEF f
    <3> QED
      BY <3>1, <3>2, <3>3
  <2>4. PICK f : /\ accounts' = [k \in DOMAIN accounts \cup FeeAccounts \cup {NSLP} |-> f[k]]
                 /\ f[NSLP] = [nslp_account EXCEPT !.available = @ - quote.near,
                                                   !.stake_shares = @ + (sold - cuts)]
    BY <2>3
  <2> QED
    BY <2>2, <2>4 DEF nslp_account, AccountOf
<1>4. owned \in Nat
  BY <1>1, AccountOfType DEF Account
<1>5. sold \in Nat
  BY <1>4, AmountsAssumption
<1> HIDE DEF owned, sold
<1>6. /\ quote.near \in Nat /\ quote.treasury \in Nat
      /\ quote.operator \in Nat /\ quote.developers \in Nat
  BY <1>1, <1>5, QuoteType
<1>7. PICK out, fee \in Nat :
         /\ out = amount_from_stake_shares(sold) /\ fee <= out
         /\ out > 0 => fee < out
         /\ quote.fee_shares = stake_shares_from_amount(fee)
         /\ quote.near = out - fee
  BY <1>1, <1>5, QuotePays
<1>8. quote.fee_shares \in Nat
  BY <1>1, <1>7, StakeAmountType
<1> HIDE DEF quote
<1>9. cuts \in Nat
  BY <1>6
<1> HIDE DEF cuts
<1>10. sold <= AccountOf(id).stake_shares
  BY <1>2 DEF owned
<1> QED
  BY <1>2, <1>3, <1>5, <1>6, <1>7, <1>8, <1>9, <1>10

(* What an account owns is no more than all accounts do.                   *)
LEMMA OwnedAtMostAll ==
  ASSUME IInv, SumsMatch, NEW id \in Named
  PROVE  /\ AccountOf(id).stake_shares \in Nat /\ AccountOf(id).nslp_shares \in Nat
         /\ AccountOf(id).stake_shares <= total_stake_shares
         /\ AccountOf(id).nslp_shares <= nslp_account.nslp_shares
<1>1. AccountsOK /\ StakeOK
  BY IInvParts
<1>2. StakeBalances \in [Named -> Nat] /\ NslpBalances \in [Named -> Nat]
  BY <1>1, BalancesType
<1>3. /\ StakeBalances[id] <= SumOf(StakeBalances) /\ SumOf(StakeBalances) \in Nat
      /\ NslpBalances[id] <= SumOf(NslpBalances) /\ SumOf(NslpBalances) \in Nat
  BY <1>2, NamedFinite, SumAtLeast, SumNat
<1>4. StakeBalances[id] = AccountOf(id).stake_shares
      /\ NslpBalances[id] = AccountOf(id).nslp_shares
  BY DEF StakeBalances, NslpBalances
<1>5. nslp_account.stake_shares \in Nat
  BY <1>1, NslpType DEF Account
<1>6. PICK mine, all, pool \in Nat :
         mine = StakeBalances[id] /\ all = SumOf(StakeBalances) /\ pool = nslp_account.stake_shares
  BY <1>2, <1>3, <1>5
<1>7. total_stake_shares = all + pool /\ nslp_account.nslp_shares = SumOf(NslpBalances)
  BY <1>6 DEF SumsMatch
<1>8. mine <= all + pool
  BY <1>3, <1>6
<1> QED
  BY <1>2, <1>3, <1>4, <1>6, <1>7, <1>8

(* stNEAR sold to the pool.                                                *)
LEMMA LiquidUnstakeLiquidity ==
  ASSUME IInv, IInv', SumsMatch, SumsMatch', PoolOwned,
         NEW id \in Users, NEW requested \in Requests, NEW min,
         LiquidUnstake(id, requested, min)
  PROVE  LiquidityKept
<1>1. PICK A, s, N, T, S \in Nat : PoolHas(A, s, N, T, S)
  BY PoolNow
<1>2. PICK A1, s1, N1, T1, S1 \in Nat : PoolHas(A1, s1, N1, T1, S1)'
  BY PoolNext
<1>3. PICK sold, cuts, out, fee, near, fee_shares \in Nat :
         /\ sold <= AccountOf(id).stake_shares
         /\ out = amount_from_stake_shares(sold) /\ fee <= out
         /\ out > 0 => fee < out
         /\ fee_shares = stake_shares_from_amount(fee) /\ cuts < fee_shares
         /\ near = out - fee /\ cuts <= sold /\ near <= nslp_account.available
         /\ nslp_account' = [nslp_account EXCEPT !.available = @ - near,
                                                 !.stake_shares = @ + (sold - cuts)]
         /\ UNCHANGED stakeVars
  BY SaleOfShares
<1>4. /\ out = amount_from_shares(sold, T, S) /\ fee_shares = shares_from_amount(fee, T, S)
      /\ near <= A /\ s <= S /\ S <= T
  BY <1>1, <1>3 DEF PoolHas, stake_shares_from_amount, amount_from_stake_shares
<1>5. A1 = A - near /\ s1 = s + (sold - cuts) /\ N1 = N /\ T1 = T /\ S1 = S
  <2>1. nslp_account \in Account
    BY IInvParts, NslpType
  <2> QED
    BY <1>1, <1>2, <1>3, <2>1 DEF PoolHas, Account, stakeVars
<1>6. fee_shares > 0
  BY <1>3
<1>7. fee > 0
  <2>1. fee = 0 => fee_shares = 0
    <3> SUFFICES ASSUME fee = 0 PROVE fee_shares = 0
      OBVIOUS
    <3>1. S > 0 => fee_shares <= fee
      BY <1>4, SharesBought
    <3>2. S = 0 => fee_shares = fee
      BY <1>4 DEF shares_from_amount
    <3> QED
      BY <3>1, <3>2
  <2> QED
    BY <1>6, <2>1
<1>8. near > 0
  BY <1>3, <1>7
<1>9. S > 0
  <2>1. sold <= S
    <3>1. id \in Named
      BY DEF Named
    <3>2. AccountOf(id).stake_shares \in Nat /\ AccountOf(id).stake_shares <= S
      BY <1>1, <3>1, OwnedAtMostAll DEF PoolHas
    <3>3. PICK owned \in Nat : owned = AccountOf(id).stake_shares
      BY <3>2
    <3> QED
      BY <1>3, <3>2, <3>3
  <2>2. sold > 0
    BY <1>3, <1>4, <1>7 DEF amount_from_shares
  <2> QED
    BY <2>1, <2>2
<1>10. near + amount_from_shares(s, T, S) <= amount_from_shares(s1, T, S)
  BY <1>3, <1>4, <1>5, <1>9, SalePays
<1>11. amount_from_shares(s, T, S) \in Nat /\ amount_from_shares(s1, T, S) \in Nat
  BY SharesSold
<1>12. total_pool_value' >= total_pool_value
  BY <1>1, <1>2, <1>4, <1>5, <1>10, <1>11 DEF PoolHas
<1>13. N # 0
  BY <1>1, <1>4, <1>8 DEF PoolHas, PoolOwned
<1> QED
  BY <1>1, <1>2, <1>5, <1>12, <1>13 DEF PoolHas, PoolOwned, LiquidityKept, ValueKept

(* Liquidity added.                                                        *)
LEMMA AddLiquidityLiquidity ==
  ASSUME IInv, IInv', SumsMatch, SumsMatch', PoolOwned,
         NEW id \in Users, NEW attached \in Deposits, AddLiquidity(id, attached)
  PROVE  LiquidityKept
<1> DEFINE amount == Deposited(id, attached)
           acc    == [AccountOf(id) EXCEPT !.available = @ + amount]
           added  == Taken(id, acc.available, amount)
           minted == nslp_shares_from_amount(added)
           mine   == [acc EXCEPT !.available = @ - added, !.nslp_shares = @ + minted]
           rich   == [nslp_account EXCEPT !.available = @ + added, !.nslp_shares = @ + minted]
<1>1. AccountsOK /\ StakeOK /\ CallsOK
  BY IInvParts
<1>2. id \in Named /\ id # NSLP
  BY Ids DEF Named
<1>3. PICK before, after, pool, poolAfter \in Account :
        /\ before = AccountOf(id) /\ after = AccountOf(id)'
        /\ pool = nslp_account /\ poolAfter = nslp_account'
        /\ before.available = 0
  BY <1>2, AccountsBeforeAndAfter
<1>4. SaveBoth(id, mine, NSLP, rich) /\ minted > 0 /\ UNCHANGED stakeVars
  BY DEF AddLiquidity
<1>5. amount \in Nat
  BY <1>1, Deposit DEF AddLiquidity
<1>6. added = amount
  BY <1>3, <1>5, TakesAll DEF Account
<1>7. nslp_account' = rich
  <2> HIDE DEF mine, rich
  <2> QED
    BY <1>2, <1>4, SaveBothEffect, Ids DEF nslp_account
<1>8. PICK a, m \in Nat : a = amount /\ m = nslp_shares_from_amount(a) /\ m > 0
                          /\ nslp_account' = [nslp_account EXCEPT !.available = @ + a,
                                                                  !.nslp_shares = @ + m]
  BY <1>1, <1>4, <1>5, <1>6, <1>7, PoolValueType
<1> HIDE DEF minted, added, amount, acc, mine, rich
<1>9. PICK A, s, N, T, S \in Nat : PoolHas(A, s, N, T, S)
  BY PoolNow
<1>10. PICK A1, s1, N1, T1, S1 \in Nat : PoolHas(A1, s1, N1, T1, S1)'
  BY PoolNext
<1>11. A1 = A + a /\ s1 = s /\ N1 = N + m /\ T1 = T /\ S1 = S
  BY <1>3, <1>4, <1>8, <1>9, <1>10 DEF PoolHas, Account, stakeVars
<1>12. amount_from_shares(s, T, S) \in Nat
  BY SharesSold
<1>13. PICK P \in Nat : P = total_pool_value /\ P = A + amount_from_shares(s, T, S)
  BY <1>9, <1>12 DEF PoolHas
<1>14. total_pool_value' = P + a
  BY <1>10, <1>11, <1>12, <1>13 DEF PoolHas
<1>15. N = 0 => P = 0
  <2> SUFFICES ASSUME N = 0 PROVE P = 0
    OBVIOUS
  <2>1. A = 0 /\ s = 0
    BY <1>9 DEF PoolHas, PoolOwned
  <2> QED
    BY <1>13, <2>1 DEF amount_from_shares
<1>16. m = shares_from_amount(a, P, N)
  BY <1>8, <1>9, <1>13 DEF PoolHas, nslp_shares_from_amount
<1>17. (P + a + 1) * N >= P * (N + m - 1)
  BY <1>15, <1>16, JoiningIsFair
<1>18. N1 # N /\ N1 # 0
  BY <1>8, <1>11
<1> QED
  BY <1>9, <1>10, <1>11, <1>13, <1>14, <1>17, <1>18
     DEF PoolHas, PoolOwned, LiquidityKept, ShareKept

(* Liquidity removed.                                                      *)
LEMMA RemoveLiquidityLiquidity ==
  ASSUME IInv, IInv', SumsMatch, SumsMatch', PoolOwned,
         NEW id \in Users, NEW requested \in Requests, RemoveLiquidity(id, requested)
  PROVE  LiquidityKept
<1> DEFINE out   == Removal(id, requested)
           near  == out.value - out.st_near_value
           taken == Taken(id, accounts[id].available + near, near)
           mine  == [accounts[id] EXCEPT !.available = @ + near - taken,
                       !.stake_shares = @ + out.st_near, !.nslp_shares = @ - out.burned]
           rest  == [nslp_account EXCEPT !.available = @ - near,
                       !.stake_shares = @ - out.st_near, !.nslp_shares = @ - out.burned]
<1>1. AccountsOK /\ TotalsOK /\ StakeOK
  BY IInvParts
<1>2. id \in Named /\ id # NSLP
  BY Ids DEF Named
<1>3. /\ AccountOf(id).nslp_shares > 0
      /\ out.enough /\ out.burned > 0
      /\ out.value >= out.st_near_value /\ near <= nslp_account.available
      /\ out.st_near <= nslp_account.stake_shares
      /\ out.burned <= nslp_account.nslp_shares
      /\ SaveBoth(id, mine, NSLP, rest)
      /\ UNCHANGED stakeVars
  BY DEF RemoveLiquidity, CanBurn
<1>4. requested \in Nat
  BY AmountsAssumption
<1>5. /\ out.value \in Nat /\ out.burned \in Nat /\ out.st_near \in Nat
      /\ out.st_near_value \in Nat
  BY <1>1, <1>3, <1>4, RemovalType
<1>6. nslp_account' = rest
  <2> HIDE DEF mine, rest
  <2> QED
    BY <1>2, <1>3, SaveBothEffect, Ids DEF nslp_account
<1>7. PICK A, s, N, T, S \in Nat : PoolHas(A, s, N, T, S)
  BY PoolNow
<1>8. PICK A1, s1, N1, T1, S1 \in Nat : PoolHas(A1, s1, N1, T1, S1)'
  BY PoolNext
<1>9. PICK owned \in Nat : owned = AccountOf(id).nslp_shares /\ owned <= N /\ owned > 0
  BY <1>2, <1>3, <1>7, OwnedAtMostAll DEF PoolHas
<1>10. amount_from_shares(s, T, S) \in Nat
  BY SharesSold
<1>11. PICK P \in Nat : P = total_pool_value /\ P = A + amount_from_shares(s, T, S)
  BY <1>7, <1>10 DEF PoolHas
<1>12. amount_from_nslp_shares(owned) = amount_from_shares(owned, P, N)
  BY <1>7, <1>11 DEF PoolHas, amount_from_nslp_shares
<1>13. /\ \/ out.value = amount_from_shares(owned, P, N) /\ out.burned = owned
          \/ /\ requested <= amount_from_shares(owned, P, N)
             /\ out.value = requested /\ out.burned = shares_from_amount(requested, P, N)
       /\ out.st_near = proportional(s, out.burned, N)
       /\ out.st_near_value = amount_from_shares(out.st_near, T, S)
  <2>1. nslp_shares_from_amount(requested) = shares_from_amount(requested, P, N)
    BY <1>7, <1>11 DEF PoolHas, nslp_shares_from_amount
  <2>2. amount_from_shares(owned, P, N) \in Nat
    BY SharesSold
  <2>3. \/ out.value = amount_from_nslp_shares(owned) /\ out.burned = owned
        \/ /\ amount_from_nslp_shares(owned) >= requested
           /\ out.value = requested /\ out.burned = nslp_shares_from_amount(requested)
    BY <1>3, <1>9 DEF Removal
  <2>4. /\ out.st_near = proportional(nslp_account.stake_shares, out.burned, nslp_account.nslp_shares)
        /\ out.st_near_value = amount_from_stake_shares(out.st_near)
    BY DEF Removal
  <2> HIDE DEF out
  <2>5. \/ out.value = amount_from_shares(owned, P, N) /\ out.burned = owned
        \/ /\ requested <= amount_from_shares(owned, P, N)
           /\ out.value = requested /\ out.burned = shares_from_amount(requested, P, N)
    BY <1>4, <1>12, <2>1, <2>2, <2>3
  <2> QED
    BY <1>7, <2>4, <2>5 DEF PoolHas, amount_from_stake_shares
<1> HIDE DEF out
<1>14. PICK value, burned, st, stv \in Nat :
          /\ value = out.value /\ burned = out.burned
          /\ st = out.st_near /\ stv = out.st_near_value
  BY <1>5
<1>15. /\ near = value - stv /\ stv <= value /\ value - stv <= A
       /\ st <= s /\ burned <= N /\ burned > 0
  BY <1>3, <1>7, <1>14 DEF PoolHas
<1>16. /\ \/ value = amount_from_shares(owned, P, N) /\ burned = owned
          \/ /\ requested <= amount_from_shares(owned, P, N)
             /\ value = requested /\ burned = shares_from_amount(requested, P, N)
       /\ st = proportional(s, burned, N) /\ stv = amount_from_shares(st, T, S)
  BY <1>13, <1>14
<1>17. A1 = A - (value - stv) /\ s1 = s - st /\ N1 = N - burned /\ T1 = T /\ S1 = S
  <2>1. nslp_account \in Account
    BY <1>1, NslpType
  <2>2. nslp_account' = [nslp_account EXCEPT !.available = @ - (value - stv),
                            !.stake_shares = @ - st, !.nslp_shares = @ - burned]
    BY <1>6, <1>14
  <2> HIDE DEF near, rest, mine
  <2> QED
    BY <1>3, <1>7, <1>8, <2>1, <2>2 DEF PoolHas, Account, stakeVars
<1> HIDE DEF near, taken, mine, rest
<1>18. N > 0
  BY <1>9
<1>19. /\ value * N <= P * (burned + 1)
       /\ burned = N => value = P
  <2>1. Burns(P, N, owned, requested, value, burned)
    BY <1>9, <1>15, <1>16, <1>18 DEF Burns
  <2> QED
    BY <1>4, <2>1, RemovalBurns
<1>20. amount_from_shares(s1, T, S) \in Nat
  BY SharesSold
<1>21. PICK Q \in Nat : Q = total_pool_value' /\ Q = A - (value - stv) + amount_from_shares(s - st, T, S)
  BY <1>8, <1>17, <1>20 DEF PoolHas
<1>22. s <= S
  BY <1>7 DEF PoolHas
<1>23. (Q + 1) * N >= P * (N - burned - 1)
  <2>1. Leaves(T, S, A, s, P, value, st, stv, Q, N, burned)
    BY <1>11, <1>15, <1>16, <1>19, <1>21, <1>22 DEF Leaves
  <2> QED
    BY <2>1, LeavingIsFair
<1>24. N1 = 0 => A1 = 0 /\ s1 = 0
  <2> SUFFICES ASSUME N1 = 0 PROVE A1 = 0 /\ s1 = 0
    OBVIOUS
  <2>1. burned = N
    BY <1>15, <1>17
  <2>2. st = s
    BY <1>16, <1>18, <2>1, LastLeaves
  <2>3. value = A + stv
    BY <1>11, <1>16, <1>19, <2>1, <2>2
  <2> QED
    BY <1>17, <2>2, <2>3
<1>25. N1 # N
  BY <1>15, <1>17
<1>26. /\ nslp_account.nslp_shares = N
       /\ nslp_account'.available = A1 /\ nslp_account'.stake_shares = s1
       /\ nslp_account'.nslp_shares = N1
  BY <1>7, <1>8 DEF PoolHas
<1>27. PoolOwned'
  BY <1>24, <1>26 DEF PoolOwned
<1>28. (total_pool_value' + 1) * nslp_account.nslp_shares
         >= total_pool_value * (nslp_account'.nslp_shares - 1)
  BY <1>11, <1>17, <1>21, <1>23, <1>26
<1> QED
  BY <1>25, <1>26, <1>27, <1>28 DEF LiquidityKept, ShareKept

(* The operator stakes for the pool: it has NEAR, so somebody owns it.     *)
LEMMA StakeFromNslpLiquidity ==
  ASSUME IInv, PoolOwned, NEW amount \in Requests, StakeFromNslp(amount)
  PROVE  PoolOwned'
<1> DEFINE staked == Taken(NSLP, nslp_account.available, amount)
           minted == stake_shares_from_amount(staked)
<1>1. /\ Save(NSLP, [nslp_account EXCEPT !.available = @ - staked,
                                         !.stake_shares = @ + minted])
      /\ nslp_account.available > amount
  BY DEF StakeFromNslp
<1>2. nslp_account \in Account
  BY IInvParts, NslpType
<1> HIDE DEF staked, minted
<1>3. nslp_account' = [nslp_account EXCEPT !.available = @ - staked, !.stake_shares = @ + minted]
  BY <1>1, SaveEffect DEF nslp_account
<1>4. nslp_account'.nslp_shares = nslp_account.nslp_shares
  BY <1>2, <1>3 DEF Account
<1>5. nslp_account.available # 0
  BY <1>1, <1>2, AmountsAssumption DEF Account
<1> QED
  BY <1>4, <1>5 DEF PoolOwned

(* Only deposits and the calls of the pool itself touch the pool's account. *)
LEMMA OtherCallsLeavePool ==
  ASSUME AccountsOK, CallsOK, [Next]_vars
  PROVE  \/ nslp_account' = nslp_account
         \/ \E id \in Users \cup Lockups : \E a \in Deposits : DepositAndStake(id, a)
         \/ LiquidityCalls
<1>1. ASSUME NEW id, NEW account, id # NSLP, Save(id, account)
      PROVE  nslp_account' = nslp_account
  BY <1>1, SaveEffect DEF nslp_account
<1>2. ASSUME NEW x, NEW a, NEW y, NEW b, x # NSLP, y # NSLP, SaveBoth(x, a, y, b)
      PROVE  nslp_account' = nslp_account
  BY <1>2, SaveBothEffect DEF nslp_account
<1>3. ASSUME NEW id \in Users \cup Lockups, NEW shares, UnstakeShares(id, shares)
      PROVE  nslp_account' = nslp_account
  <2>1. id # NSLP /\ \E account : Save(id, account)
    BY <1>3, Ids DEF UnstakeShares, Named
  <2> QED
    BY <1>1, <2>1
<1>4. ASSUME NEW id \in Users \cup Lockups, NEW requested, Withdraw(id, requested)
      PROVE  nslp_account' = nslp_account
  <2>1. id # NSLP /\ \E account : Save(id, account)
    BY <1>4, Ids DEF Withdraw, Named
  <2> QED
    BY <1>1, <2>1
<1>5. ASSUME NEW sender \in Named, NEW receiver \in Named, NEW amount,
             Move(sender, receiver, amount)
      PROVE  nslp_account' = nslp_account
  BY <1>2, <1>5, Ids DEF Move
<1>6. CASE StakingCalls
  <2>1. ASSUME NEW id \in Users,
               \/ \E a \in Requests : Unstake(id, a) \/ Withdraw(id, a)
               \/ UnstakeAll(id) \/ WithdrawAll(id)
        PROVE  nslp_account' = nslp_account
    BY <1>3, <1>4, <2>1 DEF Unstake, UnstakeAll, WithdrawAll
  <2> QED
    BY <1>6, <2>1 DEF StakingCalls
<1>7. CASE LockupCalls
  <2>1. ASSUME NEW id \in Lockups,
               \E a \in Requests : UnstakeFromLockupShares(id, a) \/ Withdraw(id, a)
        PROVE  nslp_account' = nslp_account
    BY <1>3, <1>4, <2>1 DEF UnstakeFromLockupShares
  <2> QED
    BY <1>7, <2>1 DEF LockupCalls
<1>8. CASE TokenCalls
  <2>1. ASSUME NEW sender \in Users, NEW receiver \in Named, NEW a \in Requests,
               ft_transfer(sender, receiver, a) \/ ft_transfer_call(sender, receiver, a)
        PROVE  nslp_account' = nslp_account
    BY <1>5, <2>1 DEF Named, ft_transfer, ft_transfer_call
  <2>2. ASSUME NEW call \in resolving, NEW unused, ft_resolve_transfer(call, unused)
        PROVE  nslp_account' = nslp_account
    <3>1. call.sender # NSLP /\ call.receiver # NSLP
      BY Ids DEF CallsOK, Named
    <3>2. CASE UNCHANGED accounts
      BY <3>2 DEF nslp_account, AccountOf
    <3>3. CASE \E a, b : SaveBoth(call.receiver, a, call.sender, b)
      BY <1>2, <3>1, <3>3
    <3> QED
      BY <2>2, <3>2, <3>3 DEF ft_resolve_transfer
  <2> QED
    BY <1>8, <2>1, <2>2 DEF TokenCalls
<1>9. CASE StorageCalls
  <2>1. ASSUME NEW id \in Named, StorageDeposit(id) PROVE nslp_account' = nslp_account
    BY <1>1, <2>1, Ids DEF StorageDeposit
  <2>2. ASSUME NEW id \in Users, StorageUnregister(id) PROVE nslp_account' = nslp_account
    BY <2>2, Ids DEF StorageUnregister, Named, nslp_account, AccountOf
  <2> QED
    BY <1>9, <2>1, <2>2 DEF StorageCalls
<1>10. CASE HeartbeatCalls
  <2>1. CASE AskRewards
    BY <2>1 DEF AskRewards, nslp_account, AccountOf
  <2>2. ASSUME NEW r \in RewardAmounts, DistributeRewards(r)
        PROVE  nslp_account' = nslp_account
    <3>1. OPERATOR # NSLP /\ DEVELOPERS # NSLP
      BY Ids DEF Named, FeeAccounts
    <3>2. PICK n, m, D :
            /\ NSLP \in D <=> NSLP \in DOMAIN accounts
            /\ accounts' = [k \in D |-> [AccountOf(k) EXCEPT !.stake_shares = @
                              + (IF k = OPERATOR THEN n ELSE 0)
                              + (IF k = DEVELOPERS THEN m ELSE 0)]]
      BY <2>2, <3>1 DEF DistributeRewards
    <3>3. nslp_account \in Account
      BY NslpType
    <3>4. [nslp_account EXCEPT !.stake_shares = @ + 0 + 0] = nslp_account
      BY <3>3 DEF Account
    <3> QED
      BY <3>1, <3>2, <3>4 DEF nslp_account, AccountOf
  <2>3. ASSUME NEW r, Cycle(r) PROVE nslp_account' = nslp_account
    BY <2>3 DEF Cycle, nslp_account, AccountOf
  <2> QED
    BY <1>10, <2>1, <2>2, <2>3 DEF HeartbeatCalls
<1>11. CASE UNCHANGED vars
  BY <1>11 DEF vars, nslp_account, AccountOf
<1>12. StakingCalls \/ LockupCalls \/ LiquidityCalls \/ TokenCalls \/ StorageCalls
         \/ HeartbeatCalls \/ UNCHANGED vars
  BY DEF Next
<1> QED
  BY <1>6, <1>7, <1>8, <1>9, <1>10, <1>11, <1>12

(* What the pool is worth is a number.                                     *)
LEMMA PoolWorthNat == IInv => total_pool_value \in Nat
  BY IInvParts, PoolValueType

(* Every step keeps the pool owned by somebody, and, unless the operator   *)
(* stakes for the pool, what its shares are worth.                         *)
LEMMA StepLiquidity ==
  ASSUME IInv, SumsMatch, CallsDiffer, PoolOwned, [Next]_vars
  PROVE  PoolOwned' /\ ((\E a \in Requests : StakeFromNslp(a)) \/ LiquidityKept)
<1> SUFFICES ASSUME ~(\E a \in Requests : StakeFromNslp(a)) PROVE LiquidityKept
  BY StakeFromNslpLiquidity DEF LiquidityKept
<1>0. IInv' /\ PriceKept /\ SumsMatch'
  BY StepSafe, StepSums
<1>1. CASE nslp_account' = nslp_account
  BY <1>0, <1>1, PoolLeftAlone
<1>2. CASE \E id \in Users \cup Lockups : \E a \in Deposits : DepositAndStake(id, a)
  BY <1>0, <1>2, DepositAndStakeLiquidity
<1>3. CASE \E id \in Users : \E a \in Deposits : AddLiquidity(id, a)
  BY <1>0, <1>3, AddLiquidityLiquidity
<1>4. CASE \E id \in Users : \E a \in Requests, min \in {0} \cup Requests :
             LiquidUnstake(id, a, min)
  BY <1>0, <1>4, LiquidUnstakeLiquidity
<1>5. CASE \E id \in Users : \E a \in Requests : RemoveLiquidity(id, a)
  BY <1>0, <1>5, RemoveLiquidityLiquidity
<1>6. nslp_account' = nslp_account
        \/ (\E id \in Users \cup Lockups : \E a \in Deposits : DepositAndStake(id, a))
        \/ LiquidityCalls
  BY IInvParts, OtherCallsLeavePool
<1> QED
  BY <1>1, <1>2, <1>3, <1>4, <1>5, <1>6 DEF LiquidityCalls

(* A new pool is empty.                                                    *)
LEMMA InitPool == ASSUME NEW ids, InitWith(ids) PROVE PoolOwned
  BY DEF InitWith, PoolOwned, nslp_account, AccountOf, NoAccount

(* A call that neither adds nor removes liquidity, stake_from_nslp apart,  *)
(* leaves the pool worth at least as much as before: fees, clearings and   *)
(* rounding never cost those who provide it (lib.rs:718), for any accounts *)
(* and amounts.                                                            *)
THEOREM LiquidityAlwaysKept == Spec => LiquidityKeepsValue
<1> DEFINE Inv == IInv /\ SumsMatch /\ CallsDiffer /\ PoolOwned
<1>1. Init => Inv
  <2>1. {} \in SUBSET Named
    OBVIOUS
  <2> QED
    BY <2>1, InitSafe, InitSums, InitPool DEF Init
<1>2. Inv /\ [Next]_vars => Inv'
  BY StepSafe, StepSums, StepLiquidity
<1>3. Inv /\ [Next]_vars =>
        [nslp_account'.nslp_shares = nslp_account.nslp_shares
           /\ ~(\E a \in Requests : StakeFromNslp(a))
         => total_pool_value' >= total_pool_value]_vars
  BY StepLiquidity DEF LiquidityKept, ValueKept, ShareKept
<1> QED
  BY <1>1, <1>2, <1>3, PTL DEF Spec, LiquidityKeepsValue

(* Whoever joins or leaves the pool costs the others no more than one      *)
(* yocto and a fraction of a share (nslp_add_liquidity,                    *)
(* nslp_remove_liquidity), for any accounts and amounts.                   *)
THEOREM LiquidityAlwaysFair == Spec => LiquidityFair
<1> DEFINE Inv == IInv /\ SumsMatch /\ CallsDiffer /\ PoolOwned
<1>1. Init => Inv
  <2>1. {} \in SUBSET Named
    OBVIOUS
  <2> QED
    BY <2>1, InitSafe, InitSums, InitPool DEF Init
<1>2. Inv /\ [Next]_vars => Inv'
  BY StepSafe, StepSums, StepLiquidity
<1>3. ASSUME Inv, [Next]_vars, ~(\E a \in Requests : StakeFromNslp(a))
      PROVE  (total_pool_value' + 1) * nslp_account.nslp_shares
               >= total_pool_value * (nslp_account'.nslp_shares - 1)
  <2>1. LiquidityKept
    BY <1>3, StepLiquidity
  <2>2. CASE ShareKept
    BY <2>2 DEF ShareKept
  <2>3. CASE ValueKept
    <3>1. total_pool_value \in Nat /\ nslp_account.nslp_shares \in Nat
      BY <1>3, IInvParts, PoolValueType, NslpType DEF Account
    <3>2. (total_pool_value \in Nat)'
      <4>1. (IInv => total_pool_value \in Nat)'
        BY PoolWorthNat, PTL
      <4> QED
        BY <1>3, <4>1, StepSafe
    <3>3. PICK P, N, Q \in Nat : /\ P = total_pool_value /\ N = nslp_account.nslp_shares
                                 /\ Q = total_pool_value'
      BY <3>1, <3>2
    <3>4. Q >= P /\ nslp_account'.nslp_shares = N
      BY <2>3, <3>3 DEF ValueKept
    <3>5. (Q + 1) * N >= P * (N - 1)
      <4>1. Q * N >= P * N
        BY <3>4, Z3
      <4>2. (Q + 1) * N = Q * N + N /\ P * (N - 1) = P * N - P
        BY Z3
      <4>3. Q * N \in Nat /\ P * N \in Nat
        BY Z3
      <4> QED
        BY <4>1, <4>2, <4>3
    <3> QED
      BY <3>3, <3>4, <3>5
  <2> QED
    BY <2>1, <2>2, <2>3 DEF LiquidityKept
<1>4. Inv /\ [Next]_vars =>
        [~(\E a \in Requests : StakeFromNslp(a))
         => (total_pool_value' + 1) * nslp_account.nslp_shares
              >= total_pool_value * (nslp_account'.nslp_shares - 1)]_vars
  BY <1>3
<1> QED
  BY <1>1, <1>2, <1>4, PTL DEF Spec, LiquidityFair

-----------------------------------------------------------------------------
(* Every call is, of the totals, a call of Heartbeat.                      *)

\* The bound of Heartbeat on what users bring in is the bound here.
OwedBounded == OwedToUsers <= MAX_SUPPLY

\* A user call of Heartbeat, or nothing that Heartbeat sees.
TotalsStep == OwedBounded' /\ (H!UserCalls \/ UNCHANGED H!vars)

(* The totals are numbers, and no part exceeds the bound.                  *)
LEMMA OwedParts ==
  ASSUME IInv, OwedBounded
  PROVE  /\ total_for_staking \in Nat /\ total_available \in Nat /\ total_unstake_claims \in Nat
         /\ epoch_stake_orders \in Nat /\ epoch_unstake_orders \in Nat
         /\ retrieved_for_unstake_claims \in Nat /\ contract_account_balance \in Nat
         /\ MAX_SUPPLY \in Nat
         /\ total_for_staking + total_available + total_unstake_claims <= MAX_SUPPLY
  BY IInvParts, AmountsAssumption DEF TotalsOK, StakeOK, OwedBounded, OwedToUsers

(* A call that changes no total.                                           *)
LEMMA NoTotalMoves ==
  ASSUME OwedBounded, UNCHANGED <<orderVars, claimVars, nearVars, total_for_staking,
                                  contract_busy, epoch>>
  PROVE  TotalsStep
<1>1. OwedBounded'
  BY DEF OwedBounded, OwedToUsers, claimVars, nearVars
<1>2. UNCHANGED H!vars
  BY DEF H!vars, H!orderVars, H!userVars, H!stakeVars, H!moneyVars, H!listVars, H!worldVars,
         orderVars, claimVars, nearVars
<1> QED
  BY <1>1, <1>2 DEF TotalsStep

(* Accounts are left out of the comparison: no storage is paid for.        *)
LEMMA NoneOpened == 0 \in 0..1 /\ 0 \in 0..3 /\ H!Opened(0)
BY DEF H!Opened

LEMMA DepositIsHeartbeats ==
  ASSUME IInv, OwedBounded, NEW a \in Nat,
         contract_account_balance' = contract_account_balance + a
  PROVE  H!Deposited(a)
<1>1. contract_account_balance \in Nat /\ STORAGE_COST_YOCTOS \in Nat
  BY OwedParts, AmountsAssumption
<1>2. 0 * STORAGE_COST_YOCTOS = 0
  BY <1>1
<1>3. contract_account_balance' = contract_account_balance + a + 0 * STORAGE_COST_YOCTOS
  BY <1>1, <1>2
<1> QED
  BY <1>3, NoneOpened DEF H!Deposited

(* Deposits.                                                               *)
LEMMA DepositAndStakeTotals ==
  ASSUME IInv, OwedBounded, NEW id \in Users \cup Lockups, NEW attached \in Deposits,
         DepositAndStake(id, attached)
  PROVE  TotalsStep
<1>1. PICK amount, minted, shares, sold, near \in Nat :
         StakedAndCleared(amount, minted, shares, sold, near)
  BY DepositComputes
<1>2. /\ near <= amount
      /\ contract_account_balance' = contract_account_balance + amount
      /\ total_available' = total_available + near
      /\ total_for_staking' = total_for_staking + amount - near
      /\ epoch_stake_orders' = epoch_stake_orders + amount - near
  BY <1>1 DEF StakedAndCleared
<1>3. /\ ~contract_busy /\ attached >= min_deposit_amount
      /\ id \notin DOMAIN accounts => attached > STORAGE_COST_YOCTOS
      /\ OwedToUsers + attached <= MAX_SUPPLY
      /\ contract_account_balance' = contract_account_balance + Deposited(id, attached)
      /\ PayForStorage(id)
      /\ UNCHANGED <<epoch_unstake_orders, claimVars, callVars>>
  BY DEF DepositAndStake, CanDeposit, assert_not_busy
<1>4. attached \in Nat /\ Deposited(id, attached) \in Nat /\ Deposited(id, attached) <= attached
  BY <1>3, AmountsAssumption DEF Deposited
<1>5. amount <= attached
  BY <1>2, <1>3, <1>4, OwedParts
<1>6. OwedToUsers + amount <= MAX_SUPPLY
  BY <1>3, <1>4, <1>5, OwedParts DEF OwedToUsers
<1>7. OwedBounded'
  BY <1>2, <1>3, <1>6, OwedParts DEF OwedBounded, OwedToUsers, claimVars
<1>8. CASE amount = 0
  <2>1. near = 0
    BY <1>2, <1>8
  <2>2. UNCHANGED <<orderVars, claimVars, nearVars, total_for_staking, contract_busy, epoch>>
    BY <1>2, <1>3, <1>8, <2>1, OwedParts DEF orderVars, claimVars, nearVars, callVars
  <2> QED
    BY <2>2, NoTotalMoves
<1>9. CASE amount > 0
  <2>0. H!Deposited(amount)
    BY <1>2, DepositIsHeartbeats
  <2>1. H!DepositAndStake(amount, near)
    BY <1>2, <1>3, <1>6, <2>0
       DEF H!DepositAndStake, H!Funded, H!OwedToUsers, OwedToUsers, claimVars, callVars,
           H!stakeVars, H!listVars, H!worldVars
  <2>2. amount \in 1..MAX_SUPPLY /\ near \in 0..amount
    BY <1>2, <1>6, <1>9, OwedParts DEF OwedToUsers
  <2> QED
    BY <1>7, <2>1, <2>2 DEF TotalsStep, H!UserCalls
<1> QED
  BY <1>8, <1>9

(* stNEAR burned for a claim.                                              *)
LEMMA UnstakeSharesTotals ==
  ASSUME IInv, OwedBounded, NEW id, NEW shares \in Nat, UnstakeShares(id, shares)
  PROVE  TotalsStep
<1>1. PICK amount \in Nat : amount = amount_from_stake_shares(shares)
  BY IInvParts, StakeAmountType
<1>2. /\ ~contract_busy /\ amount <= total_for_staking
      /\ epoch_unstake_orders' = epoch_unstake_orders + amount
      /\ total_unstake_claims' = total_unstake_claims + amount
      /\ total_for_staking' = total_for_staking - amount
      /\ UNCHANGED <<epoch_stake_orders, retrieved_for_unstake_claims, nearVars, callVars>>
  BY <1>1 DEF UnstakeShares, CanBurn, assert_not_busy
<1>3. OwedBounded'
  BY <1>2, OwedParts DEF OwedBounded, OwedToUsers, nearVars
<1>4. CASE amount = 0
  BY <1>2, <1>4, OwedParts, NoTotalMoves DEF orderVars, claimVars, nearVars, callVars
<1>5. CASE amount > 0
  <2>1. H!Unstake(amount)
    BY <1>2 DEF H!Unstake, nearVars, callVars, H!stakeVars, H!moneyVars, H!listVars, H!worldVars
  <2>2. amount \in 1..MAX_SUPPLY
    BY <1>2, <1>5, OwedParts
  <2> QED
    BY <1>3, <2>1, <2>2 DEF TotalsStep, H!UserCalls
<1> QED
  BY <1>4, <1>5

(* A claim paid.                                                           *)
LEMMA WithdrawTotals ==
  ASSUME IInv, OwedBounded, NEW id \in Users \cup Lockups, NEW requested \in Nat,
         Withdraw(id, requested)
  PROVE  TotalsStep
<1> DEFINE acc   == [accounts[id] EXCEPT !.unstaked = @ - requested, !.available = @ + requested]
           taken == Taken(id, acc.available, requested)
<1>1. accounts[id] \in Account /\ accounts[id].available = 0
  <2>1. id # NSLP /\ id \in DOMAIN accounts
    BY Ids DEF Withdraw
  <2> QED
    BY <2>1, IInvParts, AccountOfType
<1>2. acc.available = requested
  BY <1>1 DEF Account
<1>3. taken = requested
  BY <1>2, TakesAll
<1>4. /\ requested <= retrieved_for_unstake_claims /\ requested <= total_unstake_claims
      /\ retrieved_for_unstake_claims' = retrieved_for_unstake_claims - requested
      /\ total_unstake_claims' = total_unstake_claims - requested
      /\ total_available' = total_available + requested - taken
      /\ native_transfer(taken)
      /\ UNCHANGED <<orderVars, stakeVars, callVars>>
  BY OwedParts DEF Withdraw
<1> HIDE DEF acc, taken
<1>5. /\ total_available' = total_available
      /\ contract_account_balance >= requested
      /\ contract_account_balance' = contract_account_balance - requested
  BY <1>3, <1>4, OwedParts DEF native_transfer
<1>6. OwedBounded'
  BY <1>4, <1>5, OwedParts DEF OwedBounded, OwedToUsers, stakeVars
<1>7. CASE requested = 0
  BY <1>4, <1>5, <1>7, OwedParts, NoTotalMoves
     DEF orderVars, claimVars, nearVars, callVars, stakeVars
<1>8. CASE requested > 0
  <2>1. H!WithdrawUnstaked(requested)
    BY <1>4, <1>5 DEF H!WithdrawUnstaked, H!NativeTransfer, orderVars, stakeVars, callVars,
                      H!stakeVars, H!listVars, H!worldVars
  <2>2. requested \in 1..MAX_SUPPLY
    BY <1>4, <1>8, OwedParts
  <2> QED
    BY <1>6, <2>1, <2>2 DEF TotalsStep, H!UserCalls
<1> QED
  BY <1>7, <1>8

(* NEAR of the liquidity pool staked by the operator.                      *)
LEMMA StakeFromNslpTotals ==
  ASSUME IInv, OwedBounded, NEW amount \in Requests, StakeFromNslp(amount)
  PROVE  TotalsStep
<1>1. PICK staked \in Nat : staked = Taken(NSLP, nslp_account.available, amount)
  BY IInvParts, NslpType, AmountsAssumption DEF Taken, Account
<1>2. /\ ~contract_busy /\ staked <= total_available
      /\ total_available' = total_available - staked
      /\ total_for_staking' = total_for_staking + staked
      /\ epoch_stake_orders' = epoch_stake_orders + staked
      /\ UNCHANGED <<epoch_unstake_orders, claimVars, contract_account_balance, callVars>>
  BY <1>1 DEF StakeFromNslp, CanTake, assert_not_busy
<1>3. OwedBounded'
  BY <1>2, OwedParts DEF OwedBounded, OwedToUsers, claimVars
<1>4. CASE staked = 0
  BY <1>2, <1>4, OwedParts, NoTotalMoves DEF orderVars, nearVars, callVars
<1>5. CASE staked > 0
  <2>1. H!StakeFromNslp(staked)
    BY <1>2 DEF H!StakeFromNslp, claimVars, callVars, H!stakeVars, H!moneyVars, H!listVars,
                H!worldVars
  <2>2. staked \in 1..MAX_SUPPLY
    BY <1>2, <1>5, OwedParts
  <2> QED
    BY <1>3, <2>1, <2>2 DEF TotalsStep, H!UserCalls
<1> QED
  BY <1>4, <1>5

(* NEAR paid out of the liquidity pool.                                    *)
LEMMA PaidTotals ==
  ASSUME IInv, OwedBounded, NEW near \in Nat, ~contract_busy, near <= total_available,
         total_available' = total_available - near, native_transfer(near),
         UNCHANGED <<orderVars, claimVars, stakeVars, callVars>>
  PROVE  TotalsStep
<1>1. /\ contract_account_balance >= near
      /\ contract_account_balance' = contract_account_balance - near
  BY DEF native_transfer
<1>2. OwedBounded'
  BY OwedParts DEF OwedBounded, OwedToUsers, claimVars, stakeVars
<1>3. CASE near = 0
  BY <1>1, <1>3, OwedParts, NoTotalMoves DEF nearVars, callVars, stakeVars
<1>4. CASE near > 0
  <2>0. H!OpensUnpaid(3)
    BY NoneOpened DEF H!OpensUnpaid
  <2>1. H!PayFromLiquidityPool(near)
    BY <1>1, <2>0 DEF H!PayFromLiquidityPool, H!NativeTransfer, orderVars, claimVars, stakeVars,
                callVars, H!orderVars, H!stakeVars, H!listVars, H!worldVars
  <2>2. near \in 1..MAX_SUPPLY
    BY <1>4, OwedParts
  <2> QED
    BY <1>2, <2>1, <2>2 DEF TotalsStep, H!UserCalls
<1> QED
  BY <1>3, <1>4

(* stNEAR sold.                                                            *)
LEMMA LiquidUnstakeTotals ==
  ASSUME IInv, OwedBounded, NEW id \in Users, NEW requested \in Requests, NEW min,
         LiquidUnstake(id, requested, min)
  PROVE  TotalsStep
<1> DEFINE owned == AccountOf(id).stake_shares
           sold  == IF is_close(requested, owned) THEN owned ELSE requested
           quote == Quote(sold)
           near  == AccountOf(id).available + quote.near
           taken == Taken(id, near, quote.near)
<1>1. AccountsOK /\ StakeOK
  BY IInvParts
<1>2. /\ assert_not_busy /\ CanTake(near, total_available, taken)
      /\ total_available' = total_available - taken
      /\ native_transfer(taken)
      /\ UNCHANGED <<orderVars, claimVars, stakeVars, callVars>>
  BY DEF LiquidUnstake
<1>3. owned \in Nat /\ AccountOf(id).available = 0
  BY <1>1, Ids, AccountOfType DEF Account
<1>4. sold \in Nat
  BY <1>3, AmountsAssumption
<1> HIDE DEF owned, sold
<1>5. quote.near \in Nat
  BY <1>1, <1>4, QuoteType
<1> HIDE DEF quote
<1>6. near = quote.near
  BY <1>3, <1>5
<1>7. taken = quote.near
  BY <1>6, TakesAll
<1> HIDE DEF near, taken
<1>8. taken \in Nat /\ ~contract_busy /\ taken <= total_available
  BY <1>2, <1>5, <1>7 DEF assert_not_busy, CanTake
<1> QED
  BY <1>2, <1>8, PaidTotals

(* Liquidity added and removed.                                            *)
LEMMA AddLiquidityTotals ==
  ASSUME IInv, OwedBounded, NEW id \in Users, NEW attached \in Deposits,
         AddLiquidity(id, attached)
  PROVE  TotalsStep
<1>1. PICK amount \in Nat : amount = Deposited(id, attached)
  BY IInvParts, Deposit DEF AddLiquidity
<1>2. /\ ~contract_busy
      /\ OwedToUsers + attached <= MAX_SUPPLY
      /\ contract_account_balance' = contract_account_balance + amount
      /\ total_available' = total_available + amount
      /\ UNCHANGED <<orderVars, claimVars, stakeVars, callVars>>
  BY <1>1 DEF AddLiquidity, CanDeposit, assert_not_busy
<1>3. attached \in Nat /\ amount <= attached
  BY <1>1, AmountsAssumption DEF Deposited
<1>4. OwedToUsers + amount <= MAX_SUPPLY
  BY <1>2, <1>3, OwedParts DEF OwedToUsers
<1>5. OwedBounded'
  BY <1>2, <1>4, OwedParts DEF OwedBounded, OwedToUsers, claimVars, stakeVars
<1>6. CASE amount = 0
  BY <1>2, <1>6, OwedParts, NoTotalMoves DEF nearVars, callVars, stakeVars
<1>7. CASE amount > 0
  <2>0. H!Deposited(amount)
    BY <1>2, DepositIsHeartbeats
  <2>1. H!NslpAddLiquidity(amount)
    BY <1>2, <1>4, <2>0
       DEF H!NslpAddLiquidity, H!Funded, H!OwedToUsers, OwedToUsers, orderVars, claimVars,
           stakeVars, callVars, H!orderVars, H!stakeVars, H!listVars, H!worldVars
  <2>2. amount \in 1..MAX_SUPPLY
    BY <1>4, <1>7, OwedParts DEF OwedToUsers
  <2> QED
    BY <1>5, <2>1, <2>2 DEF TotalsStep, H!UserCalls
<1> QED
  BY <1>6, <1>7

LEMMA RemoveLiquidityTotals ==
  ASSUME IInv, OwedBounded, NEW id \in Users, NEW requested \in Requests,
         RemoveLiquidity(id, requested)
  PROVE  TotalsStep
<1> DEFINE out   == Removal(id, requested)
           near  == out.value - out.st_near_value
           taken == Taken(id, accounts[id].available + near, near)
<1>1. AccountsOK /\ StakeOK
  BY IInvParts
<1>2. /\ assert_not_busy /\ id \in DOMAIN accounts /\ out.burned > 0
      /\ out.value >= out.st_near_value
      /\ out.burned <= nslp_account.nslp_shares
      /\ CanTake(accounts[id].available + near, total_available, taken)
      /\ total_available' = total_available - taken
      /\ native_transfer(taken)
      /\ UNCHANGED <<orderVars, claimVars, stakeVars, callVars>>
  BY DEF RemoveLiquidity
<1>3. out.value \in Nat /\ out.st_near_value \in Nat
  BY <1>1, <1>2, AmountsAssumption, RemovalType
<1> HIDE DEF out
<1>4. accounts[id].available = 0
  BY <1>1, <1>2, Ids, AccountOfType
<1>5. near \in Nat /\ accounts[id].available + near = near
  BY <1>2, <1>3, <1>4
<1>6. taken = near
  BY <1>5, TakesAll
<1> HIDE DEF near, taken
<1>7. taken \in Nat /\ ~contract_busy /\ taken <= total_available
  BY <1>2, <1>5, <1>6 DEF assert_not_busy, CanTake
<1> QED
  BY <1>2, <1>7, PaidTotals

(* Every step is a user call of Heartbeat, or one of the heartbeat itself, *)
(* or leaves the totals alone.                                             *)
LEMMA StepTotals ==
  ASSUME IInv, OwedBounded, [Next]_vars
  PROVE  OwedBounded' /\ (H!UserCalls \/ HeartbeatCalls \/ UNCHANGED H!vars)
<1> SUFFICES TotalsStep \/ (HeartbeatCalls /\ OwedBounded')
  BY DEF TotalsStep
<1>1. CASE StakingCalls
  <2>1. PICK id \in Users :
          \/ \E a \in Deposits : DepositAndStake(id, a)
          \/ \E a \in Requests : Unstake(id, a) \/ Withdraw(id, a)
          \/ UnstakeAll(id) \/ WithdrawAll(id)
    BY <1>1 DEF StakingCalls
  <2>2. /\ AccountOf(id).stake_shares \in Nat /\ AccountOf(id).unstaked \in Nat
        /\ \A a \in Requests : a \in Nat /\ stake_shares_from_amount(a) \in Nat
    BY IInvParts, AccountOfType, StakeAmountType, AmountsAssumption DEF Account
  <2>3. CASE \E a \in Deposits : DepositAndStake(id, a)
    BY <2>3, DepositAndStakeTotals
  <2>4. ASSUME NEW a \in Requests, Unstake(id, a) PROVE TotalsStep
    BY <2>2, <2>4, UnstakeSharesTotals DEF Unstake
  <2>5. CASE \E a \in Requests : Withdraw(id, a)
    BY <2>2, <2>5, WithdrawTotals
  <2>6. CASE UnstakeAll(id)
    BY <2>2, <2>6, UnstakeSharesTotals DEF UnstakeAll
  <2>7. CASE WithdrawAll(id)
    BY <2>2, <2>7, WithdrawTotals DEF WithdrawAll
  <2> QED
    BY <2>1, <2>3, <2>4, <2>5, <2>6, <2>7
<1>2. CASE LockupCalls
  BY <1>2, DepositAndStakeTotals, UnstakeSharesTotals, WithdrawTotals, AmountsAssumption
     DEF LockupCalls, UnstakeFromLockupShares
<1>3. CASE LiquidityCalls
  BY <1>3, AddLiquidityTotals, LiquidUnstakeTotals, RemoveLiquidityTotals, StakeFromNslpTotals
     DEF LiquidityCalls
<1>4. CASE TokenCalls
  BY <1>4, NoTotalMoves
     DEF TokenCalls, ft_transfer, ft_transfer_call, ft_resolve_transfer, callVars, stakeVars
<1>5. CASE StorageCalls
  BY <1>5, NoTotalMoves DEF StorageCalls, StorageDeposit, StorageUnregister, callVars, stakeVars
<1>6. CASE HeartbeatCalls
  <2>1. CASE AskRewards
    BY <1>6, <2>1 DEF AskRewards, OwedBounded, OwedToUsers, claimVars, stakeVars, nearVars
  <2>2. ASSUME NEW r \in RewardAmounts, DistributeRewards(r) PROVE OwedBounded'
    BY <2>2, OwedParts, AmountsAssumption
       DEF DistributeRewards, OwedBounded, OwedToUsers, claimVars, nearVars
  <2>3. ASSUME NEW r, Cycle(r) PROVE OwedBounded'
    BY <2>3 DEF Cycle, OwedBounded, OwedToUsers, stakeVars
  <2> QED
    BY <1>6, <2>1, <2>2, <2>3 DEF HeartbeatCalls
<1>7. CASE UNCHANGED vars
  BY <1>7, NoTotalMoves DEF vars, callVars, stakeVars
<1> QED
  BY <1>1, <1>2, <1>3, <1>4, <1>5, <1>6, <1>7 DEF Next

(* Heartbeat's user calls, any amounts the totals allow, are all that the  *)
(* calls of the users do to the totals of the contract, whatever the       *)
(* accounts, amounts, fees and prices (lib.rs, internal.rs): Heartbeat     *)
(* loses no behaviour by leaving the accounts out.                         *)
THEOREM TotalsMoveAsInHeartbeat == Spec => TotalsAsInHeartbeat
<1> DEFINE Inv == IInv /\ OwedBounded
<1>1. Init => Inv
  <2>1. {} \in SUBSET Named
    OBVIOUS
  <2>2. Init => OwedBounded
    BY AmountsAssumption DEF Init, InitWith, OwedBounded, OwedToUsers
  <2> QED
    BY <2>1, <2>2, InitSafe DEF Init
<1>2. Inv /\ [Next]_vars => Inv'
  BY StepSafe, StepTotals
<1>3. Inv /\ [Next]_vars => [H!UserCalls \/ HeartbeatCalls]_(H!vars)
  BY StepTotals
<1> QED
  BY <1>1, <1>2, <1>3, PTL DEF Spec, TotalsAsInHeartbeat
=============================================================================
