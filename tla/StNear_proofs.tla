---------------------------- MODULE StNear_proofs ----------------------------
(***************************************************************************)
(* The accounts, for any users, amounts, fees, discounts and thresholds:   *)
(* the types, the books, that no user keeps NEAR in an account, and a      *)
(* price of stNEAR that is at least one and never falls.                   *)
(***************************************************************************)
EXTENDS StNearProperties, ShareMath_proofs

(* The inductive invariant.                                                *)
IInv == TypeOK /\ BooksMatch /\ OnlyPoolKeepsNear /\ PriceAtLeastOne

(* The part of it that is about accounts, and the part about totals.       *)
AccountsOK ==
  /\ DOMAIN accounts \subseteq AccountIds
  /\ accounts \in [DOMAIN accounts -> Account]
  /\ OnlyPoolKeepsNear

TotalsOK ==
  /\ total_available \in Nat /\ contract_account_balance \in Nat
  /\ retrieved_for_unstake_claims \in Nat /\ total_unstake_claims \in Nat
  /\ epoch_stake_orders \in Nat /\ epoch_unstake_orders \in Nat
  /\ BooksMatch

StakeOK ==
  total_for_staking \in Nat /\ total_stake_shares \in Nat /\ PriceAtLeastOne

CallsOK ==
  /\ contract_busy \in BOOLEAN
  /\ resolving \subseteq [sender : Users, receiver : Named, amount : Nat]
  /\ storage_paid \subseteq Named
  /\ epoch \in Nat

(* The parts make up the invariant.                                        *)
LEMMA IInvParts == IInv <=> AccountsOK /\ TotalsOK /\ StakeOK /\ CallsOK
  BY DEF IInv, TypeOK, AccountsOK, TotalsOK, StakeOK, CallsOK

(* The same of the next state.                                             *)
LEMMA IInvPartsNext == IInv' <=> AccountsOK' /\ TotalsOK' /\ StakeOK' /\ CallsOK'
  BY DEF IInv, TypeOK, AccountsOK, TotalsOK, StakeOK, CallsOK

-----------------------------------------------------------------------------
(* Accounts.                                                               *)

(* An account is an account, registered or not; a user's has no NEAR.      *)
LEMMA AccountOfType ==
  ASSUME AccountsOK, NEW id
  PROVE  /\ AccountOf(id) \in Account
         /\ id # NSLP => AccountOf(id).available = 0
         /\ id \in DOMAIN accounts => AccountOf(id) = accounts[id]
  BY DEF AccountsOK, OnlyPoolKeepsNear, AccountOf, NoAccount, Account

(* The account of the liquidity pool is an account.                        *)
LEMMA NslpType == ASSUME AccountsOK PROVE nslp_account \in Account
  BY AccountOfType DEF nslp_account

(* Another amount of NEAR leaves an account.                               *)
LEMMA AvailableChanged ==
  ASSUME NEW a \in Account, NEW x \in Nat
  PROVE  LET new == [a EXCEPT !.available = x]
         IN  new \in Account /\ new.available = x
  BY DEF Account

(* The same of its NEAR and its stNEAR together.                           *)
LEMMA AvailableSharesChanged ==
  ASSUME NEW a \in Account, NEW x \in Nat, NEW y \in Nat
  PROVE  LET new == [a EXCEPT !.available = x, !.stake_shares = y]
         IN  new \in Account /\ new.available = x
  BY DEF Account

(* Saving well-formed accounts, those of users without NEAR, keeps all of  *)
(* them so.                                                                *)
LEMMA SaveKeeps ==
  ASSUME AccountsOK, NEW id \in AccountIds, NEW account \in Account,
         id # NSLP => account.available = 0, Save(id, account)
  PROVE  AccountsOK'
  BY DEF AccountsOK, OnlyPoolKeepsNear, Save

(* The same of two accounts saved together.                                *)
LEMMA SaveBothKeeps ==
  ASSUME AccountsOK, NEW id \in AccountIds, NEW account \in Account,
         NEW other \in AccountIds, NEW otherAccount \in Account,
         id # NSLP => account.available = 0, other # NSLP => otherAccount.available = 0,
         SaveBoth(id, account, other, otherAccount)
  PROVE  AccountsOK'
  BY DEF AccountsOK, OnlyPoolKeepsNear, SaveBoth

(* A call that leaves the accounts alone keeps them well-formed,           *)
LEMMA SameAccounts == ASSUME AccountsOK, UNCHANGED accounts PROVE AccountsOK'
  BY DEF AccountsOK, OnlyPoolKeepsNear

(* one that leaves the totals alone keeps them balanced,                   *)
LEMMA SameTotals ==
  ASSUME TotalsOK, UNCHANGED <<orderVars, claimVars, nearVars>> PROVE TotalsOK'
  BY DEF TotalsOK, BooksMatch, orderVars, claimVars, nearVars

(* one that leaves the stake alone keeps a price of at least one,          *)
LEMMA SameStake == ASSUME StakeOK, UNCHANGED stakeVars PROVE StakeOK'
  BY DEF StakeOK, PriceAtLeastOne, stakeVars

(* and one that leaves the lock and the calls in flight alone keeps both.  *)
LEMMA SameCalls == ASSUME CallsOK, UNCHANGED <<storage_paid, callVars>> PROVE CallsOK'
  BY DEF CallsOK, callVars

(* What is put into the account of a user by a call is taken out of it to  *)
(* the last unit: taking from exactly what is there takes exactly that.    *)
LEMMA TakesAll ==
  ASSUME NEW id, NEW amount PROVE Taken(id, amount, amount) = amount
  BY DEF Taken

(* The amount of a deposit, and who has paid for storage.                  *)
LEMMA Deposit ==
  ASSUME CallsOK, NEW id \in Users \cup Lockups, NEW attached \in Deposits,
         CanDeposit(id, attached), PayForStorage(id), UNCHANGED callVars
  PROVE  Deposited(id, attached) \in Nat /\ CallsOK'
<1>1. Deposited(id, attached) \in Nat
  BY AmountsAssumption DEF Deposited, CanDeposit
<1>2. CallsOK'
  BY DEF CallsOK, PayForStorage, callVars, Named
<1> QED
  BY <1>1, <1>2

(* Every name is an account id, and the liquidity pool has no name.        *)
LEMMA Ids ==
  /\ \A id \in Users \cup Lockups : id \in AccountIds /\ id # NSLP
  /\ \A id \in Named : id \in AccountIds /\ id # NSLP
  /\ NSLP \in AccountIds
  BY IdsAssumption DEF AccountIds, Named

-----------------------------------------------------------------------------
(* Deposits.                                                               *)

(* A clearing stays within the deposit and keeps a price of at least one.  *)
LEMMA ClearingSafe ==
  ASSUME NEW shares \in Nat, NEW amount \in Nat, NEW value \in Nat, NEW supply \in Nat,
         NEW sold, NEW near,
         sold = Clearing(shares, amount, value, supply).sold,
         near = Clearing(shares, amount, value, supply).near
  PROVE  /\ sold \in Nat /\ near \in Nat /\ near <= amount
         /\ sold <= supply /\ near <= value /\ supply <= value
              => supply - sold <= value - near
<1> DEFINE valued == amount_from_shares(shares, value, supply)
           buys   == shares_from_amount(amount, value, supply)
<1>1. valued \in Nat /\ supply * valued <= shares * value
  BY SharesSold
<1>2. buys \in Nat /\ (supply > 0 /\ value > 0 => amount * supply < value * buys + value)
  BY SharesBought
<1>3. CASE shares = 0
  BY <1>3 DEF Clearing
<1>4. CASE shares > 0 /\ amount >= valued
  <2>1. sold = shares /\ near = valued
    BY <1>4 DEF Clearing
  <2>2. sold <= supply /\ near <= value /\ supply <= value => supply - sold <= value - near
    BY <1>1, <2>1, BurnKeepsPrice
  <2> QED
    BY <1>1, <1>4, <2>1, <2>2
<1>5. CASE shares > 0 /\ amount < valued
  <2>1. sold = buys /\ near = amount
    BY <1>1, <1>5 DEF Clearing
  <2>2. ASSUME sold <= supply, near <= value, supply <= value
        PROVE  supply - sold <= value - near
    <3>1. value > 0 /\ supply > 0
      BY <1>1, <1>5, Z3 DEF amount_from_shares, proportional
    <3> HIDE DEF valued, buys
    <3>2. sold \in Nat /\ near \in Nat /\ near * supply < value * sold + value
      BY <1>2, <2>1, <3>1
    <3>3. (value - near) * supply <= (value - near) * value
      BY <2>2, <3>2, Z3
    <3>4. value * supply - near * supply = (value - near) * supply
      BY <3>2, Z3
    <3>5. value * (supply - sold) < value * (value - near + 1)
      <4>1. value * (supply - sold) = value * supply - value * sold
        BY <2>2, <3>2, Z3
      <4>2. value * (value - near + 1) = (value - near) * value + value
        BY <2>2, <3>2, Z3
      <4>3. value * supply \in Nat /\ value * sold \in Nat /\ near * supply \in Nat
        BY <3>2, Z3
      <4> QED
        BY <3>2, <3>3, <3>4, <4>1, <4>2, <4>3, Z3
    <3>6. supply - sold < value - near + 1
      BY <3>1, <3>2, <3>5, Z3
    <3> QED
      BY <3>2, <3>6
  <2> QED
    BY <1>2, <2>1, <2>2
<1> QED
  BY <1>1, <1>3, <1>4, <1>5

(* What a deposit that is staked computes: all of the deposit is staked at *)
(* the price, no NEAR stays in the account, and the clearing takes back at *)
(* most what was staked.                                                   *)
StakedAndCleared(amount, minted, shares, sold, near) ==
  LET sale == Clearing(shares, amount, total_for_staking + amount, total_stake_shares + minted)
  IN
  /\ minted = stake_shares_from_amount(amount)
  /\ sold = sale.sold /\ near = sale.near
  /\ near <= amount
  /\ sold <= total_stake_shares + minted /\ near <= total_for_staking + amount
  /\ contract_account_balance' = contract_account_balance + amount
  /\ total_available' = total_available + near
  /\ total_for_staking' = total_for_staking + amount - near
  /\ total_stake_shares' = total_stake_shares + minted - sold
  /\ epoch_stake_orders' = epoch_stake_orders + amount - near

(* What it does to the accounts: the stNEAR minted goes to one of them,    *)
(* and what is sold comes from the liquidity pool.                         *)
DepositSaved(id, minted, shares, sold, near) ==
  /\ \A k \in Named \ {id} : AccountOf(k)' = AccountOf(k)
  /\ AccountOf(id)' = [AccountOf(id) EXCEPT !.stake_shares = @ + minted]
  /\ nslp_account' = [nslp_account EXCEPT !.available = @ + near, !.stake_shares = @ - sold]
  /\ shares = nslp_account.stake_shares /\ sold <= shares

(* A deposit computes and saves this, and leaves the accounts well-formed. *)
LEMMA DepositComputes ==
  ASSUME IInv, NEW id \in Users \cup Lockups, NEW attached \in Deposits,
         DepositAndStake(id, attached)
  PROVE  /\ AccountsOK'
         /\ \E amount, minted, shares, sold, near \in Nat :
              /\ StakedAndCleared(amount, minted, shares, sold, near)
              /\ DepositSaved(id, minted, shares, sold, near)
<1> DEFINE amount == Deposited(id, attached)
           acc0   == AccountOf(id)
           acc    == [acc0 EXCEPT !.available = @ + amount]
           staked == Taken(id, acc.available, amount)
           minted == stake_shares_from_amount(staked)
           sale   == Clearing(nslp_account.stake_shares, amount,
                              total_for_staking + staked, total_stake_shares + minted)
           mine   == [acc EXCEPT !.available = @ - staked, !.stake_shares = @ + minted]
           pool   == [nslp_account EXCEPT !.available = @ + sale.near,
                                          !.stake_shares = @ - sale.sold]
<1>1. AccountsOK /\ TotalsOK /\ StakeOK /\ CallsOK
  BY IInvParts
<1>2. amount \in Nat
  BY <1>1, Deposit DEF DepositAndStake
<1>3. acc0 \in Account /\ acc0.available = 0 /\ nslp_account \in Account
  BY <1>1, AccountOfType, NslpType, Ids
<1>4. acc \in Account /\ acc.available = amount
  BY <1>2, <1>3 DEF Account
<1>5. staked = amount
  BY <1>4, TakesAll
<1>6. minted \in Nat /\ minted = stake_shares_from_amount(amount)
  BY <1>1, <1>2, <1>5, SharesBought DEF stake_shares_from_amount, StakeOK
<1>7. sale.sold \in Nat /\ sale.near \in Nat /\ sale.near <= amount
  <2>1. total_for_staking + staked \in Nat /\ total_stake_shares + minted \in Nat
          /\ nslp_account.stake_shares \in Nat
    BY <1>1, <1>2, <1>3, <1>5, <1>6 DEF StakeOK, Account
  <2> QED
    BY <1>2, <2>1, ClearingSafe
<1>8. /\ sale.sold <= nslp_account.stake_shares
      /\ CanBurn(sale.sold, sale.near, total_stake_shares + minted, total_for_staking + staked)
      /\ accounts' = [k \in DOMAIN accounts \cup {id} |->
           IF k = id THEN mine ELSE IF k = NSLP THEN pool ELSE accounts[k]]
      /\ contract_account_balance' = contract_account_balance + amount
      /\ total_available' = total_available + amount - staked + sale.near
      /\ total_for_staking' = total_for_staking + staked - sale.near
      /\ total_stake_shares' = total_stake_shares + minted - sale.sold
      /\ epoch_stake_orders' = epoch_stake_orders + staked - sale.near
  BY DEF DepositAndStake
<1> HIDE DEF amount, acc0, acc, staked, minted, sale
<1>9. mine \in Account /\ mine.available = 0
  <2>1. acc.available - staked \in Nat /\ acc.available - staked = 0
          /\ acc.stake_shares + minted \in Nat
    BY <1>2, <1>4, <1>5, <1>6 DEF Account
  <2> QED
    BY <1>4, <2>1, AvailableSharesChanged
<1>10. pool \in Account
  <2>1. nslp_account.available + sale.near \in Nat /\ nslp_account.stake_shares - sale.sold \in Nat
    BY <1>3, <1>7, <1>8 DEF Account
  <2> QED
    BY <1>3, <2>1, AvailableSharesChanged
<1> HIDE DEF mine, pool
<1>11. AccountsOK'
  BY <1>1, <1>8, <1>9, <1>10, Ids DEF AccountsOK, OnlyPoolKeepsNear
<1>12. total_available + amount - staked + sale.near = total_available + sale.near
  BY <1>1, <1>2, <1>5, <1>7 DEF TotalsOK
<1>13. /\ sale = Clearing(nslp_account.stake_shares, amount,
                          total_for_staking + amount, total_stake_shares + minted)
       /\ nslp_account.stake_shares \in Nat
  BY <1>3, <1>5 DEF sale, Account
<1>14. sale.sold <= total_stake_shares + minted /\ sale.near <= total_for_staking + amount
  BY <1>5, <1>8 DEF CanBurn
<1>15. StakedAndCleared(amount, minted, nslp_account.stake_shares, sale.sold, sale.near)
  BY <1>2, <1>5, <1>6, <1>7, <1>8, <1>12, <1>13, <1>14 DEF StakedAndCleared
<1>16. DepositSaved(id, minted, nslp_account.stake_shares, sale.sold, sale.near)
  <2>1. \A k \in Named \ {id} : AccountOf(k)' = AccountOf(k)
    BY <1>8, Ids DEF AccountOf
  <2>2. mine = [acc0 EXCEPT !.stake_shares = @ + minted]
    <3>1. acc.available - staked = acc0.available
      BY <1>2, <1>3, <1>4, <1>5
    <3> QED
      BY <1>3, <3>1 DEF mine, acc, Account
  <2>3. AccountOf(id)' = mine
    BY <1>8 DEF AccountOf
  <2>4. nslp_account' = pool
    <3>1. CASE NSLP \in DOMAIN accounts
      BY <1>8, <3>1, Ids DEF nslp_account, AccountOf
    <3>2. CASE NSLP \notin DOMAIN accounts
      <4>1. nslp_account = NoAccount /\ nslp_account' = NoAccount
        BY <1>8, <3>2, Ids DEF nslp_account, AccountOf
      <4>2. sale.sold = 0 /\ sale.near = 0
        BY <1>13, <4>1 DEF Clearing, NoAccount
      <4>3. nslp_account.available + sale.near = 0 /\ nslp_account.stake_shares - sale.sold = 0
        BY <4>1, <4>2 DEF NoAccount
      <4>4. pool = [NoAccount EXCEPT !.available = 0, !.stake_shares = 0]
        BY <4>1, <4>3 DEF pool
      <4> QED
        BY <4>1, <4>4 DEF NoAccount
    <3> QED
      BY <3>1, <3>2
  <2> QED
    BY <1>8, <2>1, <2>2, <2>3, <2>4 DEF DepositSaved, acc0, pool
<1> QED
  BY <1>2, <1>6, <1>7, <1>11, <1>13, <1>15, <1>16

(* The price after a call is at least the price before it.                 *)
PriceKept ==
  total_stake_shares > 0
    => total_for_staking' * total_stake_shares >= total_for_staking * total_stake_shares'

(* A deposit and its clearing together do not lower the price: what is     *)
(* sold in part is exactly what the deposit minted.                        *)
LEMMA ClearingKeepsPrice ==
  ASSUME NEW T \in Nat, NEW S \in Nat, S > 0, S <= T,
         NEW amount \in Nat, NEW m \in Nat, NEW shares \in Nat,
         NEW sold \in Nat, NEW near \in Nat,
         m = shares_from_amount(amount, T, S),
         sold = Clearing(shares, amount, T + amount, S + m).sold,
         near = Clearing(shares, amount, T + amount, S + m).near,
         sold <= S + m, near <= T + amount
  PROVE  (T + amount - near) * S >= T * (S + m - sold)
<1> DEFINE valued == amount_from_shares(shares, T + amount, S + m)
<1>1. m \in Nat /\ T * m <= amount * S
  BY SharesBought
<1>2. T + amount \in Nat /\ S + m \in Nat /\ S + m > 0
  BY <1>1
<1>3. (T + amount) * S >= T * (S + m)
  BY <1>1, MintKeepsPrice
<1>4. shares_from_amount(amount, T + amount, S + m) = m
  BY BuysWhatItMinted
<1>5. valued \in Nat /\ (S + m) * valued <= shares * (T + amount)
  BY <1>2, SharesSold
<1>6. CASE shares = 0
  <2>1. sold = 0 /\ near = 0
    BY <1>6 DEF Clearing
  <2>2. T + amount - 0 = T + amount /\ S + m - 0 = S + m
    BY <1>1
  <2> QED
    BY <1>3, <2>1, <2>2
<1>7. CASE shares > 0 /\ amount >= valued
  <2>1. sold = shares /\ near = valued
    BY <1>7 DEF Clearing
  <2>2. (S + m) * near <= sold * (T + amount)
    BY <1>5, <2>1
  <2>3. (T + amount - near) * (S + m) >= (T + amount) * (S + m - sold)
    BY <1>2, <2>2, BurnKeepsPrice
  <2>4. T + amount - near \in Nat /\ S + m - sold \in Nat
    BY <1>1
  <2> QED
    BY <1>2, <1>3, <2>3, <2>4, PriceTransitive
<1>8. CASE shares > 0 /\ amount < valued
  <2>1. sold = m /\ near = amount
    BY <1>4, <1>5, <1>8 DEF Clearing
  <2>2. T + amount - near = T /\ S + m - sold = S
    BY <1>1, <2>1
  <2>3. T * S >= T * S
    BY Z3
  <2> QED
    BY <2>2, <2>3
<1> QED
  BY <1>5, <1>6, <1>7, <1>8

(* A deposit that is staked (lib.rs, internal.rs).                         *)
LEMMA DepositAndStakeStep ==
  ASSUME IInv, NEW id \in Users \cup Lockups, NEW attached \in Deposits,
         DepositAndStake(id, attached)
  PROVE  IInv' /\ PriceKept
<1>1. AccountsOK /\ TotalsOK /\ StakeOK /\ CallsOK
  BY IInvParts
<1>2. AccountsOK'
  BY DepositComputes
<1>3. PICK amount, minted, shares, sold, near \in Nat :
         StakedAndCleared(amount, minted, shares, sold, near)
  BY DepositComputes
<1> USE <1>3 DEF StakedAndCleared
<1>4. UNCHANGED <<epoch_unstake_orders, claimVars, callVars>> /\ CallsOK'
  BY <1>1, Deposit DEF DepositAndStake
<1>5. TotalsOK'
  BY <1>1, <1>4 DEF TotalsOK, BooksMatch, claimVars
<1>6. total_for_staking + amount \in Nat /\ total_stake_shares + minted \in Nat
  BY <1>1 DEF StakeOK
<1>7. total_stake_shares + minted <= total_for_staking + amount
  BY <1>1, SharesBought DEF StakeOK, PriceAtLeastOne, stake_shares_from_amount
<1>8. total_stake_shares + minted - sold <= total_for_staking + amount - near
  <2>1. \A V, U \in Nat :
          /\ U <= V /\ sold <= U /\ near <= V
          /\ sold = Clearing(shares, amount, V, U).sold
          /\ near = Clearing(shares, amount, V, U).near
          => U - sold <= V - near
    BY ClearingSafe
  <2> QED
    BY <1>1, <1>6, <1>7, <2>1 DEF StakeOK
<1>9. StakeOK'
  BY <1>1, <1>6, <1>8 DEF StakeOK, PriceAtLeastOne
<1>10. PriceKept
  <2>1. SUFFICES ASSUME total_stake_shares > 0
                 PROVE  total_for_staking' * total_stake_shares
                          >= total_for_staking * total_stake_shares'
    BY DEF PriceKept
  <2>2. (total_for_staking + amount - near) * total_stake_shares
          >= total_for_staking * (total_stake_shares + minted - sold)
    BY <1>1, <2>1, ClearingKeepsPrice DEF StakeOK, PriceAtLeastOne, stake_shares_from_amount
  <2> QED
    BY <2>2
<1> QED
  BY <1>2, <1>4, <1>5, <1>9, <1>10, IInvPartsNext

(* What is staked is taken from the account and minted at the price.       *)
LEMMA Minted ==
  ASSUME StakeOK, NEW amount \in Nat,
         total_for_staking' = total_for_staking + amount,
         total_stake_shares' = total_stake_shares + stake_shares_from_amount(amount)
  PROVE  stake_shares_from_amount(amount) \in Nat /\ StakeOK' /\ PriceKept
<1> DEFINE m == stake_shares_from_amount(amount)
<1>1. /\ m \in Nat /\ m <= amount
      /\ total_stake_shares > 0 => total_for_staking * m <= amount * total_stake_shares
  BY SharesBought DEF StakeOK, PriceAtLeastOne, stake_shares_from_amount
<1> HIDE DEF m
<1>2. StakeOK'
  BY <1>1 DEF StakeOK, PriceAtLeastOne, m
<1>3. total_stake_shares > 0 =>
        (total_for_staking + amount) * total_stake_shares
          >= total_for_staking * (total_stake_shares + m)
  BY <1>1, MintKeepsPrice DEF StakeOK
<1> QED
  BY <1>1, <1>2, <1>3 DEF PriceKept, m

(* What is unstaked is burned at the price.                                *)
LEMMA Burned ==
  ASSUME StakeOK, NEW shares \in Nat, NEW amount,
         amount = amount_from_stake_shares(shares),
         shares <= total_stake_shares, amount <= total_for_staking,
         total_stake_shares' = total_stake_shares - shares,
         total_for_staking' = total_for_staking - amount
  PROVE  amount \in Nat /\ StakeOK' /\ PriceKept
<1>1. amount \in Nat /\ total_stake_shares * amount <= shares * total_for_staking
  BY SharesSold DEF StakeOK, amount_from_stake_shares
<1>2. /\ (total_for_staking - amount) * total_stake_shares
           >= total_for_staking * (total_stake_shares - shares)
      /\ total_stake_shares - shares <= total_for_staking - amount
  BY <1>1, BurnKeepsPrice DEF StakeOK, PriceAtLeastOne
<1> QED
  BY <1>1, <1>2 DEF StakeOK, PriceAtLeastOne, PriceKept

(* A call that leaves the stake alone leaves the price alone.              *)
LEMMA SamePrice == ASSUME StakeOK, UNCHANGED stakeVars PROVE PriceKept
<1>1. total_for_staking * total_stake_shares \in Nat
  BY Z3 DEF StakeOK
<1> QED
  BY <1>1 DEF PriceKept, stakeVars

(* The liquidity pool's NEAR staked by the operator.                       *)
LEMMA StakeFromNslpStep ==
  ASSUME IInv, NEW amount \in Requests, StakeFromNslp(amount)
  PROVE  IInv' /\ PriceKept
<1> DEFINE staked == Taken(NSLP, nslp_account.available, amount)
           minted == stake_shares_from_amount(staked)
<1>1. AccountsOK /\ TotalsOK /\ StakeOK /\ CallsOK
  BY IInvParts
<1>2. amount \in Nat /\ nslp_account \in Account
  BY <1>1, NslpType, AmountsAssumption
<1>3. staked \in Nat
  BY <1>2 DEF Taken, Account
<1>4. /\ staked <= nslp_account.available /\ staked <= total_available
      /\ Save(NSLP, [nslp_account EXCEPT !.available = @ - staked,
                                         !.stake_shares = @ + minted])
      /\ total_available' = total_available - staked
      /\ total_for_staking' = total_for_staking + staked
      /\ total_stake_shares' = total_stake_shares + minted
      /\ epoch_stake_orders' = epoch_stake_orders + staked
      /\ UNCHANGED <<storage_paid, epoch_unstake_orders, claimVars,
                     contract_account_balance, callVars>>
  BY DEF StakeFromNslp, CanTake
<1> HIDE DEF staked
<1>5. minted \in Nat /\ StakeOK' /\ PriceKept
  BY <1>1, <1>3, <1>4, Minted
<1>6. AccountsOK'
  <2>1. nslp_account.available - staked \in Nat /\ nslp_account.stake_shares + minted \in Nat
    BY <1>2, <1>3, <1>4, <1>5 DEF Account
  <2>2. [nslp_account EXCEPT !.available = @ - staked, !.stake_shares = @ + minted] \in Account
    BY <1>2, <2>1, AvailableSharesChanged
  <2> QED
    BY <1>1, <1>4, <2>2, SaveKeeps, Ids
<1>7. TotalsOK'
  BY <1>1, <1>3, <1>4 DEF TotalsOK, BooksMatch, claimVars
<1> QED
  BY <1>1, <1>4, <1>5, <1>6, <1>7, SameCalls, IInvPartsNext

-----------------------------------------------------------------------------
(* Delayed unstake and withdrawal.                                         *)

(* stNEAR burned for a claim.                                              *)
LEMMA UnstakeSharesStep ==
  ASSUME IInv, NEW id \in Users \cup Lockups, NEW shares \in Nat, UnstakeShares(id, shares)
  PROVE  IInv' /\ PriceKept
<1> DEFINE amount == amount_from_stake_shares(shares)
<1>1. AccountsOK /\ TotalsOK /\ StakeOK /\ CallsOK
  BY IInvParts
<1>2. /\ id \in DOMAIN accounts /\ shares <= accounts[id].stake_shares
      /\ shares <= total_stake_shares /\ amount <= total_for_staking
      /\ epoch_unstake_orders' = epoch_unstake_orders + amount
      /\ total_unstake_claims' = total_unstake_claims + amount
      /\ total_stake_shares' = total_stake_shares - shares
      /\ total_for_staking' = total_for_staking - amount
      /\ UNCHANGED <<storage_paid, epoch_stake_orders, retrieved_for_unstake_claims,
                     nearVars, callVars>>
  BY DEF UnstakeShares, CanBurn
<1>3. PICK delay \in Delays :
        Save(id, [accounts[id] EXCEPT
          !.stake_shares = @ - shares, !.unstaked = @ + amount,
          !.unstaked_requested_unlock_epoch = epoch + delay])
  BY DEF UnstakeShares
<1> HIDE DEF amount
<1>4. amount \in Nat /\ StakeOK' /\ PriceKept
  BY <1>1, <1>2, Burned DEF amount
<1>5. AccountsOK'
  <2>1. PICK old \in Account : old = accounts[id] /\ old.available = 0
    BY <1>1, <1>2, AccountOfType, Ids
  <2>2. PICK stake \in Nat : stake = old.stake_shares - shares
    BY <1>2, <2>1 DEF Account
  <2>3. PICK claim \in Nat : claim = old.unstaked + amount
    BY <1>4 DEF Account
  <2>4. PICK unlock \in Nat : unlock = epoch + delay
    BY <1>1, AmountsAssumption DEF CallsOK
  <2> DEFINE new == [old EXCEPT !.stake_shares = stake, !.unstaked = claim,
                                !.unstaked_requested_unlock_epoch = unlock]
  <2>5. Save(id, new)
    BY <1>3, <2>1, <2>2, <2>3, <2>4
  <2>6. new \in Account /\ new.available = 0
    BY <2>1 DEF Account
  <2> HIDE DEF new
  <2> QED
    BY <1>1, <2>5, <2>6, SaveKeeps, Ids
<1>6. TotalsOK'
  BY <1>1, <1>2, <1>4 DEF TotalsOK, BooksMatch, nearVars
<1> QED
  BY <1>1, <1>2, <1>4, <1>5, <1>6, SameCalls, IInvPartsNext

(* The call of a user, for an amount,                                      *)
LEMMA UnstakeStep ==
  ASSUME IInv, NEW id \in Users \cup Lockups, NEW requested \in Requests,
         Unstake(id, requested)
  PROVE  IInv' /\ PriceKept
<1>1. AccountOf(id).stake_shares \in Nat
  BY IInvParts, AccountOfType DEF Account
<1>2. stake_shares_from_amount(requested) \in Nat
  BY IInvParts, AmountsAssumption, SharesBought DEF StakeOK, stake_shares_from_amount
<1> QED
  BY <1>1, <1>2, UnstakeSharesStep DEF Unstake

(* and for everything.                                                     *)
LEMMA UnstakeAllStep ==
  ASSUME IInv, NEW id \in Users \cup Lockups, UnstakeAll(id)
  PROVE  IInv' /\ PriceKept
<1>1. AccountOf(id).stake_shares \in Nat
  BY IInvParts, AccountOfType DEF Account
<1> QED
  BY <1>1, UnstakeSharesStep DEF UnstakeAll

(* A claim paid out.                                                       *)
LEMMA WithdrawStep ==
  ASSUME IInv, NEW id \in Users \cup Lockups, NEW requested \in Nat, Withdraw(id, requested)
  PROVE  IInv' /\ PriceKept
<1> DEFINE acc == [accounts[id] EXCEPT !.unstaked = @ - requested, !.available = @ + requested]
           taken == Taken(id, acc.available, requested)
<1>1. AccountsOK /\ TotalsOK /\ StakeOK /\ CallsOK
  BY IInvParts
<1>2. /\ id \in DOMAIN accounts /\ requested <= accounts[id].unstaked
      /\ retrieved_for_unstake_claims >= requested /\ total_unstake_claims >= requested
      /\ Save(id, [acc EXCEPT !.available = @ - taken])
      /\ retrieved_for_unstake_claims' = retrieved_for_unstake_claims - requested
      /\ total_unstake_claims' = total_unstake_claims - requested
      /\ total_available' = total_available + requested - taken
      /\ contract_account_balance >= taken
      /\ contract_account_balance' = contract_account_balance - taken
      /\ UNCHANGED <<storage_paid, orderVars, stakeVars, callVars>>
  BY DEF Withdraw, native_transfer
<1>3. acc \in Account /\ acc.available = requested
  <2>1. PICK old \in Account : old = accounts[id] /\ old.available = 0
    BY <1>1, <1>2, AccountOfType, Ids
  <2>2. PICK left \in Nat : left = old.unstaked - requested
    BY <1>2, <2>1 DEF Account
  <2>3. old.available + requested = requested
    BY <2>1
  <2>4. acc = [old EXCEPT !.unstaked = left, !.available = requested]
    BY <2>1, <2>2, <2>3
  <2> HIDE DEF acc
  <2> QED
    BY <2>4 DEF Account
<1>4. taken = requested
  BY <1>3, TakesAll
<1> HIDE DEF acc, taken
<1>5. AccountsOK'
  <2>1. acc.available - taken \in Nat /\ acc.available - taken = 0
    BY <1>3, <1>4
  <2>2. LET new == [acc EXCEPT !.available = @ - taken] IN new \in Account /\ new.available = 0
    BY <1>3, <2>1, AvailableChanged
  <2> QED
    BY <1>1, <1>2, <2>2, SaveKeeps, Ids
<1>6. TotalsOK'
  BY <1>1, <1>2, <1>4 DEF TotalsOK, BooksMatch, orderVars
<1> QED
  BY <1>1, <1>2, <1>5, <1>6, SameStake, SamePrice, SameCalls, IInvPartsNext

(* The same, for everything.                                               *)
LEMMA WithdrawAllStep ==
  ASSUME IInv, NEW id \in Users \cup Lockups, WithdrawAll(id)
  PROVE  IInv' /\ PriceKept
<1>1. AccountOf(id).unstaked \in Nat
  BY IInvParts, AccountOfType DEF Account
<1> QED
  BY <1>1, WithdrawStep DEF WithdrawAll

-----------------------------------------------------------------------------
(* The liquidity pool.                                                     *)

(* The value of stNEAR, and the stNEAR for a value, are numbers.           *)
LEMMA StakeAmountType ==
  ASSUME StakeOK
  PROVE  /\ \A amount \in Nat : stake_shares_from_amount(amount) \in Nat
         /\ \A shares \in Nat : amount_from_stake_shares(shares) \in Nat
  BY SharesBought, SharesSold DEF StakeOK, stake_shares_from_amount, amount_from_stake_shares

(* What the liquidity pool is worth, and its shares, are numbers.          *)
LEMMA PoolValueType ==
  ASSUME AccountsOK, StakeOK
  PROVE  /\ total_pool_value \in Nat
         /\ \A amount \in Nat : nslp_shares_from_amount(amount) \in Nat
         /\ \A shares \in Nat : amount_from_nslp_shares(shares) \in Nat
<1>1. nslp_account.available \in Nat /\ nslp_account.stake_shares \in Nat
        /\ nslp_account.nslp_shares \in Nat
  BY NslpType DEF Account
<1>2. total_pool_value \in Nat
  <2>1. amount_from_stake_shares(nslp_account.stake_shares) \in Nat
    BY <1>1, StakeAmountType
  <2> QED
    BY <1>1, <2>1 DEF total_pool_value
<1> QED
  BY <1>1, <1>2, SharesBought, SharesSold DEF nslp_shares_from_amount, amount_from_nslp_shares

(* The discount is one of those configured, below the whole.               *)
LEMMA DiscountType ==
  ASSUME NEW available_near \in Nat, NEW requested \in Nat
  PROVE  /\ internal_get_discount_basis_points(available_near, requested) \in Nat
         /\ internal_get_discount_basis_points(available_near, requested) <= 9999
<1> DEFINE range == nslp_max_discount_basis_points - nslp_min_discount_basis_points
           after == available_near - requested
           part  == proportional(range, after, nslp_liquidity_target)
<1>1. PICK lo \in Nat, hi \in Nat, target \in Nat :
        /\ lo = nslp_min_discount_basis_points /\ hi = nslp_max_discount_basis_points
        /\ target = nslp_liquidity_target
        /\ target > 0 /\ lo <= hi /\ hi <= 9999
  <2>1. nslp_min_discount_basis_points \in Nat
    BY FeesAssumption
  <2>2. nslp_max_discount_basis_points \in Nat
          /\ nslp_min_discount_basis_points <= nslp_max_discount_basis_points
          /\ nslp_max_discount_basis_points <= 9999
    BY <2>1, FeesAssumption
  <2>3. nslp_liquidity_target \in Nat /\ nslp_liquidity_target > 0
    BY FeesAssumption
  <2> QED
    BY <2>1, <2>2, <2>3
<1>2. range \in Nat /\ range = hi - lo
  BY <1>1
<1>3. ASSUME available_near > requested, ~(after >= target)
      PROVE  part \in Nat /\ part <= range
  <2>1. after \in Nat /\ after < target
    BY <1>1, <1>3
  <2>2. part = proportional(range, after, target)
    BY <1>1
  <2> HIDE DEF after, range
  <2>3. part \in Nat /\ target * part <= range * after
    BY <1>1, <1>2, <2>1, <2>2, ProportionalFloor
  <2> HIDE DEF part
  <2>4. range * after <= range * target
    BY <1>1, <1>2, <2>1, Z3
  <2> QED
    BY <1>1, <1>2, <2>1, <2>3, <2>4, Z3
<1>4. internal_get_discount_basis_points(available_near, requested) =
        IF available_near <= requested THEN hi
        ELSE IF after >= target THEN lo ELSE hi - part
  BY <1>1 DEF internal_get_discount_basis_points
<1>5. CASE available_near <= requested
  BY <1>1, <1>4, <1>5
<1>6. CASE available_near > requested /\ after >= target
  <2>1. internal_get_discount_basis_points(available_near, requested) = lo
    BY <1>4, <1>6
  <2> QED
    BY <1>1, <2>1
<1>7. CASE available_near > requested /\ ~(after >= target)
  <2>1. internal_get_discount_basis_points(available_near, requested) = hi - part
    BY <1>4, <1>7
  <2>2. part \in Nat /\ part <= hi - lo
    BY <1>2, <1>3, <1>7
  <2> HIDE DEF part
  <2>3. hi - part \in Nat /\ hi - part <= 9999
    BY <1>1, <2>2
  <2> QED
    BY <2>1, <2>3
<1> QED
  BY <1>5, <1>6, <1>7

(* A quote pays a natural amount and cuts natural numbers of stNEAR.       *)
LEMMA QuoteType ==
  ASSUME AccountsOK, StakeOK, NEW shares \in Nat
  PROVE  /\ Quote(shares).near \in Nat
         /\ Quote(shares).treasury \in Nat
         /\ Quote(shares).operator \in Nat
         /\ Quote(shares).developers \in Nat
<1> DEFINE out      == amount_from_stake_shares(shares)
           discount == internal_get_discount_basis_points(nslp_account.available, out)
           fee      == apply_pct(discount, out)
           fee_shares == stake_shares_from_amount(fee)
<1>1. out \in Nat
  BY SharesSold DEF amount_from_stake_shares, StakeOK
<1>2. discount \in Nat /\ discount <= 9999
  <2>1. nslp_account.available \in Nat
    BY NslpType DEF Account
  <2>2. PICK a, o \in Nat : a = nslp_account.available /\ o = out
    BY <1>1, <2>1
  <2>3. internal_get_discount_basis_points(a, o) \in Nat
          /\ internal_get_discount_basis_points(a, o) <= 9999
    BY DiscountType
  <2>4. discount = internal_get_discount_basis_points(a, o)
    BY <2>2
  <2> HIDE DEF discount
  <2> QED
    BY <2>3, <2>4
<1>3. fee \in Nat /\ fee <= out
  BY <1>1, <1>2, TwoFees
<1> HIDE DEF out, discount, fee
<1>4. fee_shares \in Nat
  BY <1>3, SharesBought DEF stake_shares_from_amount, StakeOK
<1> HIDE DEF fee_shares
<1>5. \A bp \in Nat : apply_pct(bp, fee_shares) \in Nat
  <2>1. SUFFICES ASSUME NEW bp \in Nat PROVE apply_pct(bp, fee_shares) \in Nat
    OBVIOUS
  <2>2. bp * fee_shares \in Nat
    BY <1>4, Z3
  <2> QED
    BY <2>2, Floor DEF apply_pct
<1>6. Quote(shares) =
        [near |-> out - fee, fee_shares |-> fee_shares,
         treasury   |-> apply_pct(treasury_swap_cut_basis_points, fee_shares),
         operator   |-> apply_pct(operator_swap_cut_basis_points, fee_shares),
         developers |-> apply_pct(DEVELOPERS_SWAP_CUT_BASIS_POINTS, fee_shares)]
  BY DEF Quote, out, discount, fee, fee_shares
<1> QED
  BY <1>1, <1>3, <1>5, <1>6, FeesAssumption

(* NEAR paid out of the available NEAR is paid out of the books too.       *)
LEMMA PaidOut ==
  ASSUME TotalsOK, NEW near \in Nat, near <= total_available,
         total_available' = total_available - near, native_transfer(near),
         UNCHANGED <<orderVars, claimVars>>
  PROVE  TotalsOK'
  BY DEF TotalsOK, BooksMatch, native_transfer, orderVars, claimVars

(* A sale of stNEAR to the liquidity pool.                                 *)
LEMMA LiquidUnstakeStep ==
  ASSUME IInv, NEW id \in Users, NEW requested \in Requests, NEW min,
         LiquidUnstake(id, requested, min)
  PROVE  IInv' /\ PriceKept
<1> DEFINE owned == AccountOf(id).stake_shares
           sold  == IF is_close(requested, owned) THEN owned ELSE requested
           quote == Quote(sold)
           cuts  == quote.treasury + quote.operator + quote.developers
           near  == AccountOf(id).available + quote.near
           taken == Taken(id, near, quote.near)
           Cut(k) == CASE k = TREASURY -> quote.treasury
                       [] k = OPERATOR -> quote.operator
                       [] OTHER        -> quote.developers
<1>1. AccountsOK /\ TotalsOK /\ StakeOK /\ CallsOK
  BY IInvParts
<1>2. /\ id \in DOMAIN accounts /\ sold <= owned /\ quote.near <= nslp_account.available
      /\ id \notin FeeAccounts /\ sold >= cuts /\ taken <= total_available
      /\ accounts' = [k \in DOMAIN accounts \cup FeeAccounts \cup {NSLP} |->
           IF k = id
           THEN [accounts[id] EXCEPT !.available = near - taken, !.stake_shares = @ - sold]
           ELSE IF k = NSLP
           THEN [nslp_account EXCEPT !.available = @ - quote.near,
                                     !.stake_shares = @ + (sold - cuts)]
           ELSE IF k \in FeeAccounts
           THEN [AccountOf(k) EXCEPT !.stake_shares = @ + Cut(k)]
           ELSE accounts[k]]
      /\ total_available' = total_available - taken
      /\ native_transfer(taken)
      /\ UNCHANGED <<storage_paid, orderVars, claimVars, stakeVars, callVars>>
  BY DEF LiquidUnstake, MaySell, CanTake
<1>3. /\ AccountOf(id) \in Account /\ AccountOf(id).available = 0
      /\ AccountOf(id) = accounts[id] /\ nslp_account \in Account
  BY <1>1, <1>2, AccountOfType, NslpType, Ids
<1>4. sold \in Nat
  BY <1>3, AmountsAssumption DEF Account
<1>5. /\ quote.near \in Nat /\ quote.treasury \in Nat
      /\ quote.operator \in Nat /\ quote.developers \in Nat
  BY <1>1, <1>4, QuoteType
<1>6. near = quote.near /\ taken = quote.near
  BY <1>3, <1>5, TakesAll
<1> HIDE DEF sold, quote, near, taken
<1>7. [accounts[id] EXCEPT !.available = near - taken, !.stake_shares = @ - sold] \in Account
        /\ [accounts[id] EXCEPT !.available = near - taken,
                                !.stake_shares = @ - sold].available = 0
  <2>1. PICK old \in Account : old = accounts[id] /\ old.stake_shares = owned
    BY <1>3
  <2>2. PICK left \in Nat : left = old.stake_shares - sold
    BY <1>2, <1>4, <2>1 DEF Account
  <2>3. near - taken = 0
    BY <1>5, <1>6
  <2>4. LET new == [old EXCEPT !.available = 0, !.stake_shares = left]
        IN  new \in Account /\ new.available = 0
    BY DEF Account
  <2> QED
    BY <2>1, <2>2, <2>3, <2>4
<1>8. [nslp_account EXCEPT !.available = @ - quote.near, !.stake_shares = @ + (sold - cuts)]
        \in Account
  <2>1. PICK left \in Nat : left = nslp_account.available - quote.near
    BY <1>2, <1>3, <1>5 DEF Account
  <2>2. PICK more \in Nat : more = nslp_account.stake_shares + (sold - cuts)
    BY <1>2, <1>3, <1>4, <1>5 DEF Account
  <2>3. [nslp_account EXCEPT !.available = left, !.stake_shares = more] \in Account
    BY <1>3 DEF Account
  <2> QED
    BY <2>1, <2>2, <2>3
<1>9. ASSUME NEW k \in FeeAccounts
      PROVE  /\ [AccountOf(k) EXCEPT !.stake_shares = @ + Cut(k)] \in Account
             /\ [AccountOf(k) EXCEPT !.stake_shares = @ + Cut(k)].available = 0
  <2>1. PICK old \in Account : old = AccountOf(k) /\ old.available = 0
    BY <1>1, AccountOfType, Ids DEF Named
  <2>2. Cut(k) \in Nat
    BY <1>5
  <2>3. PICK more \in Nat : more = old.stake_shares + Cut(k)
    BY <2>2 DEF Account
  <2>4. LET new == [old EXCEPT !.stake_shares = more] IN new \in Account /\ new.available = 0
    BY <2>1 DEF Account
  <2> QED
    BY <2>1, <2>3, <2>4
<1>10. AccountsOK'
  <2>1. \A k \in FeeAccounts : k \in AccountIds /\ k # NSLP
    BY Ids DEF Named
  <2> HIDE DEF cuts, Cut
  <2> QED
    BY <1>1, <1>2, <1>7, <1>8, <1>9, <2>1, Ids DEF AccountsOK, OnlyPoolKeepsNear
<1>11. TotalsOK'
  BY <1>1, <1>2, <1>5, <1>6, PaidOut
<1> QED
  BY <1>1, <1>2, <1>10, <1>11, SameStake, SamePrice, SameCalls, IInvPartsNext

(* Liquidity added.                                                        *)
LEMMA AddLiquidityStep ==
  ASSUME IInv, NEW id \in Users, NEW attached \in Deposits, AddLiquidity(id, attached)
  PROVE  IInv' /\ PriceKept
<1> DEFINE amount == Deposited(id, attached)
           acc    == [AccountOf(id) EXCEPT !.available = @ + amount]
           added  == Taken(id, acc.available, amount)
           minted == nslp_shares_from_amount(added)
           mine   == [acc EXCEPT !.available = @ - added, !.nslp_shares = @ + minted]
           pool   == [nslp_account EXCEPT !.available = @ + added, !.nslp_shares = @ + minted]
<1>1. AccountsOK /\ TotalsOK /\ StakeOK /\ CallsOK
  BY IInvParts
<1>2. /\ SaveBoth(id, mine, NSLP, pool)
      /\ contract_account_balance' = contract_account_balance + amount
      /\ total_available' = total_available + amount
      /\ UNCHANGED <<orderVars, claimVars, stakeVars, callVars>>
  BY DEF AddLiquidity
<1>3. amount \in Nat /\ CallsOK'
  BY <1>1, <1>2, Deposit DEF AddLiquidity
<1> HIDE DEF amount
<1>4. acc \in Account /\ acc.available = amount
  <2>1. PICK old \in Account : old = AccountOf(id) /\ old.available = 0
    BY <1>1, AccountOfType, Ids
  <2>2. acc = [old EXCEPT !.available = amount]
    BY <1>3, <2>1
  <2> HIDE DEF acc
  <2> QED
    BY <1>3, <2>2 DEF Account
<1>5. added = amount
  BY <1>4, TakesAll
<1> HIDE DEF acc, added
<1>6. minted \in Nat
  BY <1>1, <1>3, <1>5, PoolValueType
<1> HIDE DEF minted
<1>7. mine \in Account /\ mine.available = 0
  <2>1. PICK more \in Nat : more = acc.nslp_shares + minted
    BY <1>4, <1>6 DEF Account
  <2>2. acc.available - added = 0
    BY <1>3, <1>4, <1>5
  <2>3. mine = [acc EXCEPT !.available = 0, !.nslp_shares = more]
    BY <2>1, <2>2
  <2> HIDE DEF mine
  <2> QED
    BY <1>4, <2>3 DEF Account
<1>8. pool \in Account
  <2>1. nslp_account \in Account
    BY <1>1, NslpType
  <2>2. PICK near \in Nat : near = nslp_account.available + added
    BY <1>3, <1>5, <2>1 DEF Account
  <2>3. PICK more \in Nat : more = nslp_account.nslp_shares + minted
    BY <1>6, <2>1 DEF Account
  <2>4. pool = [nslp_account EXCEPT !.available = near, !.nslp_shares = more]
    BY <2>2, <2>3
  <2> HIDE DEF pool
  <2> QED
    BY <2>1, <2>4 DEF Account
<1> HIDE DEF mine, pool
<1>9. AccountsOK'
  BY <1>1, <1>2, <1>7, <1>8, SaveBothKeeps, Ids
<1>10. TotalsOK'
  BY <1>1, <1>2, <1>3 DEF TotalsOK, BooksMatch, orderVars, claimVars
<1> QED
  BY <1>1, <1>2, <1>3, <1>9, <1>10, SameStake, SamePrice, IInvPartsNext

(* What leaves the pool is counted in natural numbers.                     *)
LEMMA RemovalType ==
  ASSUME AccountsOK, StakeOK, NEW id, NEW requested \in Nat,
         Removal(id, requested).burned > 0,
         Removal(id, requested).burned <= nslp_account.nslp_shares
  PROVE  /\ Removal(id, requested).value \in Nat /\ Removal(id, requested).burned \in Nat
         /\ Removal(id, requested).st_near \in Nat
         /\ Removal(id, requested).st_near_value \in Nat
<1> DEFINE out == Removal(id, requested)
<1>1. AccountOf(id).nslp_shares \in Nat /\ nslp_account.stake_shares \in Nat
        /\ nslp_account.nslp_shares \in Nat
  BY AccountOfType, NslpType DEF Account
<1>2. out.value \in Nat
  BY <1>1, PoolValueType DEF Removal
<1>3. out.burned \in Nat
  BY <1>1, PoolValueType DEF Removal
<1>4. out.st_near = proportional(nslp_account.stake_shares, out.burned, nslp_account.nslp_shares)
        /\ out.st_near_value = amount_from_stake_shares(out.st_near)
  BY DEF Removal
<1>5. out.burned > 0 /\ out.burned <= nslp_account.nslp_shares
  OBVIOUS
<1> HIDE DEF out
<1>6. out.st_near \in Nat
  <2>1. PICK a, n, d \in Nat : a = nslp_account.stake_shares /\ n = out.burned
                                /\ d = nslp_account.nslp_shares
    BY <1>1, <1>3
  <2>2. n > 0 /\ n <= d
    BY <1>5, <2>1
  <2>3. d > 0
    BY <2>2
  <2>4. proportional(a, n, d) \in Nat
    BY <2>3, ProportionalFloor
  <2> QED
    BY <1>4, <2>1, <2>4
<1>7. out.st_near_value \in Nat
  BY <1>4, <1>6, StakeAmountType
<1> QED
  BY <1>2, <1>3, <1>6, <1>7 DEF out

(* Liquidity removed, in NEAR and in stNEAR.                               *)
LEMMA RemoveLiquidityStep ==
  ASSUME IInv, NEW id \in Users, NEW requested \in Requests, RemoveLiquidity(id, requested)
  PROVE  IInv' /\ PriceKept
<1> DEFINE out   == Removal(id, requested)
           near  == out.value - out.st_near_value
           taken == Taken(id, accounts[id].available + near, near)
           mine  == [accounts[id] EXCEPT !.available = @ + near - taken,
                       !.stake_shares = @ + out.st_near, !.nslp_shares = @ - out.burned]
           pool  == [nslp_account EXCEPT !.available = @ - near,
                       !.stake_shares = @ - out.st_near, !.nslp_shares = @ - out.burned]
<1>1. AccountsOK /\ TotalsOK /\ StakeOK /\ CallsOK
  BY IInvParts
<1>2. /\ id \in DOMAIN accounts /\ out.burned > 0
      /\ out.value >= out.st_near_value /\ near <= nslp_account.available
      /\ out.burned <= accounts[id].nslp_shares /\ out.st_near <= nslp_account.stake_shares
      /\ out.burned <= nslp_account.nslp_shares
      /\ taken <= total_available
      /\ SaveBoth(id, mine, NSLP, pool)
      /\ total_available' = total_available - taken
      /\ native_transfer(taken)
      /\ UNCHANGED <<storage_paid, orderVars, claimVars, stakeVars, callVars>>
  BY DEF RemoveLiquidity, CanTake, CanBurn
<1>3. PICK old \in Account : old = accounts[id] /\ old.available = 0 /\ old = AccountOf(id)
  BY <1>1, <1>2, AccountOfType, Ids
<1>4. nslp_account \in Account
  BY <1>1, NslpType
<1>5. out.value \in Nat /\ out.burned \in Nat /\ out.st_near \in Nat
        /\ out.st_near_value \in Nat
  BY <1>1, <1>2, AmountsAssumption, RemovalType
<1> HIDE DEF out
<1>6. near \in Nat /\ old.available + near = near
  BY <1>2, <1>3, <1>5
<1>7. taken = near
  BY <1>3, <1>6, TakesAll
<1> HIDE DEF near, taken
<1>8. mine \in Account /\ mine.available = 0
  <2>1. PICK stake \in Nat : stake = old.stake_shares + out.st_near
    BY <1>5 DEF Account
  <2>2. PICK left \in Nat : left = old.nslp_shares - out.burned
    BY <1>2, <1>3, <1>5 DEF Account
  <2>3. old.available + near - taken = 0
    BY <1>3, <1>6, <1>7
  <2>4. mine = [old EXCEPT !.available = 0, !.stake_shares = stake, !.nslp_shares = left]
    BY <1>3, <2>1, <2>2, <2>3
  <2> HIDE DEF mine
  <2> QED
    BY <2>4 DEF Account
<1>9. pool \in Account
  <2>1. PICK less \in Nat : less = nslp_account.available - near
    BY <1>2, <1>4, <1>6 DEF Account
  <2>2. PICK stake \in Nat : stake = nslp_account.stake_shares - out.st_near
    BY <1>2, <1>4, <1>5 DEF Account
  <2>3. PICK left \in Nat : left = nslp_account.nslp_shares - out.burned
    BY <1>2, <1>4, <1>5 DEF Account
  <2>4. pool = [nslp_account EXCEPT !.available = less, !.stake_shares = stake,
                                    !.nslp_shares = left]
    BY <2>1, <2>2, <2>3
  <2> HIDE DEF pool
  <2> QED
    BY <1>4, <2>4 DEF Account
<1> HIDE DEF mine, pool
<1>10. AccountsOK'
  BY <1>1, <1>2, <1>8, <1>9, SaveBothKeeps, Ids
<1>11. TotalsOK'
  BY <1>1, <1>2, <1>6, <1>7, PaidOut
<1> QED
  BY <1>1, <1>2, <1>10, <1>11, SameStake, SamePrice, SameCalls, IInvPartsNext

-----------------------------------------------------------------------------
(* Transfers and storage.                                                  *)

(* stNEAR moved between two accounts.                                      *)
LEMMA MoveKeeps ==
  ASSUME AccountsOK, NEW sender \in Users, NEW receiver \in Named, NEW amount \in Nat,
         Move(sender, receiver, amount)
  PROVE  AccountsOK'
<1> DEFINE less == [accounts[sender] EXCEPT !.stake_shares = @ - amount]
           more == [accounts[receiver] EXCEPT !.stake_shares = @ + amount]
<1>1. /\ sender \in DOMAIN accounts /\ receiver \in DOMAIN accounts
      /\ amount <= accounts[sender].stake_shares
      /\ SaveBoth(sender, less, receiver, more)
  BY DEF Move
<1>2. less \in Account /\ less.available = 0
  <2>1. PICK old \in Account : old = accounts[sender] /\ old.available = 0
    BY <1>1, AccountOfType, Ids
  <2>2. PICK left \in Nat : left = old.stake_shares - amount
    BY <1>1, <2>1 DEF Account
  <2>3. less = [old EXCEPT !.stake_shares = left]
    BY <2>1, <2>2
  <2> HIDE DEF less
  <2> QED
    BY <2>1, <2>3 DEF Account
<1>3. more \in Account /\ more.available = 0
  <2>1. PICK old \in Account : old = accounts[receiver] /\ old.available = 0
    BY <1>1, AccountOfType, Ids
  <2>2. PICK sum \in Nat : sum = old.stake_shares + amount
    BY DEF Account
  <2>3. more = [old EXCEPT !.stake_shares = sum]
    BY <2>1, <2>2
  <2> HIDE DEF more
  <2> QED
    BY <2>1, <2>3 DEF Account
<1> HIDE DEF less, more
<1> QED
  BY <1>1, <1>2, <1>3, SaveBothKeeps, Ids

(* A transfer.                                                             *)
LEMMA TransferStep ==
  ASSUME IInv, NEW sender \in Users, NEW receiver \in Named, NEW amount \in Requests,
         ft_transfer(sender, receiver, amount)
  PROVE  IInv' /\ PriceKept
<1>1. AccountsOK /\ TotalsOK /\ StakeOK /\ CallsOK
  BY IInvParts
<1>2. AccountsOK'
  BY <1>1, MoveKeeps, AmountsAssumption DEF ft_transfer
<1>3. UNCHANGED <<storage_paid, orderVars, claimVars, stakeVars, nearVars, callVars>>
  BY DEF ft_transfer
<1> QED
  BY <1>1, <1>2, <1>3, SameTotals, SameStake, SamePrice, SameCalls, IInvPartsNext

(* A transfer call, which leaves its resolution behind.                    *)
LEMMA TransferCallStep ==
  ASSUME IInv, NEW sender \in Users, NEW receiver \in Named, NEW amount \in Requests,
         ft_transfer_call(sender, receiver, amount)
  PROVE  IInv' /\ PriceKept
<1>1. AccountsOK /\ TotalsOK /\ StakeOK /\ CallsOK
  BY IInvParts
<1>2. amount \in Nat
  BY AmountsAssumption
<1>3. AccountsOK'
  BY <1>1, <1>2, MoveKeeps DEF ft_transfer_call
<1>4. /\ UNCHANGED <<storage_paid, orderVars, claimVars, stakeVars, nearVars>>
      /\ UNCHANGED <<contract_busy, epoch>>
      /\ resolving' = resolving
           \cup {[sender |-> sender, receiver |-> receiver, amount |-> amount]}
  BY DEF ft_transfer_call
<1>5. CallsOK'
  BY <1>1, <1>2, <1>4 DEF CallsOK
<1> QED
  BY <1>1, <1>3, <1>4, <1>5, SameTotals, SameStake, SamePrice, IInvPartsNext

(* The resolution gives back no more than the receiver has.                *)
LEMMA ResolveTransferStep ==
  ASSUME IInv, NEW call \in resolving, NEW unused \in 0..call.amount,
         ft_resolve_transfer(call, unused)
  PROVE  IInv' /\ PriceKept
<1> DEFINE from   == AccountOf(call.receiver)
           to     == AccountOf(call.sender)
           refund == Lesser(from.stake_shares, unused)
           less   == [from EXCEPT !.stake_shares = @ - refund]
           more   == [to EXCEPT !.stake_shares = @ + refund]
<1>1. AccountsOK /\ TotalsOK /\ StakeOK /\ CallsOK
  BY IInvParts
<1>2. call.sender \in Users /\ call.receiver \in Named /\ call.amount \in Nat
  BY <1>1 DEF CallsOK
<1>3. /\ call.sender \in AccountIds /\ call.sender # NSLP
      /\ call.receiver \in AccountIds /\ call.receiver # NSLP
  BY <1>2, Ids
<1>4. /\ resolving' = resolving \ {call}
      /\ IF refund = 0 THEN UNCHANGED accounts
         ELSE SaveBoth(call.receiver, less, call.sender, more)
      /\ UNCHANGED <<storage_paid, orderVars, claimVars, stakeVars, nearVars>>
      /\ UNCHANGED <<contract_busy, epoch>>
  BY DEF ft_resolve_transfer
<1>5. PICK giver \in Account : giver = from /\ giver.available = 0
  BY <1>1, <1>3, AccountOfType
<1>6. PICK taker \in Account : taker = to /\ taker.available = 0
  BY <1>1, <1>3, AccountOfType
<1>7. refund \in Nat /\ refund <= giver.stake_shares
  BY <1>2, <1>5 DEF Lesser, Account
<1> HIDE DEF refund
<1>8. less \in Account /\ less.available = 0
  <2>1. PICK left \in Nat : left = giver.stake_shares - refund
    BY <1>7 DEF Account
  <2>2. less = [giver EXCEPT !.stake_shares = left]
    BY <1>5, <2>1
  <2> HIDE DEF less
  <2> QED
    BY <1>5, <2>2 DEF Account
<1>9. more \in Account /\ more.available = 0
  <2>1. PICK sum \in Nat : sum = taker.stake_shares + refund
    BY <1>7 DEF Account
  <2>2. more = [taker EXCEPT !.stake_shares = sum]
    BY <1>6, <2>1
  <2> HIDE DEF more
  <2> QED
    BY <1>6, <2>2 DEF Account
<1> HIDE DEF less, more
<1>10. AccountsOK'
  <2>1. CASE refund = 0
    BY <1>1, <1>4, <2>1, SameAccounts
  <2>2. CASE refund # 0
    BY <1>1, <1>3, <1>4, <1>8, <1>9, <2>2, SaveBothKeeps
  <2> QED
    BY <2>1, <2>2
<1>11. CallsOK'
  BY <1>1, <1>4 DEF CallsOK
<1> QED
  BY <1>1, <1>4, <1>10, <1>11, SameTotals, SameStake, SamePrice, IInvPartsNext

(* An account is opened.                                                   *)
LEMMA StorageDepositStep ==
  ASSUME IInv, NEW id \in Named, StorageDeposit(id)
  PROVE  IInv' /\ PriceKept
<1>1. AccountsOK /\ TotalsOK /\ StakeOK /\ CallsOK
  BY IInvParts
<1>2. /\ Save(id, NoAccount) /\ PayForStorage(id)
      /\ UNCHANGED <<orderVars, claimVars, stakeVars, nearVars, callVars>>
  BY DEF StorageDeposit
<1>3. NoAccount \in Account /\ NoAccount.available = 0
  BY DEF NoAccount, Account
<1>4. AccountsOK'
  BY <1>1, <1>2, <1>3, SaveKeeps, Ids
<1>5. CallsOK'
  BY <1>1, <1>2 DEF CallsOK, PayForStorage, callVars
<1> QED
  BY <1>1, <1>2, <1>4, <1>5, SameTotals, SameStake, SamePrice, IInvPartsNext

(* An empty account is closed.                                             *)
LEMMA StorageUnregisterStep ==
  ASSUME IInv, NEW id \in Users, StorageUnregister(id)
  PROVE  IInv' /\ PriceKept
<1>1. AccountsOK /\ TotalsOK /\ StakeOK /\ CallsOK
  BY IInvParts
<1>2. /\ accounts' = [k \in DOMAIN accounts \ {id} |-> accounts[k]]
      /\ storage_paid' = storage_paid \ {id}
      /\ UNCHANGED <<orderVars, claimVars, stakeVars, nearVars, callVars>>
  BY DEF StorageUnregister
<1>3. AccountsOK'
  BY <1>1, <1>2 DEF AccountsOK, OnlyPoolKeepsNear
<1>4. CallsOK'
  BY <1>1, <1>2 DEF CallsOK, callVars
<1> QED
  BY <1>1, <1>2, <1>3, <1>4, SameTotals, SameStake, SamePrice, IInvPartsNext

-----------------------------------------------------------------------------
(* What Heartbeat does.                                                    *)

(* A staking pool is asked.                                                *)
LEMMA AskRewardsStep ==
  ASSUME IInv, AskRewards
  PROVE  IInv' /\ PriceKept
<1>1. AccountsOK /\ TotalsOK /\ StakeOK /\ CallsOK
  BY IInvParts
<1>2. /\ contract_busy' = TRUE
      /\ UNCHANGED <<storage_paid, orderVars, claimVars, stakeVars, nearVars>>
      /\ UNCHANGED <<accounts, resolving, epoch>>
  BY DEF AskRewards
<1>3. AccountsOK'
  BY <1>1, <1>2, SameAccounts
<1>4. CallsOK'
  BY <1>1, <1>2 DEF CallsOK
<1> QED
  BY <1>1, <1>2, <1>3, <1>4, SameTotals, SameStake, SamePrice, IInvPartsNext

(* The fees on a reward are minted out of the reward: the price rises, and *)
(* each stNEAR of a fee is worth at least one.                             *)
LEMMA FeesWithinRewards ==
  ASSUME NEW T \in Nat, NEW S \in Nat, S <= T, NEW r \in Nat,
         NEW f \in Nat, NEW g \in Nat, f + g <= r,
         NEW V \in Nat, V = T + r,
         NEW m \in Nat, NEW n \in Nat,
         m = shares_from_amount(f, V, S), n = shares_from_amount(g, V, S)
  PROVE  /\ S + m + n <= V
         /\ S > 0 => V * S >= T * (S + m + n)
<1>1. f + g <= r
  OBVIOUS
<1>2. S <= V
  OBVIOUS
<1>3. m <= f /\ (S > 0 => V * m <= f * S)
  BY <1>2, SharesBought
<1>4. n <= g /\ (S > 0 => V * n <= g * S)
  BY <1>2, SharesBought
<1>5. S + m + n <= V
  BY <1>1, <1>3, <1>4
<1>6. ASSUME S > 0 PROVE V * S >= T * (S + m + n)
  <2>1. V * m + V * n <= r * S
    <3>1. (f + g) * S <= r * S
      BY <1>1, Z3
    <3>2. f * S + g * S = (f + g) * S
      BY <1>1, Z3
    <3>3. f * S \in Nat /\ g * S \in Nat /\ V * m \in Nat /\ V * n \in Nat /\ r * S \in Nat
      BY Z3
    <3> QED
      BY <1>3, <1>4, <1>6, <3>1, <3>2, <3>3
  <2>2. T * (m + n) <= V * m + V * n
    BY Z3
  <2>3. T * (m + n) <= r * S
    <3>1. T * (m + n) \in Nat /\ V * m + V * n \in Nat /\ r * S \in Nat
      BY Z3
    <3> QED
      BY <2>1, <2>2, <3>1
  <2>4. T * (S + (m + n)) <= (T + r) * S
    <3>1. m + n \in Nat
      OBVIOUS
    <3> QED
      BY <2>3, <3>1, MintKeepsPrice
  <2> QED
    BY <2>4
<1> QED
  BY <1>5, <1>6

(* A reward is shared out.                                                 *)
LEMMA DistributeRewardsStep ==
  ASSUME IInv, NEW rewards \in RewardAmounts, DistributeRewards(rewards)
  PROVE  IInv' /\ PriceKept
<1> DEFINE value == total_for_staking + rewards
           Fee(bp) == shares_from_amount(apply_pct(bp, rewards), value, total_stake_shares)
           operator   == Fee(operator_rewards_fee_basis_points)
           developers == Fee(DEVELOPERS_REWARDS_FEE_BASIS_POINTS)
<1>1. AccountsOK /\ TotalsOK /\ StakeOK /\ CallsOK
  BY IInvParts
<1>2. /\ contract_busy' = FALSE
      /\ total_for_staking' = value
      /\ total_stake_shares' = total_stake_shares + operator + developers
      /\ accounts' = [k \in DOMAIN accounts
                            \cup {x \in {OPERATOR} : operator > 0}
                            \cup {x \in {DEVELOPERS} : developers > 0} |->
           [AccountOf(k) EXCEPT !.stake_shares = @
              + (IF k = OPERATOR THEN operator ELSE 0)
              + (IF k = DEVELOPERS THEN developers ELSE 0)]]
      /\ UNCHANGED <<storage_paid, orderVars, claimVars, nearVars>>
      /\ UNCHANGED <<resolving, epoch>>
  BY DEF DistributeRewards
<1>3. rewards \in Nat /\ value \in Nat
  BY <1>1, AmountsAssumption DEF StakeOK
<1>4. \A bp \in Nat : bp <= 10000 => Fee(bp) \in Nat
  <2>1. SUFFICES ASSUME NEW bp \in Nat, bp <= 10000 PROVE Fee(bp) \in Nat
    OBVIOUS
  <2>2. apply_pct(bp, rewards) \in Nat
    <3>1. bp + 0 <= 10000
      BY <2>1
    <3> QED
      BY <1>3, <3>1, TwoFees
  <2> QED
    BY <1>1, <1>3, <2>2, SharesBought DEF StakeOK
<1>5. PICK a \in Nat, b \in Nat : /\ a = operator_rewards_fee_basis_points
                                /\ b = DEVELOPERS_REWARDS_FEE_BASIS_POINTS
                                /\ a + b <= 10000
  BY FeesAssumption
<1>6. operator \in Nat /\ developers \in Nat
  BY <1>4, <1>5
<1>7. /\ total_stake_shares' <= total_for_staking'
      /\ total_stake_shares > 0 =>
           total_for_staking' * total_stake_shares >= total_for_staking * total_stake_shares'
  <2>1. PICK T \in Nat, S \in Nat : T = total_for_staking /\ S = total_stake_shares /\ S <= T
    BY <1>1 DEF StakeOK, PriceAtLeastOne
  <2>2. PICK m \in Nat, n \in Nat : m = operator /\ n = developers
    BY <1>6
  <2> PICK r \in Nat : r = rewards
    BY <1>3
  <2>3. PICK f \in Nat, g \in Nat : f = apply_pct(a, r) /\ g = apply_pct(b, r) /\ f + g <= r
    BY <1>5, TwoFees
  <2>4. PICK V \in Nat : V = T + r
    OBVIOUS
  <2>5. m = shares_from_amount(f, V, S) /\ n = shares_from_amount(g, V, S)
    BY <1>5, <2>1, <2>2, <2>3, <2>4
  <2>6. total_for_staking' = V /\ total_stake_shares' = S + m + n
    BY <1>2, <2>1, <2>2, <2>4
  <2> HIDE DEF operator, developers
  <2>7. /\ S + m + n <= V
        /\ S > 0 => V * S >= T * (S + m + n)
    <3> HIDE DEF operator, developers, value, Fee
    <3>1. S <= T
      BY <2>1
    <3>2. f + g <= r
      BY <2>3
    <3> QED
      BY <2>4, <2>5, <3>1, <3>2, FeesWithinRewards, Zenon
  <2> QED
    BY <2>1, <2>6, <2>7
<1> HIDE DEF operator, developers
<1>8. StakeOK' /\ PriceKept
  BY <1>1, <1>2, <1>3, <1>6, <1>7 DEF StakeOK, PriceAtLeastOne, PriceKept
<1> HIDE DEF value, Fee
<1>9. AccountsOK'
  <2>1. OPERATOR \in AccountIds /\ DEVELOPERS \in AccountIds
    BY Ids DEF Named, FeeAccounts
  <2>2. DOMAIN accounts' \subseteq AccountIds
    BY <1>1, <1>2, <2>1 DEF AccountsOK
  <2>3. ASSUME NEW k PROVE /\ accounts'[k] \in Account \/ k \notin DOMAIN accounts'
                           /\ k \in DOMAIN accounts' /\ k # NSLP => accounts'[k].available = 0
    <3>1. PICK old \in Account : old = AccountOf(k) /\ (k # NSLP => old.available = 0)
      BY <1>1, AccountOfType
    <3>2. PICK more \in Nat : more = old.stake_shares
                                       + (IF k = OPERATOR THEN operator ELSE 0)
                                       + (IF k = DEVELOPERS THEN developers ELSE 0)
      BY <1>6 DEF Account
    <3>3. LET new == [old EXCEPT !.stake_shares = more]
          IN  new \in Account /\ new.available = old.available
      BY DEF Account
    <3>4. k \in DOMAIN accounts' => accounts'[k] = [old EXCEPT !.stake_shares = more]
      BY <1>2, <3>1, <3>2
    <3> QED
      BY <3>1, <3>3, <3>4
  <2>4. accounts' \in [DOMAIN accounts' -> Account]
    BY <1>2, <2>3
  <2> QED
    BY <2>2, <2>3, <2>4 DEF AccountsOK, OnlyPoolKeepsNear
<1>10. TotalsOK'
  BY <1>1, <1>2, SameTotals
<1>11. CallsOK'
  BY <1>1, <1>2 DEF CallsOK
<1> QED
  BY <1>8, <1>9, <1>10, <1>11, IInvPartsNext

(* An epoch passes.                                                        *)
LEMMA CycleStep ==
  ASSUME IInv, NEW retrieved \in Nat, Cycle(retrieved)
  PROVE  IInv' /\ PriceKept
<1>1. AccountsOK /\ TotalsOK /\ StakeOK /\ CallsOK
  BY IInvParts
<1>2. AccountsOK' /\ StakeOK' /\ PriceKept
  BY <1>1, SameAccounts, SameStake, SamePrice DEF Cycle
<1>3. TotalsOK'
  BY <1>1 DEF Cycle, TotalsOK, BooksMatch
<1>4. CallsOK'
  BY <1>1 DEF Cycle, CallsOK
<1> QED
  BY <1>2, <1>3, <1>4, IInvPartsNext

-----------------------------------------------------------------------------
(* The specification.                                                      *)

(* A new contract satisfies the invariant, whoever is registered.          *)
LEMMA InitSafe ==
  ASSUME NEW ids \in SUBSET Named, InitWith(ids)
  PROVE  IInv
<1>1. ids \subseteq AccountIds
  BY DEF AccountIds
<1>2. NoAccount \in Account /\ NoAccount.available = 0
  BY DEF NoAccount, Account
<1>3. AccountsOK
  BY <1>1, <1>2 DEF InitWith, AccountsOK, OnlyPoolKeepsNear
<1>4. TotalsOK /\ StakeOK
  BY DEF InitWith, TotalsOK, BooksMatch, StakeOK, PriceAtLeastOne
<1>5. CallsOK
  BY DEF InitWith, CallsOK
<1> QED
  BY <1>3, <1>4, <1>5, IInvParts

(* Every step keeps the invariant, and the price.                          *)
LEMMA StepSafe ==
  ASSUME IInv, [Next]_vars
  PROVE  IInv' /\ PriceKept
<1>1. CASE StakingCalls
  <2>1. PICK id \in Users :
          \/ \E a \in Deposits : DepositAndStake(id, a)
          \/ \E a \in Requests : Unstake(id, a) \/ Withdraw(id, a)
          \/ UnstakeAll(id) \/ WithdrawAll(id)
    BY <1>1 DEF StakingCalls
  <2>2. CASE \E a \in Deposits : DepositAndStake(id, a)
    BY <2>2, DepositAndStakeStep
  <2>3. CASE \E a \in Requests : Unstake(id, a)
    BY <2>3, UnstakeStep
  <2>4. CASE \E a \in Requests : Withdraw(id, a)
    BY <2>4, WithdrawStep, AmountsAssumption
  <2>5. CASE UnstakeAll(id)
    BY <2>5, UnstakeAllStep
  <2>6. CASE WithdrawAll(id)
    BY <2>6, WithdrawAllStep
  <2> QED
    BY <2>1, <2>2, <2>3, <2>4, <2>5, <2>6
<1>2. CASE LockupCalls
  <2>1. PICK id \in Lockups :
          \/ \E a \in Deposits : DepositAndStake(id, a)
          \/ \E a \in Requests : UnstakeFromLockupShares(id, a) \/ Withdraw(id, a)
    BY <1>2 DEF LockupCalls
  <2>2. CASE \E a \in Deposits : DepositAndStake(id, a)
    BY <2>2, DepositAndStakeStep
  <2>3. CASE \E a \in Requests : UnstakeFromLockupShares(id, a)
    BY <2>3, UnstakeSharesStep, AmountsAssumption DEF UnstakeFromLockupShares
  <2>4. CASE \E a \in Requests : Withdraw(id, a)
    BY <2>4, WithdrawStep, AmountsAssumption
  <2> QED
    BY <2>1, <2>2, <2>3, <2>4
<1>3. CASE LiquidityCalls
  <2>1. CASE \E id \in Users : \E a \in Deposits : AddLiquidity(id, a)
    BY <2>1, AddLiquidityStep
  <2>2. CASE \E id \in Users : \E a \in Requests, min \in {0} \cup Requests :
               LiquidUnstake(id, a, min)
    BY <2>2, LiquidUnstakeStep
  <2>3. CASE \E id \in Users : \E a \in Requests : RemoveLiquidity(id, a)
    BY <2>3, RemoveLiquidityStep
  <2>4. CASE \E a \in Requests : StakeFromNslp(a)
    BY <2>4, StakeFromNslpStep
  <2> QED
    BY <1>3, <2>1, <2>2, <2>3, <2>4 DEF LiquidityCalls
<1>4. CASE TokenCalls
  <2>1. CASE \E sender \in Users, receiver \in Named, a \in Requests :
               ft_transfer(sender, receiver, a)
    BY <2>1, TransferStep
  <2>2. CASE \E sender \in Users, receiver \in Named, a \in Requests :
               ft_transfer_call(sender, receiver, a)
    BY <2>2, TransferCallStep
  <2>3. CASE \E call \in resolving : \E unused \in 0..call.amount :
               ft_resolve_transfer(call, unused)
    BY <2>3, ResolveTransferStep
  <2> QED
    BY <1>4, <2>1, <2>2, <2>3 DEF TokenCalls
<1>5. CASE StorageCalls
  BY <1>5, StorageDepositStep, StorageUnregisterStep DEF StorageCalls
<1>6. CASE HeartbeatCalls
  <2>1. \A r \in 0..MAX_SUPPLY : r \in Nat
    BY AmountsAssumption
  <2> QED
    BY <1>6, <2>1, AskRewardsStep, DistributeRewardsStep, CycleStep DEF HeartbeatCalls
<1>7. CASE UNCHANGED vars
  <2>1. AccountsOK /\ TotalsOK /\ StakeOK /\ CallsOK
    BY IInvParts
  <2> QED
    BY <1>7, <2>1, SameAccounts, SameTotals, SameStake, SamePrice, SameCalls, IInvPartsNext
    DEF vars
<1> QED
  BY <1>1, <1>2, <1>3, <1>4, <1>5, <1>6, <1>7 DEF Next

(* The invariant holds in every state of every behaviour.                  *)
THEOREM Invariant == Spec => []IInv
<1>1. Init => IInv
  <2>1. {} \in SUBSET Named
    OBVIOUS
  <2> QED
    BY <2>1, InitSafe DEF Init
<1>2. IInv /\ [Next]_vars => IInv'
  BY StepSafe
<1> QED
  BY <1>1, <1>2, PTL DEF Spec

(* Balances and totals never become negative, and every account is one     *)
(* that can exist, whatever calls are made (lib.rs, account.rs).           *)
THEOREM TypeCorrect == Spec => []TypeOK
<1>1. IInv => TypeOK
  BY DEF IInv
<1> QED
  BY <1>1, Invariant, PTL

(* The NEAR the contract believes to hold is the available NEAR, the       *)
(* reserve for claims and what waits to be staked (lib.rs, internal.rs).   *)
THEOREM BooksAlwaysMatch == Spec => []BooksMatch
<1>1. IInv => BooksMatch
  BY DEF IInv
<1> QED
  BY <1>1, Invariant, PTL

(* Only the liquidity pool keeps NEAR between calls: what a call moves     *)
(* through an account it moves out again (account.rs:take_from_available). *)
THEOREM NoNearKept == Spec => []OnlyPoolKeepsNear
<1>1. IInv => OnlyPoolKeepsNear
  BY DEF IInv
<1> QED
  BY <1>1, Invariant, PTL

(* One stNEAR is worth at least one NEAR, whatever is rounded (lib.rs,     *)
(* internal.rs, utils.rs).                                                 *)
THEOREM PriceBounded == Spec => []PriceAtLeastOne
<1>1. IInv => PriceAtLeastOne
  BY DEF IInv
<1> QED
  BY <1>1, Invariant, PTL

(* The price of stNEAR never falls: deposits, the clearing against the     *)
(* liquidity pool, unstaking and rewards all round in favour of those who  *)
(* stay (internal.rs).                                                     *)
THEOREM PriceMonotone == Spec => PriceNeverFalls
<1>1. IInv /\ [Next]_vars =>
        [total_stake_shares > 0
           => total_for_staking' * total_stake_shares
                >= total_for_staking * total_stake_shares']_vars
  BY StepSafe DEF PriceKept
<1> QED
  BY <1>1, Invariant, PTL DEF Spec, PriceNeverFalls

(* No call changes the price while a reward is being asked for             *)
(* (assert_not_busy, internal.rs).                                         *)
THEOREM PriceFrozen == Spec => PriceFrozenWhileBusy
<1>1. [Next]_vars => [contract_busy /\ contract_busy' => UNCHANGED stakeVars]_vars
  <2>1. SUFFICES ASSUME Next, contract_busy, contract_busy' PROVE UNCHANGED stakeVars
    OBVIOUS
  <2>2. \A id, a : ~DepositAndStake(id, a)
    BY <2>1 DEF DepositAndStake, assert_not_busy
  <2>3. \A id, n : ~UnstakeShares(id, n)
    BY <2>1 DEF UnstakeShares, assert_not_busy
  <2>4. \A id, a : Withdraw(id, a) => UNCHANGED stakeVars
    BY DEF Withdraw
  <2>5. CASE StakingCalls
    BY <2>5, <2>2, <2>3, <2>4 DEF StakingCalls, Unstake, UnstakeAll, WithdrawAll
  <2>6. CASE LockupCalls
    BY <2>6, <2>2, <2>3, <2>4 DEF LockupCalls, UnstakeFromLockupShares
  <2>7. CASE LiquidityCalls
    BY <2>1, <2>7 DEF LiquidityCalls, AddLiquidity, LiquidUnstake, RemoveLiquidity,
       StakeFromNslp, assert_not_busy
  <2>8. CASE TokenCalls
    BY <2>1, <2>8 DEF TokenCalls, ft_transfer, ft_transfer_call, ft_resolve_transfer
  <2>9. CASE StorageCalls
    BY <2>1, <2>9 DEF StorageCalls, StorageDeposit, StorageUnregister
  <2>10. CASE HeartbeatCalls
    BY <2>1, <2>10 DEF HeartbeatCalls, AskRewards, DistributeRewards, Cycle
  <2> QED
    BY <2>1, <2>5, <2>6, <2>7, <2>8, <2>9, <2>10 DEF Next
<1> QED
  BY <1>1, PTL DEF Spec, PriceFrozenWhileBusy
=============================================================================
