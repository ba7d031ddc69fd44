------------------------- MODULE StakingPool_proofs -------------------------
(***************************************************************************)
(* The staking pool, for any delegators, amounts, fees and rewards: its    *)
(* calls keep the shares, the price and the guarantee fund in order, take  *)
(* nothing from an account but what is paid out to it, and change and      *)
(* refuse as the pools of Heartbeat do.                                    *)
(***************************************************************************)
EXTENDS StakingPoolProperties, Sums_proofs, ShareMath_proofs

(***************************************************************************)
(* What holds of the contract's fields between the steps of a call, after  *)
(* c conversions.                                                          *)
(***************************************************************************)
Good(p, c) ==
  /\ p \in Pool
  /\ 0 < p.total_stake_shares
  /\ p.total_stake_shares <= p.total_staked_balance
  /\ p.total_stake_shares =
       (INITIAL_BALANCE - STAKE_SHARE_PRICE_GUARANTEE_FUND) + AllShares(p)
  /\ p.total_staked_balance + AllUnstaked(p) + STAKE_SHARE_PRICE_GUARANTEE_FUND
       <= p.last_total_balance + c

\* A share of q is worth at least a share of p.
Dearer(p, q) ==
  q.total_staked_balance * p.total_stake_shares >= p.total_staked_balance * q.total_stake_shares

-----------------------------------------------------------------------------
(* Arithmetic of the two roundings.                                        *)

(* A quotient rounded up is the smallest natural above the exact one.      *)
LEMMA Ceiling ==
  ASSUME NEW p \in Nat, NEW d \in Nat, d > 0
  PROVE  /\ QuotientUp(p, d) \in Nat
         /\ p <= d * QuotientUp(p, d)
         /\ d * QuotientUp(p, d) < p + d
<1>1. PICK n \in Nat : n = p + (d - 1)
  OBVIOUS
<1>2. /\ n \div d \in Nat
      /\ d * (n \div d) <= n
      /\ n < d * (n \div d) + d
  BY Floor
<1>3. QuotientUp(p, d) = n \div d
  BY <1>1 DEF QuotientUp
<1>4. PICK q \in Nat : q = n \div d
  BY <1>2
<1>5. PICK dq \in Nat : dq = d * q
  BY Z3
<1>6. dq <= n /\ n < dq + d
  BY <1>2, <1>4, <1>5
<1>7. p <= dq /\ dq < p + d
  BY <1>1, <1>6
<1> QED
  BY <1>3, <1>4, <1>5, <1>7

(* The two roundings of one quotient are at most one apart.                *)
LEMMA OneApart ==
  ASSUME NEW p \in Nat, NEW d \in Nat, d > 0,
         NEW down \in Nat, NEW up \in Nat,
         d * down <= p, p < d * down + d, p <= d * up, d * up < p + d
  PROVE  down <= up /\ up <= down + 1
<1>1. d * down < d * (up + 1)
  BY Z3
<1>2. d * up < d * (down + 2)
  BY Z3
<1> QED
  BY <1>1, <1>2, Z3

(* A value rounded down buys its shares back, rounded up.                  *)
LEMMA BuysBack ==
  ASSUME NEW S \in Nat, NEW T \in Nat, NEW shares \in Nat, NEW amount \in Nat,
         0 < S, S <= T,
         S * amount <= T * shares, T * shares < S * amount + S
  PROVE  QuotientUp(S * amount, T) = shares
<1>1. PICK n \in Nat : n = S * amount
  BY Z3
<1>2. T > 0
  OBVIOUS
<1> DEFINE k == QuotientUp(n, T)
<1>3. k \in Nat /\ n <= T * k /\ T * k < n + T
  BY <1>2, Ceiling
<1> HIDE DEF k
<1>4. T * k < T * (shares + 1)
  BY <1>1, <1>3, Z3
<1>5. T * shares < T * (k + 1)
  BY <1>1, <1>3, Z3
<1>6. k = shares
  BY <1>3, <1>4, <1>5, Z3
<1> QED
  BY <1>1, <1>6 DEF k

-----------------------------------------------------------------------------
(* Accounts.                                                               *)

(* The sums over the accounts are naturals, no account exceeds them, and   *)
(* they follow from the accounts alone.                                    *)
LEMMA AccountsSum ==
  ASSUME NEW p \in Pool, NEW id \in Delegators
  PROVE  /\ p.accounts[id].stake_shares \in Nat /\ p.accounts[id].unstaked \in Nat
         /\ AllShares(p) \in Nat /\ AllUnstaked(p) \in Nat
         /\ p.accounts[id].stake_shares <= AllShares(p)
         /\ p.accounts[id].unstaked <= AllUnstaked(p)
<1> DEFINE f == [i \in Delegators |-> p.accounts[i].stake_shares]
           g == [i \in Delegators |-> p.accounts[i].unstaked]
<1>1. IsFiniteSet(Delegators)
  BY PoolAssumption
<1>2. f \in [Delegators -> Nat] /\ g \in [Delegators -> Nat]
  BY DEF Pool, Account
<1>3. f[id] = p.accounts[id].stake_shares /\ g[id] = p.accounts[id].unstaked
  OBVIOUS
<1>4. f[id] \in Nat /\ g[id] \in Nat
  BY <1>2
<1> HIDE DEF f, g
<1>5. SumOf(f) \in Nat /\ SumOf(g) \in Nat
  BY <1>1, <1>2, SumNat
<1>6. f[id] <= SumOf(f) /\ g[id] <= SumOf(g)
  BY <1>1, <1>2, SumAtLeast
<1>7. AllShares(p) = SumOf(f) /\ AllUnstaked(p) = SumOf(g)
  BY DEF AllShares, AllUnstaked, f, g
<1> QED
  BY <1>3, <1>4, <1>5, <1>6, <1>7

(* When one account changes, the sums change by as much.                   *)
LEMMA OneAccount ==
  ASSUME NEW p \in Pool, NEW q \in Pool, NEW id \in Delegators,
         \A other \in Delegators \ {id} : q.accounts[other] = p.accounts[other]
  PROVE  /\ AllShares(q) + p.accounts[id].stake_shares
              = AllShares(p) + q.accounts[id].stake_shares
         /\ AllUnstaked(q) + p.accounts[id].unstaked
              = AllUnstaked(p) + q.accounts[id].unstaked
<1> DEFINE f(r) == [i \in Delegators |-> r.accounts[i].stake_shares]
           g(r) == [i \in Delegators |-> r.accounts[i].unstaked]
<1>1. IsFiniteSet(Delegators)
  BY PoolAssumption
<1>2. /\ f(p) \in [Delegators -> Nat] /\ g(p) \in [Delegators -> Nat]
      /\ f(q) \in [Delegators -> Nat] /\ g(q) \in [Delegators -> Nat]
  BY DEF Pool, Account
<1>3. \A other \in Delegators \ {id} :
         f(q)[other] = f(p)[other] /\ g(q)[other] = g(p)[other]
  OBVIOUS
<1>4. /\ f(p)[id] = p.accounts[id].stake_shares /\ g(p)[id] = p.accounts[id].unstaked
      /\ f(q)[id] = q.accounts[id].stake_shares /\ g(q)[id] = q.accounts[id].unstaked
  OBVIOUS
<1>5. /\ AllShares(p) = SumOf(f(p)) /\ AllUnstaked(p) = SumOf(g(p))
      /\ AllShares(q) = SumOf(f(q)) /\ AllUnstaked(q) = SumOf(g(q))
  BY DEF AllShares, AllUnstaked
<1> HIDE DEF f, g
<1>6. SumOf(f(q)) + f(p)[id] = SumOf(f(p)) + f(q)[id]
  BY <1>1, <1>2, <1>3, SumChanged
<1>7. SumOf(g(q)) + g(p)[id] = SumOf(g(p)) + g(q)[id]
  BY <1>1, <1>2, <1>3, SumChanged
<1> QED
  BY <1>4, <1>5, <1>6, <1>7

(* Saving an account, deleted or not, stores its balances and nothing else. *)
LEMMA SavedAccount ==
  ASSUME NEW p \in Pool, NEW id \in Delegators, NEW account \in Account
  PROVE  LET q == Saved(p, id, account) IN
         /\ q \in Pool
         /\ q.total_staked_balance = p.total_staked_balance
         /\ q.total_stake_shares = p.total_stake_shares
         /\ q.last_total_balance = p.last_total_balance
         /\ q.last_epoch_height = p.last_epoch_height
         /\ AllShares(q) + p.accounts[id].stake_shares = AllShares(p) + account.stake_shares
         /\ AllUnstaked(q) + p.accounts[id].unstaked = AllUnstaked(p) + account.unstaked
<1> DEFINE q == Saved(p, id, account)
<1>1. NoAccount \in Account
  BY DEF NoAccount, Account
<1>2. /\ q \in Pool
      /\ q.total_staked_balance = p.total_staked_balance
      /\ q.total_stake_shares = p.total_stake_shares
      /\ q.last_total_balance = p.last_total_balance
      /\ q.last_epoch_height = p.last_epoch_height
      /\ \A other \in Delegators \ {id} : q.accounts[other] = p.accounts[other]
  BY <1>1 DEF Saved, Pool
<1>3. /\ q.accounts[id].stake_shares = account.stake_shares
      /\ q.accounts[id].unstaked = account.unstaked
  <2>1. account.unstaked \in Nat /\ account.stake_shares \in Nat
    BY DEF Account
  <2>2. q.accounts[id]
          = IF account.unstaked > 0 \/ account.stake_shares > 0 THEN account ELSE NoAccount
    BY DEF Saved, Pool
  <2> QED
    BY <2>1, <2>2 DEF NoAccount
<1> HIDE DEF q
<1>4. /\ AllShares(q) + p.accounts[id].stake_shares
           = AllShares(p) + q.accounts[id].stake_shares
      /\ AllUnstaked(q) + p.accounts[id].unstaked
           = AllUnstaked(p) + q.accounts[id].unstaked
  BY <1>2, OneAccount
<1> QED
  BY <1>2, <1>3, <1>4 DEF q

-----------------------------------------------------------------------------
(* The steps of the calls.                                                 *)

(* A part of a reward, at most all of it.                                  *)
LEMMA FeeOfReward ==
  ASSUME NEW p \in Pool, NEW reward \in Nat
  PROVE  FeeOf(p, reward) \in Nat /\ FeeOf(p, reward) <= reward
<1>1. PICK n \in Nat, d \in Nat :
         /\ n = p.reward_fee_fraction.numerator
         /\ d = p.reward_fee_fraction.denominator
         /\ d > 0 /\ n <= d
  BY PoolAssumption DEF Pool
<1>2. FeeOf(p, reward) = proportional(n, reward, d)
  BY <1>1 DEF FeeOf
<1> DEFINE fee == proportional(n, reward, d)
<1>3. fee \in Nat /\ d * fee <= n * reward
  BY <1>1, ProportionalFloor
<1> HIDE DEF fee
<1>4. n * reward <= d * reward
  BY <1>1, Z3
<1>5. fee <= reward
  BY <1>1, <1>3, <1>4, Z3
<1> QED
  BY <1>2, <1>3, <1>5 DEF fee

(* The reward raises the price, and the fee buys shares at the new price.  *)
LEMMA RewardArithmetic ==
  ASSUME NEW T \in Nat, NEW S \in Nat, NEW reward \in Nat, NEW fee \in Nat,
         NEW shares \in Nat,
         0 < S, S <= T, fee <= reward,
         (T + (reward - fee)) * shares <= S * fee
  PROVE  /\ S + shares <= T + reward
         /\ (T + reward) * S >= T * (S + shares)
<1>1. PICK raised \in Nat : raised = T + (reward - fee)
  OBVIOUS
<1>2. raised * shares <= S * fee /\ S <= raised /\ T <= raised
  BY <1>1
<1>3. shares <= fee
  BY <1>2, Z3
<1>4. (raised + fee) * S >= raised * (S + shares)
  BY <1>2, Z3
<1>5. raised * (S + shares) >= T * (S + shares)
  BY <1>2, Z3
<1>6. raised + fee = T + reward
  BY <1>1
<1> QED
  BY <1>2, <1>3, <1>4, <1>5, <1>6, Z3

(* internal_ping of a new epoch.                                           *)
LEMMA RewardedGood ==
  ASSUME NEW p, NEW c \in Nat, Good(p, c),
         NEW b \in Nat, p.last_total_balance <= b, NEW e \in Nat
  PROVE  LET q == [Rewarded(p, b - p.last_total_balance) EXCEPT
                     !.last_epoch_height = e, !.last_total_balance = b]
         IN  Good(q, c) /\ Dearer(p, q)
<1> DEFINE reward == b - p.last_total_balance
           fee    == FeeOf(p, reward)
           raised == [p EXCEPT !.total_staked_balance = @ + (reward - fee)]
           shares == SharesDown(raised, fee)
           q      == [Rewarded(p, reward) EXCEPT
                        !.last_epoch_height = e, !.last_total_balance = b]
<1>1. p \in Pool
  BY DEF Good
<1>2. PICK T \in Nat, S \in Nat, L \in Nat :
         /\ T = p.total_staked_balance /\ S = p.total_stake_shares
         /\ L = p.last_total_balance
  BY <1>1 DEF Pool
<1>3. 0 < S /\ S <= T /\ L <= b /\ reward = b - L
  BY <1>2 DEF Good
<1>4. PICK r \in Nat : r = reward
  BY <1>3
<1>5. fee \in Nat /\ fee <= reward
  BY <1>1, <1>4, FeeOfReward
<1>6. PICK f \in Nat : f = fee /\ f <= r
  BY <1>4, <1>5
<1>7. PICK T1 \in Nat : T1 = T + (r - f)
  BY <1>6
<1>8. raised.total_staked_balance = T1 /\ raised.total_stake_shares = S
  BY <1>1, <1>2, <1>4, <1>6, <1>7 DEF Pool
<1>9. shares = proportional(S, f, T1)
  BY <1>6, <1>8 DEF SharesDown
<1>10. T1 > 0
  BY <1>3, <1>6, <1>7
<1>11. shares \in Nat /\ T1 * shares <= S * f
  BY <1>9, <1>10, ProportionalFloor
<1>12. PICK m \in Nat : m = shares /\ T1 * m <= S * f
  BY <1>11
<1>13. S + m <= T + r /\ (T + r) * S >= T * (S + m)
  BY <1>3, <1>6, <1>7, <1>12, RewardArithmetic
<1>14. OWNER \in Delegators
  BY PoolAssumption
<1>15. /\ q \in Pool
       /\ q.total_staked_balance = T1 + f
       /\ q.total_stake_shares = S + m
       /\ q.last_total_balance = b
       /\ \A id \in Delegators \ {OWNER} : q.accounts[id] = p.accounts[id]
       /\ q.accounts[OWNER].stake_shares = p.accounts[OWNER].stake_shares + m
       /\ q.accounts[OWNER].unstaked = p.accounts[OWNER].unstaked
  <2> DEFINE w     == [p.accounts[OWNER] EXCEPT !.stake_shares = @ + m]
             accts == [p.accounts EXCEPT ![OWNER] = w]
  <2>1. w \in Account /\ w.stake_shares = p.accounts[OWNER].stake_shares + m
          /\ w.unstaked = p.accounts[OWNER].unstaked
    BY <1>1, <1>14 DEF Pool, Account
  <2>2. /\ accts \in [Delegators -> Account]
        /\ accts[OWNER] = w
        /\ \A id \in Delegators \ {OWNER} : accts[id] = p.accounts[id]
    BY <2>1, <1>1, <1>14 DEF Pool
  <2>3. raised \in Pool /\ raised.accounts = p.accounts
    BY <1>1, <1>4, <1>6, <1>7, <1>2 DEF Pool
  <2>4. Rewarded(p, reward)
          = [raised EXCEPT !.total_staked_balance = @ + fee,
                           !.total_stake_shares = @ + shares,
                           !.accounts[OWNER].stake_shares = @ + shares]
    BY DEF Rewarded
  <2> HIDE DEF raised, fee, shares, reward
  <2>5. Rewarded(p, reward)
          = [raised EXCEPT !.total_staked_balance = T1 + f,
                           !.total_stake_shares = S + m,
                           !.accounts = accts]
    BY <2>3, <2>4, <1>6, <1>8, <1>12 DEF Pool
  <2> HIDE DEF accts
  <2>6. q = [raised EXCEPT !.total_staked_balance = T1 + f,
                           !.total_stake_shares = S + m,
                           !.accounts = accts,
                           !.last_epoch_height = e, !.last_total_balance = b]
    BY <2>5, <2>3 DEF Pool
  <2>7. q \in Pool
    <3>1. PICK T2 \in Nat, S2 \in Nat : T2 = T1 + f /\ S2 = S + m
      OBVIOUS
    <3>2. q = [raised EXCEPT !.total_staked_balance = T2,
                             !.total_stake_shares = S2,
                             !.accounts = accts,
                             !.last_epoch_height = e, !.last_total_balance = b]
      BY <2>6, <3>1
    <3> HIDE DEF q
    <3> QED
      BY <3>2, <2>2, <2>3 DEF Pool
  <2>8. /\ q.total_staked_balance = T1 + f /\ q.total_stake_shares = S + m
        /\ q.last_total_balance = b /\ q.accounts = accts
    BY <2>6, <2>3 DEF Pool
  <2> QED
    BY <2>1, <2>2, <2>7, <2>8
<1> HIDE DEF q, shares, raised, fee, reward
<1>16. /\ AllShares(q) + p.accounts[OWNER].stake_shares
            = AllShares(p) + q.accounts[OWNER].stake_shares
       /\ AllUnstaked(q) + p.accounts[OWNER].unstaked
            = AllUnstaked(p) + q.accounts[OWNER].unstaked
  BY <1>1, <1>14, <1>15, OneAccount
<1>17. /\ AllShares(p) \in Nat /\ AllUnstaked(p) \in Nat
       /\ AllShares(q) \in Nat /\ AllUnstaked(q) \in Nat
       /\ p.accounts[OWNER].stake_shares \in Nat /\ p.accounts[OWNER].unstaked \in Nat
  BY <1>1, <1>14, <1>15, AccountsSum
<1>18. AllShares(q) = AllShares(p) + m /\ AllUnstaked(q) = AllUnstaked(p)
  BY <1>15, <1>16, <1>17
<1>19. T1 + f = T + r
  BY <1>6, <1>7
<1>20. Good(q, c)
  <2>1. /\ S = (INITIAL_BALANCE - STAKE_SHARE_PRICE_GUARANTEE_FUND) + AllShares(p)
        /\ T + AllUnstaked(p) + STAKE_SHARE_PRICE_GUARANTEE_FUND <= L + c
    BY <1>2 DEF Good
  <2>2. INITIAL_BALANCE \in Nat /\ STAKE_SHARE_PRICE_GUARANTEE_FUND \in Nat
    BY PoolAssumption
  <2>3. S + m = (INITIAL_BALANCE - STAKE_SHARE_PRICE_GUARANTEE_FUND) + AllShares(q)
    BY <2>1, <2>2, <1>17, <1>18
  <2>4. b = L + r
    BY <1>3, <1>4
  <2>5. T + r + AllUnstaked(q) + STAKE_SHARE_PRICE_GUARANTEE_FUND <= b + c
    BY <2>1, <2>2, <2>4, <1>17, <1>18
  <2>6. 0 < S + m
    BY <1>3
  <2> QED
    BY <2>3, <2>5, <2>6, <1>13, <1>15, <1>19 DEF Good
<1>21. Dearer(p, q)
  BY <1>2, <1>13, <1>15, <1>19 DEF Dearer
<1> QED
  BY <1>20, <1>21 DEF q, reward

\* The balance last seen and when, after a step from p to q.
Sees(p, q, last) ==
  q.last_total_balance = last /\ q.last_epoch_height = p.last_epoch_height

(***************************************************************************)
(* A step saves the account of one delegator and sets the totals: what it  *)
(* has to keep is arithmetic.                                              *)
(***************************************************************************)
LEMMA StepGood ==
  ASSUME NEW p, NEW c \in Nat, Good(p, c), NEW id \in Delegators,
         NEW account \in Account, NEW T \in Nat, NEW S \in Nat, NEW L \in Nat,
         NEW d \in Nat,
         0 < S, S <= T,
         S + p.accounts[id].stake_shares = p.total_stake_shares + account.stake_shares,
         T + account.unstaked + p.last_total_balance
           <= p.total_staked_balance + p.accounts[id].unstaked + L + d,
         T * p.total_stake_shares >= p.total_staked_balance * S
  PROVE  LET q == [Saved(p, id, account) EXCEPT !.total_staked_balance = T,
                     !.total_stake_shares = S, !.last_total_balance = L]
         IN  Good(q, c + d) /\ Dearer(p, q) /\ Sees(p, q, L)
<1> DEFINE s == Saved(p, id, account)
           q == [s EXCEPT !.total_staked_balance = T,
                          !.total_stake_shares = S, !.last_total_balance = L]
<1>1. p \in Pool
  BY DEF Good
<1>2. /\ s \in Pool
      /\ s.last_epoch_height = p.last_epoch_height
      /\ AllShares(s) + p.accounts[id].stake_shares = AllShares(p) + account.stake_shares
      /\ AllUnstaked(s) + p.accounts[id].unstaked = AllUnstaked(p) + account.unstaked
  BY <1>1, SavedAccount
<1> HIDE DEF s
<1>3. /\ q \in Pool /\ q.accounts = s.accounts
      /\ q.total_staked_balance = T /\ q.total_stake_shares = S
      /\ q.last_total_balance = L /\ q.last_epoch_height = s.last_epoch_height
  BY <1>2 DEF Pool
<1> HIDE DEF q
<1>4. AllShares(q) = AllShares(s) /\ AllUnstaked(q) = AllUnstaked(s)
  BY <1>3 DEF AllShares, AllUnstaked
<1>5. /\ AllShares(p) \in Nat /\ AllUnstaked(p) \in Nat
      /\ AllShares(q) \in Nat /\ AllUnstaked(q) \in Nat
      /\ p.accounts[id].stake_shares \in Nat /\ p.accounts[id].unstaked \in Nat
  BY <1>1, <1>3, AccountsSum
<1>6. /\ account.stake_shares \in Nat /\ account.unstaked \in Nat
      /\ p.total_staked_balance \in Nat /\ p.total_stake_shares \in Nat
      /\ p.last_total_balance \in Nat
  BY <1>1 DEF Pool, Account
<1>7. INITIAL_BALANCE \in Nat /\ STAKE_SHARE_PRICE_GUARANTEE_FUND \in Nat
  BY PoolAssumption
<1>8. /\ p.total_stake_shares =
           (INITIAL_BALANCE - STAKE_SHARE_PRICE_GUARANTEE_FUND) + AllShares(p)
      /\ p.total_staked_balance + AllUnstaked(p) + STAKE_SHARE_PRICE_GUARANTEE_FUND
           <= p.last_total_balance + c
  BY DEF Good
<1>9. S = (INITIAL_BALANCE - STAKE_SHARE_PRICE_GUARANTEE_FUND) + AllShares(q)
  <2>1. PICK base \in Nat : base = INITIAL_BALANCE - STAKE_SHARE_PRICE_GUARANTEE_FUND
    BY PoolAssumption
  <2>2. PICK A0 \in Nat, A1 \in Nat, h0 \in Nat, h1 \in Nat, S0 \in Nat :
           /\ A0 = AllShares(p) /\ A1 = AllShares(q)
           /\ h0 = p.accounts[id].stake_shares /\ h1 = account.stake_shares
           /\ S0 = p.total_stake_shares
    BY <1>5, <1>6
  <2>3. S0 = base + A0 /\ A1 + h0 = A0 + h1 /\ S + h0 = S0 + h1
    BY <2>1, <2>2, <1>2, <1>4, <1>8
  <2>4. S = base + A1
    BY <2>3
  <2> QED
    BY <2>1, <2>2, <2>4
<1>10. T + AllUnstaked(q) + STAKE_SHARE_PRICE_GUARANTEE_FUND <= L + (c + d)
  BY <1>2, <1>4, <1>5, <1>6, <1>7, <1>8
<1>11. Good(q, c + d)
  BY <1>3, <1>9, <1>10 DEF Good
<1>12. Dearer(p, q)
  BY <1>3 DEF Dearer
<1>13. Sees(p, q, L)
  BY <1>2, <1>3 DEF Sees
<1> QED
  BY <1>11, <1>12, <1>13 DEF q, s

(* internal_deposit.                                                       *)
LEMMA DepositedGood ==
  ASSUME NEW p, NEW c \in Nat, Good(p, c), NEW id \in Delegators, NEW amount \in Nat
  PROVE  LET q == Deposited(p, id, amount) IN
         Good(q, c) /\ Dearer(p, q) /\ Sees(p, q, p.last_total_balance + amount)
<1>1. p \in Pool
  BY DEF Good
<1>2. PICK T \in Nat, S \in Nat, L \in Nat, u \in Nat :
         /\ T = p.total_staked_balance /\ S = p.total_stake_shares
         /\ L = p.last_total_balance /\ u = p.accounts[id].unstaked
  BY <1>1 DEF Pool, Account
<1>3. PICK account \in Account :
         /\ account = [p.accounts[id] EXCEPT !.unstaked = @ + amount]
         /\ account.unstaked = u + amount
         /\ account.stake_shares = p.accounts[id].stake_shares
  <2>1. PICK old \in Account : old = p.accounts[id] /\ old.unstaked = u
    BY <1>1, <1>2 DEF Pool
  <2>2. PICK u1 \in Nat : u1 = u + amount
    OBVIOUS
  <2>3. [old EXCEPT !.unstaked = u1] \in Account
    BY DEF Account
  <2> QED
    BY <2>1, <2>2, <2>3 DEF Account
<1>4. PICK L1 \in Nat : L1 = L + amount
  OBVIOUS
<1> DEFINE q == [Saved(p, id, account) EXCEPT !.total_staked_balance = T,
                   !.total_stake_shares = S, !.last_total_balance = L1]
<1>5. Good(q, c + 0) /\ Dearer(p, q) /\ Sees(p, q, L1)
  <2>1. S + p.accounts[id].stake_shares = p.total_stake_shares + account.stake_shares
    BY <1>2, <1>3
  <2>2. T + account.unstaked + p.last_total_balance
          <= p.total_staked_balance + p.accounts[id].unstaked + L1 + 0
    BY <1>2, <1>3, <1>4
  <2>3. T * p.total_stake_shares >= p.total_staked_balance * S
    BY <1>2, Z3
  <2>4. 0 < S /\ S <= T
    BY <1>2 DEF Good
  <2> HIDE DEF q
  <2> QED
    BY <2>1, <2>2, <2>3, <2>4, StepGood DEF q
<1>6. q = Deposited(p, id, amount)
  <2>1. /\ Saved(p, id, account) \in Pool
        /\ Saved(p, id, account).total_staked_balance = T
        /\ Saved(p, id, account).total_stake_shares = S
        /\ Saved(p, id, account).last_total_balance = L
    BY <1>1, <1>2, SavedAccount
  <2>2. Deposited(p, id, amount) = [Saved(p, id, account) EXCEPT !.last_total_balance = @ + amount]
    BY <1>3 DEF Deposited
  <2> QED
    BY <2>1, <2>2, <1>4 DEF Pool
<1> QED
  BY <1>2, <1>4, <1>5, <1>6

(* internal_withdraw.                                                      *)
LEMMA WithdrawnGood ==
  ASSUME NEW p, NEW c \in Nat, Good(p, c), NEW id \in Delegators, NEW amount \in Nat,
         amount <= p.accounts[id].unstaked, amount <= p.last_total_balance
  PROVE  LET q == Withdrawn(p, id, amount) IN
         Good(q, c) /\ Dearer(p, q) /\ Sees(p, q, p.last_total_balance - amount)
<1>1. p \in Pool
  BY DEF Good
<1>2. PICK T \in Nat, S \in Nat, L \in Nat, u \in Nat :
         /\ T = p.total_staked_balance /\ S = p.total_stake_shares
         /\ L = p.last_total_balance /\ u = p.accounts[id].unstaked
  BY <1>1 DEF Pool, Account
<1>3. PICK u1 \in Nat, L1 \in Nat : u1 = u - amount /\ L1 = L - amount
  BY <1>2
<1>4. PICK account \in Account :
         /\ account = [p.accounts[id] EXCEPT !.unstaked = @ - amount]
         /\ account.unstaked = u1
         /\ account.stake_shares = p.accounts[id].stake_shares
  <2>1. PICK old \in Account : old = p.accounts[id] /\ old.unstaked = u
    BY <1>1, <1>2 DEF Pool
  <2>2. [old EXCEPT !.unstaked = u1] \in Account
    BY DEF Account
  <2> QED
    BY <2>1, <2>2, <1>3 DEF Account
<1> DEFINE q == [Saved(p, id, account) EXCEPT !.total_staked_balance = T,
                   !.total_stake_shares = S, !.last_total_balance = L1]
<1>5. Good(q, c + 0) /\ Dearer(p, q) /\ Sees(p, q, L1)
  <2>1. S + p.accounts[id].stake_shares = p.total_stake_shares + account.stake_shares
    BY <1>2, <1>4
  <2>2. T + account.unstaked + p.last_total_balance
          <= p.total_staked_balance + p.accounts[id].unstaked + L1 + 0
    BY <1>2, <1>3, <1>4
  <2>3. T * p.total_stake_shares >= p.total_staked_balance * S
    BY <1>2, Z3
  <2>4. 0 < S /\ S <= T
    BY <1>2 DEF Good
  <2> HIDE DEF q
  <2> QED
    BY <2>1, <2>2, <2>3, <2>4, StepGood DEF q
<1>6. q = Withdrawn(p, id, amount)
  <2>1. /\ Saved(p, id, account) \in Pool
        /\ Saved(p, id, account).total_staked_balance = T
        /\ Saved(p, id, account).total_stake_shares = S
        /\ Saved(p, id, account).last_total_balance = L
    BY <1>1, <1>2, SavedAccount
  <2>2. Withdrawn(p, id, amount) = [Saved(p, id, account) EXCEPT !.last_total_balance = @ - amount]
    BY <1>4 DEF Withdrawn
  <2> QED
    BY <2>1, <2>2, <1>3 DEF Pool
<1> QED
  BY <1>2, <1>3, <1>5, <1>6

(* Shares are naturals, and their value rounded down and rounded up.       *)
LEMMA SharesValue ==
  ASSUME NEW p \in Pool, NEW n \in Nat,
         NEW T \in Nat, NEW S \in Nat, 0 < S,
         T = p.total_staked_balance, S = p.total_stake_shares
  PROVE  /\ AmountDown(p, n) \in Nat /\ AmountUp(p, n) \in Nat
         /\ S * AmountDown(p, n) <= T * n /\ T * n < S * AmountDown(p, n) + S
         /\ T * n <= S * AmountUp(p, n) /\ S * AmountUp(p, n) < T * n + S
         /\ AmountDown(p, n) <= AmountUp(p, n)
         /\ AmountUp(p, n) <= AmountDown(p, n) + 1
<1>1. PICK v \in Nat : v = T * n
  BY Z3
<1> DEFINE down == proportional(T, n, S)
           up   == QuotientUp(v, S)
<1>2. down = AmountDown(p, n) /\ up = AmountUp(p, n)
  BY <1>1 DEF AmountDown, AmountUp
<1>3. down \in Nat /\ S * down <= T * n /\ T * n < S * down + S
  BY ProportionalFloor
<1>4. up \in Nat /\ v <= S * up /\ S * up < v + S
  BY <1>1, Ceiling
<1> HIDE DEF down, up
<1>5. down <= up /\ up <= down + 1
  BY <1>1, <1>3, <1>4, OneApart
<1> QED
  BY <1>1, <1>2, <1>3, <1>4, <1>5

(* internal_stake.                                                         *)
LEMMA StakedGood ==
  ASSUME NEW p, NEW c \in Nat, Good(p, c), NEW id \in Delegators, NEW amount \in Nat,
         CanStake(p, id, amount)
  PROVE  LET q == Staked(p, id, amount) IN
         Good(q, c + 1) /\ Dearer(p, q) /\ Sees(p, q, p.last_total_balance)
<1>1. p \in Pool
  BY DEF Good
<1>2. PICK T \in Nat, S \in Nat, L \in Nat, u \in Nat, h \in Nat :
         /\ T = p.total_staked_balance /\ S = p.total_stake_shares
         /\ L = p.last_total_balance /\ u = p.accounts[id].unstaked
         /\ h = p.accounts[id].stake_shares
  BY <1>1 DEF Pool, Account
<1>3. 0 < S /\ S <= T
  BY <1>2 DEF Good
<1>4. SharesDown(p, amount) \in Nat
  <2>1. T > 0
    BY <1>3
  <2>2. SharesDown(p, amount) = proportional(S, amount, T)
    BY <1>2 DEF SharesDown
  <2> QED
    BY <2>1, <2>2, ProportionalFloor
<1>5. PICK sh \in Nat : sh = SharesDown(p, amount)
  BY <1>4
<1>6. PICK down \in Nat, up \in Nat :
         /\ down = AmountDown(p, sh) /\ up = AmountUp(p, sh)
         /\ T * sh <= S * up /\ up <= down + 1
  BY <1>1, <1>2, <1>3, SharesValue
<1>7. Charge(p, amount) = down /\ down <= u
  BY <1>2, <1>5, <1>6 DEF Charge, CanStake
<1>8. PICK u1 \in Nat, h1 \in Nat, T1 \in Nat, S1 \in Nat :
         u1 = u - down /\ h1 = h + sh /\ T1 = T + up /\ S1 = S + sh
  BY <1>7
<1>9. PICK account \in Account :
         /\ account = [p.accounts[id] EXCEPT !.unstaked = @ - Charge(p, amount),
                                             !.stake_shares = @ + SharesDown(p, amount)]
         /\ account.unstaked = u1
         /\ account.stake_shares = h1
  <2>1. PICK old \in Account : old = p.accounts[id] /\ old.unstaked = u /\ old.stake_shares = h
    BY <1>1, <1>2 DEF Pool
  <2>2. [old EXCEPT !.unstaked = u1, !.stake_shares = h1] \in Account
    BY DEF Account
  <2> QED
    BY <2>1, <2>2, <1>5, <1>7, <1>8 DEF Account
<1> DEFINE q == [Saved(p, id, account) EXCEPT !.total_staked_balance = T1,
                   !.total_stake_shares = S1, !.last_total_balance = L]
<1>10. Good(q, c + 1) /\ Dearer(p, q) /\ Sees(p, q, L)
  <2>1. S1 + p.accounts[id].stake_shares = p.total_stake_shares + account.stake_shares
    BY <1>2, <1>8, <1>9
  <2>2. T1 + u1 + L <= T + u + L + 1
    BY <1>6, <1>7, <1>8
  <2>3. T1 + account.unstaked + p.last_total_balance
          <= p.total_staked_balance + p.accounts[id].unstaked + L + 1
    BY <2>2, <1>2, <1>9
  <2>4. (T + up) * S >= T * (S + sh)
    BY <1>6, Z3
  <2>5. T1 * p.total_stake_shares >= p.total_staked_balance * S1
    BY <2>4, <1>2, <1>8
  <2>6. sh <= up
    BY <1>3, <1>6, Z3
  <2>7. 0 < S1 /\ S1 <= T1
    BY <2>6, <1>3, <1>8
  <2> HIDE DEF q
  <2> QED
    BY <2>1, <2>3, <2>5, <2>7, StepGood DEF q
<1>11. q = Staked(p, id, amount)
  <2>1. /\ Saved(p, id, account) \in Pool
        /\ Saved(p, id, account).total_staked_balance = T
        /\ Saved(p, id, account).total_stake_shares = S
        /\ Saved(p, id, account).last_total_balance = L
    BY <1>1, <1>2, SavedAccount
  <2>2. Staked(p, id, amount) = [Saved(p, id, account) EXCEPT
           !.total_staked_balance = @ + AmountUp(p, SharesDown(p, amount)),
           !.total_stake_shares = @ + SharesDown(p, amount)]
    BY <1>9 DEF Staked
  <2>3. Staked(p, id, amount) = [Saved(p, id, account) EXCEPT
           !.total_staked_balance = T1, !.total_stake_shares = S1]
    BY <2>1, <2>2, <1>5, <1>6, <1>8 DEF Pool
  <2> QED
    BY <2>1, <2>3 DEF Pool
<1> QED
  BY <1>2, <1>10, <1>11

(* inner_unstake.                                                          *)
LEMMA UnstakedGood ==
  ASSUME NEW p, NEW c \in Nat, Good(p, c), NEW id \in Delegators, NEW amount \in Nat,
         epoch \in Nat, CanUnstake(p, id, amount)
  PROVE  LET q == Unstaked(p, id, amount) IN
         Good(q, c + 1) /\ Dearer(p, q) /\ Sees(p, q, p.last_total_balance)
<1>1. p \in Pool
  BY DEF Good
<1>2. PICK T \in Nat, S \in Nat, L \in Nat, u \in Nat, h \in Nat :
         /\ T = p.total_staked_balance /\ S = p.total_stake_shares
         /\ L = p.last_total_balance /\ u = p.accounts[id].unstaked
         /\ h = p.accounts[id].stake_shares
  BY <1>1 DEF Pool, Account
<1>3. 0 < S /\ S <= T
  BY <1>2 DEF Good
<1>4. SharesUp(p, amount) \in Nat
  <2>1. PICK v \in Nat : v = S * amount
    BY Z3
  <2>2. T > 0
    BY <1>3
  <2> QED
    BY <2>1, <2>2, <1>2, Ceiling DEF SharesUp
<1>5. PICK sh \in Nat : sh = SharesUp(p, amount)
  BY <1>4
<1>6. PICK down \in Nat, up \in Nat :
         /\ down = AmountDown(p, sh) /\ up = AmountUp(p, sh)
         /\ S * down <= T * sh /\ up <= down + 1
  BY <1>1, <1>2, <1>3, SharesValue
\* Not all shares: some are nobody's.
<1>7. sh <= h /\ h < S
  <2>1. PICK base \in Nat : base = INITIAL_BALANCE - STAKE_SHARE_PRICE_GUARANTEE_FUND /\ base > 0
    BY PoolAssumption
  <2>2. AllShares(p) \in Nat /\ h <= AllShares(p)
    BY <1>1, <1>2, AccountsSum
  <2>3. S = base + AllShares(p)
    BY <2>1, <1>2 DEF Good
  <2> QED
    BY <2>1, <2>2, <2>3, <1>2, <1>5 DEF CanUnstake
<1>8. down <= T
  BY <1>3, <1>6, <1>7, Z3
<1>9. PICK u1 \in Nat, h1 \in Nat, T1 \in Nat, S1 \in Nat, e \in Nat :
         /\ u1 = u + up /\ h1 = h - sh /\ T1 = T - down /\ S1 = S - sh
         /\ e = epoch + NUM_EPOCHS_TO_UNLOCK
  BY <1>7, <1>8, PoolAssumption
<1>10. PICK account \in Account :
         account = [unstaked |-> u1, stake_shares |-> h1,
                    unstaked_available_epoch_height |-> e]
  BY DEF Account
<1> DEFINE q == [Saved(p, id, account) EXCEPT !.total_staked_balance = T1,
                   !.total_stake_shares = S1, !.last_total_balance = L]
<1>11. Good(q, c + 1) /\ Dearer(p, q) /\ Sees(p, q, L)
  <2>1. S1 + p.accounts[id].stake_shares = p.total_stake_shares + account.stake_shares
    <3>1. S1 + h = S + h1
      BY <1>7, <1>9
    <3> QED
      BY <3>1, <1>2, <1>10
  <2>2. T1 + u1 + L <= T + u + L + 1
    BY <1>6, <1>8, <1>9
  <2>3. T1 + account.unstaked + p.last_total_balance
          <= p.total_staked_balance + p.accounts[id].unstaked + L + 1
    BY <2>2, <1>2, <1>10
  <2>4. sh <= S /\ S * down <= sh * T
    BY <1>6, <1>7, Z3
  <2>5. (T - down) * S >= T * (S - sh) /\ S - sh <= T - down
    BY <2>4, <1>3, <1>8, BurnKeepsPrice
  <2>6. T1 * p.total_stake_shares >= p.total_staked_balance * S1
    BY <2>5, <1>2, <1>9
  <2>7. 0 < S1 /\ S1 <= T1
    BY <2>5, <1>7, <1>9
  <2> HIDE DEF q
  <2> QED
    BY <2>1, <2>3, <2>6, <2>7, StepGood DEF q
<1>12. q = Unstaked(p, id, amount)
  <2>1. /\ Saved(p, id, account) \in Pool
        /\ Saved(p, id, account).total_staked_balance = T
        /\ Saved(p, id, account).total_stake_shares = S
        /\ Saved(p, id, account).last_total_balance = L
    BY <1>1, <1>2, SavedAccount
  <2>2. Unstaked(p, id, amount) = [Saved(p, id, account) EXCEPT
           !.total_staked_balance = @ - down, !.total_stake_shares = @ - sh]
    BY <1>2, <1>5, <1>6, <1>9, <1>10 DEF Unstaked
  <2>3. Unstaked(p, id, amount) = [Saved(p, id, account) EXCEPT
           !.total_staked_balance = T1, !.total_stake_shares = S1]
    BY <2>1, <2>2, <1>9 DEF Pool
  <2> QED
    BY <2>1, <2>3 DEF Pool
<1> QED
  BY <1>2, <1>11, <1>12

-----------------------------------------------------------------------------
(***************************************************************************)
(* The inductive invariant.  A call goes on from what the ping has left,   *)
(* so the balance last seen must be the account's balance once the epoch   *)
(* is seen: withdrawals rely on it.                                        *)
(***************************************************************************)
IInv ==
  /\ Good(pool, conversions)
  /\ epoch \in Nat /\ balance \in Nat /\ conversions \in Nat
  /\ pool.last_total_balance <= balance
  /\ pool.last_epoch_height <= epoch
  /\ pool.last_epoch_height = epoch => pool.last_total_balance = balance

LEMMA InitGood == Init => IInv
<1> SUFFICES ASSUME Init PROVE IInv
  OBVIOUS
<1>1. PICK fee \in Fees : pool = NewPool(fee)
  BY DEF Init
<1>2. PICK base \in Nat : base = INITIAL_BALANCE - STAKE_SHARE_PRICE_GUARANTEE_FUND /\ base > 0
  BY PoolAssumption
<1>3. /\ INITIAL_BALANCE \in Nat /\ STAKE_SHARE_PRICE_GUARANTEE_FUND \in Nat
      /\ STAKE_SHARE_PRICE_GUARANTEE_FUND <= INITIAL_BALANCE
  BY PoolAssumption
<1>4. NoAccount \in Account
  BY DEF NoAccount, Account
<1>5. /\ pool \in Pool
      /\ pool.total_stake_shares = base /\ pool.total_staked_balance = base
      /\ pool.last_total_balance = INITIAL_BALANCE /\ pool.last_epoch_height = 0
      /\ pool.accounts = [id \in Delegators |-> NoAccount]
  BY <1>1, <1>2, <1>3, <1>4 DEF NewPool, Pool
<1>6. AllShares(pool) = 0 /\ AllUnstaked(pool) = 0
  <2>1. /\ [id \in Delegators |-> pool.accounts[id].stake_shares] = [id \in Delegators |-> 0]
        /\ [id \in Delegators |-> pool.accounts[id].unstaked] = [id \in Delegators |-> 0]
    BY <1>5 DEF NoAccount
  <2> DEFINE f == [id \in Delegators |-> 0]
  <2>2. f \in [Delegators -> Nat] /\ \A id \in Delegators : f[id] = 0
    OBVIOUS
  <2> HIDE DEF f
  <2>3. SumOf(f) = 0
    BY <2>2, SumZero
  <2> QED
    BY <2>1, <2>3 DEF AllShares, AllUnstaked, f
<1>7. conversions = 0 /\ epoch = 0 /\ balance = INITIAL_BALANCE
  BY DEF Init
<1>8. Good(pool, conversions)
  BY <1>2, <1>3, <1>5, <1>6, <1>7 DEF Good
<1> QED
  BY <1>3, <1>5, <1>7, <1>8 DEF IInv

(* The ping of a call.                                                     *)
LEMMA PingedGood ==
  ASSUME IInv
  PROVE  /\ Good(Pinged, conversions) /\ Dearer(pool, Pinged)
         /\ Pinged.last_total_balance = balance
         /\ Pinged.last_epoch_height = epoch
         /\ CanPing
<1>1. Good(pool, conversions) /\ pool \in Pool /\ conversions \in Nat
  BY DEF IInv, Good
<1>2. balance \in Nat /\ epoch \in Nat /\ pool.last_total_balance <= balance
  BY DEF IInv
<1>3. pool.last_total_balance \in Nat
  BY <1>1 DEF Pool
<1>4. CanPing
  BY <1>2, <1>3 DEF CanPing
<1>5. CASE pool.last_epoch_height = epoch
  <2>1. Pinged = pool /\ pool.last_total_balance = balance
    BY <1>5 DEF Pinged, IInv
  <2>2. Dearer(pool, pool)
    <3>1. PICK T \in Nat, S \in Nat :
             T = pool.total_staked_balance /\ S = pool.total_stake_shares
      BY <1>1 DEF Pool
    <3>2. T * S >= T * S
      BY Z3
    <3> QED
      BY <3>1, <3>2 DEF Dearer
  <2> QED
    BY <2>1, <2>2, <1>1, <1>4, <1>5
<1>6. CASE pool.last_epoch_height # epoch
  <2> DEFINE r == balance - pool.last_total_balance
             q == [Rewarded(pool, r) EXCEPT
                     !.last_epoch_height = epoch, !.last_total_balance = balance]
  <2>1. Pinged = q
    BY <1>6 DEF Pinged
  <2>2. Good(q, conversions) /\ Dearer(pool, q)
    BY <1>1, <1>2, RewardedGood
  <2>3. q \in Pool
    BY <2>2 DEF Good
  <2>4. q.last_epoch_height = epoch /\ q.last_total_balance = balance
    BY <2>3 DEF Rewarded, Pool
  <2> QED
    BY <2>1, <2>2, <2>4, <1>4
<1> QED
  BY <1>5, <1>6

(* A call that keeps what the ping has left keeps the invariant, and the   *)
(* price.                                                                  *)
LEMMA CallKeeps ==
  ASSUME IInv, NEW c \in Nat, NEW b \in Nat,
         pool' \in Pool, epoch' = epoch, balance' = b, conversions' = c,
         Good(pool', c), Dearer(Pinged, pool'), Sees(Pinged, pool', b)
  PROVE  IInv' /\ Dearer(pool, pool')
<1>1. /\ Good(Pinged, conversions) /\ Dearer(pool, Pinged)
      /\ Pinged.last_epoch_height = epoch
  BY PingedGood
<1>2. Dearer(pool, pool')
  <2>1. Good(pool, conversions)
    BY DEF IInv
  <2>2. PICK T \in Nat, S \in Nat :
           T = pool.total_staked_balance /\ S = pool.total_stake_shares
    BY <2>1 DEF Good, Pool
  <2>3. PICK T1 \in Nat, S1 \in Nat :
           /\ T1 = Pinged.total_staked_balance /\ S1 = Pinged.total_stake_shares
           /\ S1 > 0
    BY <1>1 DEF Good, Pool
  <2>4. PICK T2 \in Nat, S2 \in Nat :
           T2 = pool'.total_staked_balance /\ S2 = pool'.total_stake_shares
    BY DEF Pool
  <2>5. T1 * S >= T * S1 /\ T2 * S1 >= T1 * S2
    BY <1>1, <2>2, <2>3, <2>4 DEF Dearer
  <2>6. T2 * S >= T * S2
    BY <2>3, <2>5, PriceTransitive
  <2> QED
    BY <2>2, <2>4, <2>6 DEF Dearer
<1>3. pool'.last_total_balance = b /\ pool'.last_epoch_height = epoch
  BY <1>1 DEF Sees
<1>4. epoch \in Nat
  BY DEF IInv
<1>5. Good(pool, conversions)'
  BY DEF Good, AllShares, AllUnstaked
<1> QED
  BY <1>2, <1>3, <1>4, <1>5 DEF IInv

-----------------------------------------------------------------------------
(* The calls.                                                              *)

\* What every step keeps.
Kept == IInv' /\ Dearer(pool, pool')

LEMMA GoodIsPool ==
  ASSUME NEW p, NEW c, Good(p, c) PROVE p \in Pool
  BY DEF Good

(* A step of a call after another one.                                     *)
LEMMA DearerTransitive ==
  ASSUME NEW p \in Pool, NEW q \in Pool, NEW r \in Pool, q.total_stake_shares > 0,
         Dearer(p, q), Dearer(q, r)
  PROVE  Dearer(p, r)
<1>1. /\ p.total_staked_balance \in Nat /\ p.total_stake_shares \in Nat
      /\ q.total_staked_balance \in Nat /\ q.total_stake_shares \in Nat
      /\ r.total_staked_balance \in Nat /\ r.total_stake_shares \in Nat
  BY DEF Pool
<1> QED
  BY <1>1, PriceTransitive DEF Dearer

LEMMA PingKeeps ==
  ASSUME IInv, Ends(Pinged, 0, 0), UNCHANGED conversions PROVE Kept
<1>1. /\ Good(Pinged, conversions) /\ Pinged.last_total_balance = balance
      /\ Pinged.last_epoch_height = epoch
  BY PingedGood
<1>2. balance \in Nat /\ epoch \in Nat /\ conversions \in Nat
  BY DEF IInv
<1>3. pool' = Pinged /\ epoch' = epoch /\ balance' = balance /\ conversions' = conversions
  BY <1>2 DEF Ends
<1>4. Dearer(Pinged, Pinged)
  <2>1. PICK T \in Nat, S \in Nat :
           T = Pinged.total_staked_balance /\ S = Pinged.total_stake_shares
    BY <1>1 DEF Good, Pool
  <2>2. T * S >= T * S
    BY Z3
  <2> QED
    BY <2>1, <2>2 DEF Dearer
<1>5. Sees(Pinged, pool', balance)
  BY <1>1, <1>3 DEF Sees
<1>6. pool' \in Pool
  BY <1>1, <1>3, GoodIsPool
<1> QED
  BY <1>1, <1>2, <1>3, <1>4, <1>5, <1>6, CallKeeps DEF Kept

LEMMA DepositKeeps ==
  ASSUME IInv, NEW id \in Delegators, NEW amount \in Nat, Deposit(id, amount)
  PROVE  Kept
<1>1. Good(Pinged, conversions) /\ Pinged.last_total_balance = balance
  BY PingedGood
<1>2. balance \in Nat /\ epoch \in Nat /\ conversions \in Nat
  BY DEF IInv
<1> DEFINE q == Deposited(Pinged, id, amount)
<1>3. Good(q, conversions) /\ Dearer(Pinged, q) /\ Sees(Pinged, q, balance + amount)
  BY <1>1, <1>2, DepositedGood
<1> HIDE DEF q
<1>4. pool' = q /\ epoch' = epoch /\ balance' = balance + amount /\ conversions' = conversions
  BY <1>2 DEF Deposit, Ends, q
<1>5. PICK b \in Nat : b = balance + amount
  BY <1>2
<1>6. pool' \in Pool
  BY <1>3, <1>4, GoodIsPool
<1> QED
  BY <1>2, <1>3, <1>4, <1>5, <1>6, CallKeeps DEF Kept

LEMMA DepositAndStakeKeeps ==
  ASSUME IInv, NEW id \in Delegators, NEW amount \in Nat, DepositAndStake(id, amount)
  PROVE  Kept
<1>1. Good(Pinged, conversions) /\ Pinged.last_total_balance = balance
  BY PingedGood
<1>2. balance \in Nat /\ epoch \in Nat /\ conversions \in Nat
  BY DEF IInv
<1> DEFINE p == Deposited(Pinged, id, amount)
           q == Staked(p, id, amount)
<1>3. Good(p, conversions) /\ Dearer(Pinged, p) /\ Sees(Pinged, p, balance + amount)
  BY <1>1, <1>2, DepositedGood
<1>4. CanStake(p, id, amount)
  BY DEF DepositAndStake
<1>5. /\ pool' = q /\ epoch' = epoch /\ balance' = balance + amount
      /\ conversions' = conversions + 1
  BY <1>2 DEF DepositAndStake, Ends, Converts
<1> HIDE DEF p
<1>6. Good(q, conversions + 1) /\ Dearer(p, q) /\ Sees(p, q, p.last_total_balance)
  BY <1>2, <1>3, <1>4, StakedGood
<1> HIDE DEF q
<1>7. Dearer(Pinged, q)
  <2>1. Pinged \in Pool /\ p \in Pool /\ q \in Pool
    BY <1>1, <1>3, <1>6, GoodIsPool
  <2>2. p.total_stake_shares > 0
    BY <1>3, <2>1 DEF Good, Pool
  <2> QED
    BY <2>1, <2>2, <1>3, <1>6, DearerTransitive
<1>8. Sees(Pinged, q, balance + amount)
  BY <1>3, <1>6 DEF Sees
<1>9. PICK b \in Nat, c \in Nat : b = balance + amount /\ c = conversions + 1
  BY <1>2
<1>10. pool' \in Pool
  BY <1>5, <1>6, GoodIsPool
<1> QED
  BY <1>5, <1>6, <1>7, <1>8, <1>9, <1>10, CallKeeps DEF Kept

LEMMA WithdrawKeeps ==
  ASSUME IInv, NEW id \in Delegators, NEW amount \in Nat, Withdraw(id, amount)
  PROVE  Kept
<1>1. Good(Pinged, conversions) /\ Pinged.last_total_balance = balance
  BY PingedGood
<1>2. balance \in Nat /\ epoch \in Nat /\ conversions \in Nat
  BY DEF IInv
<1>3. amount <= Pinged.accounts[id].unstaked /\ amount <= balance
  <2>1. Pinged.accounts[id].unstaked \in Nat
    BY <1>1, GoodIsPool, AccountsSum
  <2> QED
    BY <2>1, <1>2 DEF Withdraw, CanWithdraw
<1> DEFINE q == Withdrawn(Pinged, id, amount)
<1>4. Good(q, conversions) /\ Dearer(Pinged, q) /\ Sees(Pinged, q, balance - amount)
  BY <1>1, <1>2, <1>3, WithdrawnGood
<1> HIDE DEF q
<1>5. pool' = q /\ epoch' = epoch /\ balance' = balance - amount /\ conversions' = conversions
  BY <1>2 DEF Withdraw, Ends, q
<1>6. PICK b \in Nat : b = balance - amount
  BY <1>2, <1>3
<1>7. pool' \in Pool
  BY <1>4, <1>5, GoodIsPool
<1> QED
  BY <1>2, <1>4, <1>5, <1>6, <1>7, CallKeeps DEF Kept

LEMMA StakeKeeps ==
  ASSUME IInv, NEW id \in Delegators, NEW amount \in Nat, Stake(id, amount)
  PROVE  Kept
<1>1. Good(Pinged, conversions) /\ Pinged.last_total_balance = balance
  BY PingedGood
<1>2. balance \in Nat /\ epoch \in Nat /\ conversions \in Nat
  BY DEF IInv
<1> DEFINE q == Staked(Pinged, id, amount)
<1>3. CanStake(Pinged, id, amount)
  BY DEF Stake
<1>4. Good(q, conversions + 1) /\ Dearer(Pinged, q) /\ Sees(Pinged, q, balance)
  BY <1>1, <1>2, <1>3, StakedGood
<1>5. /\ pool' = q /\ epoch' = epoch /\ balance' = balance
      /\ conversions' = conversions + 1
  BY <1>2 DEF Stake, Ends, Converts
<1> HIDE DEF q
<1>6. PICK c \in Nat : c = conversions + 1
  BY <1>2
<1>7. pool' \in Pool
  BY <1>4, <1>5, GoodIsPool
<1> QED
  BY <1>2, <1>4, <1>5, <1>6, <1>7, CallKeeps DEF Kept

LEMMA UnstakeKeeps ==
  ASSUME IInv, NEW id \in Delegators, NEW amount \in Nat, Unstake(id, amount)
  PROVE  Kept
<1>1. Good(Pinged, conversions) /\ Pinged.last_total_balance = balance
  BY PingedGood
<1>2. balance \in Nat /\ epoch \in Nat /\ conversions \in Nat
  BY DEF IInv
<1> DEFINE q == Unstaked(Pinged, id, amount)
<1>3. CanUnstake(Pinged, id, amount)
  BY DEF Unstake
<1>4. Good(q, conversions + 1) /\ Dearer(Pinged, q) /\ Sees(Pinged, q, balance)
  BY <1>1, <1>2, <1>3, UnstakedGood
<1>5. /\ pool' = q /\ epoch' = epoch /\ balance' = balance
      /\ conversions' = conversions + 1
  BY <1>2 DEF Unstake, Ends, Converts
<1> HIDE DEF q
<1>6. PICK c \in Nat : c = conversions + 1
  BY <1>2
<1>7. pool' \in Pool
  BY <1>4, <1>5, GoodIsPool
<1> QED
  BY <1>2, <1>4, <1>5, <1>6, <1>7, CallKeeps DEF Kept

(* A setting of the owner is neither an account nor a total.               *)
LEMMA SettingKeeps ==
  ASSUME IInv, NEW q \in Pool, Ends(q, 0, 0), UNCHANGED conversions,
         q.accounts = Pinged.accounts,
         q.total_staked_balance = Pinged.total_staked_balance,
         q.total_stake_shares = Pinged.total_stake_shares,
         q.last_total_balance = Pinged.last_total_balance,
         q.last_epoch_height = Pinged.last_epoch_height
  PROVE  Kept
<1>1. Good(Pinged, conversions) /\ Pinged.last_total_balance = balance
  BY PingedGood
<1>2. balance \in Nat /\ epoch \in Nat /\ conversions \in Nat
  BY DEF IInv
<1>3. pool' = q /\ epoch' = epoch /\ balance' = balance /\ conversions' = conversions
  BY <1>2 DEF Ends
<1>4. AllShares(q) = AllShares(Pinged) /\ AllUnstaked(q) = AllUnstaked(Pinged)
  BY DEF AllShares, AllUnstaked
<1>5. Good(q, conversions)
  BY <1>1, <1>4 DEF Good
<1>6. Dearer(Pinged, q)
  <2>1. PICK T \in Nat, S \in Nat :
           T = Pinged.total_staked_balance /\ S = Pinged.total_stake_shares
    BY <1>1 DEF Good, Pool
  <2>2. T * S >= T * S
    BY Z3
  <2> QED
    BY <2>1, <2>2 DEF Dearer
<1>7. Sees(Pinged, q, balance)
  BY <1>1 DEF Sees
<1> QED
  BY <1>2, <1>3, <1>5, <1>6, <1>7, CallKeeps DEF Kept

LEMMA OwnerKeeps ==
  ASSUME IInv, OwnerCalls PROVE Kept
<1>1. Good(Pinged, conversions)
  BY PingedGood
<1>2. Pinged \in Pool
  BY <1>1, GoodIsPool
<1>3. ASSUME NEW fee \in Fees, UpdateRewardFeeFraction(fee) PROVE Kept
  <2>1. PICK q : q = [Pinged EXCEPT !.reward_fee_fraction = fee]
    OBVIOUS
  <2>2. Ends(q, 0, 0) /\ UNCHANGED conversions
    BY <1>3, <2>1 DEF UpdateRewardFeeFraction
  <2>3. /\ q \in Pool
        /\ q.accounts = Pinged.accounts
        /\ q.total_staked_balance = Pinged.total_staked_balance
        /\ q.total_stake_shares = Pinged.total_stake_shares
        /\ q.last_total_balance = Pinged.last_total_balance
        /\ q.last_epoch_height = Pinged.last_epoch_height
    BY <2>1, <1>2 DEF Pool
  <2> QED
    BY <2>2, <2>3, SettingKeeps
<1>4. ASSUME NEW stopped \in BOOLEAN, Ends([Pinged EXCEPT !.paused = stopped], 0, 0),
             UNCHANGED conversions
      PROVE  Kept
  <2>1. PICK q : q = [Pinged EXCEPT !.paused = stopped]
    OBVIOUS
  <2>2. Ends(q, 0, 0) /\ UNCHANGED conversions
    BY <1>4, <2>1
  <2>3. /\ q \in Pool
        /\ q.accounts = Pinged.accounts
        /\ q.total_staked_balance = Pinged.total_staked_balance
        /\ q.total_stake_shares = Pinged.total_stake_shares
        /\ q.last_total_balance = Pinged.last_total_balance
        /\ q.last_epoch_height = Pinged.last_epoch_height
    BY <2>1, <1>2 DEF Pool
  <2> QED
    BY <2>2, <2>3, SettingKeeps
<1> QED
  BY <1>3, <1>4 DEF OwnerCalls, PauseStaking, ResumeStaking

LEMMA DelegatorKeeps ==
  ASSUME IInv, NEW id \in Delegators, DelegatorCalls(id) PROVE Kept
<1>1. Good(Pinged, conversions)
  BY PingedGood
<1>2. Pinged \in Pool
  BY <1>1, GoodIsPool
<1>3. Deposits \subseteq Nat /\ Requests \subseteq Nat
  BY PoolAssumption
<1>4. /\ Pinged.accounts[id].unstaked \in Nat
      /\ Pinged.accounts[id].stake_shares \in Nat
  BY <1>2, AccountsSum
<1>5. AmountDown(Pinged, Pinged.accounts[id].stake_shares) \in Nat
  <2>1. PICK T \in Nat, S \in Nat :
           /\ T = Pinged.total_staked_balance /\ S = Pinged.total_stake_shares
           /\ 0 < S
    BY <1>1, <1>2 DEF Good, Pool
  <2> QED
    BY <2>1, <1>2, <1>4, SharesValue
<1>6. ASSUME NEW amount \in Nat, Deposit(id, amount) \/ DepositAndStake(id, amount)
      PROVE  Kept
  BY <1>6, DepositKeeps, DepositAndStakeKeeps
<1>7. ASSUME NEW amount \in Nat,
             Withdraw(id, amount) \/ Stake(id, amount) \/ Unstake(id, amount)
      PROVE  Kept
  BY <1>7, WithdrawKeeps, StakeKeeps, UnstakeKeeps
<1>8. CASE WithdrawAll(id)
  BY <1>8, <1>4, <1>7 DEF WithdrawAll
<1>9. CASE StakeAll(id)
  BY <1>9, <1>4, <1>7 DEF StakeAll
<1>10. CASE UnstakeAll(id)
  BY <1>10, <1>5, <1>7 DEF UnstakeAll
<1> QED
  BY <1>3, <1>6, <1>7, <1>8, <1>9, <1>10 DEF DelegatorCalls

LEMMA EpochKeeps ==
  ASSUME IInv, NEW reward \in Rewards, NewEpoch(reward) PROVE Kept
<1>1. /\ epoch \in Nat /\ balance \in Nat /\ conversions \in Nat
      /\ Good(pool, conversions)
      /\ pool.last_total_balance <= balance /\ pool.last_epoch_height <= epoch
  BY DEF IInv
<1>2. reward \in Nat
  BY PoolAssumption
<1>3. /\ epoch' = epoch + 1 /\ balance' = balance + reward
      /\ pool' = pool /\ conversions' = conversions
  BY DEF NewEpoch
<1>4. PICK T \in Nat, S \in Nat, L \in Nat, e \in Nat :
         /\ T = pool.total_staked_balance /\ S = pool.total_stake_shares
         /\ L = pool.last_total_balance /\ e = pool.last_epoch_height
  BY <1>1 DEF Good, Pool
<1>5. /\ epoch' \in Nat /\ balance' \in Nat /\ conversions' \in Nat
      /\ L <= balance' /\ e <= epoch' /\ e # epoch'
  BY <1>1, <1>2, <1>3, <1>4
<1>6. Good(pool, conversions)'
  BY <1>1, <1>3 DEF Good, AllShares, AllUnstaked
<1>7. Dearer(pool, pool')
  <2>1. T * S >= T * S
    BY Z3
  <2> QED
    BY <2>1, <1>3, <1>4 DEF Dearer
<1> QED
  BY <1>3, <1>4, <1>5, <1>6, <1>7 DEF IInv, Kept

LEMMA StepKeeps ==
  ASSUME IInv, [Next]_vars PROVE Kept
<1>1. CASE Ping
  BY <1>1, PingKeeps DEF Ping
<1>2. ASSUME NEW id \in Delegators, DelegatorCalls(id) PROVE Kept
  BY <1>2, DelegatorKeeps
<1>3. CASE OwnerCalls
  BY <1>3, OwnerKeeps
<1>4. ASSUME NEW reward \in Rewards, NewEpoch(reward) PROVE Kept
  BY <1>4, EpochKeeps
<1>5. CASE UNCHANGED vars
  <2>1. pool' = pool /\ epoch' = epoch /\ balance' = balance /\ conversions' = conversions
    BY <1>5 DEF vars
  <2>2. IInv'
    BY <2>1 DEF IInv, Good, AllShares, AllUnstaked
  <2>3. PICK T \in Nat, S \in Nat :
           T = pool.total_staked_balance /\ S = pool.total_stake_shares
    BY DEF IInv, Good, Pool
  <2>4. T * S >= T * S
    BY Z3
  <2> QED
    BY <2>1, <2>2, <2>3, <2>4 DEF Kept, Dearer
<1> QED
  BY <1>1, <1>2, <1>3, <1>4, <1>5 DEF Next

-----------------------------------------------------------------------------
(* The theorems.                                                           *)

LEMMA Invariance == Spec => []IInv
<1>1. IInv /\ [Next]_vars => IInv'
  BY StepKeeps DEF Kept
<1> QED
  BY InitGood, <1>1, PTL DEF Spec

(***************************************************************************)
(* Every field stays in its type: no subtraction of the contract           *)
(* underflows in a call that succeeds.                                     *)
(***************************************************************************)
THEOREM TypeCorrect == Spec => []TypeOK
<1>1. IInv => TypeOK
  BY DEF IInv, Good, TypeOK
<1> QED
  BY Invariance, <1>1, PTL

(***************************************************************************)
(* A share is never worth less than one, and never are there none          *)
(* (lib.rs:48-50 of the pool): no call divides by zero.                    *)
(***************************************************************************)
THEOREM PriceAtLeastOne == Spec => []SharesWithinStake
<1>1. IInv => SharesWithinStake
  BY DEF IInv, Good, SharesWithinStake
<1> QED
  BY Invariance, <1>1, PTL

(***************************************************************************)
(* The accounts' shares and those nobody owns are all shares               *)
(* (internal_stake, inner_unstake, the owner's fee, deleted accounts).     *)
(***************************************************************************)
THEOREM SharesCounted == Spec => []SharesAddUp
<1>1. IInv => SharesAddUp
  BY DEF IInv, Good, SharesAddUp
<1> QED
  BY Invariance, <1>1, PTL

(***************************************************************************)
(* A conversion costs the guarantee fund at most one unit, whatever the    *)
(* price and the amounts (lib.rs:23-24 of the pool).                       *)
(***************************************************************************)
THEOREM FundLasts == Spec => []FundCovers
<1>1. IInv => FundCovers
  BY DEF IInv, Good, FundCovers
<1> QED
  BY Invariance, <1>1, PTL

(***************************************************************************)
(* The assertion of internal_ping never blocks the pool.                   *)
(***************************************************************************)
THEOREM PingAlwaysPossible == Spec => []PingNeverPanics
<1>1. IInv => PingNeverPanics
  BY PingedGood DEF PingNeverPanics
<1> QED
  BY Invariance, <1>1, PTL

(***************************************************************************)
(* unstake_all takes all shares of an account: rounding the value down and *)
(* the shares up is exact, because a share is worth at least one.          *)
(***************************************************************************)
THEOREM NoDust == Spec => []UnstakeAllLeavesNothing
<1>1. IInv => UnstakeAllLeavesNothing
  <2> SUFFICES ASSUME IInv, NEW id \in Delegators
               PROVE  SharesUp(pool, AmountDown(pool, pool.accounts[id].stake_shares))
                        = pool.accounts[id].stake_shares
    BY DEF UnstakeAllLeavesNothing
  <2>1. Good(pool, conversions) /\ pool \in Pool
    BY DEF IInv, Good
  <2>2. PICK T \in Nat, S \in Nat, h \in Nat :
           /\ T = pool.total_staked_balance /\ S = pool.total_stake_shares
           /\ h = pool.accounts[id].stake_shares
           /\ 0 < S /\ S <= T
    BY <2>1, AccountsSum DEF Good, Pool
  <2>3. PICK a \in Nat : a = AmountDown(pool, h) /\ S * a <= T * h /\ T * h < S * a + S
    BY <2>1, <2>2, SharesValue
  <2>4. QuotientUp(S * a, T) = h
    BY <2>2, <2>3, BuysBack
  <2> QED
    BY <2>2, <2>3, <2>4 DEF SharesUp
<1> QED
  BY Invariance, <1>1, PTL

(***************************************************************************)
(* No sequence of calls lowers the price of a share (internal.rs:104-106   *)
(* and 161-163 of the pool).                                               *)
(***************************************************************************)
THEOREM PriceKept == Spec => PriceNeverFalls
<1>1. IInv /\ [Next]_vars =>
        [pool'.total_staked_balance * pool.total_stake_shares
           >= pool.total_staked_balance * pool'.total_stake_shares]_vars
  BY StepKeeps DEF Kept, Dearer
<1> QED
  BY Invariance, <1>1, PTL DEF Spec, PriceNeverFalls


-----------------------------------------------------------------------------
(* What a call does to an account as the Metapool contract sees it.        *)

(* The charge for an amount: no more than it, and less by at most the      *)
(* price of a share.  An amount of a share's price buys one.               *)
LEMMA ChargeBounds ==
  ASSUME NEW T \in Nat, NEW S \in Nat, NEW amount \in Nat,
         NEW shares \in Nat, NEW charge \in Nat, NEW price \in Nat,
         0 < S, S <= T,
         T * shares <= S * amount, S * amount < T * shares + T,
         S * charge <= T * shares, T * shares < S * charge + S,
         T <= S * price
  PROVE  /\ charge <= amount /\ amount <= charge + price
         /\ amount >= price => shares > 0 /\ charge > 0
<1>1. charge <= amount
  <2>1. S * charge <= S * amount
    OBVIOUS
  <2> QED
    BY <2>1, Z3
<1>2. amount <= charge + price
  <2>1. S * amount < S * (charge + price + 1)
    BY Z3
  <2> QED
    BY <2>1, Z3
<1>3. ASSUME amount >= price PROVE shares > 0 /\ charge > 0
  <2>1. S * amount >= S * price
    BY <1>3, Z3
  <2>2. T * shares > 0
    BY <2>1, Z3
  <2>3. shares > 0
    BY <2>2, Z3
  <2>4. T * shares >= T
    BY <2>3, Z3
  <2>5. S * charge > 0
    BY <2>4, Z3
  <2> QED
    BY <2>3, <2>5, Z3
<1> QED
  BY <1>1, <1>2, <1>3

(* What is paid for an unstake: no less than asked for, and more by at     *)
(* most the price of a share; it needs no more shares than are worth it.   *)
LEMMA PaymentBounds ==
  ASSUME NEW T \in Nat, NEW S \in Nat, NEW amount \in Nat,
         NEW shares \in Nat, NEW paid \in Nat, NEW price \in Nat,
         NEW owned \in Nat, NEW worth \in Nat,
         0 < S, S <= T,
         S * amount <= T * shares, T * shares < S * amount + T,
         T * shares <= S * paid, S * paid < T * shares + S,
         S * worth <= T * owned, T * owned < S * worth + S,
         T <= S * price
  PROVE  /\ amount <= paid /\ paid <= amount + price
         /\ amount > 0 => shares > 0 /\ paid > 0
         /\ shares <= owned <=> amount <= worth
<1>1. amount <= paid
  <2>1. S * amount <= S * paid
    OBVIOUS
  <2> QED
    BY <2>1, Z3
<1>2. paid <= amount + price
  <2>1. S * paid < S * (amount + price + 1)
    BY Z3
  <2> QED
    BY <2>1, Z3
<1>3. ASSUME amount > 0 PROVE shares > 0 /\ paid > 0
  <2>1. S * amount > 0
    BY <1>3, Z3
  <2> QED
    BY <2>1, <1>1, <1>3, Z3
<1>4. ASSUME shares <= owned PROVE amount <= worth
  <2>1. T * shares <= T * owned
    BY <1>4, Z3
  <2>2. S * amount < S * (worth + 1)
    BY <2>1, Z3
  <2> QED
    BY <2>2, Z3
<1>5. ASSUME amount <= worth PROVE shares <= owned
  <2>1. S * amount <= S * worth
    BY <1>5, Z3
  <2>2. T * shares < T * (owned + 1)
    BY <2>1, Z3
  <2> QED
    BY <2>2, Z3
<1> QED
  BY <1>1, <1>2, <1>3, <1>4, <1>5


(* An account as it is seen, and the totals its value is computed from.    *)
LEMMA ViewTyped ==
  ASSUME NEW p, NEW c, Good(p, c), NEW id \in Delegators
  PROVE  /\ p \in Pool /\ p.accounts[id] \in Account
         /\ View(p, id).unstaked = p.accounts[id].unstaked
         /\ View(p, id).available_epoch = p.accounts[id].unstaked_available_epoch_height
         /\ View(p, id).staked = AmountDown(p, p.accounts[id].stake_shares)
         /\ View(p, id) \in PoolAccount
         /\ View(p, id).staked \in Nat /\ View(p, id).unstaked \in Nat
         /\ \E T \in Nat, S \in Nat, n \in Nat :
               /\ T = p.total_staked_balance /\ S = p.total_stake_shares
               /\ 0 < S /\ S <= T
               /\ n = p.accounts[id].stake_shares
               /\ S * View(p, id).staked <= T * n /\ T * n < S * View(p, id).staked + S
<1>1. p \in Pool /\ p.accounts[id] \in Account
  BY DEF Good, Pool
<1>2. PICK T \in Nat, S \in Nat, n \in Nat :
         /\ T = p.total_staked_balance /\ S = p.total_stake_shares
         /\ 0 < S /\ S <= T
         /\ n = p.accounts[id].stake_shares
  BY <1>1 DEF Good, Pool, Account
<1>3. PICK staked \in Nat :
         /\ staked = AmountDown(p, n)
         /\ S * staked <= T * n /\ T * n < S * staked + S
  BY <1>1, <1>2, SharesValue
<1>4. /\ View(p, id).unstaked = p.accounts[id].unstaked
      /\ View(p, id).available_epoch = p.accounts[id].unstaked_available_epoch_height
      /\ View(p, id).staked = staked
  BY <1>2, <1>3 DEF View
<1>5. View(p, id) \in PoolAccount
  BY <1>1, <1>2, <1>3 DEF View, PoolAccount, Account
<1> QED
  BY <1>1, <1>2, <1>3, <1>4, <1>5 DEF Account

\* The account earns at most: nothing else about it changes from p to q.
Earns(p, q, id) ==
  /\ View(q, id).staked >= View(p, id).staked
  /\ View(q, id).unstaked = View(p, id).unstaked
  /\ View(q, id).available_epoch = View(p, id).available_epoch

(* What n shares were worth, at least as many are worth after a step that  *)
(* does not lower the price.                                               *)
LEMMA WorthAtLeast ==
  ASSUME NEW p, NEW c, Good(p, c), NEW q, NEW d, Good(q, d), Dearer(p, q),
         NEW id \in Delegators, NEW n \in Nat, NEW a \in Nat,
         p.total_stake_shares * a <= p.total_staked_balance * n,
         n <= q.accounts[id].stake_shares
  PROVE  a <= View(q, id).staked
<1>1. PICK T \in Nat, S \in Nat :
         T = p.total_staked_balance /\ S = p.total_stake_shares /\ 0 < S
  BY ViewTyped
<1>2. PICK T1 \in Nat, S1 \in Nat, m \in Nat, b \in Nat :
         /\ T1 = q.total_staked_balance /\ S1 = q.total_stake_shares /\ 0 < S1
         /\ m = q.accounts[id].stake_shares /\ b = View(q, id).staked
         /\ T1 * m < S1 * b + S1
  <2>1. PICK b \in Nat : b = View(q, id).staked
    BY ViewTyped
  <2>2. PICK T1 \in Nat, S1 \in Nat, m \in Nat :
           /\ T1 = q.total_staked_balance /\ S1 = q.total_stake_shares /\ 0 < S1
           /\ m = q.accounts[id].stake_shares
           /\ T1 * m < S1 * View(q, id).staked + S1
    BY ViewTyped
  <2> QED
    BY <2>1, <2>2
<1>3. T1 * S >= T * S1
  BY <1>1, <1>2 DEF Dearer
<1>4. n <= m /\ S * a <= T * n
  BY <1>1, <1>2
<1>5. 0 < S /\ 0 < S1 /\ T1 * m < S1 * b + S1
  BY <1>1, <1>2
<1>6. a <= b
  BY <1>3, <1>4, <1>5, WorthNoLess
<1> QED
  BY <1>2, <1>6

LEMMA StakedGrows ==
  ASSUME NEW p, NEW c, Good(p, c), NEW q, NEW d, Good(q, d), Dearer(p, q),
         NEW id \in Delegators,
         q.accounts[id].stake_shares >= p.accounts[id].stake_shares
  PROVE  View(q, id).staked >= View(p, id).staked
<1>1. PICK n \in Nat, a \in Nat :
         /\ n = p.accounts[id].stake_shares /\ a = View(p, id).staked
         /\ p.total_stake_shares * a <= p.total_staked_balance * n
  BY ViewTyped
<1>2. q.accounts[id].stake_shares \in Nat
  BY ViewTyped DEF Account
<1>3. n <= q.accounts[id].stake_shares
  BY <1>1, <1>2
<1>4. a <= View(q, id).staked
  BY <1>1, <1>3, WorthAtLeast
<1> QED
  BY <1>1, <1>4

(* An account nobody touches.                                              *)
LEMMA OthersEarn ==
  ASSUME NEW p, NEW c, Good(p, c), NEW q, NEW d, Good(q, d), Dearer(p, q),
         NEW id \in Delegators, q.accounts[id] = p.accounts[id]
  PROVE  Earns(p, q, id)
<1>1. p.accounts[id].stake_shares \in Nat
  BY ViewTyped DEF Account
<1>2. View(q, id).staked >= View(p, id).staked
  BY <1>1, StakedGrows
<1> QED
  BY <1>2, ViewTyped DEF Earns

LEMMA EarnsTransitive ==
  ASSUME NEW id \in Delegators, NEW p, NEW c, Good(p, c), NEW q, NEW d, Good(q, d),
         NEW r, NEW e, Good(r, e), Earns(p, q, id), Earns(q, r, id)
  PROVE  Earns(p, r, id)
<1>1. View(p, id).staked \in Nat /\ View(q, id).staked \in Nat /\ View(r, id).staked \in Nat
  BY ViewTyped
<1> QED
  BY <1>1 DEF Earns

(* A ping touches the shares of the owner's account, and no other balance. *)
LEMMA PingedEarns ==
  ASSUME IInv, NEW id \in Delegators
  PROVE  /\ Good(pool, conversions) /\ Good(Pinged, conversions)
         /\ Earns(pool, Pinged, id)
<1>1. Good(pool, conversions) /\ Good(Pinged, conversions) /\ Dearer(pool, Pinged)
  BY PingedGood DEF IInv
<1>2. pool.accounts[id] \in Account /\ pool \in Pool
  BY <1>1, ViewTyped
<1>3. CASE pool.last_epoch_height = epoch
  <2>1. Pinged = pool
    BY <1>3 DEF Pinged
  <2> QED
    BY <1>1, <2>1, OthersEarn
<1>4. CASE pool.last_epoch_height # epoch
  <2> DEFINE reward == balance - pool.last_total_balance
             fee    == FeeOf(pool, reward)
             raised == [pool EXCEPT !.total_staked_balance = @ + (reward - fee)]
             m      == SharesDown(raised, fee)
             q      == Rewarded(pool, reward)
  <2>1. Pinged = [q EXCEPT !.last_epoch_height = epoch, !.last_total_balance = balance]
    BY <1>4 DEF Pinged
  <2>2. reward \in Nat
    BY <1>2 DEF IInv, Pool
  <2>3. q.accounts = [pool.accounts EXCEPT ![OWNER].stake_shares = @ + m]
    BY <1>2, <2>2 DEF Rewarded, Pool
  <2>4. Pinged.accounts = q.accounts
    BY <1>2, <2>1 DEF Rewarded, Pool
  <2>5. m \in Nat
    <3>1. fee \in Nat /\ fee <= reward
      BY <1>2, <2>2, FeeOfReward
    <3>2. PICK T \in Nat, S \in Nat, f \in Nat :
             /\ T = pool.total_staked_balance + (reward - fee)
             /\ S = pool.total_stake_shares /\ f = fee /\ T > 0
      <4>1. PICK T0 \in Nat, S \in Nat :
               /\ T0 = pool.total_staked_balance /\ S = pool.total_stake_shares
               /\ 0 < S /\ S <= T0
        BY <1>1, ViewTyped
      <4>2. T0 + (reward - fee) \in Nat /\ T0 + (reward - fee) > 0
        BY <3>1, <2>2, <4>1
      <4> QED
        BY <3>1, <4>1, <4>2
    <3>3. raised.total_staked_balance = T /\ raised.total_stake_shares = S
      BY <3>2, <1>2 DEF Pool
    <3>4. m = proportional(S, f, T)
      BY <3>2, <3>3 DEF SharesDown
    <3> HIDE DEF m
    <3> QED
      BY <3>2, <3>4, ProportionalFloor
  <2> HIDE DEF m, q
  <2>6. /\ Pinged.accounts[id].unstaked = pool.accounts[id].unstaked
        /\ Pinged.accounts[id].unstaked_available_epoch_height
             = pool.accounts[id].unstaked_available_epoch_height
        /\ Pinged.accounts[id].stake_shares >= pool.accounts[id].stake_shares
    BY <1>2, <2>3, <2>4, <2>5 DEF Pool, Account
  <2>7. View(Pinged, id).staked >= View(pool, id).staked
    BY <1>1, <2>6, StakedGrows
  <2> QED
    BY <1>1, <2>6, <2>7, ViewTyped DEF Earns
<1> QED
  BY <1>3, <1>4


-----------------------------------------------------------------------------
(* Each call, and the account that makes it.                               *)

\* A step from p to q touches the account of id alone.
OnlyTouches(p, q, id) ==
  \A other \in Delegators \ {id} : q.accounts[other] = p.accounts[other]

\* A call saves an account and sets the totals.
Updated(p, id, account, T, S, L) ==
  [Saved(p, id, account) EXCEPT !.total_staked_balance = T,
     !.total_stake_shares = S, !.last_total_balance = L]

(* What is saved: the account, or none when nothing is left in it.         *)
LEMMA SavedExactly ==
  ASSUME NEW p \in Pool, NEW id \in Delegators, NEW account \in Account,
         NEW T \in Nat, NEW S \in Nat, NEW L \in Nat,
         NEW q, q = Updated(p, id, account, T, S, L)
  PROVE  /\ q.total_staked_balance = T /\ q.total_stake_shares = S
         /\ OnlyTouches(p, q, id)
         /\ q.accounts[id].stake_shares = account.stake_shares
         /\ q.accounts[id].unstaked = account.unstaked
         /\ \/ q.accounts[id] = account
            \/ /\ account.unstaked = 0 /\ account.stake_shares = 0
               /\ q.accounts[id].unstaked_available_epoch_height = 0
<1> DEFINE s == Saved(p, id, account)
<1>1. s \in Pool
  BY SavedAccount
<1>2. s.accounts = [p.accounts EXCEPT ![id] =
        IF account.unstaked > 0 \/ account.stake_shares > 0 THEN account ELSE NoAccount]
  BY DEF Saved, Pool
<1> HIDE DEF s
<1>3. q.accounts = s.accounts /\ q.total_staked_balance = T /\ q.total_stake_shares = S
  <2>1. q = [s EXCEPT !.total_staked_balance = T,
               !.total_stake_shares = S, !.last_total_balance = L]
    BY DEF s, Updated
  <2> QED
    BY <1>1, <2>1 DEF Pool
<1>4. account.unstaked \in Nat /\ account.stake_shares \in Nat
  BY DEF Account
<1>5. p.accounts \in [Delegators -> Account]
  BY DEF Pool
<1>6. q.accounts[id]
        = IF account.unstaked > 0 \/ account.stake_shares > 0 THEN account ELSE NoAccount
  BY <1>2, <1>3, <1>5
<1>7. OnlyTouches(p, q, id)
  BY <1>2, <1>3, <1>5 DEF OnlyTouches
<1> QED
  BY <1>3, <1>4, <1>6, <1>7 DEF NoAccount

(* internal_deposit.                                                       *)
LEMMA DepositedView ==
  ASSUME NEW p, NEW c \in Nat, Good(p, c), NEW id \in Delegators,
         NEW amount \in Nat \ {0}
  PROVE  LET q == Deposited(p, id, amount) IN
         /\ Good(q, c) /\ Dearer(p, q) /\ OnlyTouches(p, q, id)
         /\ Drift(q) = Drift(p)
         /\ View(q, id).staked = View(p, id).staked
         /\ View(q, id).unstaked = View(p, id).unstaked + amount
         /\ View(q, id).available_epoch = View(p, id).available_epoch
<1> DEFINE q == Deposited(p, id, amount)
           account == [p.accounts[id] EXCEPT !.unstaked = @ + amount]
<1>1. Good(q, c) /\ Dearer(p, q)
  BY DepositedGood
<1>2. PICK T \in Nat, S \in Nat, L \in Nat :
         /\ T = p.total_staked_balance /\ S = p.total_stake_shares
         /\ L = p.last_total_balance + amount
  BY DEF Good, Pool
<1>3. p \in Pool /\ p.accounts[id] \in Account
  BY ViewTyped
<1>4. /\ account \in Account /\ account.unstaked = p.accounts[id].unstaked + amount
      /\ account.unstaked # 0
      /\ account.stake_shares = p.accounts[id].stake_shares
      /\ account.unstaked_available_epoch_height
           = p.accounts[id].unstaked_available_epoch_height
  BY <1>3 DEF Account
<1>5. q = Updated(p, id, account, T, S, L)
  <2>1. /\ Saved(p, id, account) \in Pool
        /\ Saved(p, id, account).total_staked_balance = T
        /\ Saved(p, id, account).total_stake_shares = S
        /\ Saved(p, id, account).last_total_balance = p.last_total_balance
    BY <1>2, <1>3, <1>4, SavedAccount
  <2> HIDE DEF account
  <2> QED
    BY <2>1, <1>2 DEF Deposited, Updated, Pool, account
<1> HIDE DEF q, account
<1>6. /\ OnlyTouches(p, q, id) /\ q.accounts[id] = account
      /\ q.total_staked_balance = T /\ q.total_stake_shares = S
  <2>1. p \in Pool /\ account \in Account
    BY <1>3, <1>4
  <2>2. /\ q.total_staked_balance = T /\ q.total_stake_shares = S
        /\ OnlyTouches(p, q, id)
        /\ q.accounts[id] = account \/ account.unstaked = 0
    BY <2>1, <1>5, SavedExactly
  <2> QED
    BY <2>2, <1>4
<1>7. Drift(q) = Drift(p)
  BY <1>2, <1>6 DEF Drift
<1>8. /\ View(q, id).staked = View(p, id).staked
      /\ View(q, id).unstaked = View(p, id).unstaked + amount
      /\ View(q, id).available_epoch = View(p, id).available_epoch
  BY <1>2, <1>4, <1>6 DEF View, AmountDown
<1> QED
  BY <1>1, <1>6, <1>7, <1>8 DEF q

(* internal_withdraw.                                                      *)
LEMMA WithdrawnView ==
  ASSUME NEW p, NEW c \in Nat, Good(p, c), NEW id \in Delegators, NEW amount \in Nat,
         amount <= p.last_total_balance, epoch \in Nat, CanWithdraw(p, id, amount)
  PROVE  LET q == Withdrawn(p, id, amount) IN
         /\ Good(q, c) /\ Dearer(p, q) /\ OnlyTouches(p, q, id)
         /\ View(q, id).staked = View(p, id).staked
         /\ amount <= View(p, id).unstaked
         /\ View(q, id).unstaked = View(p, id).unstaked - amount
         /\ \/ View(q, id).available_epoch = View(p, id).available_epoch
            \/ View(q, id).available_epoch <= epoch /\ View(p, id).available_epoch <= epoch
<1> DEFINE q == Withdrawn(p, id, amount)
           account == [p.accounts[id] EXCEPT !.unstaked = @ - amount]
<1>1. PICK T \in Nat, S \in Nat, L \in Nat :
         /\ T = p.total_staked_balance /\ S = p.total_stake_shares
         /\ L = p.last_total_balance - amount
  BY DEF Good, Pool
<1>2. p \in Pool /\ p.accounts[id] \in Account
  BY ViewTyped
<1>3. /\ amount <= p.accounts[id].unstaked
      /\ p.accounts[id].unstaked_available_epoch_height <= epoch
      /\ p.accounts[id].unstaked - amount \in Nat
  BY <1>2 DEF CanWithdraw, Account
<1>4. Good(q, c) /\ Dearer(p, q)
  BY <1>3, WithdrawnGood
<1>5. /\ account \in Account /\ account.unstaked = p.accounts[id].unstaked - amount
      /\ account.stake_shares = p.accounts[id].stake_shares
      /\ account.unstaked_available_epoch_height
           = p.accounts[id].unstaked_available_epoch_height
  BY <1>2, <1>3 DEF Account
<1>6. q = Updated(p, id, account, T, S, L)
  <2>1. /\ Saved(p, id, account) \in Pool
        /\ Saved(p, id, account).total_staked_balance = T
        /\ Saved(p, id, account).total_stake_shares = S
        /\ Saved(p, id, account).last_total_balance = p.last_total_balance
    BY <1>1, <1>2, <1>5, SavedAccount
  <2> HIDE DEF account
  <2> QED
    BY <2>1, <1>1 DEF Withdrawn, Updated, Pool, account
<1> HIDE DEF q, account
<1>7. /\ OnlyTouches(p, q, id)
      /\ q.accounts[id].stake_shares = account.stake_shares
      /\ q.accounts[id].unstaked = account.unstaked
      /\ q.accounts[id] = account \/ q.accounts[id].unstaked_available_epoch_height = 0
      /\ q.total_staked_balance = T /\ q.total_stake_shares = S
  <2>1. p \in Pool /\ account \in Account
    BY <1>2, <1>5
  <2> QED
    BY <2>1, <1>6, SavedExactly
<1>8. /\ View(q, id).staked = View(p, id).staked
      /\ amount <= View(p, id).unstaked
      /\ View(q, id).unstaked = View(p, id).unstaked - amount
  BY <1>1, <1>3, <1>5, <1>7 DEF View, AmountDown
<1>9. \/ View(q, id).available_epoch = View(p, id).available_epoch
      \/ View(q, id).available_epoch <= epoch /\ View(p, id).available_epoch <= epoch
  BY <1>3, <1>5, <1>7 DEF View
<1> QED
  BY <1>4, <1>7, <1>8, <1>9 DEF q


\* The totals of a pool that is Good, and the price of a share rounded up.
LEMMA PriceOfShare ==
  ASSUME NEW p, NEW c, Good(p, c)
  PROVE  \E T \in Nat, S \in Nat, price \in Nat :
            /\ T = p.total_staked_balance /\ S = p.total_stake_shares
            /\ 0 < S /\ S <= T
            /\ price = Drift(p) /\ T <= S * price
<1>1. PICK T \in Nat, S \in Nat :
         /\ T = p.total_staked_balance /\ S = p.total_stake_shares
         /\ 0 < S /\ S <= T
  BY DEF Good, Pool
<1>2. QuotientUp(T, S) \in Nat /\ T <= S * QuotientUp(T, S)
  BY <1>1, Ceiling
<1> QED
  BY <1>1, <1>2 DEF Drift

\* What a stake buys, at what charge.
LEMMA StakeCharged ==
  ASSUME NEW p, NEW c, Good(p, c), NEW amount \in Nat
  PROVE  /\ SharesDown(p, amount) \in Nat /\ Charge(p, amount) \in Nat /\ Drift(p) \in Nat
         /\ Charge(p, amount) = AmountDown(p, SharesDown(p, amount))
         /\ p.total_stake_shares * Charge(p, amount)
              <= p.total_staked_balance * SharesDown(p, amount)
         /\ Charge(p, amount) <= amount /\ amount <= Charge(p, amount) + Drift(p)
         /\ amount >= Drift(p) => SharesDown(p, amount) > 0 /\ Charge(p, amount) > 0
<1>1. PICK T \in Nat, S \in Nat, price \in Nat :
         /\ T = p.total_staked_balance /\ S = p.total_stake_shares
         /\ 0 < S /\ S <= T /\ price = Drift(p) /\ T <= S * price
  BY PriceOfShare
<1>2. T > 0
  BY <1>1
<1>3. SharesDown(p, amount) = proportional(S, amount, T)
  BY <1>1 DEF SharesDown
<1>4. PICK shares \in Nat :
         /\ shares = SharesDown(p, amount)
         /\ T * shares <= S * amount /\ S * amount < T * shares + T
  BY <1>2, <1>3, ProportionalFloor
<1>5. p \in Pool
  BY DEF Good
<1>6. PICK charge \in Nat :
         /\ charge = AmountDown(p, shares)
         /\ S * charge <= T * shares /\ T * shares < S * charge + S
  BY <1>1, <1>5, SharesValue
<1>7. charge = Charge(p, amount)
  BY <1>4, <1>6 DEF Charge
<1>8. /\ 0 < S /\ S <= T /\ T <= S * price
      /\ T * shares <= S * amount /\ S * amount < T * shares + T
      /\ S * charge <= T * shares /\ T * shares < S * charge + S
  BY <1>1, <1>4, <1>6
<1>9. /\ charge <= amount /\ amount <= charge + price
      /\ amount >= price => shares > 0 /\ charge > 0
  BY <1>8, ChargeBounds
<1> QED
  BY <1>1, <1>4, <1>6, <1>7, <1>9

(* internal_stake.                                                         *)
LEMMA StakedView ==
  ASSUME NEW p, NEW c \in Nat, Good(p, c), NEW id \in Delegators, NEW amount \in Nat,
         CanStake(p, id, amount)
  PROVE  LET q      == Staked(p, id, amount)
             charge == Charge(p, amount)
         IN
         /\ Good(q, c + 1) /\ Dearer(p, q) /\ OnlyTouches(p, q, id)
         /\ charge \in Nat /\ charge > 0 /\ charge <= View(p, id).unstaked
         /\ View(q, id).staked >= View(p, id).staked + charge
         /\ View(q, id).unstaked = View(p, id).unstaked - charge
         /\ View(q, id).available_epoch = View(p, id).available_epoch
<1> DEFINE q      == Staked(p, id, amount)
           charge == Charge(p, amount)
           shares == SharesDown(p, amount)
           account == [p.accounts[id] EXCEPT !.unstaked = @ - charge, !.stake_shares = @ + shares]
<1>1. Good(q, c + 1) /\ Dearer(p, q)
  BY StakedGood
<1>2. charge \in Nat /\ shares \in Nat
  BY StakeCharged
<1>3. p.total_stake_shares * charge <= p.total_staked_balance * shares
  BY StakeCharged
<1>4. /\ p \in Pool /\ p.accounts[id] \in Account
      /\ View(p, id).unstaked = p.accounts[id].unstaked
      /\ View(p, id).available_epoch = p.accounts[id].unstaked_available_epoch_height
  BY ViewTyped
<1>5. charge > 0 /\ charge <= p.accounts[id].unstaked /\ shares > 0
  BY <1>2, <1>4 DEF CanStake, Account
<1> HIDE DEF charge, shares
<1>6. /\ account \in Account /\ account.unstaked = p.accounts[id].unstaked - charge
      /\ account.stake_shares = p.accounts[id].stake_shares + shares
      /\ account.stake_shares # 0
      /\ account.unstaked_available_epoch_height
           = p.accounts[id].unstaked_available_epoch_height
  <2>1. PICK u \in Nat, n \in Nat :
           /\ u = p.accounts[id].unstaked - charge
           /\ n = p.accounts[id].stake_shares + shares /\ n # 0
    BY <1>2, <1>4, <1>5 DEF Account
  <2>2. account = [p.accounts[id] EXCEPT !.unstaked = u, !.stake_shares = n]
    BY <1>4, <2>1 DEF Account
  <2> HIDE DEF account
  <2> QED
    BY <1>4, <2>1, <2>2 DEF Account
<1>7. PICK T \in Nat, S \in Nat, L \in Nat :
         /\ T = p.total_staked_balance + AmountUp(p, shares)
         /\ S = p.total_stake_shares + shares
         /\ L = p.last_total_balance
  <2>1. PICK T0 \in Nat, S0 \in Nat, L \in Nat :
           /\ T0 = p.total_staked_balance /\ S0 = p.total_stake_shares /\ 0 < S0
           /\ L = p.last_total_balance
    BY <1>4 DEF Good, Pool
  <2>2. AmountUp(p, shares) \in Nat
    BY <1>2, <1>4, <2>1, SharesValue
  <2>3. T0 + AmountUp(p, shares) \in Nat /\ S0 + shares \in Nat
    BY <1>2, <2>1, <2>2
  <2> QED
    BY <2>1, <2>3
<1>8. q = Updated(p, id, account, T, S, L)
  <2>1. /\ Saved(p, id, account) \in Pool
        /\ Saved(p, id, account).total_staked_balance = p.total_staked_balance
        /\ Saved(p, id, account).total_stake_shares = p.total_stake_shares
        /\ Saved(p, id, account).last_total_balance = L
    BY <1>4, <1>6, <1>7, SavedAccount
  <2>2. q = [Saved(p, id, account) EXCEPT
               !.total_staked_balance = @ + AmountUp(p, shares),
               !.total_stake_shares = @ + shares]
    BY DEF Staked, charge, shares
  <2> HIDE DEF q, account
  <2>3. q = [Saved(p, id, account) EXCEPT
               !.total_staked_balance = T, !.total_stake_shares = S]
    BY <1>7, <2>1, <2>2 DEF Pool
  <2> QED
    BY <2>1, <2>3 DEF Updated, Pool
<1> HIDE DEF q, account
<1>9. OnlyTouches(p, q, id) /\ q.accounts[id] = account
  <2>1. p \in Pool /\ account \in Account
    BY <1>4, <1>6
  <2>2. /\ OnlyTouches(p, q, id)
        /\ q.accounts[id] = account \/ account.stake_shares = 0
    BY <2>1, <1>8, SavedExactly
  <2> QED
    BY <2>2, <1>6
<1>10. View(q, id).staked >= View(p, id).staked + charge
  <2>1. PICK T0 \in Nat, S0 \in Nat, n \in Nat, a \in Nat :
           /\ T0 = p.total_staked_balance /\ S0 = p.total_stake_shares /\ 0 < S0
           /\ n = p.accounts[id].stake_shares /\ a = View(p, id).staked
           /\ S0 * a <= T0 * n
    BY ViewTyped
  <2>2. PICK m \in Nat : m = n + shares
    BY <1>2
  <2>3. PICK b \in Nat : b = AmountDown(p, m) /\ S0 * b <= T0 * m /\ T0 * m < S0 * b + S0
    BY <1>4, <2>1, SharesValue
  <2>4. S0 * charge <= T0 * shares
    BY <1>3, <2>1
  <2>5. T0 * (n + shares) < S0 * b + S0
    BY <2>2, <2>3
  <2>6. 0 < S0 /\ S0 * a <= T0 * n
    BY <2>1
  <2>7. a + charge <= b
    BY <1>2, <2>4, <2>5, <2>6, WorthTogether
  <2>8. m <= q.accounts[id].stake_shares
    BY <1>6, <1>9, <2>1, <2>2
  <2>9. p.total_stake_shares * b <= p.total_staked_balance * m
    BY <2>1, <2>3
  <2>10. b <= View(q, id).staked
    BY <1>1, <2>8, <2>9, WorthAtLeast
  <2>11. View(q, id).staked \in Nat
    BY <1>1, ViewTyped
  <2> QED
    BY <1>2, <2>1, <2>7, <2>10, <2>11
<1>11. /\ View(q, id).unstaked = View(p, id).unstaked - charge
       /\ View(q, id).available_epoch = View(p, id).available_epoch
  BY <1>4, <1>6, <1>9 DEF View
<1> QED
  BY <1>1, <1>2, <1>4, <1>5, <1>9, <1>10, <1>11 DEF q, charge


\* What an unstake sells, and what is paid for it.
LEMMA UnstakePaid ==
  ASSUME NEW p, NEW c, Good(p, c), NEW id \in Delegators, NEW amount \in Nat \ {0}
  PROVE  LET shares == SharesUp(p, amount)
             paid   == AmountUp(p, shares)
         IN
         /\ shares \in Nat /\ paid \in Nat /\ Drift(p) \in Nat
         /\ shares > 0 /\ paid > 0
         /\ p.total_staked_balance * shares <= p.total_stake_shares * paid
         /\ amount <= paid /\ paid <= amount + Drift(p)
         /\ shares <= p.accounts[id].stake_shares <=> amount <= View(p, id).staked
<1>1. PICK T \in Nat, S \in Nat, price \in Nat :
         /\ T = p.total_staked_balance /\ S = p.total_stake_shares
         /\ 0 < S /\ S <= T /\ price = Drift(p) /\ T <= S * price
  BY PriceOfShare
<1>2. T > 0
  BY <1>1
<1>3. PICK v \in Nat : v = S * amount
  BY Z3
<1>4. SharesUp(p, amount) = QuotientUp(v, T)
  BY <1>1, <1>3 DEF SharesUp
<1>5. PICK shares \in Nat :
         /\ shares = SharesUp(p, amount)
         /\ v <= T * shares /\ T * shares < v + T
  BY <1>2, <1>4, Ceiling
<1>6. p \in Pool
  BY DEF Good
<1>7. PICK paid \in Nat :
         /\ paid = AmountUp(p, shares)
         /\ T * shares <= S * paid /\ S * paid < T * shares + S
  BY <1>1, <1>6, SharesValue
<1>8. PICK owned \in Nat, worth \in Nat :
         /\ owned = p.accounts[id].stake_shares /\ worth = View(p, id).staked
         /\ S * worth <= T * owned /\ T * owned < S * worth + S
  BY <1>1, ViewTyped
<1>9. /\ 0 < S /\ S <= T /\ T <= S * price
      /\ S * amount <= T * shares /\ T * shares < S * amount + T
      /\ T * shares <= S * paid /\ S * paid < T * shares + S
      /\ S * worth <= T * owned /\ T * owned < S * worth + S
  BY <1>1, <1>3, <1>5, <1>7, <1>8
<1>10. amount \in Nat /\ amount > 0
  OBVIOUS
<1>11. /\ amount <= paid /\ paid <= amount + price
       /\ shares > 0 /\ paid > 0
       /\ shares <= owned <=> amount <= worth
  BY <1>9, <1>10, PaymentBounds
<1> QED
  BY <1>1, <1>5, <1>7, <1>8, <1>11

(* inner_unstake.                                                          *)
LEMMA UnstakedView ==
  ASSUME NEW p, NEW c \in Nat, Good(p, c), NEW id \in Delegators,
         NEW amount \in Nat, epoch \in Nat, CanUnstake(p, id, amount)
  PROVE  LET q    == Unstaked(p, id, amount)
             paid == AmountUp(p, SharesUp(p, amount))
         IN
         /\ Good(q, c + 1) /\ Dearer(p, q) /\ OnlyTouches(p, q, id)
         /\ paid \in Nat /\ amount <= paid /\ paid <= amount + Drift(p)
         /\ amount <= View(p, id).staked
         /\ View(p, id).staked <= View(q, id).staked + paid
         /\ View(q, id).unstaked = View(p, id).unstaked + paid
         /\ View(q, id).available_epoch = epoch + NUM_EPOCHS_TO_UNLOCK
<1> DEFINE q      == Unstaked(p, id, amount)
           shares == SharesUp(p, amount)
           paid   == AmountUp(p, shares)
           account == [unstaked |-> p.accounts[id].unstaked + paid,
                       stake_shares |-> p.accounts[id].stake_shares - shares,
                       unstaked_available_epoch_height |-> epoch + NUM_EPOCHS_TO_UNLOCK]
<1>1. Good(q, c + 1) /\ Dearer(p, q)
  BY UnstakedGood
<1>2. amount \in Nat \ {0}
  BY DEF CanUnstake
<1>3. /\ shares \in Nat /\ paid \in Nat /\ shares > 0 /\ paid > 0
      /\ p.total_staked_balance * shares <= p.total_stake_shares * paid
      /\ amount <= paid /\ paid <= amount + Drift(p)
      /\ shares <= p.accounts[id].stake_shares <=> amount <= View(p, id).staked
  BY <1>2, UnstakePaid
<1>4. /\ p \in Pool /\ p.accounts[id] \in Account
      /\ View(p, id).unstaked = p.accounts[id].unstaked
  BY ViewTyped
<1>5. shares <= p.accounts[id].stake_shares
  BY <1>3, <1>4 DEF CanUnstake, Account
<1>6. epoch + NUM_EPOCHS_TO_UNLOCK \in Nat
  BY PoolAssumption
<1> HIDE DEF paid, shares
<1>7. /\ account \in Account /\ account.unstaked = p.accounts[id].unstaked + paid
      /\ account.stake_shares = p.accounts[id].stake_shares - shares
      /\ account.unstaked # 0
      /\ account.unstaked_available_epoch_height = epoch + NUM_EPOCHS_TO_UNLOCK
  <2>1. /\ p.accounts[id].unstaked + paid \in Nat /\ p.accounts[id].unstaked + paid # 0
        /\ p.accounts[id].stake_shares - shares \in Nat
    BY <1>3, <1>4, <1>5 DEF Account
  <2> QED
    BY <1>6, <2>1 DEF Account
<1>8. PICK T \in Nat, S \in Nat, L \in Nat :
         /\ T = p.total_staked_balance - AmountDown(p, shares)
         /\ S = p.total_stake_shares - shares
         /\ L = p.last_total_balance
  <2>1. /\ q \in Pool /\ q.total_staked_balance \in Nat /\ q.total_stake_shares \in Nat
        /\ p.last_total_balance \in Nat
    BY <1>1, <1>4 DEF Good, Pool
  <2>2. /\ q.total_staked_balance = p.total_staked_balance - AmountDown(p, shares)
        /\ q.total_stake_shares = p.total_stake_shares - shares
    <3>1. Saved(p, id, account) \in Pool
      BY <1>4, <1>7, SavedAccount
    <3>2. /\ Saved(p, id, account).total_staked_balance = p.total_staked_balance
          /\ Saved(p, id, account).total_stake_shares = p.total_stake_shares
      BY <1>4, <1>7, SavedAccount
    <3>3. q = [Saved(p, id, account) EXCEPT
                 !.total_staked_balance = @ - AmountDown(p, shares),
                 !.total_stake_shares = @ - shares]
      BY DEF Unstaked, shares, paid
    <3> HIDE DEF q, account
    <3> QED
      BY <3>1, <3>2, <3>3 DEF Pool
  <2> QED
    BY <2>1, <2>2
<1>9. q = Updated(p, id, account, T, S, L)
  <2>1. /\ Saved(p, id, account) \in Pool
        /\ Saved(p, id, account).total_staked_balance = p.total_staked_balance
        /\ Saved(p, id, account).total_stake_shares = p.total_stake_shares
        /\ Saved(p, id, account).last_total_balance = L
    BY <1>4, <1>7, <1>8, SavedAccount
  <2>2. q = [Saved(p, id, account) EXCEPT
               !.total_staked_balance = @ - AmountDown(p, shares),
               !.total_stake_shares = @ - shares]
    BY DEF Unstaked, shares, paid
  <2> HIDE DEF q, account
  <2>3. q = [Saved(p, id, account) EXCEPT
               !.total_staked_balance = T, !.total_stake_shares = S]
    BY <1>8, <2>1, <2>2 DEF Pool
  <2> QED
    BY <2>1, <2>3 DEF Updated, Pool
<1> HIDE DEF q, account
<1>10. OnlyTouches(p, q, id) /\ q.accounts[id] = account
  <2>1. p \in Pool /\ account \in Account
    BY <1>4, <1>7
  <2>2. /\ OnlyTouches(p, q, id)
        /\ q.accounts[id] = account \/ account.unstaked = 0
    BY <2>1, <1>9, SavedExactly
  <2> QED
    BY <2>2, <1>7
<1>11. View(p, id).staked <= View(q, id).staked + paid
  <2>1. PICK T0 \in Nat, S0 \in Nat, n \in Nat, a \in Nat :
           /\ T0 = p.total_staked_balance /\ S0 = p.total_stake_shares /\ 0 < S0
           /\ n = p.accounts[id].stake_shares /\ a = View(p, id).staked
           /\ S0 * a <= T0 * n
    BY ViewTyped
  <2>2. PICK m \in Nat : m = n - shares /\ n = m + shares
    BY <1>3, <1>5, <2>1
  <2>3. PICK b \in Nat : b = AmountDown(p, m) /\ S0 * b <= T0 * m /\ T0 * m < S0 * b + S0
    BY <1>4, <2>1, SharesValue
  <2>4. /\ T0 * shares <= S0 * paid /\ 0 < S0
        /\ S0 * a <= T0 * (m + shares) /\ T0 * m < S0 * b + S0
    BY <1>3, <2>1, <2>2, <2>3
  <2>5. a <= b + paid
    BY <1>3, <2>4, WorthApart
  <2>6. m <= q.accounts[id].stake_shares
    BY <1>7, <1>10, <2>1, <2>2
  <2>7. p.total_stake_shares * b <= p.total_staked_balance * m
    BY <2>1, <2>3
  <2>8. b <= View(q, id).staked
    BY <1>1, <2>6, <2>7, WorthAtLeast
  <2>9. View(q, id).staked \in Nat
    BY <1>1, ViewTyped
  <2> QED
    BY <1>3, <2>1, <2>5, <2>8, <2>9
<1>12. /\ View(q, id).unstaked = View(p, id).unstaked + paid
       /\ View(q, id).available_epoch = epoch + NUM_EPOCHS_TO_UNLOCK
  BY <1>4, <1>7, <1>10 DEF View
<1> QED
  BY <1>1, <1>3, <1>5, <1>10, <1>11, <1>12 DEF q, paid, shares


-----------------------------------------------------------------------------
(* The calls, from the account as it was seen before to what is seen after.*)

LEMMA DepositSeen ==
  ASSUME IInv, NEW id \in Delegators, NEW a \in Nat \ {0}, Deposit(id, a)
  PROVE  /\ OnlyTouches(Pinged, pool', id) /\ Dearer(Pinged, pool')
         /\ View(pool', id).staked >= View(pool, id).staked
         /\ View(pool', id).unstaked = View(pool, id).unstaked + a
<1>1. conversions \in Nat /\ Good(Pinged, conversions) /\ Earns(pool, Pinged, id)
  BY PingedEarns DEF IInv
<1>2. pool' = Deposited(Pinged, id, a)
  BY DEF Deposit, Ends
<1>3. /\ OnlyTouches(Pinged, pool', id) /\ Dearer(Pinged, pool')
      /\ View(pool', id).staked = View(Pinged, id).staked
      /\ View(pool', id).unstaked = View(Pinged, id).unstaked + a
  BY <1>1, <1>2, DepositedView
<1> QED
  BY <1>1, <1>3 DEF Earns

LEMMA DepositAndStakeSeen ==
  ASSUME IInv, NEW id \in Delegators, NEW a \in Nat \ {0}, DepositAndStake(id, a)
  PROVE  /\ OnlyTouches(Pinged, pool', id) /\ Dearer(Pinged, pool')
         /\ Drift(Pinged) \in Nat
         /\ \E charge \in Nat :
               /\ 0 < charge /\ charge <= a /\ a <= charge + Drift(Pinged)
               /\ View(pool', id).staked >= View(pool, id).staked + charge
               /\ View(pool', id).unstaked = View(pool, id).unstaked + a - charge
               /\ View(pool', id).available_epoch = View(pool, id).available_epoch
<1> DEFINE q == Deposited(Pinged, id, a)
<1>1. /\ conversions \in Nat /\ Good(Pinged, conversions) /\ Good(pool, conversions)
      /\ Earns(pool, Pinged, id)
  BY PingedEarns DEF IInv
<1>2. /\ Good(q, conversions) /\ Dearer(Pinged, q) /\ OnlyTouches(Pinged, q, id)
      /\ Drift(q) = Drift(Pinged)
      /\ View(q, id).staked = View(Pinged, id).staked
      /\ View(q, id).unstaked = View(Pinged, id).unstaked + a
      /\ View(q, id).available_epoch = View(Pinged, id).available_epoch
  BY <1>1, DepositedView
<1>3. pool' = Staked(q, id, a) /\ CanStake(q, id, a)
  BY DEF DepositAndStake, Ends
<1> HIDE DEF q
<1>4. /\ Good(pool', conversions + 1) /\ Dearer(q, pool') /\ OnlyTouches(q, pool', id)
      /\ Charge(q, a) \in Nat /\ Charge(q, a) > 0
      /\ View(pool', id).staked >= View(q, id).staked + Charge(q, a)
      /\ View(pool', id).unstaked = View(q, id).unstaked - Charge(q, a)
      /\ View(pool', id).available_epoch = View(q, id).available_epoch
  BY <1>1, <1>2, <1>3, StakedView
<1>5. Drift(q) \in Nat /\ Charge(q, a) <= a /\ a <= Charge(q, a) + Drift(q)
  BY <1>2, StakeCharged
<1>6. OnlyTouches(Pinged, pool', id)
  BY <1>2, <1>4 DEF OnlyTouches
<1>7. Dearer(Pinged, pool')
  <2>1. Pinged \in Pool /\ q \in Pool /\ pool' \in Pool
    BY <1>1, <1>2, <1>4, GoodIsPool
  <2>2. q.total_stake_shares > 0
    BY <1>2, <2>1 DEF Good, Pool
  <2> QED
    BY <1>2, <1>4, <2>1, <2>2, DearerTransitive
<1>8. /\ View(pool, id).staked \in Nat /\ View(pool, id).unstaked \in Nat
      /\ View(Pinged, id).staked \in Nat /\ View(pool', id).staked \in Nat
  BY <1>1, <1>4, ViewTyped
<1>9. /\ View(pool', id).staked >= View(pool, id).staked + Charge(q, a)
      /\ View(pool', id).unstaked = View(pool, id).unstaked + a - Charge(q, a)
      /\ View(pool', id).available_epoch = View(pool, id).available_epoch
  BY <1>1, <1>2, <1>4, <1>8 DEF Earns
<1> QED
  BY <1>2, <1>4, <1>5, <1>6, <1>7, <1>9

LEMMA StakeSeen ==
  ASSUME IInv, NEW id \in Delegators, NEW a \in Nat, Stake(id, a)
  PROVE  /\ OnlyTouches(Pinged, pool', id) /\ Dearer(Pinged, pool')
         /\ Drift(Pinged) \in Nat
         /\ \E charge \in Nat :
               /\ 0 < charge /\ charge <= a /\ a <= charge + Drift(Pinged)
               /\ charge <= View(pool, id).unstaked
               /\ View(pool', id).staked >= View(pool, id).staked + charge
               /\ View(pool', id).unstaked = View(pool, id).unstaked - charge
               /\ View(pool', id).available_epoch = View(pool, id).available_epoch
<1>1. /\ conversions \in Nat /\ Good(Pinged, conversions) /\ Good(pool, conversions)
      /\ Earns(pool, Pinged, id)
  BY PingedEarns DEF IInv
<1>2. pool' = Staked(Pinged, id, a) /\ CanStake(Pinged, id, a)
  BY DEF Stake, Ends
<1>3. /\ Good(pool', conversions + 1) /\ Dearer(Pinged, pool')
      /\ OnlyTouches(Pinged, pool', id)
      /\ Charge(Pinged, a) \in Nat /\ Charge(Pinged, a) > 0
      /\ Charge(Pinged, a) <= View(Pinged, id).unstaked
      /\ View(pool', id).staked >= View(Pinged, id).staked + Charge(Pinged, a)
      /\ View(pool', id).unstaked = View(Pinged, id).unstaked - Charge(Pinged, a)
      /\ View(pool', id).available_epoch = View(Pinged, id).available_epoch
  BY <1>1, <1>2, StakedView
<1>4. /\ Drift(Pinged) \in Nat /\ Charge(Pinged, a) <= a
      /\ a <= Charge(Pinged, a) + Drift(Pinged)
  BY <1>1, StakeCharged
<1>5. /\ View(pool, id).staked \in Nat /\ View(Pinged, id).staked \in Nat
      /\ View(pool', id).staked \in Nat
  BY <1>1, <1>3, ViewTyped
<1>6. /\ Charge(Pinged, a) <= View(pool, id).unstaked
      /\ View(pool', id).staked >= View(pool, id).staked + Charge(Pinged, a)
      /\ View(pool', id).unstaked = View(pool, id).unstaked - Charge(Pinged, a)
      /\ View(pool', id).available_epoch = View(pool, id).available_epoch
  BY <1>1, <1>3, <1>5 DEF Earns
<1> QED
  BY <1>3, <1>4, <1>6

LEMMA UnstakeSeen ==
  ASSUME IInv, NEW id \in Delegators, NEW a \in Nat, Unstake(id, a)
  PROVE  /\ OnlyTouches(Pinged, pool', id) /\ Dearer(Pinged, pool')
         /\ Drift(Pinged) \in Nat /\ a <= View(Pinged, id).staked
         /\ \E paid \in Nat :
               /\ a <= paid /\ paid <= a + Drift(Pinged)
               /\ View(pool, id).staked <= View(pool', id).staked + paid
               /\ View(pool', id).unstaked = View(pool, id).unstaked + paid
               /\ View(pool', id).available_epoch = epoch + NUM_EPOCHS_TO_UNLOCK
<1>1. /\ conversions \in Nat /\ Good(Pinged, conversions) /\ Good(pool, conversions)
      /\ Earns(pool, Pinged, id) /\ epoch \in Nat
  BY PingedEarns DEF IInv
<1>2. pool' = Unstaked(Pinged, id, a) /\ CanUnstake(Pinged, id, a)
  BY DEF Unstake, Ends
<1> DEFINE paid == AmountUp(Pinged, SharesUp(Pinged, a))
<1>3. /\ Good(pool', conversions + 1) /\ Dearer(Pinged, pool')
      /\ OnlyTouches(Pinged, pool', id)
      /\ paid \in Nat /\ a <= paid /\ paid <= a + Drift(Pinged)
      /\ a <= View(Pinged, id).staked
      /\ View(Pinged, id).staked <= View(pool', id).staked + paid
      /\ View(pool', id).unstaked = View(Pinged, id).unstaked + paid
      /\ View(pool', id).available_epoch = epoch + NUM_EPOCHS_TO_UNLOCK
  BY <1>1, <1>2, UnstakedView
<1> HIDE DEF paid
<1>4. Drift(Pinged) \in Nat
  BY <1>1, PriceOfShare
<1>5. /\ View(pool, id).staked \in Nat /\ View(Pinged, id).staked \in Nat
      /\ View(pool', id).staked \in Nat
  BY <1>1, <1>3, ViewTyped
<1>6. /\ View(pool, id).staked <= View(pool', id).staked + paid
      /\ View(pool', id).unstaked = View(pool, id).unstaked + paid
  BY <1>1, <1>3, <1>5 DEF Earns
<1> QED
  BY <1>3, <1>4, <1>6

LEMMA WithdrawSeen ==
  ASSUME IInv, NEW id \in Delegators, NEW a \in Nat, Withdraw(id, a)
  PROVE  /\ OnlyTouches(Pinged, pool', id) /\ Dearer(Pinged, pool')
         /\ 0 < a /\ a <= balance /\ balance \in Nat /\ balance' = balance - a
         /\ View(pool', id).staked >= View(pool, id).staked
         /\ a <= View(pool, id).unstaked
         /\ View(pool', id).unstaked = View(pool, id).unstaked - a
         /\ \/ View(pool', id).available_epoch = View(pool, id).available_epoch
            \/ /\ View(pool', id).available_epoch <= epoch
               /\ View(pool, id).available_epoch <= epoch
<1>1. /\ conversions \in Nat /\ Good(Pinged, conversions) /\ Good(pool, conversions)
      /\ Earns(pool, Pinged, id) /\ epoch \in Nat /\ balance \in Nat
      /\ Pinged.last_total_balance = balance
  BY PingedEarns, PingedGood DEF IInv
<1>2. /\ pool' = Withdrawn(Pinged, id, a) /\ CanWithdraw(Pinged, id, a)
      /\ a <= balance /\ balance' = balance - a /\ 0 < a
  BY <1>1 DEF Withdraw, Ends, CanWithdraw
<1>3. /\ OnlyTouches(Pinged, pool', id) /\ Dearer(Pinged, pool')
      /\ View(pool', id).staked = View(Pinged, id).staked
      /\ a <= View(Pinged, id).unstaked
      /\ View(pool', id).unstaked = View(Pinged, id).unstaked - a
      /\ \/ View(pool', id).available_epoch = View(Pinged, id).available_epoch
         \/ /\ View(pool', id).available_epoch <= epoch
            /\ View(Pinged, id).available_epoch <= epoch
  BY <1>1, <1>2, WithdrawnView
<1> QED
  BY <1>1, <1>2, <1>3 DEF Earns

(* A call of one delegator touches no account of another.                  *)
LEMMA CallTouches ==
  ASSUME IInv, NEW id \in Delegators, DelegatorCalls(id)
  PROVE  OnlyTouches(Pinged, pool', id) /\ Dearer(Pinged, pool')
<1>1. Deposits \subseteq Nat \ {0} /\ Requests \subseteq Nat
  BY PoolAssumption
<1>2. /\ Pinged.accounts[id].unstaked \in Nat
      /\ AmountDown(Pinged, Pinged.accounts[id].stake_shares) \in Nat
  BY PingedEarns, ViewTyped
<1>3. ASSUME NEW a \in Nat \ {0}, Deposit(id, a) \/ DepositAndStake(id, a)
      PROVE  OnlyTouches(Pinged, pool', id) /\ Dearer(Pinged, pool')
  BY <1>3, DepositSeen, DepositAndStakeSeen
<1>4. ASSUME NEW a \in Nat, Withdraw(id, a) \/ Stake(id, a) \/ Unstake(id, a)
      PROVE  OnlyTouches(Pinged, pool', id) /\ Dearer(Pinged, pool')
  BY <1>4, WithdrawSeen, StakeSeen, UnstakeSeen
<1>5. CASE WithdrawAll(id) \/ StakeAll(id) \/ UnstakeAll(id)
  BY <1>2, <1>4, <1>5 DEF WithdrawAll, StakeAll, UnstakeAll
<1> QED
  BY <1>1, <1>3, <1>4, <1>5 DEF DelegatorCalls

-----------------------------------------------------------------------------
(* What a step does to an account that does not call.                      *)

(* A call of another delegator lets the account earn.                      *)
LEMMA AnothersCall ==
  ASSUME IInv, NEW id \in Delegators, NEW other \in Delegators \ {id},
         DelegatorCalls(other)
  PROVE  Earns(pool, pool', id)
<1>1. /\ Good(pool, conversions) /\ Good(Pinged, conversions)
      /\ Earns(pool, Pinged, id)
  BY PingedEarns
<1>2. Good(pool', conversions')
  <2>1. Kept
    BY DelegatorKeeps
  <2> QED
    BY <2>1 DEF Kept, IInv, Good, AllShares, AllUnstaked
<1>3. OnlyTouches(Pinged, pool', other) /\ Dearer(Pinged, pool')
  BY CallTouches
<1>4. pool'.accounts[id] = Pinged.accounts[id]
  BY <1>3 DEF OnlyTouches
<1>5. PICK r, e : r = pool' /\ e = conversions'
  OBVIOUS
<1>6. Earns(Pinged, r, id)
  BY <1>1, <1>2, <1>3, <1>4, <1>5, OthersEarn
<1>7. Earns(pool, r, id)
  BY <1>1, <1>2, <1>5, <1>6, EarnsTransitive
<1> QED
  BY <1>5, <1>7

(* So do a ping, the owner's calls and the end of an epoch.                *)
LEMMA NobodysCall ==
  ASSUME IInv, NEW id \in Delegators,
         Ping \/ OwnerCalls \/ (\E r \in Rewards : NewEpoch(r)) \/ UNCHANGED vars
  PROVE  Earns(pool, pool', id)
<1>1. Good(pool, conversions) /\ Good(Pinged, conversions) /\ Earns(pool, Pinged, id)
  BY PingedEarns
<1>2. View(pool, id).staked \in Nat
  BY <1>1, ViewTyped
<1>3. Pinged \in Pool
  BY <1>1, GoodIsPool
<1>4. CASE \/ pool'.accounts = Pinged.accounts
              /\ pool'.total_staked_balance = Pinged.total_staked_balance
              /\ pool'.total_stake_shares = Pinged.total_stake_shares
  <2>1. View(pool', id) = View(Pinged, id)
    BY <1>4 DEF View, AmountDown
  <2> QED
    BY <2>1, <1>1 DEF Earns
<1>5. CASE Ping
  BY <1>4, <1>5 DEF Ping, Ends
<1>6. CASE OwnerCalls
  <2>1. \/ \E fee \in Fees : pool' = [Pinged EXCEPT !.reward_fee_fraction = fee]
        \/ \E stopped \in BOOLEAN : pool' = [Pinged EXCEPT !.paused = stopped]
    BY <1>6 DEF OwnerCalls, UpdateRewardFeeFraction, PauseStaking, ResumeStaking, Ends
  <2>2. PICK q : q = pool'
    OBVIOUS
  <2>3. /\ q.accounts = Pinged.accounts
        /\ q.total_staked_balance = Pinged.total_staked_balance
        /\ q.total_stake_shares = Pinged.total_stake_shares
    BY <2>1, <2>2, <1>3 DEF Pool
  <2> QED
    BY <2>2, <2>3, <1>4
<1>7. CASE (\E r \in Rewards : NewEpoch(r)) \/ UNCHANGED vars
  <2>1. pool' = pool
    BY <1>7 DEF NewEpoch, vars
  <2> QED
    BY <2>1, <1>2 DEF Earns
<1> QED
  BY <1>5, <1>6, <1>7

-----------------------------------------------------------------------------
(* BalanceKept.                                                            *)

\* What an account has does not fall.
NoLess(id) ==
  View(pool, id).staked + View(pool, id).unstaked
    <= View(pool', id).staked + View(pool', id).unstaked

\* It falls by what is paid out.
PaidOut(id, a) ==
  /\ a \in 1..balance /\ Withdraw(id, a) /\ balance' = balance - a
  /\ View(pool, id).staked + View(pool, id).unstaked
       <= View(pool', id).staked + View(pool', id).unstaked + a

LEMMA EarningIsNoLess ==
  ASSUME IInv, IInv', NEW id \in Delegators, Earns(pool, pool', id)
  PROVE  NoLess(id)
<1>1. Good(pool, conversions) /\ Good(pool', conversions')
  BY DEF IInv, Good, AllShares, AllUnstaked
<1>2. PICK r, e : r = pool' /\ e = conversions'
  OBVIOUS
<1>3. Good(r, e) /\ Earns(pool, r, id)
  BY <1>1, <1>2
<1>4. /\ View(pool, id).staked \in Nat /\ View(pool, id).unstaked \in Nat
      /\ View(r, id).staked \in Nat /\ View(r, id).unstaked \in Nat
  BY <1>1, <1>3, ViewTyped
<1> QED
  BY <1>2, <1>3, <1>4 DEF Earns, NoLess

LEMMA OwnCallKeepsBalance ==
  ASSUME IInv, IInv', NEW id \in Delegators, DelegatorCalls(id)
  PROVE  NoLess(id) \/ \E a \in 1..balance : PaidOut(id, a)
<1>1. Good(pool, conversions) /\ Good(Pinged, conversions)
  BY PingedEarns
<1>2. Good(pool', conversions')
  BY DEF IInv, Good, AllShares, AllUnstaked
<1>3. PICK r, e : r = pool' /\ e = conversions'
  OBVIOUS
<1>4. /\ View(pool, id).staked \in Nat /\ View(pool, id).unstaked \in Nat
      /\ View(pool', id).staked \in Nat /\ View(pool', id).unstaked \in Nat
  <2>1. Good(r, e)
    BY <1>2, <1>3
  <2>2. View(r, id).staked \in Nat /\ View(r, id).unstaked \in Nat
    BY <2>1, ViewTyped
  <2> QED
    BY <2>2, <1>1, <1>3, ViewTyped
<1>5. Deposits \subseteq Nat \ {0} /\ Requests \subseteq Nat
  BY PoolAssumption
<1>6. /\ Pinged.accounts[id].unstaked \in Nat
      /\ AmountDown(Pinged, Pinged.accounts[id].stake_shares) \in Nat
  BY <1>1, ViewTyped
<1>7. ASSUME NEW a \in Nat \ {0}, Deposit(id, a) PROVE NoLess(id)
  BY <1>4, <1>7, DepositSeen DEF NoLess
<1>8. ASSUME NEW a \in Nat \ {0}, DepositAndStake(id, a) PROVE NoLess(id)
  <2>1. PICK charge \in Nat :
           /\ charge <= a
           /\ View(pool', id).staked >= View(pool, id).staked + charge
           /\ View(pool', id).unstaked = View(pool, id).unstaked + a - charge
    BY <1>8, DepositAndStakeSeen
  <2> QED
    BY <2>1, <1>4 DEF NoLess
<1>9. ASSUME NEW a \in Nat, Stake(id, a) PROVE NoLess(id)
  <2>1. PICK charge \in Nat :
           /\ View(pool', id).staked >= View(pool, id).staked + charge
           /\ View(pool', id).unstaked = View(pool, id).unstaked - charge
    BY <1>9, StakeSeen
  <2> QED
    BY <2>1, <1>4 DEF NoLess
<1>10. ASSUME NEW a \in Nat, Unstake(id, a) PROVE NoLess(id)
  <2>1. PICK paid \in Nat :
           /\ View(pool, id).staked <= View(pool', id).staked + paid
           /\ View(pool', id).unstaked = View(pool, id).unstaked + paid
    BY <1>10, UnstakeSeen
  <2> QED
    BY <2>1, <1>4 DEF NoLess
<1>11. ASSUME NEW a \in Nat, Withdraw(id, a) PROVE a \in 1..balance /\ PaidOut(id, a)
  <2>1. /\ 0 < a /\ a <= balance /\ balance \in Nat /\ balance' = balance - a
        /\ View(pool', id).staked >= View(pool, id).staked
        /\ View(pool', id).unstaked = View(pool, id).unstaked - a
    BY <1>11, WithdrawSeen
  <2> QED
    BY <2>1, <1>4, <1>11 DEF PaidOut
<1>12. CASE WithdrawAll(id)
  BY <1>12, <1>6, <1>11 DEF WithdrawAll
<1>13. CASE StakeAll(id)
  BY <1>13, <1>6, <1>9 DEF StakeAll
<1>14. CASE UnstakeAll(id)
  BY <1>14, <1>6, <1>10 DEF UnstakeAll
<1>15. CASE \E a \in Deposits : Deposit(id, a) \/ DepositAndStake(id, a)
  BY <1>15, <1>5, <1>7, <1>8
<1>16. CASE \E a \in Requests : Withdraw(id, a) \/ Stake(id, a) \/ Unstake(id, a)
  BY <1>16, <1>5, <1>9, <1>10, <1>11
<1> QED
  BY <1>12, <1>13, <1>14, <1>15, <1>16 DEF DelegatorCalls

LEMMA StepKeepsBalance ==
  ASSUME IInv, IInv', [Next]_vars, NEW id \in Delegators PROVE KeepsBalance(id)
<1>1. NoLess(id) \/ \E a \in 1..balance : PaidOut(id, a)
  <2>1. CASE \E other \in Delegators : DelegatorCalls(other)
    <3>1. PICK other \in Delegators : DelegatorCalls(other)
      BY <2>1
    <3>2. CASE other = id
      BY <3>1, <3>2, OwnCallKeepsBalance
    <3>3. CASE other # id
      BY <3>1, <3>3, AnothersCall, EarningIsNoLess
    <3> QED
      BY <3>2, <3>3
  <2>2. CASE Ping \/ OwnerCalls \/ (\E r \in Rewards : NewEpoch(r)) \/ UNCHANGED vars
    BY <2>2, NobodysCall, EarningIsNoLess
  <2> QED
    BY <2>1, <2>2 DEF Next
<1>2. PICK before \in Nat, after \in Nat :
         /\ before = View(pool, id).staked + View(pool, id).unstaked
         /\ after = View(pool', id).staked + View(pool', id).unstaked
  <2>1. Good(pool, conversions) /\ Good(pool', conversions')
    BY DEF IInv, Good, AllShares, AllUnstaked
  <2>2. PICK r, e : r = pool' /\ e = conversions'
    OBVIOUS
  <2>3. Good(r, e)
    BY <2>1, <2>2
  <2>4. /\ View(pool, id).staked \in Nat /\ View(pool, id).unstaked \in Nat
        /\ View(r, id).staked \in Nat /\ View(r, id).unstaked \in Nat
    BY <2>1, <2>3, ViewTyped
  <2> QED
    BY <2>2, <2>4
<1>3. before = Total(pool, id) /\ after = Total(pool', id)
  BY <1>2 DEF Total
<1>4. balance \in Nat
  BY DEF IInv
<1>5. CASE NoLess(id)
  BY <1>2, <1>3, <1>5 DEF NoLess, KeepsBalance, Monus
<1>6. CASE \E a \in 1..balance : PaidOut(id, a)
  <2>1. PICK a \in 1..balance : PaidOut(id, a)
    BY <1>6
  <2>2. Withdraw(id, a) /\ balance' = balance - a /\ before <= after + a
    BY <2>1, <1>2 DEF PaidOut
  <2>3. Monus(before, after) \in Nat /\ balance >= balance' + Monus(before, after)
    BY <2>2, <1>2, <1>4 DEF Monus
  <2> QED
    BY <2>2, <2>3, <1>3 DEF KeepsBalance
<1> QED
  BY <1>1, <1>5, <1>6

(***************************************************************************)
(* No call lowers what an account has, its own or another's, whatever the  *)
(* roundings of the calls and of the owner's fee, except by what is paid   *)
(* out to the account (internal.rs:82-84 of the pool).                     *)
(***************************************************************************)
THEOREM BalancesKept == Spec => BalanceKept
<1>1. IInv /\ [Next]_vars => IInv'
  BY StepKeeps DEF Kept
<1>2. IInv /\ IInv' /\ [Next]_vars => [\A id \in Delegators : KeepsBalance(id)]_vars
  BY StepKeepsBalance
<1> QED
  BY Invariance, <1>2, PTL DEF Spec, BalanceKept

-----------------------------------------------------------------------------
(* RefusesAsInHeartbeat.                                                   *)

(* An amount above the price of a share, covered by what is unstaked, can  *)
(* be staked.                                                              *)
LEMMA StakesAbovePrice ==
  ASSUME NEW p, NEW c, Good(p, c), NEW id \in Delegators, NEW amount \in Nat \ {0},
         amount > Drift(p), View(p, id).unstaked >= amount
  PROVE  CanStake(p, id, amount)
<1>1. /\ SharesDown(p, amount) \in Nat /\ Charge(p, amount) \in Nat /\ Drift(p) \in Nat
      /\ Charge(p, amount) <= amount
      /\ amount >= Drift(p) => SharesDown(p, amount) > 0 /\ Charge(p, amount) > 0
  BY StakeCharged
<1>2. View(p, id).unstaked = p.accounts[id].unstaked /\ View(p, id).unstaked \in Nat
  BY ViewTyped
<1> QED
  BY <1>1, <1>2 DEF CanStake

(***************************************************************************)
(* Whatever the price, the pool refuses a call of the Metapool contract    *)
(* only for a reason the pools of Heartbeat know: an amount that buys no   *)
(* share, more than the account has, or what is not released yet.          *)
(***************************************************************************)
THEOREM RefusalsAsInHeartbeat == Spec => []RefusesAsInHeartbeat
<1>1. IInv => RefusesAsInHeartbeat
  <2> SUFFICES ASSUME IInv, NEW id \in Delegators
               PROVE  /\ \A a \in Deposits :
                            \/ CanStake(Deposited(Pinged, id, a), id, a)
                            \/ RefusesDeposit(a, Drift(Pinged))
                      /\ \A a \in Requests :
                            /\ \/ CanStake(Pinged, id, a)
                               \/ RefusesStake(View(Pinged, id), a, Drift(Pinged))
                            /\ \/ CanUnstake(Pinged, id, a)
                               \/ RefusesUnstake(View(Pinged, id), a)
                      /\ \/ CanWithdraw(Pinged, id, View(Pinged, id).unstaked)
                         \/ RefusesWithdraw(View(Pinged, id), epoch)
    BY DEF RefusesAsInHeartbeat
  <2>1. Good(Pinged, conversions) /\ conversions \in Nat /\ epoch \in Nat
    BY PingedGood DEF IInv
  <2>2. /\ Pinged \in Pool /\ Pinged.accounts[id] \in Account
        /\ View(Pinged, id).unstaked = Pinged.accounts[id].unstaked
        /\ View(Pinged, id).available_epoch
             = Pinged.accounts[id].unstaked_available_epoch_height
        /\ View(Pinged, id).staked \in Nat /\ View(Pinged, id).unstaked \in Nat
    BY <2>1, ViewTyped
  <2>3. Deposits \subseteq Nat \ {0} /\ Requests \subseteq Nat \ {0}
    BY PoolAssumption
  <2>4. ASSUME NEW a \in Nat \ {0}, ~ RefusesDeposit(a, Drift(Pinged))
        PROVE  CanStake(Deposited(Pinged, id, a), id, a)
    <3>1. PICK q : q = Deposited(Pinged, id, a)
      OBVIOUS
    <3>2. /\ Good(q, conversions) /\ Drift(q) = Drift(Pinged)
          /\ View(q, id).unstaked = View(Pinged, id).unstaked + a
      BY <2>1, <3>1, DepositedView
    <3>3. Drift(Pinged) \in Nat
      BY <2>1, StakeCharged
    <3>4. a > Drift(q) /\ View(q, id).unstaked >= a
      BY <2>2, <2>4, <3>2, <3>3 DEF RefusesDeposit
    <3> QED
      BY <3>1, <3>2, <3>4, StakesAbovePrice
  <2>5. ASSUME NEW a \in Nat \ {0}, ~ RefusesStake(View(Pinged, id), a, Drift(Pinged))
        PROVE  CanStake(Pinged, id, a)
    <3>1. Drift(Pinged) \in Nat
      BY <2>1, StakeCharged
    <3>2. a > Drift(Pinged) /\ View(Pinged, id).unstaked >= a
      BY <2>2, <2>5, <3>1 DEF RefusesStake
    <3> QED
      BY <2>1, <3>2, StakesAbovePrice
  <2>6. ASSUME NEW a \in Nat \ {0}, ~ RefusesUnstake(View(Pinged, id), a)
        PROVE  CanUnstake(Pinged, id, a)
    <3>1. a <= View(Pinged, id).staked
      BY <2>2, <2>6 DEF RefusesUnstake
    <3>2. /\ SharesUp(Pinged, a) > 0 /\ AmountUp(Pinged, SharesUp(Pinged, a)) > 0
          /\ SharesUp(Pinged, a) \in Nat
          /\ SharesUp(Pinged, a) <= Pinged.accounts[id].stake_shares
      BY <2>1, <3>1, UnstakePaid
    <3>3. Pinged.accounts[id].stake_shares \in Nat
      BY <2>2 DEF Account
    <3> QED
      BY <3>2, <3>3 DEF CanUnstake
  <2>7. ASSUME ~ RefusesWithdraw(View(Pinged, id), epoch)
        PROVE  CanWithdraw(Pinged, id, View(Pinged, id).unstaked)
    <3>1. Pinged.accounts[id].unstaked_available_epoch_height \in Nat
      BY <2>2 DEF Account
    <3> QED
      BY <2>1, <2>2, <2>7, <3>1 DEF RefusesWithdraw, CanWithdraw
  <2> QED
    BY <2>3, <2>4, <2>5, <2>6, <2>7
<1> QED
  BY Invariance, <1>1, PTL

-----------------------------------------------------------------------------
(* AsInHeartbeat.                                                          *)

LEMMA ViewsTyped ==
  ASSUME IInv, IInv', NEW id \in Delegators
  PROVE  /\ View(pool, id) \in PoolAccount
         /\ View(pool, id).staked \in Nat /\ View(pool, id).unstaked \in Nat
         /\ View(pool, id).available_epoch \in Nat
         /\ View(pool', id).staked \in Nat /\ View(pool', id).unstaked \in Nat
         /\ View(pool', id).available_epoch \in Nat
<1>1. Good(pool, conversions) /\ Good(pool', conversions')
  BY DEF IInv, Good, AllShares, AllUnstaked
<1>2. PICK r, e : r = pool' /\ e = conversions'
  OBVIOUS
<1>3. View(pool, id) \in PoolAccount /\ View(r, id) \in PoolAccount
  BY <1>1, <1>2, ViewTyped
<1> QED
  BY <1>2, <1>3 DEF PoolAccount

LEMMA DepositAndStakeAsInHeartbeat ==
  ASSUME IInv, IInv', NEW id \in Delegators, NEW a \in Nat \ {0}, DepositAndStake(id, a)
  PROVE  \E d \in 0..Drift(Pinged) :
            d < a /\ Becomes(AfterDepositAndStake(View(pool, id), a, d), View(pool', id))
<1>1. Drift(Pinged) \in Nat
  BY DepositAndStakeSeen
<1>2. PICK charge \in Nat :
         /\ 0 < charge /\ charge <= a /\ a <= charge + Drift(Pinged)
         /\ View(pool', id).staked >= View(pool, id).staked + charge
         /\ View(pool', id).unstaked = View(pool, id).unstaked + a - charge
         /\ View(pool', id).available_epoch = View(pool, id).available_epoch
  BY DepositAndStakeSeen
<1>3. PICK d \in 0..Drift(Pinged) : d = a - charge /\ d < a
  BY <1>1, <1>2
<1>4. View(pool, id) \in PoolAccount /\ View(pool, id).staked \in Nat
      /\ View(pool, id).unstaked \in Nat
  BY ViewsTyped
<1>5. /\ AfterDepositAndStake(View(pool, id), a, d).staked = View(pool, id).staked + a - d
      /\ AfterDepositAndStake(View(pool, id), a, d).unstaked = View(pool, id).unstaked + d
      /\ AfterDepositAndStake(View(pool, id), a, d).available_epoch
           = View(pool, id).available_epoch
  BY <1>4 DEF AfterDepositAndStake, PoolAccount
<1>6. Becomes(AfterDepositAndStake(View(pool, id), a, d), View(pool', id))
  BY <1>1, <1>2, <1>3, <1>4, <1>5 DEF Becomes
<1> QED
  BY <1>3, <1>6

LEMMA StakeAsInHeartbeat ==
  ASSUME IInv, IInv', NEW id \in Delegators, NEW a \in Nat, Stake(id, a)
  PROVE  \E d \in 0..Drift(Pinged) :
            /\ d < a /\ View(pool, id).unstaked >= a - d
            /\ Becomes(AfterStake(View(pool, id), a, d), View(pool', id))
<1>1. Drift(Pinged) \in Nat
  BY StakeSeen
<1>2. PICK charge \in Nat :
         /\ 0 < charge /\ charge <= a /\ a <= charge + Drift(Pinged)
         /\ charge <= View(pool, id).unstaked
         /\ View(pool', id).staked >= View(pool, id).staked + charge
         /\ View(pool', id).unstaked = View(pool, id).unstaked - charge
         /\ View(pool', id).available_epoch = View(pool, id).available_epoch
  BY StakeSeen
<1>3. PICK d \in 0..Drift(Pinged) : d = a - charge /\ d < a /\ a - d = charge
  BY <1>1, <1>2
<1>4. View(pool, id) \in PoolAccount /\ View(pool, id).staked \in Nat
      /\ View(pool, id).unstaked \in Nat
  BY ViewsTyped
<1>5. /\ AfterStake(View(pool, id), a, d).staked = View(pool, id).staked + a - d
      /\ AfterStake(View(pool, id), a, d).unstaked = View(pool, id).unstaked - (a - d)
      /\ AfterStake(View(pool, id), a, d).available_epoch = View(pool, id).available_epoch
  BY <1>4 DEF AfterStake, PoolAccount
<1>6. Becomes(AfterStake(View(pool, id), a, d), View(pool', id))
  BY <1>1, <1>2, <1>3, <1>4, <1>5 DEF Becomes
<1> QED
  BY <1>2, <1>3, <1>6

LEMMA UnstakeAsInHeartbeat ==
  ASSUME IInv, IInv', NEW id \in Delegators, NEW a \in Nat, Unstake(id, a)
  PROVE  /\ View(Pinged, id).staked >= a
         /\ \E d \in 0..Drift(Pinged) :
               Becomes(AfterUnstake(View(pool, id), a, d, epoch + NUM_EPOCHS_TO_UNLOCK),
                       View(pool', id))
<1>1. Drift(Pinged) \in Nat /\ a <= View(Pinged, id).staked
  BY UnstakeSeen
<1>2. PICK paid \in Nat :
         /\ a <= paid /\ paid <= a + Drift(Pinged)
         /\ View(pool, id).staked <= View(pool', id).staked + paid
         /\ View(pool', id).unstaked = View(pool, id).unstaked + paid
         /\ View(pool', id).available_epoch = epoch + NUM_EPOCHS_TO_UNLOCK
  BY UnstakeSeen
<1>3. PICK d \in 0..Drift(Pinged) : d = paid - a /\ a + d = paid
  BY <1>1, <1>2
<1>4. PICK e \in Nat : e = epoch + NUM_EPOCHS_TO_UNLOCK
  BY PoolAssumption DEF IInv
<1>5. /\ View(pool, id).staked \in Nat /\ View(pool, id).unstaked \in Nat
      /\ View(pool', id).staked \in Nat
  BY ViewsTyped
<1>6. /\ AfterUnstake(View(pool, id), a, d, e).staked = Monus(View(pool, id).staked, a + d)
      /\ AfterUnstake(View(pool, id), a, d, e).unstaked = View(pool, id).unstaked + a + d
      /\ AfterUnstake(View(pool, id), a, d, e).available_epoch = e
  BY DEF AfterUnstake
<1>7. View(pool', id).staked >= Monus(View(pool, id).staked, a + d)
  BY <1>2, <1>3, <1>5 DEF Monus
<1>8. Becomes(AfterUnstake(View(pool, id), a, d, e), View(pool', id))
  BY <1>2, <1>3, <1>4, <1>5, <1>6, <1>7 DEF Becomes
<1>9. View(Pinged, id).staked \in Nat
  BY PingedEarns, ViewTyped
<1> QED
  BY <1>1, <1>4, <1>8, <1>9

LEMMA WithdrawAllAsInHeartbeat ==
  ASSUME IInv, IInv', NEW id \in Delegators, WithdrawAll(id)
  PROVE  /\ Becomes(AfterWithdrawAll(View(pool, id)), View(pool', id))
         /\ balance - balance' = View(pool, id).unstaked
<1>1. /\ Good(pool, conversions) /\ Good(Pinged, conversions)
      /\ Earns(pool, Pinged, id)
  BY PingedEarns
<1>2. View(Pinged, id).unstaked = Pinged.accounts[id].unstaked
  BY <1>1, ViewTyped
<1>3. Pinged.accounts[id].unstaked = View(pool, id).unstaked
  BY <1>1, <1>2 DEF Earns
<1>4. PICK a \in Nat : a = View(pool, id).unstaked
  BY <1>1, ViewTyped
<1>5. Withdraw(id, a)
  BY <1>3, <1>4 DEF WithdrawAll
<1>6. /\ balance \in Nat /\ balance' = balance - a
      /\ View(pool', id).staked >= View(pool, id).staked
      /\ View(pool', id).unstaked = View(pool, id).unstaked - a
      /\ \/ View(pool', id).available_epoch = View(pool, id).available_epoch
         \/ /\ View(pool', id).available_epoch <= epoch
            /\ View(pool, id).available_epoch <= epoch
  BY <1>5, WithdrawSeen
<1>7. View(pool, id) \in PoolAccount
  BY ViewsTyped
<1>8. /\ AfterWithdrawAll(View(pool, id)).staked = View(pool, id).staked
      /\ AfterWithdrawAll(View(pool, id)).unstaked = 0
      /\ AfterWithdrawAll(View(pool, id)).available_epoch = View(pool, id).available_epoch
  BY <1>7 DEF AfterWithdrawAll, PoolAccount
<1>9. View(pool', id).unstaked = 0
  BY <1>4, <1>6
<1> QED
  BY <1>4, <1>6, <1>8, <1>9 DEF Becomes

LEMMA EarnsAsInHeartbeat ==
  ASSUME NEW id, NEW q, Earns(pool, q, id)
  PROVE  Becomes(View(pool, id), View(q, id))
  BY DEF Earns, Becomes

LEMMA StepAsInHeartbeat ==
  ASSUME IInv, IInv', NEW id \in Delegators PROVE ActsAsInHeartbeat(id)
<1>1. Deposits \subseteq Nat \ {0} /\ Requests \subseteq Nat
  BY PoolAssumption
<1>2. \A a \in Deposits : DepositAndStake(id, a) =>
         \E d \in 0..Drift(Pinged) :
            d < a /\ Becomes(AfterDepositAndStake(View(pool, id), a, d), View(pool', id))
  BY <1>1, DepositAndStakeAsInHeartbeat
<1>3. \A a \in Requests : Stake(id, a) =>
         \E d \in 0..Drift(Pinged) :
            /\ d < a /\ View(pool, id).unstaked >= a - d
            /\ Becomes(AfterStake(View(pool, id), a, d), View(pool', id))
  BY <1>1, StakeAsInHeartbeat
<1>4. \A a \in Requests : Unstake(id, a) =>
         /\ View(Pinged, id).staked >= a
         /\ \E d \in 0..Drift(Pinged) :
               Becomes(AfterUnstake(View(pool, id), a, d, epoch + NUM_EPOCHS_TO_UNLOCK),
                       View(pool', id))
  BY <1>1, UnstakeAsInHeartbeat
<1>5. WithdrawAll(id) =>
         /\ Becomes(AfterWithdrawAll(View(pool, id)), View(pool', id))
         /\ balance - balance' = View(pool, id).unstaked
  BY WithdrawAllAsInHeartbeat
<1>6. (\E other \in Delegators \ {id} : DelegatorCalls(other)) =>
         Becomes(View(pool, id), View(pool', id))
  BY AnothersCall, EarnsAsInHeartbeat
<1>7. Ping \/ OwnerCalls \/ (\E r \in Rewards : NewEpoch(r)) =>
         Becomes(View(pool, id), View(pool', id))
  BY NobodysCall, EarnsAsInHeartbeat
<1> QED
  BY <1>2, <1>3, <1>4, <1>5, <1>6, <1>7 DEF ActsAsInHeartbeat

(***************************************************************************)
(* The pool implements what Heartbeat assumes of it: the account changes   *)
(* as the operators of PoolAccounts say, with a rounding of at most the    *)
(* price of a share.                                                       *)
(***************************************************************************)
THEOREM PoolsActAsInHeartbeat == Spec => AsInHeartbeat
<1>1. IInv /\ [Next]_vars => IInv'
  BY StepKeeps DEF Kept
<1>2. IInv /\ IInv' => \A id \in Delegators : ActsAsInHeartbeat(id)
  BY StepAsInHeartbeat
<1>3. IInv /\ [Next]_vars => [\A id \in Delegators : ActsAsInHeartbeat(id)]_vars
  BY <1>1, <1>2
<1> QED
  BY Invariance, <1>3, PTL DEF Spec, AsInHeartbeat
=============================================================================
