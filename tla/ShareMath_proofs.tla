-------------------------- MODULE ShareMath_proofs --------------------------
(***************************************************************************)
(* What rounding down does to shares, amounts and the price, for all       *)
(* naturals: the facts the proofs about accounts rest on.                  *)
(***************************************************************************)
EXTENDS ShareMath, TLAPS

(* A quotient rounded down is the largest natural below the exact one.     *)
LEMMA Floor ==
  ASSUME NEW p \in Nat, NEW d \in Nat, d > 0
  PROVE  /\ p \div d \in Nat
         /\ d * (p \div d) <= p
         /\ p < d * (p \div d) + d
  BY Z3

(* The same of proportional.                                               *)
LEMMA ProportionalFloor ==
  ASSUME NEW a \in Nat, NEW n \in Nat, NEW d \in Nat, d > 0
  PROVE  /\ proportional(a, n, d) \in Nat
         /\ d * proportional(a, n, d) <= a * n
         /\ a * n < d * proportional(a, n, d) + d
<1>1. a * n \in Nat
  BY Z3
<1> QED
  BY <1>1, Floor DEF proportional

(* Two fees that together take at most the whole take at most the whole,   *)
(* each of them rounded down.                                              *)
LEMMA TwoFees ==
  ASSUME NEW a \in Nat, NEW b \in Nat, NEW amount \in Nat, a + b <= 10000
  PROVE  /\ apply_pct(a, amount) \in Nat /\ apply_pct(b, amount) \in Nat
         /\ apply_pct(a, amount) + apply_pct(b, amount) <= amount
<1>1. a * amount \in Nat /\ b * amount \in Nat /\ a * amount + b * amount <= 10000 * amount
  BY Z3
<1> QED
  BY <1>1, Floor, Z3 DEF apply_pct

(* Shares are bought at the price or above it, and at a price of at least  *)
(* one there are no more of them than of the amount.                       *)
LEMMA SharesBought ==
  ASSUME NEW a \in Nat, NEW T \in Nat, NEW S \in Nat
  PROVE  LET m == shares_from_amount(a, T, S) IN
         /\ m \in Nat
         /\ S > 0 => T * m <= a * S
         /\ S > 0 /\ T > 0 => a * S < T * m + T
         /\ S <= T => m <= a
<1> DEFINE m == shares_from_amount(a, T, S)
<1>1. CASE S = 0
  BY <1>1, Z3 DEF shares_from_amount
<1>2. CASE S > 0 /\ (a = 0 \/ T = 0)
  BY <1>2, Z3 DEF shares_from_amount
<1>3. CASE S > 0 /\ a > 0 /\ T > 0
  <2>1. m = proportional(S, a, T)
    BY <1>3 DEF shares_from_amount
  <2>2. m \in Nat /\ T * m <= S * a /\ S * a < T * m + T
    BY <1>3, <2>1, ProportionalFloor
  <2>3. S <= T => m <= a
    BY <1>3, <2>2, Z3
  <2>4. S * a = a * S
    BY Z3
  <2> QED
    BY <2>2, <2>3, <2>4
<1> QED
  BY <1>1, <1>2, <1>3

(* Shares are sold at the price or below it, and all of them for all there *)
(* is at most.                                                             *)
LEMMA SharesSold ==
  ASSUME NEW n \in Nat, NEW T \in Nat, NEW S \in Nat
  PROVE  LET a == amount_from_shares(n, T, S) IN
         /\ a \in Nat
         /\ S * a <= n * T
         /\ n <= S => a <= T
         /\ S > 0 => n * T < S * a + S
<1> DEFINE a == amount_from_shares(n, T, S)
<1>1. CASE S = 0 \/ n = 0
  BY <1>1, Z3 DEF amount_from_shares
<1>2. CASE S > 0 /\ n > 0
  <2>1. a = proportional(n, T, S)
    BY <1>2 DEF amount_from_shares
  <2>2. a \in Nat /\ S * a <= n * T /\ n * T < S * a + S
    BY <1>2, <2>1, ProportionalFloor
  <2>3. n <= S => a <= T
    BY <1>2, <2>2, Z3
  <2> QED
    BY <2>2, <2>3
<1> QED
  BY <1>1, <1>2

-----------------------------------------------------------------------------
(* The price T / S.                                                        *)

(* Minting at the price does not lower it.                                 *)
LEMMA MintKeepsPrice ==
  ASSUME NEW T \in Nat, NEW S \in Nat, NEW a \in Nat, NEW m \in Nat, T * m <= a * S
  PROVE  (T + a) * S >= T * (S + m)
  BY Z3

(* Burning at the price does not lower it, nor below one.                  *)
LEMMA BurnKeepsPrice ==
  ASSUME NEW T \in Nat, NEW S \in Nat, NEW n \in Nat, NEW a \in Nat,
         n <= S, a <= T, S * a <= n * T
  PROVE  /\ (T - a) * S >= T * (S - n)
         /\ S <= T => S - n <= T - a
<1>1. (T - a) * S >= T * (S - n)
  BY Z3
<1>2. CASE S = 0
  BY <1>2, Z3
<1>3. CASE S > 0 /\ S <= T
  <2>1. SUFFICES ASSUME S - n > T - a PROVE FALSE
    BY <1>1
  <2>2. (S - n) * S > (T - a) * S
    BY <1>3, <2>1, Z3
  <2>3. T * (S - n) >= S * (S - n)
    BY <1>3, Z3
  <2> QED
    BY <1>1, <2>2, <2>3, Z3
<1> QED
  BY <1>1, <1>2, <1>3

(* A price that is not lowered twice is not lowered.                       *)
LEMMA PriceTransitive ==
  ASSUME NEW T \in Nat, NEW S \in Nat, NEW T1 \in Nat, NEW S1 \in Nat,
         NEW T2 \in Nat, NEW S2 \in Nat,
         S1 > 0, T1 * S >= T * S1, T2 * S1 >= T1 * S2
  PROVE  T2 * S >= T * S2
<1>1. T2 * S1 * S >= T1 * S2 * S
  BY Z3
<1>2. T1 * S * S2 >= T * S1 * S2
  BY Z3
<1>3. S1 * (T2 * S) >= S1 * (T * S2)
  BY <1>1, <1>2, Z3
<1> QED
  BY <1>3, Z3

(* An amount buys, right after it was paid in, exactly the shares that     *)
(* were minted for it.                                                     *)
LEMMA BuysWhatItMinted ==
  ASSUME NEW T \in Nat, NEW S \in Nat, NEW a \in Nat, S > 0, T > 0
  PROVE  shares_from_amount(a, T + a, S + shares_from_amount(a, T, S))
           = shares_from_amount(a, T, S)
<1> DEFINE m == shares_from_amount(a, T, S)
           k == shares_from_amount(a, T + a, S + m)
<1>1. m \in Nat /\ T * m <= a * S /\ a * S < T * m + T
  BY SharesBought
<1> HIDE DEF m
<1>2. k \in Nat /\ (T + a) * k <= a * (S + m) /\ a * (S + m) < (T + a) * k + (T + a)
  <2>1. T + a \in Nat /\ S + m \in Nat /\ S + m > 0 /\ T + a > 0
    BY <1>1
  <2> QED
    BY <2>1, SharesBought
<1> HIDE DEF k
<1>3. (T + a) * m <= a * (S + m)
  BY <1>1, Z3
<1>4. a * (S + m) < (T + a) * (m + 1)
  BY <1>1, Z3
<1>5. (T + a) * m < (T + a) * (k + 1) /\ (T + a) * k < (T + a) * (m + 1)
  BY <1>1, <1>2, <1>3, <1>4, Z3
<1>6. m < k + 1 /\ k < m + 1
  BY <1>1, <1>2, <1>5, Z3
<1> QED
  BY <1>1, <1>2, <1>6, Z3 DEF m, k

(* At a price that does not fall, no fewer shares are worth no less.       *)
LEMMA WorthNoLess ==
  ASSUME NEW T \in Nat, NEW S \in Nat, NEW T1 \in Nat, NEW S1 \in Nat,
         NEW n \in Nat, NEW m \in Nat, NEW a \in Nat, NEW b \in Nat,
         0 < S, 0 < S1, n <= m, T1 * S >= T * S1,
         S * a <= T * n, T1 * m < S1 * b + S1
  PROVE  a <= b
<1>1. S1 * (S * a) <= S1 * (T * n)
  BY Z3
<1>2. (T * S1) * n <= (T1 * S) * n
  BY Z3
<1>3. S * (S1 * a) <= S * (T1 * n)
  BY <1>1, <1>2, Z3
<1>4. S1 * a <= T1 * n
  BY <1>3, Z3
<1>5. T1 * n <= T1 * m
  BY Z3
<1>6. S1 * a < S1 * (b + 1)
  BY <1>4, <1>5, Z3
<1> QED
  BY <1>6, Z3

(* Shares n and m together are worth at least what both are worth apart,   *)
(* rounded down.                                                           *)
LEMMA WorthTogether ==
  ASSUME NEW T \in Nat, NEW S \in Nat, NEW n \in Nat, NEW m \in Nat,
         NEW a \in Nat, NEW b \in Nat, NEW c \in Nat,
         0 < S, S * a <= T * n, S * b <= T * m, T * (n + m) < S * c + S
  PROVE  a + b <= c
<1>1. S * (a + b) < S * (c + 1)
  BY Z3
<1> QED
  BY <1>1, Z3

(* They are worth no more than n, rounded down, and what covers m.         *)
LEMMA WorthApart ==
  ASSUME NEW T \in Nat, NEW S \in Nat, NEW n \in Nat, NEW m \in Nat,
         NEW a \in Nat, NEW b \in Nat, NEW c \in Nat,
         0 < S, S * a <= T * (n + m), T * m <= S * b, T * n < S * c + S
  PROVE  a <= c + b
<1>1. S * a < S * (c + b + 1)
  BY Z3
<1> QED
  BY <1>1, Z3
=============================================================================
