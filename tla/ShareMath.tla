----------------------------- MODULE ShareMath -----------------------------
(***************************************************************************)
(* The integer arithmetic of the Metapool contract (utils.rs): yocto       *)
(* amounts and stNEAR shares are naturals, every division rounds down.     *)
(* The products are computed in the code with 256 bit integers, so only    *)
(* the quotient could overflow; the amounts of NEAR that exist are about   *)
(* 2^110 yocto and stay far from 2^128, hence unbounded naturals.          *)
(***************************************************************************)
EXTENDS Naturals

\* std::cmp::min
Lesser(a, b) == IF a <= b THEN a ELSE b

\* u128::saturating_sub
Monus(a, b) == IF a > b THEN a - b ELSE 0

(***************************************************************************)
(* amount * numerator / denominator, rounded down; the code divides only   *)
(* by denominators it has checked to be positive.                          *)
(***************************************************************************)
proportional(amount, numerator, denominator) ==
  (amount * numerator) \div denominator

\* basis_points / 10_000 of an amount.
apply_pct(basis_points, amount) == (basis_points * amount) \div 10000

\* Mutant: rounds up.
MutSharesUp(amount, total_amount, total_shares) ==
  IF total_shares = 0 THEN amount
  ELSE IF amount = 0 \/ total_amount = 0 THEN 0
  ELSE proportional(total_shares, amount, total_amount) + 1

(***************************************************************************)
(* Shares bought by an amount, and the amount shares are worth, in a pool  *)
(* of total_shares that are worth total_amount.  The first buyer gets one  *)
(* share per unit.                                                         *)
(***************************************************************************)
shares_from_amount(amount, total_amount, total_shares) ==
  IF total_shares = 0 THEN amount
  ELSE IF amount = 0 \/ total_amount = 0 THEN 0
  ELSE proportional(total_shares, amount, total_amount)

amount_from_shares(num_shares, total_amount, total_shares) ==
  IF total_shares = 0 \/ num_shares = 0 THEN 0
  ELSE proportional(num_shares, total_amount, total_shares)
=============================================================================
