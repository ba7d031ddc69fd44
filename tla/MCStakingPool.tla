--------------------------- MODULE MCStakingPool ---------------------------
(***************************************************************************)
(* An instance of the staking pool for TLC: the fees the owner may set.    *)
(***************************************************************************)
EXTENDS StakingPoolProperties

Fee(n, d) == [numerator |-> n, denominator |-> d]
MCFees    == {Fee(0, 1), Fee(1, 2)}
=============================================================================
