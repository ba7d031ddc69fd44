------------------------------- MODULE Vault -------------------------------
(***************************************************************************)
(* What the contract promises about money, whatever it does with staking   *)
(* pools: "owed" is what users can claim (the value of the stNEAR, the     *)
(* available NEAR, the unstake claims and the storage deposits of their    *)
(* accounts), "held" is the NEAR that is there for it, in the contract, in *)
(* the pools and on the way.  Money only moves in and out together with    *)
(* the debt, a reward is credited to users only after it has come in, and  *)
(* never more than what is held is owed.                                   *)
(***************************************************************************)
EXTENDS Naturals

VARIABLES owed, held

Init == owed = 0 /\ held \in Nat

\* A user brings in NEAR and is owed as much.
Deposit == held' > held /\ owed' + held = owed + held'

\* A user is paid.
Pay == held' < held /\ owed' + held = owed + held'

\* A pool credits a reward, or rounds in the contract's favour.
Earn == held' > held /\ owed' = owed

\* Users are credited with rewards, no more than were earned.
Credit == owed' > owed /\ owed' <= held /\ held' = held

\* The operator takes what nobody is owed.
Sweep == held' < held /\ owed <= held' /\ owed' = owed

Next == Deposit \/ Pay \/ Earn \/ Credit \/ Sweep
Spec == Init /\ [][Next]_<<owed, held>>
=============================================================================
