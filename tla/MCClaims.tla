----------------------------- MODULE MCClaims -----------------------------
(***************************************************************************)
(* What comments of the contract say of the heartbeat and the code does    *)
(* not do.  Each run on this module ends with the behaviour that shows it. *)
(***************************************************************************)
EXTENDS MCHeartbeat

(***************************************************************************)
(* The sweep of the extra balance (distribute.rs:511-521) is sent while    *)
(* calls to the pools are in flight.                                       *)
(***************************************************************************)
SweepNext == DelayedNext \/ TransferExtraBalance
SweepSpec == MCInit /\ [][SweepNext]_vars

(***************************************************************************)
(* The extra balance is swept between calls; the NEAR users deposit for    *)
(* the storage of their accounts, which is no part of                      *)
(* contract_account_balance, goes to the operator with it.                 *)
(***************************************************************************)
SweepAtRestNext ==
  \/ DelayedNext \/ StorageDeposit \/ StorageUnregister
  \/ InFlight = {} /\ TransferExtraBalance
SweepAtRestSpec == MCInit /\ [][SweepAtRestNext]_vars
=============================================================================
