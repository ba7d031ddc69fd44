------------------------------ MODULE MCWaits ------------------------------
(***************************************************************************)
(* How long a delayed unstake waits: one user stakes in epoch 0, users     *)
(* unstake in every epoch, and the bot that calls the heartbeat retrieves  *)
(* whatever it can before it unstakes.  Nothing fails and nobody           *)
(* withdraws, so the reserve only grows.                                   *)
(***************************************************************************)
EXTENDS MCHeartbeat

CONSTANT LAST_UNSTAKE     \* bound: the last epoch in which users unstake

VARIABLE asked            \* history: NEAR users asked for, by epoch

Bot ==
  \/ Retrieve
  \/ ~ENABLED <<Retrieve>>_vars /\ (DistributeUnstaking \/ EndOfEpochClearing)
  \/ DistributeStaking
WaitsNext ==
  \/ /\ epoch <= LAST_UNSTAKE /\ asked[epoch] = 0
     /\ \E x \in Amounts :
           Unstake(x) /\ asked' = [asked EXCEPT ![epoch] = @ + x]
  \/ /\ \/ epoch = 0 /\ DepositAndStake(MAX_SUPPLY, 0)
        \/ Bot
        \/ BotDone /\ NewEpoch
        \/ (\E p \in promises : PoolExecutes(p)) \/ Callbacks
     /\ UNCHANGED asked
WaitsSpec ==
  /\ MCInit /\ asked = [e \in 0..LAST_UNSTAKE |-> 0]
  /\ [][WaitsNext]_<<vars, asked>>

(***************************************************************************)
(* internal.rs:210: "the user has a claim to this amount, 4-8 epochs form  *)
(* now".  What was asked for is in the reserve twice the wait of the pools *)
(* later, when the bot has done its work of that epoch.                    *)
(***************************************************************************)
ServedWithinTwoWaits ==
  BotDone =>
    MapThenSumSet(LAMBDA e : asked[e], {e \in DOMAIN asked : e + 2 * NUM_EPOCHS_TO_UNLOCK <= epoch})
      <= retrieved_for_unstake_claims
=============================================================================
