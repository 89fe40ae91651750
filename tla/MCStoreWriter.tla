---------------------------- MODULE MCStoreWriter ----------------------------
(* StoreWriter for TLC: a telemetry message of two transactions and a flow   *)
(* message, which two workers may find in one fetch.                         *)
EXTENDS StoreWriter, TLC

CONSTANTS t1, f1

MCNParts == t1 :> 2
=============================================================================
