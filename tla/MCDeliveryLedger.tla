-------------------------- MODULE MCDeliveryLedger --------------------------
(* Model-checking instances of DeliveryLedger.                             *)
EXTENDS DeliveryLedger
=============================================================================
