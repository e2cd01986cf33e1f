---------------------------- MODULE MCProvisioning ----------------------------
(* The requests of the instances of Provisioning that TLC checks. *)
EXTENDS Provisioning

CONSTANTS a1, r1
==============================================================================
