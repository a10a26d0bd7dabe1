---------------------------- MODULE MCEnforcement ----------------------------
(* One app on a device whose parent changes the policy.                     *)
EXTENDS Enforcement
=============================================================================
