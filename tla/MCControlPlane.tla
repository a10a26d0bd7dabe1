--------------------------- MODULE MCControlPlane ---------------------------
(* One child device with a lock, a blacklist and usage rules. *)
EXTENDS ControlPlane
=============================================================================
