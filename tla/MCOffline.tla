----------------------------- MODULE MCOffline -----------------------------
(* The offline fallback of a device with one of the systems.               *)
EXTENDS OfflinePolicy
=============================================================================
