----------------------------- MODULE MCScreenTime -----------------------------
(* The counts of one device over a few days.                               *)
EXTENDS ScreenTime
=============================================================================
