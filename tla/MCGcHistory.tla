----------------------------- MODULE MCGcHistory -----------------------------
(* Instances of GcHistory for TLC.                                          *)
EXTENDS GcHistory, MCJailRun
=============================================================================
