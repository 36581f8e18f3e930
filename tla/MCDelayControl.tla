---------------------------- MODULE MCDelayControl ----------------------------
(* One hotkey thread beside the runtime.  Of the three delays one is a single *)
(* tag, one fits the ring, and one the ring only reaches by being full.       *)
EXTENDS DelayControl
=============================================================================
