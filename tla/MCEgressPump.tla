------------------------------ MODULE MCEgressPump ------------------------------
(* EgressPump for TLC: the values of its constants are those of the cfg, in  *)
(* ticks of half a second and tags of one tick.                              *)
EXTENDS EgressPump
=================================================================================
