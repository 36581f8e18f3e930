-------------------------- MODULE MCEgressSupervisor --------------------------
(* Two destinations at one URL each, both on, the second a vertical one; its  *)
(* pump is the one whose liveness is asked.  The rest is interchangeable.     *)
EXTENDS EgressSupervisor

CONSTANT a

BothOn == {[d \in Dests |-> a]}
=============================================================================
