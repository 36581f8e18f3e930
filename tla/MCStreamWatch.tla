---------------------------- MODULE MCStreamWatch ----------------------------
(* One destination; the old publisher's connection and the new one's.  A     *)
(* queue of two takes what one handler emits; one of eight loses nothing.    *)
EXTENDS StreamWatch

Off   == [enabled |-> FALSE, everyDisconnect |-> FALSE]
Crash == [enabled |-> TRUE, everyDisconnect |-> FALSE]
Every == [enabled |-> TRUE, everyDisconnect |-> TRUE]
MCCrash == {Crash}
MCOffEvery == {Off, Every}

NoPlans == {[eb |-> Nobody, vod |-> {}]}
=============================================================================
