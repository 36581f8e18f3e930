---------------------------- MODULE MCIngestSession ----------------------------
(* One destination; two connections, the old publisher's and the new one's.   *)
(* Each run asks for what it needs: the slot and the holds with every setting, *)
(* and a control thread that ends holds; or the sessions at Twitch, of one     *)
(* kind or the other.                                                          *)
EXTENDS IngestSession, TLC

Off   == [enabled |-> FALSE, everyDisconnect |-> FALSE]
Crash == [enabled |-> TRUE, everyDisconnect |-> FALSE]
Every == [enabled |-> TRUE, everyDisconnect |-> TRUE]
MCAll == {Off, Crash, Every}
MCCrash == {Crash}

NoPlans == {[eb |-> Nobody, vod |-> {}]}
EbOrVod == {[eb |-> d, vod |-> {}] : d \in Dests} \union {[eb |-> Nobody, vod |-> Dests]}

OneAsGoodAsAnother == Permutations(Conns)
=============================================================================
