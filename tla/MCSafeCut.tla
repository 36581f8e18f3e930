------------------------------- MODULE MCSafeCut -------------------------------
(* One hotkey thread beside the runtime, and two destinations, so that one may *)
(* be behind the other.                                                        *)
EXTENDS SafeCut, TLC

Destinations == Permutations(Dests)

(* What a later step or a property can tell apart: a thread's argument, its    *)
(* reading and its request only while they are still to be used, a crossed     *)
(* tick only while it is under way, and no more of an overwritten destination  *)
(* than that it is one.                                                        *)
UsesMs   == {"toggle", "toggleMark", "toggleIngest", "toggleArmed", "armKey", "armKeyArmed",
             "arm", "armSwap", "retarget", "armFresh", "armPlain",
             "off", "offPending", "offOnce", "offMark"}
UsesWas  == {"armSwap", "activateIngest", "activateHolds", "goOn", "scheduleSet"}
UsesOp(p) == p.at \in UsesMs \/ p.op \in {"delay", "toggle", "auto", "autoOnce", "publish"}

ToBeUsed(p) == [at  |-> p.at,
                op  |-> IF UsesOp(p) THEN p.op ELSE "none",
                ms  |-> IF p.at \in UsesMs THEN p.ms ELSE 0,
                was |-> IF p.at \in UsesWas THEN p.was ELSE 0]

State == <<control, world, marks,
           [t \in Threads |-> ToBeUsed(thread[t])],
           asked \/ overtaken, crossed /\ ByTick(Runtime),
           nextSeq, origin, live,
           [d \in Dests |-> IF pos[d] < Front THEN 0 ELSE pos[d]]>>
=============================================================================
