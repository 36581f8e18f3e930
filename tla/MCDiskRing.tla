----------------------------- MODULE MCDiskRing -----------------------------
(* The buffer on a file of seven bytes, with tags that do and do not divide *)
(* it, an empty one, and one over half of it.                               *)
EXTENDS DiskRing

MCTags == {[len |-> 0, ts |-> 1, idr |-> "none"],
           [len |-> 1, ts |-> 0, idr |-> "rung"],
           [len |-> 2, ts |-> 1, idr |-> "primary"],
           [len |-> 3, ts |-> 0, idr |-> "primary"],
           [len |-> 4, ts |-> 1, idr |-> "none"]}
MCCutoffs == {1, 2}

\* The clock tags are stamped by, on a cycle of 16 stamps: every clock in its
\* first three cycles, every time, every stamp.
Clock == INSTANCE InputClock WITH Cycle <- 16, Back <- 3
ASSUME ClockIsExact ==
  \A c \in [seen : BOOLEAN, high : 0 .. 2, last : Clock!Stamps] :
    /\ \A time \in 0 .. 63 : Clock!ReadExactly(c, time)
    /\ \A stamp \in Clock!Stamps : Clock!NoLeap(c, stamp)
    /\ \A time \in Clock!Stamps : Clock!At(Clock!ExpandTs(Clock!NotSeen, time)) = time
=============================================================================
