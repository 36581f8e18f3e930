------------------------------ MODULE InputClock ------------------------------
(***************************************************************************)
(* The clock of a publisher's session: expand_ts of src/src/controller.rs.  *)
(* RTMP stamps a tag with 32 bits of milliseconds, which start again after  *)
(* 49.7 days; the buffer, the delay and the cuts go by a clock that does    *)
(* not.  Audio and video cross each other around the restart, and OBS ends  *)
(* some streams with a tag stamped 0.                                       *)
(*                                                                         *)
(* wrap_high has 32 bits too; here it is a natural number (2^32 cycles are  *)
(* half a billion years).                                                   *)
(***************************************************************************)
EXTENDS Integers

CONSTANTS
  Cycle,  \* stamps there are: 2^32
  Back    \* MAX_TS_STEP_BACK_MS

Stamps == 0 .. Cycle - 1
Clocks == [seen : BOOLEAN, high : Nat, last : Stamps]

\* A session's clock before its first tag.
NotSeen == [seen |-> FALSE, high |-> 0, last |-> 0]

\* The time a clock stands at, and what a tag that moves it is told.
At(c) == c.high * Cycle + c.last

\* Of the two distances from one stamp to another, is the one ahead the shorter?
Ahead(from, to) == (IF to >= from THEN to - from ELSE to - from + Cycle) <= Cycle \div 2

\* A stamp that cannot be of this session: of a cycle before its first, or behind
\* by more than audio and video cross each other.
Stray(c, stamp) ==
  /\ c.seen /\ ~Ahead(c.last, stamp)
  /\ IF stamp > c.last THEN c.high = 0 ELSE c.last - stamp > Back

\* How many cycles further on a tag is than the one before it.
Cycles(c, stamp) ==
  CASE c.seen /\ Ahead(c.last, stamp) /\ stamp < c.last -> 1
    [] c.seen /\ ~Ahead(c.last, stamp) /\ stamp > c.last -> -1
    [] OTHER -> 0

\* The clock after a tag; a stray tag is pinned to where the clock stands.
ExpandTs(c, stamp) ==
  IF Stray(c, stamp) THEN c
  ELSE [seen |-> TRUE, high |-> c.high + Cycles(c, stamp), last |-> stamp]
-----------------------------------------------------------------------------
(* Checked over every clock and stamp of a small cycle, proved for all.      *)

\* A tag is read at the very time it was stamped at, if that is at most half a
\* cycle ahead of the tag before it and no further behind than audio and video
\* cross each other: across a restart of the stamps, in both directions.
ReadExactly(c, time) ==
  c.seen /\ time \in At(c) - Back .. At(c) + Cycle \div 2
  => At(ExpandTs(c, time % Cycle)) = time

\* No stamp, however wrong, moves the clock by more than half a cycle.  (That is
\* more than any buffer holds: a tag stamped 0 that ends a session of more than
\* half a cycle is read as one of the next cycle, and is not pinned.)
NoLeap(c, stamp) ==
  c.seen => /\ At(ExpandTs(c, stamp)) - At(c) <= Cycle \div 2
            /\ At(c) - At(ExpandTs(c, stamp)) <= Cycle \div 2
=============================================================================
