-------------------------------- MODULE SafeCut --------------------------------
(***************************************************************************)
(* "Cut after this airs" (schedule_safe_cut, maybe_fire_safe_cut and         *)
(* slowest_live_consumer_ts of src/src/controller.rs): the streamer marks    *)
(* the moment now at the live edge, and the cut comes once every live        *)
(* destination has aired it.                                                 *)
(*                                                                         *)
(* DelayControl's steps, with what it abstracts: the mark as the timestamp    *)
(* it is, and where each destination is in the buffer.  A destination         *)
(* connects, lands at any tag (its seed, a cut, a rejoin), sends and drops    *)
(* between the runtime's other work; the check of a pump has no await in it,  *)
(* so that only the control threads get in between.                           *)
(*                                                                         *)
(* One tag per unit of time: tags with equal or swapped stamps, which audio   *)
(* beside video has, are left out.                                            *)
(***************************************************************************)
EXTENDS DelayControl

CONSTANTS Dests,   \* the destinations
          MaxSeq   \* bound on the tags of a behaviour

ASSUME SeqAssumption == MaxSeq \in Nat

VARIABLES
  nextSeq,  \* sequence number of the next tag; the buffer holds the tags before it
  origin,   \* that of the session's first tag: its timestamp is 0
  live,     \* destinations with egress_alive
  pos,      \* consumer_seq per destination: the tag it sends next
  mark,     \* safe_cut_input_ts
  read,     \* per thread: the timestamp it has read, and of which tag
  moment    \* history: the tag last marked and not taken back since

places  == <<nextSeq, origin, live, pos>>
marks   == <<mark, read, moment>>
allVars == <<vars, places, marks>>

Unseeded == MaxSeq + 1         \* u64::MAX: no position
NoMoment == 0
Nothing  == [ts |-> 0, seq |-> 0]

Front  == nextSeq - tags
InRing == Front .. (nextSeq - 1)
Ts(s)  == s - origin

\* The timestamp of the next tag a destination at s sends: the newest one's
\* when it has caught up; none, which is past no mark, when s was evicted.
ConsumerTs(s) == IF s \in InRing THEN Ts(s)
                 ELSE IF tags > 0 /\ s >= nextSeq THEN Ts(nextSeq - 1)
                 ELSE 0

\* Has the slowest live destination aired past the mark?
Aired(ts) == \E d \in live : /\ \A e \in live : pos[d] <= pos[e]
                             /\ ConsumerTs(pos[d]) > ts

AllInit ==
  /\ Init
  /\ nextSeq = 1 /\ origin = 1
  /\ live = {} /\ pos = [d \in Dests |-> Unseeded]
  /\ mark = 0 /\ read = [t \in Threads |-> Nothing] /\ moment = NoMoment
-----------------------------------------------------------------------------
(* The steps of DelayControl that read or store the mark.                   *)

\* 0 says that nothing is marked: the session's first tag counts as at 1.
Latest == [ts |-> IF Ts(nextSeq - 1) = 0 THEN 1 ELSE Ts(nextSeq - 1), seq |-> nextSeq - 1]

MarkRead(t) ==
  /\ ScheduleRead(t)
  /\ read' = [read EXCEPT ![t] = IF tags > 0 THEN Latest ELSE Nothing]
  /\ UNCHANGED <<places, mark, moment>>

MarkSet(t) ==
  /\ ScheduleSet(t)
  /\ mark' = read[t].ts /\ moment' = read[t].seq
  /\ read' = [read EXCEPT ![t] = Nothing]
  /\ UNCHANGED places

\* A cancel, a cut or a new publisher takes the mark back.
MarkTakenBack ==
  /\ PublishMark \/ \E t \in Threads : Cancel(t) \/ MarkOff(t)
  /\ mark' = 0 /\ moment' = NoMoment
  /\ UNCHANGED <<places, read>>

CheckRead(t) ==
  /\ FireRead(t)
  /\ read' = [read EXCEPT ![t].ts = mark]
  /\ UNCHANGED <<places, mark, moment>>

CheckAired(t) ==
  /\ FireAired(t)
  /\ At(t, "fireTake")' <=> Aired(read[t].ts)
  /\ read' = IF Aired(read[t].ts) THEN read ELSE [read EXCEPT ![t] = Nothing]
  /\ UNCHANGED <<places, mark, moment>>

\* (Mutant: whatever mark is there is taken.)
AnyMark(t) == mark # 0

\* compare_exchange: the mark that was found aired is still the one there.
StillMarked(t) == mark = read[t].ts

CheckTake(t) ==
  /\ FireTake(t)
  /\ At(t, "off")' <=> StillMarked(t)
  /\ IF StillMarked(t) THEN mark' = 0 /\ moment' = NoMoment
     ELSE UNCHANGED <<mark, moment>>
  /\ read' = [read EXCEPT ![t] = Nothing]
  /\ UNCHANGED places

\* The other steps of a thread.
Else(t) ==
  /\ \/ Arm(t) \/ TargetOff(t) \/ PendingOff(t) \/ OnceOff(t) \/ Activate(t) \/ Keys(t)
     \/ ScheduleCheck(t) \/ CutAfterKey(t)
  /\ UNCHANGED <<places, marks>>

ThreadStep(t) == \/ MarkRead(t) \/ MarkSet(t)
                 \/ CheckRead(t) \/ CheckAired(t) \/ CheckTake(t) \/ Else(t)

\* A pump checks as it has a tag to send.
Begins ==
  /\ AutoActivate \/ AutoActivateOnce \/ BeginRuntime \/ \E t \in Controls : BeginControl(t)
  /\ thread'[Runtime].at = "fire" => \E d \in live : pos[d] \in InRing
  /\ UNCHANGED <<places, marks>>
-----------------------------------------------------------------------------
(* The buffer and the destinations.                                         *)

RingRestarts ==
  /\ PublishRing
  /\ origin' = nextSeq
  /\ UNCHANGED <<nextSeq, live, pos, marks>>

PublisherStep == (PublishPending \/ PublishAlive \/ Drop) /\ UNCHANGED <<places, marks>>

\* The trim spares what a destination has yet to send; a full ring does not.
TagComes ==
  /\ Tag
  /\ nextSeq < MaxSeq /\ nextSeq' = nextSeq + 1
  /\ tags' < Min2(tags + 1, Cap) => \A d \in Dests : nextSeq' - tags' <= pos[d]
  /\ UNCHANGED <<origin, live, pos, marks>>

Elsewhere == Turn /\ UNCHANGED <<vars, nextSeq, origin, marks>>

Connect(d) == Elsewhere /\ d \notin live /\ live' = live \union {d} /\ UNCHANGED pos

\* The seed, a cut either way, a rejoin, falling off the back of the ring.
Land(d) == /\ Elsewhere /\ d \in live
           /\ \E s \in InRing : pos' = [pos EXCEPT ![d] = s]
           /\ UNCHANGED live

Send(d) == /\ Elsewhere /\ d \in live /\ pos[d] \in InRing
           /\ pos' = [pos EXCEPT ![d] = @ + 1]
           /\ UNCHANGED live

Disconnect(d) == /\ Elsewhere /\ d \in live
                 /\ live' = live \ {d}
                 /\ pos' = [pos EXCEPT ![d] = Unseeded]

AllNext == \/ \E t \in Threads : ThreadStep(t)
           \/ MarkTakenBack \/ Begins \/ RingRestarts \/ PublisherStep \/ TagComes
           \/ \E d \in Dests : Connect(d) \/ Land(d) \/ Send(d) \/ Disconnect(d)

AllSpec == AllInit /\ [][AllNext]_allVars
-----------------------------------------------------------------------------
\* A scheduled cut airs the moment it was scheduled for: it comes only while
\* that moment is marked and has not been taken back, and when every live
\* destination that has a position is past it, whoever marks, cancels and cuts
\* while a pump is deciding, and whichever destinations come, jump and drop.
SafeCutAirsTheMoment ==
  [][\A t \in Threads : At(t, "fireTake") /\ At(t, "off")'
       => moment # NoMoment /\ \A d \in live : pos[d] > moment]_allVars
=============================================================================
