------------------------- MODULE DelayControl_proofs -------------------------
(***************************************************************************)
(* Proofs about DelayControl and SafeCut for every set of control threads   *)
(* and destinations, every delay and every buffer size.                    *)
(*                                                                         *)
(* Types, that a cut sticks, and what a safe cut airs before it comes hold  *)
(* however requests interleave.                                            *)
(* The rest is about requests that follow one another (~Overlap): at most  *)
(* one thread is inside a request, so what it has read so far is still     *)
(* true.  HasRead says, per label, what that is; the invariants between    *)
(* requests are stated with the labels at which they may be broken.        *)
(***************************************************************************)
EXTENDS SafeCut, TLAPS

\* What a thread has read has the type of what it reads at that label, and a
\* publisher comes only while sessions are left, on the runtime thread.
ReadsAreTyped ==
  \A t \in Threads :
    /\ thread[t].at \in {"activateIngest", "activateHolds", "goOn"}
         => thread[t].was \in DelayOrNone
    /\ thread[t].at \in {"scheduleSet", "fireAired", "fireTake"}
         => thread[t].was \in Sessions
    /\ thread[t].at = "publish" => t = Runtime /\ session < MaxSessions

TypeInv == TypeOK /\ ReadsAreTyped

\* At most one thread is inside a request.
OneAtATime ==
  \A t, u \in Threads : thread[t] # Idle /\ thread[u] # Idle => t = u

\* What the thread p knows, by the label it is at, when it runs alone.
HasRead(p) ==
  /\ p.at = "armSwap" => p.was = target
  /\ p.at = "retarget" => p.ms = armed /\ p.ms > 0
  /\ p.at = "offPending" => target = 0
  /\ p.at \in {"offOnce", "offMark"} => target = 0 /\ ~pending
  /\ p.at \in {"activateIngest", "activateHolds", "goOn"} => p.was = armed /\ p.was > 0
  /\ p.at \in {"scheduleRead", "scheduleSet"} => target > 0
  /\ p.at = "scheduleSet" => p.was = session
  /\ p.op \in {"auto", "autoOnce"}
       => p.at \in {"activate", "activateIngest", "activateHolds", "goOn", "consume"}
  /\ p.op \in {"auto", "autoOnce"} /\ p.at # "consume" => pending
  /\ p.op = "autoOnce" /\ p.at # "consume" => once

\* The delay on air is the armed one, but while p changes or cuts it.
ArmedInv(p) == p.at \notin {"off", "retarget"} => target \in {0, armed}

\* A scheduled cut belongs to the delay and the session on air, but while p
\* cuts or brings in a new publisher.
MarkInv(p) ==
  p.at \notin {"offPending", "offOnce", "offMark", "publishPending", "publishMark"}
    => (safeCut # NoMark => target > 0 /\ safeCut = session)

\* An arm that may go on air by itself was promised to, but while p arms and
\* has still to withdraw an earlier promise.
PromiseInv(p) == p.at # "armPlain" => (pending /\ once => promised)

Knows(p) == HasRead(p) /\ ArmedInv(p) /\ MarkInv(p) /\ PromiseInv(p)

\* It holds for the one thread inside a request, or for the idle ones.
IInv == /\ TypeInv
        /\ OneAtATime
        /\ \A t \in Threads : thread[t] # Idle \/ Quiet => Knows(thread[t])
-----------------------------------------------------------------------------
(* Moving from label to label.                                              *)

\* What a thread is after it has moved on, and that the others stay.
LEMMA Moved ==
  ASSUME TypeOK, NEW t \in Threads, NEW label \in Labels,
         NEW d \in DelayOrNone, NEW seen \in DelayOrNone \union Sessions,
         Advance(t, label, d, seen)
  PROVE  /\ thread' \in [Threads -> ThreadSet]
         /\ \A u \in Threads \ {t} : thread'[u] = thread[u]
         /\ thread'[t].at = label
         /\ label = "idle" => thread'[t] = Idle
         /\ label # "idle" => /\ thread'[t].op = thread[t].op
                              /\ thread'[t].ms = d
                              /\ thread'[t].was = seen
<1> DEFINE next == IF label = "idle" THEN Idle
                   ELSE [at |-> label, op |-> thread[t].op, ms |-> d, was |-> seen]
<1>1. thread \in [Threads -> ThreadSet] /\ thread[t] \in ThreadSet
  BY DEF TypeOK
<1>2. thread' = [thread EXCEPT ![t] = next]
  BY DEF Advance
<1>3. next \in ThreadSet
  BY <1>1 DEF ThreadSet, Idle, Labels, Requests, DelayOrNone
<1>4. thread'[t] = next
  BY <1>1, <1>2
<1>5. /\ next.at = label
      /\ label = "idle" => next = Idle
      /\ label # "idle" => next.op = thread[t].op /\ next.ms = d /\ next.was = seen
  BY DEF Idle
<1>6. QED
  BY <1>1, <1>2, <1>3, <1>4, <1>5

\* The same for a thread that begins a request.
LEMMA Begun ==
  ASSUME TypeOK, NEW t \in Threads, NEW request \in Requests, NEW label \in Labels,
         NEW d \in DelayOrNone,
         thread' = [thread EXCEPT ![t] = Busy(label, request, d)]
  PROVE  /\ thread' \in [Threads -> ThreadSet]
         /\ \A u \in Threads \ {t} : thread'[u] = thread[u]
         /\ thread'[t].at = label /\ thread'[t].op = request
         /\ thread'[t].ms = d /\ thread'[t].was = 0
<1>1. Busy(label, request, d) \in ThreadSet
  BY DEF Busy, ThreadSet, DelayOrNone
<1>2. thread \in [Threads -> ThreadSet]
  BY DEF TypeOK
<1>3. QED
  BY <1>1, <1>2 DEF Busy

\* What moving on leaves typed, whatever else the step stores.
LEMMA MovedIsTyped ==
  ASSUME TypeInv, NEW t \in Threads, NEW label \in Labels \ {"publish"},
         NEW d \in DelayOrNone, NEW seen \in DelayOrNone \union Sessions,
         Advance(t, label, d, seen),
         label \in {"activateIngest", "activateHolds", "goOn"} => seen \in DelayOrNone,
         label \in {"scheduleSet", "fireAired", "fireTake"} => seen \in Sessions,
         session' = session
  PROVE  thread' \in [Threads -> ThreadSet] /\ ReadsAreTyped'
BY Moved DEF TypeInv, ReadsAreTyped

\* And what beginning a request leaves typed.
LEMMA BegunIsTyped ==
  ASSUME TypeInv, NEW t \in Threads, NEW request \in Requests,
         NEW label \in {"arm", "armKey", "toggle", "activate", "off", "cutAfterKey",
                        "schedule", "unschedule", "fire", "publish"},
         NEW d \in DelayOrNone,
         thread' = [thread EXCEPT ![t] = Busy(label, request, d)],
         label = "publish" => t = Runtime /\ session < MaxSessions,
         session' = session
  PROVE  thread' \in [Threads -> ThreadSet] /\ ReadsAreTyped'
<1>1. label \in Labels
  BY DEF Labels
<1>2. /\ thread' \in [Threads -> ThreadSet]
      /\ \A u \in Threads \ {t} : thread'[u] = thread[u]
      /\ thread'[t].at = label
  BY <1>1, Begun DEF TypeInv
<1>3. QED
  BY <1>2 DEF TypeInv, ReadsAreTyped


\* Every step of a request keeps the types, alone or not.
LEMMA StepKeepsTypes ==
  ASSUME TypeInv, NEW t \in Threads, Step(t)
  PROVE  TypeInv'
<1> USE DEF At
<1>1. thread[t] \in ThreadSet
  BY DEF TypeInv, TypeOK
<1>2. thread[t].ms \in DelayOrNone /\ thread[t].was \in DelayOrNone \union Sessions
      /\ armed \in DelayOrNone /\ target \in DelayOrNone /\ safeCut \in Sessions
      /\ session \in Sessions /\ 0 \in DelayOrNone
  BY <1>1 DEF TypeInv, TypeOK, ThreadSet, DelayOrNone
<1>3. CASE Arm(t)
  <2>1. /\ thread' \in [Threads -> ThreadSet] /\ ReadsAreTyped'
    <3>1. AfterArm(t) \in {"activate", "idle"}
      BY DEF AfterArm
    <3>2. session' = session
      BY <1>3 DEF Arm, ArmRead, ArmSwap, Retarget, ArmFresh, ArmPlain, Read, world, control, history
    <3>3. PICK label \in {"armSwap", "off", "retarget", "armFresh", "armPlain", "activate", "idle"},
               seen \in DelayOrNone \union Sessions :
            Advance(t, label, thread[t].ms, seen)
      BY <1>2, <1>3, <3>1 DEF Arm, ArmRead, ArmSwap, Retarget, ArmFresh, ArmPlain, Read, Go
    <3>4. QED
      BY <1>2, <3>2, <3>3, MovedIsTyped DEF Labels
  <2>2. QED
    BY <1>2, <1>3, <2>1 DEF Arm, ArmRead, ArmSwap, Retarget, ArmFresh, ArmPlain, Read,
         TypeInv, TypeOK, world, control, history
<1>4. CASE Off(t)
  <2>1. /\ thread' \in [Threads -> ThreadSet] /\ ReadsAreTyped'
    <3>1. AfterArm(t) \in {"activate", "idle"}
      BY DEF AfterArm
    <3>2. session' = session
      BY <1>4 DEF Off, TargetOff, PendingOff, OnceOff, MarkOff, world
    <3>3. PICK label \in {"offPending", "offOnce", "offMark", "activate", "idle"} :
            Advance(t, label, thread[t].ms, thread[t].was)
      BY <1>2, <1>4, <3>1 DEF Off, TargetOff, PendingOff, OnceOff, MarkOff, Go
    <3>4. QED
      BY <1>2, <3>2, <3>3, MovedIsTyped DEF Labels
  <2>2. NoMark \in Sessions
    BY OverlapAssumption DEF NoMark, Sessions
  <2>3. CASE TargetOff(t)
    BY <1>2, <2>1, <2>3 DEF TargetOff, TypeInv, TypeOK, world
  <2>4. CASE PendingOff(t)
    BY <2>1, <2>4 DEF PendingOff, TypeInv, TypeOK, world, history
  <2>5. CASE OnceOff(t)
    BY <2>1, <2>5 DEF OnceOff, TypeInv, TypeOK, world, history
  <2>6. CASE MarkOff(t)
    BY <2>1, <2>2, <2>6 DEF MarkOff, TypeInv, TypeOK, world
  <2>7. QED
    BY <1>4, <2>3, <2>4, <2>5, <2>6 DEF Off
<1>5. CASE Activate(t)
  <2>1. /\ thread' \in [Threads -> ThreadSet] /\ ReadsAreTyped'
    <3>1. \A short \in BOOLEAN : Refused(t, short) \in {"promise", "idle"}
      BY DEF Refused
    <3>2. session' = session
      BY <1>5 DEF Activate, ActivateRead, ActivateIngest, ActivateHolds, GoOn, Consume,
           ActivateOnceReady, Read, Look, world
    <3>3. thread[t].at \in {"activateIngest", "activateHolds", "goOn"}
            => thread[t].was \in DelayOrNone
      BY DEF TypeInv, ReadsAreTyped
    <3>4. PICK label \in {"activateIngest", "activateHolds", "goOn", "consume", "promise", "idle"},
               seen \in DelayOrNone \union Sessions :
            /\ label \in {"activateIngest", "activateHolds", "goOn"} => seen \in DelayOrNone
            /\ Advance(t, label, thread[t].ms, seen)
      BY <1>2, <1>5, <3>1, <3>3 DEF Activate, ActivateRead, ActivateIngest, ActivateHolds,
           GoOn, Consume, ActivateOnceReady, Read, Look, Go
    <3>5. QED
      BY <1>2, <3>2, <3>4, MovedIsTyped DEF Labels
  <2>2. CASE ActivateRead(t) \/ ActivateIngest(t) \/ ActivateHolds(t)
    BY <2>1, <2>2 DEF ActivateRead, ActivateIngest, ActivateHolds, Read, Look, TypeInv,
         TypeOK, control, world, history
  <2>3. CASE GoOn(t)
    <3>1. thread[t].was \in DelayOrNone /\ ByTick(t) \in BOOLEAN
      BY <2>3 DEF GoOn, Go, TypeInv, ReadsAreTyped, ByTick
    <3>2. (asked \/ ~ByTick(t)) \in BOOLEAN /\ (overtaken \/ (ByTick(t) /\ crossed)) \in BOOLEAN
      OBVIOUS
    <3>3. asked' \in BOOLEAN /\ overtaken' \in BOOLEAN
      BY <2>3, <3>2 DEF GoOn
    <3>4. QED
      BY <2>1, <2>3, <3>1, <3>3 DEF GoOn, TypeInv, TypeOK, world
  <2>4. CASE Consume(t) \/ ActivateOnceReady(t)
    BY <2>1, <2>4 DEF Consume, ActivateOnceReady, TypeInv, TypeOK, world, history
  <2>5. QED
    BY <1>5, <2>2, <2>3, <2>4 DEF Activate
<1>6. CASE CutAfter(t)
  <2>1. /\ thread' \in [Threads -> ThreadSet] /\ ReadsAreTyped'
    <3>1. session' = session
      BY <1>6 DEF CutAfter, ScheduleCheck, ScheduleRead, ScheduleSet, Cancel, CutAfterKey,
           FireRead, FireAired, FireTake, Read, Look, world
    <3>2. thread[t].at = "fireAired" => thread[t].was \in Sessions
      BY DEF TypeInv, ReadsAreTyped
    <3>3. PICK label \in {"scheduleRead", "scheduleSet", "schedule", "unschedule",
                          "fireAired", "fireTake", "off", "idle"},
               seen \in DelayOrNone \union Sessions :
            /\ label \in {"scheduleSet", "fireAired", "fireTake"} => seen \in Sessions
            /\ Advance(t, label, thread[t].ms, seen)
      BY <1>2, <1>6, <3>2 DEF CutAfter, ScheduleCheck, ScheduleRead, ScheduleSet, Cancel,
           CutAfterKey, FireRead, FireAired, FireTake, Read, Look, Go
    <3>4. QED
      BY <1>2, <3>1, <3>3, MovedIsTyped DEF Labels
  <2>2. NoMark \in Sessions
    BY OverlapAssumption DEF NoMark, Sessions
  <2>3. CASE UNCHANGED <<control, world, history>>
    BY <2>1, <2>3 DEF TypeInv, TypeOK, control, world, history
  <2>4. CASE ScheduleSet(t)
    <3>1. thread[t].was \in Sessions
      BY <2>4 DEF ScheduleSet, Go, TypeInv, ReadsAreTyped
    <3>2. QED
      BY <2>1, <2>4, <3>1 DEF ScheduleSet, TypeInv, TypeOK, world, history
  <2>5. CASE Cancel(t)
    BY <2>1, <2>2, <2>5 DEF Cancel, TypeInv, TypeOK, world, history
  <2>6. CASE FireTake(t)
    BY <2>1, <2>2, <2>6, <2>3 DEF FireTake, Look, TypeInv, TypeOK, world, history
  <2>7. QED
    BY <1>6, <2>3, <2>4, <2>5, <2>6 DEF CutAfter, ScheduleCheck, ScheduleRead, CutAfterKey,
         FireRead, FireAired, Read, Look
<1>7. CASE Keys(t)
  <2>1. CASE thread' = [thread EXCEPT ![t] = Busy("off", "cut", 0)]
             /\ UNCHANGED <<control, world, history>>
    <3>1. thread' \in [Threads -> ThreadSet] /\ ReadsAreTyped'
      BY <1>2, <2>1, BegunIsTyped DEF Requests, world
    <3>2. QED
      BY <2>1, <3>1 DEF TypeInv, TypeOK, control, world, history
  <2>2. CASE /\ UNCHANGED <<control, world, history>>
             /\ \E label \in {"toggleMark", "toggleIngest", "toggleArmed", "armKeyArmed",
                              "arm", "idle"}, d \in DelayOrNone :
                  Advance(t, label, d, thread[t].was)
    <3>1. thread' \in [Threads -> ThreadSet] /\ ReadsAreTyped'
      BY <1>2, <2>2, MovedIsTyped DEF Labels, world
    <3>2. QED
      BY <2>2, <3>1 DEF TypeInv, TypeOK, control, world, history
  <2>3. QED
    BY <1>2, <1>7, <2>1, <2>2 DEF Keys, Toggle, ToggleMark, ToggleIngest, ToggleArmed,
         ArmKey, ArmKeyArmed, BecomeCut, Look, Take, Go
<1>8. QED
  BY <1>3, <1>4, <1>5, <1>6, <1>7 DEF Step

\* So do the beginning of a request, a new publisher, and the ingest.
LEMMA BeginKeepsTypes ==
  ASSUME TypeInv, NEW t \in Threads, NEW request \in Requests,
         NEW label \in {"arm", "armKey", "toggle", "activate", "off", "cutAfterKey",
                        "schedule", "unschedule", "fire", "publish"},
         NEW d \in DelayOrNone, Enter(t, request, label, d),
         label = "publish" => t = Runtime /\ session < MaxSessions,
         UNCHANGED <<asked, promised, overtaken>>, crossed' \in BOOLEAN
  PROVE  TypeInv'
<1>1. thread' \in [Threads -> ThreadSet] /\ ReadsAreTyped'
  BY BegunIsTyped DEF Enter, world
<1>2. QED
  BY <1>1 DEF Enter, TypeInv, TypeOK, control, world

\* Every request that may begin is one of those.
LEMMA RequestsKeepTypes ==
  ASSUME TypeInv,
         \/ \E t \in Controls : BeginControl(t)
         \/ AutoActivate \/ AutoActivateOnce \/ BeginRuntime
  PROVE  TypeInv'
<1>1. 0 \in DelayOrNone /\ Delays \subseteq DelayOrNone
      /\ Runtime \in Threads /\ Controls \subseteq Threads
  BY DEF DelayOrNone, Threads
<1>2. ASSUME NEW t \in Threads, NEW request \in Requests,
             NEW label \in {"arm", "armKey", "toggle", "activate", "off", "cutAfterKey",
                            "schedule", "unschedule", "fire", "publish"},
             NEW d \in DelayOrNone, Begin(t, request, label, d),
             label = "publish" => t = Runtime /\ session < MaxSessions
      PROVE  TypeInv'
  BY <1>2, BeginKeepsTypes DEF Begin, history, TypeInv, TypeOK
<1>3. CASE AutoActivate \/ AutoActivateOnce
  <2>1. PICK request \in {"auto", "autoOnce"} : Tick(request)
    BY <1>3 DEF AutoActivate, AutoActivateOnce
  <2>2. Enter(Runtime, request, "activate", 0) /\ UNCHANGED <<asked, promised, overtaken>>
        /\ crossed' \in BOOLEAN
    BY <2>1 DEF Tick
  <2>3. QED
    BY <1>1, <2>2, BeginKeepsTypes DEF Requests
<1>4. CASE BeginRuntime
  BY <1>1, <1>2, <1>4 DEF BeginRuntime, Requests
<1>5. CASE \E t \in Controls : BeginControl(t)
  BY <1>1, <1>2, <1>5 DEF BeginControl, Requests
<1>6. QED
  BY <1>3, <1>4, <1>5

\* A new publisher is the one change of session, and only while some are left.
LEMMA PublishKeepsTypes ==
  ASSUME TypeInv, Publish
  PROVE  TypeInv'
<1>1. Runtime \in Threads /\ thread[Runtime] \in ThreadSet
  BY DEF TypeInv, TypeOK, Threads
<1>2. PICK label \in {"publishPending", "publishMark", "publishAlive", "idle"} :
        Advance(Runtime, label, thread[Runtime].ms, thread[Runtime].was)
  BY DEF Publish, PublishRing, PublishPending, PublishMark, PublishAlive, Go
<1>3. /\ thread' \in [Threads -> ThreadSet]
      /\ \A u \in Threads \ {Runtime} : thread'[u] = thread[u]
      /\ thread'[Runtime].at = label
  <2>1. /\ thread[Runtime].ms \in DelayOrNone
        /\ thread[Runtime].was \in DelayOrNone \union Sessions
    BY <1>1 DEF ThreadSet
  <2>2. label \in Labels
    BY DEF Labels
  <2>3. QED
    BY <1>1, <1>2, <2>1, <2>2, Moved DEF TypeInv
<1>4. ReadsAreTyped'
  BY <1>3 DEF TypeInv, ReadsAreTyped
<1>5. session' \in Sessions
  <2>1. CASE PublishRing
    BY <1>1, <2>1, OverlapAssumption
       DEF PublishRing, Go, At, TypeInv, TypeOK, ReadsAreTyped, Sessions
  <2>2. CASE ~PublishRing
    BY <2>2 DEF Publish, PublishPending, PublishMark, PublishAlive, TypeInv, TypeOK, world
  <2>3. QED
    BY <2>1, <2>2
<1>6. NoMark \in Sessions /\ 0 \in 0 .. Cap
  BY OverlapAssumption, CapAssumption DEF NoMark, Sessions
<1>7. CASE PublishRing
  BY <1>3, <1>4, <1>5, <1>6, <1>7 DEF PublishRing, TypeInv, TypeOK, control, history
<1>8. CASE PublishPending
  <2>1. asked' \in BOOLEAN
    BY <1>8 DEF PublishPending
  <2>2. QED
    BY <1>3, <1>4, <1>8, <2>1 DEF PublishPending, TypeInv, TypeOK, world
<1>9. CASE PublishMark
  BY <1>3, <1>4, <1>6, <1>9 DEF PublishMark, TypeInv, TypeOK, world, history
<1>10. CASE PublishAlive
  BY <1>3, <1>4, <1>10 DEF PublishAlive, TypeInv, TypeOK, control, history
<1>11. QED
  BY <1>7, <1>8, <1>9, <1>10 DEF Publish

\* The trim leaves between none and a full ring.
LEMMA IngestKeepsTypes ==
  ASSUME TypeInv, Drop \/ Tag
  PROVE  TypeInv'
<1>1. tags' \in 0 .. Cap
  <2>1. tags \in 0 .. Cap /\ armed \in Nat /\ Cap \in Nat /\ MinBuffer \in Nat /\ Slack \in Nat
    BY CapAssumption, DelaysAssumption DEF TypeInv, TypeOK, DelayOrNone
  <2>2. KeptTags \in Nat
    BY <2>1 DEF KeptTags
  <2>3. QED
    BY <2>1, <2>2 DEF Drop, Tag, Min2
<1>2. QED
  BY <1>1 DEF Drop, Tag, TypeInv, TypeOK, ReadsAreTyped, control, history

\* So every step does.
LEMMA NextKeepsTypes ==
  ASSUME TypeInv, [Next]_vars
  PROVE  TypeInv'
<1>1. CASE UNCHANGED vars
  BY <1>1 DEF vars, control, world, history, TypeInv, TypeOK, ReadsAreTyped
<1>2. CASE Next
  BY <1>2, StepKeepsTypes, RequestsKeepTypes, PublishKeepsTypes, IngestKeepsTypes DEF Next
<1>3. QED
  BY <1>1, <1>2

\* And the initial states have the types.
LEMMA InitIsTyped == Init => TypeInv
<1>1. 0 \in 0 .. Cap /\ 0 \in Sessions
  BY OverlapAssumption, CapAssumption DEF Sessions
<1>2. Idle \in ThreadSet /\ Idle.at = "idle"
  BY <1>1 DEF Idle, ThreadSet, Labels, Requests, DelayOrNone
<1>3. QED
  BY <1>1, <1>2 DEF Init, TypeInv, TypeOK, ReadsAreTyped, DelayOrNone, NoMark

\* The types hold, however requests interleave.
THEOREM TypeCorrectness == Spec => []TypeOK
<1>1. Init => TypeInv
  BY InitIsTyped
<1>2. TypeInv /\ [Next]_vars => TypeInv'
  BY NextKeepsTypes
<1>3. TypeInv => TypeOK
  BY DEF TypeInv
<1>4. QED
  BY <1>1, <1>2, <1>3, PTL DEF Spec
-----------------------------------------------------------------------------
(* One request at a time: what its thread knows stays true.                 *)

\* What a step with Go, Look, Read or Take makes of the thread.
LEMMA Gone ==
  ASSUME TypeInv, NEW t \in Threads, NEW from, NEW label \in Labels, Go(t, from, label)
  PROVE  /\ thread[t].at = from /\ thread'[t].at = label
         /\ label = "idle" => thread'[t].op = "none"
         /\ label # "idle" => /\ thread'[t].op = thread[t].op
                              /\ thread'[t].ms = thread[t].ms
                              /\ thread'[t].was = thread[t].was
<1>1. thread[t].ms \in DelayOrNone /\ thread[t].was \in DelayOrNone \union Sessions
  BY DEF TypeInv, TypeOK, ThreadSet
<1>2. Advance(t, label, thread[t].ms, thread[t].was) /\ thread[t].at = from
  BY DEF Go, At
<1>3. QED
  BY <1>1, <1>2, Moved DEF TypeInv, Idle

\* What a step that reads a value makes of it.
LEMMA ReadDone ==
  ASSUME TypeInv, NEW t \in Threads, NEW from, NEW label \in Labels,
         NEW value \in DelayOrNone \union Sessions, Read(t, from, label, value)
  PROVE  /\ thread[t].at = from /\ thread'[t].at = label
         /\ label = "idle" => thread'[t].op = "none"
         /\ label # "idle" => /\ thread'[t].op = thread[t].op
                              /\ thread'[t].ms = thread[t].ms
                              /\ thread'[t].was = value
<1>1. thread[t].ms \in DelayOrNone
  BY DEF TypeInv, TypeOK, ThreadSet
<1>2. Advance(t, label, thread[t].ms, value) /\ thread[t].at = from
  BY DEF Read, At
<1>3. QED
  BY <1>1, <1>2, Moved DEF TypeInv, Idle

\* arm_delay: what it read of the delay on air decides how it goes on.
LEMMA ArmKeepsKnowledge ==
  ASSUME TypeInv, NEW t \in Threads, Knows(thread[t]), Arm(t)
  PROVE  Knows(thread[t])'
<1> USE DEF Knows, HasRead, ArmedInv, MarkInv, PromiseInv
<1>1. AfterArm(t) \in {"activate", "idle"} /\ AfterArm(t) \in Labels
  BY DEF AfterArm, Labels
<1>2. CASE ArmRead(t)
  <2>1. /\ thread[t].at = "arm" /\ thread'[t].at = "armSwap"
        /\ thread'[t].op = thread[t].op /\ thread'[t].was = target
    <3>1. target \in DelayOrNone \union Sessions /\ "armSwap" \in Labels
      BY DEF TypeInv, TypeOK, Labels
    <3>2. QED
      BY <1>2, <3>1, ReadDone DEF ArmRead
  <2>2. QED
    BY <1>2, <2>1 DEF ArmRead, Read, control, world, history
<1>3. CASE ArmSwap(t)
  <2>1. PICK label \in {"off", "retarget", "armFresh"} :
          /\ Go(t, "armSwap", label)
          /\ label = "retarget" => thread[t].ms > 0 /\ thread[t].was > 0
          /\ label = "armFresh" => thread[t].was = 0
    BY <1>3 DEF ArmSwap
  <2>2. /\ thread[t].at = "armSwap" /\ thread'[t].at = label
        /\ thread'[t].op = thread[t].op /\ thread'[t].ms = thread[t].ms
    BY <2>1, Gone DEF Labels
  <2>3. QED
    BY <1>3, <2>1, <2>2 DEF ArmSwap, world, history
<1>4. CASE Retarget(t)
  <2>1. /\ thread[t].at = "retarget" /\ thread'[t].at \in {"activate", "idle"}
        /\ thread'[t].op \in {thread[t].op, "none"}
    BY <1>1, <1>4, Gone DEF Retarget
  <2>2. QED
    BY <1>4, <2>1 DEF Retarget, world
<1>5. CASE ArmFresh(t)
  <2>1. /\ thread[t].at = "armFresh" /\ thread'[t].at = "armPlain"
        /\ thread'[t].op = thread[t].op
    BY <1>5, Gone DEF ArmFresh, Labels
  <2>2. QED
    BY <1>5, <2>1 DEF ArmFresh, world
<1>6. CASE ArmPlain(t)
  <2>1. /\ thread[t].at = "armPlain" /\ thread'[t].at \in {"activate", "idle"}
        /\ thread'[t].op \in {thread[t].op, "none"}
    BY <1>1, <1>6, Gone DEF ArmPlain
  <2>2. QED
    BY <1>6, <2>1 DEF ArmPlain, world
<1>7. QED
  BY <1>2, <1>3, <1>4, <1>5, <1>6 DEF Arm

\* stop_delay and disarm: the delay, the waiting arm, the promise, the mark.
LEMMA OffKeepsKnowledge ==
  ASSUME TypeInv, NEW t \in Threads, Knows(thread[t]), Off(t)
  PROVE  Knows(thread[t])'
<1> USE DEF Knows, HasRead, ArmedInv, MarkInv, PromiseInv
<1>1. AfterArm(t) \in {"activate", "idle"} /\ AfterArm(t) \in Labels
  BY DEF AfterArm, Labels
<1>2. CASE TargetOff(t)
  <2>1. /\ thread[t].at = "off" /\ thread'[t].at = "offPending"
        /\ thread'[t].op = thread[t].op
    BY <1>2, Gone DEF TargetOff, Labels
  <2>2. QED
    BY <1>2, <2>1 DEF TargetOff, world, history
<1>3. CASE PendingOff(t)
  <2>1. /\ thread[t].at = "offPending" /\ thread'[t].at \in {"offMark", "offOnce"}
        /\ thread'[t].op = thread[t].op
    BY <1>3, Gone DEF PendingOff, Labels
  <2>2. QED
    BY <1>3, <2>1 DEF PendingOff, world, history
<1>4. CASE OnceOff(t)
  <2>1. /\ thread[t].at = "offOnce" /\ thread'[t].at = "offMark"
        /\ thread'[t].op = thread[t].op
    BY <1>4, Gone DEF OnceOff, Labels
  <2>2. QED
    BY <1>4, <2>1 DEF OnceOff, world, history
<1>5. CASE MarkOff(t)
  <2>1. /\ thread[t].at = "offMark" /\ thread'[t].at \in {"activate", "idle"}
        /\ thread'[t].op \in {thread[t].op, "none"}
    BY <1>1, <1>5, Gone DEF MarkOff, Labels
  <2>2. QED
    BY <1>5, <2>1 DEF MarkOff, world
<1>6. QED
  BY <1>2, <1>3, <1>4, <1>5 DEF Off

\* activate_delay: what goes on air is what is armed.
LEMMA ActivateKeepsKnowledge ==
  ASSUME TypeInv, NEW t \in Threads, Knows(thread[t]), Activate(t)
  PROVE  Knows(thread[t])'
<1> USE DEF Knows, HasRead, ArmedInv, MarkInv, PromiseInv
<1>1. \A short \in BOOLEAN :
        /\ Refused(t, short) \in {"idle", "promise"}
        /\ Refused(t, short) = "promise" => thread[t].op \in {"delay", "toggle"}
  BY DEF Refused
<1>2. armed \in Nat /\ armed \in DelayOrNone
  BY DelaysAssumption DEF TypeInv, TypeOK, DelayOrNone
<1>3. CASE ActivateRead(t)
  <2>1. PICK label \in {"activateIngest", "promise", "idle"} :
          /\ Read(t, "activate", label, armed)
          /\ label = "activateIngest" => armed # 0
          /\ label = "promise" => thread[t].op \in {"delay", "toggle"}
    BY <1>1, <1>3 DEF ActivateRead
  <2>2. /\ thread[t].at = "activate" /\ thread'[t].at = label
        /\ label = "idle" => thread'[t].op = "none"
        /\ label # "idle" => thread'[t].op = thread[t].op /\ thread'[t].was = armed
    <3>1. armed \in DelayOrNone \union Sessions /\ label \in Labels
      BY <1>2 DEF Labels
    <3>2. QED
      BY <2>1, <3>1, ReadDone
  <2>3. QED
    BY <1>2, <2>1, <2>2 DEF Read, control, world, history
<1>4. CASE ActivateIngest(t) \/ ActivateHolds(t)
  <2>1. PICK from \in {"activateIngest", "activateHolds"},
             label \in {"activateHolds", "goOn", "promise", "idle"} :
          /\ Go(t, from, label) /\ UNCHANGED <<control, world, history>>
          /\ label = "promise" => thread[t].op \in {"delay", "toggle"}
    BY <1>1, <1>4 DEF ActivateIngest, ActivateHolds, Look
  <2>2. /\ thread[t].at = from /\ thread'[t].at = label
        /\ label = "idle" => thread'[t].op = "none"
        /\ label # "idle" => thread'[t].op = thread[t].op /\ thread'[t].was = thread[t].was
    BY <2>1, Gone DEF Labels
  <2>3. QED
    BY <2>1, <2>2 DEF control, world, history
<1>5. CASE GoOn(t)
  <2>1. /\ thread[t].at = "goOn" /\ thread'[t].at = "consume"
        /\ thread'[t].op = thread[t].op
    BY <1>5, Gone DEF GoOn, Labels
  <2>2. QED
    BY <1>5, <2>1 DEF GoOn, world
<1>6. CASE Consume(t)
  <2>1. thread[t].at = "consume" /\ thread'[t].at = "idle" /\ thread'[t].op = "none"
    BY <1>6, Gone DEF Consume, Labels
  <2>2. QED
    BY <1>6, <2>1 DEF Consume, world, history
<1>7. CASE ActivateOnceReady(t)
  <2>1. thread[t].at = "promise" /\ thread'[t].at = "idle" /\ thread'[t].op = "none"
    BY <1>7, Gone DEF ActivateOnceReady, Labels
  <2>2. QED
    BY <1>7, <2>1 DEF ActivateOnceReady, world
<1>8. QED
  BY <1>3, <1>4, <1>5, <1>6, <1>7 DEF Activate

\* The safe cut: marked with a delay on air, on the session on air.
LEMMA CutAfterKeepsKnowledge ==
  ASSUME TypeInv, NEW t \in Threads, Knows(thread[t]), CutAfter(t)
  PROVE  Knows(thread[t])'
<1> USE DEF Knows, HasRead, ArmedInv, MarkInv, PromiseInv
<1>1. CASE ScheduleCheck(t) \/ CutAfterKey(t) \/ FireAired(t)
  <2>1. PICK from \in {"schedule", "cutAfterKey", "fireAired"},
             label \in {"scheduleRead", "schedule", "unschedule", "fireTake", "idle"} :
          /\ Go(t, from, label) /\ UNCHANGED <<control, world, history>>
          /\ label = "scheduleRead" => target > 0
    BY <1>1 DEF ScheduleCheck, CutAfterKey, FireAired, Look
  <2>2. /\ thread[t].at = from /\ thread'[t].at = label
        /\ thread'[t].op \in {thread[t].op, "none"}
    BY <2>1, Gone DEF Labels
  <2>3. QED
    BY <2>1, <2>2 DEF control, world, history
<1>2. CASE ScheduleRead(t)
  <2>1. PICK label \in {"scheduleSet", "idle"} : Read(t, "scheduleRead", label, session)
    BY <1>2 DEF ScheduleRead
  <2>2. /\ thread[t].at = "scheduleRead" /\ thread'[t].at = label
        /\ thread'[t].op \in {thread[t].op, "none"}
        /\ label = "scheduleSet" => thread'[t].was = session
    <3>1. session \in DelayOrNone \union Sessions /\ label \in Labels
      BY DEF TypeInv, TypeOK, Labels
    <3>2. QED
      BY <2>1, <3>1, ReadDone
  <2>3. QED
    BY <2>1, <2>2 DEF Read, control, world, history
<1>3. CASE ScheduleSet(t)
  <2>1. thread[t].at = "scheduleSet" /\ thread'[t].at = "idle" /\ thread'[t].op = "none"
    BY <1>3, Gone DEF ScheduleSet, Labels
  <2>2. QED
    BY <1>3, <2>1 DEF ScheduleSet, world, history
<1>4. CASE Cancel(t)
  <2>1. thread[t].at = "unschedule" /\ thread'[t].at = "idle" /\ thread'[t].op = "none"
    BY <1>4, Gone DEF Cancel, Labels
  <2>2. QED
    BY <1>4, <2>1 DEF Cancel, world, history
<1>5. CASE FireRead(t)
  <2>1. PICK label \in {"fireAired", "idle"} : Read(t, "fire", label, safeCut)
    BY <1>5 DEF FireRead
  <2>2. /\ thread[t].at = "fire" /\ thread'[t].at = label
        /\ thread'[t].op \in {thread[t].op, "none"}
    <3>1. safeCut \in DelayOrNone \union Sessions /\ label \in Labels
      BY DEF TypeInv, TypeOK, Labels
    <3>2. QED
      BY <2>1, <3>1, ReadDone
  <2>3. QED
    BY <2>1, <2>2 DEF Read, control, world, history
<1>6. CASE FireTake(t)
  <2>1. /\ thread[t].at = "fireTake" /\ thread'[t].at \in {"off", "idle"}
        /\ thread'[t].op \in {thread[t].op, "none"}
    BY <1>6, Gone DEF FireTake, Look, Labels
  <2>2. /\ UNCHANGED <<armed, target, pending, once, world, history>>
        /\ safeCut' \in {safeCut, NoMark}
    BY <1>6 DEF FireTake, Look, control
  <2>3. QED
    BY <2>1, <2>2 DEF world, history
<1>7. QED
  BY <1>1, <1>2, <1>3, <1>4, <1>5, <1>6 DEF CutAfter

\* The keys only look before they act.
LEMMA KeysKeepKnowledge ==
  ASSUME TypeInv, NEW t \in Threads, Knows(thread[t]), Keys(t)
  PROVE  Knows(thread[t])'
<1> DEFINE from == {"toggle", "toggleMark", "toggleIngest", "toggleArmed",
                    "armKey", "armKeyArmed"}
           to   == {"off", "toggleMark", "toggleIngest", "toggleArmed",
                    "armKeyArmed", "arm", "idle"}
<1>1. ASSUME NEW f \in from, NEW label \in to, Look(t, f, label)
      PROVE  /\ UNCHANGED <<control, world, history>>
             /\ thread[t].at \in from /\ thread'[t].at \in to
             /\ thread'[t].op \in {thread[t].op, "cut", "none"}
  <2>1. label \in Labels /\ Go(t, f, label) /\ UNCHANGED <<control, world, history>>
    BY <1>1 DEF Look, Labels
  <2>2. thread[t].at = f /\ thread'[t].at = label
        /\ thread'[t].op \in {thread[t].op, "none"}
    BY <2>1, Gone
  <2>3. QED
    BY <2>1, <2>2
<1>2. ASSUME NEW f \in from, NEW d \in DelayOrNone, Take(t, f, "arm", d)
      PROVE  /\ UNCHANGED <<control, world, history>>
             /\ thread[t].at \in from /\ thread'[t].at \in to
             /\ thread'[t].op \in {thread[t].op, "cut", "none"}
  <2>1. "arm" \in Labels /\ thread[t].was \in DelayOrNone \union Sessions
    BY DEF TypeInv, TypeOK, ThreadSet, Labels
  <2>2. /\ thread[t].at = f /\ Advance(t, "arm", d, thread[t].was)
        /\ UNCHANGED <<control, world, history>>
    BY <1>2 DEF Take, At
  <2>3. thread'[t].at = "arm" /\ thread'[t].op = thread[t].op
    BY <2>1, <2>2, Moved DEF TypeInv
  <2>4. QED
    BY <2>2, <2>3
<1>3. ASSUME NEW f \in from, At(t, f), BecomeCut(t)
      PROVE  /\ UNCHANGED <<control, world, history>>
             /\ thread[t].at \in from /\ thread'[t].at \in to
             /\ thread'[t].op \in {thread[t].op, "cut", "none"}
  <2>1. /\ "off" \in Labels /\ "cut" \in Requests /\ 0 \in DelayOrNone
    BY DEF Labels, Requests, DelayOrNone
  <2>2. thread[t].at = f /\ UNCHANGED <<control, world, history>>
    BY <1>3 DEF At, BecomeCut
  <2>3. thread'[t].at = "off" /\ thread'[t].op = "cut"
    BY <1>3, <2>1, Begun DEF TypeInv, BecomeCut
  <2>4. QED
    BY <2>2, <2>3
<1>4. armed \in DelayOrNone /\ 0 \in DelayOrNone
  BY DEF TypeInv, TypeOK, DelayOrNone
<1>5. /\ UNCHANGED <<control, world, history>>
      /\ thread[t].at \in from /\ thread'[t].at \in to
      /\ thread'[t].op \in {thread[t].op, "cut", "none"}
  <2>1. CASE Toggle(t)
    BY <1>1, <1>3, <2>1 DEF Toggle
  <2>2. CASE ToggleMark(t)
    BY <1>1, <1>3, <2>2 DEF ToggleMark
  <2>3. CASE ToggleIngest(t)
    BY <1>1, <2>3 DEF ToggleIngest
  <2>4. CASE ToggleArmed(t)
    BY <1>2, <1>4, <2>4 DEF ToggleArmed
  <2>5. CASE ArmKey(t)
    BY <1>1, <2>5 DEF ArmKey
  <2>6. CASE ArmKeyArmed(t)
    BY <1>1, <1>2, <1>4, <2>6 DEF ArmKeyArmed
  <2>7. QED
    BY <2>1, <2>2, <2>3, <2>4, <2>5, <2>6 DEF Keys
<1>6. QED
  BY <1>5 DEF Knows, HasRead, ArmedInv, MarkInv, PromiseInv,
       control, world, history

\* A new publisher: neither a waiting arm nor a mark survives.
LEMMA PublishKeepsKnowledge ==
  ASSUME TypeInv, Knows(thread[Runtime]), Publish
  PROVE  Knows(thread[Runtime])'
<1> USE DEF Knows, HasRead, ArmedInv, MarkInv, PromiseInv
<1>1. Runtime \in Threads
  BY DEF Threads
<1>2. CASE PublishRing
  <2>1. /\ thread[Runtime].at = "publish" /\ thread'[Runtime].at = "publishPending"
        /\ thread'[Runtime].op = thread[Runtime].op
    BY <1>1, <1>2, Gone DEF PublishRing, Labels
  <2>2. QED
    BY <1>2, <2>1 DEF PublishRing, control, history
<1>3. CASE PublishPending
  <2>1. /\ thread[Runtime].at = "publishPending" /\ thread'[Runtime].at = "publishMark"
        /\ thread'[Runtime].op = thread[Runtime].op
    BY <1>1, <1>3, Gone DEF PublishPending, Labels
  <2>2. QED
    BY <1>3, <2>1 DEF PublishPending, world
<1>4. CASE PublishMark
  <2>1. /\ thread[Runtime].at = "publishMark" /\ thread'[Runtime].at = "publishAlive"
        /\ thread'[Runtime].op = thread[Runtime].op
    BY <1>1, <1>4, Gone DEF PublishMark, Labels
  <2>2. QED
    BY <1>4, <2>1 DEF PublishMark, world, history
<1>5. CASE PublishAlive
  <2>1. /\ thread[Runtime].at = "publishAlive" /\ thread'[Runtime].at = "idle"
        /\ thread'[Runtime].op = "none"
    BY <1>1, <1>5, Gone DEF PublishAlive, Labels
  <2>2. QED
    BY <1>5, <2>1 DEF PublishAlive, control, history
<1>6. QED
  BY <1>2, <1>3, <1>4, <1>5 DEF Publish

\* Every step of a request, then.
LEMMA StepKeepsKnowledge ==
  ASSUME TypeInv, NEW t \in Threads, Knows(thread[t]), Step(t) \/ (t = Runtime /\ Publish)
  PROVE  Knows(thread[t])'
<1>1. CASE Arm(t)
  BY <1>1, ArmKeepsKnowledge
<1>2. CASE Off(t)
  BY <1>2, OffKeepsKnowledge
<1>3. CASE Activate(t)
  BY <1>3, ActivateKeepsKnowledge
<1>4. CASE CutAfter(t)
  BY <1>4, CutAfterKeepsKnowledge
<1>5. CASE Keys(t)
  BY <1>5, KeysKeepKnowledge
<1>6. CASE t = Runtime /\ Publish
  BY <1>6, PublishKeepsKnowledge
<1>7. QED
  BY <1>1, <1>2, <1>3, <1>4, <1>5, <1>6 DEF Step

\* A request that begins alone knows what held between requests: the
\* supervisor's have just seen the arm waiting.
LEMMA BeginKnows ==
  ASSUME TypeInv, NEW t \in Threads, NEW request \in Requests,
         NEW label \in {"arm", "armKey", "toggle", "activate", "off", "cutAfterKey",
                        "schedule", "unschedule", "fire", "publish"},
         NEW d \in DelayOrNone, Enter(t, request, label, d), UNCHANGED promised,
         Knows(thread[t]),
         request \in {"auto", "autoOnce"} => pending /\ label = "activate",
         request = "autoOnce" => once
  PROVE  Knows(thread[t])'
<1>1. /\ thread[t] = Idle /\ UNCHANGED <<control, world, promised>>
      /\ thread'[t].at = label /\ thread'[t].op = request
  <2>1. label \in Labels
    BY DEF Labels
  <2>2. /\ thread[t] = Idle /\ UNCHANGED <<control, world, promised>>
        /\ thread' = [thread EXCEPT ![t] = Busy(label, request, d)]
    BY DEF Enter
  <2>3. QED
    BY <2>1, <2>2, Begun DEF TypeInv
<1>2. QED
  BY <1>1 DEF Knows, HasRead, ArmedInv, MarkInv, PromiseInv, Idle,
       control, world, history

\* A step is of a thread inside a request, and leaves the others alone.
LEMMA StepIsItsOwn ==
  ASSUME TypeInv, NEW t \in Threads, Step(t) \/ (t = Runtime /\ Publish)
  PROVE  thread[t] # Idle /\ \A u \in Threads \ {t} : thread'[u] = thread[u]
<1>1. thread \in [Threads -> ThreadSet]
  BY DEF TypeInv, TypeOK
<1>2. thread[t].at # "idle"
  BY DEF Step, Arm, ArmRead, ArmSwap, Retarget, ArmFresh, ArmPlain,
       Off, TargetOff, PendingOff, OnceOff, MarkOff,
       Activate, ActivateRead, ActivateIngest, ActivateHolds, GoOn, Consume, ActivateOnceReady,
       CutAfter, ScheduleCheck, ScheduleRead, ScheduleSet, Cancel, CutAfterKey,
       FireRead, FireAired, FireTake,
       Keys, Toggle, ToggleMark, ToggleIngest, ToggleArmed, ArmKey, ArmKeyArmed,
       Publish, PublishRing, PublishPending, PublishMark, PublishAlive,
       Look, Read, Take, Go, At
<1>3. PICK next : thread' = [thread EXCEPT ![t] = next]
  BY DEF Step, Arm, ArmRead, ArmSwap, Retarget, ArmFresh, ArmPlain,
       Off, TargetOff, PendingOff, OnceOff, MarkOff,
       Activate, ActivateRead, ActivateIngest, ActivateHolds, GoOn, Consume, ActivateOnceReady,
       CutAfter, ScheduleCheck, ScheduleRead, ScheduleSet, Cancel, CutAfterKey,
       FireRead, FireAired, FireTake,
       Keys, Toggle, ToggleMark, ToggleIngest, ToggleArmed, ArmKey, ArmKeyArmed, BecomeCut,
       Publish, PublishRing, PublishPending, PublishMark, PublishAlive,
       Look, Read, Take, Go, Advance
<1>4. QED
  BY <1>1, <1>2, <1>3 DEF Idle

\* Whoever moves while all others are between requests keeps the invariant.
LEMMA AloneKeepsIInv ==
  ASSUME TypeInv', NEW t \in Threads,
         \A u \in Threads \ {t} : thread'[u] = Idle,
         Knows(thread[t])'
  PROVE  IInv'
<1>1. OneAtATime'
  BY DEF OneAtATime
<1>2. ASSUME NEW u \in Threads, (thread[u] # Idle \/ Quiet)'
      PROVE  Knows(thread[u])'
  <2>1. CASE u = t
    BY <2>1
  <2>2. CASE u # t
    <3>1. thread'[u] = Idle /\ Quiet'
      BY <1>2, <2>2
    <3>2. thread'[t] = Idle
      BY <3>1 DEF Quiet
    <3>3. QED
      BY <3>1, <3>2
  <2>3. QED
    BY <2>1, <2>2
<1>3. QED
  BY <1>1, <1>2 DEF IInv

\* Beginning alone keeps the invariant.
LEMMA BeginKeepsIInv ==
  ASSUME ~Overlap, IInv, TypeInv', NEW t \in Threads, NEW request \in Requests,
         NEW label \in {"arm", "armKey", "toggle", "activate", "off", "cutAfterKey",
                        "schedule", "unschedule", "fire", "publish"},
         NEW d \in DelayOrNone, Enter(t, request, label, d), UNCHANGED promised,
         request \in {"auto", "autoOnce"} => pending /\ label = "activate",
         request = "autoOnce" => once
  PROVE  IInv'
<1>1. Quiet
  BY DEF Enter
<1>2. Knows(thread[t])'
  BY <1>1, BeginKnows DEF IInv
<1>3. \A u \in Threads \ {t} : thread'[u] = Idle
  BY <1>1 DEF Enter, Quiet, IInv, TypeInv, TypeOK
<1>4. QED
  BY <1>2, <1>3, AloneKeepsIInv

\* Every step keeps the invariant while requests follow one another.
LEMMA NextKeepsIInv ==
  ASSUME ~Overlap, IInv, [Next]_vars
  PROVE  IInv'
<1>1. TypeInv /\ TypeInv'
  BY NextKeepsTypes DEF IInv
<1>2. Runtime \in Threads /\ Controls \subseteq Threads /\ 0 \in DelayOrNone
      /\ Delays \subseteq DelayOrNone
  BY DEF Threads, DelayOrNone
<1>3. CASE UNCHANGED vars
  BY <1>1, <1>3 DEF IInv, OneAtATime, Quiet, Knows, HasRead, ArmedInv, MarkInv,
       PromiseInv, vars, control, world, history
<1>4. CASE Drop \/ Tag
  BY <1>1, <1>4 DEF IInv, OneAtATime, Quiet, Knows, HasRead, ArmedInv, MarkInv,
       PromiseInv, Drop, Tag, control, history
<1>5. ASSUME NEW t \in Threads, Step(t) \/ (t = Runtime /\ Publish)
      PROVE  IInv'
  <2>1. thread[t] # Idle /\ \A u \in Threads \ {t} : thread'[u] = thread[u]
    BY <1>1, <1>5, StepIsItsOwn
  <2>2. \A u \in Threads \ {t} : thread'[u] = Idle
    BY <2>1 DEF IInv, OneAtATime
  <2>3. Knows(thread[t])'
    BY <1>1, <1>5, <2>1, StepKeepsKnowledge DEF IInv
  <2>4. QED
    BY <1>1, <2>2, <2>3, AloneKeepsIInv
<1>6. CASE AutoActivate \/ AutoActivateOnce
  BY <1>1, <1>2, <1>6, BeginKeepsIInv DEF AutoActivate, AutoActivateOnce, Tick, Requests
<1>7. CASE BeginRuntime
  BY <1>1, <1>2, <1>7, BeginKeepsIInv DEF BeginRuntime, Begin, history, Requests
<1>8. ASSUME NEW t \in Controls, BeginControl(t)
      PROVE  IInv'
  BY <1>1, <1>2, <1>8, BeginKeepsIInv DEF BeginControl, Begin, history, Requests
<1>9. QED
  BY <1>2, <1>3, <1>4, <1>5, <1>6, <1>7, <1>8 DEF Next

\* The initial states satisfy it.
LEMMA InitEstablishesIInv == Init => IInv
<1>1. ASSUME Init PROVE IInv
  <2>1. TypeInv
    BY <1>1, InitIsTyped
  <2>2. \A t \in Threads : thread[t] = Idle
    BY <1>1 DEF Init
  <2>3. Knows(Idle)
    BY <1>1 DEF Init, Knows, HasRead, ArmedInv, MarkInv, PromiseInv, Idle, NoMark
  <2>4. QED
    BY <2>1, <2>2, <2>3 DEF IInv, OneAtATime
<1>2. QED
  BY <1>1

\* Requests that follow one another keep the invariant.
THEOREM InductiveInvariant ==
  ASSUME ~Overlap
  PROVE  Spec => []IInv
<1>1. Init => IInv
  BY InitEstablishesIInv
<1>2. IInv /\ [Next]_vars => IInv'
  BY NextKeepsIInv
<1>3. QED
  BY <1>1, <1>2, PTL DEF Spec

\* Between requests every thread is idle, and one there is: the runtime's.
LEMMA BetweenRequests ==
  ASSUME IInv, Quiet
  PROVE  /\ target \in {0, armed}
         /\ safeCut # NoMark => target > 0 /\ safeCut = session
<1>1. Runtime \in Threads
  BY DEF Threads
<1>2. thread[Runtime] = Idle /\ Knows(thread[Runtime])
  BY <1>1 DEF IInv, Quiet
<1>3. QED
  BY <1>2 DEF Knows, ArmedInv, MarkInv, Idle

\* The delay on air is the one the buffer is sized for.
THEOREM ActiveDelayStaysArmed ==
  ASSUME ~Overlap
  PROVE  Spec => []ActiveDelayIsTheArmedOne
<1>1. IInv => ActiveDelayIsTheArmedOne
  BY BetweenRequests DEF ActiveDelayIsTheArmedOne
<1>2. QED
  BY <1>1, InductiveInvariant, PTL

\* No safe cut outlives the delay or the session it was scheduled in.
THEOREM MarksBelong ==
  ASSUME ~Overlap
  PROVE  Spec => []MarkBelongsToTheDelayOnAir
<1>1. IInv => MarkBelongsToTheDelayOnAir
  BY BetweenRequests DEF MarkBelongsToTheDelayOnAir
<1>2. QED
  BY <1>1, InductiveInvariant, PTL

\* With "Activate when ready" off, a delay nobody promised to start waits.
THEOREM PlainArmsWait ==
  ASSUME ~Overlap
  PROVE  Spec => PlainArmWaits
<1>1. IInv /\ [Next]_vars
        => [\A t \in Threads : thread[t].op = "autoOnce" /\ GoOn(t) => promised]_vars
  <2>1. SUFFICES ASSUME IInv, NEW t \in Threads, thread[t].op = "autoOnce", GoOn(t)
                 PROVE  promised
    OBVIOUS
  <2>2. thread[t].at = "goOn" /\ thread[t] # Idle
    BY <2>1 DEF GoOn, Go, At, Idle
  <2>3. Knows(thread[t])
    BY <2>1, <2>2 DEF IInv
  <2>4. QED
    BY <2>1, <2>2, <2>3 DEF Knows, HasRead, PromiseInv
<1>2. QED
  BY <1>1, InductiveInvariant, PTL DEF Spec, PlainArmWaits

-----------------------------------------------------------------------------
(* A cut sticks, however requests interleave.                               *)

TickLabels == {"activate", "activateIngest", "activateHolds", "goOn", "consume"}

\* An arm that waits was asked for since the last cut, or a cut is about to
\* take its slot.
WaitingWasAsked == pending => asked \/ \E t \in Threads : At(t, "offPending")

\* So was what a tick is about to put on air, unless a cut has crossed it.
TicksWereAsked ==
  \A t \in Threads : ByTick(t) => /\ t = Runtime /\ thread[t].at \in TickLabels
                                  /\ asked \/ crossed

CutInv == TypeInv /\ WaitingWasAsked /\ TicksWereAsked /\ CutSticksUnlessOvertaken

\* A tick is inside activate_delay before its step and after it.
LEMMA TicksOnlyActivate ==
  ASSUME TypeInv, TicksWereAsked, NEW t \in Threads, Step(t) \/ (t = Runtime /\ Publish),
         ByTick(t)'
  PROVE  ByTick(t) /\ Activate(t) /\ thread'[t].at \in TickLabels
<1>1. (\E label, d, read_ : Advance(t, label, d, read_)) \/ BecomeCut(t)
  BY DEF Step, Arm, ArmRead, ArmSwap, Retarget, ArmFresh, ArmPlain,
       Off, TargetOff, PendingOff, OnceOff, MarkOff,
       Activate, ActivateRead, ActivateIngest, ActivateHolds, GoOn, Consume, ActivateOnceReady,
       CutAfter, ScheduleCheck, ScheduleRead, ScheduleSet, Cancel, CutAfterKey,
       FireRead, FireAired, FireTake,
       Keys, Toggle, ToggleMark, ToggleIngest, ToggleArmed, ArmKey, ArmKeyArmed,
       Publish, PublishRing, PublishPending, PublishMark, PublishAlive,
       Look, Read, Take, Go
<1>2. thread'[t].op \in {thread[t].op, "none", "cut"}
  BY <1>1 DEF Advance, BecomeCut, Idle, Busy, TypeInv, TypeOK
<1>3. ByTick(t) /\ thread[t].at \in TickLabels /\ thread[t].op \in {"auto", "autoOnce"}
  BY <1>2 DEF ByTick, TicksWereAsked
<1>4. Activate(t)
  BY <1>3 DEF TickLabels, Step, Arm, ArmRead, ArmSwap, Retarget, ArmFresh, ArmPlain,
       Off, TargetOff, PendingOff, OnceOff, MarkOff,
       CutAfter, ScheduleCheck, ScheduleRead, ScheduleSet, Cancel, CutAfterKey,
       FireRead, FireAired, FireTake,
       Keys, Toggle, ToggleMark, ToggleIngest, ToggleArmed, ArmKey, ArmKeyArmed, BecomeCut,
       Publish, PublishRing, PublishPending, PublishMark, PublishAlive,
       Look, Read, Take, Go, At
<1>5. \A short \in BOOLEAN : Refused(t, short) = "idle"
  BY <1>3 DEF Refused
<1>6. PICK label, read_ : /\ label \in TickLabels \union {"idle"}
                          /\ Advance(t, label, thread[t].ms, read_)
  BY <1>3, <1>4, <1>5 DEF TickLabels, Activate, ActivateRead, ActivateIngest, ActivateHolds,
       GoOn, Consume, ActivateOnceReady, Look, Read, Go, At
<1>7. label # "idle"
  BY <1>6 DEF Advance, Idle, ByTick, TypeInv, TypeOK
<1>8. QED
  BY <1>3, <1>4, <1>6, <1>7 DEF Advance, TypeInv, TypeOK

\* A step that leaves the delay, the slot and the histories alone, or asks for a
\* delay, and is not the one that takes the slot.
LEMMA AskingKeepsCut ==
  ASSUME CutInv, NEW t \in Threads, Step(t) \/ (t = Runtime /\ Publish),
         thread[t].at # "offPending",
         UNCHANGED <<crossed, overtaken>>, asked => asked',
         target' # target => asked', pending' => asked' \/ pending
  PROVE  WaitingWasAsked' /\ TicksWereAsked' /\ CutSticksUnlessOvertaken'
<1>1. \A u \in Threads \ {t} : thread'[u] = thread[u]
  BY StepIsItsOwn DEF CutInv
<1>2. WaitingWasAsked'
  BY <1>1 DEF CutInv, WaitingWasAsked, At
<1>3. TicksWereAsked'
  BY <1>1, TicksOnlyActivate DEF CutInv, TicksWereAsked, ByTick
<1>4. CutSticksUnlessOvertaken'
  BY DEF CutInv, CutSticksUnlessOvertaken
<1>5. QED
  BY <1>2, <1>3, <1>4

\* Every step of a request keeps it.
LEMMA StepKeepsCut ==
  ASSUME CutInv, NEW t \in Threads, Step(t) \/ (t = Runtime /\ Publish)
  PROVE  WaitingWasAsked' /\ TicksWereAsked' /\ CutSticksUnlessOvertaken'
<1>1. \A u \in Threads \ {t} : thread'[u] = thread[u]
  BY StepIsItsOwn DEF CutInv
<1>2. CASE TargetOff(t)
  <2>1. thread'[t].at = "offPending"
    <3>1. Go(t, "off", "offPending") /\ "offPending" \in Labels
      BY <1>2 DEF TargetOff, Labels
    <3>2. QED
      BY <3>1, Gone DEF CutInv
  <2>2. target' = 0 /\ crossed'
    BY <1>2 DEF TargetOff
  <2>3. TicksWereAsked'
    BY <1>1, <2>2, TicksOnlyActivate DEF CutInv, TicksWereAsked, ByTick
  <2>4. QED
    BY <2>1, <2>2, <2>3 DEF WaitingWasAsked, CutSticksUnlessOvertaken, At
<1>3. CASE PendingOff(t)
  <2>1. ~pending' /\ UNCHANGED <<target, history>>
    BY <1>3 DEF PendingOff
  <2>2. TicksWereAsked'
    BY <1>1, <2>1, TicksOnlyActivate DEF CutInv, TicksWereAsked, ByTick, history
  <2>3. QED
    BY <2>1, <2>2 DEF CutInv, WaitingWasAsked, CutSticksUnlessOvertaken, history
<1>4. CASE GoOn(t)
  <2>1. /\ thread[t].at = "goOn" /\ pending' = pending /\ crossed' = crossed
        /\ asked' = (asked \/ ~ByTick(t))
        /\ overtaken' = (overtaken \/ (ByTick(t) /\ crossed))
    BY <1>4 DEF GoOn, Go, At
  <2>2. asked => asked'
    BY <2>1
  <2>3. asked' \/ overtaken'
    BY <2>1 DEF CutInv, TicksWereAsked
  <2>4. WaitingWasAsked'
    BY <1>1, <2>1, <2>2 DEF CutInv, WaitingWasAsked, At
  <2>5. TicksWereAsked'
    BY <1>1, <2>1, <2>2, TicksOnlyActivate DEF CutInv, TicksWereAsked, ByTick
  <2>6. QED
    BY <2>3, <2>4, <2>5 DEF CutSticksUnlessOvertaken
<1>5. CASE PublishPending /\ t = Runtime
  <2>1. /\ ~pending' /\ target' = target /\ asked' = (asked /\ target > 0)
        /\ crossed' = crossed /\ overtaken' = (overtaken /\ target > 0)
        /\ thread[t].at = "publishPending"
    BY <1>5 DEF PublishPending, Go, At
  <2>2. TicksWereAsked'
    <3>1. SUFFICES ASSUME NEW u \in Threads, ByTick(u)'
                   PROVE  FALSE
      BY DEF TicksWereAsked
    <3>2. CASE u = t
      BY <1>5, <3>1, <3>2, <2>1, TicksOnlyActivate DEF CutInv, TicksWereAsked, TickLabels
    <3>3. CASE u # t
      BY <1>1, <1>5, <3>1, <3>3 DEF CutInv, TicksWereAsked, ByTick
    <3>4. QED
      BY <3>2, <3>3
  <2>3. WaitingWasAsked' /\ CutSticksUnlessOvertaken'
    BY <2>1 DEF CutInv, WaitingWasAsked, CutSticksUnlessOvertaken
  <2>4. QED
    BY <2>2, <2>3
<1>6. ASSUME thread[t].at # "offPending", UNCHANGED <<crossed, overtaken>>,
             asked => asked', target' # target => asked', pending' => asked' \/ pending
      PROVE  WaitingWasAsked' /\ TicksWereAsked' /\ CutSticksUnlessOvertaken'
  BY <1>6, AskingKeepsCut, Zenon
<1>7. CASE Arm(t)
  <2>1. /\ thread[t].at # "offPending" /\ UNCHANGED <<crossed, overtaken>>
        /\ (asked => asked') /\ (target' # target => asked') /\ (pending' => asked' \/ pending)
    BY <1>7 DEF Arm, ArmRead, ArmSwap, Retarget, ArmFresh, ArmPlain, Read, Go, At,
         control, history
  <2>2. QED
    BY <1>6, <2>1
<1>8. CASE OnceOff(t) \/ MarkOff(t)
  <2>1. /\ thread[t].at # "offPending" /\ UNCHANGED <<target, pending, asked, crossed, overtaken>>
    BY <1>8 DEF OnceOff, MarkOff, Go, At, history
  <2>2. QED
    BY <1>6, <2>1
<1>9. CASE Activate(t) /\ ~GoOn(t)
  <2>1. ActivateRead(t) \/ ActivateIngest(t) \/ ActivateHolds(t) \/ Consume(t)
        \/ ActivateOnceReady(t)
    BY <1>9 DEF Activate
  <2>2. thread[t].at # "offPending" /\ UNCHANGED <<target, asked, crossed, overtaken>>
        /\ (pending' = pending \/ pending' = FALSE)
    BY <2>1 DEF ActivateRead, ActivateIngest, ActivateHolds, Consume,
         ActivateOnceReady, Look, Read, Go, At, control, history
  <2>3. QED
    BY <1>6, <2>2
<1>10. CASE CutAfter(t)
  <2>1. /\ thread[t].at # "offPending" /\ UNCHANGED <<target, pending, asked, crossed, overtaken>>
    BY <1>10 DEF CutAfter, ScheduleCheck, ScheduleRead, ScheduleSet, Cancel, CutAfterKey,
         FireRead, FireAired, FireTake, Look, Read, Go, At, control, history
  <2>2. QED
    BY <1>6, <2>1
<1>11. CASE Keys(t)
  <2>1. /\ thread[t].at # "offPending" /\ UNCHANGED <<target, pending, asked, crossed, overtaken>>
    BY <1>11 DEF Keys, Toggle, ToggleMark, ToggleIngest, ToggleArmed, ArmKey, ArmKeyArmed,
         BecomeCut, Look, Take, Go, At, control, history
  <2>2. QED
    BY <1>6, <2>1
<1>12. CASE t = Runtime /\ Publish /\ ~PublishPending
  <2>1. /\ thread[t].at # "offPending" /\ UNCHANGED <<target, pending, asked, crossed, overtaken>>
    BY <1>12 DEF Publish, PublishRing, PublishMark, PublishAlive, Go, At, control, history
  <2>2. QED
    BY <1>6, <2>1
<1>13. QED
  BY <1>2, <1>3, <1>4, <1>5, <1>7, <1>8, <1>9, <1>10, <1>11, <1>12 DEF Step, Off

\* A request that begins is at none of its stores yet; the supervisor's has just
\* seen an arm wait.
LEMMA BeginKeepsCut ==
  ASSUME CutInv, NEW t \in Threads, NEW request \in Requests,
         NEW label \in {"arm", "armKey", "toggle", "activate", "off", "cutAfterKey",
                        "schedule", "unschedule", "fire", "publish"},
         NEW d \in DelayOrNone, Enter(t, request, label, d), UNCHANGED <<asked, overtaken>>,
         IF request \in {"auto", "autoOnce"}
         THEN t = Runtime /\ label = "activate" /\ (asked \/ crossed')
         ELSE crossed' = crossed
  PROVE  WaitingWasAsked' /\ TicksWereAsked' /\ CutSticksUnlessOvertaken'
<1>1. label \in Labels
  BY DEF Labels
<1>2. /\ thread[t] = Idle /\ UNCHANGED <<control, world>>
      /\ thread' = [thread EXCEPT ![t] = Busy(label, request, d)]
  BY DEF Enter
<1>3. /\ thread'[t].at = label /\ thread'[t].op = request
      /\ \A u \in Threads \ {t} : thread'[u] = thread[u]
  BY <1>1, <1>2, Begun DEF CutInv, TypeInv
<1>4. WaitingWasAsked'
  BY <1>2, <1>3 DEF CutInv, WaitingWasAsked, At, control, Idle
<1>5. TicksWereAsked'
  <2>1. SUFFICES ASSUME NEW u \in Threads, ByTick(u)'
                 PROVE  u = Runtime /\ thread'[u].at \in TickLabels /\ (asked' \/ crossed')
    BY DEF TicksWereAsked
  <2>2. CASE u = t
    BY <1>3, <2>1, <2>2 DEF ByTick, TickLabels
  <2>3. CASE u # t
    <3>1. ByTick(u) /\ u = Runtime /\ thread[u].at \in TickLabels /\ (asked \/ crossed)
      BY <1>3, <2>1, <2>3 DEF CutInv, TicksWereAsked, ByTick
    <3>2. request \notin {"auto", "autoOnce"}
      BY <2>3, <3>1
    <3>3. QED
      BY <1>3, <2>3, <3>1, <3>2
  <2>4. QED
    BY <2>2, <2>3
<1>6. CutSticksUnlessOvertaken'
  BY <1>2 DEF CutInv, CutSticksUnlessOvertaken, control
<1>7. QED
  BY <1>4, <1>5, <1>6

\* So every step does.
LEMMA NextKeepsCut ==
  ASSUME CutInv, [Next]_vars
  PROVE  CutInv'
<1> SUFFICES WaitingWasAsked' /\ TicksWereAsked' /\ CutSticksUnlessOvertaken'
  BY NextKeepsTypes DEF CutInv
<1>1. Runtime \in Threads /\ Controls \subseteq Threads /\ 0 \in DelayOrNone
      /\ Delays \subseteq DelayOrNone
  BY DEF Threads, DelayOrNone
<1>2. CASE UNCHANGED vars
  BY <1>2 DEF CutInv, WaitingWasAsked, TicksWereAsked, CutSticksUnlessOvertaken, At, ByTick,
       vars, control, history
<1>3. CASE Drop \/ Tag
  BY <1>3 DEF CutInv, WaitingWasAsked, TicksWereAsked, CutSticksUnlessOvertaken, At, ByTick,
       Drop, Tag, control, history
<1>4. CASE (\E t \in Threads : Step(t)) \/ Publish
  BY <1>1, <1>4, StepKeepsCut
<1>5. CASE AutoActivate \/ AutoActivateOnce
  <2>1. PICK request \in {"auto", "autoOnce"} : Tick(request)
    BY <1>5 DEF AutoActivate, AutoActivateOnce
  <2>2. /\ Enter(Runtime, request, "activate", 0) /\ UNCHANGED <<asked, overtaken>>
        /\ pending /\ crossed' = \E t \in Threads : At(t, "offPending")
    BY <2>1 DEF Tick
  <2>3. asked \/ crossed'
    BY <2>2 DEF CutInv, WaitingWasAsked
  <2>4. QED
    BY <1>1, <2>1, <2>2, <2>3, BeginKeepsCut DEF Requests
<1>6. ASSUME NEW t \in Threads, NEW request \in Requests \ {"auto", "autoOnce"},
             NEW label \in {"arm", "armKey", "toggle", "activate", "off", "cutAfterKey",
                            "schedule", "unschedule", "fire", "publish"},
             NEW d \in DelayOrNone, Begin(t, request, label, d)
      PROVE  WaitingWasAsked' /\ TicksWereAsked' /\ CutSticksUnlessOvertaken'
  BY <1>6, BeginKeepsCut DEF Begin, history
<1>7. CASE BeginRuntime
  BY <1>1, <1>6, <1>7 DEF BeginRuntime, Requests
<1>8. CASE \E t \in Controls : BeginControl(t)
  BY <1>1, <1>6, <1>8 DEF BeginControl, Requests
<1>9. QED
  BY <1>2, <1>3, <1>4, <1>5, <1>7, <1>8 DEF Next

\* A cut, a disarm or a safe cut sticks, however requests interleave, but for a
\* tick of the supervisor that it crosses.
THEOREM CutsStick == Spec => []CutSticksUnlessOvertaken
<1>1. Init => CutInv
  <2>1. Init => TypeInv
    BY InitIsTyped
  <2>2. Init => WaitingWasAsked /\ TicksWereAsked /\ CutSticksUnlessOvertaken
    BY DEF Init, WaitingWasAsked, TicksWereAsked, CutSticksUnlessOvertaken, ByTick, Idle
  <2>3. QED
    BY <2>1, <2>2 DEF CutInv
<1>2. CutInv /\ [Next]_vars => CutInv'
  BY NextKeepsCut
<1>3. CutInv => CutSticksUnlessOvertaken
  BY DEF CutInv
<1>4. QED
  BY <1>1, <1>2, <1>3, PTL DEF Spec
-----------------------------------------------------------------------------
(* SafeCut: the mark, and where the destinations are.                       *)

\* Every step of SafeCut is one of DelayControl, or leaves its state alone.
LEMMA StepsAreDelayControls ==
  ASSUME [AllNext]_allVars
  PROVE  [Next]_vars
<1>1. Runtime \in Threads
  BY DEF Threads
<1>2. ASSUME NEW t \in Threads, ThreadStep(t)
      PROVE  Step(t)
  BY <1>2 DEF ThreadStep, MarkRead, MarkSet, CheckRead, CheckAired, CheckTake, Else,
       Step, Off, CutAfter
<1>3. CASE MarkTakenBack
  BY <1>3 DEF MarkTakenBack, Next, Publish, Step, Off, CutAfter
<1>4. CASE Begins
  BY <1>4 DEF Begins, Next
<1>5. CASE RingRestarts \/ PublisherStep \/ TagComes
  BY <1>5 DEF RingRestarts, PublisherStep, TagComes, Next, Publish
<1>6. CASE \E d \in Dests : Connect(d) \/ Land(d) \/ Send(d) \/ Disconnect(d)
  BY <1>6 DEF Connect, Land, Send, Disconnect, Elsewhere
<1>7. CASE UNCHANGED allVars
  BY <1>7 DEF allVars
<1>8. QED
  BY <1>2, <1>3, <1>4, <1>5, <1>6, <1>7 DEF AllNext, Next

\* Every behaviour of SafeCut is one of DelayControl.
THEOREM FollowsDelayControl == AllSpec => Spec
<1>1. AllInit => Init
  BY DEF AllInit
<1>2. [AllNext]_allVars => [Next]_vars
  BY StepsAreDelayControls
<1>3. QED
  BY <1>1, <1>2, PTL DEF AllSpec, Spec

\* The buffer holds tags of the session only; positions and stamps are numbers.
PlacesOK ==
  /\ nextSeq \in Nat \ {0} /\ origin \in Nat \ {0} /\ origin + tags <= nextSeq
  /\ live \subseteq Dests /\ pos \in [Dests -> Nat]
  /\ mark \in Nat /\ moment \in Nat
  /\ read \in [Threads -> [ts : Nat, seq : Nat]]

\* The mark is no earlier than the moment it was set for, whichever session its
\* stamp is of: the tags of a later session come after it.
MarkIsItsMoment == mark # 0 => moment # NoMoment /\ moment <= origin + mark

\* DelayControl, which names a mark by its session, sees one when there is one.
MarkedAlike == mark = 0 <=> safeCut = NoMark

\* There are tags only of a publisher that came.
Publishing == {"publishPending", "publishMark", "publishAlive"}
Published  == ingestAlive \/ tags > 0 \/ thread[Runtime].at \in Publishing => session # 0

\* What a thread has read: the newest tag, or a mark that was found aired by all.
Aware(t) ==
  /\ At(t, "scheduleSet")
       => /\ thread[t].was # 0
          /\ read[t].ts # 0 /\ read[t].seq # 0 /\ read[t].seq <= origin + read[t].ts
  /\ thread[t].at \in {"fire", "fireAired", "fireTake"} => t = Runtime
  /\ thread[t].at \in {"fireAired", "fireTake"} => read[t].ts # 0
  /\ At(t, "fireTake") => \A d \in live : pos[d] > origin + read[t].ts

SafeInv == /\ TypeInv /\ PlacesOK /\ MarkIsItsMoment /\ MarkedAlike /\ Published
           /\ \A t \in Threads : Aware(t)

\* What is aired everywhere is behind every live destination.
LEMMA AiredIsBehind ==
  ASSUME PlacesOK, TypeInv, NEW ts \in Nat, Aired(ts)
  PROVE  \A d \in live : pos[d] > origin + ts
<1>1. PICK e \in live : /\ \A d \in live : pos[e] <= pos[d]
                        /\ ConsumerTs(pos[e]) > ts
  BY DEF Aired
<1>2. tags \in Nat
  BY CapAssumption DEF TypeInv, TypeOK
<1>3. pos[e] > origin + ts
  <2>1. pos[e] \in Nat
    BY DEF PlacesOK
  <2>2. CASE pos[e] \in InRing
    BY <1>1, <1>2, <2>1, <2>2 DEF ConsumerTs, Ts, PlacesOK
  <2>3. CASE pos[e] \notin InRing
    BY <1>1, <1>2, <2>1, <2>3 DEF ConsumerTs, Ts, PlacesOK
  <2>4. QED
    BY <2>2, <2>3
<1>4. QED
  <2>1. \A d \in live : pos[d] \in Nat /\ pos[e] \in Nat /\ origin \in Nat
    BY DEF PlacesOK
  <2>2. QED
    BY <1>1, <1>3, <2>1

\* The steps of a thread, and whose they are.
LEMMA ThreadStepIsItsOwn ==
  ASSUME TypeInv, NEW t \in Threads, ThreadStep(t)
  PROVE  thread[t] # Idle /\ \A u \in Threads \ {t} : thread'[u] = thread[u]
BY StepIsItsOwn DEF ThreadStep, MarkRead, MarkSet, CheckRead, CheckAired, CheckTake, Else,
   Step, Off, CutAfter

\* The labels at which a thread has read something, or brings in a publisher.
Reading == {"scheduleSet", "fire", "fireAired", "fireTake"} \union Publishing

\* The other steps do not lead there.
LEMMA ElseReadsNothing ==
  ASSUME TypeInv, NEW t \in Threads, Else(t) \/ Cancel(t) \/ MarkOff(t)
  PROVE  thread[t].at \notin Reading /\ thread'[t].at \notin Reading
<1> USE DEF Publishing
<1>1. AfterArm(t) \notin Reading /\ \A short \in BOOLEAN : Refused(t, short) \notin Reading
  BY DEF AfterArm, Refused, Reading
<1>2. thread[t].at \notin Reading
  BY DEF Reading, Else, Arm, ArmRead, ArmSwap, Retarget, ArmFresh, ArmPlain,
       TargetOff, PendingOff, OnceOff, MarkOff,
       Activate, ActivateRead, ActivateIngest, ActivateHolds, GoOn, Consume, ActivateOnceReady,
       ScheduleCheck, Cancel, CutAfterKey,
       Keys, Toggle, ToggleMark, ToggleIngest, ToggleArmed, ArmKey, ArmKeyArmed,
       Look, Read, Take, Go, At
<1>3. (\E label, d, read_ : label \notin Reading /\ Advance(t, label, d, read_)) \/ BecomeCut(t)
  <2>1. CASE Arm(t)
    <3>1. PICK label \in {"armSwap", "off", "retarget", "armFresh", "armPlain", AfterArm(t)} :
            \E read_ : Advance(t, label, thread[t].ms, read_)
      BY <2>1 DEF Arm, ArmRead, ArmSwap, Retarget, ArmFresh, ArmPlain, Read, Go
    <3>2. label \notin Reading
      BY <1>1 DEF Reading
    <3>3. QED
      BY <3>1, <3>2
  <2>2. CASE TargetOff(t) \/ PendingOff(t) \/ OnceOff(t) \/ MarkOff(t) \/ Cancel(t)
    <3>1. PICK label \in {"offPending", "offMark", "offOnce", "idle", AfterArm(t)} :
            Advance(t, label, thread[t].ms, thread[t].was)
      BY <2>2 DEF TargetOff, PendingOff, OnceOff, MarkOff, Cancel, Go
    <3>2. label \notin Reading
      BY <1>1 DEF Reading
    <3>3. QED
      BY <3>1, <3>2
  <2>3. CASE Activate(t)
    <3>1. PICK label \in {"activateIngest", "activateHolds", "goOn", "consume", "idle",
                          Refused(t, FALSE), Refused(t, TRUE)} :
            \E read_ : Advance(t, label, thread[t].ms, read_)
      BY <2>3 DEF Activate, ActivateRead, ActivateIngest, ActivateHolds, GoOn, Consume,
           ActivateOnceReady, Look, Read, Go
    <3>2. label \notin Reading
      BY <1>1 DEF Reading
    <3>3. QED
      BY <3>1, <3>2
  <2>4. CASE ScheduleCheck(t) \/ CutAfterKey(t)
    <3>1. PICK label \in {"scheduleRead", "schedule", "unschedule", "idle"} :
            Advance(t, label, thread[t].ms, thread[t].was)
      BY <2>4 DEF ScheduleCheck, CutAfterKey, Look, Go
    <3>2. QED
      BY <3>1 DEF Reading
  <2>5. CASE Keys(t)
    <3>1. CASE ~BecomeCut(t)
      <4>1. PICK label \in {"toggleMark", "toggleIngest", "toggleArmed", "armKeyArmed", "arm",
                            "idle"} : \E d : Advance(t, label, d, thread[t].was)
        BY <2>5, <3>1 DEF Keys, Toggle, ToggleMark, ToggleIngest, ToggleArmed, ArmKey,
             ArmKeyArmed, Look, Take, Go
      <4>2. QED
        BY <4>1 DEF Reading
    <3>2. QED
      BY <3>1
  <2>6. QED
    BY <2>1, <2>2, <2>3, <2>4, <2>5 DEF Else
<1>4. QED
  BY <1>2, <1>3 DEF Advance, BecomeCut, Busy, Idle, Reading, TypeInv, TypeOK

\* A step that leaves what was read alone keeps what is known of it.
LEMMA StaysAware ==
  ASSUME SafeInv, NEW u \in Threads, thread'[u] = thread[u], read'[u] = read[u],
         UNCHANGED <<origin, live, pos>>
  PROVE  Aware(u)'
BY DEF SafeInv, Aware, At

\* Marking reads the newest tag and its stamp.
LEMMA MarkReadIsAware ==
  ASSUME SafeInv, NEW t \in Threads, MarkRead(t)
  PROVE  PlacesOK' /\ Aware(t)' /\ thread'[t].at \in {"scheduleSet", "idle"}
<1>1. /\ Read(t, "scheduleRead", IF tags > 0 THEN "scheduleSet" ELSE "idle", session)
      /\ read' = [read EXCEPT ![t] = IF tags > 0 THEN Latest ELSE Nothing]
      /\ UNCHANGED <<places, mark, moment, tags>>
  BY DEF MarkRead, ScheduleRead, Read, world
<1>2. /\ thread'[t].at = IF tags > 0 THEN "scheduleSet" ELSE "idle"
      /\ tags > 0 => thread'[t].was = session
  <2>1. (IF tags > 0 THEN "scheduleSet" ELSE "idle") \in Labels
        /\ session \in DelayOrNone \union Sessions
    BY DEF Labels, SafeInv, TypeInv, TypeOK
  <2>2. QED
    BY <1>1, <2>1, ReadDone DEF SafeInv
<1>3. tags \in Nat /\ (tags > 0 => session # 0)
  BY CapAssumption DEF SafeInv, TypeInv, TypeOK, Published
<1>4. tags > 0 => /\ Latest.ts \in Nat \ {0} /\ Latest.seq \in Nat \ {0}
                  /\ Latest.seq <= origin + Latest.ts
                  /\ Latest \in [ts : Nat, seq : Nat]
  BY <1>3 DEF SafeInv, PlacesOK, Latest, Ts
<1>5. Nothing \in [ts : Nat, seq : Nat]
  BY DEF Nothing
<1>6. PlacesOK'
  BY <1>1, <1>4, <1>5 DEF SafeInv, PlacesOK, places
<1>7. Aware(t)'
  BY <1>1, <1>2, <1>3, <1>4 DEF SafeInv, PlacesOK, Aware, At, places
<1>8. QED
  BY <1>2, <1>6, <1>7

\* Every step of a thread keeps the mark and its moment together, and what the
\* threads know of them.
LEMMA ThreadStepKeepsSafeInv ==
  ASSUME SafeInv, NEW t \in Threads, ThreadStep(t)
  PROVE  PlacesOK' /\ MarkIsItsMoment' /\ MarkedAlike' /\ Published'
         /\ \A u \in Threads : Aware(u)'
<1>1. \A u \in Threads \ {t} : thread'[u] = thread[u]
  BY ThreadStepIsItsOwn DEF SafeInv
<1>2. /\ TypeInv /\ PlacesOK /\ MarkIsItsMoment /\ MarkedAlike /\ Published /\ Aware(t)
      /\ read[t] \in [ts : Nat, seq : Nat] /\ read \in [Threads -> [ts : Nat, seq : Nat]]
      /\ Nothing \in [ts : Nat, seq : Nat] /\ Runtime \in Threads
  BY DEF SafeInv, PlacesOK, Nothing, Threads
<1>3. /\ UNCHANGED <<places, ingestAlive, session, tags>>
      /\ \A u \in Threads \ {t} : read'[u] = read[u]
  <2>1. CASE Else(t)
    BY <2>1 DEF Else, Arm, ArmRead, ArmSwap,
         Retarget, ArmFresh, ArmPlain, TargetOff, PendingOff, OnceOff, Activate, ActivateRead,
         ActivateIngest, ActivateHolds, GoOn, Consume, ActivateOnceReady, ScheduleCheck,
         CutAfterKey, Keys, Toggle, ToggleMark, ToggleIngest, ToggleArmed, ArmKey,
         ArmKeyArmed, BecomeCut, Look, Read, Take, world, marks
  <2>2. CASE ~Else(t)
    BY <1>2, <2>2 DEF ThreadStep, MarkRead, MarkSet, CheckRead, CheckAired, CheckTake,
         ScheduleRead, ScheduleSet, FireRead, FireAired, FireTake, Look, Read, world
  <2>3. QED
    BY <2>1, <2>2
<1>4. \A u \in Threads \ {t} : Aware(u)'
  BY <1>1, <1>3, StaysAware DEF places
<1>5. ASSUME thread'[t].at \notin Publishing
      PROVE  Published'
  BY <1>1, <1>2, <1>3, <1>5 DEF Published
<1>6. CASE MarkRead(t)
  <2>1. /\ UNCHANGED <<mark, moment, safeCut, origin>>
        /\ PlacesOK' /\ Aware(t)' /\ thread'[t].at \notin Publishing
    BY <1>6, MarkReadIsAware DEF MarkRead, ScheduleRead, Read, control, places, Publishing
  <2>2. QED
    BY <1>2, <1>4, <1>5, <2>1 DEF MarkIsItsMoment, MarkedAlike
<1>7. CASE MarkSet(t)
  <2>1. /\ Go(t, "scheduleSet", "idle") /\ mark' = read[t].ts /\ moment' = read[t].seq
        /\ read' = [read EXCEPT ![t] = Nothing] /\ safeCut' = thread[t].was
    BY <1>7 DEF MarkSet, ScheduleSet
  <2>2. At(t, "scheduleSet") /\ thread'[t].at = "idle"
    BY <1>2, <2>1, Gone DEF Go, Labels
  <2>3. PlacesOK'
    BY <1>2, <1>3, <2>1 DEF PlacesOK, places
  <2>4. MarkIsItsMoment' /\ MarkedAlike'
    BY <1>2, <1>3, <2>1, <2>2 DEF MarkIsItsMoment, MarkedAlike, Aware, places, NoMoment, NoMark
  <2>5. Aware(t)' /\ Published'
    BY <1>5, <2>2 DEF Aware, At, Publishing
  <2>6. QED
    BY <1>4, <2>3, <2>4, <2>5
<1>8. CASE CheckRead(t)
  <2>1. /\ Read(t, "fire", IF safeCut = NoMark THEN "idle" ELSE "fireAired", safeCut)
        /\ read' = [read EXCEPT ![t].ts = mark]
        /\ UNCHANGED <<mark, moment, safeCut>>
    BY <1>8 DEF CheckRead, FireRead, Read, control
  <2>2. /\ At(t, "fire")
        /\ thread'[t].at = IF safeCut = NoMark THEN "idle" ELSE "fireAired"
    <3>1. /\ (IF safeCut = NoMark THEN "idle" ELSE "fireAired") \in Labels
          /\ safeCut \in DelayOrNone \union Sessions
      BY <1>2 DEF Labels, TypeInv, TypeOK
    <3>2. QED
      BY <1>2, <2>1, <3>1, ReadDone DEF At
  <2>3. mark \in Nat /\ read'[t].ts = mark /\ read' \in [Threads -> [ts : Nat, seq : Nat]]
    BY <1>2, <2>1 DEF PlacesOK
  <2>4. PlacesOK'
    BY <1>2, <1>3, <2>1, <2>3 DEF PlacesOK, places
  <2>5. Aware(t)' /\ Published'
    BY <1>2, <1>5, <2>2, <2>3 DEF Aware, At, MarkedAlike, Publishing
  <2>6. QED
    BY <1>2, <1>3, <1>4, <2>1, <2>4, <2>5 DEF MarkIsItsMoment, MarkedAlike, places
<1>9. CASE CheckAired(t)
  <2>1. /\ At(t, "fireAired") /\ UNCHANGED <<mark, moment, safeCut>>
        /\ At(t, "fireTake")' <=> Aired(read[t].ts)
        /\ read' = IF Aired(read[t].ts) THEN read ELSE [read EXCEPT ![t] = Nothing]
    BY <1>9 DEF CheckAired, FireAired, Look, Go, control
  <2>2. thread'[t].at \in {"fireTake", "idle"}
    <3>1. PICK to \in {"idle", "fireTake"} : Go(t, "fireAired", to)
      BY <1>9 DEF CheckAired, FireAired, Look
    <3>2. QED
      BY <1>2, <3>1, Gone DEF Labels
  <2>3. read' \in [Threads -> [ts : Nat, seq : Nat]]
    BY <1>2, <2>1
  <2>4. PlacesOK'
    BY <1>2, <1>3, <2>1, <2>3 DEF PlacesOK, places
  <2>5. Aware(t)' /\ Published'
    <3>1. CASE thread'[t].at = "fireTake"
      <4>1. read' = read /\ \A d \in live : pos[d] > origin + read[t].ts
        BY <1>2, <2>1, <3>1, AiredIsBehind DEF At
      <4>2. t = Runtime /\ read[t].ts # 0
        BY <1>2, <2>1 DEF Aware, At
      <4>3. QED
        BY <1>3, <1>5, <3>1, <4>1, <4>2 DEF Aware, At, Publishing, places
    <3>2. CASE thread'[t].at = "idle"
      BY <1>5, <3>2 DEF Aware, At, Publishing
    <3>3. QED
      BY <2>2, <3>1, <3>2
  <2>6. QED
    BY <1>2, <1>3, <1>4, <2>1, <2>4, <2>5 DEF MarkIsItsMoment, MarkedAlike, places
<1>10. CASE CheckTake(t)
  <2>1. /\ read' = [read EXCEPT ![t] = Nothing]
        /\ IF StillMarked(t) THEN mark' = 0 /\ moment' = NoMoment
           ELSE UNCHANGED <<mark, moment>>
        /\ At(t, "off")' <=> StillMarked(t)
    BY <1>10 DEF CheckTake
  <2>2. /\ thread'[t].at \in {"off", "idle"}
        /\ thread'[t].at = "off" => safeCut' = NoMark
        /\ thread'[t].at = "idle" => safeCut' = safeCut
    <3>1. CASE Go(t, "fireTake", "off") /\ safeCut' = NoMark
      BY <1>2, <3>1, Gone DEF Labels
    <3>2. CASE Look(t, "fireTake", "idle")
      BY <1>2, <3>2, Gone DEF Labels, Look, control
    <3>3. QED
      BY <1>10, <3>1, <3>2 DEF CheckTake, FireTake
  <2>3. PlacesOK'
    BY <1>2, <1>3, <2>1 DEF PlacesOK, places, NoMoment
  <2>4. Aware(t)' /\ Published'
    BY <1>5, <2>2 DEF Aware, At, Publishing
  <2>5. MarkIsItsMoment' /\ MarkedAlike'
    BY <1>2, <1>3, <2>1, <2>2 DEF MarkIsItsMoment, MarkedAlike, places, At
  <2>6. QED
    BY <1>4, <2>3, <2>4, <2>5
<1>11. CASE Else(t)
  <2>1. thread'[t].at \notin Reading /\ UNCHANGED <<places, marks>>
    BY <1>2, <1>11, ElseReadsNothing DEF Else
  <2>2. safeCut' = safeCut
    BY <1>11 DEF Else, Arm, ArmRead, ArmSwap,
         Retarget, ArmFresh, ArmPlain, TargetOff, PendingOff, OnceOff, Activate, ActivateRead,
         ActivateIngest, ActivateHolds, GoOn, Consume, ActivateOnceReady, ScheduleCheck,
         CutAfterKey, Keys, Toggle, ToggleMark, ToggleIngest, ToggleArmed, ArmKey,
         ArmKeyArmed, BecomeCut, Look, Read, Take, control
  <2>3. Aware(t)' /\ Published'
    BY <1>5, <2>1 DEF Aware, At, Reading
  <2>4. QED
    BY <1>2, <1>3, <1>4, <2>1, <2>2, <2>3
       DEF PlacesOK, MarkIsItsMoment, MarkedAlike, places, marks
<1>12. QED
  BY <1>6, <1>7, <1>8, <1>9, <1>10, <1>11 DEF ThreadStep

\* While a destination or the buffer moves, no pump is in its check.
LEMMA MovingKeepsAware ==
  ASSUME SafeInv, thread' = thread, read' = read, origin' = origin, thread[Runtime] = Idle
  PROVE  \A t \in Threads : Aware(t)'
<1>1. ASSUME NEW t \in Threads
      PROVE  Aware(t)'
  <2>1. thread[t].at \notin {"fire", "fireAired", "fireTake"}
    BY DEF SafeInv, Aware, Idle
  <2>2. QED
    BY <2>1 DEF SafeInv, Aware, At
<1>2. QED
  BY <1>1

\* Every step keeps it.
LEMMA AllNextKeepsSafeInv ==
  ASSUME SafeInv, [AllNext]_allVars
  PROVE  SafeInv'
<1>1. TypeInv'
  BY StepsAreDelayControls, NextKeepsTypes DEF SafeInv
<1>2. /\ TypeInv /\ PlacesOK /\ MarkIsItsMoment /\ MarkedAlike /\ Published
      /\ \A t \in Threads : Aware(t)
      /\ Runtime \in Threads /\ tags \in Nat /\ session \in Nat
      /\ thread \in [Threads -> ThreadSet]
  BY CapAssumption, OverlapAssumption DEF SafeInv, Threads, TypeInv, TypeOK, Sessions
<1>3. SUFFICES PlacesOK' /\ MarkIsItsMoment' /\ MarkedAlike' /\ Published'
               /\ \A t \in Threads : Aware(t)'
  BY <1>1 DEF SafeInv
<1>4. CASE UNCHANGED allVars
  BY <1>2, <1>4 DEF allVars, vars, places, marks, PlacesOK, MarkIsItsMoment, MarkedAlike,
     Published, Aware, At, world, control
<1>5. CASE \E t \in Threads : ThreadStep(t)
  BY <1>5, ThreadStepKeepsSafeInv
<1>6. CASE MarkTakenBack
  <2>1. PICK t \in Threads : \/ t = Runtime /\ PublishMark
                            \/ Cancel(t) \/ MarkOff(t)
    BY <1>2, <1>6 DEF MarkTakenBack
  <2>2. /\ mark' = 0 /\ moment' = NoMoment /\ UNCHANGED <<places, read>>
        /\ safeCut' = NoMark /\ UNCHANGED world
    BY <1>6 DEF MarkTakenBack, PublishMark, Cancel, MarkOff
  <2>3. \A u \in Threads \ {t} : thread'[u] = thread[u]
    BY <1>2, <2>1, StepIsItsOwn DEF Publish, Step, Off, CutAfter
  <2>4. /\ thread'[t].at \notin Reading \ {"publishAlive"}
        /\ thread'[t].at = "publishAlive" => PublishMark /\ t = Runtime
    <3>1. CASE t = Runtime /\ PublishMark
      <4>1. Go(Runtime, "publishMark", "publishAlive") /\ "publishAlive" \in Labels
        BY <3>1 DEF PublishMark, Labels
      <4>2. QED
        BY <1>2, <3>1, <4>1, Gone DEF Reading, Publishing
    <3>2. CASE Cancel(t) \/ MarkOff(t)
      BY <1>2, <3>2, ElseReadsNothing DEF Reading, Publishing
    <3>3. QED
      BY <2>1, <3>1, <3>2
  <2>5. Published'
    <3>1. CASE thread'[t].at = "publishAlive"
      BY <1>2, <2>2, <2>4, <3>1 DEF Published, PublishMark, Go, At, Publishing, world
    <3>2. CASE thread'[t].at # "publishAlive"
      BY <1>2, <2>2, <2>3, <2>4, <3>2 DEF Published, Reading, Publishing, world
    <3>3. QED
      BY <3>1, <3>2
  <2>6. \A u \in Threads : Aware(u)'
    <3>1. \A u \in Threads \ {t} : Aware(u)'
      BY <2>2, <2>3, StaysAware DEF places
    <3>2. Aware(t)'
      BY <2>4 DEF Aware, At, Reading
    <3>3. QED
      BY <3>1, <3>2
  <2>7. QED
    BY <1>2, <2>2, <2>5, <2>6
       DEF PlacesOK, MarkIsItsMoment, MarkedAlike, places, world, NoMoment
<1>7. CASE Begins
  <2> DEFINE First == {"arm", "armKey", "toggle", "activate", "off", "cutAfterKey",
                       "schedule", "unschedule", "fire", "publish"}
  <2>1. UNCHANGED <<places, marks>>
    BY <1>7 DEF Begins
  <2>2. ASSUME NEW t \in Threads, NEW request, NEW d, NEW label \in First,
               Enter(t, request, label, d), label = "fire" => t = Runtime
        PROVE  PlacesOK' /\ MarkIsItsMoment' /\ MarkedAlike' /\ Published'
               /\ \A u \in Threads : Aware(u)'
    <3>1. /\ thread' = [thread EXCEPT ![t] = Busy(label, request, d)]
          /\ UNCHANGED <<control, world>>
      BY <2>2 DEF Enter
    <3>2. thread'[t].at = label /\ \A u \in Threads \ {t} : thread'[u] = thread[u]
      BY <1>2, <3>1 DEF Busy
    <3>3. \A u \in Threads \ {t} : Aware(u)'
      BY <2>1, <3>2, StaysAware DEF places, marks
    <3>4. Aware(t)'
      BY <2>2, <3>2 DEF Aware, At
    <3>5. Published'
      BY <1>2, <3>1, <3>2 DEF Published, Publishing, world
    <3>6. QED
      BY <1>2, <2>1, <3>1, <3>3, <3>4, <3>5
         DEF PlacesOK, MarkIsItsMoment, MarkedAlike, places, marks, world, control
  <2>3. ASSUME NEW request, NEW d, NEW label \in First, Enter(Runtime, request, label, d)
        PROVE  PlacesOK' /\ MarkIsItsMoment' /\ MarkedAlike' /\ Published'
               /\ \A u \in Threads : Aware(u)'
    BY <1>2, <2>2, <2>3
  <2>4. CASE AutoActivate \/ AutoActivateOnce
    <3>1. PICK request \in {"auto", "autoOnce"} : Enter(Runtime, request, "activate", 0)
      BY <2>4 DEF AutoActivate, AutoActivateOnce, Tick
    <3>2. "activate" \in First
      OBVIOUS
    <3>3. QED
      BY <2>3, <3>1, <3>2
  <2>5. CASE BeginRuntime
    <3>1. \A request, label, d : Begin(Runtime, request, label, d)
                                => Enter(Runtime, request, label, d)
      BY DEF Begin
    <3>2. PICK d, request, label : label \in First /\ Begin(Runtime, request, label, d)
      BY <2>5, Zenon DEF BeginRuntime
    <3>3. QED
      BY <2>3, <3>1, <3>2
  <2>6. CASE \E t \in Controls : BeginControl(t)
    <3>1. PICK t \in Controls : BeginControl(t)
      BY <2>6
    <3>2. \A request, label, d : Begin(t, request, label, d) => Enter(t, request, label, d)
      BY DEF Begin
    <3>3. PICK d, request, label : /\ label \in First /\ label # "fire"
                                   /\ Begin(t, request, label, d)
      BY <3>1, ZenonT(30) DEF BeginControl
    <3>4. t \in Threads
      BY DEF Threads
    <3>5. QED
      BY <2>2, <3>2, <3>3, <3>4
  <2>7. QED
    BY <1>7, <2>4, <2>5, <2>6 DEF Begins
<1>8. CASE RingRestarts
  <2>1. /\ Go(Runtime, "publish", "publishPending") /\ "publishPending" \in Labels
        /\ tags' = 0 /\ session' = session + 1 /\ origin' = nextSeq
        /\ UNCHANGED <<nextSeq, live, pos, marks, control>>
    BY <1>8 DEF RingRestarts, PublishRing, Labels
  <2>2. thread[Runtime].at = "publish" /\ thread'[Runtime].at = "publishPending"
    BY <1>2, <2>1, Gone
  <2>3. \A u \in Threads \ {Runtime} : thread'[u] = thread[u]
    BY <1>2, <1>8, StepIsItsOwn DEF RingRestarts, Publish
  <2>4. PlacesOK' /\ MarkIsItsMoment' /\ MarkedAlike' /\ Published'
    BY <1>2, <2>1 DEF PlacesOK, MarkIsItsMoment, MarkedAlike, Published, marks, control
  <2>5. ASSUME NEW u \in Threads
        PROVE  Aware(u)'
    <3>1. CASE u = Runtime
      BY <2>2, <3>1 DEF Aware, At
    <3>2. CASE u # Runtime
      <4>1. thread'[u] = thread[u] /\ thread[u].at \notin {"fire", "fireAired", "fireTake"}
        BY <1>2, <2>3, <3>2 DEF Aware
      <4>2. read[u].ts \in Nat /\ read[u].seq \in Nat /\ origin \in Nat /\ nextSeq \in Nat
            /\ origin <= nextSeq
        BY <1>2 DEF PlacesOK
      <4>3. QED
        BY <1>2, <2>1, <4>1, <4>2 DEF Aware, At, marks
    <3>3. QED
      BY <3>1, <3>2
  <2>6. QED
    BY <2>4, <2>5
<1>9. CASE PublisherStep
  <2>1. CASE PublishPending \/ PublishAlive
    <3>1. PICK from \in {"publishPending", "publishAlive"}, label \in {"publishMark", "idle"} :
            Go(Runtime, from, label)
      BY <2>1 DEF PublishPending, PublishAlive
    <3>2. label \in Labels
      BY DEF Labels
    <3>3. thread[Runtime].at = from /\ thread'[Runtime].at = label
      BY <1>2, <3>1, <3>2, Gone
    <3>4. \A u \in Threads \ {Runtime} : thread'[u] = thread[u]
      BY <1>2, <2>1, StepIsItsOwn DEF Publish
    <3>5. /\ UNCHANGED <<places, marks, safeCut, session, tags>>
      BY <1>9, <2>1 DEF PublisherStep, PublishPending, PublishAlive, control, world
    <3>6. Aware(Runtime)' /\ \A u \in Threads \ {Runtime} : Aware(u)'
      BY <3>3, <3>4, <3>5, StaysAware DEF Aware, At, places, marks
    <3>7. Published'
      BY <1>2, <3>3, <3>5 DEF Published, Publishing
    <3>8. QED
      BY <1>2, <3>5, <3>6, <3>7 DEF PlacesOK, MarkIsItsMoment, MarkedAlike, places, marks
  <2>2. CASE Drop
    <3>1. UNCHANGED <<places, marks, safeCut, session, tags, thread>> /\ ~ingestAlive'
      BY <1>9, <2>2 DEF PublisherStep, Drop, control
    <3>2. QED
      BY <1>2, <3>1, StaysAware
         DEF PlacesOK, MarkIsItsMoment, MarkedAlike, Published, places, marks
  <2>3. QED
    BY <1>9, <2>1, <2>2 DEF PublisherStep
<1>10. CASE TagComes
  <2>1. /\ thread[Runtime] = Idle /\ nextSeq' = nextSeq + 1 /\ ingestAlive
        /\ UNCHANGED <<origin, live, pos, marks, safeCut, session, thread, ingestAlive>>
    BY <1>10 DEF TagComes, Tag, Turn, control
  <2>2. tags' \in Nat /\ tags' <= tags + 1
    <3>1. tags' \in 0 .. Min2(tags + 1, Cap)
      <4>1. Min2(tags + 1, Min2(KeptTags, Cap)) \in Nat
        BY <1>2, CapAssumption, DelaysAssumption
           DEF Min2, KeptTags, TypeInv, TypeOK, DelayOrNone
      <4>2. QED
        BY <1>2, <1>10, <4>1, CapAssumption DEF TagComes, Tag, Min2
    <3>2. QED
      BY <1>2, <3>1, CapAssumption DEF Min2
  <2>3. PlacesOK' /\ MarkIsItsMoment' /\ MarkedAlike' /\ Published'
    <3>1. PlacesOK'
      <4>1. /\ nextSeq' = nextSeq + 1 /\ origin' = origin /\ live' = live /\ pos' = pos
            /\ mark' = mark /\ read' = read /\ moment' = moment
        BY <2>1 DEF marks
      <4>2. /\ nextSeq \in Nat \ {0} /\ origin \in Nat \ {0} /\ tags \in Nat
            /\ origin + tags <= nextSeq
        BY <1>2 DEF PlacesOK
      <4>3. origin + tags' <= nextSeq + 1
        <5>1. \A a, b, c, n \in Nat : a + b <= n /\ c <= b + 1 => a + c <= n + 1
          OBVIOUS
        <5>2. origin \in Nat /\ nextSeq \in Nat
          BY <4>2
        <5>3. QED
          BY <2>2, <4>2, <5>1, <5>2, Zenon
      <4>4. QED
        BY <1>2, <4>1, <4>2, <4>3 DEF PlacesOK
    <3>2. MarkIsItsMoment' /\ MarkedAlike'
      BY <1>2, <2>1 DEF MarkIsItsMoment, MarkedAlike, marks
    <3>3. Published'
      BY <1>2, <2>1 DEF Published
    <3>4. QED
      BY <3>1, <3>2, <3>3
  <2>4. QED
    BY <2>1, <2>3, MovingKeepsAware DEF marks
<1>11. CASE \E d \in Dests : Connect(d) \/ Land(d) \/ Send(d) \/ Disconnect(d)
  <2>1. /\ thread[Runtime] = Idle /\ UNCHANGED <<vars, nextSeq, origin, marks>>
    BY <1>11 DEF Connect, Land, Send, Disconnect, Elsewhere, Turn
  <2>2. live' \subseteq Dests /\ pos' \in [Dests -> Nat]
    <3>1. Unseeded \in Nat
      BY SeqAssumption DEF Unseeded
    <3>2. InRing \subseteq Nat
      BY <1>2 DEF InRing, Front, PlacesOK
    <3>3. QED
      BY <1>2, <1>11, <3>1, <3>2 DEF Connect, Land, Send, Disconnect, PlacesOK
  <2>3. QED
    BY <1>2, <2>1, <2>2, MovingKeepsAware
       DEF PlacesOK, MarkIsItsMoment, MarkedAlike, Published, marks, vars, control, world
<1>12. QED
  BY <1>4, <1>5, <1>6, <1>7, <1>8, <1>9, <1>10, <1>11 DEF AllNext

\* A safe cut comes only for the moment that is marked, once every live destination
\* is past it, for any threads and destinations and however they interleave.
THEOREM SafeCutsAirTheMoment == AllSpec => SafeCutAirsTheMoment
<1>1. AllInit => SafeInv
  <2>1. SUFFICES ASSUME AllInit PROVE SafeInv
    OBVIOUS
  <2>2. TypeInv
    BY <2>1, InitIsTyped DEF AllInit
  <2>3. PlacesOK /\ MarkIsItsMoment /\ MarkedAlike
    BY <2>1, SeqAssumption
       DEF AllInit, Init, PlacesOK, MarkIsItsMoment, MarkedAlike, Unseeded, Nothing, NoMoment
  <2>4. Published /\ \A t \in Threads : Aware(t)
    BY <2>1 DEF AllInit, Init, Published, Publishing, Aware, At, Idle, Threads
  <2>5. QED
    BY <2>2, <2>3, <2>4 DEF SafeInv
<1>2. SafeInv /\ [AllNext]_allVars => SafeInv'
  BY AllNextKeepsSafeInv
<1>3. SafeInv /\ [AllNext]_allVars
        => [\A t \in Threads : At(t, "fireTake") /\ At(t, "off")'
              => moment # NoMoment /\ \A d \in live : pos[d] > moment]_allVars
  <2>1. SUFFICES ASSUME SafeInv, AllNext, NEW t \in Threads, At(t, "fireTake"), At(t, "off")'
                 PROVE  moment # NoMoment /\ \A d \in live : pos[d] > moment
    OBVIOUS
  <2>2. thread[t] # Idle /\ thread'[t] # thread[t]
    BY <2>1 DEF At, Idle
  <2>3. CASE CheckTake(t)
    <3>1. mark = read[t].ts
      BY <2>1, <2>3 DEF CheckTake, StillMarked
    <3>2. mark # 0 /\ \A d \in live : pos[d] > origin + mark
      BY <2>1, <3>1 DEF SafeInv, Aware, At
    <3>3. moment # NoMoment /\ moment <= origin + mark
      BY <2>1, <3>2 DEF SafeInv, MarkIsItsMoment
    <3>4. origin \in Nat /\ mark \in Nat /\ moment \in Nat /\ \A d \in live : pos[d] \in Nat
      BY <2>1 DEF SafeInv, PlacesOK
    <3>5. QED
      BY <3>2, <3>3, <3>4
  <2>4. CASE ThreadStep(t) /\ ~CheckTake(t)
    <3>1. CASE Else(t)
      BY <2>1, <3>1, ElseReadsNothing DEF SafeInv, Reading, At
    <3>2. QED
      BY <2>1, <2>4, <3>1 DEF ThreadStep, MarkRead, MarkSet, CheckRead, CheckAired,
         ScheduleRead, ScheduleSet, FireRead, FireAired, Look, Read, Go, At
  <2>5. ASSUME NEW u \in Threads \ {t}, ThreadStep(u)
        PROVE  FALSE
    BY <2>1, <2>2, <2>5, ThreadStepIsItsOwn DEF SafeInv
  <2>6. ASSUME NEW u \in Threads, Cancel(u) \/ MarkOff(u) \/ (u = Runtime /\ Publish)
        PROVE  FALSE
    <3>1. CASE u = t
      BY <2>1, <2>6, <3>1 DEF Cancel, MarkOff, Publish, PublishRing, PublishPending, PublishMark,
         PublishAlive, Go, At
    <3>2. CASE u # t
      BY <2>1, <2>2, <2>6, <3>2, StepIsItsOwn DEF SafeInv, Step, Off, CutAfter
    <3>3. QED
      BY <3>1, <3>2
  <2>7. Runtime \in Threads /\ Controls \subseteq Threads
    BY DEF Threads
  <2>8. ~(MarkTakenBack \/ RingRestarts \/ PublisherStep)
    <3>1. ~Drop
      BY <2>2 DEF Drop
    <3>2. QED
      BY <2>6, <2>7, <3>1 DEF MarkTakenBack, RingRestarts, PublisherStep, Publish
  <2>9. ASSUME NEW u \in Threads, NEW request, NEW label, NEW d, Enter(u, request, label, d)
        PROVE  FALSE
    BY <2>1, <2>2, <2>9 DEF Enter, SafeInv, TypeInv, TypeOK
  <2>10. ~Begins
    <3>1. ~(AutoActivate \/ AutoActivateOnce)
      BY <2>7, <2>9 DEF AutoActivate, AutoActivateOnce, Tick
    <3>2. ~BeginRuntime
      BY <2>7, <2>9 DEF BeginRuntime, Begin
    <3>3. ~\E u \in Controls : BeginControl(u)
      BY <2>7, <2>9 DEF BeginControl, Begin
    <3>4. QED
      BY <3>1, <3>2, <3>3 DEF Begins
  <2>11. ~(TagComes \/ \E d \in Dests : Connect(d) \/ Land(d) \/ Send(d) \/ Disconnect(d))
    BY <2>2 DEF TagComes, Tag, Connect, Land, Send, Disconnect, Elsewhere, vars
  <2>12. QED
    BY <2>1, <2>3, <2>4, <2>5, <2>8, <2>10, <2>11 DEF AllNext
<1>4. QED
  BY <1>1, <1>2, <1>3, PTL DEF AllSpec, SafeCutAirsTheMoment
=============================================================================
