----------------------------- MODULE DelayControl -----------------------------
(***************************************************************************)
(* The two-phase delay control of src/src/controller.rs: a delay is armed  *)
(* (the buffer builds up to it while viewers stay live), activated (the    *)
(* pumps go back by it) and cut, at once or once a marked moment has aired.*)
(*                                                                         *)
(* Its state is a handful of atomics and no lock.  The runtime thread runs *)
(* the dashboard's requests, the supervisor, the pumps and the ingest; the *)
(* hotkeys, the tray, MIDI and the integrations call the same methods from *)
(* threads of their own.  Every load and store that another thread can see *)
(* in between is a step of its own here; reads that only guard the next    *)
(* step share one.  Overlap says whether an operation may begin while      *)
(* another thread is inside one.                                           *)
(*                                                                         *)
(* The ring is reduced to how many tags it holds, one tag standing for one *)
(* unit of delay.                                                          *)
(***************************************************************************)
EXTENDS Naturals

CONSTANTS Runtime,      \* the runtime thread
          Controls,     \* the threads of hotkeys, tray, MIDI, integrations
          Delays,       \* delays a caller may ask for
          Cap,          \* tags the full ring holds
          MinBuffer,    \* tags kept when nothing is armed
          Slack,        \* tags kept beyond the armed delay
          Overlap,      \* may operations of two threads interleave?
          MaxSessions   \* bound on the publisher sessions of a behaviour

Threads == {Runtime} \union Controls
NoMark  == 0            \* no safe cut scheduled

ASSUME RuntimeAssumption == Runtime \notin Controls
ASSUME DelaysAssumption  == Delays \subseteq Nat \ {0}
ASSUME CapAssumption     == Cap \in Nat \ {0} /\ MinBuffer \in Nat /\ Slack \in Nat
ASSUME OverlapAssumption == Overlap \in BOOLEAN /\ MaxSessions \in Nat

VARIABLES
  armed,        \* armed_delay_ms: the delay the buffer builds up to, or 0
  target,       \* target_delay_ms: the delay on air, or 0
  pending,      \* auto_activate_pending: an arm still waits to go on air
  once,         \* activate_once_ready: go on air when ready, whatever the setting
  safeCut,      \* safe_cut_input_ts, as the session its timestamp is of
  ingestAlive,  \* is a publisher connected?
  session,      \* whose timestamps the ring holds
  tags,         \* tags in the ring
  thread,       \* per thread: the next step, the request, its argument, what it read
  asked,        \* history: did the streamer ask for a delay since the last cut?
  promised,     \* history: was "starts as soon as it is ready" said since?
  crossed,      \* history: did a cut cross the supervisor's last tick?
  overtaken     \* history: is what airs put on air by a crossed tick?

control == <<armed, target, pending, once, safeCut>>
world   == <<ingestAlive, session, tags>>
history == <<asked, promised, crossed, overtaken>>
vars    == <<control, world, thread, history>>

Requests == {"none", "arm", "toggle", "delay", "activate", "auto", "autoOnce",
             "cut", "mark", "fire", "publish"}

Min2(a, b) == IF a < b THEN a ELSE b

\* (Mutant: a full ring that spans less than the delay never counts.)
BufferSpans(d) == tags >= d

\* The ring spans the delay, or is full and spans all it ever will.
BufferHolds(d) == tags >= d \/ tags = Cap

\* How many tags on_tag's trim keeps.
KeptTags == (IF armed = 0 THEN MinBuffer ELSE armed) + Slack

\* A thread between requests, and one inside a request.
Idle == [at |-> "idle", op |-> "none", ms |-> 0, was |-> 0]
Busy(label, request, d) == [at |-> label, op |-> request, ms |-> d, was |-> 0]

Quiet == \A t \in Threads : thread[t] = Idle

Init ==
  /\ armed \in Delays \union {0}
  /\ target = 0 /\ pending = FALSE /\ once = FALSE /\ safeCut = NoMark
  /\ ingestAlive = FALSE /\ session = 0 /\ tags = 0
  /\ thread = [t \in Threads |-> Idle]
  /\ asked = FALSE /\ promised = FALSE /\ crossed = FALSE /\ overtaken = FALSE

\* A thread begins a request, alone unless operations may overlap.
Enter(t, request, label, d) ==
  /\ thread[t] = Idle
  /\ Overlap \/ Quiet
  /\ thread' = [thread EXCEPT ![t] = Busy(label, request, d)]
  /\ UNCHANGED <<control, world>>
Begin(t, request, label, d) == Enter(t, request, label, d) /\ UNCHANGED history

\* A thread at one step moves on to another, keeping what it knows; what the
\* step stores besides, its action says.
At(t, label) == thread[t].at = label
Advance(t, label, d, read) ==
  thread' = [thread EXCEPT ![t] =
    IF label = "idle" THEN Idle
    ELSE [at |-> label, op |-> thread[t].op, ms |-> d, was |-> read]]
Go(t, from, to) == At(t, from) /\ Advance(t, to, thread[t].ms, thread[t].was)

\* Steps that only read: nothing, a value to use later, a new argument.
Look(t, from, to) == Go(t, from, to) /\ UNCHANGED <<control, world, history>>
Read(t, from, to, value) ==
  /\ At(t, from) /\ Advance(t, to, thread[t].ms, value)
  /\ UNCHANGED <<control, world, history>>
Take(t, from, to, d) ==
  /\ At(t, from) /\ Advance(t, to, d, thread[t].was)
  /\ UNCHANGED <<control, world, history>>
-----------------------------------------------------------------------------
(* arm_delay.  Nonzero: a delay on air is changed in place, otherwise the   *)
(* arm waits to go on air.  Zero: back to no delay at all.                  *)

ArmRead(t) == Read(t, "arm", "armSwap", target)

ArmSwap(t) ==
  /\ \/ thread[t].ms = 0 /\ Go(t, "armSwap", "off")
     \/ thread[t].ms > 0 /\ thread[t].was > 0 /\ Go(t, "armSwap", "retarget")
     \/ thread[t].ms > 0 /\ thread[t].was = 0 /\ Go(t, "armSwap", "armFresh")
  /\ armed' = thread[t].ms
  /\ UNCHANGED <<target, pending, once, safeCut, world, history>>

\* Toggle and the one-shot delay request go on to activate what they armed.
AfterArm(t) == IF thread[t].op = "toggle" \/ (thread[t].op = "delay" /\ thread[t].ms > 0)
               THEN "activate" ELSE "idle"

\* (Mutant: the delay on air keeps its old length.)
RetargetForgotten(t) ==
  /\ Go(t, "retarget", AfterArm(t))
  /\ asked' = TRUE
  /\ UNCHANGED <<armed, target, pending, once, safeCut, world, promised, crossed, overtaken>>

Retarget(t) ==
  /\ Go(t, "retarget", AfterArm(t))
  /\ target' = thread[t].ms
  /\ asked' = TRUE
  /\ UNCHANGED <<armed, pending, once, safeCut, world, promised, crossed, overtaken>>

ArmFresh(t) ==
  /\ Go(t, "armFresh", "armPlain")
  /\ pending' = TRUE
  /\ asked' = TRUE
  /\ UNCHANGED <<armed, target, once, safeCut, world, promised, crossed, overtaken>>

\* (Mutant: an earlier request's promise is inherited.)
ArmInherits(t) ==
  /\ Go(t, "armPlain", AfterArm(t))
  /\ promised' = FALSE
  /\ UNCHANGED <<armed, target, pending, once, safeCut, world, asked, crossed, overtaken>>

ArmPlain(t) ==
  /\ Go(t, "armPlain", AfterArm(t))
  /\ once' = FALSE
  /\ promised' = FALSE
  /\ UNCHANGED <<armed, target, pending, safeCut, world, asked, crossed, overtaken>>

Arm(t) == ArmRead(t) \/ ArmSwap(t) \/ Retarget(t) \/ ArmFresh(t) \/ ArmPlain(t)

(* stop_delay, and the disarm branch of arm_delay, which also withdraws     *)
(* activate_once_ready.                                                     *)

IsCut(t) == thread[t].op \in {"cut", "fire"}

TargetOff(t) ==
  /\ Go(t, "off", "offPending")
  /\ target' = 0
  /\ asked' = FALSE /\ overtaken' = FALSE /\ crossed' = TRUE
  /\ UNCHANGED <<armed, pending, once, safeCut, world, promised>>

\* (Mutant: a cut leaves the arm waiting.)
PendingStays(t) ==
  /\ Go(t, "offPending", IF IsCut(t) THEN "offMark" ELSE "offOnce")
  /\ UNCHANGED <<control, world, history>>

PendingOff(t) ==
  /\ Go(t, "offPending", IF IsCut(t) THEN "offMark" ELSE "offOnce")
  /\ pending' = FALSE
  /\ UNCHANGED <<armed, target, once, safeCut, world, history>>

OnceOff(t) ==
  /\ Go(t, "offOnce", "offMark")
  /\ once' = FALSE
  /\ UNCHANGED <<armed, target, pending, safeCut, world, history>>

MarkOff(t) ==
  /\ Go(t, "offMark", IF IsCut(t) THEN "idle" ELSE AfterArm(t))
  /\ safeCut' = NoMark
  /\ promised' = FALSE
  /\ UNCHANGED <<armed, target, pending, once, world, asked, crossed, overtaken>>

Off(t) == TargetOff(t) \/ PendingOff(t) \/ OnceOff(t) \/ MarkOff(t)
-----------------------------------------------------------------------------
(* activate_delay: refused with nothing armed, no publisher, or a buffer    *)
(* that does not hold the delay yet.                                        *)

\* A refused toggle says the delay starts once it is ready only when the
\* buffer was what is missing; the one-shot delay request whatever it was.
Refused(t, bufferShort) ==
  IF thread[t].op = "delay" \/ (thread[t].op = "toggle" /\ bufferShort)
  THEN "promise" ELSE "idle"

ActivateRead(t) ==
  Read(t, "activate", IF armed = 0 THEN Refused(t, FALSE) ELSE "activateIngest", armed)

ActivateIngest(t) ==
  Look(t, "activateIngest", IF ingestAlive THEN "activateHolds" ELSE Refused(t, FALSE))

ActivateHolds(t) ==
  Look(t, "activateHolds", IF BufferHolds(thread[t].was) THEN "goOn" ELSE Refused(t, TRUE))

ByTick(t) == thread[t].op \in {"auto", "autoOnce"}

GoOn(t) ==
  /\ Go(t, "goOn", "consume")
  /\ target' = thread[t].was
  /\ asked' = (asked \/ ~ByTick(t))
  /\ overtaken' = (overtaken \/ (ByTick(t) /\ crossed))
  /\ UNCHANGED <<armed, pending, once, safeCut, world, promised, crossed>>

Consume(t) ==
  /\ Go(t, "consume", "idle")
  /\ pending' = FALSE
  /\ UNCHANGED <<armed, target, once, safeCut, world, history>>

ActivateOnceReady(t) ==
  /\ Go(t, "promise", "idle")
  /\ once' = TRUE
  /\ promised' = TRUE
  /\ UNCHANGED <<armed, target, pending, safeCut, world, asked, crossed, overtaken>>

Activate(t) == \/ ActivateRead(t) \/ ActivateIngest(t) \/ ActivateHolds(t)
               \/ GoOn(t) \/ Consume(t) \/ ActivateOnceReady(t)
-----------------------------------------------------------------------------
(* schedule_safe_cut, cancel_safe_cut, and the pumps' maybe_fire_safe_cut.  *)
(* The mark is a timestamp of the session the ring held when it was read.   *)

ScheduleCheck(t) ==
  Look(t, "schedule", IF target > 0 THEN "scheduleRead" ELSE "idle")

ScheduleRead(t) ==
  Read(t, "scheduleRead", IF tags > 0 THEN "scheduleSet" ELSE "idle", session)

ScheduleSet(t) ==
  /\ Go(t, "scheduleSet", "idle")
  /\ safeCut' = thread[t].was
  /\ UNCHANGED <<armed, target, pending, once, world, history>>

Cancel(t) ==
  /\ Go(t, "unschedule", "idle")
  /\ safeCut' = NoMark
  /\ UNCHANGED <<armed, target, pending, once, world, history>>

\* A press of the cut-after key: a second one takes the mark back.
CutAfterKey(t) ==
  Look(t, "cutAfterKey", IF safeCut = NoMark THEN "schedule" ELSE "unschedule")

FireRead(t) ==
  Read(t, "fire", IF safeCut = NoMark THEN "idle" ELSE "fireAired", safeCut)

\* Whether the slowest destination is past the mark is its own affair.
FireAired(t) == \E to \in {"idle", "fireTake"} : Look(t, "fireAired", to)

\* The cut is this pump's if the mark it read is still there: not if it was
\* taken back, or replaced by a later one of the same session, which SafeCut
\* tells apart by its timestamp.
FireTake(t) ==
  \/ /\ safeCut # NoMark
     /\ Go(t, "fireTake", "off")
     /\ safeCut' = NoMark
     /\ UNCHANGED <<armed, target, pending, once, world, history>>
  \/ Look(t, "fireTake", "idle")

CutAfter(t) == \/ ScheduleCheck(t) \/ ScheduleRead(t) \/ ScheduleSet(t)
               \/ Cancel(t) \/ CutAfterKey(t)
               \/ FireRead(t) \/ FireAired(t) \/ FireTake(t)
-----------------------------------------------------------------------------
(* The hotkeys' toggle and arm, which look at the state before they act.    *)

BecomeCut(t) ==
  /\ thread' = [thread EXCEPT ![t] = Busy("off", "cut", 0)]
  /\ UNCHANGED <<control, world, history>>

Toggle(t) ==
  \/ At(t, "toggle") /\ target > 0 /\ BecomeCut(t)
  \/ target = 0 /\ Look(t, "toggle", "toggleMark")

\* With nothing on air a mark is there only if requests overlapped.
ToggleMark(t) ==
  /\ At(t, "toggleMark")
  /\ IF safeCut # NoMark THEN BecomeCut(t) ELSE Look(t, "toggleMark", "toggleIngest")

\* ms already holds the default delay, for when nothing is armed.
ToggleIngest(t) ==
  Look(t, "toggleIngest",
       IF ~ingestAlive THEN "idle" ELSE IF armed > 0 THEN "toggleArmed" ELSE "arm")

ToggleArmed(t) == Take(t, "toggleArmed", "arm", armed)

ArmKey(t) == Look(t, "armKey", IF target > 0 THEN "idle" ELSE "armKeyArmed")

ArmKeyArmed(t) ==
  \/ armed > 0 /\ Take(t, "armKeyArmed", "arm", 0)
  \/ armed = 0 /\ Look(t, "armKeyArmed", IF ingestAlive THEN "arm" ELSE "idle")

Keys(t) == Toggle(t) \/ ToggleMark(t) \/ ToggleIngest(t) \/ ToggleArmed(t)
           \/ ArmKey(t) \/ ArmKeyArmed(t)
-----------------------------------------------------------------------------
(* The runtime thread's own work: the supervisor's auto-activation, and the *)
(* ingest.  A capacity check that refuses a delay is a request not made.    *)

Ready == armed > 0 /\ target = 0 /\ BufferHolds(armed)

\* The supervisor's tick with "Activate when ready" on, and with it off.  A cut
\* crosses it that has taken the delay off the air and not yet the arm's slot,
\* or that takes it off before the tick is done.
Tick(request) ==
  /\ pending /\ Ready
  /\ Enter(Runtime, request, "activate", 0)
  /\ crossed' = \E t \in Threads : At(t, "offPending")
  /\ UNCHANGED <<asked, promised, overtaken>>

AutoActivate     == Tick("auto")
AutoActivateOnce == once /\ Tick("autoOnce")

\* Auto-arm on connect takes the same path as the dashboard's arm.
BeginRuntime ==
  \/ \E d \in Delays : /\ ingestAlive
                       /\ \E request \in {"arm", "delay"} : Begin(Runtime, request, "arm", d)
  \/ \E request \in {"arm", "delay"} : Begin(Runtime, request, "arm", 0)
  \/ Begin(Runtime, "activate", "activate", 0)
  \/ Begin(Runtime, "cut", "off", 0)
  \/ Begin(Runtime, "mark", "schedule", 0)
  \/ Begin(Runtime, "mark", "unschedule", 0)
  \/ Begin(Runtime, "fire", "fire", 0)
  \/ session < MaxSessions /\ Begin(Runtime, "publish", "publish", 0)

BeginControl(t) ==
  \/ \E d \in Delays : \/ Begin(t, "toggle", "toggle", d)
                       \/ Begin(t, "arm", "armKey", d)
                       \/ Begin(t, "arm", "arm", d)        \* set_delay_to
  \/ Begin(t, "arm", "arm", 0)                             \* disarm
  \/ Begin(t, "activate", "activate", 0)
  \/ Begin(t, "cut", "off", 0)
  \/ Begin(t, "mark", "cutAfterKey", 0)

\* begin_publish, once the slot is free or its frozen publisher is shut out:
\* the ring starts afresh, and neither an arm still waiting nor a mark on the
\* old timeline is carried into the new session.
PublishRing ==
  /\ Go(Runtime, "publish", "publishPending")
  /\ ingestAlive' = FALSE
  /\ session' = session + 1 /\ tags' = 0
  /\ UNCHANGED <<control, history>>

PublishPending ==
  /\ Go(Runtime, "publishPending", "publishMark")
  /\ pending' = FALSE
  /\ asked' = (asked /\ target > 0) /\ overtaken' = (overtaken /\ target > 0)
  /\ promised' = FALSE
  /\ UNCHANGED <<armed, target, once, safeCut, world, crossed>>

\* (Mutant: the mark on the old timeline is carried over.)
MarkCarriedOver ==
  /\ Go(Runtime, "publishMark", "publishAlive")
  /\ UNCHANGED <<control, world, history>>

PublishMark ==
  /\ Go(Runtime, "publishMark", "publishAlive")
  /\ safeCut' = NoMark
  /\ UNCHANGED <<armed, target, pending, once, world, history>>

PublishAlive ==
  /\ Go(Runtime, "publishAlive", "idle")
  /\ ingestAlive' = TRUE
  /\ UNCHANGED <<control, session, tags, history>>

Publish == PublishRing \/ PublishPending \/ PublishMark \/ PublishAlive

Turn == thread[Runtime] = Idle /\ (Overlap \/ Quiet)

Drop == /\ Turn
        /\ ingestAlive /\ ingestAlive' = FALSE
        /\ UNCHANGED <<control, session, tags, thread, history>>

\* A tag comes in.  The trim keeps what the armed delay needs, and what a
\* destination has yet to send.
Tag == /\ Turn
       /\ ingestAlive
       /\ tags' \in Min2(tags + 1, Min2(KeptTags, Cap)) .. Min2(tags + 1, Cap)
       /\ UNCHANGED <<control, ingestAlive, session, thread, history>>

Step(t) == Arm(t) \/ Off(t) \/ Activate(t) \/ CutAfter(t) \/ Keys(t)

Next == \/ \E t \in Threads : Step(t)
        \/ \E t \in Controls : BeginControl(t)
        \/ AutoActivate \/ AutoActivateOnce \/ BeginRuntime
        \/ Publish \/ Drop \/ Tag

Spec == Init /\ [][Next]_vars

\* A thread inside a request goes on; the supervisor ticks every 2 s and a
\* connected publisher sends, however busy the other requests keep them.
Fairness == /\ \A t \in Threads : WF_vars(Step(t))
            /\ WF_vars(Publish)
            /\ SF_vars(AutoActivateOnce)
            /\ SF_vars(Tag)

FairSpec == Spec /\ Fairness
-----------------------------------------------------------------------------
Labels == {"idle", "arm", "armSwap", "retarget", "armFresh", "armPlain",
           "off", "offPending", "offOnce", "offMark",
           "activate", "activateIngest", "activateHolds", "goOn", "consume", "promise",
           "schedule", "scheduleRead", "scheduleSet", "unschedule", "cutAfterKey",
           "fire", "fireAired", "fireTake",
           "toggle", "toggleMark", "toggleIngest", "toggleArmed", "armKey", "armKeyArmed",
           "publish", "publishPending", "publishMark", "publishAlive"}

DelayOrNone == Delays \union {0}
Sessions    == 0 .. MaxSessions
ThreadSet   == [at : Labels, op : Requests, ms : DelayOrNone, was : DelayOrNone \union Sessions]

\* The type invariant.
TypeOK ==
  /\ armed \in DelayOrNone /\ target \in DelayOrNone
  /\ pending \in BOOLEAN /\ once \in BOOLEAN
  /\ safeCut \in Sessions
  /\ ingestAlive \in BOOLEAN /\ session \in Sessions /\ tags \in 0 .. Cap
  /\ thread \in [Threads -> ThreadSet]
  /\ asked \in BOOLEAN /\ promised \in BOOLEAN
  /\ crossed \in BOOLEAN /\ overtaken \in BOOLEAN

\* Cut sticks, however requests interleave: once a cut, a disarm or a firing
\* safe cut has taken the delay off the air, no delay is on air until the
\* streamer asks for one again, nor does a new publisher bring one back; but for
\* a tick of the supervisor that the cut crossed.
CutSticksUnlessOvertaken == target > 0 => asked \/ overtaken

\* Between requests the delay on air is the armed one or none: the buffer is
\* sized for the armed delay, and a disarm leaves nothing on air.
ActiveDelayIsTheArmedOne == Quiet => target \in {0, armed}

\* Between requests a safe cut is scheduled only while a delay is on air, by
\* the timestamps of the session on air: never a mark that fires on some later
\* activation, or that the new session reaches hours later.
MarkBelongsToTheDelayOnAir ==
  Quiet /\ safeCut # NoMark => target > 0 /\ safeCut = session

\* With "Activate when ready" off, the supervisor switches on only a delay
\* whose caller said it would start as soon as it is ready: a plain arm waits.
PlainArmWaits ==
  [][\A t \in Threads : thread[t].op = "autoOnce" /\ GoOn(t) => promised]_vars

\* A delay said to start as soon as it is ready does, if the publisher stays
\* and nothing else is asked meanwhile.
PromiseKept == promised ~> (target > 0 \/ ~promised \/ ~ingestAlive)
=============================================================================
