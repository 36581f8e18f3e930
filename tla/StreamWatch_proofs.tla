--------------------------- MODULE StreamWatch_proofs ---------------------------
(***************************************************************************)
(* Proofs about StreamWatch, for any connections, destinations, settings    *)
(* and bounds and a queue of any length: its sessions are IngestSession's;  *)
(* a stream is on while OBS sends; and OBS coming back into a hold starts   *)
(* no second one.                                                          *)
(***************************************************************************)
EXTENDS StreamWatch, IngestSession_proofs

-----------------------------------------------------------------------------
(* The controller is IngestSession's.                                       *)

\* What the controller does, the queue and the engine apart, is a step of
\* IngestSession, and what the engine does is none.
LEMMA StepsAreIngests == [WatchNext]_allVars => [Next]_vars
<1>1. SUFFICES ASSUME [WatchNext]_allVars PROVE [Next]_vars
  OBVIOUS
<1>2. CASE \E c \in Conns : PublishEmits(c) \/ VideoEmits(c) \/ DropEmits(c)
  BY <1>2 DEF PublishEmits, VideoEmits, DropEmits, Next, Ingest
<1>3. CASE ExpireEmits \/ CheckFreezeEmits \/ EndHoldEmits \/ \E p \in Protections : ConfigureEmits(p)
  BY <1>3 DEF ExpireEmits, CheckFreezeEmits, EndHoldEmits, ConfigureEmits, Next, Supervise
<1>4. CASE Silent
  BY <1>4 DEF Silent, Next, Ingest
<1>5. CASE Engine
  BY <1>5 DEF Engine, Follow, EndsAfterGrace
<1>6. CASE UNCHANGED allVars
  BY <1>6 DEF allVars
<1>7. QED
  BY <1>1, <1>2, <1>3, <1>4, <1>5, <1>6 DEF WatchNext, Controller

\* StreamWatch adds a queue and an engine to IngestSession and takes nothing from
\* it: what IngestSession promises of the slot, the holds and the sessions holds here.
THEOREM WatchesIngestSession == WatchSpec => Spec
<1>1. WatchInit => Init
  BY DEF WatchInit
<1>2. QED
  BY <1>1, StepsAreIngests, PTL DEF WatchSpec, Spec
-----------------------------------------------------------------------------
(* The invariant.  Is a stream on, with no end to it under way, once the     *)
(* engine has followed some of the queue?                                   *)

EventSet == [kind : {"connected"}, resumed : BOOLEAN]
            \union [kind : {"disconnected"}, stopped : BOOLEAN, protected : BOOLEAN]
            \union [kind : {"hold", "back", "expired", "ended"}]

\* Events of a stream that is on, and those after which one is.
NeedsOn(e)  == \/ e.kind \in {"hold", "back", "disconnected"}
               \/ e.kind = "connected" /\ e.resumed
LeavesOn(e) == \/ e.kind \in {"connected", "hold", "back"}
               \/ e.kind = "disconnected" /\ e.protected

\* Is one on before the i-th event of the queue, and after the last?
OnBefore(i) == IF i = 1 THEN watch = Streaming ELSE LeavesOn(queue[i - 1])
EndsOn      == OnBefore(Len(queue) + 1)

WatchTyped == /\ queue \in Seq(EventSet)
              /\ watch \in [on : BOOLEAN, dropped : BOOLEAN]
              /\ astray \in BOOLEAN

\* The pumps see a hold open while it is one: no control thread ends holds here.
HoldIsOpen == Held => hold.open

\* Unless astray, every event finds the stream it is about, and a stream is on
\* at the end of the queue while OBS is connected or held.
InStep ==
  /\ watch.dropped => watch.on
  /\ \A i \in 1 .. Len(queue) : NeedsOn(queue[i]) => OnBefore(i)
  /\ ingestAlive \/ HoldActive => EndsOn

WatchInv == WatchTyped /\ HoldIsOpen /\ (astray \/ InStep)
-----------------------------------------------------------------------------
(* The queue.                                                               *)

LEMMA EventsTyped ==
  /\ \A a, b \in BOOLEAN : Came(a) \in EventSet /\ Went(a, b) \in EventSet
  /\ {HoldOpened, ObsBack, HoldExpired, HoldEnded} \subseteq EventSet
  /\ <<>> \in Seq(EventSet)
BY DEF Came, Went, HoldOpened, ObsBack, HoldExpired, HoldEnded, EventSet

\* What is emitted keeps the queue one, and no event is lost unless astray.
LEMMA Emitted ==
  ASSUME WatchTyped, NEW events \in Seq(EventSet), Emits(events),
         ingestAlive \in BOOLEAN, ingestAlive' \in BOOLEAN
  PROVE  /\ WatchTyped'
         /\ ~astray' => /\ ~astray /\ queue' = queue \o events
                        /\ ~(Ends(events) /\ ingestAlive /\ ingestAlive')
<1>1. queue \o events \in Seq(EventSet) /\ QueueCap \in Nat
  BY QueueCapAssumption DEF WatchTyped
<1>2. PICK n \in Nat : n = Least(Len(queue \o events), QueueCap) /\ n <= Len(queue \o events)
  BY <1>1 DEF Least
<1>3. queue' = SubSeq(queue \o events, 1, n)
  BY <1>2 DEF Emits, Fits
<1>4. queue' \in Seq(EventSet)
  BY <1>1, <1>2, <1>3
<1>5. Len(queue \o events) <= QueueCap => queue' = queue \o events
  <2>1. SUFFICES ASSUME Len(queue \o events) <= QueueCap PROVE queue' = queue \o events
    OBVIOUS
  <2>2. n = Len(queue \o events)
    BY <1>1, <1>2, <2>1 DEF Least
  <2>3. QED
    BY <1>1, <1>3, <2>2
<1>6. QED
  BY <1>1, <1>4, <1>5 DEF Emits, WatchTyped, Ends

\* Events that each find the stream they are about keep the queue in step.
LEMMA Appended ==
  ASSUME WatchTyped, InStep, NEW events \in Seq(EventSet), queue' = queue \o events,
         UNCHANGED watch,
         \A i \in 1 .. Len(events) :
           NeedsOn(events[i]) => IF i = 1 THEN EndsOn ELSE LeavesOn(events[i - 1]),
         (ingestAlive \/ HoldActive)' =>
           IF events = <<>> THEN EndsOn ELSE LeavesOn(events[Len(events)])
  PROVE  InStep'
<1>1. PICK n \in Nat, m \in Nat : n = Len(queue) /\ m = Len(events) /\ queue \in Seq(EventSet)
  BY DEF WatchTyped
<1>2. /\ Len(queue') = n + m
      /\ \A i \in 1 .. n : queue'[i] = queue[i]
      /\ \A i \in 1 .. m : queue'[n + i] = events[i]
  BY <1>1
<1>3. \A i \in 1 .. n + 1 : OnBefore(i)' = OnBefore(i)
  BY <1>1, <1>2 DEF OnBefore
<1>4. ASSUME NEW i \in 2 .. m + 1 PROVE OnBefore(n + i)' = LeavesOn(events[i - 1])
  <2>1. n + i # 1 /\ (n + i) - 1 = n + (i - 1) /\ i - 1 \in 1 .. m
    BY <1>1
  <2>2. QED
    BY <1>2, <2>1 DEF OnBefore, LeavesOn
<1>5. OnBefore(n + 1) = EndsOn /\ OnBefore(n + m + 1)' = EndsOn'
  BY <1>1, <1>2 DEF EndsOn, OnBefore
<1>6. ASSUME NEW i \in 1 .. m PROVE NeedsOn(events[i]) => OnBefore(n + i)'
  <2>1. CASE i = 1
    BY <1>1, <1>3, <1>5, <2>1
  <2>2. CASE i # 1
    <3>1. i \in 2 .. m + 1
      BY <1>1, <2>2
    <3>2. QED
      BY <1>1, <1>4, <2>2, <3>1
  <2>3. QED
    BY <2>1, <2>2
<1>7. ASSUME NEW k \in 1 .. n + m PROVE NeedsOn(queue'[k]) => OnBefore(k)'
  <2>1. CASE k <= n
    BY <1>1, <1>2, <1>3, <2>1 DEF InStep
  <2>2. CASE k > n
    <3>1. PICK i \in 1 .. m : k = n + i
      <4>1. k - n \in 1 .. m /\ k = n + (k - n)
        BY <1>1, <2>2
      <4>2. QED
        BY <4>1
    <3>2. QED
      BY <1>2, <1>6, <3>1
  <2>3. QED
    BY <1>1, <2>1, <2>2
<1>8. (ingestAlive \/ HoldActive)' => EndsOn'
  <2>1. CASE m = 0
    <3>1. events = <<>>
      <4>1. events \in Seq(EventSet) /\ Len(events) = 0
        BY <1>1, <2>1
      <4>2. QED
        BY <4>1
    <3>2. EndsOn' = EndsOn
      <4>1. n + m + 1 = n + 1 /\ n + 1 \in 1 .. n + 1
        BY <1>1, <2>1
      <4>2. QED
        BY <1>3, <1>5, <4>1
    <3>3. QED
      BY <3>1, <3>2
  <2>2. CASE m # 0
    <3>1. m + 1 \in 2 .. m + 1 /\ events # <<>>
      BY <1>1, <2>2
    <3>2. OnBefore(n + (m + 1))' = LeavesOn(events[m])
      BY <1>1, <1>4, <3>1
    <3>3. n + (m + 1) = n + m + 1
      BY <1>1
    <3>4. QED
      BY <1>1, <1>5, <3>1, <3>2, <3>3
  <2>3. QED
    BY <2>1, <2>2
<1>9. (\A k \in 1 .. Len(queue) : NeedsOn(queue[k]) => OnBefore(k))'
  BY <1>2, <1>7 DEF NeedsOn
<1>10. QED
  BY <1>8, <1>9 DEF InStep
-----------------------------------------------------------------------------
(* The steps.                                                               *)

\* One event, or two, that find the stream they are about.
LEMMA OneEvent ==
  ASSUME WatchTyped, InStep, NEW e \in EventSet, queue' = queue \o <<e>>, UNCHANGED watch,
         NeedsOn(e) => EndsOn, (ingestAlive \/ HoldActive)' => LeavesOn(e)
  PROVE  InStep'
<1>1. PICK events : events = <<e>>
  OBVIOUS
<1>2. /\ events \in Seq(EventSet) /\ Len(events) = 1 /\ events[1] = e /\ events # <<>>
  BY <1>1
<1>3. \A i \in 1 .. Len(events) :
        NeedsOn(events[i]) => IF i = 1 THEN EndsOn ELSE LeavesOn(events[i - 1])
  BY <1>2
<1>4. QED
  BY <1>1, <1>2, <1>3, Appended

LEMMA TwoEvents ==
  ASSUME WatchTyped, InStep, NEW e \in EventSet, NEW f \in EventSet,
         queue' = queue \o (<<e>> \o <<f>>), UNCHANGED watch,
         NeedsOn(e) => EndsOn, NeedsOn(f) => LeavesOn(e),
         (ingestAlive \/ HoldActive)' => LeavesOn(f)
  PROVE  InStep'
<1> DEFINE events == <<e>> \o <<f>>
<1>1. /\ events \in Seq(EventSet) /\ Len(events) = 2 /\ events[1] = e /\ events[2] = f
      /\ events # <<>>
  OBVIOUS
<1> HIDE DEF events
<1>2. \A i \in 1 .. Len(events) :
        NeedsOn(events[i]) => IF i = 1 THEN EndsOn ELSE LeavesOn(events[i - 1])
  BY <1>1
<1>3. QED
  BY <1>1, <1>2, Appended DEF events

\* What resume_from_hold emits: nothing, one event, and which.
LEMMA Resumes ==
  /\ ~Held => ResumeEvents = None
  /\ Held /\ hold.over => ResumeEvents = <<HoldExpired>>
  /\ Held /\ ~hold.over => ResumeEvents = <<ObsBack>>
BY DEF ResumeEvents, Lapsed

\* A hold that is closed is none.
LEMMA ClosedIsNone ==
  ASSUME NEW h \in HoldSet, NEW end, NEW b
  PROVE  /\ ClosedAs(h, end).why = "none"
         /\ [ClosedAs(h, end) EXCEPT !.tail = b].why = "none"
BY DEF ClosedAs, HoldSet

LEMMA ResumedIsNone ==
  ASSUME hold \in HoldSet
  PROVE  Resumed.why = "none"
<1>1. PICK h \in HoldSet : h = (IF Lapsed THEN ClosedAs(hold, "ended") ELSE hold)
  BY HoldsStayHolds
<1>2. QED
  BY <1>1, ClosedIsNone DEF Resumed

\* What the controller's steps have in common: they emit, and the rest follows if
\* the events keep the queue in step whenever none is lost.
LEMMA Emitting ==
  ASSUME WatchInv, ingestAlive \in BOOLEAN, ingestAlive' \in BOOLEAN, HoldIsOpen',
         NEW events \in Seq(EventSet), Emits(events),
         /\ InStep /\ queue' = queue \o events
         /\ ~(Ends(events) /\ ingestAlive /\ ingestAlive')
         => InStep'
  PROVE  WatchInv'
BY Emitted DEF WatchInv

LEMMA EmittingNone ==
  ASSUME WatchInv, ingestAlive \in BOOLEAN, ingestAlive' \in BOOLEAN, HoldIsOpen',
         Emits(None), (ingestAlive \/ HoldActive)' => ingestAlive \/ HoldActive
  PROVE  WatchInv'
<1>1. None \in Seq(EventSet) /\ Len(None) = 0 /\ None = <<>>
  BY EventsTyped DEF None
<1>2. ASSUME InStep, queue' = queue \o None PROVE InStep'
  <2>1. UNCHANGED watch
    BY DEF Emits
  <2>2. \A i \in 1 .. Len(None) : FALSE
    BY <1>1
  <2>3. (ingestAlive \/ HoldActive)' => EndsOn
    BY <1>2 DEF InStep
  <2>4. QED
    BY <1>1, <1>2, <2>1, <2>2, <2>3, Appended DEF WatchInv
<1>3. QED
  BY <1>1, <1>2, Emitting

LEMMA EmittingOne ==
  ASSUME WatchInv, ingestAlive \in BOOLEAN, ingestAlive' \in BOOLEAN, HoldIsOpen',
         NEW e \in EventSet, Emits(<<e>>),
         InStep /\ NeedsOn(e) => EndsOn,
         /\ (ingestAlive \/ HoldActive)'
         /\ ~(e.kind \in {"expired", "ended"} /\ ingestAlive /\ ingestAlive')
         => LeavesOn(e)
  PROVE  WatchInv'
<1>1. <<e>> \in Seq(EventSet) /\ UNCHANGED watch
  BY DEF Emits
<1>2. e.kind \in {"expired", "ended"} => Ends(<<e>>)
  BY DEF Ends
<1>3. QED
  BY <1>1, <1>2, Emitting, OneEvent DEF WatchInv

LEMMA EmittingTwo ==
  ASSUME WatchInv, ingestAlive \in BOOLEAN, ingestAlive' \in BOOLEAN, HoldIsOpen',
         NEW e \in EventSet, NEW f \in EventSet, Emits(<<e>> \o <<f>>),
         InStep /\ NeedsOn(e) => EndsOn, NeedsOn(f) => LeavesOn(e),
         (ingestAlive \/ HoldActive)' => LeavesOn(f)
  PROVE  WatchInv'
<1>1. <<e>> \o <<f>> \in Seq(EventSet) /\ UNCHANGED watch
  BY DEF Emits
<1>2. QED
  BY <1>1, Emitting, TwoEvents DEF WatchInv

\* begin_publish: a takeover, a new stream, or OBS back into a hold.
LEMMA PublishInStep ==
  ASSUME IInv, IInv', WatchInv, NEW c \in Conns, PublishEmits(c)
  PROVE  WatchInv'
<1>1. hold \in HoldSet /\ ingestAlive \in BOOLEAN /\ ingestAlive' \in BOOLEAN /\ HoldIsOpen
  BY DEF IInv, TypeOK, WatchInv
<1>2. HoldIsOpen'
  BY <1>1, ResumedIsNone DEF PublishEmits, Publish, HoldIsOpen, Held
<1>3. \A b \in BOOLEAN : /\ Came(b) \in EventSet /\ LeavesOn(Came(b)) /\ ~NeedsOn(Came(FALSE))
  BY EventsTyped DEF LeavesOn, NeedsOn, Came
<1>4. Emits(ResumeEvents \o <<Came(HoldActive)>>)
  BY DEF PublishEmits
<1>5. CASE ~Held
  <2>1. ResumeEvents \o <<Came(HoldActive)>> = <<Came(FALSE)>>
    <3>1. HoldActive = FALSE /\ ResumeEvents = <<>>
      BY <1>5, Resumes DEF None, HoldActive, OnAir, Held
    <3>2. Came(FALSE) \in EventSet
      BY <1>3
    <3>3. <<>> \o <<Came(FALSE)>> = <<Came(FALSE)>>
      BY <3>2
    <3>4. QED
      BY <3>1, <3>3
  <2>2. QED
    BY <1>1, <1>2, <1>3, <1>4, <2>1, EmittingOne
<1>6. CASE Held /\ hold.over
  <2>1. ResumeEvents \o <<Came(HoldActive)>> = <<HoldExpired>> \o <<Came(FALSE)>>
    BY <1>6, Resumes DEF HoldActive, OnAir
  <2>2. ~NeedsOn(HoldExpired)
    BY DEF NeedsOn, HoldExpired
  <2>3. QED
    BY <1>1, <1>2, <1>3, <1>4, <2>1, <2>2, EmittingTwo, EventsTyped
<1>7. CASE Held /\ ~hold.over
  <2>1. HoldActive
    BY <1>1, <1>7 DEF HoldIsOpen, HoldActive, OnAir, Held
  <2>2. ResumeEvents \o <<Came(HoldActive)>> = <<ObsBack>> \o <<Came(TRUE)>>
    BY <1>7, <2>1, Resumes
  <2>3. LeavesOn(ObsBack) /\ (InStep => EndsOn)
    BY <2>1 DEF LeavesOn, ObsBack, InStep
  <2>4. QED
    BY <1>1, <1>2, <1>3, <1>4, <2>2, <2>3, EmittingTwo, EventsTyped
<1>8. QED
  BY <1>5, <1>6, <1>7

\* on_tag: a frozen OBS is back, which is connected all the while.
LEMMA VideoInStep ==
  ASSUME IInv, IInv', WatchInv, NEW c \in Conns, VideoEmits(c)
  PROVE  WatchInv'
<1>1. /\ hold \in HoldSet /\ ingestAlive \in BOOLEAN /\ ingestAlive' \in BOOLEAN /\ HoldIsOpen
      /\ SlotHasItsPublisher
  BY DEF IInv, SlotInv, TypeOK, WatchInv
<1>2. ingestAlive /\ ingestAlive'
  BY <1>1 DEF VideoEmits, Video, SlotHasItsPublisher, slot
<1>3. CASE ~frozen
  <2>1. Emits(None) /\ hold' = hold
    BY <1>3 DEF VideoEmits, Video
  <2>2. HoldIsOpen'
    BY <1>1, <2>1 DEF HoldIsOpen, Held
  <2>3. QED
    BY <1>1, <1>2, <2>1, <2>2, EmittingNone
<1>4. CASE frozen
  <2>1. Emits(ResumeEvents) /\ HoldIsOpen'
    BY <1>1, <1>4, ResumedIsNone DEF VideoEmits, Video, HoldIsOpen, Held
  <2>2. CASE ~Held
    BY <1>1, <1>2, <2>1, <2>2, EmittingNone, Resumes
  <2>3. CASE Held /\ hold.over
    <3>1. HoldExpired.kind = "expired" /\ ~NeedsOn(HoldExpired)
      BY DEF HoldExpired, NeedsOn
    <3>2. QED
      BY <1>1, <1>2, <2>1, <2>3, <3>1, EmittingOne, Resumes, EventsTyped
  <2>4. CASE Held /\ ~hold.over
    <3>1. LeavesOn(ObsBack) /\ (InStep => EndsOn)
      BY <1>2 DEF LeavesOn, ObsBack, InStep
    <3>2. QED
      BY <1>1, <2>1, <2>4, <3>1, EmittingOne, Resumes, EventsTyped
  <2>5. QED
    BY <2>2, <2>3, <2>4
<1>5. QED
  BY <1>3, <1>4

\* mark_ingest_dead: the drop says whether a hold keeps the stream on.
LEMMA DropInStep ==
  ASSUME IInv, IInv', WatchInv, NEW c \in Conns, DropEmits(c)
  PROVE  WatchInv'
<1>1. /\ hold \in HoldSet /\ ingestAlive \in BOOLEAN /\ ingestAlive' \in BOOLEAN /\ HoldIsOpen
      /\ SlotHasItsPublisher /\ unpublished \in BOOLEAN
  BY DEF IInv, SlotInv, TypeOK, WatchInv
<1>2. /\ ingestAlive /\ ~ingestAlive'
      /\ hold' = HoldAtDeath \/ hold' = [HoldAtDeath EXCEPT !.tail = TRUE]
  BY <1>1 DEF DropEmits, DropCurrent, SlotHasItsPublisher
<1>3. HoldAtDeath \in HoldSet
  BY <1>1, HoldAtDeathIsAHold
<1>4. HoldAtDeath.why # "none" => HoldAtDeath.open
  BY <1>1, ClosedIsNone DEF HoldAtDeath, HoldIsOpen, Held, Started, HoldSet
<1>5. /\ HoldIsOpen' /\ (HoldActive' => OnAir(HoldAtDeath))
      /\ OnAir(HoldAtDeath) \in BOOLEAN
  BY <1>2, <1>3, <1>4 DEF HoldIsOpen, Held, HoldActive, OnAir, HoldSet
<1> DEFINE went == Went(unpublished, OnAir(HoldAtDeath))
<1>6. went \in EventSet /\ NeedsOn(went) /\ (LeavesOn(went) <=> OnAir(HoldAtDeath))
  BY <1>1, <1>5, EventsTyped DEF NeedsOn, LeavesOn, Went
<1>7. InStep => EndsOn
  BY <1>2 DEF InStep
<1>8. CASE ~Held /\ HoldAtDeath.why # "none"
  <2>1. Emits(<<HoldOpened>> \o <<went>>)
    BY <1>8 DEF DropEmits
  <2>2. HoldOpened \in EventSet /\ LeavesOn(HoldOpened)
    BY EventsTyped DEF HoldOpened, LeavesOn
  <2> HIDE DEF went
  <2>3. QED
    BY <1>1, <1>2, <1>5, <1>6, <1>7, <2>1, <2>2, EmittingTwo
<1>9. CASE ~(~Held /\ HoldAtDeath.why # "none")
  <2>1. Emits(<<>> \o <<went>>)
    BY <1>9 DEF DropEmits, None
  <2> HIDE DEF went
  <2>2. Emits(<<went>>)
    BY <2>1
  <2>3. QED
    BY <1>1, <1>2, <1>5, <1>6, <1>7, <2>2, EmittingOne
<1>10. QED
  BY <1>8, <1>9

\* The supervisor and the dashboard end holds: while OBS is connected that leaves the
\* engine astray.
LEMMA SuperviseInStep ==
  ASSUME IInv, IInv', WatchInv,
         \/ ExpireEmits \/ CheckFreezeEmits \/ EndHoldEmits
         \/ \E p \in Protections : ConfigureEmits(p)
  PROVE  WatchInv'
<1>1. hold \in HoldSet /\ ingestAlive \in BOOLEAN /\ ingestAlive' \in BOOLEAN /\ HoldIsOpen
  BY DEF IInv, TypeOK, WatchInv
<1>2. /\ {HoldOpened, HoldExpired, HoldEnded} \subseteq EventSet
      /\ LeavesOn(HoldOpened) /\ ~NeedsOn(HoldExpired) /\ ~NeedsOn(HoldEnded)
      /\ HoldExpired.kind = "expired" /\ HoldEnded.kind = "ended"
  BY EventsTyped DEF HoldOpened, HoldExpired, HoldEnded, LeavesOn, NeedsOn
<1>3. ASSUME NEW e \in {HoldExpired, HoldEnded}, Emits(<<e>>), hold'.why = "none",
             ingestAlive' = ingestAlive
      PROVE  WatchInv'
  <2>1. HoldIsOpen' /\ ~HoldActive'
    BY <1>3 DEF HoldIsOpen, Held, HoldActive, OnAir
  <2>2. QED
    BY <1>1, <1>2, <1>3, <2>1, EmittingOne
<1>4. CASE ExpireEmits
  BY <1>1, <1>3, <1>4, ClosedIsNone DEF ExpireEmits, Expire, slot
<1>5. CASE EndHoldEmits
  BY <1>1, <1>3, <1>5, ClosedIsNone DEF EndHoldEmits, EndHoldNow, slot
<1>6. CASE CheckFreezeEmits
  <2>1. ingestAlive /\ Emits(<<HoldOpened>>) /\ hold' = Started("freeze")
    BY <1>6 DEF CheckFreezeEmits, CheckFreeze
  <2>2. HoldIsOpen'
    BY <1>1, <2>1 DEF HoldIsOpen, Held, Started, HoldSet
  <2>3. InStep => EndsOn
    BY <2>1 DEF InStep
  <2>4. QED
    BY <1>1, <1>2, <2>1, <2>2, <2>3, EmittingOne
<1>7. ASSUME NEW p \in Protections, ConfigureEmits(p) PROVE WatchInv'
  <2>1. UNCHANGED ingestAlive
    BY <1>7 DEF ConfigureEmits, Configure, slot
  <2>2. CASE frozen /\ ~p.enabled /\ Held
    BY <1>1, <1>3, <1>7, <2>1, <2>2, ClosedIsNone DEF ConfigureEmits, Configure
  <2>3. CASE ~(frozen /\ ~p.enabled /\ Held)
    <3>1. Emits(None) /\ (hold' = hold \/ hold' = [hold EXCEPT !.tail = FALSE])
      BY <1>7, <2>3 DEF ConfigureEmits, Configure
    <3>2. hold'.why = hold.why /\ hold'.over = hold.over /\ hold'.open = hold.open
      BY <1>1, <3>1 DEF HoldSet
    <3>3. HoldIsOpen' /\ (HoldActive' <=> HoldActive)
      BY <1>1, <3>2 DEF HoldIsOpen, Held, HoldActive, OnAir
    <3>4. QED
      BY <1>1, <2>1, <3>1, <3>3, EmittingNone
  <2>4. QED
    BY <2>2, <2>3
<1>8. QED
  BY <1>4, <1>5, <1>6, <1>7

\* The steps that emit nothing connect no OBS and open no hold.
LEMMA SilentInStep ==
  ASSUME IInv, IInv', WatchInv, Silent
  PROVE  WatchInv'
<1>1. hold \in HoldSet /\ ingestAlive \in BOOLEAN /\ ingestAlive' \in BOOLEAN /\ HoldIsOpen
  BY DEF IInv, TypeOK, WatchInv
<1>2. UNCHANGED ingestAlive
  <2>1. CASE \E c \in Conns : Connect(c) \/ RejectPublish(c) \/ Goodbye(c) \/ DropOther(c)
    BY <2>1 DEF Connect, RejectPublish, Goodbye, DropOther
  <2>2. CASE Time \/ EndTail \/ \E d \in Dests : Pump(d)
    BY <2>2 DEF Time, DeadlinePasses, VideoStops, EndTail, Pump, Dial, Connected, GoDown, Egress, slot
  <2>3. QED
    BY <2>1, <2>2 DEF Silent
<1>3. /\ hold'.why = hold.why /\ hold'.open = hold.open /\ (hold'.over = hold.over \/ hold'.over)
  <2>1. CASE \E c \in Conns : Connect(c) \/ RejectPublish(c) \/ Goodbye(c) \/ DropOther(c)
    BY <2>1 DEF Connect, RejectPublish, Goodbye, DropOther
  <2>2. CASE VideoStops \/ \E d \in Dests : Pump(d)
    BY <2>2 DEF VideoStops, Pump, Dial, Connected, GoDown, Egress
  <2>3. CASE DeadlinePasses \/ EndTail
    BY <1>1, <2>3 DEF DeadlinePasses, EndTail, HoldSet
  <2>4. QED
    BY <2>1, <2>2, <2>3 DEF Silent, Time
<1>4. HoldIsOpen' /\ (HoldActive' => HoldActive)
  BY <1>1, <1>3 DEF HoldIsOpen, Held, HoldActive, OnAir
<1>5. QED
  BY <1>1, <1>2, <1>4, EmittingNone DEF Silent

\* The engine follows an event that finds its stream, and leaves the next its own.
LEMMA EngineInStep ==
  ASSUME IInv, WatchInv, Engine
  PROVE  WatchInv'
<1>1. /\ queue \in Seq(EventSet) /\ watch \in [on : BOOLEAN, dropped : BOOLEAN]
      /\ astray \in BOOLEAN /\ HoldIsOpen
  BY DEF WatchInv, WatchTyped
<1>2. UNCHANGED <<ingestAlive, hold>>
  BY DEF Engine, Follow, EndsAfterGrace, vars, slot
<1>3. HoldIsOpen' /\ (HoldActive' <=> HoldActive)
  BY <1>1, <1>2 DEF HoldIsOpen, Held, HoldActive, OnAir
<1>4. CASE EndsAfterGrace
  <2>1. watch.dropped /\ watch' = Between /\ UNCHANGED <<queue, astray>>
    BY <1>4 DEF EndsAfterGrace
  <2>2. WatchTyped'
    BY <1>1, <2>1 DEF WatchTyped, Between
  <2>3. watch # Streaming
    BY <2>1 DEF Streaming
  <2>4. ~astray => InStep'
    <3>1. SUFFICES ASSUME InStep PROVE InStep'
      BY DEF WatchInv
    <3>2. \A i \in 1 .. Len(queue) + 1 : OnBefore(i) => OnBefore(i)'
      BY <2>1, <2>3 DEF OnBefore
    <3>3. EndsOn => EndsOn'
      BY <2>1, <2>3 DEF EndsOn, OnBefore
    <3>4. (watch.dropped => watch.on)'
      BY <2>1 DEF Between
    <3>5. QED
      BY <1>1, <1>2, <1>3, <2>1, <3>1, <3>2, <3>3, <3>4 DEF InStep
  <2>5. QED
    BY <1>3, <2>1, <2>2, <2>4 DEF WatchInv
<1>5. CASE Follow
  <2>1. /\ queue # <<>> /\ watch' = Observed(watch, queue[1]) /\ queue' = Tail(queue)
        /\ astray' = (astray /\ ~(ingestAlive /\ watch' = Streaming /\ queue' = <<>>))
    BY <1>1, <1>5 DEF Follow
  <2>2. PICK e \in EventSet : e = queue[1]
    BY <1>1, <2>1
  <2>3. PICK n \in Nat : /\ Len(queue) = n + 1 /\ Len(queue') = n
                        /\ queue' \in Seq(EventSet)
                        /\ \A i \in 1 .. n : queue'[i] = queue[i + 1]
    <3>1. Len(queue) \in Nat \ {0}
      BY <1>1, <2>1
    <3>2. PICK n \in Nat : Len(queue) = n + 1
      BY <3>1
    <3>3. QED
      BY <1>1, <2>1, <3>2
  <2>4. watch' \in [on : BOOLEAN, dropped : BOOLEAN]
    BY <1>1, <2>1, <2>2 DEF Observed, CameBack, WentAway, Between, Streaming
  <2>5. WatchTyped'
    BY <1>1, <2>1, <2>3, <2>4 DEF WatchTyped
  <2>6. CASE ~astray
    <3>1. InStep
      BY <2>6 DEF WatchInv
    <3>2. NeedsOn(e) => watch = Streaming
      BY <2>2, <2>3, <3>1 DEF InStep, OnBefore
    <3>3. /\ LeavesOn(e) => watch' = Streaming
          /\ watch'.dropped => watch'.on
      <4>1. watch.dropped => watch.on
        BY <3>1 DEF InStep
      <4>2. CASE e.kind = "connected"
        <5>1. watch' = CameBack(watch, e)
          BY <2>1, <2>2, <4>2 DEF Observed
        <5>2. watch' = Streaming
          <6>1. CASE watch.on
            BY <5>1, <6>1 DEF CameBack
          <6>2. CASE ~watch.on
            <7>1. ~watch.dropped
              BY <4>1, <6>2
            <7>2. PICK w : w = [watch EXCEPT !.on = TRUE]
              OBVIOUS
            <7>3. w \in [on : BOOLEAN, dropped : BOOLEAN] /\ w.on = TRUE /\ w.dropped = FALSE
              BY <1>1, <7>1, <7>2
            <7>4. w = Streaming
              BY <7>3 DEF Streaming
            <7>5. QED
              BY <5>1, <6>2, <7>2, <7>4 DEF CameBack
          <6>3. QED
            BY <6>1, <6>2
        <5>3. QED
          BY <5>2 DEF Streaming
      <4>3. CASE e.kind = "disconnected"
        <5>1. watch = Streaming
          BY <3>2, <4>3 DEF NeedsOn
        <5>2. watch' = WentAway(watch, e)
          BY <2>1, <2>2, <4>3 DEF Observed
        <5>3. QED
          BY <4>3, <5>1, <5>2 DEF WentAway, LeavesOn, Streaming, Between
      <4>4. CASE e.kind \in {"expired", "ended"}
        <5>1. watch' = Between
          BY <2>1, <2>2, <4>4 DEF Observed
        <5>2. QED
          BY <4>4, <5>1 DEF LeavesOn, Between
      <4>5. CASE e.kind \in {"hold", "back"}
        <5>1. watch = Streaming /\ watch' = watch
          BY <2>1, <2>2, <3>2, <4>5 DEF Observed, NeedsOn
        <5>2. QED
          BY <5>1 DEF Streaming
      <4>6. QED
        BY <4>2, <4>3, <4>4, <4>5 DEF EventSet
    <3>4. ASSUME NEW i \in 1 .. n + 1 PROVE OnBefore(i + 1) => OnBefore(i)'
      <4>1. CASE i = 1
        BY <2>2, <3>3, <4>1 DEF OnBefore
      <4>2. CASE i # 1
        <5>1. queue'[i - 1] = queue[i]
          BY <2>3, <4>2
        <5>2. QED
          BY <4>2, <5>1 DEF OnBefore, LeavesOn
      <4>3. QED
        BY <4>1, <4>2
    <3>5. ASSUME NEW i \in 1 .. n PROVE NeedsOn(queue'[i]) => OnBefore(i)'
      BY <2>3, <3>1, <3>4 DEF InStep
    <3>6. EndsOn => EndsOn'
      <4>1. EndsOn = OnBefore(n + 2) /\ EndsOn' = OnBefore(n + 1)'
        BY <2>3 DEF EndsOn, OnBefore
      <4>2. n + 1 \in 1 .. n + 1 /\ (n + 1) + 1 = n + 2
        OBVIOUS
      <4>3. QED
        BY <3>4, <4>1, <4>2
    <3>7. (\A i \in 1 .. Len(queue) : NeedsOn(queue[i]) => OnBefore(i))'
      BY <2>3, <3>5 DEF NeedsOn
    <3>8. InStep'
      BY <1>2, <1>3, <3>1, <3>3, <3>6, <3>7 DEF InStep
    <3>9. QED
      BY <1>3, <2>5, <3>8 DEF WatchInv
  <2>7. CASE astray /\ ~astray'
    <3>1. watch' = Streaming /\ queue' = <<>>
      BY <2>1, <2>7
    <3>2. InStep'
      BY <3>1 DEF InStep, EndsOn, OnBefore, Streaming
    <3>3. QED
      BY <1>3, <2>5, <3>2 DEF WatchInv
  <2>8. QED
    BY <1>3, <2>5, <2>6, <2>7 DEF WatchInv
<1>6. QED
  BY <1>4, <1>5 DEF Engine

\* What the engine's idea of the stream is, in every behaviour.
THEOREM EngineInvariant == WatchSpec => []WatchInv
<1>1. WatchInit => WatchInv
  <2>1. SUFFICES ASSUME WatchInit PROVE WatchInv
    OBVIOUS
  <2>2. ~Held /\ ~HoldActive /\ ~ingestAlive
    BY <2>1 DEF WatchInit, Init, NoHold, Held, HoldActive, OnAir
  <2>3. WatchTyped /\ Len(queue) = 0 /\ ~watch.dropped
    BY <2>1, EventsTyped DEF WatchInit, WatchTyped, Between
  <2>4. QED
    BY <2>2, <2>3 DEF WatchInv, HoldIsOpen, InStep
<1>2. IInv /\ IInv' /\ WatchInv /\ [WatchNext]_allVars => WatchInv'
  <2>1. SUFFICES ASSUME IInv, IInv', WatchInv, [WatchNext]_allVars PROVE WatchInv'
    OBVIOUS
  <2>2. CASE WatchNext
    BY <2>1, <2>2, PublishInStep, VideoInStep, DropInStep, SuperviseInStep, SilentInStep,
       EngineInStep DEF WatchNext, Controller
  <2>3. CASE UNCHANGED allVars
    BY <2>1, <2>3 DEF allVars, vars, slot, WatchInv, WatchTyped, HoldIsOpen, Held, InStep, EndsOn,
       OnBefore, HoldActive, OnAir
  <2>4. QED
    BY <2>1, <2>2, <2>3
<1>3. QED
  BY <1>1, <1>2, WatchesIngestSession, InductiveInvariant, PTL DEF WatchSpec

\* While OBS is connected a stream is on and nothing is about to end it, as soon as the
\* engine has followed what happened; but where an event was lost or a hold ended while
\* OBS was connected, until the engine has caught up.
THEOREM SendingStreams == WatchSpec => []SendingIsAStreamUnlessAstray
<1>1. WatchInv => SendingIsAStreamUnlessAstray
  BY DEF WatchInv, InStep, EndsOn, OnBefore, SendingIsAStreamUnlessAstray, SendingIsAStream
<1>2. QED
  BY <1>1, EngineInvariant, PTL

\* OBS coming back into a hold continues its stream.
THEOREM ResumesContinue == WatchSpec => ResumeIsNoSecondStream
<1>1. WatchInv => (~astray /\ queue # <<>> /\ Head(queue).kind = "connected" /\ Head(queue).resumed
                     /\ Follow => watch.on)
  <2>1. SUFFICES ASSUME WatchInv, ~astray, queue # <<>>, Head(queue).kind = "connected",
                        Head(queue).resumed
                 PROVE  watch.on
    OBVIOUS
  <2>2. queue \in Seq(EventSet) /\ 1 \in 1 .. Len(queue) /\ Head(queue) = queue[1]
    BY <2>1 DEF WatchInv, WatchTyped
  <2>3. watch = Streaming
    BY <2>1, <2>2 DEF WatchInv, InStep, NeedsOn, OnBefore
  <2>4. QED
    BY <2>3 DEF Streaming
<1>2. QED
  BY <1>1, EngineInvariant, PTL DEF ResumeIsNoSecondStream
=============================================================================
