------------------------ MODULE EgressSupervisor_proofs ------------------------
(***************************************************************************)
(* Proofs about EgressSupervisor for every set of destinations, URLs and    *)
(* settings.                                                                *)
(***************************************************************************)
EXTENDS EgressSupervisor, TLAPS

ObsSet   == [alive : BOOLEAN, hold : BOOLEAN, tail : BOOLEAN, canvas : BOOLEAN]
PumpSet  == [pc : Places, url : AllUrls]
SlateSet == [ready : BOOLEAN, for : Dests \union {Nobody, "prebuild"}, task : BOOLEAN]

\* The type invariant with its record sets named.
LEMMA TypesNamed ==
  TypeOK <=> /\ want \in [Dests -> Urls \union {BadUrl, Off}]
             /\ obs \in ObsSet
             /\ dest \in [Dests -> DestSet]
             /\ pump \in [Dests -> PumpSet]
             /\ sup \in SupSet
             /\ sup.pc = "stopping" => sup.at \in Dests
             /\ running \in [Dests -> AllUrls]
             /\ gone \in [Vertical -> {"no", "counting", "over"}]
             /\ slate \in SlateSet
             /\ quit \in {"no", "closing", "gone"}
             /\ pressed \in [Dests -> BOOLEAN]
             /\ left \in 0 .. Events
BY DEF TypeOK, ObsSet, PumpSet, SlateSet

\* A record of a destination's state stays one when a field is set.
LEMMA DestFields ==
  ASSUME NEW s \in DestSet, NEW b \in BOOLEAN,
         NEW f \in {"none", "bad", "waiting", "retrying"}
  PROVE  /\ [s EXCEPT !.shutdown = b] \in DestSet
         /\ [s EXCEPT !.alive = b] \in DestSet
         /\ [s EXCEPT !.retry = b] \in DestSet
         /\ [s EXCEPT !.session = b] \in DestSet
         /\ [s EXCEPT !.failure = f] \in DestSet
         /\ s.shutdown \in BOOLEAN /\ s.alive \in BOOLEAN /\ s.retry \in BOOLEAN
         /\ s.session \in BOOLEAN
         /\ s.failure \in {"none", "bad", "waiting", "retrying"}
         /\ Fresh \in DestSet
BY DEF DestSet, Fresh
-----------------------------------------------------------------------------
(* Types.                                                                   *)

\* A pump that goes elsewhere is one still.
LEMMA GoesTyped ==
  ASSUME TypeOK, NEW d \in Dests, NEW to \in Places, Goes(d, to)
  PROVE  pump' \in [Dests -> PumpSet]
BY TypesNamed DEF Goes, PumpSet

\* What a task between two awaits leaves alone.
LEMMA ElsewhereTyped ==
  ASSUME TypeOK, Elsewhere,
         dest' \in [Dests -> DestSet], pump' \in [Dests -> PumpSet],
         slate' \in SlateSet, pressed' \in [Dests -> BOOLEAN]
  PROVE  TypeOK'
BY TypesNamed DEF Elsewhere, streamer, TypeOK, ObsSet, PumpSet, SlateSet

LEMMA SessionEndsTyped ==
  ASSUME TypeOK, NEW d \in Dests, SessionEnds(d)
  PROVE  /\ dest' \in [Dests -> DestSet] /\ pump' \in [Dests -> PumpSet]
         /\ pressed' \in [Dests -> BOOLEAN]
<1>1. dest \in [Dests -> DestSet] /\ pressed \in [Dests -> BOOLEAN] /\ dest[d] \in DestSet
  BY TypesNamed
<1>2. PICK brief \in BOOLEAN :
        dest' = [dest EXCEPT ![d].alive = FALSE, ![d].failure = IF brief THEN @ ELSE "none"]
  BY DEF SessionEnds
<1>3. dest' \in [Dests -> DestSet]
  BY <1>1, <1>2, DestFields
<1>4. pump' \in [Dests -> PumpSet] /\ pressed' \in [Dests -> BOOLEAN]
  BY <1>1, GoesTyped DEF SessionEnds, Waits, Places
<1>5. QED
  BY <1>3, <1>4

LEMMA HappensTyped ==
  ASSUME TypeOK, Happens
  PROVE  left' \in 0 .. Events
BY BoundsAssumption DEF TypeOK, Happens

\* A step of one pump keeps the types.
LEMMA PumpKeepsTypes ==
  ASSUME TypeOK, NEW d \in Dests, Pump(d) \/ ConnectFails(d)
  PROVE  TypeOK'
<1> USE DEF Places
<1>1. /\ dest \in [Dests -> DestSet] /\ pump \in [Dests -> PumpSet]
      /\ slate \in SlateSet /\ pressed \in [Dests -> BOOLEAN]
  BY TypesNamed
<1>2. dest[d] \in DestSet
  BY <1>1
<1>3. SUFFICES /\ Elsewhere
               /\ dest' \in [Dests -> DestSet] /\ pump' \in [Dests -> PumpSet]
               /\ slate' \in SlateSet /\ pressed' \in [Dests -> BOOLEAN]
  BY ElsewhereTyped
<1>4. CASE Begin(d)
  BY <1>1, <1>2, <1>4, GoesTyped, DestFields DEF Begin
<1>5. CASE HourPasses(d) \/ StopAtGate(d) \/ Dial(d) \/ StopInWait(d) \/ HoldBegins(d)
           \/ ScreenReady(d) \/ Rejoin(d)
  BY <1>1, <1>5, GoesTyped DEF HourPasses, StopAtGate, Dial, StopInWait, HoldBegins,
     ScreenReady, Rejoin
<1>6. CASE Connected(d)
  BY <1>1, <1>2, <1>6, GoesTyped, DestFields DEF Connected
<1>7. CASE ConnectFails(d)
  BY <1>1, <1>2, <1>7, GoesTyped, DestFields DEF ConnectFails, Failed, Waits
<1>8. CASE Lasts(d)
  BY <1>1, <1>2, <1>8, DestFields DEF Lasts
<1>9. CASE PumpEnds(d)
  BY <1>1, <1>9, SessionEndsTyped DEF PumpEnds
<1>10. CASE WaitIsOver(d)
  BY <1>1, <1>2, <1>10, GoesTyped, DestFields DEF WaitIsOver, Retries
<1>11. CASE BuildsScreen(d)
  BY <1>1, <1>11, GoesTyped DEF BuildsScreen, SlateSet
<1>12. QED
  BY <1>4, <1>5, <1>6, <1>7, <1>8, <1>9, <1>10, <1>11 DEF Pump

\* So does the end of a build, whoever it was for.
LEMMA BuildKeepsTypes ==
  ASSUME TypeOK, NEW ok \in BOOLEAN, BuildEnds(ok)
  PROVE  TypeOK'
<1> USE DEF Places
<1>1. /\ dest \in [Dests -> DestSet] /\ pump \in [Dests -> PumpSet]
      /\ slate \in SlateSet /\ pressed \in [Dests -> BOOLEAN]
  BY TypesNamed
<1>2. Elsewhere /\ slate' \in SlateSet
  BY <1>1 DEF BuildEnds, SlateSet
<1>3. CASE slate.for \in Dests /\ Place(slate.for) = "build" /\ ok
  BY <1>1, <1>2, <1>3, GoesTyped, ElsewhereTyped DEF BuildEnds
<1>4. CASE slate.for \in Dests /\ Place(slate.for) = "build" /\ ~ok
  <2>1. PICK d \in Dests : d = slate.for /\ SessionEnds(d)
    BY <1>4 DEF BuildEnds
  <2>2. QED
    BY <1>2, <2>1, SessionEndsTyped, ElsewhereTyped
<1>5. CASE ~(slate.for \in Dests /\ Place(slate.for) = "build")
  BY <1>1, <1>2, <1>5, ElsewhereTyped DEF BuildEnds
<1>6. QED
  BY <1>3, <1>4, <1>5

\* What the platform and the streamer do to one destination.
LEMMA EventsKeepTypes ==
  ASSUME TypeOK, NEW d \in Dests, PlatformDrops(d) \/ Streamer(d)
  PROVE  TypeOK'
<1>1. /\ dest \in [Dests -> DestSet] /\ pump \in [Dests -> PumpSet]
      /\ slate \in SlateSet /\ pressed \in [Dests -> BOOLEAN] /\ dest[d] \in DestSet
      /\ want \in [Dests -> Urls \union {BadUrl, Off}]
  BY TypesNamed
<1>2. left' \in 0 .. Events
  BY HappensTyped DEF PlatformDrops, Streamer, SessionGiven, RetryNow, Configure
<1>3. SUFFICES /\ want' \in [Dests -> Urls \union {BadUrl, Off}]
               /\ dest' \in [Dests -> DestSet] /\ pump' \in [Dests -> PumpSet]
               /\ pressed' \in [Dests -> BOOLEAN]
               /\ UNCHANGED <<obs, sup, running, gone, quit, slate>>
  BY <1>2, TypesNamed DEF TypeOK, ObsSet, PumpSet, SlateSet
<1>4. CASE PlatformDrops(d)
  <2>1. dest' \in [Dests -> DestSet]
    BY <1>1, <1>4, DestFields DEF PlatformDrops, Failed
  <2>2. pump' \in [Dests -> PumpSet] /\ pressed' \in [Dests -> BOOLEAN]
    BY <1>1, <1>4, GoesTyped DEF PlatformDrops, Waits, Places
  <2>3. QED
    BY <1>1, <1>4, <2>1, <2>2 DEF PlatformDrops
<1>5. CASE RetryNow(d)
  BY <1>1, <1>5, DestFields DEF RetryNow
<1>6. CASE SessionGiven(d)
  BY <1>1, <1>6, DestFields DEF SessionGiven, Tasks
<1>7. CASE \E url \in Urls \union {BadUrl, Off} : Configure(d, url)
  BY <1>1, <1>7 DEF Configure, Tasks
<1>8. QED
  BY <1>4, <1>5, <1>6, <1>7 DEF Streamer

\* OBS's coming and going, and the end of the program.
LEMMA EnvironmentKeepsTypes ==
  ASSUME TypeOK, Environment \/ \E d \in Vertical : GracePasses(d)
  PROVE  TypeOK'
<1>1. /\ dest \in [Dests -> DestSet] /\ pump \in [Dests -> PumpSet]
      /\ slate \in SlateSet /\ pressed \in [Dests -> BOOLEAN] /\ obs \in ObsSet
      /\ sup \in SupSet /\ running \in [Dests -> AllUrls] /\ left \in 0 .. Events
      /\ gone \in [Vertical -> {"no", "counting", "over"}]
      /\ quit \in {"no", "closing", "gone"}
      /\ want \in [Dests -> Urls \union {BadUrl, Off}]
  BY TypesNamed
<1>2. ASSUME NEW kept PROVE Forgotten(kept) \in [Dests -> DestSet]
  BY <1>1, DestFields DEF Forgotten
<1>3. CASE ObsGoes \/ ObsComes \/ Freezes
  <2>1. left' \in 0 .. Events
    BY <1>3, HappensTyped DEF ObsGoes, ObsComes, Freezes
  <2>2. ASSUME ObsGoes PROVE obs' \in ObsSet /\ dest' \in [Dests -> DestSet]
    <3>1. PICK hold \in BOOLEAN, tail \in BOOLEAN :
            /\ obs' = [obs EXCEPT !.alive = FALSE, !.hold = hold, !.tail = tail /\ ~hold]
            /\ dest' = Forgotten(IF hold THEN {e \in Dests : dest[e].alive /\ Covers(e)} ELSE {})
      BY <2>2 DEF ObsGoes
    <3>2. PICK rest \in BOOLEAN : rest = (tail /\ ~hold)
      OBVIOUS
    <3>3. obs' = [obs EXCEPT !.alive = FALSE, !.hold = hold, !.tail = rest]
      BY ONLY <3>1, <3>2, Zenon
    <3>4. obs' \in ObsSet
      BY <1>1, <3>3 DEF ObsSet
    <3>5. dest' \in [Dests -> DestSet]
      BY <1>1, <3>1, DestFields DEF Forgotten
    <3>6. QED
      BY <3>4, <3>5
  <2>3. ASSUME ObsComes \/ Freezes PROVE obs' \in ObsSet /\ dest' \in [Dests -> DestSet]
    <3>1. obs' = [alive |-> TRUE, hold |-> FALSE, tail |-> FALSE, canvas |-> FALSE]
          \/ obs' = [obs EXCEPT !.hold = TRUE]
      BY <2>3 DEF ObsComes, Freezes
    <3>2. obs' \in ObsSet
      <4>1. [alive |-> TRUE, hold |-> FALSE, tail |-> FALSE, canvas |-> FALSE] \in ObsSet
        BY DEF ObsSet
      <4>2. [obs EXCEPT !.hold = TRUE] \in ObsSet
        BY <1>1 DEF ObsSet
      <4>3. QED
        BY <3>1, <4>1, <4>2
    <3>3. dest' = dest
      BY <2>3 DEF ObsComes, Freezes
    <3>4. QED
      BY <1>1, <3>2, <3>3
  <2>4. UNCHANGED <<want, quit, Tasks>>
    BY <1>3 DEF ObsGoes, ObsComes, Freezes
  <2>5. QED
    BY <1>1, <1>3, <2>1, <2>2, <2>3, <2>4, TypesNamed DEF TypeOK, ObsSet, PumpSet, SlateSet, Tasks
<1>4. CASE Thaws \/ HoldEnds \/ TailEnds \/ CanvasSeen
  <2>1. dest' = dest \/ dest' = Forgotten({})
    BY <1>4 DEF Thaws, HoldEnds, TailEnds, CanvasSeen
  <2>2. obs' \in ObsSet
    BY <1>1, <1>4 DEF Thaws, HoldEnds, TailEnds, CanvasSeen, ObsSet
  <2>3. UNCHANGED <<streamer, quit, Tasks>>
    BY <1>4 DEF Thaws, HoldEnds, TailEnds, CanvasSeen
  <2>4. QED
    BY <1>1, <1>2, <2>1, <2>2, <2>3 DEF TypeOK, ObsSet, PumpSet, SlateSet, Tasks, streamer
<1>5. CASE ScreenForgotten
  <2>1. left' \in 0 .. Events /\ slate' \in SlateSet
    BY <1>1, <1>5, HappensTyped DEF ScreenForgotten, SlateSet
  <2>2. QED
    BY <1>1, <1>5, <2>1 DEF ScreenForgotten, TypeOK, ObsSet, PumpSet, SlateSet
<1>6. CASE Quit
  <2>1. left' \in 0 .. Events /\ dest' \in [Dests -> DestSet]
    BY <1>1, <1>6, HappensTyped, DestFields DEF Quit
  <2>2. QED
    BY <1>1, <1>6, <2>1 DEF Quit, TypeOK, ObsSet, PumpSet, SlateSet, Tasks
<1>7. CASE Exit
  <2>1. dest' \in [Dests -> DestSet]
    BY <1>1, <1>7 DEF Exit, Fresh, DestSet
  <2>2. pump' \in [Dests -> PumpSet] /\ running' \in [Dests -> AllUrls]
    BY <1>1, <1>7 DEF Exit, Gone, PumpSet, Places, AllUrls
  <2>3. sup' \in SupSet
    BY <1>1, <1>7 DEF Exit, Idle, SupSet, AllUrls
  <2>4. slate' \in SlateSet /\ left' \in 0 .. Events
    BY <1>1, <1>7, BoundsAssumption DEF Exit, SlateSet
  <2>5. QED
    BY <1>1, <1>7, <2>1, <2>2, <2>3, <2>4 DEF Exit, TypeOK, ObsSet, PumpSet, SlateSet
<1>8. CASE \E d \in Vertical : GracePasses(d)
  <2>1. gone' \in [Vertical -> {"no", "counting", "over"}]
    BY <1>1, <1>8 DEF GracePasses
  <2>2. QED
    BY <1>1, <1>8, <2>1 DEF GracePasses, TypeOK, ObsSet, PumpSet, SlateSet, streamer
<1>9. QED
  BY <1>3, <1>4, <1>5, <1>6, <1>7, <1>8 DEF Environment

\* stop_pump's request.
LEMMA AskTyped ==
  ASSUME TypeOK, NEW d \in Dests, NEW then \in {"remove", "dests", "start"},
         NEW url \in AllUrls, AskToStop(d, then, url)
  PROVE  /\ running' \in [Dests -> AllUrls] /\ dest' \in [Dests -> DestSet]
         /\ sup' \in SupSet /\ (sup'.pc = "stopping" => sup'.at \in Dests)
<1>1. /\ running \in [Dests -> AllUrls] /\ dest \in [Dests -> DestSet]
      /\ sup \in SupSet /\ dest[d] \in DestSet
  BY TypesNamed
<1>2. dest' \in [Dests -> DestSet]
  BY <1>1, DestFields DEF AskToStop
<1>3. sup' \in SupSet /\ sup'.at = d
  BY <1>1 DEF AskToStop, SupSet
<1>4. QED
  BY <1>1, <1>2, <1>3 DEF AskToStop, AllUrls

\* A pump started, or not.
LEMMA StartTyped ==
  ASSUME TypeOK, NEW d \in Dests, NEW url \in AllUrls, NEW s \in DestSet, Start(d, url, s)
  PROVE  /\ dest' \in [Dests -> DestSet] /\ pump' \in [Dests -> PumpSet]
         /\ running' \in [Dests -> AllUrls]
<1>1. /\ running \in [Dests -> AllUrls] /\ dest \in [Dests -> DestSet]
      /\ pump \in [Dests -> PumpSet]
  BY TypesNamed
<1>2. dest' \in [Dests -> DestSet]
  BY <1>1, DestFields DEF Start, Restarted
<1>3. Gone \in PumpSet /\ [pc |-> "fresh", url |-> url] \in PumpSet
  BY DEF Gone, PumpSet, Places, AllUrls
<1>4. QED
  BY <1>1, <1>2, <1>3 DEF Start, AllUrls

\* It is at its turn that a destination is still to do.
LEMMA TurnIsInTodo ==
  ASSUME TypeOK, NEW d \in Dests, d = AtTurn
  PROVE  sup.pc = "dests" /\ d \in sup.todo
BY DestsAssumption, SMT DEF AtTurn

\* The supervisor's steps.
LEMMA SuperviseKeepsTypes ==
  ASSUME TypeOK, Supervise
  PROVE  TypeOK'
<1>1. /\ dest \in [Dests -> DestSet] /\ pump \in [Dests -> PumpSet]
      /\ slate \in SlateSet /\ sup \in SupSet /\ running \in [Dests -> AllUrls]
      /\ gone \in [Vertical -> {"no", "counting", "over"}]
      /\ want \in [Dests -> AllUrls]
  BY TypesNamed DEF TypeOK, AllUrls
<1>2. /\ sup.at \in Dests \union {Nobody} /\ sup.url \in AllUrls /\ sup.todo \subseteq Dests
      /\ sup.desired \in [Dests -> AllUrls] /\ sup.then \in {"sleep", "remove", "dests", "start"}
  BY <1>1 DEF SupSet
<1>3. /\ Tick \in SupSet /\ Tick.pc = "remove"
      /\ Idle \in SupSet /\ Idle.pc = "sleep"
  BY <1>1 DEF Tick, Idle, SupSet, AllUrls
<1>4. SUFFICES /\ UNCHANGED <<want, left, obs, quit, pressed>>
               /\ dest' \in [Dests -> DestSet] /\ pump' \in [Dests -> PumpSet]
               /\ slate' \in SlateSet /\ sup' \in SupSet /\ running' \in [Dests -> AllUrls]
               /\ gone' \in [Vertical -> {"no", "counting", "over"}]
               /\ sup'.pc = "stopping" => sup'.at \in Dests
  BY TypesNamed DEF TypeOK, ObsSet, PumpSet, SlateSet
<1>5. ASSUME NEW d \in Dests, StopUnwanted(d) PROVE <1>4!1
  BY <1>1, <1>5, AskTyped DEF StopUnwanted, streamer, AllUrls
<1>6. CASE UnwantedGone
  <2>1. dest' \in [Dests -> DestSet]
    BY <1>1, <1>6 DEF UnwantedGone, Fresh, DestSet
  <2>2. sup' \in SupSet /\ sup'.pc = "dests"
    <3>1. PICK todo \in SUBSET Dests : todo = {d \in Dests : sup.desired[d] # Off}
      OBVIOUS
    <3>2. sup' = [sup EXCEPT !.pc = "dests", !.saw = obs.alive, !.todo = todo]
      BY <1>6, <3>1, Zenon DEF UnwantedGone
    <3>3. obs.alive \in BOOLEAN
      BY DEF TypeOK
    <3>4. QED
      BY <1>1, <3>2, <3>3 DEF SupSet
  <2>3. QED
    BY <1>1, <1>6, <2>1, <2>2 DEF UnwantedGone, streamer
<1>7. CASE StopEnds
  <2>1. PICK pc \in {"remove", "dests"} :
          sup' = [sup EXCEPT !.pc = pc, !.at = Nobody, !.then = "sleep", !.url = Off]
    <3>1. PICK pc : sup' = [sup EXCEPT !.pc = pc, !.at = Nobody, !.then = "sleep", !.url = Off]
                    /\ pc = IF sup.then = "remove" THEN "remove" ELSE "dests"
      BY <1>7, Zenon DEF StopEnds
    <3>2. QED
      BY ONLY <3>1
  <2>2. sup' \in SupSet /\ sup'.pc # "stopping"
    BY <1>1, <2>1 DEF SupSet, AllUrls
  <2>3. sup.at \in Dests
    BY <1>7 DEF TypeOK, StopEnds
  <2>4. CASE sup.then = "start"
    <3>1. PICK d \in Dests : d = sup.at /\ Start(d, sup.url, Stopped(dest[d]))
      BY <1>7, <2>3, <2>4 DEF StopEnds
    <3>2. Stopped(dest[d]) \in DestSet
      BY <1>1, DestFields DEF Stopped
    <3>3. QED
      BY <1>1, <1>2, <1>7, <2>2, <3>1, <3>2, StartTyped DEF StopEnds, Abort, streamer
  <2>5. CASE sup.then # "start"
    <3>1. dest' \in [Dests -> DestSet]
      <4>1. PICK s \in DestSet :
              s = IF sup.then = "remove" THEN Fresh ELSE Stopped(dest[sup.at])
        BY <1>1, <2>3, DestFields DEF Stopped
      <4>2. dest' = [dest EXCEPT ![sup.at] = s]
        BY <1>7, <2>5, <4>1 DEF StopEnds
      <4>3. QED
        BY <1>1, <4>2
    <3>2. pump' \in [Dests -> PumpSet]
      BY <1>1, <1>7, <2>5 DEF StopEnds, Gone, PumpSet, Places, AllUrls
    <3>3. QED
      BY <1>1, <1>7, <2>2, <2>5, <3>1, <3>2 DEF StopEnds, Abort, streamer
  <2>6. QED
    BY <1>1, <2>4, <2>5, Zenon
<1>8. ASSUME NEW d \in Dests, NoCanvas(d) PROVE <1>4!1
  <2>1. gone' \in [Vertical -> {"no", "counting", "over"}]
    BY <1>1, <1>8 DEF NoCanvas
  <2>2. /\ sup' \in SupSet /\ dest' \in [Dests -> DestSet]
        /\ running' \in [Dests -> AllUrls]
        /\ sup'.pc = "stopping" => sup'.at \in Dests
    <3>1. CASE AskToStop(d, "dests", Off)
      BY <3>1, AskTyped DEF AllUrls
    <3>2. CASE sup' = [sup EXCEPT !.todo = @ \ {d}] /\ UNCHANGED <<running, dest>>
      BY <1>1, <1>8, <3>2, TurnIsInTodo DEF NoCanvas, SupSet
    <3>3. QED
      BY <1>8, <3>1, <3>2 DEF NoCanvas
  <2>3. QED
    BY <1>1, <1>8, <2>1, <2>2 DEF NoCanvas, streamer
<1>9. ASSUME NEW d \in Dests, Turn(d) PROVE <1>4!1
  <2>1. gone' \in [Vertical -> {"no", "counting", "over"}]
    BY <1>1, <1>9 DEF Turn
  <2>2. PICK url \in AllUrls : url = IF dest[d].session THEN Session ELSE sup.desired[d]
    BY <1>2 DEF AllUrls
  <2>3. CASE AskToStop(d, "start", url) /\ UNCHANGED pump
    BY <1>1, <1>9, <2>1, <2>3, AskTyped DEF Turn, streamer
  <2>4. CASE Start(d, url, dest[d]) /\ sup' = [sup EXCEPT !.todo = @ \ {d}]
    <3>1. sup' \in SupSet /\ sup'.pc = "dests"
      BY <1>1, <1>9, <2>4, TurnIsInTodo DEF Turn, SupSet
    <3>2. QED
      BY <1>1, <1>9, <2>1, <2>4, <3>1, StartTyped DEF Turn, streamer
  <2>5. CASE sup' = [sup EXCEPT !.todo = @ \ {d}] /\ UNCHANGED <<running, dest, pump>>
    <3>1. sup' \in SupSet /\ sup'.pc = "dests"
      BY <1>1, <1>9, <2>5, TurnIsInTodo DEF Turn, SupSet
    <3>2. QED
      BY <1>1, <1>9, <2>1, <2>5, <3>1 DEF Turn, streamer
  <2>6. QED
    BY <1>9, <2>2, <2>3, <2>4, <2>5 DEF Turn
<1>10. CASE TickEnds
  BY <1>1, <1>3, <1>10 DEF TickEnds, SlateSet, streamer
<1>11. CASE TimerWakes \/ ChangeWakes
  BY <1>1, <1>3, <1>11 DEF TimerWakes, ChangeWakes, streamer, AllUrls
<1>12. QED
  BY <1>5, <1>6, <1>7, <1>8, <1>9, <1>10, <1>11 DEF Supervise

LEMMA NextKeepsTypes ==
  ASSUME TypeOK, [Next]_vars
  PROVE  TypeOK'
<1>1. CASE Supervise
  BY <1>1, SuperviseKeepsTypes
<1>2. CASE \E d \in Dests : Pump(d) \/ ConnectFails(d)
  BY <1>2, PumpKeepsTypes
<1>3. CASE \E d \in Dests : PlatformDrops(d) \/ Streamer(d)
  BY <1>3, EventsKeepTypes
<1>4. CASE \E ok \in BOOLEAN : BuildEnds(ok)
  BY <1>4, BuildKeepsTypes
<1>5. CASE Environment \/ \E d \in Vertical : GracePasses(d)
  BY <1>5, EnvironmentKeepsTypes
<1>6. CASE UNCHANGED vars
  BY <1>6 DEF vars, streamer, TypeOK
<1>7. QED
  BY <1>1, <1>2, <1>3, <1>4, <1>5, <1>6 DEF Next

LEMMA InitIsTyped == Init => TypeOK
<1>1. SUFFICES ASSUME Init PROVE TypeOK
  OBVIOUS
<1>2. want \in [Dests -> Urls \union {BadUrl, Off}] /\ obs \in ObsSet
  BY <1>1, SavedAssumption DEF Init, ObsSet
<1>3. dest \in [Dests -> DestSet] /\ pump \in [Dests -> PumpSet] /\ slate \in SlateSet
  BY <1>1 DEF Init, Fresh, Gone, DestSet, PumpSet, SlateSet, Places, AllUrls
<1>4. sup \in SupSet /\ sup.pc = "remove"
  BY <1>1, <1>2 DEF Init, Idle, SupSet, AllUrls
<1>5. QED
  BY <1>1, <1>2, <1>3, <1>4, BoundsAssumption, TypesNamed DEF Init, AllUrls

\* Every field keeps its type: the supervisor, the pumps and the streamer write
\* the same destination states from different tasks.
THEOREM TypeCorrectness == Spec => []TypeOK
BY InitIsTyped, NextKeepsTypes, PTL DEF Spec
-----------------------------------------------------------------------------
(* The inductive invariant.  A pump's exits and the supervisor's stop both   *)
(* clear what they share; what each relies on is that a destination without  *)
(* a running signature has no pump, and that a pump which runs has let go of *)
(* the failure of the pump before it.                                        *)

Stopping(d)   == sup.pc = "stopping" /\ sup.at = d
Connecting(d) == Place(d) \in {"gate", "dial", "air", "slate", "build", "screen"}

\* What holds of one destination.
Live(d)       == dest[d].alive <=> OnAir(d)
HasNoPump(d)  == running[d] = Off /\ ~Stopping(d) => Ended(d)
LetGo(d)      == Connecting(d) => dest[d].failure # "waiting"
Shortens(d)   == Place(d) = "wait" /\ dest[d].failure = "waiting" /\ dest[d].retry => pressed[d]
Kept(d)       == Live(d) /\ HasNoPump(d) /\ LetGo(d) /\ Shortens(d)

\* What holds of the supervisor: it starts nothing that is off.
StartsWanted  == /\ sup.pc = "stopping" /\ sup.then = "start" => sup.url # Off
                 /\ \A d \in sup.todo : sup.desired[d] # Off

IInv == TypeOK /\ StartsWanted /\ \A d \in Dests : Kept(d)

\* A destination nothing happens to keeps what holds of it.
LEMMA Untouched ==
  ASSUME NEW d \in Dests, Kept(d), UNCHANGED <<dest[d], pump[d], running[d], pressed[d]>>,
         Stopping(d) => Stopping(d)'
  PROVE  Kept(d)'
BY DEF Kept, Live, HasNoPump, LetGo, Shortens, OnAir, Ended, Connecting, Place

\* A step that moves one pump, or changes one destination's state, leaves the
\* others alone.
LEMMA OthersUntouched ==
  ASSUME IInv, NEW d \in Dests, NEW e \in Dests, e # d,
         dest'[e] = dest[e], pump'[e] = pump[e], pressed'[e] = pressed[e],
         running'[e] = running[e], UNCHANGED sup
  PROVE  Kept(e)'
BY Untouched DEF IInv, Stopping

\* Going elsewhere, waiting, the end of a session, seen from every pump.
LEMMA GoesSeen ==
  ASSUME TypeOK, NEW d \in Dests, NEW to, Goes(d, to)
  PROVE  \A e \in Dests : pump'[e].pc = IF e = d THEN to ELSE pump[e].pc
BY TypesNamed DEF Goes, PumpSet

LEMMA PumpMoves ==
  ASSUME IInv, NEW d \in Dests, Pump(d) \/ ConnectFails(d)
  PROVE  Kept(d)'
<1>1. /\ dest \in [Dests -> DestSet] /\ pump \in [Dests -> PumpSet] /\ dest[d] \in DestSet
      /\ pressed \in [Dests -> BOOLEAN]
  BY TypesNamed DEF IInv
<1>2. Live(d) /\ HasNoPump(d) /\ LetGo(d) /\ Shortens(d)
  BY DEF IInv, Kept
<1>3. ASSUME NEW to, Goes(d, to) PROVE Place(d)' = to
  BY <1>3, GoesSeen DEF IInv, Place
<1>4. UNCHANGED <<sup, running>>
  BY DEF Pump, Elsewhere, Begin, HourPasses, StopAtGate, Dial, Connected, Lasts, PumpEnds,
     StopInWait, WaitIsOver, HoldBegins, ScreenReady, BuildsScreen, Rejoin, ConnectFails
<1>5. SUFFICES Live(d)' /\ HasNoPump(d)' /\ LetGo(d)' /\ Shortens(d)'
  BY DEF Kept
<1> USE DEF Live, HasNoPump, LetGo, Shortens, OnAir, Ended, Connecting, Stopping
<1>6. CASE Begin(d)
  <2>1. Place(d) = "fresh" /\ Place(d)' \in {"bad", "gate"}
    BY <1>3, <1>6 DEF Begin
  <2>2. dest'[d].failure \in {"bad", "none"} /\ dest'[d].alive = dest[d].alive
    BY <1>1, <1>6 DEF Begin, DestSet
  <2>3. QED
    BY <1>2, <1>4, <2>1, <2>2
<1>7. CASE HourPasses(d) \/ StopAtGate(d) \/ Dial(d) \/ StopInWait(d)
  <2>1. UNCHANGED <<dest, pressed>>
    BY <1>7 DEF HourPasses, StopAtGate, Dial, StopInWait
  <2>2. \/ Place(d) \in {"bad", "gate", "wait"} /\ Place(d)' = "done"
        \/ Place(d) = "gate" /\ Place(d)' = "dial"
    BY <1>3, <1>7 DEF HourPasses, StopAtGate, Dial, StopInWait
  <2>3. QED
    BY <1>2, <1>4, <2>1, <2>2
<1>8. CASE HoldBegins(d) \/ ScreenReady(d) \/ BuildsScreen(d) \/ Rejoin(d)
  <2>1. UNCHANGED <<dest, pressed>>
    BY <1>8 DEF HoldBegins, ScreenReady, BuildsScreen, Rejoin
  <2>2. OnAir(d) /\ OnAir(d)' /\ Connecting(d) /\ Place(d)' # "wait"
    BY <1>3, <1>8 DEF HoldBegins, ScreenReady, BuildsScreen, Rejoin, Place
  <2>3. QED
    BY <1>2, <1>4, <2>1, <2>2
<1>9. CASE Connected(d)
  <2>1. Place(d) = "dial" /\ Place(d)' = "air"
    BY <1>3, <1>9 DEF Connected
  <2>2. dest'[d].alive /\ dest'[d].failure = dest[d].failure
    BY <1>1, <1>9 DEF Connected, DestSet
  <2>3. QED
    BY <1>2, <1>4, <2>1, <2>2
<1>10. CASE ConnectFails(d)
  <2>1. Place(d) = "dial" /\ Place(d)' = "wait"
    BY <1>3, <1>10 DEF ConnectFails, Waits
  <2>2. ~dest'[d].retry /\ dest'[d].alive = dest[d].alive
    BY <1>1, <1>10 DEF ConnectFails, Failed, DestSet
  <2>3. QED
    BY <1>2, <1>4, <2>1, <2>2
<1>11. CASE Lasts(d)
  <2>1. dest'[d].failure = "none" /\ dest'[d].alive = dest[d].alive /\ UNCHANGED pump
    BY <1>1, <1>11 DEF Lasts, DestSet
  <2>2. QED
    BY <1>2, <1>4, <1>11, <2>1 DEF Lasts, Place
<1>12. CASE PumpEnds(d)
  <2>1. Place(d) \in {"air", "screen"} /\ SessionEnds(d)
    BY <1>12 DEF PumpEnds
  <2>2. Place(d)' = "wait"
    BY <1>3, <2>1 DEF SessionEnds, Waits
  <2>3. ~dest'[d].alive /\ dest'[d].failure \in {dest[d].failure, "none"}
    BY <1>1, <2>1 DEF SessionEnds, DestSet
  <2>4. QED
    BY <1>2, <1>4, <2>1, <2>2, <2>3
<1>13. CASE WaitIsOver(d)
  <2>1. Place(d) = "wait" /\ Place(d)' = "gate"
    BY <1>3, <1>13 DEF WaitIsOver
  <2>2. dest'[d].failure # "waiting" /\ dest'[d].alive = dest[d].alive
    BY <1>1, <1>13 DEF WaitIsOver, Retries, DestSet
  <2>3. QED
    BY <1>2, <1>4, <2>1, <2>2
<1>14. QED
  BY <1>6, <1>7, <1>8, <1>9, <1>10, <1>11, <1>12, <1>13 DEF Pump

\* A step of a pump keeps the invariant.
LEMMA PumpKeepsIInv ==
  ASSUME IInv, NEW d \in Dests, Pump(d) \/ ConnectFails(d)
  PROVE  IInv'
<1>1. TypeOK'
  BY PumpKeepsTypes DEF IInv
<1>2. /\ dest \in [Dests -> DestSet] /\ pump \in [Dests -> PumpSet]
      /\ pressed \in [Dests -> BOOLEAN]
  BY TypesNamed DEF IInv
<1>3. UNCHANGED <<sup, running>>
  BY DEF Pump, Elsewhere, Begin, HourPasses, StopAtGate, Dial, Connected, Lasts, PumpEnds,
     StopInWait, WaitIsOver, HoldBegins, ScreenReady, BuildsScreen, Rejoin, ConnectFails
<1>4. ASSUME NEW e \in Dests, e # d
      PROVE  dest'[e] = dest[e] /\ pump'[e] = pump[e] /\ pressed'[e] = pressed[e]
  <2>1. pressed'[e] = pressed[e]
    BY <1>2, <1>4 DEF Pump, Begin, HourPasses, StopAtGate, Dial, Connected, Lasts, PumpEnds,
       StopInWait, WaitIsOver, HoldBegins, ScreenReady, BuildsScreen, Rejoin, ConnectFails,
       SessionEnds, Waits
  <2>2. pump'[e] = pump[e]
    BY <1>2, <1>4 DEF Pump, Begin, HourPasses, StopAtGate, Dial, Connected, Lasts, PumpEnds,
       StopInWait, WaitIsOver, HoldBegins, ScreenReady, BuildsScreen, Rejoin, ConnectFails,
       SessionEnds, Waits, Goes
  <2>3. dest'[e] = dest[e]
    BY <1>2, <1>4 DEF Pump, Begin, HourPasses, StopAtGate, Dial, Connected, Lasts, PumpEnds,
       StopInWait, WaitIsOver, HoldBegins, ScreenReady, BuildsScreen, Rejoin, ConnectFails,
       SessionEnds, Retries
  <2>4. QED
    BY <2>1, <2>2, <2>3
<1>5. ASSUME NEW e \in Dests PROVE Kept(e)'
  BY <1>3, <1>4, <1>5, PumpMoves, OthersUntouched
<1>6. QED
  BY <1>1, <1>3, <1>5 DEF IInv, StartsWanted

\* So does the end of a build: without a screen its caller's session ends.
LEMMA BuildKeepsIInv ==
  ASSUME IInv, NEW ok \in BOOLEAN, BuildEnds(ok)
  PROVE  IInv'
<1>1. TypeOK'
  BY BuildKeepsTypes DEF IInv
<1>2. /\ dest \in [Dests -> DestSet] /\ pump \in [Dests -> PumpSet]
      /\ pressed \in [Dests -> BOOLEAN]
  BY TypesNamed DEF IInv
<1>3. UNCHANGED <<sup, running>>
  BY DEF BuildEnds, Elsewhere
<1>4. SUFFICES ASSUME NEW e \in Dests PROVE Kept(e)'
  BY <1>1, <1>3 DEF IInv, StartsWanted
<1>5. CASE UNCHANGED <<dest, pump, pressed>>
  BY <1>3, <1>5, Untouched DEF IInv, Stopping
<1>6. CASE ~UNCHANGED <<dest, pump, pressed>>
  <2>1. PICK d \in Dests :
          /\ d = slate.for /\ Place(d) = "build"
          /\ (Goes(d, "screen") /\ UNCHANGED <<dest, pressed>>) \/ SessionEnds(d)
    BY <1>6 DEF BuildEnds
  <2>2. CASE e # d
    <3>1. dest'[e] = dest[e] /\ pump'[e] = pump[e] /\ pressed'[e] = pressed[e]
      BY <1>2, <2>1, <2>2 DEF SessionEnds, Waits, Goes
    <3>2. QED
      BY <1>3, <2>2, <3>1, OthersUntouched
  <2>3. CASE e = d
    <3>1. dest[d] \in DestSet
      BY <1>2
    <3>2. \/ UNCHANGED <<dest, pressed>> /\ Place(d)' = "screen"
          \/ /\ Place(d)' = "wait" /\ ~dest'[d].alive
             /\ dest'[d].failure \in {dest[d].failure, "none"}
      <4>1. CASE Goes(d, "screen") /\ UNCHANGED <<dest, pressed>>
        BY <4>1, GoesSeen DEF IInv, Place
      <4>2. CASE SessionEnds(d)
        BY <1>2, <3>1, <4>2, GoesSeen DEF IInv, SessionEnds, Waits, Place, DestSet
      <4>3. QED
        BY <2>1, <4>1, <4>2
    <3>3. QED
      BY <1>3, <2>1, <2>3, <3>2
         DEF IInv, Kept, Live, HasNoPump, LetGo, Shortens, OnAir, Ended, Connecting, Stopping
  <2>4. QED
    BY <2>2, <2>3
<1>7. QED
  BY <1>5, <1>6

\* What the platform and the streamer do.
LEMMA EventsKeepIInv ==
  ASSUME IInv, NEW d \in Dests, PlatformDrops(d) \/ Streamer(d)
  PROVE  IInv'
<1>1. TypeOK'
  BY EventsKeepTypes DEF IInv
<1>2. /\ dest \in [Dests -> DestSet] /\ pump \in [Dests -> PumpSet] /\ dest[d] \in DestSet
      /\ pressed \in [Dests -> BOOLEAN]
  BY TypesNamed DEF IInv
<1>3. UNCHANGED <<sup, running>>
  BY DEF PlatformDrops, Streamer, SessionGiven, RetryNow, Configure, Tasks
<1>4. SUFFICES ASSUME NEW e \in Dests PROVE Kept(e)'
  BY <1>1, <1>3 DEF IInv, StartsWanted
<1>5. CASE e # d
  <2>1. dest'[e] = dest[e] /\ pump'[e] = pump[e] /\ pressed'[e] = pressed[e]
    BY <1>2, <1>5 DEF PlatformDrops, Streamer, SessionGiven, RetryNow, Configure, Tasks, Waits,
       Goes
  <2>2. QED
    BY <1>3, <1>5, <2>1, OthersUntouched
<1>6. CASE e = d
  <2>1. Live(d) /\ HasNoPump(d) /\ LetGo(d) /\ Shortens(d)
    BY DEF IInv, Kept
  <2> USE DEF Live, HasNoPump, LetGo, Shortens, OnAir, Ended, Connecting, Stopping
  <2>2. CASE PlatformDrops(d)
    <3>1. Place(d) \in {"air", "screen"} /\ Place(d)' = "wait"
      BY <2>2, GoesSeen DEF IInv, PlatformDrops, Waits, Place
    <3>2. ~dest'[d].retry /\ ~dest'[d].alive
      BY <1>2, <2>2 DEF PlatformDrops, Failed, DestSet
    <3>3. QED
      BY <1>3, <1>6, <2>1, <3>1, <3>2 DEF Kept
  <2>3. CASE RetryNow(d)
    <3>1. pressed'[d] /\ UNCHANGED pump /\ dest'[d].alive = dest[d].alive
          /\ dest'[d].failure = dest[d].failure
      BY <1>2, <2>3 DEF RetryNow, DestSet
    <3>2. QED
      BY <1>3, <1>6, <2>1, <3>1 DEF Kept, Place
  <2>4. CASE SessionGiven(d)
    <3>1. UNCHANGED <<pump, pressed>> /\ dest'[d].alive = dest[d].alive
          /\ dest'[d].failure = dest[d].failure /\ dest'[d].retry = dest[d].retry
      BY <1>2, <2>4 DEF SessionGiven, DestSet, Tasks
    <3>2. QED
      BY <1>3, <1>6, <2>1, <3>1 DEF Kept, Place
  <2>5. CASE \E url \in Urls \union {BadUrl, Off} : Configure(d, url)
    BY <1>3, <1>6, <2>5, Untouched DEF IInv, Configure, Tasks
  <2>6. QED
    BY <2>2, <2>3, <2>4, <2>5 DEF Streamer
<1>7. QED
  BY <1>5, <1>6

\* OBS's coming and going take sessions from destinations, and nothing else.
LEMMA EnvironmentKeepsIInv ==
  ASSUME IInv, Environment \/ \E d \in Vertical : GracePasses(d)
  PROVE  IInv'
<1>1. TypeOK'
  BY EnvironmentKeepsTypes DEF IInv
<1>2. dest \in [Dests -> DestSet]
  BY TypesNamed DEF IInv
<1>3. CASE Exit
  <2>1. sup'.pc = "exited" /\ sup'.todo = {}
    BY <1>3 DEF Exit, Idle
  <2>2. ASSUME NEW d \in Dests PROVE Kept(d)'
    BY <1>3, <2>1 DEF Exit, Gone, Fresh, Kept, Live, HasNoPump, LetGo, Shortens, OnAir, Ended,
       Connecting, Place
  <2>3. QED
    BY <1>1, <2>1, <2>2 DEF IInv, StartsWanted
<1>4. CASE ~Exit
  <2>1. UNCHANGED <<sup, running, pump, pressed>>
    BY <1>4 DEF Environment, GracePasses, ObsGoes, ObsComes, Freezes, Thaws, HoldEnds, TailEnds,
       CanvasSeen, ScreenForgotten, Quit, Tasks
  <2>2. \A d \in Dests : /\ dest'[d].alive = dest[d].alive /\ dest'[d].retry = dest[d].retry
                          /\ dest'[d].failure = dest[d].failure
    <3>1. \A kept, d : d \in Dests =>
            /\ Forgotten(kept)[d].alive = dest[d].alive
            /\ Forgotten(kept)[d].retry = dest[d].retry
            /\ Forgotten(kept)[d].failure = dest[d].failure
      BY <1>2 DEF Forgotten, DestSet
    <3>2. CASE Quit
      BY <1>2, <3>2 DEF Quit, DestSet
    <3>3. CASE ObsGoes \/ HoldEnds
      <4>1. CASE ObsGoes
        <5>1. PICK hold \in BOOLEAN :
                dest' = Forgotten(IF hold THEN {d \in Dests : dest[d].alive /\ Covers(d)} ELSE {})
          BY <4>1 DEF ObsGoes
        <5>2. QED
          BY <1>2, <5>1 DEF Forgotten, DestSet
      <4>2. CASE HoldEnds
        BY <3>1, <4>2 DEF HoldEnds
      <4>3. QED
        BY <3>3, <4>1, <4>2
    <3>4. CASE dest' = dest
      BY <3>4
    <3>5. QED
      BY <1>4, <3>2, <3>3, <3>4 DEF Environment, GracePasses, ObsComes, Freezes, Thaws, TailEnds,
         CanvasSeen, ScreenForgotten
  <2>3. ASSUME NEW d \in Dests PROVE Kept(d)'
    BY <2>1, <2>2 DEF IInv, Kept, Live, HasNoPump, LetGo, Shortens, OnAir, Ended, Connecting,
       Place, Stopping
  <2>4. QED
    BY <1>1, <2>1, <2>3 DEF IInv, StartsWanted
<1>5. QED
  BY <1>3, <1>4

\* stop_pump's request: a pump stops, and nothing it shares is touched.
LEMMA AskKeepsIInv ==
  ASSUME IInv, NEW d \in Dests, NEW then \in {"remove", "dests", "start"},
         NEW url \in AllUrls, then = "start" => url # Off, TypeOK',
         AskToStop(d, then, url), ~(sup.pc = "stopping"), UNCHANGED <<pump, pressed>>
  PROVE  IInv'
<1>1. dest \in [Dests -> DestSet] /\ running \in [Dests -> AllUrls] /\ sup \in SupSet
  BY TypesNamed DEF IInv
<1>2. sup'.pc = "stopping" /\ sup'.at = d /\ sup'.then = then /\ sup'.url = url
      /\ sup'.todo \subseteq sup.todo /\ sup'.desired = sup.desired
  BY <1>1 DEF AskToStop, SupSet
<1>3. ASSUME NEW e \in Dests PROVE Kept(e)'
  <2>1. dest'[e].alive = dest[e].alive /\ dest'[e].failure = dest[e].failure
        /\ dest'[e].retry = dest[e].retry
    BY <1>1 DEF AskToStop, DestSet
  <2>2. e # d => running'[e] = running[e]
    BY <1>1 DEF AskToStop
  <2>3. QED
    BY <1>2, <2>1, <2>2 DEF IInv, Kept, Live, HasNoPump, LetGo, Shortens, OnAir, Ended,
       Connecting, Place, Stopping
<1>4. QED
  BY <1>2, <1>3 DEF IInv, StartsWanted

\* A pump is started where there is none, and where a stopped one was.
LEMMA StartKeepsKept ==
  ASSUME IInv, NEW d \in Dests, NEW url \in AllUrls, url # Off, NEW s \in DestSet,
         Start(d, url, s), ~s.alive, UNCHANGED pressed,
         (Ended(d) /\ s = dest[d]) \/ Stopping(d), \A e \in Dests : Stopping(e) => e = d,
         ~(sup'.pc = "stopping")
  PROVE  \A e \in Dests : Kept(e)'
<1>1. /\ dest \in [Dests -> DestSet] /\ running \in [Dests -> AllUrls]
      /\ pump \in [Dests -> PumpSet]
  BY TypesNamed DEF IInv
<1>2. ASSUME NEW e \in Dests, e # d PROVE Kept(e)'
  <2>1. dest'[e] = dest[e] /\ running'[e] = running[e] /\ pump'[e] = pump[e]
    BY <1>1, <1>2 DEF Start
  <2>2. QED
    BY <1>2, <2>1, Untouched DEF IInv
<1>3. Kept(d)'
  <2>1. ~dest'[d].alive
    BY <1>1 DEF Start, Restarted, DestSet
  <2>2. \/ Place(d)' = "fresh" /\ running'[d] # Off
        \/ Place(d)' = "none"
    BY <1>1 DEF Start, Place, Gone
  <2>3. QED
    BY <2>1, <2>2 DEF Kept, Live, HasNoPump, LetGo, Shortens, OnAir, Ended, Connecting
<1>4. QED
  BY <1>2, <1>3

\* A step of the supervisor that neither stops nor starts a pump.
LEMMA QuietKeepsKept ==
  ASSUME IInv, UNCHANGED <<dest, pump, running, pressed>>, ~(sup.pc = "stopping")
  PROVE  \A d \in Dests : Kept(d)'
BY Untouched DEF IInv, Stopping

\* The supervisor's steps keep the invariant.
LEMMA SuperviseKeepsIInv ==
  ASSUME IInv, Supervise
  PROVE  IInv'
<1>1. TypeOK'
  BY SuperviseKeepsTypes DEF IInv
<1>2. /\ dest \in [Dests -> DestSet] /\ pump \in [Dests -> PumpSet] /\ sup \in SupSet
      /\ running \in [Dests -> AllUrls] /\ sup.desired \in [Dests -> AllUrls]
      /\ sup.todo \subseteq Dests
  BY TypesNamed DEF IInv, SupSet
<1>3. StartsWanted /\ TypeOK /\ \A d \in Dests : Kept(d)
  BY DEF IInv
<1>4. ASSUME NEW d \in Dests, StopUnwanted(d) PROVE IInv'
  BY <1>1, <1>4, AskKeepsIInv DEF StopUnwanted, AllUrls
<1>5. CASE UnwantedGone
  <2>1. sup'.pc = "dests" /\ sup'.desired = sup.desired
        /\ sup'.todo = {d \in Dests : sup.desired[d] # Off}
    BY <1>2, <1>5 DEF UnwantedGone, SupSet
  <2>2. ASSUME NEW d \in Dests PROVE Kept(d)'
    <3>1. CASE sup.desired[d] = Off
      <4>1. Ended(d) /\ running'[d] = Off /\ ~dest'[d].alive /\ UNCHANGED <<pump, pressed>>
        BY <1>3, <1>5, <3>1 DEF UnwantedGone, Fresh, Kept, HasNoPump, Stopping
      <4>2. QED
        BY <2>1, <4>1 DEF Kept, Live, HasNoPump, LetGo, Shortens, OnAir, Ended, Connecting,
           Place
    <3>2. CASE sup.desired[d] # Off
      <4>1. dest'[d] = dest[d] /\ UNCHANGED <<pump, pressed, running>> /\ ~Stopping(d)
        BY <1>5, <3>2 DEF UnwantedGone, Stopping
      <4>2. QED
        BY <1>3, <4>1, Untouched
    <3>3. QED
      BY <3>1, <3>2
  <2>3. QED
    BY <1>1, <2>1, <2>2 DEF IInv, StartsWanted
<1>6. CASE StopEnds
  <2>1. sup.at \in Dests /\ sup.pc = "stopping" /\ UNCHANGED pressed
    BY <1>3, <1>6 DEF TypeOK, StopEnds
  <2>2. sup' = [sup EXCEPT !.pc = IF sup.then = "remove" THEN "remove" ELSE "dests",
                           !.at = Nobody, !.then = "sleep", !.url = Off]
    BY <1>6 DEF StopEnds
  <2>3. sup'.pc # "stopping" /\ UNCHANGED <<sup.todo, sup.desired>>
    BY <1>2, <2>2 DEF SupSet
  <2>4. CASE sup.then = "start"
    <3>1. PICK d \in Dests : d = sup.at /\ Start(d, sup.url, Stopped(dest[d]))
      BY <1>6, <2>1, <2>4 DEF StopEnds
    <3>2. Stopped(dest[d]) \in DestSet /\ ~Stopped(dest[d]).alive
      <4>1. dest[d] \in DestSet
        BY <1>2
      <4>2. QED
        BY <4>1 DEF Stopped, DestSet
    <3>3. sup.url \in AllUrls /\ sup.url # Off
      BY <1>2, <1>3, <2>1, <2>4 DEF StartsWanted, SupSet
    <3>4. \A e \in Dests : Kept(e)'
      BY <2>1, <2>3, <3>1, <3>2, <3>3, StartKeepsKept DEF Stopping
    <3>5. QED
      BY <1>1, <1>3, <2>3, <3>4 DEF IInv, StartsWanted
  <2>5. CASE sup.then # "start"
    <3>1. PICK d \in Dests :
            /\ d = sup.at
            /\ dest' = [dest EXCEPT ![d] = IF sup.then = "remove" THEN Fresh ELSE Stopped(@)]
            /\ pump' = [pump EXCEPT ![d] = Gone] /\ UNCHANGED running
      BY <1>6, <2>1, <2>5 DEF StopEnds
    <3>2. Kept(d)'
      <4>1. Place(d)' = "none"
        BY <1>2, <3>1 DEF Place, Gone
      <4>2. ~dest'[d].alive
        BY <1>2, <3>1 DEF Fresh, Stopped, DestSet
      <4>3. QED
        BY <4>1, <4>2 DEF Kept, Live, HasNoPump, LetGo, Shortens, OnAir, Ended, Connecting
    <3>3. ASSUME NEW e \in Dests, e # d PROVE Kept(e)'
      <4>1. dest'[e] = dest[e] /\ pump'[e] = pump[e] /\ running'[e] = running[e]
        BY <1>2, <3>1, <3>3
      <4>2. QED
        BY <1>3, <2>1, <3>1, <3>3, <4>1, Untouched DEF Stopping
    <3>4. QED
      BY <1>1, <1>3, <2>3, <3>2, <3>3 DEF IInv, StartsWanted
  <2>6. QED
    BY <2>4, <2>5
<1>7. ASSUME NEW d \in Dests, NoCanvas(d) PROVE IInv'
  <2>1. sup.pc = "dests" /\ UNCHANGED <<pump, pressed>>
    BY <1>3, <1>7, TurnIsInTodo DEF NoCanvas
  <2>2. CASE AskToStop(d, "dests", Off)
    BY <1>1, <2>1, <2>2, AskKeepsIInv DEF AllUrls
  <2>3. CASE sup' = [sup EXCEPT !.todo = @ \ {d}] /\ UNCHANGED <<running, dest>>
    <3>1. sup'.pc = "dests" /\ sup'.todo \subseteq sup.todo /\ sup'.desired = sup.desired
      BY <1>2, <2>1, <2>3 DEF SupSet
    <3>2. QED
      BY <1>1, <1>3, <2>1, <2>3, <3>1, QuietKeepsKept DEF IInv, StartsWanted
  <2>4. QED
    BY <1>7, <2>2, <2>3 DEF NoCanvas
<1>8. ASSUME NEW d \in Dests, Turn(d) PROVE IInv'
  <2>1. sup.pc = "dests" /\ d \in sup.todo /\ UNCHANGED pressed
    BY <1>3, <1>8, TurnIsInTodo DEF Turn
  <2> DEFINE url == IF dest[d].session THEN Session ELSE sup.desired[d]
  <2>2. url \in AllUrls /\ url # Off
    BY <1>2, <1>3, <2>1, UrlsAssumption DEF StartsWanted, AllUrls
  <2>3. \/ running[d] = Off /\ Start(d, url, dest[d]) /\ sup' = [sup EXCEPT !.todo = @ \ {d}]
        \/ AskToStop(d, "start", url) /\ UNCHANGED pump
        \/ sup' = [sup EXCEPT !.todo = @ \ {d}] /\ UNCHANGED <<running, dest, pump>>
    BY <1>8, Zenon DEF Turn
  <2> HIDE DEF url
  <2>4. CASE AskToStop(d, "start", url) /\ UNCHANGED pump
    BY <1>1, <2>1, <2>2, <2>4, AskKeepsIInv
  <2>5. CASE running[d] = Off /\ Start(d, url, dest[d]) /\ sup' = [sup EXCEPT !.todo = @ \ {d}]
    <3>1. sup'.pc = "dests" /\ sup'.todo \subseteq sup.todo /\ sup'.desired = sup.desired
      BY <1>2, <2>1, <2>5 DEF SupSet
    <3>2. Ended(d) /\ ~dest[d].alive /\ dest[d] \in DestSet
      BY <1>2, <1>3, <2>1, <2>5 DEF Kept, HasNoPump, Live, OnAir, Ended, Stopping
    <3>3. \A e \in Dests : Kept(e)'
      BY <2>1, <2>2, <2>5, <3>1, <3>2, StartKeepsKept DEF Stopping
    <3>4. QED
      BY <1>1, <1>3, <3>1, <3>3 DEF IInv, StartsWanted
  <2>6. CASE sup' = [sup EXCEPT !.todo = @ \ {d}] /\ UNCHANGED <<running, dest, pump>>
    <3>1. sup'.pc = "dests" /\ sup'.todo \subseteq sup.todo /\ sup'.desired = sup.desired
      BY <1>2, <2>1, <2>6 DEF SupSet
    <3>2. QED
      BY <1>1, <1>3, <2>1, <2>6, <3>1, QuietKeepsKept DEF IInv, StartsWanted
  <2>7. QED
    BY ONLY <2>3, <2>4, <2>5, <2>6, Zenon
<1>9. CASE TickEnds \/ ChangeWakes
  <2>1. /\ Idle.pc = "sleep" /\ Idle.todo = {}
        /\ Tick.pc = "remove" /\ Tick.todo = {}
    BY DEF Tick, Idle
  <2>2. /\ sup'.pc \in {"sleep", "remove"} /\ sup'.todo = {}
        /\ UNCHANGED <<dest, pump, running, pressed>> /\ ~(sup.pc = "stopping")
    BY <1>9, <2>1 DEF TickEnds, ChangeWakes
  <2>3. QED
    BY <1>1, <2>2, QuietKeepsKept DEF IInv, StartsWanted
<1>10. CASE TimerWakes
  <2>1. sup'.pc = "remove" /\ sup'.todo = {} /\ ~(sup.pc = "stopping")
    BY <1>10 DEF TimerWakes, Tick, Idle
  <2>2. UNCHANGED <<dest, pump, pressed>>
    BY <1>10 DEF TimerWakes
  <2>3. ASSUME NEW d \in Dests PROVE Kept(d)'
    <3>1. running'[d] = IF Place(d) = "done" THEN Off ELSE running[d]
      BY <1>10 DEF TimerWakes
    <3>2. QED
      BY <1>3, <2>1, <2>2, <3>1 DEF Kept, Live, HasNoPump, LetGo, Shortens, OnAir, Ended,
         Connecting, Place, Stopping
  <2>4. QED
    BY <1>1, <2>1, <2>3 DEF IInv, StartsWanted
<1>11. QED
  BY <1>4, <1>5, <1>6, <1>7, <1>8, <1>9, <1>10 DEF Supervise
-----------------------------------------------------------------------------
(* The theorems.                                                            *)

LEMMA InitEstablishesIInv == Init => IInv
<1>1. SUFFICES ASSUME Init PROVE IInv
  OBVIOUS
<1>2. StartsWanted
  BY <1>1 DEF Init, Idle, StartsWanted
<1>3. ASSUME NEW d \in Dests PROVE Kept(d)
  BY <1>1 DEF Init, Fresh, Gone, Kept, Live, HasNoPump, LetGo, Shortens, OnAir, Ended,
     Connecting, Place
<1>4. QED
  BY <1>1, <1>2, <1>3, InitIsTyped DEF IInv

LEMMA NextKeepsIInv ==
  ASSUME IInv, [Next]_vars
  PROVE  IInv'
<1>1. CASE Supervise
  BY <1>1, SuperviseKeepsIInv
<1>2. CASE \E d \in Dests : Pump(d) \/ ConnectFails(d)
  BY <1>2, PumpKeepsIInv
<1>3. CASE \E d \in Dests : PlatformDrops(d) \/ Streamer(d)
  BY <1>3, EventsKeepIInv
<1>4. CASE \E ok \in BOOLEAN : BuildEnds(ok)
  BY <1>4, BuildKeepsIInv
<1>5. CASE Environment \/ \E d \in Vertical : GracePasses(d)
  BY <1>5, EnvironmentKeepsIInv
<1>6. CASE UNCHANGED vars
  <2>1. TypeOK'
    BY NextKeepsTypes DEF IInv
  <2>2. QED
    BY <1>6, <2>1, Untouched DEF IInv, vars, StartsWanted, Stopping
<1>7. QED
  BY <1>1, <1>2, <1>3, <1>4, <1>5, <1>6 DEF Next

\* The inductive invariant holds of every reachable state.
THEOREM InductiveInvariant == Spec => []IInv
BY InitEstablishesIInv, NextKeepsIInv, PTL DEF Spec

\* A destination reads as live exactly while its pump has a session, whichever
\* task ended or aborted the pump.
THEOREM LiveIsOnAir == Spec => []LiveMeansOnAir
<1>1. IInv => LiveMeansOnAir
  BY DEF IInv, Kept, Live, LiveMeansOnAir
<1>2. QED
  BY <1>1, InductiveInvariant, PTL

\* A "Retry now" shortens the wait it was pressed in, and no later one that
\* follows a failure.
THEOREM RetriesAreOfTheirWait == Spec => []RetryShortensItsWait
<1>1. IInv => RetryShortensItsWait
  BY DEF IInv, Kept, Shortens, RetryShortensItsWait
<1>2. QED
  BY <1>1, InductiveInvariant, PTL

\* Only stop_pump and the quit raise a pump's flag.
LEMMA WhoStops ==
  ASSUME IInv, [Next]_vars, NEW d \in Dests, ~dest[d].shutdown, dest'[d].shutdown
  PROVE  \/ quit' = "closing"
         \/ StopUnwanted(d)
         \/ NoCanvas(d) /\ ~obs.hold
         \/ Turn(d) /\ (Settled \/ Place(d) = "done")
<1>1. dest \in [Dests -> DestSet] /\ dest[d] \in DestSet
  BY TypesNamed DEF IInv
<1>2. SUFFICES ASSUME ~(quit' = "closing")
               PROVE  \/ StopUnwanted(d)
                      \/ NoCanvas(d) /\ ~obs.hold
                      \/ Turn(d) /\ (Settled \/ Place(d) = "done")
  OBVIOUS
<1>3. ASSUME NEW e \in Dests, NEW then, NEW url, AskToStop(e, then, url) PROVE e = d
  BY <1>1, <1>3 DEF AskToStop
<1>4. ASSUME NEW e \in Dests, StopUnwanted(e) \/ NoCanvas(e) \/ Turn(e)
      PROVE  e = d
  <2>1. CASE StopUnwanted(e)
    BY <1>3, <2>1 DEF StopUnwanted
  <2>2. CASE NoCanvas(e)
    BY <1>3, <2>2 DEF NoCanvas
  <2>3. CASE Turn(e)
    <3>1. ASSUME NEW url, Start(e, url, dest[e]) PROVE FALSE
      <4>1. dest'[d] = dest[d] \/ ~dest'[d].shutdown
        BY <1>1, <3>1 DEF Start, Restarted, DestSet
      <4>2. QED
        BY <4>1
    <3>2. QED
      BY <1>3, <2>3, <3>1 DEF Turn
  <2>4. QED
    BY <1>4, <2>1, <2>2, <2>3
<1>5. CASE \E e \in Dests : StopUnwanted(e) \/ NoCanvas(e) \/ Turn(e)
  <2>1. StopUnwanted(d) \/ NoCanvas(d) \/ Turn(d)
    BY <1>4, <1>5
  <2>2. NoCanvas(d) => ~obs.hold
    BY DEF NoCanvas
  <2>3. ASSUME Turn(d) PROVE Settled \/ Place(d) = "done"
    <3>1. ASSUME NEW url, Start(d, url, dest[d]) PROVE FALSE
      <4>1. dest'[d] = dest[d] \/ ~dest'[d].shutdown
        BY <1>1, <3>1 DEF Start, Restarted, DestSet
      <4>2. QED
        BY <4>1
    <3>2. QED
      BY <2>3, <3>1 DEF Turn
  <2>4. QED
    BY <2>1, <2>2, <2>3
<1>6. CASE UnwantedGone \/ TickEnds \/ TimerWakes \/ ChangeWakes
  BY <1>6 DEF UnwantedGone, TickEnds, TimerWakes, ChangeWakes, Fresh
<1>7. CASE StopEnds
  <2>1. sup.at \in Dests /\ dest[sup.at] \in DestSet
    BY <1>1, <1>7 DEF IInv, TypeOK, StopEnds
  <2>2. Stopped(dest[sup.at]).shutdown = dest[sup.at].shutdown
    BY <2>1 DEF Stopped, DestSet
  <2>3. CASE sup.then = "start"
    <3>1. dest' = [dest EXCEPT ![sup.at] = IF MayStart THEN Restarted(sup.at, Stopped(dest[sup.at]))
                                                       ELSE Stopped(dest[sup.at])]
      BY <1>7, <2>3 DEF StopEnds, Start
    <3>2. ~Restarted(sup.at, Stopped(dest[sup.at])).shutdown
      BY <2>1 DEF Restarted, Stopped, DestSet
    <3>3. QED
      BY <1>1, <2>2, <3>1, <3>2
  <2>4. CASE sup.then # "start"
    <3>1. dest' = [dest EXCEPT ![sup.at] = IF sup.then = "remove" THEN Fresh
                                                                  ELSE Stopped(dest[sup.at])]
      BY <1>7, <2>4 DEF StopEnds
    <3>2. ~Fresh.shutdown
      BY DEF Fresh
    <3>3. QED
      BY <1>1, <2>2, <3>1, <3>2
  <2>5. QED
    BY <2>3, <2>4
<1>8. CASE \E e \in Dests : Pump(e) \/ ConnectFails(e) \/ PlatformDrops(e) \/ Streamer(e)
  <2>1. PICK e \in Dests : Pump(e) \/ ConnectFails(e) \/ PlatformDrops(e) \/ Streamer(e)
    BY <1>8
  <2>2. dest[e] \in DestSet
    BY <1>1
  <2>3. CASE dest' = dest
    BY <2>3
  <2>4. CASE Begin(e) \/ Connected(e) \/ Lasts(e)
    BY <1>1, <2>2, <2>4 DEF Begin, Connected, Lasts, DestSet
  <2>5. CASE PumpEnds(e)
    BY <1>1, <2>2, <2>5 DEF PumpEnds, SessionEnds, DestSet
  <2>6. CASE ConnectFails(e) \/ PlatformDrops(e)
    <3>1. /\ Failed(dest[e]).shutdown = dest[e].shutdown
          /\ [Failed(dest[e]) EXCEPT !.alive = FALSE].shutdown = dest[e].shutdown
      BY <2>2 DEF Failed, DestSet
    <3>2. dest' = [dest EXCEPT ![e] = Failed(@)]
          \/ dest' = [dest EXCEPT ![e] = [Failed(@) EXCEPT !.alive = FALSE]]
      BY <2>6 DEF ConnectFails, PlatformDrops
    <3>3. QED
      BY <1>1, <3>1, <3>2
  <2>7. CASE WaitIsOver(e) \/ SessionGiven(e) \/ RetryNow(e)
    BY <1>1, <2>2, <2>7 DEF WaitIsOver, Retries, SessionGiven, RetryNow, DestSet
  <2>8. QED
    BY <2>1, <2>3, <2>4, <2>5, <2>6, <2>7 DEF Pump, HourPasses, StopAtGate, Dial, StopInWait,
       HoldBegins, ScreenReady, BuildsScreen, Rejoin, Streamer, Configure
<1>9. CASE \E ok \in BOOLEAN : BuildEnds(ok)
  <2>1. dest' = dest \/ \E e \in Dests : SessionEnds(e)
    BY <1>9 DEF BuildEnds
  <2>2. ASSUME NEW e \in Dests, SessionEnds(e) PROVE dest'[d].shutdown = dest[d].shutdown
    BY <1>1, <2>2 DEF SessionEnds, DestSet
  <2>3. QED
    BY <2>1, <2>2
<1>10. CASE Environment \/ \E e \in Vertical : GracePasses(e)
  <2>1. \A kept : Forgotten(kept)[d].shutdown = dest[d].shutdown
    BY <1>1 DEF Forgotten, DestSet
  <2>2. CASE ObsGoes
    <3>1. PICK hold \in BOOLEAN :
            dest' = Forgotten(IF hold THEN {e \in Dests : dest[e].alive /\ Covers(e)} ELSE {})
      BY <2>2 DEF ObsGoes
    <3>2. QED
      BY <1>1, <3>1 DEF Forgotten, DestSet
  <2>3. CASE HoldEnds
    BY <2>1, <2>3 DEF HoldEnds
  <2>4. CASE dest' = dest
    BY <2>4
  <2>5. CASE Exit
    BY <2>5 DEF Exit, Fresh
  <2>6. CASE Quit
    BY <1>2, <2>6 DEF Quit
  <2>7. QED
    BY <1>10, <2>2, <2>3, <2>4, <2>5, <2>6 DEF Environment, GracePasses, ObsComes, Freezes,
       Thaws, TailEnds, CanvasSeen, ScreenForgotten
<1>11. QED
  BY <1>1, <1>5, <1>6, <1>7, <1>8, <1>9, <1>10 DEF Next, Supervise, vars

\* In a hold and in a tail a pump on air is left alone, whatever the streamer
\* edits: supervise_egress waits for the end of both before it replaces one.
THEOREM HeldPumpsAreLeftAlone == Spec => HeldPumpsStay
<1>1. ASSUME IInv, [Next]_vars, NEW d \in Dests, ~dest[d].shutdown, dest'[d].shutdown, OnAir(d),
             obs.hold \/ (TailLeft /\ Covers(d))
      PROVE  sup.desired[d] = Off \/ quit' = "closing"
  <2>1. CASE StopUnwanted(d)
    BY <2>1 DEF StopUnwanted
  <2>2. CASE NoCanvas(d) /\ ~obs.hold
    BY <1>1, <2>2 DEF NoCanvas, Covers
  <2>3. CASE Turn(d) /\ (Settled \/ Place(d) = "done")
    BY <1>1, <2>3 DEF Settled, OnAir
  <2>4. QED
    BY <1>1, <2>1, <2>2, <2>3, WhoStops
<1>2. IInv /\ [Next]_vars
        => [\A d \in Dests :
              /\ ~dest[d].shutdown /\ dest'[d].shutdown /\ OnAir(d)
              /\ obs.hold \/ (TailLeft /\ Covers(d))
              => sup.desired[d] = Off \/ quit' = "closing"]_vars
  BY <1>1
<1>3. QED
  BY <1>2, InductiveInvariant, PTL DEF Spec, HeldPumpsStay
=============================================================================
