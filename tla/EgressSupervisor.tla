--------------------------- MODULE EgressSupervisor ---------------------------
(***************************************************************************)
(* One pump per wanted destination and none for the others:                *)
(* supervise_egress and stop_pump of src/src/main.rs, run_egress and "Retry *)
(* now" of src/src/controller.rs, and the cache of reconnect screens of    *)
(* src/src/crash_hold.rs the pumps share.                                  *)
(*                                                                         *)
(* Supervisor and pumps are tasks of one thread: a step runs to the next   *)
(* await.  What they share is a destination's state, and the state outlives *)
(* its pump: a flag one pump leaves is read by the next.  What a pump sends *)
(* is EgressPump's; here it is on air or not.  OBS, the hold and the tail  *)
(* are IngestSession's; here they come and go.  No delay is armed.         *)
(***************************************************************************)
EXTENDS Integers, FiniteSets

CONSTANTS
  Dests,     \* destinations
  Vertical,  \* those that air OBS's 9:16 canvas
  Urls,      \* URLs a streamer may give a destination
  BadUrl,    \* one that does not parse
  Saved,     \* settings the program may start with
  Off,       \* a destination removed or switched off
  Session,   \* the URL of a session at Twitch
  Watched,   \* those the liveness properties are about
  Prebuilds, \* are screens built ahead of a hold?
  Nobody,    \* no caller
  Events     \* bound on what OBS, the platform and the streamer do

ASSUME DestsAssumption == Vertical \subseteq Dests /\ Watched \subseteq Dests /\ Nobody \notin Dests
ASSUME UrlsAssumption == /\ BadUrl \notin Urls /\ {Off, Session} \cap (Urls \union {BadUrl}) = {}
                         /\ Off # Session
ASSUME SavedAssumption == Saved \subseteq [Dests -> Urls \union {BadUrl, Off}]
ASSUME BoundsAssumption == Events \in Nat /\ Prebuilds \in BOOLEAN

VARIABLES
  want,     \* the settings: each destination's URL, or Off
  obs,      \* alive (ingest_alive), hold (hold_active), tail (tail_plays_out),
            \* canvas (vertical_track_on_wire)
  dest,     \* DestinationState: shutdown_requested, egress_alive, retry_now,
            \* failure, whether eb_override_url is set
  pump,     \* each destination's run_egress: where it is, and its URL
  sup,      \* the supervisor: where it is in its tick, what it has read
  running,  \* its map: the signature each pump was started with, or Off
  gone,     \* vertical_gone_since: not set, set, or set longer than the grace
  slate,    \* SlateCache: is the screen ready, for whom is it being built, by
            \* a task that runs?
  quit,     \* is the program shutting down, or gone?
  pressed,  \* history: was "Retry now" accepted in this wait?
  left      \* what is left of Events

streamer == <<want, left>>
vars == <<want, obs, dest, pump, sup, running, gone, slate, quit, pressed, left>>

Fresh == [shutdown |-> FALSE, alive |-> FALSE, retry |-> FALSE, failure |-> "none",
          session |-> FALSE]
Gone  == [pc |-> "none", url |-> Off]
Idle  == [pc |-> "sleep", desired |-> [d \in Dests |-> Off], todo |-> {}, saw |-> FALSE,
          at |-> Nobody, then |-> "sleep", url |-> Off]

\* The supervisor's tick has no awaits but these.
Awaits == sup.pc \in {"sleep", "stopping", "exited"}

Place(d)  == pump[d].pc
OnAir(d)  == Place(d) \in {"air", "slate", "build", "screen"}
Ended(d)  == Place(d) \in {"none", "done"}
Covers(d) == d \in Vertical => obs.canvas
Sending   == obs.alive /\ ~obs.hold
TailLeft  == obs.tail /\ ~obs.alive /\ ~obs.hold /\ \E d \in Dests : dest[d].alive

\* The URL a destination goes to: its session's while it has one.
Url(d) == IF dest[d].session THEN Session ELSE want[d]

Init ==
  /\ want \in Saved
  /\ obs \in [alive : BOOLEAN, hold : {FALSE}, tail : {FALSE}, canvas : {FALSE}]
  /\ dest = [d \in Dests |-> Fresh]
  /\ pump = [d \in Dests |-> Gone]
  /\ sup = [Idle EXCEPT !.pc = "remove", !.desired = want]
  /\ running = [d \in Dests |-> Off]
  /\ gone = [d \in Vertical |-> "no"]
  /\ slate = [ready |-> FALSE, for |-> Nobody, task |-> FALSE]
  /\ quit = "no"
  /\ pressed = [d \in Dests |-> FALSE]
  /\ left = Events
-----------------------------------------------------------------------------
(* The supervisor's tick.                                                   *)

\* The top of the tick: the settings it goes by.
Tick == [Idle EXCEPT !.pc = "remove", !.desired = want]

\* stop_pump, up to its await; the supervisor goes on at `then`.
AskToStop(d, then, url) ==
  /\ running' = [running EXCEPT ![d] = Off]
  /\ dest' = [dest EXCEPT ![d].shutdown = TRUE]
  /\ sup' = [sup EXCEPT !.pc = "stopping", !.at = d, !.then = then, !.url = url,
                        !.todo = @ \ {d}]

StopUnwanted(d) ==
  /\ sup.pc = "remove"
  /\ running[d] # Off /\ sup.desired[d] = Off
  /\ AskToStop(d, "remove", Off)
  /\ UNCHANGED <<streamer, obs, pump, gone, slate, quit, pressed>>

\* retain_destination_states, and what the rest of the tick goes by.
UnwantedGone ==
  /\ sup.pc = "remove"
  /\ \A d \in Dests : sup.desired[d] = Off => running[d] = Off
  /\ dest' = [d \in Dests |-> IF sup.desired[d] = Off THEN Fresh ELSE dest[d]]
  /\ gone' = [d \in Vertical |-> IF sup.desired[d] = Off THEN "no" ELSE gone[d]]
  /\ sup' = [sup EXCEPT !.pc = "dests", !.saw = obs.alive,
                        !.todo = {d \in Dests : sup.desired[d] # Off}]
  /\ UNCHANGED <<streamer, obs, pump, running, slate, quit, pressed>>

\* (Mutant: a flag an earlier stop left stays up.)
StartsOnOldFlag(d, s) == s

\* A new pump's state: a flag an earlier stop left is down.
Restarted(d, s) == [s EXCEPT !.shutdown = FALSE]

\* The supervisor spawns run_egress while OBS sends, or in a hold.
MayStart == sup.saw \/ obs.hold

Start(d, url, s) ==
  /\ dest' = [dest EXCEPT ![d] = IF MayStart THEN Restarted(d, s) ELSE s]
  /\ pump' = [pump EXCEPT ![d] = IF MayStart THEN [pc |-> "fresh", url |-> url] ELSE Gone]
  /\ running' = [running EXCEPT ![d] = IF MayStart THEN url ELSE Off]

\* (Mutant: a screen is built within the pump that asked for it.)
AbortWithItsBuild(d) == slate' = [slate EXCEPT !.task = @ /\ slate.for # d]

\* What is left of a pump is aborted.  A screen being built for it is built
\* by a task of its own.
Abort(d) == UNCHANGED slate

\* (Mutant: an aborted pump still reads as live.)
StoppedAsItIs(s) == s

Stopped(s) == [s EXCEPT !.alive = FALSE]

\* The rest of stop_pump: the pump has ended, or 1.5 s have passed.  Then a
\* removed destination's state goes, and a changed one's pump is replaced.
StopEnds ==
  LET d == sup.at IN
  /\ sup.pc = "stopping"
  /\ Abort(d)
  /\ IF sup.then = "start"
     THEN Start(d, sup.url, Stopped(dest[d]))
     ELSE /\ dest' = [dest EXCEPT ![d] = IF sup.then = "remove" THEN Fresh ELSE Stopped(@)]
          /\ pump' = [pump EXCEPT ![d] = Gone]
          /\ UNCHANGED running
  /\ sup' = [sup EXCEPT !.pc = IF sup.then = "remove" THEN "remove" ELSE "dests", !.at = Nobody, !.then = "sleep", !.url = Off]
  /\ UNCHANGED <<streamer, obs, gone, quit, pressed>>

\* The destination whose turn it is, in the order of the settings.
AtTurn == IF sup.pc = "dests" /\ sup.todo # {} THEN CHOOSE d \in sup.todo : TRUE ELSE Nobody

\* A vertical destination without its canvas has nothing to send: it is not
\* started, and stopped after a grace.
NoCanvas(d) ==
  /\ d = AtTurn
  /\ d \in Vertical /\ ~obs.canvas
  /\ gone' = [gone EXCEPT ![d] = IF @ = "no" THEN "counting" ELSE @]
  /\ IF gone[d] = "over" /\ ~obs.hold /\ running[d] # Off
     THEN AskToStop(d, "dests", Off)
     ELSE sup' = [sup EXCEPT !.todo = @ \ {d}] /\ UNCHANGED <<running, dest>>
  /\ UNCHANGED <<streamer, obs, pump, slate, quit, pressed>>

\* (Mutant: a change does not wait for the delay still airing.)
SettledInATail == ~obs.hold

\* A change waits for the end of a hold, and of a delay still airing.
Settled == ~obs.hold /\ ~TailLeft

\* A wanted destination's turn: start its pump, replace it, or leave it.  The
\* URL is the snapshot's, its session's the one it has now.
Turn(d) ==
  LET url == IF dest[d].session THEN Session ELSE sup.desired[d] IN
  /\ d = AtTurn
  /\ d \in Vertical => obs.canvas
  /\ gone' = [v \in Vertical |-> IF v = d THEN "no" ELSE gone[v]]
  /\ IF running[d] = Off
     THEN Start(d, url, dest[d]) /\ sup' = [sup EXCEPT !.todo = @ \ {d}]
     ELSE /\ IF (running[d] # url /\ Settled) \/ Place(d) = "done"
             THEN AskToStop(d, "start", url)
             ELSE sup' = [sup EXCEPT !.todo = @ \ {d}] /\ UNCHANGED <<running, dest>>
          /\ UNCHANGED pump
  /\ UNCHANGED <<streamer, obs, slate, quit, pressed>>

\* The tick's end; prebuild_for starts a build of a screen that is missing.
TickEnds ==
  /\ sup.pc = "dests" /\ sup.todo = {}
  /\ slate' = IF /\ Prebuilds /\ sup.saw /\ ~slate.ready /\ slate.for = Nobody
                 /\ \E d \in Dests : running[d] # Off /\ Covers(d)
              THEN [slate EXCEPT !.for = "prebuild", !.task = TRUE] ELSE slate
  /\ sup' = Idle
  /\ UNCHANGED <<streamer, obs, dest, pump, running, gone, quit, pressed>>

\* Two seconds have passed: pumps that ended leave the map.
TimerWakes ==
  /\ sup.pc = "sleep"
  /\ running' = [d \in Dests |-> IF Place(d) = "done" THEN Off ELSE running[d]]
  /\ sup' = Tick
  /\ UNCHANGED <<streamer, obs, dest, pump, gone, slate, quit, pressed>>

\* So does any change of the settings.
ChangeWakes ==
  /\ sup.pc = "sleep"
  /\ sup' = Tick
  /\ UNCHANGED <<want, left, obs, dest, pump, running, gone, slate, quit, pressed>>

Supervise == \/ UnwantedGone \/ StopEnds \/ TickEnds
             \/ TimerWakes \/ ChangeWakes
             \/ \E d \in Dests : StopUnwanted(d) \/ NoCanvas(d) \/ Turn(d)
-----------------------------------------------------------------------------
(* run_egress.                                                              *)

Goes(d, to) == pump' = [pump EXCEPT ![d].pc = to]

Happens == Awaits /\ left > 0 /\ left' = left - 1

\* A task runs while the supervisor awaits, and leaves it and the world alone.
Elsewhere == Awaits /\ UNCHANGED <<streamer, obs, sup, running, gone, quit>>

\* The first poll clears the failure of the pump before it.
Begin(d) ==
  /\ Place(d) = "fresh"
  /\ dest' = [dest EXCEPT ![d].failure = IF pump[d].url = BadUrl THEN "bad" ELSE "none"]
  /\ Goes(d, IF pump[d].url = BadUrl THEN "bad" ELSE "gate")
  /\ Elsewhere /\ UNCHANGED <<slate, pressed>>

\* A URL that does not parse: the pump sleeps for an hour and ends.
HourPasses(d) ==
  /\ Place(d) = "bad"
  /\ Goes(d, "done")
  /\ Elsewhere /\ UNCHANGED <<dest, slate, pressed>>

\* The gate: told to stop, waiting for OBS, or off to the platform.
StopAtGate(d) ==
  /\ Place(d) = "gate" /\ dest[d].shutdown
  /\ Goes(d, "done")
  /\ Elsewhere /\ UNCHANGED <<dest, slate, pressed>>

Dial(d) ==
  /\ Place(d) = "gate" /\ ~dest[d].shutdown
  /\ Sending \/ (obs.hold /\ Covers(d))
  /\ Goes(d, "dial")
  /\ Elsewhere /\ UNCHANGED <<dest, slate, pressed>>

Connected(d) ==
  /\ Place(d) = "dial"
  /\ dest' = [dest EXCEPT ![d].alive = TRUE]
  /\ Goes(d, "air")
  /\ Elsewhere /\ UNCHANGED <<slate, pressed>>

\* (Mutant: "Retry now" is not taken back before the wait.)
FailedKeepingRetry(s) == [s EXCEPT !.failure = "waiting"]

\* A failure: "Retry now" is reset before the time of the retry is shown.
Failed(s) == [s EXCEPT !.retry = FALSE, !.failure = "waiting"]

Waits(d) == Goes(d, "wait") /\ pressed' = [pressed EXCEPT ![d] = FALSE]

ConnectFails(d) ==
  /\ Place(d) = "dial"
  /\ dest' = [dest EXCEPT ![d] = Failed(@)]
  /\ Waits(d)
  /\ Elsewhere /\ UNCHANGED <<slate>>

\* A session of 30 s proves the platform works.
Lasts(d) ==
  /\ OnAir(d) /\ dest[d].failure # "none"
  /\ dest' = [dest EXCEPT ![d].failure = "none"]
  /\ Elsewhere /\ UNCHANGED <<pump, slate, pressed>>

\* The session ended for a reason that is not the platform's.
SessionEnds(d) ==
  /\ \E brief \in BOOLEAN :
       dest' = [dest EXCEPT ![d].alive = FALSE, ![d].failure = IF brief THEN @ ELSE "none"]
  /\ Waits(d)

\* pump_dest and stream_loop end on the flag, or with the stream; neither
\* looks while the screen is being fetched.
PumpEnds(d) ==
  /\ Place(d) \in {"air", "screen"}
  /\ \/ dest[d].shutdown
     \/ obs.hold /\ ~Covers(d)
     \/ ~obs.hold /\ ~obs.alive /\ (Place(d) = "air" => ~TailLeft)
  /\ SessionEnds(d)
  /\ Elsewhere /\ UNCHANGED <<slate>>

PlatformDrops(d) ==
  /\ Place(d) \in {"air", "screen"} /\ Happens
  /\ dest' = [dest EXCEPT ![d] = [Failed(@) EXCEPT !.alive = FALSE]]
  /\ Waits(d)
  /\ UNCHANGED <<want, obs, sup, running, gone, quit, slate>>

\* The wait before the next try.
StopInWait(d) ==
  /\ Place(d) = "wait" /\ dest[d].shutdown
  /\ Goes(d, "done")
  /\ Elsewhere /\ UNCHANGED <<dest, slate, pressed>>

Retries(d) == [dest EXCEPT ![d].retry = FALSE, ![d].failure = IF @ = "waiting" THEN "retrying" ELSE @]

WaitIsOver(d) ==
  /\ Place(d) = "wait" /\ ~dest[d].shutdown
  /\ dest' = Retries(d)
  /\ Goes(d, "gate")
  /\ Elsewhere /\ UNCHANGED <<slate, pressed>>

\* request_retry: only a destination that shows the time of its retry.
RetryNow(d) ==
  /\ dest[d].failure = "waiting" /\ ~dest[d].retry /\ Happens
  /\ dest' = [dest EXCEPT ![d].retry = TRUE]
  /\ pressed' = [pressed EXCEPT ![d] = TRUE]
  /\ UNCHANGED <<want, obs, sup, running, gone, quit, pump, slate>>
-----------------------------------------------------------------------------
(* The screen in a hold, from SlateCache::get.                              *)

HoldBegins(d) ==
  /\ Place(d) = "air" /\ obs.hold /\ Covers(d) /\ ~dest[d].shutdown
  /\ Goes(d, "slate")
  /\ Elsewhere /\ UNCHANGED <<dest, slate, pressed>>

\* A caller's poll: the screen is there, or this caller builds it, or it looks
\* again in 50 ms.
ScreenReady(d) ==
  /\ Place(d) = "slate" /\ slate.ready
  /\ Goes(d, "screen")
  /\ Elsewhere /\ UNCHANGED <<dest, slate, pressed>>

BuildsScreen(d) ==
  /\ Place(d) = "slate" /\ ~slate.ready /\ slate.for = Nobody
  /\ slate' = [slate EXCEPT !.for = d, !.task = TRUE]
  /\ Goes(d, "build")
  /\ Elsewhere /\ UNCHANGED <<dest, pressed>>

\* The build's task ends, with a screen or without.  Its caller is told, if it
\* still waits; without a screen it ends its session.
BuildEnds(ok) ==
  LET d == slate.for IN
  /\ slate.task
  /\ slate' = [ready |-> slate.ready \/ ok, for |-> Nobody, task |-> FALSE]
  /\ IF d \in Dests /\ Place(d) = "build"
     THEN IF ok THEN Goes(d, "screen") /\ UNCHANGED <<dest, pressed>> ELSE SessionEnds(d)
     ELSE UNCHANGED <<dest, pump, pressed>>
  /\ Elsewhere

\* OBS is back.
Rejoin(d) ==
  /\ Place(d) = "screen" /\ Sending /\ ~dest[d].shutdown
  /\ Goes(d, "air")
  /\ Elsewhere /\ UNCHANGED <<dest, slate, pressed>>

Pump(d) == \/ Begin(d) \/ HourPasses(d) \/ StopAtGate(d) \/ Dial(d) \/ Connected(d)
           \/ Lasts(d) \/ PumpEnds(d) \/ StopInWait(d) \/ WaitIsOver(d)
           \/ HoldBegins(d) \/ ScreenReady(d) \/ BuildsScreen(d) \/ Rejoin(d)
-----------------------------------------------------------------------------
(* OBS, the streamer, and the end of the program.                           *)

Tasks == <<sup, running, pump, gone, slate, pressed>>

\* The sessions go when OBS does, but for those a hold keeps.
Forgotten(kept) == [d \in Dests |-> IF d \in kept THEN dest[d] ELSE [dest[d] EXCEPT !.session = FALSE]]

\* OBS drops: a hold, a tail, or the end.
ObsGoes ==
  /\ obs.alive /\ Happens
  /\ \E hold, tail \in BOOLEAN :
       /\ hold => (obs.hold \/ \E d \in Dests : dest[d].alive)
       /\ obs' = [obs EXCEPT !.alive = FALSE, !.hold = hold, !.tail = tail /\ ~hold]
       /\ dest' = Forgotten(IF hold THEN {d \in Dests : dest[d].alive /\ Covers(d)} ELSE {})
  /\ UNCHANGED <<want, quit, Tasks>>

\* It publishes again; its vertical canvas is not on the wire yet.
ObsComes ==
  /\ ~obs.alive /\ Happens
  /\ obs' = [alive |-> TRUE, hold |-> FALSE, tail |-> FALSE, canvas |-> FALSE]
  /\ UNCHANGED <<want, dest, quit, Tasks>>

Freezes ==
  /\ Sending /\ Happens
  /\ \E d \in Dests : dest[d].alive
  /\ obs' = [obs EXCEPT !.hold = TRUE]
  /\ UNCHANGED <<want, dest, quit, Tasks>>

\* A freeze thaws.
Thaws ==
  /\ Awaits /\ obs.alive /\ obs.hold
  /\ obs' = [obs EXCEPT !.hold = FALSE]
  /\ UNCHANGED <<streamer, dest, quit, Tasks>>

\* The hold ends without OBS; a delay may still be airing.
HoldEnds ==
  /\ Awaits /\ ~obs.alive /\ obs.hold
  /\ \E tail \in BOOLEAN : obs' = [obs EXCEPT !.hold = FALSE, !.tail = tail]
  /\ dest' = Forgotten({})
  /\ UNCHANGED <<streamer, quit, Tasks>>

TailEnds ==
  /\ Awaits /\ obs.tail
  /\ obs' = [obs EXCEPT !.tail = FALSE]
  /\ UNCHANGED <<streamer, dest, quit, Tasks>>

CanvasSeen ==
  /\ Awaits /\ Vertical # {} /\ obs.alive /\ ~obs.canvas
  /\ obs' = [obs EXCEPT !.canvas = TRUE]
  /\ UNCHANGED <<streamer, dest, quit, Tasks>>

GracePasses(d) ==
  /\ Awaits /\ gone[d] = "counting"
  /\ gone' = [gone EXCEPT ![d] = "over"]
  /\ UNCHANGED <<streamer, obs, dest, quit, sup, running, pump, slate, pressed>>

\* The streamer edits a destination.
Configure(d, url) ==
  /\ url # want[d] /\ Happens
  /\ want' = [want EXCEPT ![d] = url]
  /\ UNCHANGED <<obs, dest, quit, Tasks>>

\* A session is opened at Twitch for a wanted destination.
SessionGiven(d) ==
  /\ want[d] \in Urls /\ ~dest[d].session /\ Happens
  /\ dest' = [dest EXCEPT ![d].session = TRUE]
  /\ UNCHANGED <<want, obs, quit, Tasks>>

\* The screen's look is changed, or crash protection switched off and on.
ScreenForgotten ==
  /\ slate.ready /\ Happens
  /\ slate' = [slate EXCEPT !.ready = FALSE]
  /\ UNCHANGED <<want, obs, dest, quit, sup, running, pump, gone, pressed>>

\* The program is quitting: every pump is told to stop, and 800 ms later it
\* is gone, whatever its tasks are doing.
Quit ==
  /\ quit = "no" /\ Happens
  /\ quit' = "closing"
  /\ dest' = [d \in Dests |-> [dest[d] EXCEPT !.shutdown = TRUE]]
  /\ UNCHANGED <<want, obs, Tasks>>

Exit ==
  /\ Awaits /\ quit = "closing"
  /\ quit' = "gone"
  /\ sup' = [Idle EXCEPT !.pc = "exited"]
  /\ pump' = [d \in Dests |-> Gone] /\ dest' = [d \in Dests |-> Fresh]
  /\ running' = [d \in Dests |-> Off]
  /\ slate' = [ready |-> FALSE, for |-> Nobody, task |-> FALSE]
  /\ left' = 0
  /\ UNCHANGED <<want, obs, gone, pressed>>

Streamer(d) == SessionGiven(d) \/ RetryNow(d)
               \/ \E url \in Urls \union {BadUrl, Off} : Configure(d, url)

Environment == \/ ObsGoes \/ ObsComes \/ Freezes \/ Thaws \/ HoldEnds \/ TailEnds
               \/ CanvasSeen \/ ScreenForgotten \/ Quit \/ Exit
-----------------------------------------------------------------------------
Next == \/ Supervise
        \/ \E d \in Dests : Pump(d) \/ ConnectFails(d) \/ PlatformDrops(d) \/ Streamer(d)
        \/ \E d \in Vertical : GracePasses(d)
        \/ \E ok \in BOOLEAN : BuildEnds(ok)
        \/ Environment

Spec == Init /\ [][Next]_vars

\* The supervisor ticks; between two ticks the runtime polls every task that is
\* ready; a connection tried again and again succeeds.
Fairness ==
  /\ WF_vars(Supervise)
  /\ \A d \in Watched : SF_vars(Pump(d)) /\ SF_vars(Connected(d))
  /\ SF_vars(\E ok \in BOOLEAN : BuildEnds(ok))

FairSpec == Spec /\ Fairness
-----------------------------------------------------------------------------
DestSet  == [shutdown : BOOLEAN, alive : BOOLEAN, retry : BOOLEAN, session : BOOLEAN,
             failure : {"none", "bad", "waiting", "retrying"}]
AllUrls  == Urls \union {BadUrl, Off, Session}
Places   == {"none", "fresh", "bad", "gate", "dial", "air", "slate", "build", "screen",
             "wait", "done"}
SupSet   == [pc : {"remove", "dests", "stopping", "sleep", "exited"},
             desired : [Dests -> AllUrls], todo : SUBSET Dests, saw : BOOLEAN,
             at : Dests \union {Nobody}, then : {"sleep", "remove", "dests", "start"},
             url : AllUrls]

\* The type invariant.
TypeOK ==
  /\ want \in [Dests -> Urls \union {BadUrl, Off}]
  /\ obs \in [alive : BOOLEAN, hold : BOOLEAN, tail : BOOLEAN, canvas : BOOLEAN]
  /\ dest \in [Dests -> DestSet]
  /\ pump \in [Dests -> [pc : Places, url : AllUrls]]
  /\ sup \in SupSet
  /\ sup.pc = "stopping" => sup.at \in Dests
  /\ running \in [Dests -> AllUrls]
  /\ gone \in [Vertical -> {"no", "counting", "over"}]
  /\ slate \in [ready : BOOLEAN, for : Dests \union {Nobody, "prebuild"}, task : BOOLEAN]
  /\ quit \in {"no", "closing", "gone"}
  /\ pressed \in [Dests -> BOOLEAN]
  /\ left \in 0 .. Events

\* A destination reads as live exactly while its pump has a session, even when
\* the pump was aborted in the middle of one: the hold, the tail and the
\* dashboard count live destinations.
LiveMeansOnAir == \A d \in Dests : dest[d].alive <=> OnAir(d)

\* In a hold, and while a delay airs on after OBS left, a live destination is
\* left alone, whatever is edited: only one that was switched off is stopped (or,
\* in a tail, a vertical one whose canvas never came).
HeldPumpsStay ==
  [][\A d \in Dests :
       /\ ~dest[d].shutdown /\ dest'[d].shutdown /\ OnAir(d)
       /\ obs.hold \/ (TailLeft /\ Covers(d))
       => sup.desired[d] = Off \/ quit' = "closing"]_vars

\* After a failure, only a "Retry now" of this very wait shortens it: not one
\* of an earlier wait, nor one its pump was replaced before reading.
RetryShortensItsWait ==
  \A d \in Dests : Place(d) = "wait" /\ dest[d].failure = "waiting" /\ dest[d].retry
                  => pressed[d]

\* The pumps follow the settings: a destination switched off loses its pump,
\* and a wanted one comes to air on the URL it has, unless OBS stops sending, its
\* canvas is missing or the program quits.
MayAir(d)  == want[d] \notin {Off, BadUrl} /\ Sending /\ Covers(d) /\ quit = "no"
Follows(d) == OnAir(d) /\ pump[d].url = Url(d)
PumpsFollowSettings ==
  \A d \in Watched : /\ want[d] = Off ~> Ended(d) \/ want[d] # Off
                     /\ MayAir(d) ~> Follows(d) \/ ~MayAir(d)

\* A pump that waits for the reconnect screen is served, though the pump that
\* was building it is aborted.
ScreenIsServed ==
  \A d \in Watched : Place(d) \in {"slate", "build"} ~> Place(d) \notin {"slate", "build"}
=============================================================================
