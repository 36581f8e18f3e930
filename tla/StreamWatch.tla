------------------------------ MODULE StreamWatch ------------------------------
(***************************************************************************)
(* What the integrations take for one stream: the controller's events       *)
(* (src/src/controller.rs), the queue to the engine's thread and the engine *)
(* that follows them (src/src/integrations/engine.rs), and the stream's     *)
(* start and end read from them (src/src/integrations/session.rs).          *)
(*                                                                         *)
(* IngestSession's steps, each with the events its code emits, in order; the *)
(* engine is a thread of its own and follows them later.  A destination's   *)
(* own events, and the report they make, are left out, and so are sessions   *)
(* at Twitch and holds ended a store at a time by a control thread.         *)
(***************************************************************************)
EXTENDS IngestSession

CONSTANT QueueCap  \* how many events the queue holds

ASSUME QueueCapAssumption == QueueCap \in Nat \ {0}

VARIABLES
  queue,  \* events emitted and not followed yet
  watch,  \* Session: is a stream on (started)?  Did OBS drop without a hold, and
          \* has not come back since (dropped_at)?
  astray  \* history: was an event lost, or did a hold end with OBS connected, and
          \* has the engine not caught up since?

allVars == <<vars, queue, watch, astray>>

\* ObsConnected says whether it continues a held stream (history); OBS's
\* disconnects say whether they were a stop and whether a hold opened.
Came(resumed)           == [kind |-> "connected", resumed |-> resumed]
Went(stopped, holding)  == [kind |-> "disconnected", stopped |-> stopped, protected |-> holding]
HoldOpened              == [kind |-> "hold"]
ObsBack                 == [kind |-> "back"]
HoldExpired             == [kind |-> "expired"]
HoldEnded               == [kind |-> "ended"]
None                    == <<>>

Least(m, n) == IF m < n THEN m ELSE n

Fits(events) == SubSeq(events, 1, Least(Len(events), QueueCap))

Ends(events) == \E i \in DOMAIN events : events[i].kind \in {"expired", "ended"}

\* Handle::emit: an event that finds the queue full is lost.
Emits(events) ==
  /\ queue' = Fits(queue \o events)
  /\ astray' = \/ astray \/ Len(queue \o events) > QueueCap
               \/ Ends(events) /\ ingestAlive /\ ingestAlive'
  /\ UNCHANGED watch

\* resume_from_hold, after expire_hold.
ResumeEvents == IF ~Held THEN None ELSE IF Lapsed THEN <<HoldExpired>> ELSE <<ObsBack>>
-----------------------------------------------------------------------------
(* The controller's steps with what they emit.                              *)

PublishEmits(c) == Publish(c) /\ Emits(ResumeEvents \o <<Came(HoldActive)>>)

\* on_tag: a frozen OBS is back.
VideoEmits(c) == Video(c) /\ Emits(IF frozen THEN ResumeEvents ELSE None)

\* (Mutant: the drop is reported before the hold is decided.)
DropReportsFirst(c) ==
  /\ DropCurrent(c)
  /\ Emits(<<Went(unpublished, HoldActive)>>
           \o IF ~Held /\ HoldAtDeath.why # "none" THEN <<HoldOpened>> ELSE None)

\* mark_ingest_dead: the hold opens first, and the drop says so.
DropEmits(c) ==
  /\ DropCurrent(c)
  /\ Emits((IF ~Held /\ HoldAtDeath.why # "none" THEN <<HoldOpened>> ELSE None)
           \o <<Went(unpublished, OnAir(HoldAtDeath))>>)

\* (Mutant: a hold that runs out is only logged.)
ExpireSilently == Expire /\ Emits(None)

ExpireEmits == Expire /\ Emits(<<HoldExpired>>)

CheckFreezeEmits == CheckFreeze /\ Emits(<<HoldOpened>>)

ConfigureEmits(p) ==
  Configure(p) /\ Emits(IF frozen /\ ~p.enabled /\ Held THEN <<HoldEnded>> ELSE None)

EndHoldEmits == EndHoldNow /\ Emits(<<HoldEnded>>)

\* The rest emits nothing the engine looks at here.
Silent ==
  /\ \/ \E c \in Conns : Connect(c) \/ RejectPublish(c) \/ Goodbye(c) \/ DropOther(c)
     \/ Time \/ EndTail
     \/ \E d \in Dests : Pump(d)
  /\ Emits(None)

Controller ==
  \/ \E c \in Conns : PublishEmits(c) \/ VideoEmits(c) \/ DropEmits(c)
  \/ ExpireEmits \/ CheckFreezeEmits \/ EndHoldEmits
  \/ \E p \in Protections : ConfigureEmits(p)
  \/ Silent
-----------------------------------------------------------------------------
(* The engine: an event at a time, and a tick.                              *)

Between   == [on |-> FALSE, dropped |-> FALSE]
Streaming == [on |-> TRUE, dropped |-> FALSE]

\* (Mutant: OBS back within the grace does not call the end off.)
CameBackToTheEnd(w, e) == IF w.on THEN w ELSE [w EXCEPT !.on = TRUE]

\* ObsConnected starts a stream, or carries on the one that is on.
CameBack(w, e) == IF w.on THEN Streaming ELSE [w EXCEPT !.on = TRUE]

\* ObsDisconnected without a hold: a stop ends the stream, a drop may.
WentAway(w, e) ==
  IF e.protected THEN w
  ELSE IF e.stopped THEN Between
  ELSE [w EXCEPT !.dropped = TRUE]

\* Session::observe
Observed(w, e) == CASE e.kind = "connected"            -> CameBack(w, e)
                    [] e.kind = "disconnected"         -> WentAway(w, e)
                    [] e.kind \in {"expired", "ended"} -> Between
                    [] OTHER                           -> w

Follow ==
  /\ queue # <<>>
  /\ watch' = Observed(watch, Head(queue))
  /\ queue' = Tail(queue)
  /\ astray' = (astray /\ ~(ingestAlive /\ watch' = Streaming /\ queue' = <<>>))
  /\ UNCHANGED vars

\* watch_session, Session::expire: a tick END_GRACE after the drop, or later.
EndsAfterGrace ==
  /\ watch.dropped
  /\ watch' = Between
  /\ UNCHANGED <<queue, astray, vars>>

Engine == Follow \/ EndsAfterGrace
-----------------------------------------------------------------------------
WatchInit == Init /\ queue = <<>> /\ watch = Between /\ astray = FALSE
WatchNext == Controller \/ Engine

WatchSpec == WatchInit /\ [][WatchNext]_allVars

\* The engine's thread runs, time passes, and the supervisor ticks.
HoldRunsOut == (DeadlinePasses /\ Emits(None)) \/ ExpireEmits

FairWatchSpec == WatchSpec /\ WF_allVars(Engine) /\ WF_allVars(HoldRunsOut)
-----------------------------------------------------------------------------
\* While OBS sends video a stream is on, and nothing is about to end it, as soon
\* as the engine has followed what happened.
SendingIsAStream == ingestAlive /\ headers /\ ~frozen /\ queue = <<>> => watch = Streaming

\* That is so, but where an event was lost in a full queue or a hold ended while
\* OBS was connected, until the engine has caught up.
SendingIsAStreamUnlessAstray == SendingIsAStream \/ astray

\* OBS coming back into a hold continues its stream: no second one starts, with
\* reports and pings of its own.
ResumeIsNoSecondStream ==
  [][~astray /\ queue # <<>> /\ Head(queue).kind = "connected" /\ Head(queue).resumed
       /\ Follow => watch.on]_allVars

\* A stream OBS has left ends, unless OBS comes back.
StreamEnds == watch.on /\ ~ingestAlive ~> ~watch.on \/ ingestAlive \/ astray
=============================================================================
