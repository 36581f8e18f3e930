---------------------------- MODULE IngestSession ----------------------------
(***************************************************************************)
(* The publisher slot, the crash-protection hold and the Twitch sessions   *)
(* that hang on them: src/src/controller.rs from begin_publish to          *)
(* expire_hold, the connections of src/src/rtmp/server.rs, the Enhanced    *)
(* Broadcasting proxy of src/src/web.rs, and what the supervisor of        *)
(* src/src/main.rs does about holds and VOD-audio sessions.                *)
(*                                                                         *)
(* One OBS at a time publishes.  When it goes, by a goodbye, a crash or a  *)
(* freeze, a hold may keep the destinations live on a reconnect screen     *)
(* until it is back.  Each destination may have a session of its own at    *)
(* Twitch (an override of its URL) that belongs to one stream of OBS.      *)
(*                                                                         *)
(* The runtime has a single thread, so what happens between two awaits is  *)
(* one step here.  Hotkeys, MIDI and integrations end holds from threads   *)
(* of their own, a store at a time.  Times are reduced to what they        *)
(* decide: whether the hold's deadline, or the freeze limit, has passed.   *)
(***************************************************************************)
EXTENDS Integers, Sequences

CONSTANTS Conns,        \* connections to the ingest port
          Dests,        \* destinations, all on Twitch
          Nobody,       \* no destination
          Plans,        \* which of them a streamer may want sessions for
          Coverable,    \* those whose video the reconnect screen can match
          Controls,     \* threads that may end a hold
          Protections,  \* crash-protection settings a streamer may choose
          Freezes,      \* may a connected OBS stop sending video?
          EarlyAsks,    \* may OBS ask for a config while the slot is taken?
          MaxToken,     \* bound on the publishers of a behaviour
          MaxSession    \* bound on the EB sessions Twitch opens

Protection == [enabled : BOOLEAN, everyDisconnect : BOOLEAN]

ASSUME DestsAssumption == Nobody \notin Dests /\ Coverable \subseteq Dests
ASSUME PlansAssumption == Plans \subseteq [eb : Dests \union {Nobody}, vod : SUBSET Dests]
ASSUME ProtectionsAssumption == Protections \subseteq Protection
ASSUME BoundsAssumption == MaxToken \in Nat /\ MaxSession \in Nat
ASSUME SwitchesAssumption == Freezes \in BOOLEAN /\ EarlyAsks \in BOOLEAN

VARIABLES
  guard,        \* per connection: Closed, Open, or its publisher token
  token,        \* publisher_token
  ingestAlive,  \* ingest_alive: the slot is taken
  unpublished,  \* unpublish_received: the publisher said goodbye
  headers,      \* are there video sequence headers to match a screen to?
  video,        \* last_video_tag_ms: none yet, fresh, or past the freeze limit
  frozen,       \* ingest_frozen
  protection,   \* the crash-protection settings as the controller knows them
  plan,         \* the destination OBS's Enhanced Broadcasting config is for, and
                \* those that want a VOD-audio session
  hold,         \* hold (why, over), hold_open, last_hold_end, tail_plays_out,
                \* eb_session_claimed
  egress,       \* per destination: down, dialing, or up (egress_alive)
  override,     \* eb_override_url per destination
  epoch,        \* session_epoch per destination
  pending,      \* vod_fetch_pending per destination
  flights,      \* the VOD-session requests in flight per destination
  ebSession,    \* eb_session: the session OBS was last given, or 0
  asking,       \* is a request for an EB config waiting on Twitch?
  opened,       \* EB sessions Twitch has opened
  tickSaw,      \* ingest_alive as the supervisor read it atop its loop
  control,      \* where each control thread is in end_hold_now
  goodbyes,     \* history: publishing connections that said goodbye
  stream,       \* history: number of the stream (a resume continues it)
  handed,       \* history: the EB session the next publisher was given, or 0
  ebOf,         \* history: the one the current publisher was given, or 0
  used,         \* history: the sessions publishers were given
  ebAstray,     \* history: has the session OBS was last given, or the lack of one,
                \* been passed over by a drop, a new hold or a takeover?
  tookOver      \* history: did this stream take a frozen one's slot with no hold on?

slot     == <<guard, token, ingestAlive, unpublished>>
watched  == <<headers, video, frozen>>
sessions == <<override, epoch, ebSession>>
fetching == <<pending, flights>>
proxy    == <<asking, opened, handed>>
history  == <<goodbyes, stream, ebOf, used, ebAstray, tookOver>>
rest     == <<protection, plan, egress, tickSaw, control>>
vars     == <<slot, watched, hold, sessions, fetching, proxy, history, rest>>

Closed == -1
Open   == 0

\* A destination's session: none, an EB session by its number, or a
\* VOD-audio session by the stream it was opened for.
NoSession == [kind |-> "none", of |-> 0]
Eb(n)     == [kind |-> "eb", of |-> n]
Vod(n)    == [kind |-> "vod", of |-> n]

NoHold == [why |-> "none", over |-> FALSE, open |-> FALSE,
           lastEnd |-> "none", tail |-> FALSE, claimed |-> FALSE]

EbDest     == plan.eb
VodDests   == plan.vod
Held       == hold.why # "none"
Lapsed     == Held /\ hold.over
OnAir(h)   == h.open /\ h.why # "none" /\ ~h.over
HoldActive == OnAir(hold)
Live       == {d \in Dests : egress[d] = "up"}
ObsGone    == ~ingestAlive \/ frozen
Covers(d)  == headers /\ d \in Coverable
Current(c) == guard[c] > Open /\ guard[c] = token

Init ==
  /\ guard = [c \in Conns |-> Closed]
  /\ token = 0 /\ ingestAlive = FALSE /\ unpublished = FALSE
  /\ headers = FALSE /\ video = "none" /\ frozen = FALSE
  /\ protection \in Protections /\ plan \in Plans
  /\ hold = NoHold
  /\ egress = [d \in Dests |-> "down"]
  /\ override = [d \in Dests |-> NoSession] /\ epoch = [d \in Dests |-> 0]
  /\ pending = [d \in VodDests |-> FALSE] /\ flights = [d \in VodDests |-> <<>>]
  /\ ebSession = 0 /\ asking = FALSE /\ opened = 0
  /\ tickSaw = FALSE
  /\ control = [t \in Controls |-> "idle"]
  /\ goodbyes = {} /\ stream = 0 /\ handed = 0 /\ ebOf = 0 /\ used = {}
  /\ ebAstray = FALSE /\ tookOver = FALSE
-----------------------------------------------------------------------------
(* Opening and closing a hold.                                              *)

\* start_hold opens one only when it is enabled, none is open, and a
\* destination is live to protect.
MayStartHold == protection.enabled /\ Live # {} /\ ~Held
Started(why) == [hold EXCEPT !.why = why, !.over = FALSE, !.open = TRUE,
                             !.tail = FALSE, !.claimed = FALSE]

\* close_hold, which does nothing when none is open.
ClosedAs(h, end) ==
  IF h.why = "none" THEN h
  ELSE [h EXCEPT !.why = "none", !.over = FALSE, !.open = FALSE, !.lastEnd = end]

\* (Mutant: whatever OBS has asked for since.)
ForgottenRegardless(alive) == IF Held /\ ~alive THEN Dests ELSE {}

\* The destinations whose sessions close_hold(ENDED) forgets: all of them,
\* unless OBS is still there or has asked for a config since.
ForgottenAtEnd(alive) == IF Held /\ ~alive /\ ~hold.claimed THEN Dests ELSE {}

\* (Mutant: the hold stays open.)
StillHeld == [hold EXCEPT !.tail = FALSE]

\* OBS is sending again: a lapsed hold ends first, an open one resumes.
Resumed == [ClosedAs(IF Lapsed THEN ClosedAs(hold, "ended") ELSE hold, "resumed")
            EXCEPT !.tail = FALSE]

\* (Mutant: the epoch stays, so a request in flight still counts.)
InvalidateUrlOnly(ds) ==
  /\ override' = [d \in Dests |-> IF d \in ds THEN NoSession ELSE override[d]]
  /\ UNCHANGED epoch

\* invalidate_session_override, for each of the destinations ds.
Invalidate(ds) ==
  /\ override' = [d \in Dests |-> IF d \in ds THEN NoSession ELSE override[d]]
  /\ epoch' = [d \in Dests |-> IF d \in ds THEN epoch[d] + 1 ELSE epoch[d]]

\* tail_left, but for how much of the delay is left.
TailMayBeLeft == ObsGone /\ ~HoldActive /\ (hold.tail \/ Lapsed) /\ Live # {}
-----------------------------------------------------------------------------
(* The ingest's connections.                                                *)

Connect(c) ==
  /\ guard[c] = Closed
  /\ guard' = [guard EXCEPT ![c] = Open]
  /\ UNCHANGED <<token, ingestAlive, unpublished, watched, hold, sessions, fetching,
                 proxy, history, rest>>

\* begin_publish: the slot is free, or its publisher is frozen.  OBS only
\* publishes once its request for a config is answered.
Publish(c) ==
  /\ token < MaxToken
  /\ guard[c] = Open \/ Current(c)
  /\ ~asking
  /\ ~ingestAlive \/ video = "stale"
  /\ LET unclaimed == /\ HoldActive /\ ~hold.claimed
                      /\ ebSession # 0
         forgotten == IF Lapsed THEN ForgottenAtEnd(FALSE)
                      ELSE {d \in Dests : unclaimed /\ d = EbDest
                                          /\ override[d] = Eb(ebSession)}
     IN  /\ Invalidate(forgotten)
         /\ ebSession' = IF unclaimed THEN 0 ELSE ebSession
  /\ guard' = [guard EXCEPT ![c] = token + 1]
  /\ token' = token + 1
  /\ ingestAlive' = TRUE /\ unpublished' = FALSE
  /\ headers' = FALSE /\ frozen' = FALSE
  /\ video' = IF HoldActive THEN "fresh" ELSE "none"
  /\ hold' = Resumed
  /\ stream' = IF HoldActive THEN stream ELSE stream + 1
  /\ ebOf' = handed /\ handed' = 0 /\ used' = used \union {handed}
  /\ ebAstray' = IF handed # 0 THEN ebAstray ELSE ingestAlive /\ ~Held
  /\ tookOver' = IF HoldActive THEN tookOver ELSE ingestAlive /\ ~Held
  /\ goodbyes' = goodbyes \ {c}
  /\ UNCHANGED <<fetching, asking, opened, rest>>

\* A publish the slot is not free for ends its connection.
RejectPublish(c) ==
  /\ guard[c] = Open
  /\ ingestAlive /\ video # "stale"
  /\ guard' = [guard EXCEPT ![c] = Closed]
  /\ UNCHANGED <<token, ingestAlive, unpublished, watched, hold, sessions, fetching,
                 proxy, history, rest>>

\* on_tag, a video tag with the headers that came before it: a frozen OBS is
\* back.
Video(c) ==
  /\ Current(c)
  /\ headers' = TRUE
  /\ video' = IF protection.enabled THEN "fresh" ELSE video
  /\ frozen' = FALSE
  /\ hold' = IF frozen THEN Resumed ELSE hold
  /\ UNCHANGED <<slot, sessions, fetching, proxy, history, rest>>

\* (Mutant: the goodbye of a replaced publisher counts for the new one.)
GoodbyeOfAnyone(c) ==
  /\ guard[c] > Open
  /\ unpublished' = TRUE
  /\ goodbyes' = goodbyes \union {c}
  /\ UNCHANGED <<guard, token, ingestAlive, watched, hold, sessions, fetching, proxy,
                 stream, ebOf, used, ebAstray, tookOver, rest>>

\* FCUnpublish or deleteStream.
Goodbye(c) ==
  /\ Current(c)
  /\ unpublished' = TRUE
  /\ goodbyes' = goodbyes \union {c}
  /\ UNCHANGED <<guard, token, ingestAlive, watched, hold, sessions, fetching, proxy,
                 stream, ebOf, used, ebAstray, tookOver, rest>>

\* (Mutant: a replaced publisher frees the slot when it hangs up.)
DropFreesSlot(c) ==
  /\ guard[c] # Closed /\ ~Current(c)
  /\ guard' = [guard EXCEPT ![c] = Closed]
  /\ ingestAlive' = (ingestAlive /\ guard[c] = Open)
  /\ goodbyes' = goodbyes \ {c}
  /\ UNCHANGED <<token, unpublished, watched, hold, sessions, fetching, proxy, stream,
                 ebOf, used, ebAstray, tookOver, rest>>

\* end_publish with a stale token, or a connection that never published: also
\* what a message from a replaced publisher leads to.
DropOther(c) ==
  /\ guard[c] # Closed /\ ~Current(c)
  /\ guard' = [guard EXCEPT ![c] = Closed]
  /\ goodbyes' = goodbyes \ {c}
  /\ UNCHANGED <<token, ingestAlive, unpublished, watched, hold, sessions, fetching,
                 proxy, stream, ebOf, used, ebAstray, tookOver, rest>>

\* (Mutant: a goodbye during a freeze leaves its hold open.)
HoldSurvivesGoodbye ==
  IF (~unpublished \/ protection.everyDisconnect) /\ MayStartHold
  THEN Started(IF unpublished THEN "stopped" ELSE "crash") ELSE hold

\* mark_ingest_dead: the hold is decided before ingest reads as dead, and a
\* destination the hold keeps live keeps its session.
HoldAtDeath ==
  IF ~unpublished \/ protection.everyDisconnect
  THEN IF MayStartHold THEN Started(IF unpublished THEN "stopped" ELSE "crash") ELSE hold
  ELSE ClosedAs(hold, "ended")

\* (Mutant: a hold keeps destinations live, but not their sessions.)
KeepsNobody(h) == {}

HoldKeeps(h) == IF OnAir(h) THEN {d \in Live : Covers(d)} ELSE {}

DropCurrent(c) ==
  /\ Current(c)
  /\ guard' = [guard EXCEPT ![c] = Closed]
  /\ unpublished' = FALSE /\ ingestAlive' = FALSE
  /\ hold' = IF OnAir(HoldAtDeath) THEN HoldAtDeath ELSE [HoldAtDeath EXCEPT !.tail = TRUE]
  /\ Invalidate(Dests \ HoldKeeps(HoldAtDeath))
  /\ goodbyes' = goodbyes \ {c}
  /\ ebAstray' = (handed # 0 /\ (ebAstray \/ ~Held \/ EbDest \notin HoldKeeps(HoldAtDeath)))
  /\ UNCHANGED <<token, watched, ebSession, fetching, proxy, stream, ebOf, used, tookOver,
                 rest>>

Ingest(c) == Connect(c) \/ Publish(c) \/ RejectPublish(c) \/ Video(c) \/ Goodbye(c)
             \/ DropOther(c) \/ DropCurrent(c)
-----------------------------------------------------------------------------
(* The supervisor's tick, and what time does.                               *)

\* (Mutant: only a hold the pumps still see open expires.)
ExpireIfOpen ==
  /\ Lapsed /\ hold.open
  /\ hold' = [ClosedAs(hold, "ended") EXCEPT !.tail = ObsGone]
  /\ Invalidate(ForgottenAtEnd(ingestAlive))
  /\ UNCHANGED <<slot, watched, ebSession, fetching, proxy, history, rest>>

\* expire_hold
Expire ==
  /\ Lapsed
  /\ hold' = [ClosedAs(hold, "ended") EXCEPT !.tail = ObsGone]
  /\ Invalidate(ForgottenAtEnd(ingestAlive))
  /\ UNCHANGED <<slot, watched, ebSession, fetching, proxy, history, rest>>

\* check_ingest_freeze
CheckFreeze ==
  /\ ~frozen /\ ingestAlive /\ video = "stale"
  /\ MayStartHold
  /\ hold' = Started("freeze")
  /\ frozen' = TRUE
  /\ ebAstray' = (ebAstray \/ handed # 0)
  /\ UNCHANGED <<slot, headers, video, sessions, fetching, proxy, goodbyes, stream, ebOf,
                 used, tookOver, rest>>

\* update_crash_protection: switched off in a freeze, the freeze is over, and
\* end_hold_now ends its hold.  With none open it ends a tail still airing, of
\* an OBS whose connection is gone: one that is connected is gone no longer.
Configure(p) ==
  /\ p # protection
  /\ protection' = p
  /\ video' = IF p.enabled THEN video ELSE "none"
  /\ frozen' = (frozen /\ p.enabled)
  /\ IF frozen /\ ~p.enabled /\ Held
     THEN hold' = [ClosedAs(hold, "ended") EXCEPT !.tail = FALSE]
          /\ Invalidate(ForgottenAtEnd(ingestAlive))
     ELSE /\ \/ UNCHANGED hold
             \/ /\ frozen /\ ~p.enabled /\ ~ingestAlive /\ TailMayBeLeft
                /\ hold' = [hold EXCEPT !.tail = FALSE]
          /\ UNCHANGED <<override, epoch>>
  /\ UNCHANGED <<slot, headers, ebSession, fetching, proxy, history, plan, egress,
                 tickSaw, control>>

TickReads ==
  /\ tickSaw' = ingestAlive
  /\ UNCHANGED <<slot, watched, hold, sessions, fetching, proxy, history, protection,
                 plan, egress, control>>

DeadlinePasses ==
  /\ Held /\ ~hold.over
  /\ hold' = [hold EXCEPT !.over = TRUE]
  /\ UNCHANGED <<slot, watched, sessions, fetching, proxy, history, rest>>

VideoStops ==
  /\ Freezes
  /\ ingestAlive /\ video = "fresh"
  /\ video' = "stale"
  /\ UNCHANGED <<slot, headers, frozen, hold, sessions, fetching, proxy, history, rest>>

Supervise == Expire \/ CheckFreeze \/ TickReads \/ \E p \in Protections : Configure(p)
Time == DeadlinePasses \/ VideoStops
-----------------------------------------------------------------------------
(* end_hold_now: the dashboard's in one step, a control thread's in four.   *)

\* end_tail_now: end_hold_now's way when no hold is open, and stop_delay's
\* whether or not one that has run out is still to be closed.
EndTail ==
  /\ TailMayBeLeft
  /\ hold' = [hold EXCEPT !.tail = FALSE]
  /\ UNCHANGED <<slot, watched, sessions, fetching, proxy, history, rest>>

EndHoldNow ==
  /\ Held
  /\ hold' = [ClosedAs(hold, "ended") EXCEPT !.tail = FALSE]
  /\ Invalidate(ForgottenAtEnd(ingestAlive))
  /\ UNCHANGED <<slot, watched, ebSession, fetching, proxy, history, rest>>

Moves(t, from, to) ==
  /\ control[t] = from
  /\ control' = [control EXCEPT ![t] = to]
  /\ UNCHANGED <<slot, watched, ebSession, fetching, proxy, history, protection, plan,
                 egress, tickSaw>>

TakeHold(t) ==
  /\ Held
  /\ Moves(t, "idle", "close")
  /\ hold' = [hold EXCEPT !.why = "none", !.over = FALSE, !.lastEnd = "ended"]
  /\ UNCHANGED <<override, epoch>>

CloseHold(t) ==
  /\ Moves(t, "close", "forget")
  /\ hold' = [hold EXCEPT !.open = FALSE]
  /\ UNCHANGED <<override, epoch>>

ForgetSessions(t) ==
  /\ Moves(t, "forget", "tail")
  /\ Invalidate(IF ~ingestAlive /\ ~hold.claimed THEN Dests ELSE {})
  /\ UNCHANGED hold

DropTail(t) ==
  /\ Moves(t, "tail", "idle")
  /\ hold' = [hold EXCEPT !.tail = FALSE]
  /\ UNCHANGED <<override, epoch>>

EndHold(t) == TakeHold(t) \/ CloseHold(t) \/ ForgetSessions(t) \/ DropTail(t)
-----------------------------------------------------------------------------
(* The pumps, as far as they matter here: one connects while OBS sends or a *)
(* hold it can cover is on, and may lose its platform at any time.          *)

Egress(d, from, to) ==
  /\ egress[d] = from
  /\ egress' = [egress EXCEPT ![d] = to]
  /\ UNCHANGED <<slot, watched, hold, sessions, fetching, proxy, history, protection,
                 plan, tickSaw, control>>

IngestSending == ingestAlive /\ video # "stale"

Dial(d)      == (IngestSending \/ (HoldActive /\ Covers(d))) /\ Egress(d, "down", "dialing")
Connected(d) == Egress(d, "dialing", "up")
GoDown(d)    == \E from \in {"dialing", "up"} : Egress(d, from, "down")

Pump(d) == Dial(d) \/ Connected(d) \/ GoDown(d)
-----------------------------------------------------------------------------
(* VOD-audio sessions: the supervisor asks Twitch for one per stream.       *)

\* The stream a session opened now is for: the one that is on, or the next.
StreamNow == IF ingestAlive \/ HoldActive THEN stream ELSE stream + 1

\* (Mutant: the latch is not looked at.)
ClaimUnlatched(d) ==
  /\ tickSaw
  /\ override[d] = NoSession
  /\ Len(flights[d]) < 2
  /\ pending' = [pending EXCEPT ![d] = TRUE]
  /\ flights' = [flights EXCEPT ![d] = Append(@, [epoch |-> epoch[d], of |-> StreamNow])]
  /\ UNCHANGED <<slot, watched, hold, sessions, proxy, history, rest>>

ClaimVodFetch(d) ==
  /\ tickSaw
  /\ override[d] = NoSession
  /\ ~pending[d]
  /\ pending' = [pending EXCEPT ![d] = TRUE]
  /\ flights' = [flights EXCEPT ![d] = Append(@, [epoch |-> epoch[d], of |-> StreamNow])]
  /\ UNCHANGED <<slot, watched, hold, sessions, proxy, history, rest>>

CompleteVodFetch(d, i, success) ==
  /\ LET f == flights[d][i]
     IN  override' = IF success /\ epoch[d] = f.epoch
                     THEN [override EXCEPT ![d] = Vod(f.of)] ELSE override
  /\ flights' = [flights EXCEPT ![d] = SubSeq(@, 1, i - 1) \o SubSeq(@, i + 1, Len(@))]
  /\ pending' = [pending EXCEPT ![d] = FALSE]
  /\ UNCHANGED <<slot, watched, hold, epoch, ebSession, proxy, history, rest>>

VodFetch(d) ==
  \/ ClaimVodFetch(d)
  \/ \E i \in DOMAIN flights[d], success \in BOOLEAN : CompleteVodFetch(d, i, success)
-----------------------------------------------------------------------------
(* Enhanced Broadcasting: OBS asks for a config before it publishes.  In a  *)
(* hold that keeps its session it is handed that one, otherwise Twitch is   *)
(* asked to open another.                                                   *)

\* OBS publishes on what it was given before it asks again.
MayAsk == EbDest # Nobody /\ ~asking /\ handed = 0 /\ (EarlyAsks \/ ~ingestAlive)

KeepsEbSession == HoldActive /\ ebSession # 0 /\ override[EbDest] = Eb(ebSession)

HandHeldConfig ==
  /\ MayAsk
  /\ KeepsEbSession
  /\ hold' = [hold EXCEPT !.claimed = TRUE]
  /\ handed' = ebSession /\ ebAstray' = FALSE
  /\ UNCHANGED <<slot, watched, sessions, fetching, asking, opened, goodbyes, stream, ebOf,
                 used, tookOver, rest>>

AskTwitch ==
  /\ MayAsk
  /\ ~KeepsEbSession
  /\ opened < MaxSession
  /\ asking' = TRUE
  /\ UNCHANGED <<slot, watched, hold, sessions, fetching, opened, handed, history, rest>>

\* The answer: the session's URL goes to its destination, and leaves any
\* other that had one.
TwitchAnswers ==
  /\ asking /\ asking' = FALSE
  /\ opened' = opened + 1
  /\ override' = [d \in Dests |-> IF d = EbDest THEN Eb(opened + 1) ELSE NoSession]
  /\ ebSession' = opened + 1
  /\ hold' = [hold EXCEPT !.claimed = TRUE]
  /\ handed' = opened + 1 /\ ebAstray' = FALSE
  /\ UNCHANGED <<slot, watched, epoch, fetching, goodbyes, stream, ebOf, used, tookOver, rest>>

\* No answer: OBS is given a fixed config, without a session.
TwitchFails ==
  /\ asking /\ asking' = FALSE
  /\ handed' = 0
  /\ UNCHANGED <<slot, watched, hold, sessions, fetching, opened, history, rest>>

Proxy == HandHeldConfig \/ AskTwitch \/ TwitchAnswers \/ TwitchFails
-----------------------------------------------------------------------------
Next == \/ \E c \in Conns : Ingest(c)
        \/ Supervise \/ Time
        \/ EndTail \/ EndHoldNow \/ \E t \in Controls : EndHold(t)
        \/ \E d \in Dests : Pump(d)
        \/ \E d \in VodDests : VodFetch(d)
        \/ Proxy

Spec == Init /\ [][Next]_vars

\* Time passes, and the supervisor ticks.
Fairness == WF_vars(DeadlinePasses) /\ WF_vars(Expire)

FairSpec == Spec /\ Fairness
-----------------------------------------------------------------------------
SessionSet == [kind : {"none", "eb", "vod"}, of : Nat]
FlightSet  == [epoch : Nat, of : Nat]
HoldSet    == [why : {"none", "crash", "freeze", "stopped"}, over : BOOLEAN,
               open : BOOLEAN, lastEnd : {"none", "resumed", "ended"},
               tail : BOOLEAN, claimed : BOOLEAN]

\* The type invariant.
TypeOK ==
  /\ guard \in [Conns -> Closed .. MaxToken] /\ token \in 0 .. MaxToken
  /\ ingestAlive \in BOOLEAN /\ unpublished \in BOOLEAN
  /\ headers \in BOOLEAN /\ video \in {"none", "fresh", "stale"} /\ frozen \in BOOLEAN
  /\ protection \in Protections /\ plan \in Plans
  /\ hold \in HoldSet
  /\ egress \in [Dests -> {"down", "dialing", "up"}]
  /\ override \in [Dests -> SessionSet] /\ epoch \in [Dests -> Nat]
  /\ pending \in [VodDests -> BOOLEAN]
  /\ flights \in [VodDests -> Seq(FlightSet)]
  /\ ebSession \in 0 .. MaxSession /\ asking \in BOOLEAN /\ opened \in 0 .. MaxSession
  /\ tickSaw \in BOOLEAN
  /\ control \in [Controls -> {"idle", "close", "forget", "tail"}]
  /\ goodbyes \subseteq Conns /\ stream \in Nat
  /\ handed \in 0 .. MaxSession /\ ebOf \in 0 .. MaxSession
  /\ used \subseteq 0 .. MaxSession /\ ebAstray \in BOOLEAN /\ tookOver \in BOOLEAN

\* The slot is taken exactly while the connection that holds the newest token
\* is open: a replaced publisher that hangs up late does not free it, and one
\* that is gone does not keep it.
SlotHasItsPublisher == ingestAlive <=> \E c \in Conns : Current(c)

\* The reconnect screen never airs over an OBS that is there and sending.
HoldMeansObsIsGone == HoldActive => ObsGone

\* A publisher that vanishes without a goodbye of its own, whatever earlier
\* connections said, leaves its live destinations on hold.  (A freeze hold
\* that has used up its time is not opened again, nor one that a control
\* thread is still closing.)
CrashIsProtected ==
  [][\A c \in Conns :
       /\ DropCurrent(c) /\ c \notin goodbyes
       /\ protection.enabled /\ Live # {}
       /\ Held => HoldActive
       => HoldActive']_vars

\* A stop is not mistaken for a crash, whether or not a freeze came before.
StopEndsTheStream ==
  [][\A c \in Conns :
       DropCurrent(c) /\ c \in goodbyes /\ ~protection.everyDisconnect
       => ~HoldActive']_vars

\* A destination on hold keeps its Twitch session: only a config OBS asked for
\* replaces it.
Kept(d) == HoldActive /\ d \in Live /\ Covers(d)
HeldDestinationKeepsItsSession ==
  [][\A d \in Dests : Kept(d)' /\ override[d] # NoSession
                      => override'[d] = override[d] \/ TwitchAnswers]_vars

\* One VOD-session request per destination at a time, across disconnects: the
\* latch is up exactly while one is in flight.
SingleFlight == \A d \in VodDests : Len(flights[d]) = (IF pending[d] THEN 1 ELSE 0)

\* While OBS publishes, and has been given nothing yet for its next publish,
\* its Enhanced Broadcasting destination goes to the session OBS was given for
\* this one; when it was given none, never to one an earlier publish was given:
\* "a stale override would force a non-EB stream onto an IVS endpoint that has
\* no allocated session" (mark_ingest_dead).
EbSessionIsThePublishers ==
  ingestAlive /\ handed = 0 =>
    /\ ebOf # 0 => override[EbDest] = Eb(ebOf)
    /\ \A d \in Dests : override[d].kind = "eb" => override[d].of \notin used \ {ebOf}

\* That is so through freezes, takeovers, holds, and requests made before the
\* old connection is known to be dead, but for a publish whose session was
\* given before a drop that does not keep it or before a hold opened, and one
\* without a session that takes a frozen slot over with no hold on.
EbSessionIsThePublishersUnlessAstray == EbSessionIsThePublishers \/ ebAstray

\* While OBS publishes, a VOD-audio session in use was opened for this stream,
\* whatever Twitch answers when, across drops, stops, freezes and holds; but for a
\* stream that took a frozen one's slot with no hold on (begin_publish), which goes
\* on with the sessions of that one.
VodSessionIsOfThisStream ==
  ingestAlive /\ ~tookOver =>
    \A d \in VodDests : override[d].kind = "vod" => override[d].of = stream

\* Every hold ends.
HoldEnds == Held ~> ~Held
=============================================================================
