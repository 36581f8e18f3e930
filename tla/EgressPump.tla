------------------------------ MODULE EgressPump ------------------------------
(***************************************************************************)
(* One destination's pump: run_egress and pump_dest of                     *)
(* src/src/controller.rs and the reconnect screen of src/src/crash_hold.rs, *)
(* over the buffer OBS fills and the hold the controller opens for it.     *)
(*                                                                         *)
(* The pump follows the buffer at the delay the streamer asked for.  It    *)
(* jumps (a cut) when the delay is not the one asked for, re-anchors when  *)
(* OBS comes back as a new publisher, plays the screen while OBS is gone,  *)
(* and gives every tag an output timestamp counted from its last jump.     *)
(*                                                                         *)
(* OBS sends a video tag per tick of the clock, a keyframe every Gop tags; *)
(* a tick stands for the half second between the pump's checks.  Between   *)
(* two awaits the pump is one step, and the clock waits while it has one.  *)
(* The buffer is DiskRing's, as TagWindow describes it.                    *)
(***************************************************************************)
EXTENDS Integers, FiniteSets, FiniteSetsExt

CONSTANTS
  Delays,        \* the delays a streamer may ask for, 0 (live) among them
  Gop,           \* tags from a keyframe to the next
  Cap,           \* tags the buffer holds when it is full
  Buffer,        \* target_buffer_ms, the armed delay: how far back it is wanted
  Slack,         \* BUFFER_SLACK_MS: how much further back it is kept
  Jitter,        \* DELAY_JITTER_MS
  Floor,         \* RECUT_DEAD_BAND_FLOOR_MS
  Search,        \* IDR_SEARCH_FLOOR_MS
  Margin,        \* FULL_RING_MARGIN_MS
  Grace,         \* REBUILD_GRACE
  FreezeAfter,   \* FREEZE_AFTER
  FirstVideo,    \* FIRST_VIDEO_GRACE
  HoldFor,       \* hold_secs
  Protected,     \* is crash protection on?
  Quiet,         \* bound on the ticks OBS sends nothing in
  Lag,           \* bound on the ticks the platform holds the pump up
  Events,        \* bound on drops, stops, ends and changes of the delay
  MaxPublishers, \* bound on the publishers
  MaxTime        \* bound on the clock

ASSUME DelaysAssumption == Delays \subseteq Nat /\ 0 \in Delays
ASSUME TimesAssumption ==
  /\ {Gop, Cap, FreezeAfter, HoldFor} \subseteq Nat \ {0}
  /\ {Buffer, Slack, Floor, Search, Margin, Grace} \subseteq Nat
  /\ Jitter \in Nat \ {0}    \* DELAY_JITTER_MS is a tick
  /\ FirstVideo \in Nat /\ FirstVideo >= FreezeAfter
ASSUME BoundsAssumption == {Quiet, Lag, Events, MaxPublishers, MaxTime} \subseteq Nat
ASSUME ProtectedAssumption == Protected \in BOOLEAN

VARIABLES
  now,     \* the clock
  ring,    \* the buffer: the input timestamp of each tag in it, by seq
  next,    \* the seq of the next tag
  obs,     \* OBS: token (publisher_token), alive (ingest_alive), the time its
           \* timestamps count from, the seq it starts at, whether it has sent
           \* in this tick, last_video_tag_ms, ingest_frozen
  hold,    \* the hold: open, its deadline, how the last one ended
           \* (last_hold_end), tail_plays_out, hold_tail_end_seq,
           \* resumed_after_seq
  target,  \* target_delay_ms
  fresh,   \* fresh_from_seq, from replay_floor_seq
  pump,    \* the pump: where it is and its EgressState
  left,    \* what is left of the bounds Quiet, Lag and Events
  owed,    \* history: is the delay longer than where the last jump landed?
  over     \* history: ticks the pump's session has outlived the stream

env  == <<ring, next, obs, hold, target, fresh>>
vars == <<now, env, pump, left, owed, over>>

None     == -1
Nowhere  == MaxTime + MaxPublishers + 1    \* u64::MAX: past every seq

Newest(S) == IF S = {} THEN None ELSE Max(S)
Oldest(S) == IF S = {} THEN None ELSE Min(S)
-----------------------------------------------------------------------------
(* The buffer.                                                              *)

Seqs      == DOMAIN ring
Idrs      == {s \in Seqs : (s - obs.start) % Gop = 0}
LatestSeq == Newest(Seqs)
LatestTs  == ring[Max(Seqs)]
Full      == Cardinality(Seqs) >= Cap

\* How late tag s is.
Age(s) == now - (obs.born + ring[s])

Upto(t) == {s \in Idrs : ring[s] <= t}

\* (Mutant: a delayed start may land before the freeze.)
DelayedIdrAnyAge(d) ==
  LET asked  == Newest(Upto(LatestTs - d))
      margin == Newest(Upto(ring[Min(Seqs)] + Margin))
  IN  IF Seqs = {} THEN None
      ELSE IF asked # None THEN asked
      ELSE IF ~Full THEN None
      ELSE IF margin # None THEN margin
      ELSE Oldest(Idrs)

\* delayed_idr: the newest keyframe at least d back, or what a full buffer has.
DelayedIdr(d) ==
  LET asked  == Newest(Upto(LatestTs - d))
      margin == Newest(Upto(ring[Min(Seqs)] + Margin))
  IN  IF Seqs = {} THEN None
      ELSE IF asked >= fresh THEN asked
      ELSE IF ~Full THEN None
      ELSE IF margin >= fresh THEN margin
      ELSE IF fresh = 0 THEN Oldest(Idrs) ELSE None

DelayReachable == target = 0 \/ DelayedIdr(target) # None
-----------------------------------------------------------------------------
(* The hold.                                                                *)

HoldActive   == hold.open /\ now < hold.ends
HoldLapsed   == hold.open /\ now >= hold.ends
HoldState    == IF HoldActive THEN "holding"
                ELSE IF ~hold.open /\ hold.lastEnd = "resumed" THEN "resumed" ELSE "ended"
ObsGone      == ~obs.alive \/ obs.frozen
TailPlaysOut == hold.tail \/ HoldLapsed
VideoFrozen  == obs.seen # None /\ now - obs.seen >= FreezeAfter
ObsSending   == obs.alive /\ ~VideoFrozen

\* delay_tail_sent, for a pump at seq s.
TailSentAt(s) == LET end == IF hold.tailEnd # None THEN hold.tailEnd ELSE LatestSeq
                 IN  end = None \/ s > end

OnAir == pump.pc \notin {"off", "dial"}    \* egress_alive

Started == [hold EXCEPT !.open = TRUE, !.ends = now + HoldFor, !.tail = FALSE,
                        !.tailEnd = LatestSeq]
MayStart == Protected /\ OnAir /\ ~hold.open

\* close_hold, and expire_hold
Closed(h) == [h EXCEPT !.open = FALSE, !.ends = 0, !.lastEnd = "ended"]
Expired   == IF HoldLapsed THEN [Closed(hold) EXCEPT !.tail = ObsGone] ELSE hold

\* resume_from_hold, on what hold has become; the buffer ends at seq after.
Resumed(h, after) == [h EXCEPT !.open = FALSE, !.ends = 0,
                               !.lastEnd = IF h.open THEN "resumed" ELSE @,
                               !.tail = FALSE, !.tailEnd = None, !.after = after]
-----------------------------------------------------------------------------
(* Where the pump goes next.  p is its state at that point.                 *)

NoPump == [pc |-> "off", token |-> 0, heard |-> 0, pos |-> Nowhere, anchor |-> 0, wall |-> 0,
           sent |-> 0, ts |-> 0, until |-> 0, checked |-> TRUE, seen |-> 0, tailing |-> FALSE,
           mark |-> None, goal |-> "none", after |-> None, since |-> None, last |-> 0,
           high |-> None, ref |-> None]

\* deleteStream, and back to run_egress.
Ended == NoPump

\* (Mutant: the new run goes on from the start of the last one.)
AnchoredAtBase(p, s) ==
  [p EXCEPT !.pos = s, !.anchor = ring[s], !.wall = now, !.sent = ring[s],
            !.high = Max({p.high - 1, None}),
            !.pc = "top", !.mark = None, !.goal = "none", !.heard = 0, !.until = 0, !.ts = 0]

\* A jump to keyframe s starts a run: its output timestamps go on one after
\* the last one sent.  high is the highest sent, counted from the run's base.
Anchored(p, s) ==
  LET beyond == p.high - (p.sent - p.anchor) - 1
  IN [p EXCEPT !.pos = s, !.anchor = ring[s], !.wall = now, !.sent = ring[s],
               !.high = IF beyond < None THEN None ELSE beyond,
               !.pc = "top", !.mark = None, !.goal = "none", !.heard = 0, !.until = 0, !.ts = 0]

\* After the screen the timeline goes on from its last frame.
Rebased(p) == [p EXCEPT !.high = p.high - p.last, !.anchor = p.sent, !.last = 0,
                        !.since = None, !.after = None, !.ref = None]

\* (Mutant: OBS's new video is joined at its first tag.)
RejoinFirst(from) ==
  LET back == Newest(Upto(IF LatestTs > target THEN LatestTs - target ELSE 0))
  IN  IF Seqs # {} /\ back >= from THEN back ELSE Oldest({s \in Seqs : s >= from})

\* rejoin_idr: the newest keyframe a delay back, or the first of OBS's new
\* video, which starts at seq from.
RejoinIdr(from) ==
  LET back == Newest(Upto(IF LatestTs > target THEN LatestTs - target ELSE 0))
  IN  IF Seqs # {} /\ back >= from THEN back ELSE Oldest({s \in Idrs : s >= from})

\* How stream_loop ends with OBS back.
Rejoined(p, from) ==
  LET q == [Rebased(p) EXCEPT !.token = IF p.goal = "join" THEN obs.token ELSE @]
      s == RejoinIdr(from)
  IN  IF s # None THEN Anchored([q EXCEPT !.token = obs.token], s)
      ELSE IF ~obs.alive THEN Ended
      ELSE [q EXCEPT !.pc = "await", !.mark = Max({from - 1, 0})]

\* (Mutant: the new video spans the delay from its first tag.)
RebuiltFromATag(p, first) ==
  \/ now - p.since >= target + Grace
  \/ first \in Seqs /\ LatestTs - ring[first] >= target

\* delay_rebuilt: OBS's new video starts at seq first, and either spans the
\* delay from its first keyframe or has had long enough to.
Rebuilt(p, first) ==
  LET key == Oldest({s \in Idrs : s >= first})
  IN  \/ now - p.since >= target + Grace
      \/ key # None /\ LatestTs - ring[key] >= target

\* stream_loop between two frames of the screen.
OnScreen(p) ==
  LET q     == IF p.since = None THEN [p EXCEPT !.since = now, !.after = hold.after] ELSE p
      first == IF q.after # None THEN q.after + 1 ELSE Oldest(Seqs)
  IN  IF HoldState = "holding" THEN [p EXCEPT !.since = None, !.after = None]
      ELSE IF HoldState = "ended" \/ ~obs.alive THEN Ended
      ELSE IF first # None /\ Rebuilt(q, first) THEN Rejoined(q, first)
      ELSE q

\* play: the screen's first frame comes one after the last tag sent.
PlayScreen(p, goal) ==
  OnScreen([p EXCEPT !.pc = "screen", !.goal = goal, !.wall = now, !.until = now,
                     !.last = p.sent - p.anchor + 1])

\* OBS is back from a hold with a delay on.
ResumedMidDelay == Protected /\ target > 0 /\ HoldState = "resumed"

\* wait_for_idr has found keyframe s, for the reason it was called.
Found(p, s) ==
  CASE p.goal = "rejoin" -> Anchored([p EXCEPT !.token = obs.token], s)
    [] p.goal = "reanchor" ->
         LET q == [p EXCEPT !.token = p.heard]
         IN  IF ResumedMidDelay THEN PlayScreen(q, "rejoin") ELSE Anchored(q, s)
    [] OTHER -> Anchored(p, s)

\* (Mutant: a pump waits for a keyframe whether or not OBS is there.)
AwaitIdrForEver(p) ==
  LET s == Newest(Idrs)
  IN IF s >= (IF p.mark = None THEN fresh ELSE p.mark + 1) THEN Found(p, s)
     ELSE [p EXCEPT !.pc = "await"]

\* wait_for_idr, for a keyframe after seq mark (None: any that is fresh).
AwaitIdr(p) ==
  LET s == Newest(Idrs)
  IN  IF s >= (IF p.mark = None THEN fresh ELSE p.mark + 1) THEN Found(p, s)
      ELSE IF ~obs.alive THEN Ended
      ELSE [p EXCEPT !.pc = "await"]

\* seed_idr
Seed(p) ==
  IF target = 0 THEN AwaitIdr([p EXCEPT !.mark = None, !.goal = "seed"])
  ELSE LET s == DelayedIdr(target)
       IN  IF s # None THEN Anchored(p, s)
           ELSE IF ~obs.alive THEN Ended
           ELSE [p EXCEPT !.pc = "seed"]

\* recut_dead_band_ms (its 500 ms are those of DELAY_JITTER_MS).
DeadBand == Max({Floor, Gop \div 2 + Jitter})

\* (Mutant: too little delay is restored whether or not OBS is there.)
DelayedCutInTail(s) ==
  LET delay   == LatestTs - ring[s]
      little  == delay + Jitter < target
      much    == delay > target + Max({DeadBand, Gop + Jitter})
      to      == DelayedIdr(target)
      further == to < s /\ LatestTs - ring[to] > delay + Jitter
  IN  IF (little \/ much) /\ to # None /\ (IF much THEN to > s ELSE further) THEN to ELSE None

\* compute_delayed_cut, for a pump at seq s.
DelayedCut(s) ==
  LET delay   == LatestTs - ring[s]
      little  == delay + Jitter < target
      much    == delay > target + Max({DeadBand, Gop + Jitter})
      to      == DelayedIdr(target)
      further == to < s /\ LatestTs - ring[to] > delay + Jitter
  IN  IF /\ little \/ much
         /\ ~(little /\ (HoldActive \/ ObsGone))
         /\ to # None
         /\ IF much THEN to > s ELSE further
      THEN to ELSE None

\* The way back to live: the newest keyframe, ahead only.
LiveCut(s) ==
  LET to == Newest(Idrs)
  IN  IF /\ LatestTs - ring[s] >= DeadBand
         /\ to > s /\ LatestTs - ring[to] <= Max({Search, Gop \div 2})
      THEN to ELSE None

\* compute_delay_cut
DelayCut(s) == IF target > 0 THEN DelayedCut(s) ELSE LiveCut(s)

\* The tag at the pump's place is there: look at the delay, at most once a
\* tick unless another was asked for, then take the tag.  One stamped before
\* the run's first would go back in time.
Take(p) ==
  LET due == target # p.seen \/ ~p.checked
      q   == IF due THEN [p EXCEPT !.checked = TRUE, !.seen = target] ELSE p
      to  == DelayCut(p.pos)
  IN  IF due /\ to # None THEN Anchored(q, to)
      ELSE IF ring[p.pos] < p.anchor THEN [q EXCEPT !.pos = @ + 1, !.pc = "top"]
      ELSE [q EXCEPT !.pc = "pace", !.ts = ring[p.pos], !.until = 0]

\* next_or_wait: a pump the buffer has left behind cuts to its oldest keyframe.
Follow(p) ==
  IF Seqs # {} /\ p.pos < Min(Seqs) /\ Idrs # {} THEN Anchored(p, Min(Idrs))
  ELSE IF p.pos \in Seqs THEN Take(p)
  ELSE [p EXCEPT !.pc = "wait", !.until = now + 1]

\* The publisher is another one: wait for a keyframe of its own.
Reanchor(p) ==
  AwaitIdr([p EXCEPT !.heard = obs.token, !.goal = "reanchor",
                     !.mark = IF LatestSeq = None THEN 0 ELSE LatestSeq])

\* (Mutant: a pump that has aired the tail waits for more of it.)
TurnAfterTail(p) ==
  LET gone == ObsGone \/ HoldActive
      q    == IF gone /\ ~HoldActive THEN [p EXCEPT !.tailing = TRUE] ELSE p
  IN  IF gone /\ ~HoldActive /\ ~TailPlaysOut THEN Ended
      ELSE IF HoldActive /\ TailSentAt(p.pos) THEN PlayScreen(p, "rejoin")
      ELSE IF obs.token # q.token THEN (IF q.tailing THEN Ended ELSE Reanchor(q))
      ELSE Follow(q)

\* The head of pump_dest's loop.
Turn(p) ==
  LET gone == ObsGone \/ HoldActive
      q    == IF gone /\ ~HoldActive THEN [p EXCEPT !.tailing = TRUE] ELSE p
  IN  IF gone /\ ~HoldActive /\ (~TailPlaysOut \/ TailSentAt(p.pos)) THEN Ended
      ELSE IF HoldActive /\ TailSentAt(p.pos) THEN PlayScreen(p, "rejoin")
      ELSE IF obs.token # q.token THEN (IF q.tailing THEN Ended ELSE Reanchor(q))
      ELSE Follow(q)
-----------------------------------------------------------------------------
(* The pump's steps.                                                        *)

\* How long a session may take to notice that the stream is over: a pump does
\* not look while it waits for a tag's time or for its platform.
LastWords == 1 + Quiet + Lag

\* No OBS, no hold, and nothing left to air: of a delayed stream's tail, what
\* the pump has yet to send.
StreamOver == ~obs.alive /\ ~HoldActive /\ (~TailPlaysOut \/ TailSentAt(pump.pos))

\* Does a run start at q?
Lands(q) == /\ q.pc = "top"
            /\ \/ pump.pc \in {"dial", "seed", "await", "screen"}
               \/ q.pos \notin {pump.pos, pump.pos + 1}
               \/ q.anchor # pump.anchor

\* The pump goes to q.
Goes(q) ==
  /\ pump' = q
  /\ owed' = IF Lands(q) THEN Age(q.pos) < target ELSE owed
  /\ UNCHANGED <<now, env>>
  /\ over' = IF (StreamOver /\ OnAir)' THEN over ELSE 0

Steps(q) == Goes(q) /\ UNCHANGED left

Event == left.events > 0 /\ left' = [left EXCEPT !.events = @ - 1]

\* run_egress: OBS is sending and a delayed join is possible, or the hold's
\* screen is on.
MayDial == (ObsSending /\ DelayReachable) \/ HoldActive

Dial == pump.pc = "off" /\ MayDial /\ Steps([pump EXCEPT !.pc = "dial"])

\* pump_dest, up to its first await.
Connected ==
  /\ pump.pc = "dial"
  /\ LET p == [NoPump EXCEPT !.token = obs.token]
     IN  Steps(IF HoldActive THEN PlayScreen(p, "join") ELSE Seed(p))

\* The platform refuses the connection, or drops it.
PlatformDrops == pump.pc # "off" /\ Goes(Ended) /\ Event

Loop == pump.pc = "top" /\ Steps(Turn(pump))

Seeds  == pump.pc = "seed" /\ Seed(pump) # pump /\ Steps(Seed(pump))
Awaits == pump.pc = "await" /\ AwaitIdr(pump) # pump /\ Steps(AwaitIdr(pump))

\* next_or_wait wakes up: what woke it may be of another publisher.
Wake == /\ pump.pc = "wait"
        /\ pump.pos \in Seqs \/ now >= pump.until
        /\ Steps(IF pump.pos \in Seqs /\ obs.token = pump.token
                THEN Take(pump) ELSE [pump EXCEPT !.pc = "top", !.until = 0])

OutTs == pump.ts - pump.anchor

\* pace_and_send: the tag's time has come.  If it is still in the buffer it
\* is on its way to the platform, otherwise it is passed over.
Air ==
  /\ pump.pc = "pace"
  /\ now >= pump.wall + OutTs
  /\ Steps(IF pump.pos \in Seqs
          THEN [pump EXCEPT !.pc = "send", !.high = Max({@, OutTs}), !.ref = pump.pos]
          ELSE [pump EXCEPT !.pc = "top", !.pos = @ + 1, !.ts = 0])

Sent == /\ pump.pc = "send"
        /\ Steps([pump EXCEPT !.pc = "top", !.pos = @ + 1, !.sent = Max({@, pump.ts}), !.ts = 0])

\* A frame of the screen, and a look at the hold.
Frame ==
  /\ pump.pc = "screen" /\ now >= pump.until
  /\ LET ts == pump.sent - pump.anchor + 1 + (pump.until - pump.wall)
     IN  Steps(OnScreen([pump EXCEPT !.last = ts, !.high = ts, !.until = @ + 1]))

\* The screen's frames are many to a tick, and each looks at the hold.
Look == pump.pc = "screen" /\ OnScreen(pump) # pump /\ Steps(OnScreen(pump))

Pump == Dial \/ Connected \/ PlatformDrops \/ Loop \/ Seeds \/ Awaits \/ Wake \/ Air \/ Sent
        \/ Frame \/ Look
-----------------------------------------------------------------------------
(* OBS, the supervisor and the streamer.                                    *)

\* Not a step of the pump nor of the clock.
Around == /\ UNCHANGED <<now, pump>>
          /\ over' = IF StreamOver' /\ OnAir THEN over ELSE 0

\* What append and trim_older_than leave of the buffer once it holds a tag of
\* time ts: never less than the pump or a delay of the whole buffer needs.
Trimmed(r, ts) ==
  LET last == Max(DOMAIN r)
      held == IF Cardinality(DOMAIN r) > Cap THEN DOMAIN r \ {Min(DOMAIN r)} ELSE DOMAIN r
      key  == Newest({s \in held : (s - obs.start) % Gop = 0 /\ r[s] <= Max({ts - Buffer, 0})})
      need == Min({pump.pos, IF key = None THEN Nowhere ELSE key})
      old  == {s \in held : s < need /\ r[s] < ts - Buffer - Slack}
  IN  [s \in held \ old |-> r[s]]

\* mark_replay_floor, when the hold is over.
Floored(ended) == IF ended /\ Seqs # {} THEN LatestSeq + 1 ELSE fresh

\* on_tag: a video tag.  With it a frozen OBS is back.
OnTag ==
  /\ obs.alive /\ ~obs.sentNow
  /\ LET ts    == now - obs.born
         aired == Seqs # {} /\ ts - target > LatestTs
     IN /\ ring' = Trimmed([s \in Seqs \union {next} |-> IF s = next THEN ts ELSE ring[s]], ts)
        /\ next' = next + 1
        /\ IF obs.frozen
           THEN /\ hold' = Resumed(Expired, LatestSeq)
                /\ fresh' = Floored(~HoldActive \/ aired)
           ELSE UNCHANGED <<hold, fresh>>
  /\ obs' = [obs EXCEPT !.sentNow = TRUE, !.frozen = FALSE,
                        !.seen = IF Protected THEN now ELSE None]
  /\ UNCHANGED <<target, owed>>
  /\ UNCHANGED left
  /\ Around

\* begin_publish: the slot is free, or taken by a publisher that is frozen.
Publish ==
  /\ obs.token < MaxPublishers
  /\ ~obs.alive \/ VideoFrozen
  /\ obs' = [token |-> obs.token + 1, alive |-> TRUE, born |-> now, start |-> next,
             sentNow |-> FALSE, frozen |-> FALSE,
             seen |-> IF HoldActive THEN now + FirstVideo - FreezeAfter ELSE None]
  /\ ring' = [s \in {} |-> 0]
  /\ hold' = Resumed(Expired, None)
  /\ fresh' = 0
  /\ UNCHANGED <<next, target, owed>>
  /\ UNCHANGED left
  /\ Around

\* mark_ingest_dead: OBS stopped on purpose or vanished.
Drop(stopped) ==
  /\ obs.alive
  /\ obs' = [obs EXCEPT !.alive = FALSE]
  /\ LET h == IF stopped
              THEN IF hold.open THEN Closed(hold) ELSE hold
              ELSE IF MayStart THEN Started ELSE hold
         active == h.open /\ now < h.ends
     IN  hold' = IF active THEN h ELSE [h EXCEPT !.tail = TRUE, !.tailEnd = LatestSeq]
  /\ UNCHANGED <<ring, next, target, fresh, owed>>
  /\ Event
  /\ Around

\* check_ingest_freeze
CheckFreeze ==
  /\ obs.alive /\ ~obs.frozen /\ VideoFrozen
  /\ MayStart
  /\ hold' = Started
  /\ obs' = [obs EXCEPT !.frozen = TRUE]
  /\ UNCHANGED <<ring, next, target, fresh, owed>>
  /\ UNCHANGED left
  /\ Around

Settle(h) == /\ hold' = h
             /\ UNCHANGED <<ring, next, obs, target, fresh, owed>>
             /\ Around

Expire == HoldLapsed /\ Settle(Expired) /\ UNCHANGED left

\* end_hold_now
EndHoldNow == hold.open /\ Settle([Closed(hold) EXCEPT !.tail = FALSE]) /\ Event

\* tail_left, as far as it is known here
TailMayBeLeft == ObsGone /\ ~HoldActive /\ TailPlaysOut /\ OnAir

\* end_tail_now
EndTailNow == TailMayBeLeft /\ ~hold.open /\ Settle([hold EXCEPT !.tail = FALSE]) /\ Event

\* The delay asked for: one is switched on when the buffer holds it or is full;
\* one that is on is changed at once; a cut (stop_delay) ends a tail that airs.
Ask(d) ==
  /\ d # target
  /\ target = 0 => obs.alive /\ Seqs # {} /\ (LatestTs - ring[Min(Seqs)] >= d \/ Full)
  /\ target' = d
  /\ owed' = (d > 0 /\ (owed \/ d > target))
  /\ hold' = IF d = 0 /\ TailMayBeLeft THEN [hold EXCEPT !.tail = FALSE] ELSE hold
  /\ UNCHANGED <<ring, next, obs, fresh>>
  /\ Event
  /\ Around

\* The platform holds the pump up: between attempts, connecting or sending.
HeldUp == pump.pc \in {"dial", "send"} \/ (pump.pc = "off" /\ MayDial)

\* The pump has nothing to do before the clock moves.
Idle ==
  IF HeldUp THEN left.lag > 0
  ELSE \/ pump.pc = "off"
       \/ pump.pc = "seed" /\ Seed(pump) = pump
       \/ pump.pc = "await" /\ AwaitIdr(pump) = pump
       \/ pump.pc = "wait" /\ pump.pos \notin Seqs /\ now < pump.until
       \/ pump.pc = "pace" /\ now < pump.wall + OutTs
       \/ pump.pc = "screen" /\ now < pump.until /\ OnScreen(pump) = pump

Silent == obs.alive /\ ~obs.sentNow

Tick ==
  /\ now < MaxTime /\ obs.token > 0
  /\ Idle
  /\ Silent => left.quiet > 0
  /\ now' = now + 1
  /\ obs' = [obs EXCEPT !.sentNow = FALSE]
  /\ pump' = IF OnAir THEN [pump EXCEPT !.checked = FALSE] ELSE pump
  /\ left' = [left EXCEPT !.quiet = IF Silent THEN @ - 1 ELSE @,
                          !.lag = IF HeldUp THEN @ - 1 ELSE @]
  /\ UNCHANGED <<ring, next, hold, target, fresh, owed>>
  /\ over' = IF StreamOver' /\ OnAir THEN Min({over + 1, LastWords + 1}) ELSE 0

Stream == \/ OnTag \/ Publish \/ CheckFreeze \/ Expire \/ EndHoldNow \/ EndTailNow
          \/ \E stopped \in BOOLEAN : Drop(stopped)
          \/ \E d \in Delays : Ask(d)

Init ==
  /\ now = 0
  /\ ring = [s \in {} |-> 0] /\ next = 0
  /\ obs = [token |-> 0, alive |-> FALSE, born |-> 0, start |-> 0, sentNow |-> FALSE,
            frozen |-> FALSE, seen |-> None]
  /\ hold = [open |-> FALSE, ends |-> 0, lastEnd |-> "none", tail |-> FALSE,
             tailEnd |-> None, after |-> None]
  /\ target \in Delays
  /\ fresh = 0
  /\ pump = NoPump
  /\ left = [quiet |-> Quiet, lag |-> Lag, events |-> Events]
  /\ owed = FALSE /\ over = 0

Next == Pump \/ Stream \/ Tick

Spec == Init /\ [][Next]_vars
-----------------------------------------------------------------------------
\* Output timestamps never go back: a tag is sent after everything that was
\* sent before it in its session, across cuts, re-anchors and the reconnect
\* screen (apply_cut, reseed_after_publisher_change, play).
ClockNeverGoesBack == [][Air /\ pump'.pc = "send" => OutTs > pump.high]_vars

\* Has tag s been overwritten?
Overwritten(s) == Seqs # {} /\ s < Min(Seqs)

\* A platform's decoder is not handed a tag without the ones it builds on.
\* What is sent is a keyframe, or follows the last one sent, or a tag that was
\* overwritten while the pump waited for its time; and every jump is to a
\* keyframe.
DecodeChain ==
  [][/\ Air /\ pump'.pc = "send" =>
          pump.pos \in Idrs \/ pump.ref = pump.pos - 1 \/ Overwritten(pump.pos - 1)
     /\ pump'.pos \notin {pump.pos, pump.pos + 1, Nowhere} => pump'.pos \in Idrs]_vars

\* What is over for viewers is not gone back to: once a freeze is over, neither
\* a pump that starts nor a cut back lands on what OBS sent before it
\* (fresh_from_seq).  The screen's own rejoin keeps to OBS's new video.
NoJumpBehindTheFreeze == [][pump'.pos < pump.pos /\ pump.pc # "screen" => pump'.pos >= fresh]_vars

\* The screen gives way to a stream as late as asked, or when the wait has run
\* out: viewers of a delayed stream never see live (stream_loop).
ScreenKeepsTheDelay ==
  [][/\ pump.pc = "screen" /\ pump'.pc = "top"
     /\ pump.since # None => now - pump.since < target + Grace
     => Age(pump'.pos) >= target]_vars

\* A new publisher's stream reaches viewers at the delay asked for: nothing from
\* a new OBS session airs undelayed (user_sim.rs).
NewStreamAirsDelayed ==
  [][pump.goal = "reanchor" /\ pump'.pc = "top" => Age(pump'.pos) >= target]_vars

\* Has OBS missed a tick since tag s?
Gap(s) == Age(LatestSeq) > 0 \/ LatestTs - ring[s] # LatestSeq - s

\* Nothing airs twice, unless the delay asks for it: viewers are sent back only
\* for a delay longer than where the last jump landed, or for one that shrank
\* because OBS missed a moment of it; and never while OBS is gone, when there
\* is nothing but the delay left to air (delay_sim.rs, hold_sim.rs).
OnlyARaiseReplays ==
  [][pump'.pos < pump.pos /\ pump.pos # Nowhere
     => ~ObsGone /\ ~HoldActive /\ (owed \/ Gap(pump'.pos))]_vars

\* A platform is told of the end: once nothing is left to air, the tail of a
\* delayed stream included, no session goes on for longer than a pump may be
\* waiting (pump_dest, wait_for_idr: "live but frozen").
OverMeansOff == over <= LastWords
=============================================================================
