# InstantClone: a TLA+ model of the delay and multistream proxy

InstantClone sits between OBS and the streaming platforms.  OBS publishes once,
over RTMP, to a local server; every tag goes into a ring buffer in a file; and
one egress pump per destination reads the buffer and publishes to its platform,
either live or a chosen delay behind.  Arming, activating and cutting that delay
without breaking the outgoing stream, and keeping it up while OBS is away, is
what the program is for.

This directory holds TLA+ modules translated from the Rust source under
`src/src/`, TLC configurations that check them on small instances, and TLAPS
proofs.  `PROJECT.json` lists the components, the runs, the source lines each
definition stands for, the hazards (each at its line) and the theorems.

## The system

### Its parts

| Part | Source | State it keeps | Operations | What makes it correct |
|---|---|---|---|---|
| Disk ring | `buffer.rs` | file bytes, tag index, keyframe index, write cursor, next sequence number, codec headers | append (evict, write, index), trim, clear, look up, read by number, keyframe searches | a reader gets the whole tag of the number it asked for or nothing; numbers are consecutive and never used again; the keyframe index lists the keyframes still there |
| Ingest server | `rtmp/server.rs` | per connection: publish guard with its token | publish, media, goodbye, disconnect | a replaced connection changes nothing |
| Publisher slot | `controller.rs` `begin_publish` .. `end_publish` | `ingest_alive`, `publisher_token`, `unpublish_received`, `ingest_frozen` | claim, take over a frozen slot, release | the slot is taken exactly while its publisher is connected; a crash is told from a stop |
| Crash-protection hold | `controller.rs`, `crash_hold.rs` | `hold`, `hold_open`, `last_hold_end`, `tail_plays_out`, replay floor | open, resume, end, expire, play the reconnect screen | never up over an OBS that sends; every crash is covered; every hold ends |
| Delay control | `controller.rs` | `armed_delay_ms`, `target_delay_ms`, `auto_activate_pending`, `activate_once_ready`, `safe_cut_input_ts` | arm, disarm, activate, cut, schedule a cut, toggle | a cut sticks; the delay on air is the armed one; a safe cut belongs to the delay on air; a promised delay starts |
| Twitch sessions | `controller.rs`, `web.rs`, `main.rs` | `eb_override_url`, `session_epoch`, `vod_fetch_pending`, `eb_session` | proxy an Enhanced Broadcasting config, fetch a VOD-audio session, apply, invalidate | a destination goes to the session its publisher was given; no session of an earlier stream is used; one request at a time |
| Egress pump | `controller.rs` `run_egress`, `pump_dest` | per destination: connection, next sequence number, output clock, delay it was built for | connect, seed, rebuild, cut, pace, send, back off | each tag once and in order, from a keyframe after every jump, on a clock that never goes back |
| Egress supervisor | `main.rs`, `controller.rs` `run_egress` | running pumps and their signatures; per destination the shutdown, live and retry flags | start, stop, restart on change, dial, back off, retry now, auto-activate, tick the holds | one pump per wanted destination, none for the others; none restarted in a hold; a flag is read by the pump it is meant for |
| Input timestamps | `controller.rs` `expand_ts` | wrap count and last timestamp | 32-bit wire time to 64-bit time | a tag is read at the time it was stamped at, across a wrap |
| Login and ingest-key limiter | `auth.rs` | failures per address | allow, record | a locked-out address stays out |
| Reconnect-screen cache | `crash_hold.rs` `SlateCache` | encoded screens, encodes in progress | get, prebuild, clear | one encode per shape, nobody waits for ever |
| RTMP and AMF, codecs | `rtmp/chunk.rs`, `rtmp/amf0.rs`, `h264.rs`, `slate/*` | parser state | read, write, classify, encode | byte formats |
| Settings | `config.rs`, `instance_lock.rs`, `main.rs`, `web.rs` | the file, its `.tmp`, the copies set aside, the instance lock | load, save, set aside, publish | what the user was told is saved is there at the next start |
| Revisions, secrets | `revisions.rs`, `crypto.rs` | hashes, keys | number, seal | - |
| Dashboard, tray, hotkeys, MIDI | `web.rs`, `tray.rs`, `midi.rs` | sessions, bindings | call the delay control and the holds | - |
| Integrations | `integrations/*` | the event queue, the stream that is on, runs and their places, turns at Discord messages | follow events, start runs, wait, post and edit | one stream from its start to its end; one run at a time posts or edits a message, and the last edit is said |
| The rest | `obs_register.rs`, `self_update.rs`, `sink.rs`, ... | files | - | - |

### How they interact

* The ingest server decodes OBS's tags and hands them to `DelayController::on_tag`,
  which appends to the ring and trims it to what the armed delay needs.
* Every pump looks a tag up in the ring, waits for its time, and asks for the
  bytes by sequence number.  It reads the delay on air, the hold, and the
  session override of its destination from the controller's shared state.
* The supervisor ticks every two seconds: it starts and stops pumps, closes
  lapsed holds, detects a frozen OBS, auto-activates an armed delay, and asks
  Twitch for VOD-audio sessions.
* The dashboard's handlers call the controller on the runtime; hotkeys, the
  tray, MIDI and the integrations call it from threads of their own.
* OBS asks the Enhanced Broadcasting proxy in `web.rs` for a configuration
  before it publishes; the proxy asks Twitch and stores the session's URL as
  an override of one destination's.
* The controller emits events (OBS came, went, a hold opened, ended) into a
  bounded queue; the integrations' engine, a thread with a runtime of its own,
  follows them and starts runs, which take turns at what they share.
* A change from the dashboard is written to the settings file and then sent to
  the supervisor, which restarts what it concerns.  A restart launches the next
  program before it exits; an instance lock beside the file keeps them apart.

The async runtime has one thread (`main.rs`, `new_current_thread`), so
between two awaits a task is alone among tasks.  It is not alone among
threads: the controller's state is atomics and short locks, and the control
threads run between any two of its accesses.

### What is hard

The ring is overwritten while pumps read it: between looking a tag up and
reading it a pump waits for its clock and for the network, and the tag may be
evicted, the delay changed or the publisher replaced.  A delay is controlled
from several threads without a lock.  OBS goes away by a goodbye, a crash, a
freeze, or a half-dead connection noticed late, and comes back on a new
connection before or after the old one is known to be gone.  Twitch answers
late, to a request of a stream that may be over.  Times (a hold's deadline, the
freeze limit, the two-second tick) race with all of that.  The hazards of
`PROJECT.json` name the lines.

## The modules

| Module | Models | Abstracts |
|---|---|---|
| `TagWindow` | what the ring promises: a log of which a suffix is readable | - |
| `DiskRing` | `buffer.rs`: append with its evictions and failed writes, trim, clear, the two-phase read, byte by byte | a byte is the number of the tag it is of and its place in it |
| `InputClock` | `expand_ts`: 32-bit stamps to the session's clock, as functions | the length of a cycle is a parameter |
| `DelayControl` | the delay's atomics and every operation on them, store by store, from the runtime and from control threads | the ring is its number of tags |
| `SafeCut` | `DelayControl` with the scheduled cut's timestamp and the positions of the destinations that have to air it | a tag is a unit of time; a pump may land anywhere in the ring |
| `EgressPump` | one destination's pump, from the connect gate to the goodbye, with the buffer, the hold, OBS and the streamer around it | a tag is a tick of video; the parts of the ring, slot and hold that the pump reads |
| `EgressSupervisor` | all destinations' pumps from their start to their end, the supervisor's tick await by await, the reconnect screens they share | on air or not; OBS, hold and tail come and go; no delay |
| `IngestSession` | connections, slot, hold, Twitch sessions, and what the supervisor does about them | times are whether a deadline has passed; pumps are down, dialing or up |
| `StreamWatch` | `IngestSession` with the events its steps emit, the queue, and the stream the integrations read from them | - |
| `IntegrationRuns` | the runs of the integrations: places, waits, turns at a Discord message | what a run does besides |
| `SettingsFile` | the settings file through saves, starts, launches, kills and power cuts | a text is the set of changes it brings back |
| `*_proofs` | theorems about `DiskRing`, `DelayControl` and `SafeCut`, `EgressPump`, `IngestSession` (and `InputClock`, whose readings its tags are), `EgressSupervisor`, `StreamWatch`, `IntegrationRuns`, `SettingsFile` | - |
| `MC*` | constants for TLC | - |

`StreamWatch` EXTENDS `IngestSession`, and `SafeCut` EXTENDS `DelayControl`; `DiskRing` INSTANCEs `TagWindow` as its
abstract specification.  The others meet in what they share: the hold and the
slot are whole in `IngestSession`, and what a pump or the supervisor sees of
them comes and goes freely in `EgressPump` and `EgressSupervisor`.

### DiskRing and TagWindow

`index`, `idrIndex`, `nextSeq`, `writeCursor` and `indexedBytes` are the fields
of `RingInner`; `file` is the file, `lock` the mutex that guards it.  `append` is
`BeginAppend` (the size check and the lock), `Evict` once per overwritten tag,
and `Store` or `FailToStore` (the write fails after any number of bytes; the
evictions stay and the cursor does not move).  `trim_older_than` is
`BeginTrim`, `TrimOne`, `EndTrim`; `clear_for_new_session` is `Clear`; a pump's
`find_by_seq` is `Find` and its later `try_read_seq` is `BeginRead`,
`EndRead` or `FailRead`.  `log` is history: every tag appended, with the count
of bytes before it.  `TagWindow` is the abstract specification, and `Window`
in `DiskRing` is the refinement mapping: the window is the suffix of the log
that the index lists, and a reader has what it read only if that is whole.

### DelayControl

One variable per atomic.  `thread` says for each thread which step of which
request it is at and what it has read so far; a label is named for the code
that comes next (`offPending` is `stop_delay` about to clear the pending slot).
Loads and stores that another thread can see in between are steps of their own;
reads that only guard the following step share one.  `Overlap` chooses between
requests that follow one another (what a streamer with one hand does, and what
the runtime guarantees for its own) and requests of two threads that interleave.
`asked`, `promised`, `crossed` and `overtaken` are history: the last two say
whether a cut crossed the supervisor's latest tick (the tick began while the cut
had not yet cleared the slot, or the cut took the delay off before the tick was
done), and whether it is such a tick that put on air what is on air: a cut ends
that, and so does a publisher that finds nothing on air.

A mark is the session its timestamp is of, so that two marks of one session are
one here and `FireTake` may take or leave whichever mark it finds; `SafeCut`
tells them apart.

### SafeCut

`DelayControl`'s steps with what they leave open decided.  `mark` is
`safe_cut_input_ts`, `read` the timestamp a thread holds, `live` and `pos` are
`egress_alive` and `consumer_seq` of each destination.  `MarkRead`, `MarkSet`
and `MarkTakenBack` are `schedule_safe_cut` and what stores 0; `CheckRead`,
`CheckAired` and `CheckTake` are `maybe_fire_safe_cut`: the load, the look at
`slowest_live_consumer_ts` (`Aired`, `ConsumerTs`), the `compare_exchange`.
Destinations connect, land at any tag, send and drop between the runtime's other
work; a pump checks only as it has a tag to send (`Begins`).  `moment` is
history: the tag last marked, until the mark is taken back by a cancel, a cut or
a new publisher.  `SafeCutAirsTheMoment` is stated on it, not on the mark that
the code compares: two marks, a cancel between them, and a cut decided on the
first tell them apart.

### EgressPump

`pump` is `EgressState` with the place the pump is at: `off` and `dial` are
`run_egress`, `seed` and `await` its waits for a keyframe (`seed_idr`,
`wait_for_idr`, the latter with the reason it was called for, `goal`), `top`,
`wait`, `pace` and `send` the loop of `pump_dest` at its awaits, and `screen`
`stream_loop`.  Between two awaits the pump is one step, because the runtime
has one thread; what it does there are the operators that take its state `p`
and give the next one: `Turn` is the head of the loop, `Follow` is
`next_or_wait`, `Take` the look at the delay (`DelayCut` is `compute_delay_cut`),
`Anchored` the timeline arithmetic `apply_cut` and
`reseed_after_publisher_change` share, `OnScreen` one turn of `stream_loop`.
`Wake` acts on what woke the wait, as the code does after it looks again at
the publisher.  Output timestamps are kept relative to the run's first one, so
`high` (the highest sent) is moved at each jump instead of the base.

`OnTag`, `Publish`, `Drop`, `CheckFreeze`, `Expire`, `EndHoldNow`, `EndTailNow` and
`Ask` are the controller's handlers, each with all of what the pump can see of
it: the trim that spares the pump's position, the replay floor, the tail's
flag and end.  `owed` and `over` are history: whether the last jump landed at
less delay than was asked for then or has been since, and for how many ticks
the session has outlived the stream.  A stream is over when OBS is gone, no hold
is on, and nothing of it is left to air: no tail plays out, or this pump has sent
the last tag of the tail (`delay_tail_sent`).

Time is discrete.  OBS sends one video tag per tick, a tick is the half second
between the pump's looks at the delay, and the clock waits while the pump has
something to do, except where something holds it up: `Quiet` bounds the ticks
OBS sends nothing in, `Lag` those the platform stalls a connection or a send
for.  So a tag may age in the pump's hands, and a stall of OBS becomes a
gap in its timestamps.

Left out of it: audio, and with it tags stamped before the keyframe they
follow (`Take` has the guard, which video alone never meets); a vertical canvas
waiting for its own keyframe; sequence headers; the measured keyframe interval,
which is taken as known; a screen that cannot be built; the shutdown flag and the
backoff, which `EgressSupervisor` has: of them `PlatformDrops` and `Lag` keep that
a redial may be late.

### IngestSession

`guard` is each connection's `PublishGuard` (closed, open, or its token).
`Publish` is the whole of `begin_publish` in the order of the code, `DropCurrent`
is `end_publish` with `mark_ingest_dead`, `DropOther` the same with a token that
is no longer current.  `hold` gathers the hold's fields.  `EndHoldNow` is the
dashboard's call, `TakeHold` .. `DropTail` the same method on a control thread,
a store at a time.  `epoch` and `flights` are the session epochs and the VOD
requests in flight with the epoch each was made in.  `AskTwitch`,
`TwitchAnswers` and `HandHeldConfig` are the Enhanced Broadcasting proxy.
`Configure` is `update_crash_protection` with the `end_hold_now` it may call, which
ends a hold, or with none open a tail that is still airing.  `goodbyes`, `stream`,
`handed`, `ebOf`, `used`, `ebAstray` and `tookOver` are history: the last two say
where the code is known to leave a session that is not the publisher's (below).

### InputClock

`expand_ts` as a function from a session's clock (`ts_seen`, `wrap_high`,
`last_ts32`) and a stamp to the next clock; `Stray` is the branch that pins a
stamp which cannot be of this session.  There are no variables: what is
checked and proved are statements about the function.

### EgressSupervisor

`sup.pc` is the supervisor's place: `remove` and `dests` are the two loops of a
tick, `stopping` is `stop_pump` at its await, `sleep` the wait between ticks.
The tick runs without another await, so only in `stopping` and `sleep` do tasks
and handlers get their turn (`Awaits`).  `sup.desired` and `sup.saw` are what
the tick read at its top and goes by after its awaits.  `want` is the
settings, `dest` the part of `DestinationState` a pump and the supervisor
share, `running` the supervisor's map with the signature each pump was started
with, `gone` `vertical_gone_since`.  `pump` is where each `run_egress` is: the
connect gate, the dial, on air, the wait before the next try; `slate`, `build`
and `screen` are a pump in a hold, fetching the reconnect screen or sending it.
`slate` is `SlateCache`: the screen, whom it is built for, and the build's task,
which is not aborted with the pump that asked for it.  `quit` is the end of the
program.  `pressed` is history: a "Retry now" of this wait.

OBS, the hold and the tail come and go (`ObsGoes`, `ObsComes`, `Freezes`,
`Thaws`, `HoldEnds`, `TailEnds`, `CanvasSeen`), and the platform fails a
connection or drops one.  Left out: the delay and its gate, the lengths of the
backoff, the VOD claim (`IngestSession` has it), and the local test sink, whose
child process is started by the same tick.  The program is built with
`panic = "abort"`, so a task that panics ends it and is not modelled.

### StreamWatch

`IngestSession`'s steps, each with the events its code emits, in the order the
code emits them: `DropEmits` is `mark_ingest_dead`, which decides the hold and
then reports the drop, `PublishEmits` `begin_publish`, where a held stream is
resumed before `ObsConnected`.  `queue` is the bounded channel of `Handle::emit`,
which loses an event it has no room for.  `watch` is `Session`: `on` is
`started`, `dropped` is `dropped_at`; `Follow` is `Session::observe` on one
event, `EndsAfterGrace` is `watch_session` a minute or more after a drop.
`astray` is history, and says for how long nothing is promised: since an event
was lost or a hold ended while OBS was connected, until the engine has seen OBS
connected again.

Left out: a destination's own events and the report of the stream, which the
start and end do not depend on; sessions at Twitch; and holds ended store by
store by a control thread.  The flap guard, which holds back a destination's
short drops, is not modelled.

### IntegrationRuns

`run` is each run (`start_run` to its end), with the places it holds and wants:
`Gate` is a semaphore per integration and one for all, `line` its queue of
waiters in tokio's order.  A wait gives the places back (`Wait`) and takes them
again one after the other, the integration's first (`WaitOver`, `Take`, `GoOn`).
`turns`, `turnOf` are `DiscordTurns`: a message's lock with its line, and the
map from a message to it, which the last run to leave empties (`TurnOver`).
`AskTurn` numbers the step, gives the places back and joins the line; `MyTurn`
has the lock and takes the places while it holds it; then `Replaced`, `Empty`,
or a send that succeeds or fails.  `asked`, `shown` and `lost` are history.

Left out: what the other kinds of steps do, several messages per integration
(they share no lock), tests (they take no place and have messages of their own),
the forgetting of messages at a stream's start, and an integration that is
deleted and made again while it runs.

### SettingsFile

`file` is the settings file and `tmp` the sibling a save writes; `past` is what
a power cut may leave of the renames the disk has not caught up with, `asides`
the copies put aside, `lock` the instance lock.  `copy` is each running program
of one setup: where it is, the settings it works on, those it is saving and
why.  `save` is `Create`, `Write`, `Sync` and `Rename`, and `SaveFails` at any of
them; what its caller makes of the result is `Saved` and `NotSaved`.  A start
is `Launch`, `TakeLock` or `HeldElsewhere`, then `Loaded`, `FreshInstall` or
`Unreadable` with its `CopyAside`, then the saves of `SettlePorts` and
`StartFromThisBuild`.  `Die` and `PowerCut` come at any point; `Settle` is the
disk catching up.

A text is the set of the user's changes it brings back, and each change is to
a setting of its own.  The handlers run on the runtime's one thread and a save
does not await, so a program does one save at a time.  Two kinds of handlers
are told apart: those that publish a change only once it is saved, and those
that publish it whatever became of the save and answer 200 OK.  What the latter
told is in `acked` like all that was told; `unsaved` is what a failed save has
left out since, `behind` a program that works on such a change.

`fs::copy` does not sync, so a copy put aside is on the disk (`kept`) only once
the disk has caught up, and `PowerCut` may leave any of the others out.  `lost` is
history: what was only in such a copy when the power failed, or was told since the
disk settled.

`RunUnguarded` is a start whose lock cannot be opened or locked
(`Acquired::Unavailable`): the program runs on without it.  `crowded` is history
and says that a program has run beside another without the lock.  From there on
both may write the one `.tmp` at once, which the model does not follow, and the
properties claim nothing: `MCSettingsFile` explores only what is
`NotYetCrowded`.  A program alone without its lock is followed like any other.

Left out: a change made from the tray menu when the start may not write, which
is published and not saved; edits by hand while the program runs; the factory
reset.  A failed save of the MIDI poll is treated as the checked kind.

What the environment is assumed to do: OBS publishes only once its request for a
configuration is answered, and publishes on what it was given before it asks
again (a config fetched and never used is a hazard without a property); one tag
is one unit of delay.

## What the runs check

| Run | Question | Bounds |
|---|---|---|
| `ring` | bytes: whole reads, intact tags, consecutive numbers, exact keyframe index and byte count, and the refinement of `TagWindow` | a file of 7 bytes, tags of 0 to 4, one reader, five tags: the cursor wraps, tags straddle the end, an append evicts several, and a tag over half the file is refused |
| `delay` | requests that follow one another: the delay on air is the armed one, safe cuts do not outlive it, a plain arm waits, a promised delay starts | a ring of 3; delays of 1, of 2, and of 4, which the ring only reaches by being full; two publishers; one control thread |
| `safe_cut` | requests that interleave: a scheduled cut airs the moment it was scheduled for, and nothing but a tick it crossed undoes a cut | a ring of 2, one delay, one publisher, two threads and two destinations, three tags: every interleaving of any two requests, with a destination behind another, one overwritten, one without a position, and room for a mark, a cancel and a second mark |
| `pump` | what viewers get: an output clock that never goes back, decodable video, no replay of what is over, no jump back but for a delay that was not reached, no giving way to live under a delay, an end that is told | a keyframe every two tags, delays of 0, 2 and 3, a ring of four tags that evicts tags under a late pump and holds less than it is asked for after a stall, two publishers, two stalls of OBS, one of the platform, two of drop, stop, end, change of the delay and loss of the platform, six ticks: a freeze, its hold, OBS's return and the rebuilt delay fit |
| `session` | slot and hold: who holds the slot, crash against stop, no hold over a live OBS, every hold ends | two connections and publishers (the old one and the new one), every setting, freezes, a hotkey thread |
| `twitch` | sessions at Twitch: an Enhanced Broadcasting session follows its publisher and a held destination keeps it; one VOD request at a time, and none of an earlier stream used | two connections, three publishers, one destination of either kind, two sessions; freezes, takeovers of a frozen slot, and requests before the old connection is noticed dead |
| `supervisor` | the pumps follow the settings, a live flag means on air, "Retry now" shortens its own wait, holds and tails are left alone, a pump that waits for the screen is served | two destinations at one URL, the second vertical and the one whose liveness is asked; two of drop, return, freeze, edit, new session, retry, lost connection, forgotten screen, and quit |
| `stream` | a stream is on for the integrations while OBS sends, a resumed hold is no second stream, a stream OBS left ends | two connections and publishers, protection off or at every disconnect, freezes, a queue of two, which overflows |
| `integration_runs` | one run at a time at a message, no lost last edit, nobody waits for ever | three runs of one integration, one place for all and two of its own, two edits |
| `settings` | a saved change is never lost, a restart brings back what runs | two copies of the program, three changes, unsynced copies, failed saves, a lock that cannot be had |
| `takeover_live`, `stream_lost` | violations, below | the smallest that shows each; in `stream_lost` the queue loses nothing |

`MCDiskRing` also evaluates `ClockIsExact`: `expand_ts` over every clock, stamp
and time of a cycle of 16 stamps.

The bounds are enough for what they are for: one reader, because readers share
nothing but the lock; two connections, because a third would be a second old
one, which no state tells from the first; three publishers where a session has
to survive one stream and reach the next; three runs, because two have to wait
behind one that holds what they want, each for something else; two copies,
because a third would only be turned away by the lock once more; two
destinations, because pumps meet only in the supervisor's turn and in the
screen and in the safe cut's slowest one.  Connections are symmetric in the run
without liveness, so are the destinations of `safe_cut` and the copies of
`settings`.  In `safe_cut` the trim never drops a tag, since the armed delay with
its slack fills the ring: only a full ring overwrites.  A mark carried over to a
second publisher is left to `delay` and to the theorem.  The run's view leaves out
what no later step and no property reads again (`MCSafeCut` says what).  What no small instance
says is proved for the ring, the delay and the safe cut, the pump, the slot, holds
and sessions, the supervisor, the stream, the runs, the clock and the settings file.

`CHECK_DEADLOCK` is off in `pump`, `takeover_live` and `supervisor`: the first
two end with the clock, the last with the program.  In the others a requester
can always ask again, a connection be dropped, a run be started, a program be
launched.

The pump's lengths keep the order of the code's constants and not their size:
with a tick of half a second `DELAY_JITTER_MS` is one tick and the other
constants are shrunk to two or three, so that the comparisons go both ways within
the clock's bound, but for one: the branch of `DelayedCut` for a delay that is
`much` too long is out of reach of a run this short, and only the theorem
(`NothingAirsTwice`) covers it.  `Jitter` also has to cover the one tag the pump
looks ahead, which at OBS's frame rates it does many times over.

### Fairness

* `DelayControl`: a thread inside a request goes on (weak fairness of its steps;
  no step waits for another).  The supervisor's tick and the publisher's tags
  are strongly fair, because the tick comes every two seconds and OBS keeps
  sending whatever other requests the runtime serves in between.  No fairness
  makes a streamer press anything, nor OBS stay.
* `IngestSession`: time passes (`DeadlinePasses`) and the supervisor ticks
  (`Expire`).  Nothing says OBS comes back, or Twitch answers.
* `StreamWatch`: the same, and the engine's thread runs.
* `EgressSupervisor`: the supervisor runs.  A watched pump's steps and the
  screen's builds are strongly fair, because the runtime polls every ready task
  between two ticks.  So is a connection to the platform: one that is tried
  again and again succeeds, which is the one assumption on the outside.
* `IntegrationRuns`: a run goes on, because every step of an integration is
  bounded by a timeout of its own, and one that may always go on acting yields
  in the end, because an integration has finitely many steps.
* `EgressPump`: none; what is checked there is safety.  That a session ends is
  bounded in ticks instead (`OverMeansOff`), since the clock waits for a pump
  that has something to do.
* `DiskRing`, `SafeCut`, `SettingsFile`: none; what is checked there is safety.

### What the violations show

Each is a statement of the repository's own about the program, and a behaviour
of the code that breaks it; `PROJECT.json` quotes the line.

* `takeover_live`: a new OBS takes the slot of a frozen one before the freeze
  check has opened a hold.  The pump has seen neither OBS gone nor a hold, so
  it re-anchors on the new video's first keyframe: a delayed stream is live
  until the delay is back in the buffer.  The same happens when OBS stops and
  comes back inside one wait of the pump.
* `stream_lost`: a hold over a frozen OBS ends by its deadline or by hand, which
  ends the stream for the integrations; when the same OBS thaws there is no
  hold left to resume, so no event is emitted, and the integrations see no
  stream while one is being sent.

### What the passing runs leave out on purpose

Behaviours met while modelling in which a property would not hold.  The runs
exclude each by a bound, an assumption or an allowance, so a pass says nothing
of them.

* `safe_cut`: `activate_delay` checks and stores one atomic after the other.  When
  the supervisor's auto-activation has found an arm waiting and a cut from a
  hotkey, tray or MIDI thread runs before it is done (`main.rs:1260`), the tick
  stores the delay again (`controller.rs:1538`), although "This makes Cut
  actually stick" (`main.rs:1244`) and "auto-activate mustn't override it"
  (`controller.rs:1554`).  `CutSticksUnlessOvertaken` exempts the tick a cut
  crossed, and nothing else.
* `delay`: between a hold's deadline and the tick that closes it the delay still
  airs because of the deadline, not of the flag a cut clears; a cut there does
  nothing, and the tick then sets the flag.
* `twitch`: `begin_publish` hands a frozen slot on without invalidating the
  sessions as `mark_ingest_dead` does (`controller.rs:2100`).  With no hold on, a
  new OBS that was given no Enhanced Broadcasting session goes to the dead one of
  the OBS it replaced, where `controller.rs:2496` says that "a stale override would
  force a non-EB stream onto an IVS endpoint that has no allocated session"; a
  VOD-audio session is carried on the same way.  `ebAstray` and `tookOver` exempt
  that takeover.
* `twitch`: when a restarted OBS asks for its configuration before its old
  connection is noticed dead, the drop that follows invalidates the session it was
  just given (`controller.rs:2513`) unless a hold keeps it, and a hold that opens
  after the answer does not know OBS has asked.  `ebAstray` exempts that publish
  until OBS is given another session.
* `twitch` has destinations of one kind at a time: a hold that runs out after OBS
  asked for a configuration keeps the sessions of every destination, so a
  VOD-audio session of the old stream is used by the next.
* `supervisor`: while the program quits, `PumpsFollowSettings` asks nothing.  A
  supervisor tick inside the 800 ms of the shutdown (`main.rs:672`) clears the
  flag the shutdown set (`main.rs:1122`) and starts a pump again.
* `supervisor`: what the supervisor read at the top of its tick may be stale after
  `stop_pump`'s await.  `retain_destination_states` then drops the state, and the
  session, of a destination just switched on; no property asks for it.
* `supervisor`: `RetryShortensItsWait` is about the wait after a failure.  A
  "Retry now" pressed just before its pump is replaced stays set, so a later
  wait of the replacement after a clean end may be skipped.
* `supervisor`: a vertical destination whose canvas never came is stopped during
  a tail, which `HeldPumpsStay` allows: that branch waits for a hold only.
* `stream`: with the queue full, or after a hold ended over a connected OBS,
  nothing is promised until the engine has caught up (`astray`).  An unprotected
  `ObsDisconnected` that arrives while no stream is on sets `dropped_at`, which
  the `ObsConnected` that starts the next does not clear, so that the new
  stream is ended a minute into it.
* `integration_runs`: the limits of an integration that is deleted and made
  again are made anew, so that its old and new runs together may exceed them.
* `InputClock`: a tag stamped 0 that ends an Enhanced Broadcasting session of
  more than 24.8 days is read as ahead and is not pinned, although the comment
  at `controller.rs:1334` speaks of every such tag.
* `settings`: a handler that ignores the result of its save answers as if it had
  been saved (`web.rs:4049` is one); both properties exempt the change until a
  later save takes it along (`behind`, `unsaved`).
* `settings`: the copy of an unreadable file is not synced (`config.rs:2331`), and
  the save that replaces the file is (`config.rs:1478`).  If the power fails
  before the disk has written the copy, what the user was told long before is in
  neither, although a later save "is safe only because the copy exists"
  (`config.rs:1169`) and the notice says "the copy stays either way"
  (`config.rs:1206`).  `lost` exempts what was only there.
* `settings`: nothing is said once programs run side by side without the lock.

Three allowances in the pump's properties say what the code does not promise:

* `DecodeChain` lets pass a tag whose predecessor was overwritten while the pump
  waited for its time: `pace_and_send` skips one tag, and if the buffer's front
  is the next one, the pump goes on there although it is no keyframe.
* `OnlyARaiseReplays` lets a delay that shrank be restored.  A stall of OBS too
  short to count as a freeze makes a delay that had landed too little, and the
  pump cuts back and replays up to the length of the stall.
* `OverMeansOff` allows a pump the length of a stall: a gap in the timestamps is
  slept through in `pace_and_send`, deaf to the end of the stream.  A pump that
  has yet to send the tail's last tag is not late at all.

## What is proved

Each theorem is for every value of the constants, from the assumptions its
module names.

### DiskRing_proofs

For every capacity, set of tags and set of readers: types, consecutive numbers,
intact tags, whole reads, exact keyframe index, exact byte count.  It assumes
only that the capacity is positive and that no reader is the ingest task.

The invariants are not inductive: that an append spares the tags in the index
depends on where they lie.  The strengthening counts bytes from the first one
ever appended.  `LogIsContiguous` says the log lays tags end to end in that
count; `LaidOut` says the tags in the index are the log's last, lie in the last
`Capacity` bytes of it, and each starts in the file at the cell of its place in
the count (`Place`, one lap back at most).  Two bytes less than `Capacity` apart
never share a cell, so what a write covers belongs to tags at least a lap old,
which the append has evicted (`RoomAfterEviction`, `WriteSparesIndexed`).  For
the readers, the lock (`LockInv`) keeps the ring still between looking a tag up
for the second time and reading it (`ReaderOK`).

`RingImplementsWindow` is the refinement, step by step: an eviction, a trim and a
clear forget tags of the window, `Store` adds one, `EndRead` hands a reader the
tag it asked for, and every other step leaves what the window shows as it was,
`FailToStore` among them.  It rests on the same invariant: only whole tags are
handed over because reads are whole.

### DelayControl_proofs

For any ring size, delays, publishers and number of threads:

* `TypeCorrectness` and `CutsStick` whether or not requests overlap, load by load
  and store by store;
* `ActiveDelayStaysArmed`, `MarksBelong` and `PlainArmsWait` for requests that
  follow one another (the assumption `~Overlap` stands in each theorem);
* `FollowsDelayControl`, that a behaviour of `SafeCut` is one of `DelayControl`, and
  `SafeCutsAirTheMoment`, for any destinations and any overlap.

`CutsStick` says that a delay on air was asked for since the last cut, or put there
by a tick the cut crossed.  Its invariant says of a tick under way that it is known
to be crossed or that the streamer has asked: a tick begins only with an arm
waiting, and an arm that waits was asked for, unless a cut has the delay off and
the slot still to clear.

`SafeInv` ties what a thread holds to the tags it speaks of: a mark, and a
timestamp read for one, is no earlier in the ring than the moment it is for,
whichever session its stamp is of; a timestamp found aired stays behind every
live destination until the pump has taken it or left it, because nothing of the
runtime's gets in between; so when the mark it takes is equal to it, the moment
marked is behind them all.

None of the three in between is inductive: a request stores several atomics one after the
other, and halfway through it what they say together is broken on purpose.
`IInv` says what holds at each label.  `OneAtATime` is the assumption's meaning,
that at most one thread is inside a request; so what that thread has read is
still true, and `HasRead` lists it per label.  `ArmedInv`, `AskedInv`, `MarkInv`
and `PromiseInv` relate the atomics between requests, and name the labels at
which each may be waiting for a store.  The proof has one lemma per group of
actions, and `Knows(p)` hands each the facts of the thread that moves.

### EgressPump_proofs

For any delays, keyframe interval, buffer, thresholds and bounds:
`ClockNeverGoesBack`, `DecodeChain`, `NoJumpBehindTheFreeze`, `ScreenKeepsTheDelay`,
`OnlyARaiseReplays` and `OverMeansOff`, all the run `pump` checks.  The first four
follow from `IInv`:

* of the environment: the buffer holds the publisher's last tags, one after the
  other and each later than the one before (`RingInv`); the floor for jumps is
  at most where the stream last came back from a freeze (`FloorInv`);
* of the pump's clock (`TimeOK`): `high` is below where the next run would start,
  and every tag ahead of the pump, the next one OBS sends included, comes after
  it.  A new publisher's timestamps start again, so the latter asks that the pump
  has the publisher's token; a tag in hand when the token changes lies before the
  new session's first (`PlaceOK`), and is passed over;
* of the chain (`ChainOK`): the tag at the pump's place is a keyframe, or follows
  the last one sent, or has lost the tag before it (`Behind`);
* of a wait (`AwaitOK`): a pump takes a keyframe in the tick it comes in, so that
  what is beyond its mark is never from before a freeze.

There is one lemma per operator that moves the pump, which gives the invariant of
the state it returns and where it may have jumped (`Fresh`, `Onward`), and one per
action of OBS.  `StepOK` collects what a step of the pump does.  With video alone
the guard in `Take` for a tag before the run's first never holds (`TakeOK`).

That nothing airs twice (`NothingAirsTwice`) needs to know how late the pump is and
where it is about to land, which `IInv` does not say.  `FlowInv` adds:

* of the run that airs (`RunInv`): it is as late as asked, or `owed` says that less
  was to be had where it started; each of its tags has aired in its time, and the
  next is due within a stall (`QuietInv` bounds those by what OBS has left of
  `Quiet`).  So when `compute_delayed_cut` finds too little delay and would go back,
  the run was cut short (`owed`) or OBS missed a moment (`Gap`): the tag before the
  pump's place has aired, and without a gap it is at least the delay behind the
  newest.  The pump's place is one tag further on, which is why the jitter
  allowance has to cover a tag: `TimesAssumption` asks for a `Jitter` of one, and
  with none TLC finds the property violated;
* of a pump between two runs (`StageInv`): one that waits for a keyframe takes only
  those ahead of it (`Awaiting`); one on the screen is ahead of what OBS sends next
  (`ScreenAhead`), or is at a place from which the rejoin cannot go back but over a
  gap (`Bound`, shown by `BoundIsAhead`); and one whose publisher was replaced is
  before all of the new one's tags, or at a keyframe of its own choosing.

`Outcome` is what an operator that moves the pump may return, one lemma each, and
`Moves` what a step does; `PumpRun` and `PumpStage` preserve the two parts for it,
`OnTagFlow`, `PublishFlow`, `TickFlow` and `CalmFlow` for everybody else.

`SessionsEnd` is `OverMeansOff`.  `OverInv` says that a session which outlives its
stream is at a tag whose time is still to come or that the platform holds up, or in
a wait that ends within the tick, since nothing is there to air, whether the
stream ended without a tail or the pump has sent the tail's last tag: wherever else the
clock may pass (`OverIdles`), the pump would have looked and ended.  What is left of
`Quiet` and `Lag` bounds the ticks (`Allow`).

### IngestSession_proofs

For any connections, destinations, control threads, settings and bounds: types,
`SlotHasItsPublisher`, `HoldMeansObsIsGone`, `CrashIsProtected`,
`StopEndsTheStream`, and `SingleFlight`.  `IInv` adds to the types that no two
open connections have one token (`TokensDiffer`), so that a connection that
hangs up late finds the slot another's, and that the goodbye on record is the
current publisher's own (`GoodbyeIsItsOwn`): the goodbye of a connection that
was replaced makes no stop of a later crash.

What is proved of the sessions at Twitch has assumptions, named in the module,
which leave out the races listed above:

* `HeldDestinationKeepsItsSession`, while no control thread ends holds
  (`Controls = {}`) and no destination wants both kinds of session (`OneKind`).
  Its core is `FlightsFindNoSession`: a request of its destination's present
  epoch finds no session there, and a late answer has an older epoch.  A control
  thread ends a hold and forgets the sessions in two steps; a hold that opens
  between them has its sessions forgotten.
* `VodSessionIsOfThisStream` under `Plain`: no Enhanced Broadcasting, no control
  thread.  `VodInv` says which stream a session or a request may be kept for
  (`GoodFor`): the one that is on, also while a hold airs, or the next, through
  freezes and takeovers.
* `EbSessionIsThePublishersUnlessAstray` under `Undisturbed`: no control thread,
  `OneKind`.  Freezes, takeovers and requests before the drop is noticed are in.
  `EbInv` follows a session from Twitch's answer (`LastGiven`) through what OBS was
  handed (`HandedIsKept`) to its publish (`PublishersOwn`); `NoneIsLeft` is that
  with nothing handed and no hold no session outlives its publisher; each of them
  is about the sessions that have not gone astray.

The module ends with `InputClock`, for every cycle and every crossing distance
below half of it: `expand_ts` reads a tag at the very time it was stamped, across
restarts of the stamps in both directions (`ClockIsExact`), and no stamp moves the
clock by more than half a cycle (`ClockNeverLeaps`).

### StreamWatch_proofs

For any connections, destinations, settings, queue length and bounds: every behaviour
of `StreamWatch` is one of `IngestSession` with a queue and an engine beside it
(`WatchesIngestSession`), so its theorems hold here, and the proofs below start from
its `IInv`.  Then `SendingIsAStreamUnlessAstray` and `ResumeIsNoSecondStream`, from
`WatchInv`.  The engine may be any number of events behind, so the invariant speaks
of all of them: unless `astray`, each event in the queue finds the stream it is
about (`NeedsOn`, `OnBefore`: a drop, a hold and its end, and a resumed `ObsConnected`
find one that is on), and after the last of them a stream is on while OBS is
connected or held (`EndsOn`).  `Appended` is the lemma for what a step emits, whose
first event meets the end of the queue and whose others meet one another.
`HoldIsOpen` ties the hold the pumps see to the one the controller keeps.

### EgressSupervisor_proofs

For any destinations, URLs, settings and number of events: types,
`LiveMeansOnAir`, `RetryShortensItsWait` and `HeldPumpsStay`.  `IInv` adds to the
types that the supervisor starts nothing that is off (`StartsWanted`) and, per destination, that its flag is up exactly while its
pump is on air (`Live`), that a destination outside the map has no pump but the
one being stopped (`HasNoPump`), and that a pump that is connecting shows no
time of a next retry (`LetGo`), so that a "Retry now" can only be pressed in a
wait (`Shortens`).

### IntegrationRuns_proofs

For any finite numbers of runs and integrations and any limits: `OneAtATime` and
`LastEditIsSaid`.  For the first, the invariant relates a message's line to the runs in it: each stands in it, the
one whose turn it is stands first, and the map gives their integration that
turn, which is no other's (`OwnTurns`).  A turn forgotten is made anew from one nobody is in; that
there always is one (`TurnToSpare`) is the pigeonhole argument on the bound
`Turns`.

A step drops its edit when a newer one has been asked for, and the newer one may
drop its own, so that something is said in the end is a property of the line, not of
a run.  `SaidInv` says that for each integration either the message knows of every
edit, or the newest failed or came out empty, or the newest is still in line or being
sent (`Pending`): whoever drops an edit leaves the newest behind it.

### SettingsFile_proofs

For any number of programs and changes: types, `SavedIsKept`, `FileIsWhatRuns`.
The invariant is `GuardedInv`: the types, and `IInv` while no program has run
beside another without the lock.  `IInv` adds that at most the holder of the lock is past the door (`OneInside`);
that every text a power cut may leave brings back what is owed after one
(`DiskInv`); and per program (`CopyInv`) that what it works on, with the copy it
set aside, holds all the user was told is saved, and that the sibling is whole
and on the disk when it is renamed.

### What is only model-checked

The liveness properties, since liveness under fairness and ENABLED are out of the
prover's reach: `PromiseKept` of the delay, `HoldEnds` of the holds,
`PumpsFollowSettings` and `ScreenIsServed` of the supervisor, `StreamEnds` of the
stream, `NobodyWaitsForEver` of the runs.  Every other property of a passing run is a
theorem; those of the sessions at Twitch under the assumptions named above.

## The plan

What is left, in order of what matters most to the program:

1. `EgressPump`: audio, whose tags may be stamped before the keyframe they follow,
   and a freeze that reaches a pump waiting for a keyframe, as liveness.  Its
   abstract specification: the output is a sequence of runs of the input, each
   starting at a keyframe.
2. `FlapGuard` (`engine.rs:2047`): the guard that holds back a destination's short
   drops.  Read against its comment, the word it lets out last may be "live" for
   a destination that is down, because a held report that is let out is not
   recorded as reported.
3. `RateLimiter` (`auth.rs`), and the swap of a self-update: a kill between its two
   renames (`self_update.rs:342`) leaves no program under its name.

## What is not modelled, and why

The parsers and encoders (RTMP chunks, AMF, H.264 and HEVC bits, the slate's
pictures) are data-heavy and sequential: their correctness is in the bytes.  OBS
registration edits files of OBS by format.  The web pages, the texts and the
steps of the integrations, revisions, secrets and autostart are I/O, formats and
presentation; what they call in the controller is covered by the control
threads, and their saves by `SettingsFile`.  `PROJECT.json` gives the reason for
each part.
