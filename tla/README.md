# Verification of the Surveillance Station client

TLA+ models of `src/src/surveillance`, a GTK 4 client (Python, asyncio) for
Synology Surveillance Station, with the TLC configurations that check them and
the theorems TLAPS proves about them. File names below are relative to
`src/src/surveillance/`.

```
tlasany M.tla                      parse
tlc -config X.cfg M                model-check (the table under "Runs" pairs X and M)
tlapm PipeFdsProofs.tla            check the proofs (likewise the other *Proofs modules)
```

## The system

One process, two main threads. The **GTK main thread** runs the windows and
every handler of a click, a timer or an answer, one at a time. The **asyncio
loop** runs on a second thread; `util/async_bridge.py` submits coroutines to it
in the order they are asked for and posts their answers back with
`GLib.idle_add`, in whatever order they end. Blocking writes run in
`asyncio.to_thread` workers, one more thread captures the microphone, and mpv
and ffmpeg read pipes in threads and processes of their own. Video and audio
come from the NAS over a WebSocket, are muxed by an ffmpeg child and reach mpv
as `fd://N`, a bare descriptor number.

What is hard in this program is not any one handler. It is that every answer
comes back later, to a slot, a bridge, a client or a window that has moved on
meanwhile; that threads share descriptors and flags; and that the time-outs
that tell a dead stream from a paused one depend on each other.

### Inventory

| Component (source) | State it keeps | Operations | Hard behaviour, and what correct means |
|---|---|---|---|
| WebSocket bridge: descriptors (`services/ws_bridge.py`, `ui/liveview.py`) | `_read_fd`, `_video_write_fd`, `_audio_write_fd`, `_fd_lock`, `_stopping` | set-up with ffmpeg or a raw pipe, write, close_write_end, stop | four threads touch numbers the kernel hands out again: a write or a player must never reach another bridge's pipe, and a stop must leak nothing |
| WebSocket bridge: connections | pump task, `_fast_failures`, `_closing_on_purpose`, `_error` | connect, read, reconnect, give up, resume, seek, stop | cancellation at every await, ffmpeg's exit, own closes: what counts as a failure, who ends the bridge, which reason is reported |
| WebSocket bridge: feeding ffmpeg | `_video_pending`, audio and video stamps, `_audio_write_fd` | read loop, writer task, silence fill, gap watchdog | ffmpeg interleaves two inputs, so a silent camera can wedge its own video: the watchdog must act before the write times out, and only on real silence |
| WebSocket bridge: History transport | recording, anchor, frozen position, last frame, stamp, speed, direction | pause, resume, seek, speed, direction, two recording lookups | commands race reconnects and lookups: DSM must end up playing what the bridge believes, from the place last asked for |
| Live View slots (`ui/liveview.py`) | camera, source, status, card, `_stream_lost`, position; `_seek_generation`, `_timeline_paused`, `_leaving_history_slots` | seek, Live, Pause/Play, assign, clear, reload, restart, leave, give-up, status poll | late URLs, lookups, seeks and timers: never a stream of another camera, never a stale seek, a lost stream comes back |
| Live View timeline (`ui/liveview.py`) | nudge in flight, seek and event search generations, focus slot | click, nudge, jump, Live, switch layout | coalesced clicks, a time-out racing the answer: the newest wish wins |
| Timeline data (`ui/liveview.py`, `ui/timeline.py`) | presence and events per camera with the stretch they cover, one fetch and one pending, generation | view change, fetch, settle | coverage must not claim what was not fetched or had not happened |
| Timeline lookups (`ui/liveview.py`, `ui/date_time_picker.py`, `ui/event_type_filter.py`) | hover picture, calendar month, scan of event types, each with a generation | hover, browse, filter | an answer must find the question still on screen |
| Timeline widget (`ui/timeline.py`) | view range, zoom, follow-now | zoom, pan, tick | boundaries of the range |
| RTSP health (`ui/rtsp_health.py`) | start-up and stall counts | check, pause, play, restart, stop | a pause is not a stall, a camera that never starts is given up |
| API client (`api/client.py`, `api/auth.py`) | sid, credentials, refusal, closed | request, download, re-login, logout, close | a session error in several calls at once, refused logins, logout under calls in flight |
| Application (`app.py`, `ui/login.py`) | client, window, profile | login, second factor, logout, switch of profile | order of logout's steps, an attempt cancelled under its answer |
| Main window (`ui/window.py`, `ui/sidebar.py`) | session, polls, camera list, held remote requests | poll, rebuild pages, run held requests | answers of an old session, of another NAS with the same ids |
| Configuration (`config.py`) | settings and arrangements per profile, debounced save | set, save, switch profile | a save that comes after the switch, a crash before it |
| Recordings, snapshots, time lapses, events (`ui/recordings.py`, `ui/snapshots.py`, `ui/timelapse.py`, `ui/events.py`) | loading, reload pending, page, total, thumbnails | load, filter, page | a load that ends after the filter changed, a total that changed under the page |
| Recording service (`services/recording.py`) | thumbnail cache with its generation | find, fetch, clear | ids of one NAS meeting those of another |
| Downloads (`services/download.py`) | `.part` file | download, quit | nothing torn, nothing left; a close or a removal that fails itself; two downloads of one name |
| Push to talk (`services/ptt.py`) | microphone thread, bounded queue, slot's session | start, stop | a stop at every await, a late failure of the session before |
| Webhooks (`services/webhooks.py`) | bounded queue, worker, unfinished count | emit, start, stop | drop the oldest at the limit, count right |
| AAC detection (`services/aac.py`) | held frames, deadline | feed, decide, flush | order of the flush, a deadline with nothing arriving |
| E-Maps (`ui/emaps.py`, `services/emap.py`) | selection, request counter, cache | select, refresh | a slow map under a newer selection |
| PTZ (`services/ptz.py`) | a lock per camera | start, stop, preset, patrol | Stop must not overtake Start |
| POS receipts (`services/transactions.py`, `ui/window.py`) | pairing, seen texts, polls | poll, draw | overlapping polls, slots that change meanwhile |
| Event services (`services/event*.py`) | none | paged scans, merging | merging intervals |
| mpv widget, stream URLs, licences, dialogs, start-up | little or none | | see "Not modelled" |

`PROJECT.json` lists the same components with their modules, the definitions of
each module with the source lines they translate, and the hazards of this code
at the lines where they bite, with the property that covers each.

## Modules

Each module models one question and takes its neighbours as choices. Where two
meet, each allows at least what the other does: `LiveSlots` lets a bridge give up
whenever it likes, `BridgePump` says when it may; `PipeFds` lets the pump end at any
`await`, `BridgePump` says why; `BridgePump` lets a frame fail at any time,
`MuxFeed` says when a write stalls.

### PipeFds: who owns which descriptor number

The kernel's table (`fdt`), every place a number can be kept (`held`: the three
fields, the locals of `_start_muxed`, a writer's private `dup`, the locals into which
a closer swaps the fields), `_fd_lock`, the writer threads, the pump's progress
through `_setup_pipes`, `stop_stream` and `stop()`, the bridge the slot shows
(`cur`), the number mpv was given (`playing`) and the one `start()` returned but
GTK has not seen (`ready`). `os.pipe()` and `os.dup()` take the lowest free
numbers, as POSIX requires: that is what makes a late use of a number dangerous.

A coroutine is one action from `await` to `await`; where several descriptors are
opened or closed between two awaits, and another *thread* could look, each system
call is an action, and `LoopIdle` keeps other coroutines out. `_write_pipe` is four
actions (lock and read, `dup` and release, failure, end). The AAC path opens the
same pipes after its detection; it is `SetUp`'s choice of `pipe1` or `rawpipe`.
`MCPipeFds` gives the constants that are functions or sets of numbers.

### BridgePump: the life of one bridge

The pump is at one of the awaits of `_pump` and `_read_messages`; a `CancelledError`
waits there (`pending`) and is met before anything else that await might return.
The clean-up after a connection is modelled await by await, because the await of
the cancelled keepalive task, under `suppress(CancelledError)`, is where a cancellation of
the pump itself could vanish (`KeepaliveGone`, the check of `cancelling()`).
`NoteOutcome` is `_note_attempt_outcome`, `MuxWatched` is `_watch_ffmpeg`; the uptime test is a
choice, as time is not modelled here. `server` is false once the NAS feeds no more; it may go on accepting connections, and the run checks
that this too ends the bridge (`GoneServerEnds`). `MCBridge` puts the
pump beside `MuxFeed`: what one does to the other (a write that stalls, a connection lost) the other
has as a choice of its world, so a behaviour is about one of the two; `BridgeIsBoth` says that it is then a behaviour of each.

### MuxFeed: feeding ffmpeg

Time in ticks; a tick passes only when nothing that takes no time is left
(`Quiet`), and it makes the gap watchdog and the silence fill each due once, in
either order. ffmpeg (external) reads video only while it is at most `Slack`
frames past the last audio. The queue, the writer, the pipe and the socket each have a bound, so
that back-pressure runs all the way from ffmpeg to the camera.

### HistoryPlayback: what DSM plays

Positions are abstracted to the number of the seek they follow: that tells a stale place
from the place last asked for, and nothing else about a position matters to the
properties. Commands travel in order to DSM (external), frames travel back;
both are lost with the connection. The lookup on reconnect and the lookup
of the tail watch are out for any length of time. A seek out of a pause sends two
messages with an `await` between (`half`), a pause is a flag set by GTK and a coroutine
that runs later (`pausing`). The connection takes commands while the lookup before play is out; DSM
has nothing to apply them to yet but sees their stamps, so `CountsFromPlay` and `StampsInOrder` are stated over what is put on the
wire.

### LiveSlots: a slot and the answers that come back to it

One slot, all the user can do to it, and a set `jobs` of answers and timers, each a record of
what its closure captured (camera, generation, place, bridge), any of which may be next. Bridge
coroutines are a queue (`loop`): they run in order. `StartStream` is `_start_stream`,
`RestartSlot` is `_restart_slot_stream`, `NewSource` is what `_start_bridge` and
`_start_rtsp_monitor` do to the slot, `HistoryTarget` is `_history_target`.

### ApiSession: the session calls share

Every call's message carries the session of the moment it is sent; answers come back in
any order. A session error leads to one login and one more try; a refused password is recorded
(`refusal`), a busy or unheard login is not. `LogOut`, `NasLogsOut` and `LoggedOut` are the
three moments of `SurveillanceApp._on_logout`. `MCApiSession` names its properties beside those of `WindowSession`, as
`MCBridge` does for the pump.

### ListPages and LatestList: the pages of rows

`ListPages` has the four pages in one module because they share the scheme and differ in where they
cut the list into pages; `kind` picks one per behaviour. One query is out at a time; a filter
changed meanwhile sets `pending`, and the answer's handler asks again. Failures, the second half of a load
(`LoadRest`), thumbnails by generation and a NAS whose list grows or shrinks are all there. `LatestList`
is what any such page promises; `ShowsLatest` is its specification under the mapping `LL`: every step
of `ListPages` is a step of `LatestList` or changes neither wish nor display.

### TimelineNav and EventSearch: moving in recorded time

`TimelineNav` follows each click to the answers of every slot's lookup: `ForgetPendingLookups` is
`_forget_pending_lookups`, `Overtaken` the test of the seek generation, `NudgeTimeout` the
safety net of `_flush_timeline_nudge`. `EventSearch` is what one search computes: `Pick` is
`pick_nav_target`, `Windows` is `event_nav_search_windows` (its loop as a recursive function, `Widened` one turn of it),
`Covered` is `_cached_event_coverage`.

### TimelineData and TimelineLookups

`TimelineData`: the canvas moves (or time does), the debounce fires, a fetch covers the view and a window
on each side, a second wish waits (`pending`) and `Settle` takes it up. Caches are a stretch per camera and what DSM
had when asked. `TimelineLookups`: `kind` picks the hover picture, the calendar or the event filter, each with the
generation that orphans its older questions.

### WindowSession: from one login to the next

The configuration file and its copy in memory, the login dialog's attempt and its second factor, the window's
polls bound to `_for_session`, the sidebar's camera list and the Live View's arrangement of each layout, with crash, exit
and a change of profile anywhere between. Camera ids of two NAS overlap on purpose; the model keeps the
camera to tell whose an id was. `MCWindowSession` gives the NAS, ids and grids.

### ClientParts: the rest of the process

Twelve parts share the GTK thread, the loop and the session and nothing else that changes: `TimelineData`,
`TimelineLookups`, `EventSearch`, `RtspMonitor` (one player and its watchdog), `PushToTalk` (button, sessions,
microphone thread), `Downloads` (files as POSIX has them: a handle stays with its file; every open, write, close, rename and removal may fail), `RecordingThumbnails`
(cache across logins), `EMaps`, `PtzOrder` (coroutines begin in the order of the clicks and wait at a camera's lock),
`Webhooks`, `AacDetection` and `Receipts` (polls in flight against slots that change). `ClientParts`
instantiates them, renaming variables where names clash. No part's step enables or disables another's, so
a behaviour follows one of them (`about`) and the others keep their initial states: interleaving two would
multiply states and show nothing about either. Its properties are conjunctions over the parts,
one per kind of promise; the conjuncts are stated, with their comments, in the parts.
`MCClientParts` gives the constants that are sets of tuples or sequences.

## Runs

| Run | Module, cfg | What it shows |
|---|---|---|
| `pipe_restart` | MCPipeFds, PipeFdsRestart | A slot moves from one bridge to the next and the numbers are reused: `WritesOwnPipe`, `PlaysOwnPipe` |
| `pipe_stop` | MCPipeFds, PipeFdsStop | All three writers, a stop at any step of the set-up: `StoppedLeaksNothing`, and `StopReleasesAll` under fairness |
| `bridge` | MCBridge, Bridge | The pump: own closes do not count and their excuse is spent where it was made; no attempt on a dead muxer; one reason, which stands; a pause is not a stall; what must end the bridge does, a NAS that accepts every connection and feeds none included. The feed: `EndsOnlySilentAudio`, `StallMeansWedged`, `BlockedVideoMoves` |
| `api_session` | MCApiSession, ApiSession | One refusal per caller, fresh retries, sessions restored |
| `history_playback` | HistoryPlayback | `DsmAgrees`, `RecordingIsForLastSeek`, `CountsFromPlay`, `Settles` |
| `live_slots` | LiveSlots | `SourceIsForCamera`, `PauseInStep`, `StaleLookupsIgnored`, `LeftMeansLeft`, `LostComesBack` |
| `list_pages` | ListPages | `PagesRight` (the page is of the list last asked for, its filters are offered, no thumbnail of old rows), `ReloadHappens`, and the refinement `ShowsLatest` |
| `timeline_nav` | TimelineNav | `NewestWins` (what the layout settles on, Live stays Live, the busy button tells the truth), `NudgesReleased` |
| `window_session` | MCWindowSession, WindowSession | `ArrangementsKept` across profiles, layouts, exits and crashes; `NothingCarriedOver` from a session to the next; `SessionComesUp` |
| `client_parts` | MCClientParts, ClientParts | `LastClickLast`, `AnswersFitScreen`, `ClaimsAreBacked` (caches, cutoffs, cached images, the count of webhooks), `NoEventSkipped`, `NothingHalfDone`, `LateIsNotUsed`, `PartsMoveOn` |
| `session_logout` | ApiSession, ApiSessionLogout | `NoLoginAfterLogout`, violated: see "Where the code and its comments differ" |
| `history_stamps` | HistoryPlayback, HistoryPlaybackStamps | `StampsInOrder`, violated: see there |

### Bounds

* **PipeFds.** Two bridges of one slot with one writer (`pipe_restart`): the second
  bridge can be built only when the first was stopped, and its `pipe()` takes the
  numbers the first gives back while that one's writer, closer or `start()` is still under way, which is
  the whole hazard. `FewFds` is small enough for reuse to be forced. One bridge with
  three writers (`pipe_stop`) has every closer and every writer of a bridge at once. The proofs
  lift both bounds for everything but the liveness.
* **BridgePump.** `MaxFails = 3` (5 in the code): enough for a count to grow, to be reset and to reach the
  limit. Nothing else is bounded.
* **MuxFeed.** The gap timeout is 3 ticks and the write timeout 5, as in the code (3 s and 5 s); a queue of
  2, a pipe of 1 and bursts of 2 (counted in frames, where the code counts bytes): all four stages fill.
  `Backlog` bounds the socket.
* **ApiSession.** Two callers, one session dropped by the NAS, one error or lost answer, five
  sessions: two callers meet the same session error and one of the logins fails.
* **HistoryPlayback.** Three commands of which two are seeks, one drop, one frame on its
  way: a command, a seek back to the first recording, and a reconnect between any two.
* **LiveSlots.** Two cameras, five events, three seeks (with those of retries), counted
  by `MaxActs` and `MaxGens`; answers, timers and polls are not bounded.
* **ListPages.** One camera to filter by, three entries on pages of two, one change of the NAS's list: a second page, a
  filter changed under a query, and a total that shrinks below the page shown. What the user does is not bounded.
* **TimelineNav.** Two slots, one of them the focus, three clicks: a click, a nudge behind it and one that overtakes both.
* **WindowSession.** Two profiles with equal ids, two clients (logins), two edits, two starts of the program: enough
  to come back to the first profile, or to start again after a crash, with a save still due.
* **ClientParts.** Two cameras, maps, recordings, PTT sessions; three downloads (two under one name, one after), three
  events for a queue of two, three PTZ commands of two cameras; four frames against a cap of three;
  a clock of two to three steps past the first view; two POS polls that overlap and three moves of the slots; two events
  against two search windows and caches that agree, differ or miss. Each part reaches its limit and passes it once.

`CHECK_DEADLOCK FALSE` is set everywhere: a stopped bridge, a given-up feed and a
closed client really end, and the bounded ones end at their bounds.

### Fairness

Only what the scheduler or a time-out promises is fair. The asyncio loop runs what is
ready and a thread gets its lock (`PipeFds`; strong, because others take both in between, and the
loop's ready queue and the lock serve waiters); connects, reads, closes and back-offs all carry time-outs
(`BridgePump`); time passes and periodic tasks run (`MuxFeed`); polls keep asking and what is
asked is answered or times out (`ApiSession`); timers fire and the camera list is polled (`LiveSlots`, with strong
fairness for an answer that succeeds: `LostComesBack` claims a retry for as long as it takes,
so it must assume the NAS does not fail for ever). Requests of the list pages, the timeline and its searches are answered or
time out (`ListPages`, `TimelineNav`, `ClientParts`); the camera poll ticks, and strongly, an answer comes that is not a
failure (`WindowSession`, for the same reason). In `ClientParts` each part has at most three fair actions (`First`, `Second`,
`Third`), and no behaviour mixes parts, so fairness of the unions is fairness of each. The user, the camera,
the NAS and ffmpeg are never obliged to do anything.

## Proofs

Eight modules of proofs: `SessionProofs` is about `ApiSession` and `WindowSession`, `BridgeProofs` about `BridgePump` and
`MuxFeed`, `ClientPartsProofs` about the parts of the client, each of the others about the module it is named for.
The constants keep the named assumptions of their modules and are otherwise arbitrary, so the theorems hold without the
bounds of the runs; every theorem speaks of the `Spec` that its run checks with fairness added (`ApiSpec` and `PumpSpec`
where two modules are proved about side by side; the `BridgeSpec` that the run `bridge` checks implies both of its halves, by `BridgeIsBoth`). Every safety invariant and every action property that a passing run
checks is the statement of a theorem.

| Theorem | Statement |
|---|---|
| `Inductive`, `NothingForgotten` (PipeFdsProofs) | `Spec => []IInv`, `Spec => []LeakInv` |
| `TypeCorrect`, `WritesOwn`, `PlaysOwn`, `StopLeaksNothing` | the types, `WritesOwnPipe`, `PlaysOwnPipe`, `StoppedLeaksNothing` |
| `PumpInductive` (BridgeProofs) | `PumpSpec => []Pump!IInv` |
| `PumpTypes`, `OwnClosesAreFree`, `DeadMuxGetsNoAttempt`, `ReasonIsFinal`, `PausesAreExcused` | the types, `OwnClosesDoNotCount`, `NoAttemptOnDeadMux`, `ReasonStands`, `PauseIsNotAStall` |
| `FeedInductive`, `BridgeIsBoth` (BridgeProofs) | `Spec => []IInv`, `BridgeSpec => PumpSpec /\ Spec` |
| `SoundMuxerIsKept`, `OnlySilenceEndsAudio` | `StallMeansWedged`, `EndsOnlySilentAudio` |
| `PlaybackInductive` (HistoryPlaybackProofs) | `Spec => []IInv` |
| `PlaybackTypes`, `LastSeekChooses`, `DsmFollows`, `StampsCountUp` | the types, `RecordingIsForLastSeek`, `DsmAgrees`, `CountsFromPlay` |
| `SlotsInductive` (LiveSlotsProofs) | `Spec => []IInv` |
| `SlotTypes`, `SlotShowsItsCamera`, `StreamsFollowPause`, `StaleLookupsAreDropped`, `LeavingIsForGood` | the types, `SourceIsForCamera`, `PauseInStep`, `StaleLookupsIgnored`, `LeftMeansLeft` |
| `NavInductive`, `NavTypes`, `NewestWinsAlways` (TimelineNavProofs) | `Spec => []IInv`, the types, `NewestWins` |
| `PagesInductive`, `PageTypes`, `PagesAreRight` (ListPagesProofs) | `Spec => []IInv`, the types, `PagesRight` |
| `LatestIsShown` (ListPagesProofs) | `Spec => ShowsLatest`: the refinement of `LatestList` |
| `SessionInductive` (SessionProofs) | `ApiSpec => []Api!IInv` |
| `RefusedAtMostOnce`, `RetriesAreFresh`, `ClosedIsSilent` | `RefusedOnce`, `FreshRetry`, `ClosedSendsNothing` |
| `WindowInductive` (SessionProofs) | `Spec => []IInv` |
| `ArrangementsStay`, `SessionsStayApart` | `ArrangementsKept`, `NothingCarriedOver` |
| `CommandsInTurn`, `ScreenIsAnswered`, `ClaimsHold`, `NoEventIsSkipped`, `NothingIsLeftHalfDone`, `LateGoesUnused` (ClientPartsProofs) | `LastClickLast`, `AnswersFitScreen`, `ClaimsAreBacked`, `NoEventSkipped`, `NothingHalfDone`, `LateIsNotUsed` of the whole client |
| `CacheIsOfThisNas`, `SelectedMapShown` | `ImagesOfThisNas`, the map on display |
| `RefusedIsDisjoint`, `RangeIsIntersection` | the arithmetic of `download_recording_range` |

Some texts of the code are spelled otherwise in the models (`"none"` for an empty reason, `"dropped"` and `"lost"` for a
connection closed here or by the peer, `"no_video"` for a camera that shows none), because a name with a space in
it is beyond the provers; nothing but their being different matters.

**PipeFds.** That a write lands in its own pipe is not inductive: it must be known that nobody else
can close or be given the number between the read of the field and the `dup`. The invariant therefore
says of *every* place that what it keeps names the right end (`OwnsWhatItHolds`) and is kept nowhere else
(`OneHolder`): each open number has exactly one closer. `LockedReads` says that a writer
inside the lock has read what the field still holds, `PublishedOnce` and `Publishable` that the
fields are set once, from open descriptors, `StopOrder` that `stop()` closes the read end only after the pump has
ended, and `CurrentIsLive`, `PlaysCurrent`, `ReadyCurrent` tie the slot and mpv to it. Three lemmas show that
`pipe()`, `close()` and the two kinds of move (swap, publish) keep the table's two facts; then one lemma
per group of actions, one step per conjunct. The leak needs the converse, `LeakInv`: each open number is kept *somewhere*
(`EverythingKept`), and the places that are not the three fields hold something only between the steps that fill and
empty them (`LocalsInTime` for the set-up, `ClosersInTime` for the swaps, `DupsInTime` for a write's private
`dup`): a bridge that has stopped and writes no more has nowhere left to keep one. Assumptions: descriptor numbers are
naturals, the three writers are the code's, each bridge belongs to one slot, and the two markers are no such values.

**BridgePump.** `CancelReachesPump` is the heart: a pump that was cancelled has its cancellation waiting at the await it is at,
or is past the reading and on its way out, so the keepalive's `suppress` cannot have swallowed it. `ReasonFirst` says that
a cancelled or ending pump has its reason already, `MarkedCloses` that `_closing_on_purpose` stands only while the
connection it excuses is there, `PauseNoted` that a `recv()` which overlapped a pause has one of its two marks.

**MuxFeed.** The argument is one of time. A blocked write waits for audio. What the audio stamp has grown older than the camera's
silence is explained by audio that lies unread on the socket (`HeldUpOrSilent`). A write blocked on a full pipe is no older than
the audio stamp, and when the stamp is as old as the gap's timeout the watchdog is due (`SeenInTime`): ending the audio
frees the write before it is older than that timeout (`WritesInTime`). This needs the gap's timeout to be
the shorter of the two, which the code's comment demands (`services/ws_bridge.py:178-181`; 3 s and 5 s), and nothing else of the sizes
but that they are not zero. The exceptions are `wedged`, an ffmpeg that reads nothing, and `restamped`, a stamp started over while a write waits.

**WindowSession.** Three stores keep an arrangement, the view, the configuration and the file, and each fits the profile it is kept
for (`OwnArrangements`, `KnownAlike`); what the user left is in the view's layout or else in the configuration, for the active profile,
and in what was put away for the others (`ArrangementKept`). A session and the dialog exclude each other (`DialogOrSession`), each open client has
an owner (`OpenHasOwner`, `AttemptsNamed`), and what was heard or run is of this login (`OwnNews`, `RequestsOnce`). That
nothing changes while all the requests held are run is an induction over their number, for `AllRun` is a recursive function.
Assumed of the constants: on one NAS no two cameras have one id, a lone camera's layout shows the focus slot alone, and every
layout shows the focus slot.

**HistoryPlayback.** `DsmAgrees` speaks of an empty wire, its invariant of the wire as it is: what has still to arrive ends with
what the bridge believes (`ModesAreSent`, by the last message of each kind), nothing on a connection plays before its lookup is over
(`LinkHeld`), and the counter is the stamp last sent on it, from play on and before play too if anything went ahead of it
(`CountIsSent`). One lemma per thing that can happen to
the wire, then the actions. `TailIsCurrent` keeps a lookup that was overtaken from answering for the recording shown.

**LiveSlots.** Two halves. One says what every answer still out may do to the slot it comes back to: it names the camera and the
generation it was asked for (`ErrandsNamed`, `SeeksNamed`), and only the user's newest word is heeded (`MarkIsNewest`). The other
says where the coroutines waiting on the loop will end: the last pause or resume of the layout is the last word on
the queue for any stream (`PausesLast`, `PausesLifted`), so running the queue dry leaves the stream in step.

**TimelineNav.** `LeadsToGoal`: a lookup that has not been overtaken is for the goal its slot was given, and a batch asks once for
each slot (`OneSeek`), so the answer that is heeded brings the slot where it was to go (`SettlesOnNewest`). `LiveIsFinal` and
`OneSearch` do the same for Live and for the busy button. Slots without a camera never leave Live.

**ListPages.** `CallFits`: the query out is for the filter and the page chosen now, unless something was put off behind it, and then
its answer is thrown away. `ShownFits` ties the rows on display to the list they are cut from. All four pages ask
through `Load` alone, so one lemma (`Loading`) serves every handler that asks, and a handler that does not leaves the page at
rest (`RestsOn`, `Emptied`) or cuts its list anew (`Recut`). That Next leads to where there are entries rests on the
arithmetic of rounding up (`Paging`), for any page size. The same steps show the refinement: each either
leaves the filter the rows were fetched for, or sets it to the one chosen and leaves the choice.

**ApiSession.** `Unrefused` says that a caller with a refusal behind it is not logging in and that
`refusal` is set; `Ordered` that every session anyone carries is at most the newest the NAS
granted, and that a login's new session is newer than the one that failed. Both are needed for a
second login of another caller in between. `ClosedIsSilent` needs only the types.

**ClientParts.** A step of the client is a step of the part it is about and leaves the variables of the others alone (one lemma
for each part, as `PtzStep`), so an invariant of a part is one of the client. Of the parts:

* *Thumbnails.* `GenerationIsNas`: a fetch whose generation is the current one was called in this session; login raises the
  generation in the same step as it empties the cache, so no fetch passes both.
* *PTZ.* `InTurn`: coroutines begin in the order of the clicks, of one camera at most one is under way, it
  holds the lock, and everything clicked before it is over. Assumes asyncio's first-come lock and loop.
* *E-Maps.* `MapInv`: a load whose request is the newest is for the selected row, as selecting raises the request.
* *Timeline data.* `DataShown`: where the view stands still and its debounce has gone off, what is wanted behind the fetch,
  else what was asked for, else what is drawn, spans the view (`DataSpans`), and belongs to the cameras on screen unless
  something is wanted behind it (`DataAsked`).
* *Lookups.* `PointerShown` and `MonthShown` (a question that may still be heeded is for the pointer's place, the month shown);
  `HistoryKept`: every type that occurred before a camera's cutoff is known, or will be from a scan whose stretch has it (`ScanInv`).
* *RTSP monitor.* `StallShown`: an unpaused monitor that was disturbed since its last check and saw the stream move has a new frame.
* *Push to talk.* `TalkShown`: a session that runs is the one whose button is lit, or has been told to stop, and
  a microphone is open only while its session runs or closes it; `TalkRecent`: what
  is queued is the last that was recorded, in order.
* *Downloads.* `OneSaves`: as long as no two downloads were ever under way at once, one that writes holds the file under the `.part`
  name from its first write to its end, with what its answer has sent so far. The theorem, like the property, claims nothing of downloads that
  share a name, and of a `.part` left behind it says only what may have left it: quitting, a close that raised or a refused unlink.
* *Event search.* Two inductions over the search steps: `Windows` has a value, and its windows adjoin one another from where the
  caches end to where the last step leads (`WindowsFacts`). So while a search is out, the windows left adjoin and reach
  far enough, and playing forward no event may be gone to up to the first of them (`SearchGoesOn`). Assumes times in
  whole units, at least one search step, and a camera, without which the button does nothing (`ui/liveview.py:1595-1596`).
* *Webhooks.* `HooksCount`: the count is the queue's length and the one in the worker's hands. *Receipts.* `ReceiptShown`.
* *Ranges.* For any integers, a range refused as empty shares no moment with the recording, and one that is not is the
  intersection of what was asked for and what was recorded.

**Model-checked only.**

* Liveness (`StopReleasesAll`, `EndsWhenTold`, `GoneServerEnds`, `BlockedVideoMoves`, `PollsRestoreSession`, `Settles`,
  `LostComesBack`, `ReloadHappens`, `NudgesReleased`, `SessionComesUp`, `PartsMoveOn`): the prover has no rule for
  fairness that would apply here, and none for `ENABLED`.

The library's induction theorems take an operator as a parameter, which the provers cannot instantiate; the two inductions here
(`ByInduction` and its like) are made of `WFMin` and `NatLessThanWellFounded` instead, over a set.

## Where the code and its comments differ

The first two rows are runs (`session_logout`, `history_stamps`), the others have a configuration whose
counterexample shows them.

| Configuration (module) | Property | What happens, and what it contradicts |
|---|---|---|
| ApiSessionLogout (ApiSession) | `NoLoginAfterLogout` | `logout()` forgets the credentials only after the NAS has answered; a call that meets a session error before that logs in again, which `logout()`'s docstring means to rule out |
| HistoryPlaybackStamps (HistoryPlayback) | `StampsInOrder` | `_current_ws` is set before the recording lookup that precedes play is awaited (`ws_bridge.py:2059`, `2078`); a command sent meanwhile goes out first, with the count of the connection before, and play follows with 1: not the per-connection counter starting at 1 of `ws_bridge.py:69-71` |
| DownloadsLeft (Downloads) | `FailuresCleanUp` | the close that writes the last bytes is outside both `try` blocks, and the close of the `except` clause may raise before the unlink (`services/download.py:146`, `141`): a full disk then leaves the `.part` that `stream_to_file`'s docstring says is removed (`105-108`) |
| MuxFeedPause (MuxFeed) | `HealthyPauseGoesOn` | a Live bridge paused while a video write waits for audio: the discarded audio keeps stamping `_last_audio_at`, the watchdog never frees the write, and its time-out ends a healthy bridge: what `_write_pipe`'s docstring says its guard prevents |
| HistoryPlaybackSeek (HistoryPlayback) | `SeekSurvives` | a frame sent before a seek arrives after it and sets `_last_video_msec` back; a play built before the first new frame starts at the old place (`ws_bridge.py:1979-1983`) |
| LiveSlotsPause (LiveSlots) | `PausedStreamsKnow` | a lookup answered after Pause runs `bridge.seek()`, which un-pauses the bridge in a paused layout (`liveview.py:3180-3182`) |
| LiveSlotsOffline (LiveSlots) | `NotStuckOffline` | the one URL request made when a camera comes back fails, and no later poll asks again (`liveview.py:3580-3582`) |
| TimelineNavNudge (TimelineNav) | `NudgesAddUp` | the time-out of one nudge frees a later one, which then counts from the old position, so a click is lost (`liveview.py:105-115`) |
| ClientPartsNearest (MCClientParts) | `NearestOfAll` | one camera's cache reaches further than another's: the search takes its event and skips a nearer one (`README.md:63`, `liveview.py:1579-1581`) |
| TimelineDataEdge (TimelineData) | `TrailingEdgeDrawn` | presence is cached as covering a stretch that had not been recorded when DSM was asked; when following stops it stays blank (`liveview.py:929-934`) |
| WindowSessionEarly (MCWindowSession) | `LayoutsKept` | a layout switched before the cameras are listed saves empty slots over the arrangement (`liveview.py:2615`, the client's `README.md:190`) |
| ReceiptsLeaving (Receipts) | `NeverOverRecording` | a receipt drawn while a slot leaves History stays up when a seek takes the slot back (`liveview.py:590`) |

Smaller ones, seen while modelling and allowed by the models:

* A URL carries no generation, so one asked for before a seek replaces History with Live; Live clicked during the reload of a
  History slot leaves it dark; a staggered start or reload fires whatever happened to its slot since.
* After both streams of a History bridge stall, the first video back can end the audio before the fill writes its first
  silence; `seek()` uses `_current_ws` again after an await and may find it gone.
* A click on the ruler does not cancel an event search that is out. Reverse play anchors events at their end, but
  the windows list them one by one, so a nearer end in a later window is missed.
* A `force` that was coalesced into a pending refresh can be lost; a failed timeline fetch leaves the previous cameras' data;
  hover where no camera is, and a month change with no cameras, do not raise their generation.
* A failed list of time lapses keeps the rows of the old task; repeated Next after failures skips pages; after a failed load of
  several cameras' snapshots Prev shows an empty "Page 1 of 1"; on the events page a page turn overwrites "Loading" or "Failed".
* The alert badge and the home mode button of the NAS before are not reset; a cancelled login is not logged out at
  the NAS; an `OSError` while a profile is added leaves the dialog waiting.
* Overlapping transaction polls answered in the wrong order set a receipt back to an older text until the next poll.
* `EMapService.clear()` does not stop a load that is out from filling the cache again; the message of an empty list may be replaced.
* A keyring failure ends a webhook worker, and its queue then only drops; alert polls that overlap send an alert twice.
* Push to talk switched off and on quickly finds the speaker occupied by its own last session.

`StallMeansWedged`, `GoneServerEnds`, `LostComesBack`, `CountsFromPlay`, `LeftoversExplained`, `NotOverRecording` and `NoEventSkipped`
name their exceptions in their comments.

## Not modelled, and why

* **mpv widget, G.711, AAC bit parsing, lens geometry, event classification tables:** data
  conversion or callbacks into libraries, with real time or floating point at their core.
* **Stream URLs, licences, dialogs, logging, update check, event services:** no state between two
  operations that another actor could disturb. What the event services answer is an input of three modules.
* **Drawing and layout.** GTK widgets are represented by the state handlers test.
* **Audio state of the slots** (mute, volume) follows the user alone; the shown playhead between two seeks
  needs positions, which `HistoryPlayback` abstracts to the seek they follow.
* **The raw (video only) path of a bridge** writes one stream and has neither gap nor fill.
* **Playing, exporting and deleting a listed row** are one request each and leave the list alone until the reload that
  `ListPages` has.

## Plan

Done: all modules above; theorems for every safety property that a passing run checks, and the refinement of `LatestList`.

Next, most important first:

1. A *slot promise* (what is shown belongs to the slot's camera and to the newest request) that `LiveSlots` implements, and a
   *playback promise* for `HistoryPlayback`.
2. `find_recording_at` and the merging of presence intervals as operators checked against reference definitions.
3. The reverse direction of the event search (events anchored at their end), for which `NoEventSkipped` claims nothing.
