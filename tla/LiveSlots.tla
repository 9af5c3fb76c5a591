----------------------------- MODULE LiveSlots -----------------------------
(***************************************************************************)
(* One Live View slot (ui/liveview.py) and the answers that come back to   *)
(* it: stream URLs, recording lookups, seeks, pauses, give-ups and actions *)
(* staggered across the grid.  Handlers run one at a time on the GTK       *)
(* thread; what they ask for is answered later, in any order, by when the  *)
(* slot may hold another camera, another stream or a newer request.        *)
(*                                                                         *)
(* The slot is neither the grid's first, so its part of a batch is always  *)
(* a timer's, nor the timeline's focus.  A place is a moment in recorded   *)
(* video, named by the seek that first went there; 0 is no place.          *)
(***************************************************************************)
EXTENDS Naturals, Sequences

CONSTANTS
  Cams,
  NoCam,
  MaxActs,   \* bound: things done by the user, the cameras and the streams
  MaxGens    \* bound: seeks, those of retries and reloads included

ASSUME SlotAssumption == NoCam \notin Cams /\ MaxActs \in Nat /\ MaxGens \in Nat

VARIABLES
  slot,     \* the slot: see SlotType
  sources,  \* bridges and monitors made so far
  paused,   \* _timeline_paused; mpv is paused with it
  away,     \* _streams_paused: another page is shown
  mark,     \* the slot's entry in _slot_seek_generation, 0 if it has none
  gens,     \* _seek_generation
  leaving,  \* the slot is in _leaving_history_slots
  jobs,     \* answers and timers still to come
  loop,     \* bridge coroutines submitted to the asyncio loop, in order
  acts,
  newest    \* (history variable) the last seek, 0 once the user has left History

vars == <<slot, sources, paused, away, mark, gens, leaving, jobs, loop, acts, newest>>
page == <<paused, away>>
seek == <<mark, gens, newest>>

Kinds == {"none", "live", "rtsp", "history"}
NoSource == [n |-> 0, kind |-> "none", cam |-> NoCam, at |-> 0]

Somewhere == Cams \cup {NoCam}
SlotType ==
  [cam : Somewhere,                      \* slot.camera
   on : BOOLEAN,                         \* its status, as last heard, is ENABLED
   source : [n : Nat, kind : Kinds, cam : Somewhere, at : 0 .. MaxGens],
                                         \* slot._ws_bridge or _rtsp_monitor
   told : BOOLEAN,                       \* which knows that it is paused
   card : {"none", "offline", "lost"},   \* the placeholder shown
   lost : BOOLEAN,                       \* slot._stream_lost
   position : 0 .. MaxGens]              \* slot._history_position

(* A coroutine carries the place its bridge was made for, or sought to.    *)
Message == [what : {"pause", "resume", "resume_unseen"}, n : Nat, at : 0 .. MaxGens]
           \cup [what : {"seek"}, n : Nat, at : 0 .. MaxGens, gen : Nat]

Errands == {"url", "lookup", "seek", "position", "gave_up",
            "start_later", "reload_later", "seek_later"}
JobType == [what : Errands, cam : Somewhere, on : BOOLEAN, gen : Nat, at : 0 .. MaxGens, n : Nat]

SlotOK ==
  /\ slot \in SlotType /\ sources \in Nat /\ slot.source.n <= sources
  /\ (slot.source.n = 0) = (slot.source.kind = "none") /\ (slot.lost => slot.source.n = 0)

TypeOK ==
  /\ SlotOK
  /\ paused \in BOOLEAN /\ away \in BOOLEAN /\ leaving \in BOOLEAN
  /\ gens \in 0 .. MaxGens /\ mark \in 0 .. gens /\ newest \in 0 .. gens
  /\ jobs \subseteq JobType /\ \A j \in jobs : j.gen <= gens /\ j.n <= sources
  /\ loop \in Seq(Message) /\ \A i \in DOMAIN loop : loop[i].n <= sources
  /\ acts \in 0 .. MaxActs

(* A slot whose camera plays Live.                                         *)
Init ==
  /\ \E c \in Cams :
       slot = [cam |-> c, on |-> TRUE, told |-> FALSE, card |-> "none", lost |-> FALSE, position |-> 0,
               source |-> [n |-> 1, kind |-> "live", cam |-> c, at |-> 0]]
  /\ sources = 1 /\ paused = FALSE /\ away = FALSE /\ mark = 0 /\ gens = 0 /\ leaving = FALSE
  /\ jobs = {} /\ loop = <<>> /\ acts = 0 /\ newest = 0

----------------------------------------------------------------------------
(* What handlers do to a slot.                                             *)

IsHistory(s) == s.source.kind = "history"
IsBridge(s)  == s.source.kind \in {"live", "history"}

Stopped(s) == [s EXCEPT !.source = NoSource, !.told = FALSE]
Cleared(s) == [Stopped(s) EXCEPT !.position = 0, !.lost = FALSE, !.card = "none"]
Offline(s) == [Stopped(s) EXCEPT !.position = 0, !.lost = FALSE, !.card = "offline"]

(* _history_target: where a restart of the slot brings it back to.         *)
HistoryTarget(s) ==
  IF IsHistory(s) \/ (~IsBridge(s) /\ s.lost) THEN s.position ELSE 0

Act == acts < MaxActs /\ acts' = acts + 1

(* What a closure has captured: all a job knows when its time comes.       *)
NoJob == [what |-> "none", cam |-> NoCam, on |-> FALSE, gen |-> 0, at |-> 0, n |-> 0]
UrlFetch(c)         == [NoJob EXCEPT !.what = "url", !.cam = c]
Lookup(c, g, place) == [NoJob EXCEPT !.what = "lookup", !.cam = c, !.gen = g, !.at = place]
Seeking(g, place, n) == [NoJob EXCEPT !.what = "seek", !.gen = g, !.at = place, !.n = n]

(* _start_stream, for the camera as its caller had read it; s and j are    *)
(* the slot and the jobs it begins with.                                   *)
ForgottenAtFetch(s) == [s EXCEPT !.lost = FALSE]
LostUntilUrl(s) == s
StartStream(s, c, on, j) ==
  IF on THEN slot' = LostUntilUrl(s) /\ jobs' = j \cup {UrlFetch(c)}
        ELSE slot' = Offline(s) /\ jobs' = j

(* _restart_slot_stream: at a place, a seek of this slot's own.            *)
RestartSlot(s, place, j) ==
  IF place = 0 THEN StartStream(s, s.cam, s.on, j) /\ UNCHANGED seek
  ELSE /\ gens < MaxGens /\ gens' = gens + 1 /\ mark' = gens' /\ newest' = gens'
       /\ slot' = s /\ jobs' = j \cup {Lookup(s.cam, gens', place)}

(* _start_bridge or _start_rtsp_monitor: the stream joins the pause.       *)
PauseMissed == FALSE
JoinsPause == paused
StillLost == slot.lost
NotLost == FALSE
Pausing(s) == [what |-> "pause", n |-> s.source.n, at |-> s.source.at]
NewSource(kind, c, place) ==
  /\ sources' = sources + 1
  /\ slot' = [slot EXCEPT !.source = [n |-> sources', kind |-> kind, cam |-> c, at |-> place],
                          !.told = JoinsPause, !.card = "none", !.lost = NotLost, !.position = place]
  /\ loop' = IF JoinsPause /\ IsBridge(slot') THEN Append(loop, Pausing(slot')) ELSE loop
  /\ leaving' = (leaving /\ kind = "rtsp")

(* _end_timeline_pause and _resume_all_slots: monitors at once, bridges by *)
(* a coroutine; show tells whether its position is wanted.                 *)
Unpaused(s) == IF s.source.kind = "rtsp" THEN [s EXCEPT !.told = FALSE] ELSE s
ResumeSlots(show) ==
  /\ paused' = FALSE
  /\ loop' = IF paused /\ IsBridge(slot)
             THEN Append(loop, [what |-> IF show THEN "resume" ELSE "resume_unseen",
                                n |-> slot.source.n, at |-> slot.source.at])
             ELSE loop

----------------------------------------------------------------------------
(* The user.                                                               *)

(* _on_timeline_seek: a click, a jump, an event or Back/Forward 10s.       *)
SeekAll ==
  /\ ~away /\ gens < MaxGens /\ Act
  /\ ResumeSlots(FALSE) /\ slot' = Unpaused(slot)
  /\ gens' = gens + 1 /\ mark' = gens' /\ newest' = gens'
  /\ jobs' = jobs \cup {[NoJob EXCEPT !.what = "seek_later", !.gen = gens', !.at = gens']}
  /\ UNCHANGED <<sources, away, leaving>>

(* _return_all_to_live.                                                    *)
NotArmed == leaving
LeavingArmed == TRUE
GoLive ==
  /\ ~away /\ Act
  /\ ResumeSlots(FALSE)
  /\ mark' = 0 /\ newest' = 0
  /\ LET s == Unpaused(slot) IN
       IF IsHistory(s)
       THEN /\ slot' = [s EXCEPT !.position = 0] /\ leaving' = LeavingArmed
            /\ jobs' = jobs \cup {[NoJob EXCEPT !.what = "start_later", !.cam = s.cam, !.on = s.on]}
       ELSE /\ slot' = IF HistoryTarget(s) # 0 THEN [s EXCEPT !.position = 0] ELSE s
            /\ UNCHANGED <<leaving, jobs>>
  /\ UNCHANGED <<sources, away, gens>>

(* _pause_all_slots: request_pause() and the monitor's pause take hold at  *)
(* once, pause() on the loop.                                              *)
PauseAll ==
  /\ ~away /\ ~paused /\ Act /\ paused' = TRUE
  /\ slot' = [slot EXCEPT !.told = slot.source.n # 0]
  /\ loop' = IF IsBridge(slot) THEN Append(loop, Pausing(slot)) ELSE loop
  /\ UNCHANGED <<sources, away, seek, leaving, jobs>>

Play ==
  /\ ~away /\ paused /\ Act
  /\ ResumeSlots(TRUE) /\ slot' = Unpaused(slot)
  /\ UNCHANGED <<sources, away, seek, leaving, jobs>>

(* _assign_to_slot: another camera, in the place the slot was showing.     *)
Assign(c) ==
  /\ ~away /\ c # slot.cam /\ Act
  /\ \E on \in BOOLEAN :
       RestartSlot([Cleared(slot) EXCEPT !.cam = c, !.on = on], HistoryTarget(slot), jobs)
  /\ UNCHANGED <<sources, page, leaving, loop>>

Clear ==
  /\ ~away /\ slot.cam # NoCam /\ Act
  /\ slot' = [Cleared(slot) EXCEPT !.cam = NoCam]
  /\ UNCHANGED <<sources, page, seek, leaving, jobs, loop>>

(* reload_all_streams, then this slot's turn: _on_slot_reload.             *)
ReloadAll ==
  /\ slot.cam # NoCam /\ Act
  /\ jobs' = jobs \cup {[NoJob EXCEPT !.what = "reload_later"]}
  /\ UNCHANGED <<slot, sources, page, seek, leaving, loop>>

(* restart_camera, after its protocol or profile was changed.              *)
RestartCamera ==
  /\ slot.cam # NoCam /\ Act
  /\ IF away THEN slot' = Stopped(slot) /\ UNCHANGED <<seek, jobs>>
             ELSE RestartSlot(Stopped(slot), HistoryTarget(slot), jobs)
  /\ UNCHANGED <<sources, page, leaving, loop>>

(* pause_streams and resume_streams: leaving the page, and coming back.    *)
LeavePage ==
  /\ ~away /\ Act /\ away' = TRUE
  /\ mark' = 0 /\ newest' = 0 /\ paused' = FALSE
  /\ slot' = IF slot.cam = NoCam THEN slot ELSE Stopped(slot)
  /\ UNCHANGED <<sources, gens, leaving, jobs, loop>>

ComeBack ==
  /\ away /\ Act /\ away' = FALSE
  /\ IF slot.cam = NoCam THEN UNCHANGED <<slot, jobs>>
     ELSE StartStream([slot EXCEPT !.position = 0], slot.cam, slot.on, jobs)
  /\ UNCHANGED <<sources, paused, seek, leaving, loop>>

----------------------------------------------------------------------------
(* Timers of a staggered batch, each with what it captured.                *)

Answered(j) == jobs \ {j}

StaggeredStart(j) ==
  /\ j.what = "start_later"
  /\ StartStream(slot, j.cam, j.on, Answered(j))
  /\ UNCHANGED <<sources, page, seek, leaving, loop, acts>>

StaggeredReload(j) ==
  /\ j.what = "reload_later"
  /\ IF slot.cam = NoCam THEN jobs' = Answered(j) /\ UNCHANGED <<slot, seek>>
     ELSE RestartSlot(Stopped(slot), HistoryTarget(slot), Answered(j))
  /\ UNCHANGED <<sources, page, leaving, loop, acts>>

(* _seek_slot_to_time.                                                     *)
StaggeredSeek(j) ==
  /\ j.what = "seek_later"
  /\ jobs' = IF j.gen = mark /\ slot.cam # NoCam
             THEN Answered(j) \cup {Lookup(slot.cam, j.gen, j.at)} ELSE Answered(j)
  /\ UNCHANGED <<slot, sources, page, seek, leaving, loop, acts>>

----------------------------------------------------------------------------
(* Answers.                                                                *)

(* _on_stream_url: the stream starts if the page and the camera are there. *)
AnyCamera(c) == slot.cam # NoCam
SameCamera(c) == slot.cam = c
UrlArrives(j) ==
  /\ j.what = "url" /\ jobs' = Answered(j)
  /\ IF away \/ ~SameCamera(j.cam) THEN UNCHANGED <<slot, sources, leaving, loop>>
     ELSE \E kind \in {"live", "rtsp"} : NewSource(kind, j.cam, 0)
  /\ UNCHANGED <<page, seek, acts>>

(* Only logged.                                                            *)
UrlFails(j) ==
  /\ j.what = "url" /\ jobs' = Answered(j)
  /\ UNCHANGED <<slot, sources, page, seek, leaving, loop, acts>>

(* _on_recording_resolved: a History bridge is sought, any other stream is *)
(* replaced by one.                                                        *)
AnyLookup(g) == TRUE
NewestLookup(g) == g = mark
RecordingFound(j) ==
  /\ j.what = "lookup" /\ jobs' = Answered(j)
  /\ IF ~NewestLookup(j.gen) \/ ~SameCamera(j.cam)
     THEN UNCHANGED <<slot, sources, leaving, loop>>
     ELSE IF IsHistory(slot)
     THEN /\ loop' = Append(loop, [what |-> "seek", n |-> slot.source.n, at |-> j.at,
                                   gen |-> j.gen])
          /\ UNCHANGED <<slot, sources, leaving>>
     ELSE NewSource("history", j.cam, j.at)
  /\ UNCHANGED <<page, seek, acts>>

(* No recording, or the lookup failed.                                     *)
NoRecording(j) ==
  /\ j.what = "lookup" /\ jobs' = Answered(j)
  /\ UNCHANGED <<slot, sources, page, seek, leaving, loop, acts>>

(* _on_bridge_seek_done.                                                   *)
SeekDone(j) ==
  /\ j.what = "seek" /\ jobs' = Answered(j)
  /\ slot' = IF NewestLookup(j.gen) /\ slot.source.n = j.n THEN [slot EXCEPT !.position = j.at]
             ELSE slot
  /\ UNCHANGED <<sources, page, seek, leaving, loop, acts>>

(* The position pause() or resume() returned: set on the slot, whatever it *)
(* plays by now.                                                           *)
PositionAnswer(j) ==
  /\ j.what = "position" /\ jobs' = Answered(j)
  /\ slot' = [slot EXCEPT !.position = j.at]
  /\ UNCHANGED <<sources, page, seek, leaving, loop, acts>>

(* _on_stream_gave_up: the stream lost card, and the polls retry.          *)
GaveUp(j) ==
  /\ j.what = "gave_up" /\ jobs' = Answered(j)
  /\ slot' = IF slot.source.n = j.n THEN [Stopped(slot) EXCEPT !.lost = TRUE, !.card = "lost"]
             ELSE slot
  /\ UNCHANGED <<sources, page, seek, leaving, loop, acts>>

----------------------------------------------------------------------------
(* The asyncio loop: a bridge's coroutine, up to its answer.  A bridge the *)
(* slot has dropped answers too, and nobody sees what it does.             *)

LoopStep ==
  /\ loop # <<>> /\ loop' = Tail(loop)
  /\ LET m == Head(loop)
         mine == slot.source.n = m.n
         history == IF mine THEN IsHistory(slot) ELSE m.at # 0
         at == IF mine THEN slot.source.at ELSE m.at
         position == [NoJob EXCEPT !.what = "position", !.at = at]
     IN CASE m.what = "seek" ->
               /\ slot' = IF mine THEN [slot EXCEPT !.source.at = m.at, !.told = FALSE] ELSE slot
               /\ jobs' = jobs \cup {Seeking(m.gen, m.at, m.n)}
          [] m.what = "pause" ->
               /\ slot' = IF mine THEN [slot EXCEPT !.told = TRUE] ELSE slot
               /\ jobs' = IF history THEN jobs \cup {position} ELSE jobs
          [] OTHER ->
               /\ slot' = IF mine THEN [slot EXCEPT !.told = FALSE] ELSE slot
               /\ jobs' = IF history /\ m.what = "resume" THEN jobs \cup {position} ELSE jobs
  /\ UNCHANGED <<sources, page, seek, leaving, acts>>

(* The bridge or monitor gives up: wait_closed() or on_gave_up.            *)
GiveUp ==
  /\ slot.source.n # 0 /\ Act
  /\ jobs' = jobs \cup {[NoJob EXCEPT !.what = "gave_up", !.n = slot.source.n]}
  /\ UNCHANGED <<slot, sources, page, seek, leaving, loop>>

----------------------------------------------------------------------------
(* Polls.                                                                  *)

(* sync_camera_statuses.                                                   *)
Sync(on) ==
  /\ slot.cam # NoCam
  /\ IF on = slot.on THEN slot.lost /\ on /\ UNCHANGED acts ELSE Act
  /\ LET s == [slot EXCEPT !.on = on] IN
       IF away THEN slot' = s /\ UNCHANGED <<seek, jobs>>
               ELSE RestartSlot(s, IF on THEN slot.position ELSE 0, jobs)
  /\ UNCHANGED <<sources, page, leaving, loop>>

(* _tick_history_positions, every second while the page is shown.          *)
Tick ==
  /\ ~away /\ ~leaving /\ IsHistory(slot) /\ ~slot.told
  /\ slot' = [slot EXCEPT !.position = slot.source.at]
  /\ UNCHANGED <<sources, page, seek, leaving, jobs, loop, acts>>

----------------------------------------------------------------------------
User == SeekAll \/ GoLive \/ PauseAll \/ Play \/ Clear \/ ReloadAll \/ RestartCamera
        \/ LeavePage \/ ComeBack \/ \E c \in Cams : Assign(c)

Timer(j)  == StaggeredStart(j) \/ StaggeredReload(j) \/ StaggeredSeek(j)
Answer(j) == UrlArrives(j) \/ UrlFails(j) \/ RecordingFound(j) \/ NoRecording(j)
             \/ SeekDone(j) \/ PositionAnswer(j) \/ GaveUp(j)

Next ==
  \/ User \/ GiveUp \/ LoopStep \/ Tick
  \/ \E on \in BOOLEAN : Sync(on)
  \/ \E j \in jobs : Timer(j) \/ Answer(j)

Spec == Init /\ [][Next]_vars

(* Timers fire, coroutines run, what is asked is answered, the camera list *)
(* is polled, and the NAS does not fail every request for good.            *)
FairSpec ==
  /\ Spec
  /\ WF_vars(LoopStep)
  /\ WF_vars(\E j \in jobs : Timer(j) \/ Answer(j))
  /\ WF_vars(Sync(TRUE) /\ slot.on)
  /\ SF_vars(\E j \in jobs : UrlArrives(j) \/ RecordingFound(j))

----------------------------------------------------------------------------
(* The stream in a slot is that of the camera the slot holds, however late *)
(* a URL or a recording comes for the one it held before.                  *)
SourceIsForCamera == slot.source.n # 0 => slot.source.cam = slot.cam

(* Once the loop is idle every stream agrees with the layout's Pause: none *)
(* is left frozen in a playing layout, and none but a History stream that  *)
(* was sought meanwhile runs into a paused player.                         *)
PauseInStep ==
  loop = <<>> /\ slot.source.n # 0 /\ slot.told # paused => paused /\ IsHistory(slot)

(* No lookup asked for before the user's last seek, Live click or leaving  *)
(* of the page starts a History stream or moves one.                       *)
StaleLookupsIgnored ==
  [][(\E j \in jobs : RecordingFound(j) /\ j.gen # newest)
       => slot'.source = slot.source /\ loop' = loop]_vars

(* A slot the user has taken out of History has no position again until he *)
(* seeks: only the answer of a pause or a resume asked for before may set  *)
(* one.                                                                    *)
LeftMeansLeft ==
  [][newest = 0 /\ slot.position = 0 /\ slot'.position # 0
       => \E j \in jobs : PositionAnswer(j)]_vars

(* A camera whose stream was given up is shown again without the user,     *)
(* while it is up and the page is shown, however often a URL fails; unless *)
(* a staggered start of the camera held before puts its offline card here. *)
LostComesBack ==
  \A c \in Cams :
    slot.lost /\ slot.cam = c /\ slot.on /\ ~away
      ~> \/ slot.source.n # 0 \/ slot.card = "offline"
         \/ slot.cam # c \/ ~slot.on \/ away \/ gens = MaxGens

Settled == jobs = {} /\ loop = <<>>

(* _start_stream's comment: what plays in a paused layout knows it, for it *)
(* would read the paused player as a dead stream.                          *)
PausedStreamsKnow == Settled /\ paused /\ slot.source.n # 0 => slot.told

(* sync_camera_statuses: a camera that comes back online has its feed      *)
(* restored without being picked again.                                    *)
NotStuckOffline == Settled /\ slot.on /\ ~away /\ slot.cam # NoCam => slot.card # "offline"

----------------------------------------------------------------------------
(* Behind the safety properties, an inductive invariant.                   *)

(* A lookup, and what is asked with it, is for a camera; lookups and seeks *)
(* carry a generation.                                                     *)
ErrandsNamed ==
  \A j \in jobs :
    /\ j.what \in {"url", "lookup", "start_later"} => j.cam \in Cams
    /\ j.what \in {"lookup", "seek", "seek_later"} => j.gen # 0
SeeksNamed == \A i \in DOMAIN loop : loop[i].what = "seek" => loop[i].gen \in 1 .. gens

(* The mark is the user's last word; a slot still in History after he left *)
(* is known to be leaving.                                                 *)
MarkIsNewest == mark = newest
LeavingKnown == IsHistory(slot) /\ newest = 0 => leaving

NothingInEmpty == slot.cam = NoCam => slot.source.n = 0

(* What the loop still has for the slot's stream ends as the layout is:    *)
(* nothing overtakes the last pause or resume, History's seeks excepted.   *)
Own(i) == i \in DOMAIN loop /\ loop[i].n = slot.source.n
PausesLifted ==
  slot.source.n # 0 /\ ~paused =>
    /\ slot.told => \E k \in DOMAIN loop : Own(k) /\ loop[k].what # "pause"
    /\ \A i \in DOMAIN loop : Own(i) /\ loop[i].what = "pause"
         => \E k \in DOMAIN loop : k > i /\ Own(k) /\ loop[k].what # "pause"
PausesLast ==
  slot.source.n # 0 /\ paused /\ ~IsHistory(slot) =>
    /\ ~slot.told => \E k \in DOMAIN loop : Own(k) /\ loop[k].what = "pause"
    /\ \A i \in DOMAIN loop : Own(i) /\ loop[i].what # "pause"
         => \E k \in DOMAIN loop : k > i /\ Own(k) /\ loop[k].what = "pause"
MonitorsNotOnLoop == slot.source.kind = "rtsp" => \A i \in DOMAIN loop : ~Own(i)

IInv == /\ TypeOK /\ SourceIsForCamera /\ ErrandsNamed /\ SeeksNamed /\ MarkIsNewest
        /\ LeavingKnown /\ NothingInEmpty /\ PausesLifted /\ PausesLast /\ MonitorsNotOnLoop

============================================================================
