---------------------------- MODULE ClientParts ----------------------------
(***************************************************************************)
(* The parts of the client beside playback, in one process: twelve         *)
(* components that share the GTK thread, the asyncio loop and the session, *)
(* and no other state.  What one of them does neither enables nor disables *)
(* a step of another, so a behaviour follows one of them, "about" says     *)
(* which, and the rest wait in their initial states: an interleaving of    *)
(* two adds nothing to a property of either.                               *)
(***************************************************************************)
EXTENDS Integers, Sequences, FiniteSets

CONSTANTS
    Cams, Widths, Default, LiveRefresh,
    StartTime, EndTime, MaxMoves,                               \* TimelineData
    Months, Days, Recorded, MaxTime, MaxClicks,                 \* TimelineLookups
    MaxStartup, MaxRestarts, MaxPauses, MaxPlays,               \* RtspMonitor
    Sessions, MaxQueued, MaxChunks,                             \* PushToTalk
    Loads, Chunks, Streamed,                                    \* Downloads
    Recs, Places, Limit, MaxLogins,                             \* RecordingThumbnails
    Maps, MaxLoads, MaxEdits,                                   \* EMaps
    MaxCommands,                                                \* PtzOrder
    QueueSize, MaxEvents, MaxSessions,                          \* Webhooks
    VideoCap, Intervals, PipeCap, MaxFrames, MaxDrops,          \* AacDetection
    Slots, Unread, NoCam, MaxText, MaxPolls, MaxSlotMoves,      \* Receipts
    Now, Floor, EventLength, SearchSteps, Graces, Skip, References,
    Stretches, MaxRecorded                                      \* EventSearch

VARIABLES
    about,
    now, end, window, following, focus, active, lastLive, debounce,
    inFlight, pending, call, presence, eventsTo, drawn, lost, moves,
    kind, shown, api, inside, settling, ptr, thumbGen, pictures, thumb,
    calOpen, month, sel, avail, calGen, queries, filterOpen, page, scanGen,
    scans, time, happened, known, checked, clicks,
    timer, layout, paused, advancing, startup, restarts, last, frames, sends,
    pauses, plays, disturbed,
    talking, own, stage, told, telling, mic, chunks, recorded, sent, failing,
    others,
    download, got, handle, part, out, data, body, shared,
    nas, generation, cache, fetches, logins,
    listed, unavailable, refreshable, listing, rows, selected, lastMap,
    request, loads, maps, display, versions, edits,
    commands, camera, command, holder,
    dispatcher, started, emitted, calls, worker, queue, posting, unfinished,
    settled,
    phase, muxed, connected, drops, expired, video, audio, held, sounds,
    measured, previous, ready, pipe, unwritten,
    pairing, text, old, paired, seen, available, polls, asked, onScreen, away,
    slotCamera, mode, due, receipt, slotMoves,
    events, eventCache, reference, grace, forward, reverse, searching, windows,
    target

Data == INSTANCE TimelineData
Lookups == INSTANCE TimelineLookups WITH now <- time
Rtsp == INSTANCE RtspMonitor
Talk == INSTANCE PushToTalk WITH active <- talking, queue <- chunks
Saving == INSTANCE Downloads WITH stage <- download
Thumbs == INSTANCE RecordingThumbnails
MapPage == INSTANCE EMaps WITH last <- lastMap, cache <- maps, shown <- display,
                               nas <- versions
Ptz == INSTANCE PtzOrder WITH Cameras <- Cams, MaxClicks <- MaxCommands,
                              clicks <- commands, stage <- command
Hooks == INSTANCE Webhooks WITH logins <- started
Sound == INSTANCE AacDetection
Pos == INSTANCE Receipts WITH MaxMoves <- MaxSlotMoves, moves <- slotMoves,
                              active <- onScreen, camera <- slotCamera
Search == INSTANCE EventSearch WITH MaxEvents <- MaxRecorded, cache <- eventCache,
                                    stage <- searching

ASSUME PartsAssumption ==
    /\ Data!WindowAssumption /\ Data!TimeAssumption /\ Data!NoneAssumption
    /\ Lookups!RecordedAssumption /\ Lookups!BoundAssumption
    /\ Lookups!DayAssumption
    /\ Rtsp!LimitAssumption
    /\ Talk!SessionAssumption /\ Talk!QueueAssumption
    /\ Saving!LoadAssumption /\ Saving!ChunkAssumption
    /\ Thumbs!PlaceAssumption /\ Thumbs!LoginAssumption
    /\ MapPage!MapAssumption
    /\ Ptz!ClickAssumption
    /\ Hooks!QueueAssumption
    /\ Sound!CapAssumption
    /\ Pos!PairingAssumption
    /\ Search!StepsAssumption /\ Search!StretchAssumption /\ Search!SearchAssumption

dataVars == <<now, end, window, following, focus, active, lastLive, debounce,
           inFlight, pending, call, presence, eventsTo, drawn, lost, moves>>
lookupsVars == <<kind, shown, api, inside, settling, ptr, thumbGen, pictures, thumb,
              calOpen, month, sel, avail, calGen, queries, filterOpen, page,
              scanGen, scans, time, happened, known, checked, clicks>>
rtspVars == <<timer, layout, paused, advancing, startup, restarts, last, frames,
           sends, pauses, plays, disturbed>>
talkVars == <<talking, own, stage, told, telling, mic, chunks, recorded, sent,
           failing, others>>
savingVars == <<download, got, handle, part, out, data, body, shared>>
thumbsVars == <<nas, generation, cache, fetches, logins>>
mapsVars == <<listed, unavailable, refreshable, listing, rows, selected, lastMap,
           request, loads, maps, display, versions, edits>>
ptzVars == <<commands, camera, command, holder>>
hooksVars == <<dispatcher, started, emitted, calls, worker, queue, posting,
            unfinished, settled>>
soundVars == <<phase, muxed, connected, drops, expired, video, audio, held, sounds,
            measured, previous, ready, pipe, unwritten>>
posVars == <<pairing, text, old, paired, seen, available, polls, asked, onScreen,
             away, slotCamera, mode, due, receipt, slotMoves>>
searchVars == <<events, eventCache, reference, grace, forward, reverse, searching,
                windows, target>>

vars == <<about, dataVars, lookupsVars, rtspVars, talkVars, savingVars, thumbsVars, mapsVars, ptzVars,
          hooksVars, soundVars, posVars, searchVars>>

Parts == {"data", "lookups", "rtsp", "talk", "saving", "thumbs", "maps", "ptz",
          "hooks", "sound", "pos", "search"}

Init ==
    /\ about \in Parts
    /\ Data!Init /\ Lookups!Init /\ Rtsp!Init /\ Talk!Init /\ Saving!Init
    /\ Thumbs!Init /\ MapPage!Init /\ Ptz!Init /\ Hooks!Init /\ Sound!Init
    /\ Pos!Init /\ IF about = "search" THEN Search!Init ELSE Search!Quiet
    /\ about # "lookups" => kind = "types"

(* Every part but the one a behaviour is about stays as it is.             *)
Only(p) ==
    /\ about = p /\ UNCHANGED about
    /\ IF p = "data" THEN TRUE ELSE UNCHANGED dataVars
    /\ IF p = "lookups" THEN TRUE ELSE UNCHANGED lookupsVars
    /\ IF p = "rtsp" THEN TRUE ELSE UNCHANGED rtspVars
    /\ IF p = "talk" THEN TRUE ELSE UNCHANGED talkVars
    /\ IF p = "saving" THEN TRUE ELSE UNCHANGED savingVars
    /\ IF p = "thumbs" THEN TRUE ELSE UNCHANGED thumbsVars
    /\ IF p = "maps" THEN TRUE ELSE UNCHANGED mapsVars
    /\ IF p = "ptz" THEN TRUE ELSE UNCHANGED ptzVars
    /\ IF p = "hooks" THEN TRUE ELSE UNCHANGED hooksVars
    /\ IF p = "sound" THEN TRUE ELSE UNCHANGED soundVars
    /\ IF p = "pos" THEN TRUE ELSE UNCHANGED posVars
    /\ IF p = "search" THEN TRUE ELSE UNCHANGED searchVars

Next ==
    \/ Only("data") /\ Data!Next
    \/ Only("lookups") /\ Lookups!Next
    \/ Only("rtsp") /\ Rtsp!Next
    \/ Only("talk") /\ Talk!Next
    \/ Only("saving") /\ Saving!Next
    \/ Only("thumbs") /\ Thumbs!Next
    \/ Only("maps") /\ MapPage!Next
    \/ Only("ptz") /\ Ptz!Next
    \/ Only("hooks") /\ Hooks!Next
    \/ Only("sound") /\ Sound!Next
    \/ Only("pos") /\ Pos!Next
    \/ Only("search") /\ Search!Next

Spec == Init /\ [][Next]_vars

(* Each part's own fairness, at most three actions: requests are answered  *)
(* or time out, callbacks and timers run.                                  *)
First ==
    \/ Only("data") /\ Data!Serve
    \/ Only("lookups") /\ Lookups!ServeScan
    \/ Only("rtsp") /\ Rtsp!Check
    \/ Only("talk") /\ Talk!Steps
    \/ Only("hooks") /\ Hooks!Callback
    \/ Only("sound") /\ Sound!Steps
Second ==
    \/ Only("data") /\ Data!Answer
    \/ Only("lookups") /\ Lookups!ScanAnswered
    \/ Only("hooks") /\ Hooks!WorkerSteps
    \/ Only("sound") /\ Sound!PlayerReads
Third == Only("data") /\ Data!DebounceFires

FairSpec == Spec /\ WF_vars(First) /\ WF_vars(Second) /\ WF_vars(Third)

(* No image of one NAS is kept for a recording of another, although the    *)
(* fetches of the session before still end (clear_snapshot_cache,          *)
(* _fetch_recording_thumbnail).                                            *)
ImagesOfThisNas == Thumbs!ImagesOfThisNas

(* Of one camera's PTZ commands the last clicked is the last to reach the  *)
(* NAS (_ptz_in_order).                                                    *)
LastClickLast == Ptz!LastClickLast

(* What is on the screen answers what is on the screen: the timeline draws *)
(* the cameras and the stretch in view, the thumbnail under the pointer    *)
(* goes with it, the calendar offers days of its own month, the map is the *)
(* selected one, a receipt lies over its own camera's live video           *)
(* (_settle_timeline_fetch, _on_timeline_hover_leave,                      *)
(* _on_calendar_availability_fetched, _load_map, show_transaction).        *)
AnswersFitScreen ==
    /\ Data!RestShowsView
    /\ Lookups!NoGhostThumbnail /\ Lookups!JumpsWhereRecorded
    /\ MapPage!MapIsSelected
    /\ Pos!ReceiptOfCamera /\ Pos!NotOverRecording

(* A cache claims no more than was answered for: events up to when DSM     *)
(* listed them, event types up to the cutoff of a scan, thumbnails those   *)
(* of this NAS; and the count that wait_idle goes by is what is still to   *)
(* be sent (_on_timeline_data_fetched, _on_camera_event_types_scanned,     *)
(* _fetch_recording_thumbnail, WebhookDispatcher.put).                     *)
ClaimsAreBacked ==
    /\ Data!EventsCovered
    /\ Lookups!NoTypeSkipped
    /\ ImagesOfThisNas
    /\ Hooks!IdleMeansSent

(* Next/Previous event, playing forward, skips no event between the        *)
(* position and where it went, but for one its own camera's cache does not *)
(* hold when all caches hold the position (_seek_to_nearest_event).        *)
NoEventSkipped == Search!NoEventSkipped

(* Nothing half done stays behind: no torn file under the name the user    *)
(* picked; no .part of a failed download, but for one whose close raised   *)
(* or that the system would not remove (Downloads!FailuresCleanUp has no   *)
(* such exception for the close, and does not hold); no open microphone    *)
(* without a lit button (stream_to_file, write_download, PttSession.run,   *)
(* _on_ptt_ended).                                                         *)
NothingHalfDone ==
    /\ Saving!SavedIsWhole /\ Saving!LeftoversExplained
    /\ Talk!MicIsShown

(* A stall is counted only against a camera silent for an interval the     *)
(* layout played, and the speaker hears recent speech in its order         *)
(* (RtspHealthMonitor._check, PttSession.enqueue).                         *)
LateIsNotUsed == [][Rtsp!CountsRealStall /\ Talk!SendsRecent]_vars

(* What was asked for comes to an end: the stretch wanted behind a fetch,  *)
(* an open filter's scan, a microphone told to stop, an event put in the   *)
(* queue, the start of a stream, a camera gone silent.                     *)
PartsMoveOn ==
    []<>(/\ Data!NothingWanted
         /\ Lookups!NotScanning
         /\ Rtsp!MovesOrGivenUp
         /\ Talk!ToldIsSilent
         /\ Hooks!AllOut
         /\ about = "sound" => Sound!Through)
=============================================================================
