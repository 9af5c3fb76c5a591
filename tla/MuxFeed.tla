------------------------------ MODULE MuxFeed ------------------------------
(***************************************************************************)
(* How media reaches ffmpeg on the muxed path of a WebSocketBridge         *)
(* (services/ws_bridge.py): the read loop, the bounded video queue with    *)
(* its writer task, the silence fill and the watchdog that ends an audio   *)
(* stream the camera has stopped sending.                                  *)
(*                                                                         *)
(* ffmpeg (external) reads video only while it is at most Slack frames     *)
(* past the last audio it has had.  A camera that goes quiet therefore     *)
(* wedges its own video: pipe, then writer, then queue, then read loop.    *)
(* Time is counted in ticks of about a second; a tick passes only when     *)
(* nothing that takes no time is left to do.                               *)
(***************************************************************************)
EXTENDS Naturals, Sequences

CONSTANTS
  GapTimeout,    \* _AUDIO_GAP_TIMEOUT
  WriteTimeout,  \* _WRITE_TIMEOUT
  QueueLimit,    \* _VIDEO_QUEUE_LIMIT, in NALs
  PipeCap,       \* _MUXED_VIDEO_PIPE_CAPACITY, in NALs
  Slack,         \* how far ffmpeg reads video ahead of audio, in NALs
  Burst,         \* most NALs a tick brings
  Backlog        \* most messages unread on the socket

ASSUME FeedAssumption ==
  /\ GapTimeout \in Nat \ {0} /\ WriteTimeout \in Nat /\ GapTimeout < WriteTimeout
  /\ PipeCap \in Nat \ {0} /\ Slack \in Nat \ {0} /\ Burst \in Nat \ {0}
  /\ QueueLimit \in Nat \ {0} /\ Backlog \in Nat /\ Backlog > Burst

VARIABLES
  history,    \* is_history, with a silent frame to fill gaps with
  connected,  \* the pump has a connection
  paused,     \* _paused
  inbox,      \* messages the socket holds, oldest first
  pend,       \* _video_pending
  writing,    \* _video_write_in_flight
  pipe,       \* NALs in ffmpeg's video pipe
  lead,       \* NALs ffmpeg has read since the last audio it had
  audio,      \* whether the audio write end is open
  age,        \* ticks since the stamps audio, real, video and since the write began
  due,        \* the periodic checks this tick still owes
  failed,     \* _PipeWriteStalled has ended the bridge
  wedged,     \* ffmpeg or the player behind it no longer drains
  mute,       \* (history variable) ticks since audio arrived, or could not have
  restamped   \* (history variable) the gap was restarted, without audio for ffmpeg,
              \* while a write was blocked

vars == <<history, connected, paused, inbox, pend, writing, pipe, lead, audio, age, due, failed,
          wedged, mute, restamped>>

stream == <<history, connected, paused>>
feed   == <<pend, writing, pipe, lead, audio>>
end    == <<failed, wedged>>

Checks == {"gap", "fill"}
(* What each age is compared with: older makes no difference.              *)
Limit == [audio |-> GapTimeout, real |-> 1, video |-> GapTimeout, write |-> WriteTimeout]
Stamps == DOMAIN Limit

TypeOK ==
  /\ history \in BOOLEAN /\ connected \in BOOLEAN /\ paused \in BOOLEAN
  /\ inbox \in Seq({"V", "A"}) /\ Len(inbox) <= Backlog
  /\ pend \in 0 .. QueueLimit /\ writing \in BOOLEAN /\ pipe \in 0 .. PipeCap
  /\ lead \in 0 .. Slack /\ audio \in BOOLEAN
  /\ DOMAIN age = Stamps /\ (\A s \in Stamps : age[s] \in 0 .. Limit[s]) /\ due \subseteq Checks
  /\ failed \in BOOLEAN /\ wedged \in BOOLEAN
  /\ mute \in 0 .. GapTimeout /\ restamped \in BOOLEAN

(* _start_muxed stamps audio and video as it opens the pipes.              *)
Init ==
  /\ history \in BOOLEAN
  /\ connected = TRUE /\ paused = FALSE /\ inbox = <<>> /\ pend = 0 /\ writing = FALSE
  /\ pipe = 0 /\ lead = 0 /\ audio = TRUE /\ age = [s \in Stamps |-> 0] /\ due = {}
  /\ failed = FALSE /\ wedged = FALSE /\ mute = 0 /\ restamped = FALSE

----------------------------------------------------------------------------
(* The read loop.  A Live bridge on pause drops what it reads, stamping it *)
(* all the same.                                                           *)

Discarding == paused /\ ~history

(* A NAL is queued while the queue is below its limit; the one being       *)
(* written does not count.                                                 *)
RoomForOneMore == pend <= QueueLimit
HasRoom == pend < QueueLimit

CanReadVideo == inbox # <<>> /\ Head(inbox) = "V" /\ (Discarding \/ HasRoom)
ReadVideo ==
  /\ ~failed /\ CanReadVideo
  /\ inbox' = Tail(inbox)
  /\ IF Discarding THEN age' = [age EXCEPT !["video"] = 0] /\ UNCHANGED pend
                   ELSE pend' = pend + 1 /\ UNCHANGED age
  /\ UNCHANGED <<stream, writing, pipe, lead, audio, due, end, mute, restamped>>

(* Audio is written by the read loop itself; ffmpeg takes it at once.      *)
ReadAudio ==
  /\ ~failed /\ inbox # <<>> /\ Head(inbox) = "A"
  /\ inbox' = Tail(inbox)
  /\ age' = IF Discarding THEN [age EXCEPT !["audio"] = 0]
            ELSE IF audio THEN [age EXCEPT !["audio"] = 0, !["real"] = 0] ELSE age
  /\ lead' = IF audio /\ ~Discarding THEN 0 ELSE lead
  /\ restamped' = (restamped \/ (Discarding /\ writing))
  /\ UNCHANGED <<stream, pend, writing, pipe, audio, due, end, mute>>

(* _run_video_writer takes the oldest NAL: _write_pipe stamps it and, on a *)
(* paused Live bridge, drops it.                                           *)
WriterTakes ==
  /\ ~failed /\ ~writing /\ pend > 0
  /\ pend' = pend - 1 /\ writing' = ~Discarding
  /\ age' = [age EXCEPT !["video"] = 0, !["write"] = 0]
  /\ UNCHANGED <<stream, inbox, pipe, lead, audio, due, end, mute, restamped>>

WriterWrites ==
  /\ ~failed /\ writing /\ pipe < PipeCap
  /\ writing' = FALSE /\ pipe' = pipe + 1 /\ age' = [age EXCEPT !["write"] = 0]
  /\ UNCHANGED <<stream, inbox, pend, lead, audio, due, end, mute, restamped>>

(* No progress for _WRITE_TIMEOUT: _PipeWriteStalled reaches the read loop *)
(* through the queue and ends the bridge.                                  *)
NeverDue == FALSE
WriteDue == writing /\ pipe = PipeCap /\ age["write"] >= WriteTimeout
WriteStalls ==
  /\ ~failed /\ WriteDue /\ failed' = TRUE
  /\ UNCHANGED <<stream, inbox, feed, age, due, wedged, mute, restamped>>

(* ffmpeg.                                                                 *)
CanMux == ~wedged /\ pipe > 0 /\ (~audio \/ lead < Slack)
Mux ==
  /\ ~failed /\ CanMux
  /\ pipe' = pipe - 1 /\ lead' = IF audio THEN lead + 1 ELSE 0
  /\ UNCHANGED <<stream, inbox, pend, writing, audio, age, due, end, mute, restamped>>

----------------------------------------------------------------------------
(* The watchdog and the fill.                                              *)

StampOnly == age["video"] < GapTimeout /\ age["audio"] > age["video"]

(* Video has outlasted the audio, or is stuck in a write.                  *)
VideoArriving ==
  \/ writing
  \/ StampOnly

(* The checks look at the stamps of what has been read by then.            *)
CanRead == CanReadVideo \/ (inbox # <<>> /\ Head(inbox) = "A")

WatchAudioGap ==
  /\ ~failed /\ ~CanRead /\ "gap" \in due /\ due' = due \ {"gap"}
  /\ IF audio /\ age["audio"] >= GapTimeout /\ VideoArriving
     THEN audio' = FALSE /\ lead' = 0
     ELSE UNCHANGED <<audio, lead>>
  /\ UNCHANGED <<stream, inbox, pend, writing, pipe, age, end, mute, restamped>>

(* History: silence, while video arrives and the real audio does not.      *)
FillSilence ==
  /\ ~failed /\ ~CanRead /\ "fill" \in due /\ due' = due \ {"fill"}
  /\ IF /\ history /\ ~paused /\ audio /\ age["real"] > 0
        /\ writing \/ age["video"] < GapTimeout
     THEN age' = [age EXCEPT !["audio"] = 0] /\ lead' = 0
     ELSE UNCHANGED <<age, lead>>
  /\ UNCHANGED <<stream, inbox, pend, writing, pipe, audio, end, mute, restamped>>

----------------------------------------------------------------------------
(* Pausing, and connections lost and made again.                           *)

Pause ==
  /\ ~failed /\ ~paused /\ paused' = TRUE
  /\ UNCHANGED <<history, connected, inbox, feed, age, due, end, mute, restamped>>

StaleStamp == age
FreshStamp == [age EXCEPT !["audio"] = 0]
Restamp(fresh) ==
  /\ age' = fresh /\ mute' = 0 /\ restamped' = (restamped \/ writing)

(* resume(): a Live bridge closes its connection to come back to the edge. *)
Resume ==
  /\ ~failed /\ paused /\ paused' = FALSE
  /\ connected' = (connected /\ history)
  /\ Restamp(FreshStamp)
  /\ UNCHANGED <<history, inbox, feed, due, end>>

Drop ==
  /\ ~failed /\ connected /\ connected' = FALSE
  /\ UNCHANGED <<history, paused, inbox, feed, age, due, end, mute, restamped>>

(* The pump connects again once it has read what the old connection held.  *)
AfterOutage == FreshStamp
Connect ==
  /\ ~failed /\ ~connected /\ inbox = <<>> /\ connected' = TRUE
  /\ Restamp(AfterOutage)
  /\ UNCHANGED <<history, paused, inbox, feed, due, end>>

Wedge ==
  /\ ~failed /\ ~wedged /\ wedged' = TRUE
  /\ UNCHANGED <<stream, inbox, feed, age, due, failed, mute, restamped>>

----------------------------------------------------------------------------
(* Nothing that takes no time is left to do.                               *)
Quiet ==
  /\ ~CanRead /\ ~(~writing /\ pend > 0) /\ ~(writing /\ pipe < PipeCap)
  /\ ~WriteDue /\ ~CanMux /\ due = {}

Older(n, limit) == IF n < limit THEN n + 1 ELSE n
NalsThenAudio(n, a) == [i \in 1 .. n |-> "V"] \o IF a THEN <<"A">> ELSE <<>>

(* A tick brings what the camera sends. DSM sends nothing on a paused      *)
(* History connection, and nothing while its socket is full.               *)
Tick ==
  /\ ~failed /\ Quiet
  /\ \E n \in 0 .. Burst, a \in BOOLEAN :
       /\ n > 0 \/ a => connected /\ ~(history /\ paused)
       /\ Len(inbox) + n + 1 <= Backlog \/ (n = 0 /\ ~a)
       /\ inbox' = inbox \o NalsThenAudio(n, a)
       /\ mute' = IF a THEN 0 ELSE Older(mute, GapTimeout)
  /\ age' = [s \in Stamps |-> IF s = "write" /\ ~writing THEN 0 ELSE Older(age[s], Limit[s])]
  /\ due' = Checks
  /\ UNCHANGED <<stream, feed, end, restamped>>

Next ==
  \/ ReadVideo \/ ReadAudio \/ WriterTakes \/ WriterWrites \/ WriteStalls \/ Mux
  \/ WatchAudioGap \/ FillSilence \/ Pause \/ Resume \/ Drop \/ Connect \/ Wedge \/ Tick

Spec == Init /\ [][Next]_vars

(* Everything but the user, the camera, the NAS and a wedge must happen.   *)
Prompt ==
  \/ ReadVideo \/ ReadAudio \/ WriterTakes \/ WriterWrites \/ WriteStalls \/ Mux
  \/ WatchAudioGap \/ FillSilence \/ Tick

FairSpec == Spec /\ WF_vars(Prompt)

----------------------------------------------------------------------------
(* While the queue has room, the audio of a session is ended only when the *)
(* camera has sent none for _AUDIO_GAP_TIMEOUT: not for audio held up      *)
(* behind our own video, and not across a pause or an outage.              *)
EndsOnlySilentAudio ==
  [][audio /\ ~audio' => mute >= GapTimeout \/ pend = QueueLimit]_vars

(* A sound muxer is never given up as stalled, silent camera or not: the   *)
(* watchdog releases it before the write times out, unless a reconnect, a  *)
(* resume or audio dropped on pause has started the gap over meanwhile.    *)
StallMeansWedged == failed => wedged \/ restamped

(* What _write_pipe says of its pause guard: a deliberate, healthy pause   *)
(* is not misread as a stalled pipe.                                       *)
HealthyPauseGoesOn == failed /\ paused => wedged

(* A camera that has gone quiet does not hold its video up for good: what  *)
(* was blocked is written, or the bridge ends.                             *)
BlockedVideoMoves == writing ~> ~writing \/ failed

----------------------------------------------------------------------------
(* The invariant behind the first two.  ffmpeg reads no video and its pipe *)
(* is full: a write under way stays blocked.                               *)
Stuck == pipe = PipeCap /\ audio /\ lead = Slack

(* While the audio stamp is older than the camera's silence, audio lies    *)
(* unread behind the video.                                                *)
HeldUpOrSilent ==
  audio => age["audio"] <= mute \/ \E i \in 1 .. Len(inbox) : inbox[i] = "A"

(* A write that has been blocked for a tick and more with the audio silent *)
(* for the timeout is seen by the next check, and one blocked from before  *)
(* the audio went silent is none: it waits for that audio.                 *)
SeenInTime ==
  /\ writing /\ audio /\ age["write"] > 0 /\ age["audio"] >= GapTimeout => "gap" \in due
  /\ writing /\ Stuck /\ ~restamped => age["write"] <= age["audio"]

(* So nothing but a wedged muxer keeps a write blocked past the timeout.   *)
WritesInTime ==
  ~wedged /\ ~restamped => age["write"] <= GapTimeout /\ ~failed

IInv == TypeOK /\ HeldUpOrSilent /\ SeenInTime /\ WritesInTime

============================================================================
