---------------------------- MODULE AacDetection ----------------------------
(***************************************************************************)
(* The start of a stream with AAC sound: video and audio are held back     *)
(* until the bridge knows how to read the sound, then a player is told to  *)
(* open the pipe and what was held back is written ahead of what comes.    *)
(* All of it runs in the read loop; only the player is another process.    *)
(***************************************************************************)
EXTENDS Naturals

CONSTANTS VideoCap,    \* _AAC_DETECTION_VIDEO_FRAME_CAP
          Intervals,   \* _AAC_DETECTION_INTERVALS
          PipeCap,     \* NALs the pipe to the player holds
          MaxFrames,   \* bound: video NALs, and audio frames, of the camera
          MaxDrops     \* bound: connections lost meanwhile

CapAssumption == {VideoCap, Intervals, PipeCap} \subseteq Nat \ {0}

VARIABLES phase,      \* "detecting", "probing", "flushing", "playing", "ended"
          muxed,      \* with sound, through ffmpeg
          connected, drops,
          expired,    \* _AAC_DETECTION_TIMEOUT has passed
          video, audio,    \* frames of each received so far
          held,       \* NALs in video_buffer not yet written
          sounds,     \* frames in audio_buffer
          measured,   \* intervals measured
          previous,   \* _last_audio_at is set
          ready,      \* _ready_event: the player opens the pipe
          pipe,       \* NALs in it
          unwritten   \* NALs received that are not on their way, in order

link == <<connected, drops>>
input == <<video, audio, sounds, measured, previous>>
output == <<ready, pipe>>
vars == <<phase, muxed, link, expired, input, held, output, unwritten>>

(* The first codec-info frame: pipes wait, detection starts.               *)
Init ==
    /\ phase = "detecting" /\ muxed = FALSE
    /\ connected = TRUE /\ drops = 0 /\ expired = FALSE
    /\ video = 0 /\ audio = 0 /\ sounds = 0 /\ measured = 0
    /\ previous = FALSE /\ held = 0
    /\ ready = FALSE /\ pipe = 0 /\ unwritten = 0

(* A message the read loop is there to take.                               *)
Reading == connected /\ phase \in {"detecting", "playing"}

FeedVideo ==
    /\ phase = "detecting" /\ Reading /\ video < MaxFrames
    /\ video' = video + 1 /\ held' = held + 1 /\ unwritten' = unwritten + 1
    /\ phase' = IF expired \/ held' >= VideoCap THEN "probing" ELSE phase
    /\ UNCHANGED <<muxed, link, expired, audio, sounds, measured, previous, output>>

(* An interval over a lost connection is too long to be one of the camera. *)
FeedAudio ==
    /\ phase = "detecting" /\ Reading /\ audio < MaxFrames
    /\ audio' = audio + 1 /\ sounds' = sounds + 1 /\ previous' = TRUE
    /\ measured' = IF previous THEN measured + 1 ELSE measured
    /\ phase' = IF expired \/ measured' >= Intervals THEN "probing" ELSE phase
    /\ UNCHANGED <<muxed, link, expired, video, held, output, unwritten>>

(* A mutant: the deadline is only looked at when a message comes.          *)
OnMessageOnly == FALSE

(* recv() waits no longer than to the deadline.                            *)
DeadlineSeen == connected /\ expired

Expire ==
    /\ phase = "detecting" /\ DeadlineSeen /\ phase' = "probing"
    /\ UNCHANGED <<muxed, link, expired, input, held, output, unwritten>>

Deadline ==
    /\ ~expired /\ expired' = TRUE
    /\ UNCHANGED <<phase, muxed, link, input, held, output, unwritten>>

(* A mutant: the player is told once everything held back is written.      *)
ToldLast == UNCHANGED ready

(* The event before the flush: nobody empties the pipe otherwise.          *)
ToldFirst == ready' = TRUE

(* finish() and what follows: ffmpeg takes both streams, or the sound is   *)
(* given up (none came, its framing is not known, no ffmpeg).              *)
Decided ==
    /\ phase = "probing" /\ phase' = "flushing" /\ ToldFirst
    /\ muxed' \in {FALSE, sounds > 0}
    /\ sounds' = IF muxed' THEN sounds ELSE 0
    /\ measured' = 0 /\ previous' = FALSE
    /\ UNCHANGED <<link, expired, video, audio, held, pipe, unwritten>>

(* One NAL is written; a full pipe waits for the player.                   *)
FlushVideo ==
    /\ phase = "flushing" /\ held > 0 /\ pipe < PipeCap
    /\ held' = held - 1 /\ unwritten' = unwritten - 1 /\ pipe' = pipe + 1
    /\ UNCHANGED <<phase, muxed, link, expired, input, ready>>

FlushAudio ==
    /\ phase = "flushing" /\ muxed /\ sounds > 0 /\ sounds' = sounds - 1
    /\ UNCHANGED <<phase, muxed, link, expired, video, audio, measured, previous,
                   held, output, unwritten>>

Flushed ==
    /\ phase = "flushing" /\ held = 0 /\ sounds = 0
    /\ phase' = "playing" /\ ready' = TRUE
    /\ UNCHANGED <<muxed, link, expired, input, held, pipe, unwritten>>

(* From here on a NAL is written as it comes.                              *)
PassVideo ==
    /\ phase = "playing" /\ Reading /\ video < MaxFrames /\ pipe < PipeCap
    /\ video' = video + 1 /\ pipe' = pipe + 1
    /\ UNCHANGED <<phase, muxed, link, expired, audio, sounds, measured, previous,
                   held, ready, unwritten>>

PlayerReads ==
    /\ ready /\ pipe > 0 /\ pipe' = pipe - 1
    /\ UNCHANGED <<phase, muxed, link, expired, input, held, ready, unwritten>>

(* The connection is lost while the loop reads; detection goes on with the *)
(* next one, where it was.                                                 *)
Drop ==
    /\ Reading /\ drops < MaxDrops
    /\ drops' = drops + 1 /\ connected' = FALSE
    /\ UNCHANGED <<phase, muxed, expired, input, held, output, unwritten>>

Reconnect ==
    /\ ~connected /\ connected' = TRUE /\ phase # "ended"
    /\ UNCHANGED <<phase, muxed, drops, expired, input, held, output, unwritten>>

(* stop(): nothing held back is worth writing.                             *)
Stop ==
    /\ phase # "ended" /\ phase' = "ended"
    /\ held' = 0 /\ sounds' = 0 /\ unwritten' = 0
    /\ UNCHANGED <<muxed, link, expired, video, audio, measured, previous, output>>

Next ==
    \/ FeedVideo \/ FeedAudio \/ Expire \/ Deadline
    \/ Decided \/ FlushVideo \/ FlushAudio \/ Flushed
    \/ PassVideo \/ PlayerReads
    \/ Drop \/ Reconnect \/ Stop

Spec == Init /\ [][Next]_vars

Steps == Expire \/ Deadline \/ Decided \/ FlushVideo \/ FlushAudio \/ Flushed
            \/ Reconnect
FairSpec == Spec /\ WF_vars(Steps) /\ WF_vars(PlayerReads)

TypeOK ==
    /\ phase \in {"detecting", "probing", "flushing", "playing", "ended"}
    /\ {muxed, connected, expired, previous, ready} \subseteq BOOLEAN
    /\ {video, audio, sounds, held, unwritten} \subseteq 0 .. MaxFrames
    /\ measured \in 0 .. Intervals /\ pipe \in 0 .. PipeCap
    /\ drops \in 0 .. MaxDrops

(* The stream starts to play, whether the camera sends sound, video, both  *)
(* or nothing at all, however often the connection is lost meanwhile and   *)
(* however much was held back (_read_messages, _fall_back_to_video_only).  *)
Through == phase \in {"playing", "ended"}
StreamStarts == <>Through
=============================================================================
