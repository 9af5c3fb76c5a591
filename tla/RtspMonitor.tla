---------------------------- MODULE RtspMonitor ----------------------------
(***************************************************************************)
(* One slot playing a plain RTSP URL, watched by an RtspHealthMonitor: its *)
(* timer looks every few seconds whether the player has moved on.  mpv     *)
(* never tells when a camera goes silent.  A pause of the layout stops the *)
(* player, and the monitor must not take that for a camera that stalled.   *)
(***************************************************************************)
EXTENDS Naturals

CONSTANTS MaxStartup,   \* checks without a picture before giving up
          MaxRestarts,  \* stalls before giving up
          MaxPauses,    \* bound: pauses of the layout
          MaxPlays      \* bound: times the camera comes and goes

LimitAssumption == MaxStartup \in Nat \ {0} /\ MaxRestarts \in Nat \ {0}

VARIABLES timer,        \* "none", "running" or why the monitor gave up
          layout,       \* the Live View page: is the layout paused
          paused, advancing, startup, restarts, last,
          frames,       \* what time_pos tells since the last look at it:
                        \* "none" (no position yet), "same" or "more"
          sends,        \* the camera sends
          pauses, plays,
          disturbed     \* history: a frame, or a pause, since the last check

monitor == <<timer, paused, advancing, startup, restarts, last>>
bounds == <<pauses, plays>>
vars == <<monitor, layout, frames, sends, bounds, disturbed>>

Init ==
    /\ timer = "none" /\ layout = FALSE
    /\ paused = FALSE /\ advancing = FALSE /\ last = FALSE
    /\ startup = 0 /\ restarts = 0
    /\ frames = "none" /\ sends = TRUE
    /\ pauses = 0 /\ plays = 0 /\ disturbed = TRUE

(* A URL was answered: a new player run and a new monitor, which joins the *)
(* pause the layout may be in.                                             *)
Start ==
    /\ timer # "running" /\ plays < MaxPlays
    /\ timer' = "running" /\ paused' = layout
    /\ advancing' = FALSE /\ startup' = 0 /\ restarts' = 0 /\ last' = FALSE
    /\ frames' = "none" /\ disturbed' = TRUE /\ plays' = plays + 1
    /\ UNCHANGED <<layout, sends, pauses>>

(* stop_stream.                                                            *)
Stop ==
    /\ timer = "running" /\ timer' = "none"
    /\ UNCHANGED <<layout, paused, advancing, startup, restarts, last, frames,
                   sends, bounds, disturbed>>

Frame ==
    /\ timer = "running" /\ sends /\ ~layout /\ frames # "more"
    /\ frames' = "more" /\ disturbed' = TRUE
    /\ UNCHANGED <<monitor, layout, sends, bounds>>

SourceChanges ==
    /\ plays < MaxPlays /\ plays' = plays + 1 /\ sends' = ~sends
    /\ UNCHANGED <<monitor, layout, frames, pauses, disturbed>>

(* A mutant: resuming keeps what the last check saw.                       *)
ResumeKeeps == UNCHANGED <<advancing, startup, last>>

(* set_paused(False): a new run at the stream, with its own start-up.      *)
Resumed == advancing' = FALSE /\ startup' = 0 /\ last' = FALSE

PauseToggled ==
    /\ pauses < MaxPauses /\ pauses' = pauses + 1
    /\ layout' = ~layout /\ disturbed' = TRUE
    /\ IF timer = "running"
       THEN /\ paused' = layout'
            /\ IF layout' THEN UNCHANGED <<advancing, startup, last>> ELSE Resumed
       ELSE UNCHANGED <<paused, advancing, startup, last>>
    /\ UNCHANGED <<timer, restarts, frames, sends, plays>>

Advanced ==
    /\ advancing' = TRUE /\ startup' = 0
    /\ UNCHANGED <<timer, restarts>>

(* A mutant: start-up is counted from the last stall anew, without end.    *)
NeverStarted == UNCHANGED <<timer, advancing, startup, restarts>>

NotStarted ==
    /\ startup' = startup + 1
    /\ timer' = IF startup' >= MaxStartup THEN "no_video" ELSE timer
    /\ UNCHANGED <<advancing, restarts>>

(* stop() and play() again, until it has stalled too often.                *)
Stalled ==
    /\ restarts' = restarts + 1
    /\ \/ /\ restarts' >= MaxRestarts /\ timer' = "stalled"
          /\ UNCHANGED <<advancing, startup>>
       \/ /\ restarts' < MaxRestarts /\ advancing' = FALSE /\ startup' = 0
          /\ UNCHANGED timer

(* The timer.  "last" is whether there is a position to compare with.      *)
Check ==
    /\ timer = "running" /\ ~paused
    /\ LET moved == last /\ frames = "more"
           again == ~moved /\ advancing /\ restarts + 1 < MaxRestarts
       IN /\ CASE moved -> Advanced
               [] ~moved /\ ~advancing -> NotStarted
               [] OTHER -> Stalled
          /\ last' = (frames # "none" /\ ~again)
          /\ frames' = CASE again -> "none"
                         [] frames = "none" -> "none"
                         [] OTHER -> "same"
          /\ disturbed' = again
    /\ UNCHANGED <<layout, paused, sends, bounds>>

Next ==
    \/ Start
    \/ Stop
    \/ Frame
    \/ SourceChanges
    \/ PauseToggled
    \/ Check

Spec == Init /\ [][Next]_vars

(* The timer runs on.                                                      *)
FairSpec == Spec /\ WF_vars(Check)

TypeOK ==
    /\ timer \in {"none", "running", "no_video", "stalled"}
    /\ {layout, paused, advancing, last, sends, disturbed} \subseteq BOOLEAN
    /\ startup \in 0 .. MaxStartup /\ restarts \in 0 .. MaxRestarts
    /\ frames \in {"none", "same", "more"}
    /\ pauses \in 0 .. MaxPauses /\ plays \in 0 .. MaxPlays

(* A stall is counted only against a camera that was silent for the whole  *)
(* of an interval in which the layout played (RtspHealthMonitor._check and *)
(* set_paused, with the page's pause and resume).                          *)
CountsRealStall == restarts' > restarts => ~disturbed
StallIsReal == [][CountsRealStall]_vars

(* The monitor is paused exactly while the layout is.                      *)
PausedTogether == timer = "running" => paused = layout

(* A camera that has gone silent for good under a layout that plays is     *)
(* given up, unless the slot moves on (_check).                            *)
MovesOrGivenUp == sends \/ layout \/ frames = "more" \/ timer # "running"
SilenceReported == []<>MovesOrGivenUp
=============================================================================
