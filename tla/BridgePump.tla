----------------------------- MODULE BridgePump -----------------------------
(***************************************************************************)
(* The life of one WebSocketBridge (services/ws_bridge.py): the pump task  *)
(* that connects, reads, reconnects on the same pipe and at last gives up, *)
(* the ffmpeg watch that ends it, the callers that pause, resume, seek and *)
(* stop it, and what wait_closed() then reports.                           *)
(*                                                                         *)
(* Everything here runs on the one asyncio loop except request_pause() and *)
(* close_write_end(), which the GTK thread calls.  A coroutine can only be *)
(* cancelled at an await, so the pump's location is the await it is at.    *)
(***************************************************************************)
EXTENDS Naturals

CONSTANTS
  MaxFails     \* _MAX_CONSECUTIVE_FAST_FAILURES

MaxFailsAssumption == MaxFails \in Nat \ {0}

VARIABLES
  history,    \* is_history: fixed for a bridge's life
  pump,       \* the await the pump task is at
  exc,        \* what the pump is unwinding with
  conn,       \* _current_ws: "none", "open", "dropped" (closed by us) or "lost" (by the NAS)
  purpose,    \* _closing_on_purpose
  gotData,    \* _attempt_got_data
  fails,      \* _fast_failures
  error,      \* _error, "none" for the empty one
  stopping,   \* "no", "asked" (_stopping is set), "cancelled" (stop() has cancelled the pump)
  cancelling, \* the pump task's cancelling() is not zero
  pending,    \* a CancelledError waits at the pump's await
  mux,        \* _ffmpeg_proc: "none", "running", "dead" (exited, unnoticed), "watched"
  paused,     \* _paused
  recv,       \* what _read_messages noted when this recv() began
  overlap,    \* (history variable) a pause has overlapped this recv()
  server      \* the NAS feeds the connections it accepts

vars == <<history, pump, exc, conn, purpose, gotData, fails, error, stopping, cancelling,
          pending, mux, paused, recv, overlap, server>>

Locations == {"unstarted", "connecting", "resolving", "reading", "keepalive", "leaving",
              "sleeping", "done"}
Causes    == {"none", "clean", "stall", "pipe", "other", "cancelled"}
Errors    == {"none", "stalled", "pipe", "connection", "repeated", "ffmpeg"}

ValuesOK ==
  /\ pump \in Locations /\ exc \in Causes /\ conn \in {"none", "open", "dropped", "lost"}
  /\ fails \in 0 .. MaxFails /\ error \in Errors
  /\ stopping \in {"no", "asked", "cancelled"} /\ mux \in {"none", "running", "dead", "watched"}

FlagsOK ==
  /\ history \in BOOLEAN /\ purpose \in BOOLEAN /\ gotData \in BOOLEAN
  /\ cancelling \in BOOLEAN /\ pending \in BOOLEAN /\ paused \in BOOLEAN
  /\ overlap \in BOOLEAN /\ server \in BOOLEAN
  /\ recv \in [atStart : BOOLEAN, since : BOOLEAN]

TypeOK == ValuesOK /\ FlagsOK

Init ==
  /\ history \in BOOLEAN /\ paused \in BOOLEAN
  /\ pump = "unstarted" /\ exc = "none" /\ conn = "none" /\ purpose = FALSE
  /\ gotData = FALSE /\ fails = 0 /\ error = "none" /\ stopping = "no"
  /\ cancelling = FALSE /\ pending = FALSE /\ mux = "none"
  /\ recv = [atStart |-> FALSE, since |-> FALSE] /\ overlap = FALSE /\ server = TRUE

Stopping == stopping # "no"

callers == <<stopping, paused>>
task    == <<cancelling, pending>>

(* A new recv() of _read_messages notes the pause it starts under.         *)
NewRecv == /\ recv' = [atStart |-> paused /\ history, since |-> FALSE]
           /\ overlap' = paused
SameRecv == UNCHANGED <<recv, overlap>>

----------------------------------------------------------------------------
(* The pump.  A CancelledError waiting at its await comes before anything  *)
(* else that await could return.                                           *)

At(l) == pump = l /\ ~pending

(* start() creates the task; the first attempt begins unless stop() came   *)
(* first.                                                                  *)
Start ==
  /\ pump = "unstarted" /\ ~Stopping
  /\ pump' = "connecting" /\ gotData' = FALSE
  /\ SameRecv
  /\ UNCHANGED <<history, exc, conn, purpose, fails, error, callers, task, mux, server>>

Connected ==
  /\ At("connecting")
  /\ conn' = "open"
  /\ pump' = IF history THEN "resolving" ELSE "reading"
  /\ NewRecv
  /\ UNCHANGED <<history, exc, purpose, gotData, fails, error, callers, task, mux, server>>

(* History: the stale recording is looked up, then action=play is sent.    *)
Resolved ==
  /\ At("resolving") /\ conn = "open"
  /\ pump' = "reading"
  /\ NewRecv
  /\ UNCHANGED <<history, exc, conn, purpose, gotData, fails, error, callers, task, mux, server>>

(* A message: media, or the codec info that sets the pipes up, muxed by    *)
(* ffmpeg or raw.                                                          *)
Message ==
  /\ At("reading") /\ conn = "open" /\ server
  /\ gotData' = TRUE
  /\ mux' \in IF mux = "none" THEN {"none", "running"} ELSE {mux}
  /\ NewRecv
  /\ UNCHANGED <<history, pump, exc, conn, purpose, fails, error, callers, task, server>>

(* recv() waited out _IDLE_TIMEOUT across a pause of History: wait again.  *)
OnlyIfPausedAtAnEnd == recv.atStart \/ (paused /\ history)
Excused == recv.atStart \/ (recv.since /\ history) \/ (paused /\ history)
IdleExcused ==
  /\ At("reading") /\ conn = "open" /\ Excused
  /\ NewRecv
  /\ UNCHANGED <<history, pump, exc, conn, purpose, gotData, fails, error, callers, task, mux,
                 server>>

(* Leaving the read loop with cause c goes through the finally that        *)
(* cancels the keepalive task and awaits it.                               *)
EndReading(c) ==
  /\ pump' = "keepalive" /\ exc' = c
  /\ SameRecv
  /\ UNCHANGED <<history, conn, purpose, gotData, fails, callers, task, mux, server>>

IdleStalled ==
  /\ At("reading") /\ conn = "open" /\ ~Excused
  /\ error' = "stalled"
  /\ EndReading("stall")

(* The connection has closed, or a frame failed: a stalled pipe write and  *)
(* a codec change end the bridge, a write to a dead ffmpeg only this       *)
(* attempt.                                                                *)
ReadFails ==
  /\ At("reading")
  /\ \/ conn # "open" /\ \E c \in {"clean", "other"} : EndReading(c)
     \/ conn = "open" /\ gotData /\ \E c \in {"pipe", "other"} : EndReading(c)
  /\ UNCHANGED error

(* The await of the cancelled keepalive task is over.  The suppress there  *)
(* would take this task's own CancelledError with the keepalive's, so a    *)
(* cancel met meanwhile is raised again.                                   *)
CancelSwallowed == FALSE
CancelRaisedAgain == cancelling
KeepaliveGone ==
  /\ pump = "keepalive"
  /\ pump' = "leaving" /\ pending' = FALSE
  /\ exc' = IF CancelRaisedAgain THEN "cancelled" ELSE exc
  /\ SameRecv
  /\ UNCHANGED <<history, conn, purpose, gotData, fails, error, callers, cancelling, mux, server>>

(* The connect, the lookup or the play command fails.                      *)
AttemptFails ==
  /\ \/ At("connecting") /\ exc' = "other"
     \/ At("resolving") /\ exc' = "other"
     \/ At("resolving") /\ conn # "open" /\ exc' = "clean"
  /\ pump' = "leaving"
  /\ SameRecv
  /\ UNCHANGED <<history, conn, purpose, gotData, fails, error, callers, task, mux, server>>

(* CancelledError at any other await.                                      *)
CancelMet ==
  /\ pending /\ pump \in {"connecting", "resolving", "reading", "leaving", "sleeping"}
  /\ pending' = FALSE
  /\ \/ pump \in {"connecting", "resolving"} /\ pump' = "leaving" /\ exc' = "cancelled"
     \/ pump = "reading" /\ pump' = "keepalive" /\ exc' = "cancelled"
     \/ pump \in {"leaving", "sleeping"} /\ pump' = "done" /\ exc' = "cancelled"
  /\ SameRecv
  /\ UNCHANGED <<history, conn, purpose, gotData, fails, error, callers, cancelling, mux, server>>

(* _note_attempt_outcome, for an attempt that was not cut short by us: a   *)
(* connection that delivered for _FAST_FAILURE_THRESHOLD starts the count  *)
(* again.                                                                  *)
UptimeIsEnough == conn # "none"
Delivered == conn # "none" /\ gotData
LastError(err) == err
Reason(err) == IF err = "none" THEN "repeated" ELSE err
OneTooMany(n) == n > MaxFails
GivesUp(n) == n >= MaxFails
NoteOutcome(err) ==
  \/ Delivered /\ fails' = 0 /\ error' = err /\ pump' = "sleeping"
  \/ /\ fails' = fails + 1
     /\ IF GivesUp(fails')
        THEN pump' = "done" /\ error' = Reason(err)
        ELSE pump' = "sleeping" /\ error' = err

NeverOnPurpose == FALSE
OnPurpose == purpose

(* The async with has closed the connection: what the attempt came to.     *)
AttemptOver ==
  /\ At("leaving")
  /\ LET err == CASE exc = "pipe" -> "pipe" [] exc = "other" -> "connection" [] OTHER -> error
     IN IF exc = "cancelled"
        THEN pump' = "done" /\ UNCHANGED <<conn, purpose, fails, error>>
        ELSE /\ conn' = "none" /\ purpose' = FALSE
             /\ IF Stopping \/ exc = "pipe" \/ OnPurpose
                THEN /\ pump' = IF Stopping \/ exc = "pipe" THEN "done" ELSE "sleeping"
                     /\ error' = err /\ UNCHANGED fails
                ELSE NoteOutcome(err)
  /\ exc' = "none"
  /\ SameRecv
  /\ UNCHANGED <<history, gotData, callers, task, mux, server>>

(* The back-off is over: while not self._stopping.                         *)
NextAttempt ==
  /\ At("sleeping")
  /\ pump' = IF Stopping THEN "done" ELSE "connecting"
  /\ gotData' = FALSE
  /\ SameRecv
  /\ UNCHANGED <<history, exc, conn, purpose, fails, error, callers, task, mux, server>>

----------------------------------------------------------------------------
(* The world: the NAS closes a connection, goes away or feeds no more,     *)
(* though it may accept connections still; ffmpeg exits.                   *)

PeerCloses ==
  /\ conn = "open" /\ conn' = "lost"
  /\ SameRecv
  /\ UNCHANGED <<history, pump, exc, purpose, gotData, fails, error, callers, task, mux, server>>

ServerGone ==
  /\ server /\ server' = FALSE
  /\ SameRecv
  /\ UNCHANGED <<history, pump, exc, conn, purpose, gotData, fails, error, callers, task, mux>>

(* ffmpeg exits of itself, or of the pump's closing its inputs.            *)
MuxExits ==
  /\ mux = "running" /\ mux' = "dead"
  /\ SameRecv
  /\ UNCHANGED <<history, pump, exc, conn, purpose, gotData, fails, error, callers, task, server>>

(* _watch_ffmpeg: our own teardown, a pump that is done, or the reason.    *)
OnlyIfStopping == Stopping
NotTheCause == Stopping \/ pump = "done"
MuxWatched ==
  /\ mux = "dead" /\ mux' = "watched"
  /\ IF NotTheCause
     THEN UNCHANGED <<error, task>>
     ELSE error' = "ffmpeg" /\ cancelling' = TRUE /\ pending' = TRUE
  /\ SameRecv
  /\ UNCHANGED <<history, pump, exc, conn, purpose, gotData, fails, callers, server>>

----------------------------------------------------------------------------
(* The callers.                                                            *)

(* request_pause(), on the GTK thread.                                     *)
RequestPause ==
  /\ ~Stopping
  /\ paused' = TRUE /\ recv' = [recv EXCEPT !.since = TRUE] /\ overlap' = TRUE
  /\ UNCHANGED <<history, pump, exc, conn, purpose, gotData, fails, error, stopping, task, mux,
                 server>>

(* Close the connection so that the pump opens a fresh one.                *)
Unconditionally == TRUE
HasConnection == conn # "none"
CloseOnPurpose ==
  IF HasConnection
  THEN purpose' = TRUE /\ conn' = IF conn = "open" THEN "dropped" ELSE conn
  ELSE UNCHANGED <<conn, purpose>>

(* resume(): History stays on its connection, Live comes back to the edge. *)
Resume ==
  /\ ~Stopping /\ paused /\ paused' = FALSE
  /\ IF history THEN UNCHANGED <<conn, purpose>> ELSE CloseOnPurpose
  /\ SameRecv
  /\ UNCHANGED <<history, pump, exc, gotData, fails, error, stopping, task, mux, server>>

(* seek() into another recording; within one, only the pause changes.      *)
Seek ==
  /\ ~Stopping /\ history /\ paused' = FALSE
  /\ \/ CloseOnPurpose
     \/ UNCHANGED <<conn, purpose>>
  /\ SameRecv
  /\ UNCHANGED <<history, pump, exc, gotData, fails, error, stopping, task, mux, server>>

(* close_write_end() on the GTK thread; stop() cancels the pump later.     *)
CloseWriteEnd ==
  /\ ~Stopping /\ stopping' = "asked"
  /\ SameRecv
  /\ UNCHANGED <<history, pump, exc, conn, purpose, gotData, fails, error, paused, task, mux,
                 server>>

Stop ==
  /\ stopping = "asked" /\ stopping' = "cancelled" /\ pump \notin {"unstarted", "done"}
  /\ cancelling' = TRUE /\ pending' = TRUE
  /\ SameRecv
  /\ UNCHANGED <<history, pump, exc, conn, purpose, gotData, fails, error, paused, mux, server>>

----------------------------------------------------------------------------
PumpStep == Start \/ Connected \/ Resolved \/ Message \/ IdleExcused \/ IdleStalled \/ ReadFails
            \/ KeepaliveGone \/ AttemptFails \/ CancelMet \/ AttemptOver \/ NextAttempt

Next == \/ PumpStep
        \/ PeerCloses \/ ServerGone \/ MuxExits \/ MuxWatched
        \/ RequestPause \/ Resume \/ Seek \/ CloseWriteEnd \/ Stop

Spec == Init /\ [][Next]_vars

(* The loop runs what is ready; recv, connect, close and the back-off all  *)
(* carry timeouts. Nothing obliges the NAS, ffmpeg or the user to act.     *)
Fairness ==
  /\ WF_vars(PumpStep)
  /\ WF_vars(MuxWatched) /\ WF_vars(Stop)

FairSpec == Spec /\ Fairness

----------------------------------------------------------------------------
(* The bridge is given up only over failures of its own making: a          *)
(* connection that resume() or seek() closed while it was sound is never   *)
(* counted towards _MAX_CONSECUTIVE_FAST_FAILURES, and the excuse is spent *)
(* on the connection it was made for: a stale _closing_on_purpose would    *)
(* hide the next genuine failure.                                          *)
OwnClosesDoNotCount ==
  [][(fails' > fails => conn # "dropped") /\ (purpose' => conn' # "none")]_vars

(* Once _watch_ffmpeg has ended the bridge no attempt is begun: it would   *)
(* write into pipes nobody reads.                                          *)
NoAttemptOnDeadMux ==
  [][mux = "watched" /\ cancelling => ~(pump' = "connecting" /\ pump # "connecting")]_vars

(* A bridge that ends without being stopped has a reason to show, and what *)
(* wait_closed() reports once the pump is over does not change: an ffmpeg  *)
(* that exits because the pump closed its inputs is not the cause.         *)
ReasonStands ==
  [][/\ pump = "done" => error' = error
     /\ (pump' = "done" /\ ~Stopping') => error' # "none"]_vars

(* Idle time that a pause of History accounts for is never taken for a     *)
(* stall, whenever the pause and the resume fell within the recv().        *)
PauseIsNotAStall == [][IdleStalled => ~(history /\ overlap)]_vars

(* A muxer that exits and a stop each end the pump, wherever it is.        *)
EndsWhenTold == mux = "dead" \/ (Stopping /\ pump # "unstarted") ~> pump = "done"

(* So does a NAS that has stopped feeding it, whether it refuses the       *)
(* attempts, drops them or accepts each and says nothing: no retrying for  *)
(* ever (_note_attempt_outcome). A paused History waits, silent, for as    *)
(* long as its connection is not closed, and a connection that resume() or *)
(* seek() closes is not counted, however often.                            *)
GoneServerEnds ==
  <>[](~server /\ ~(paused /\ history) /\ ~purpose) => <>(pump = "done" \/ Stopping)

----------------------------------------------------------------------------
(* Behind these properties, an inductive invariant.                        *)

(* The count reaches its limit only in the step that ends the pump.        *)
CountBelowLimit == fails = MaxFails => pump = "done"

(* The mark is set exactly on a connection there is, and on each we closed.*)
MarkedCloses == (conn = "dropped" => purpose) /\ (purpose => conn # "none")

(* A pump that was told to end unwinds, or is about to hear of it, or is   *)
(* over; it has no muxer before it has begun.                              *)
CancelReachesPump ==
  /\ pump = "unstarted" => mux = "none"
  /\ pending => cancelling
  /\ exc = "cancelled" => cancelling
  /\ cancelling => \/ pending \/ pump = "done"
                   \/ pump \in {"keepalive", "leaving"} /\ exc = "cancelled"

(* What cancels a pump nobody stops leaves its reason first.               *)
ReasonFirst == (cancelling \/ pump = "done") /\ ~Stopping => error # "none"

(* What a recv() noted accounts for every pause it overlapped.             *)
PauseNoted == history /\ overlap => recv.atStart \/ recv.since

IInv == /\ TypeOK /\ CountBelowLimit /\ MarkedCloses /\ CancelReachesPump
        /\ ReasonFirst /\ PauseNoted

============================================================================
