------------------------------ MODULE PipeFds ------------------------------
(***************************************************************************)
(* The pipe descriptors behind a Live View slot: services/ws_bridge.py and *)
(* the slot code of ui/liveview.py that hands a descriptor NUMBER to mpv.  *)
(*                                                                         *)
(* A WebSocketBridge owns up to three descriptors (_read_fd,               *)
(* _video_write_fd, _audio_write_fd).  Four kinds of thread touch them:    *)
(* the GTK main thread (stop_stream, close_write_end), the asyncio loop    *)
(* (pump, stop(), gap watchdog), the to_thread workers inside _write_pipe, *)
(* and mpv, which reads whatever description a number names.  The kernel   *)
(* hands the lowest free number to the next os.pipe() or os.dup(), so a    *)
(* number used one step too late names another bridge's pipe.              *)
(***************************************************************************)
EXTENDS Naturals, FiniteSets

CONSTANTS
  Bridges,   \* the bridges ever built, each started at most once
  Slots,     \* Live View slots
  Fds,       \* descriptor numbers the process may be given
  Writers,   \* which to_thread writers run: "video", "audio", "fill"
  SlotOf,    \* the slot a bridge is built for
  NoFd,      \* -1
  None       \* no bridge / nothing open

ASSUME FdsAssumption == Fds \subseteq Nat
ASSUME NoFdAssumption == NoFd \notin Fds
ASSUME WritersAssumption == Writers \subseteq {"video", "audio", "fill"}
ASSUME SlotOfAssumption == SlotOf \in [Bridges -> Slots]

(***************************************************************************)
(* Places a number can be held in: the three fields of the object, the     *)
(* locals of _start_muxed (or of the raw os.pipe()), the private dup of a  *)
(* writer, and the locals into which a closer, on the GTK thread or on the *)
(* loop's, has swapped the fields.                                         *)
(***************************************************************************)
Fields  == {"video_fd", "audio_fd", "read_fd"}
Own     == {"new_video", "new_audio", "new_read"}
Ffmpegs == {"ff_video", "ff_audio", "ff_out"}
Dups    == {"dup_video", "dup_audio", "dup_fill"}
GtkLocals  == {"gtk_v", "gtk_a"}
LoopLocals == {"loop_v", "loop_a"}
Places  == Fields \cup Own \cup Ffmpegs \cup Dups \cup GtkLocals \cup LoopLocals

(* The pipe end a number held in a place must name.                        *)
EndOf(p) ==
  IF p \in {"video_fd", "new_video", "dup_video", "gtk_v", "loop_v"} THEN "video"
  ELSE IF p \in {"audio_fd", "new_audio", "dup_audio", "dup_fill", "gtk_a", "loop_a"} THEN "audio"
  ELSE IF p \in {"read_fd", "new_read"} THEN "out"
  ELSE p

Ends == {"video", "audio", "out"} \cup Ffmpegs

DupOf   == [video |-> "dup_video", audio |-> "dup_audio", fill |-> "dup_fill"]
FieldOf == [video |-> "video_fd", audio |-> "audio_fd", fill |-> "audio_fd"]

ASSUME NoneAssumption ==
  None \notin Bridges /\ None \notin Writers /\ None \notin Places /\ None \notin Bridges \X Ends

VARIABLES
  fdt,      \* the process's descriptor table: Fd -> <<bridge, end>> or None
  held,     \* held[b][place]: the number kept there, or NoFd
  seen,     \* seen[b][w]: the field's number a writer read under the lock
  lock,     \* _fd_lock of each bridge: the writer holding it, or None
  writer,   \* writer[b][w]: "idle", "locked" (number read) or "writing"
  pump,     \* where the pump task of each bridge is
  stopTask, \* how far stop_stream() and then stop() have got with the bridge
  muxed,    \* whether the bridge's pipes are ffmpeg's
  cur,      \* cur[s]: slot._ws_bridge, or None
  playing,  \* playing[s]: the number in the fd:// URL mpv is reading, or NoFd
  ready     \* ready[b]: the number start() returned and GTK has yet to act on

vars == <<fdt, held, seen, lock, writer, pump, stopTask, muxed, cur, playing, ready>>

PumpStates == {"new", "run", "pipe1", "pipe2", "pipe3", "spawn", "unwind", "rawpipe",
               "rawpublish", "ending", "ended"}

(* "none"; stop_stream has set _stopping ("stopping") and swapped the      *)
(* fields out ("swapped"); then stop(): its own close_write_end            *)
(* ("closing"), the pump cancelled ("cancelling"), the pump and the writer *)
(* tasks gone ("cancelled"), the read end closed ("done").                 *)
StopStates == {"none", "stopping", "swapped", "closing", "cancelling", "cancelled", "done"}

TypeOK ==
  /\ fdt \in [Fds -> (Bridges \X Ends) \cup {None}]
  /\ held \in [Bridges -> [Places -> Fds \cup {NoFd}]]
  /\ seen \in [Bridges -> [Writers -> Fds \cup {NoFd}]]
  /\ lock \in [Bridges -> Writers \cup {None}]
  /\ writer \in [Bridges -> [Writers -> {"idle", "locked", "writing"}]]
  /\ pump \in [Bridges -> PumpStates]
  /\ stopTask \in [Bridges -> StopStates]
  /\ muxed \in [Bridges -> BOOLEAN]
  /\ cur \in [Slots -> Bridges \cup {None}]
  /\ playing \in [Slots -> Fds \cup {NoFd}]
  /\ ready \in [Bridges -> Fds \cup {NoFd}]

Init ==
  /\ fdt = [f \in Fds |-> None]
  /\ held = [b \in Bridges |-> [p \in Places |-> NoFd]]
  /\ seen = [b \in Bridges |-> [w \in Writers |-> NoFd]]
  /\ lock = [b \in Bridges |-> None]
  /\ writer = [b \in Bridges |-> [w \in Writers |-> "idle"]]
  /\ pump = [b \in Bridges |-> "new"]
  /\ stopTask = [b \in Bridges |-> "none"]
  /\ muxed = [b \in Bridges |-> FALSE]
  /\ cur = [s \in Slots |-> None]
  /\ playing = [s \in Slots |-> NoFd]
  /\ ready = [b \in Bridges |-> NoFd]

----------------------------------------------------------------------------
(* Kernel primitives.                                                      *)

Free == {f \in Fds : fdt[f] = None}

(* The lowest number of S, the one POSIX requires the kernel to hand out.  *)
IsLowest(f, S) == f \in S /\ \A g \in S : f <= g

Holds(b, p) == held[b][p] # NoFd

(* os.pipe(): the read end into place r, the write end into place w.       *)
OpenPipe(b, r, w) ==
  \E f, g \in Fds :
    /\ IsLowest(f, Free) /\ IsLowest(g, Free \ {f})
    /\ fdt' = [fdt EXCEPT ![f] = <<b, EndOf(r)>>, ![g] = <<b, EndOf(w)>>]
    /\ held' = [held EXCEPT ![b][r] = f, ![b][w] = g]

(* os.close() of every number held in the places P of b.                   *)
CloseAll(b, P) ==
  /\ fdt' = [f \in Fds |-> IF \E p \in P : held[b][p] = f THEN None ELSE fdt[f]]
  /\ held' = [held EXCEPT ![b] = [p \in Places |-> IF p \in P THEN NoFd ELSE held[b][p]]]

----------------------------------------------------------------------------
(* GTK main thread: _start_bridge, _on_ready and stop_stream of one slot.  *)
(* stop_stream is one GTK callback, so no other of these runs inside it.   *)

GtkIdle == \A b \in Bridges : /\ stopTask[b] # "stopping"
                               /\ \A p \in GtkLocals : ~Holds(b, p)

StartBridge(b) ==
  /\ GtkIdle /\ cur[SlotOf[b]] = None /\ pump[b] = "new"
  /\ cur' = [cur EXCEPT ![SlotOf[b]] = b]
  /\ pump' = [pump EXCEPT ![b] = "run"]
  /\ UNCHANGED <<fdt, held, seen, lock, writer, stopTask, muxed, playing, ready>>

(* _on_ready: a bridge the slot has moved on from is not played.           *)
AnyBridge(b) == TRUE
StillShown(b) == cur[SlotOf[b]] = b
OnReady(b) ==
  /\ GtkIdle /\ ready[b] # NoFd
  /\ playing' = IF StillShown(b) THEN [playing EXCEPT ![SlotOf[b]] = ready[b]] ELSE playing
  /\ ready' = [ready EXCEPT ![b] = NoFd]
  /\ UNCHANGED <<fdt, held, seen, lock, writer, pump, stopTask, muxed, cur>>

(* stop_stream: mpv lets go of the pipe first, then the slot drops the     *)
(* bridge and close_write_end() sets _stopping.                            *)
StopStream(s) ==
  /\ GtkIdle /\ cur[s] # None
  /\ playing' = [playing EXCEPT ![s] = NoFd]
  /\ stopTask' = [stopTask EXCEPT ![cur[s]] = "stopping"]
  /\ cur' = [cur EXCEPT ![s] = None]
  /\ UNCHANGED <<fdt, held, seen, lock, writer, pump, muxed, ready>>

----------------------------------------------------------------------------
(* _close_write_fd and _close_audio_write_fd: swap the fields out under    *)
(* the lock, then close the numbers, each outside it.                      *)

(* The video and audio fields into the locals v and a; None leaves video.  *)
LockIgnored(b) == TRUE
LockFree(b) == lock[b] = None
SwapOut(b, v, a) ==
  /\ LockFree(b)
  /\ held' = [held EXCEPT ![b] = [p \in Places |->
                CASE p = v -> held[b]["video_fd"]
                  [] p = a -> held[b]["audio_fd"]
                  [] p = "audio_fd" -> NoFd
                  [] p = "video_fd" /\ v # None -> NoFd
                  [] OTHER -> held[b][p]]]
  /\ UNCHANGED <<fdt, seen, lock, writer, muxed, cur, playing, ready>>

(* The os.close() calls after a swap.                                      *)
CloseSwapped(b, p) ==
  /\ Holds(b, p)
  /\ CloseAll(b, {p})
  /\ UNCHANGED <<seen, lock, writer, pump, stopTask, muxed, cur, playing, ready>>

GtkClose(b) ==
  /\ stopTask[b] = "stopping"
  /\ SwapOut(b, "gtk_v", "gtk_a")
  /\ stopTask' = [stopTask EXCEPT ![b] = "swapped"]
  /\ UNCHANGED pump

----------------------------------------------------------------------------
(* The asyncio loop is one thread: while a coroutine runs from one await   *)
(* to the next, no other does.                                             *)

NoAwait == {"pipe1", "pipe2", "pipe3", "rawpipe", "rawpublish"}

LoopIdle == \A b \in Bridges : /\ pump[b] \notin NoAwait
                                /\ \A p \in LoopLocals : ~Holds(b, p)

(* _watch_audio_gap ending the audio stream.                               *)
GapClose(b) ==
  /\ LoopIdle /\ muxed[b] /\ Holds(b, "audio_fd")
  /\ stopTask[b] \notin {"cancelled", "done"}
  /\ SwapOut(b, None, "loop_a")
  /\ UNCHANGED <<pump, stopTask>>

(* The finally of _pump.                                                   *)
PumpClose(b) ==
  /\ LoopIdle /\ pump[b] = "ending"
  /\ SwapOut(b, "loop_v", "loop_a")
  /\ pump' = [pump EXCEPT ![b] = "ended"]
  /\ UNCHANGED stopTask

(* stop(), which stop_stream submits when its own closes are done.         *)
StopClose(b) ==
  /\ LoopIdle /\ stopTask[b] = "swapped" /\ \A p \in GtkLocals : ~Holds(b, p)
  /\ SwapOut(b, "loop_v", "loop_a")
  /\ stopTask' = [stopTask EXCEPT ![b] = "closing"]
  /\ UNCHANGED pump

(* _pump_task.cancel(): the pump meets it at its await, in the read loop   *)
(* or in the spawn of ffmpeg.                                              *)
StopCancel(b) ==
  /\ LoopIdle /\ stopTask[b] = "closing"
  /\ stopTask' = [stopTask EXCEPT ![b] = "cancelling"]
  /\ pump' = [pump EXCEPT ![b] = CASE @ = "run" -> "ending"
                                   [] @ = "spawn" -> "unwind"
                                   [] OTHER -> @]
  /\ UNCHANGED <<fdt, held, seen, lock, writer, muxed, cur, playing, ready>>

(* The pump has ended; the video writer, the silence fill and the gap      *)
(* watchdog are cancelled (the threads a write runs in are not).           *)
StopAwait(b) ==
  /\ LoopIdle /\ stopTask[b] = "cancelling" /\ pump[b] = "ended"
  /\ stopTask' = [stopTask EXCEPT ![b] = "cancelled"]
  /\ UNCHANGED <<fdt, held, seen, lock, writer, pump, muxed, cur, playing, ready>>

ReadEndKept == {}
StopCloses == {"read_fd"}
StopCloseRead(b) ==
  /\ LoopIdle /\ stopTask[b] = "cancelled"
  /\ CloseAll(b, StopCloses)
  /\ stopTask' = [stopTask EXCEPT ![b] = "done"]
  /\ UNCHANGED <<seen, lock, writer, pump, muxed, cur, playing, ready>>

----------------------------------------------------------------------------
(* The pump's pipe set-up: _setup_pipes and _start_muxed.                  *)

(* The first codec-info frame names codecs that can be muxed, or do not.   *)
SetUp(b) ==
  /\ LoopIdle /\ pump[b] = "run" /\ ~Holds(b, "read_fd")
  /\ \E p \in {"pipe1", "rawpipe"} : pump' = [pump EXCEPT ![b] = p]
  /\ UNCHANGED <<fdt, held, seen, lock, writer, stopTask, muxed, cur, playing, ready>>

MuxPipe(b) ==
  /\ \/ pump[b] = "pipe1" /\ OpenPipe(b, "ff_video", "new_video")
     \/ pump[b] = "pipe2" /\ OpenPipe(b, "ff_audio", "new_audio")
     \/ pump[b] = "pipe3" /\ OpenPipe(b, "new_read", "ff_out")
  /\ pump' = [pump EXCEPT ![b] = CASE @ = "pipe1" -> "pipe2"
                                   [] @ = "pipe2" -> "pipe3"
                                   [] OTHER -> "spawn"]
  /\ UNCHANGED <<seen, lock, writer, stopTask, muxed, cur, playing, ready>>

(* The except BaseException of _start_muxed: what was opened is closed. An *)
(* OSError from os.pipe() or from ffmpeg falls back to the raw pipe.       *)
MuxFails(b) ==
  /\ pump[b] \in {"pipe1", "pipe2", "pipe3"} \/ (pump[b] = "spawn" /\ LoopIdle)
  /\ CloseAll(b, Own \cup Ffmpegs)
  /\ pump' = [pump EXCEPT ![b] = "rawpipe"]
  /\ UNCHANGED <<seen, lock, writer, stopTask, muxed, cur, playing, ready>>

(* The same clause for a cancellation during the spawn.                    *)
OnlyOnOSError == {}
UnwindCloses == Own \cup Ffmpegs
MuxCancelled(b) ==
  /\ LoopIdle /\ pump[b] = "unwind"
  /\ CloseAll(b, UnwindCloses)
  /\ pump' = [pump EXCEPT ![b] = "ending"]
  /\ UNCHANGED <<seen, lock, writer, stopTask, muxed, cur, playing, ready>>

(* Move the new ends from the locals to the fields, closing places C.      *)
Publish(b, C) ==
  /\ fdt' = [f \in Fds |-> IF \E p \in C : held[b][p] = f THEN None ELSE fdt[f]]
  /\ held' = [held EXCEPT ![b] = [p \in Places |->
                CASE p = "video_fd" -> held[b]["new_video"]
                  [] p = "audio_fd" -> held[b]["new_audio"]
                  [] p = "read_fd"  -> held[b]["new_read"]
                  [] p \in Own \cup C -> NoFd
                  [] OTHER -> held[b][p]]]
  /\ ready' = [ready EXCEPT ![b] = held[b]["new_read"]]
  /\ pump' = [pump EXCEPT ![b] = "run"]

(* ffmpeg is running: its ends are closed here, ours become the fields.    *)
MuxStarted(b) ==
  /\ LoopIdle /\ pump[b] = "spawn"
  /\ Publish(b, Ffmpegs)
  /\ muxed' = [muxed EXCEPT ![b] = TRUE]
  /\ UNCHANGED <<seen, lock, writer, stopTask, cur, playing>>

RawPipe(b) ==
  /\ pump[b] = "rawpipe"
  /\ OpenPipe(b, "new_read", "new_video")
  /\ pump' = [pump EXCEPT ![b] = "rawpublish"]
  /\ UNCHANGED <<seen, lock, writer, stopTask, muxed, cur, playing, ready>>

(* os.pipe() raises, and the next connection tries again; or the bridge is *)
(* being stopped as AAC detection ends, and no pipe is opened for it.      *)
RawFails(b) ==
  /\ pump[b] = "rawpipe"
  /\ pump' = [pump EXCEPT ![b] = "run"]
  /\ UNCHANGED <<fdt, held, seen, lock, writer, stopTask, muxed, cur, playing, ready>>

RawPublish(b) ==
  /\ pump[b] = "rawpublish"
  /\ Publish(b, {})
  /\ UNCHANGED <<seen, lock, writer, stopTask, muxed, cur, playing>>

(* The pump gives up, or leaves its loop because _stopping is set.         *)
PumpEnds(b) ==
  /\ LoopIdle /\ pump[b] = "run"
  /\ pump' = [pump EXCEPT ![b] = "ending"]
  /\ UNCHANGED <<fdt, held, seen, lock, writer, stopTask, muxed, cur, playing, ready>>

----------------------------------------------------------------------------
(* _write_pipe in a to_thread worker. The raw path's writes and the real   *)
(* audio are the pump's, the muxed video writer and the silence fill are   *)
(* tasks of their own that outlive it until stop() cancels them.           *)

MayWrite(b, w) ==
  \/ pump[b] = "run" /\ (w = "video" \/ (w = "audio" /\ muxed[b]))
  \/ w \in {"video", "fill"} /\ muxed[b] /\ stopTask[b] \notin {"cancelled", "done"}

(* Take the lock and read the field; a closed field ends the call at once. *)
WriteLock(b, w) ==
  /\ MayWrite(b, w) /\ writer[b][w] = "idle" /\ lock[b] = None
  /\ Holds(b, FieldOf[w])
  /\ lock' = [lock EXCEPT ![b] = w]
  /\ seen' = [seen EXCEPT ![b][w] = held[b][FieldOf[w]]]
  /\ writer' = [writer EXCEPT ![b][w] = "locked"]
  /\ UNCHANGED <<fdt, held, pump, stopTask, muxed, cur, playing, ready>>

(* os.dup() of the number read, still under the lock, then release it.     *)
WriteDup(b, w) ==
  /\ writer[b][w] = "locked"
  /\ \E f \in Fds :
       /\ IsLowest(f, Free)
       /\ fdt' = [fdt EXCEPT ![f] = fdt[seen[b][w]]]
       /\ held' = [held EXCEPT ![b][DupOf[w]] = f]
  /\ lock' = [lock EXCEPT ![b] = None]
  /\ seen' = [seen EXCEPT ![b][w] = NoFd]
  /\ writer' = [writer EXCEPT ![b][w] = "writing"]
  /\ UNCHANGED <<pump, stopTask, muxed, cur, playing, ready>>

(* os.dup() raises: the with statement still releases the lock.            *)
DupFails(b, w) ==
  /\ writer[b][w] = "locked"
  /\ lock' = [lock EXCEPT ![b] = None]
  /\ seen' = [seen EXCEPT ![b][w] = NoFd]
  /\ writer' = [writer EXCEPT ![b][w] = "idle"]
  /\ UNCHANGED <<fdt, held, pump, stopTask, muxed, cur, playing, ready>>

(* Written, stalled out or EPIPE: the dup is closed either way.            *)
WriteEnd(b, w) ==
  /\ writer[b][w] = "writing"
  /\ CloseAll(b, {DupOf[w]})
  /\ writer' = [writer EXCEPT ![b][w] = "idle"]
  /\ UNCHANGED <<seen, lock, pump, stopTask, muxed, cur, playing, ready>>

----------------------------------------------------------------------------
Stopping(b) == GtkClose(b) \/ StopClose(b) \/ StopCancel(b) \/ StopAwait(b) \/ StopCloseRead(b)
               \/ \E p \in GtkLocals \cup LoopLocals : CloseSwapped(b, p)

SettingUp(b) == MuxPipe(b) \/ MuxFails(b) \/ MuxCancelled(b) \/ MuxStarted(b)
                \/ RawPipe(b) \/ RawFails(b) \/ RawPublish(b)

Pumping(b) == SetUp(b) \/ SettingUp(b) \/ PumpEnds(b) \/ PumpClose(b)

Writing(b, w) == WriteLock(b, w) \/ WriteDup(b, w) \/ DupFails(b, w) \/ WriteEnd(b, w)

Next ==
  \/ \E s \in Slots : StopStream(s)
  \/ \E b \in Bridges :
       \/ StartBridge(b) \/ OnReady(b) \/ GapClose(b)
       \/ Stopping(b) \/ Pumping(b)
       \/ \E w \in Writers : Writing(b, w)

Spec == Init /\ [][Next]_vars

(* A coroutine that is ready gets its turn however many others the loop    *)
(* runs first (its ready queue is FIFO), and a thread waiting for _fd_lock *)
(* gets it however often a writer takes it for the length of a dup: hence  *)
(* strong fairness. A blocked write ends by _WRITE_TIMEOUT or by EPIPE.    *)
Fairness ==
  \A b \in Bridges :
    /\ SF_vars(Stopping(b))
    /\ SF_vars(SettingUp(b)) /\ SF_vars(PumpClose(b))
    /\ \A w \in Writers : WF_vars(WriteDup(b, w) \/ DupFails(b, w)) /\ WF_vars(WriteEnd(b, w))

FairSpec == Spec /\ Fairness

----------------------------------------------------------------------------
(* A write never lands in another bridge's pipe, or in the other stream of *)
(* its own: the private dup names the pipe end its writer is for, whatever *)
(* closes the fields meanwhile (_write_pipe's docstring).                  *)
WritesOwnPipe ==
  \A b \in Bridges, w \in Writers :
    writer[b][w] = "writing" => fdt[held[b][DupOf[w]]] = <<b, EndOf(DupOf[w])>>

(* While mpv reads fd://N, N is the read end of the bridge the slot shows: *)
(* the number is neither closed nor given to another pipe under it         *)
(* (stop_stream's docstring, _on_ready's guard).                           *)
PlaysOwnPipe ==
  \A s \in Slots :
    playing[s] # NoFd => /\ cur[s] # None
                         /\ fdt[playing[s]] = <<cur[s], "out">>

OpenOf(b) == {f \in Fds : fdt[f] # None /\ fdt[f][1] = b}

(* A bridge that has been stopped leaves no descriptor behind once its     *)
(* last write has ended, whichever step of the set-up the stop met.        *)
StoppedLeaksNothing ==
  \A b \in Bridges :
    stopTask[b] = "done" /\ (\A w \in Writers : writer[b][w] # "writing") => OpenOf(b) = {}

(* Stopping a slot's stream ends with all of its descriptors closed.       *)
StopReleasesAll == \A b \in Bridges : stopTask[b] = "stopping" ~> OpenOf(b) = {}

----------------------------------------------------------------------------
(* The inductive invariant behind the two ownership properties.            *)

(* Every number kept anywhere names the pipe end its place is for, and no  *)
(* two places keep the same number: each open number has one closer.       *)
OwnsWhatItHolds == \A b \in Bridges, p \in Places : Holds(b, p) => fdt[held[b][p]] = <<b, EndOf(p)>>
OneHolder ==
  \A b \in Bridges, p \in Places : Holds(b, p) =>
    \A c \in Bridges, q \in Places : held[c][q] = held[b][p] => c = b /\ q = p

(* A writer inside the lock has read the number the field still holds.     *)
LockedReads ==
  \A b \in Bridges, w \in Writers :
    /\ writer[b][w] = "locked" => /\ lock[b] = w
                                  /\ Holds(b, FieldOf[w]) /\ seen[b][w] = held[b][FieldOf[w]]
    /\ writer[b][w] = "writing" => Holds(b, DupOf[w])

SettingUpStates == {"new", "pipe1", "pipe2", "pipe3", "spawn", "unwind", "rawpipe", "rawpublish"}

(* The fields are published once.                                          *)
PublishedOnce ==
  \A b \in Bridges :
    pump[b] \in SettingUpStates \/ (pump[b] = "run" /\ ~Holds(b, "read_fd"))
      => ready[b] = NoFd /\ \A p \in Fields : ~Holds(b, p)

(* When ffmpeg or the raw pipe is to be published its read end is open.    *)
Publishable == \A b \in Bridges : pump[b] \in {"spawn", "rawpublish"} => Holds(b, "new_read")

StopOrder ==
  \A b \in Bridges :
    /\ stopTask[b] \in {"cancelled", "done"} => pump[b] = "ended"
    /\ pump[b] = "new" => stopTask[b] = "none"

(* A slot's current bridge has not been stopped, and what mpv plays, or    *)
(* start() is about to hand it, is that bridge's read end.                 *)
CurrentIsLive ==
  \A s \in Slots : cur[s] # None =>
    SlotOf[cur[s]] = s /\ stopTask[cur[s]] = "none" /\ pump[cur[s]] # "new"
PlaysCurrent ==
  \A s \in Slots : playing[s] # NoFd =>
    cur[s] # None /\ playing[s] = held[cur[s]]["read_fd"]
ReadyCurrent ==
  \A b \in Bridges : ready[b] # NoFd /\ cur[SlotOf[b]] = b => ready[b] = held[b]["read_fd"]

(* All of it: no number is kept twice, and none that anybody reads, writes *)
(* or plays is closed under them.                                          *)
IInv == /\ TypeOK /\ OwnsWhatItHolds /\ OneHolder /\ LockedReads /\ PublishedOnce
        /\ Publishable /\ StopOrder /\ CurrentIsLive /\ PlaysCurrent /\ ReadyCurrent

============================================================================
