-------------------------- MODULE HistoryPlayback --------------------------
(***************************************************************************)
(* A History WebSocketBridge (services/ws_bridge.py) and what it tells DSM *)
(* to play: the transport commands (pause, resume, seek, speed and         *)
(* direction), the connections _pump makes, and the two recording lookups  *)
(* that may still be out when a command comes.                             *)
(*                                                                         *)
(* A position is known only by the seek it follows: frames, the anchor and *)
(* the frozen position carry the number of the last seek DSM had taken     *)
(* when they were made (0 is the position the bridge was opened at).       *)
(* Speed and direction change alike, and are one flag here.                *)
(***************************************************************************)
EXTENDS Naturals, Sequences

CONSTANTS
  Recs,       \* ids of recordings
  FirstRec,   \* the one the bridge is opened with
  MaxSeeks,   \* bound: seeks
  MaxCmds,    \* bound: commands, seeks included
  MaxDrops,   \* bound: connections dropped, or given up for a failed lookup
  MaxFrames   \* bound: frames on their way from DSM

ASSUME PlaybackAssumption ==
  /\ FirstRec \in Recs
  /\ MaxSeeks \in Nat /\ MaxCmds \in Nat /\ MaxDrops \in Nat /\ MaxFrames \in Nat \ {0}

VARIABLES
  rec,       \* _history_recording
  seeks,     \* _seek_count
  paused,    \* _paused
  frozen,    \* _history_paused_position
  anchor,    \* _history_anchor_position
  msec,      \* _last_video_msec
  reverse,   \* _reverse (and _speed)
  stamp,     \* _history_stamp
  ws,        \* _current_ws: none, open, or open and being closed
  pump,      \* where _pump is: down, awaiting a lookup, reading
  asked,     \* seeks at the moment the lookup under way was asked for
  tail,      \* _watch_history_tail's lookup: out, and for which recording
  pausing,   \* request_pause() has run, pause() has not
  half,      \* the seek that has sent its update and not yet its seekMs
  wire,      \* commands on their way to DSM
  dsm,       \* what DSM plays on this connection
  frames,    \* frames on their way to the bridge
  cmds, drops,
  chosen     \* (history variable) the seek rec was chosen for

place    == <<rec, seeks, frozen, anchor, msec>>
modes    == <<paused, reverse, pausing>>
link     == <<ws, pump>>
lookups  == <<asked, tail>>
external == <<wire, dsm, frames>>
vars == <<place, modes, stamp, link, lookups, half, external, cmds, drops, chosen>>

Places == 0 .. MaxSeeks
NoPlace == MaxSeeks + 1
NoTail == [out |-> FALSE, same |-> FALSE, rec |-> FirstRec, seeks |-> 0]
Off == [on |-> FALSE, rec |-> FirstRec, paused |-> FALSE, reverse |-> FALSE, at |-> 0, stamp |-> 0]

Kinds == {"play", "update", "seekMs"}
Cmd == [kind : Kinds, rec : Recs, paused : BOOLEAN, reverse : BOOLEAN, at : Places, stamp : Nat]

PlacesOK ==
  /\ rec \in Recs /\ seeks \in Places /\ chosen \in Places /\ asked \in Places
  /\ frozen \in Places \cup {NoPlace} /\ anchor \in Places /\ msec \in Places \cup {NoPlace}
  /\ half \in Places \cup {NoPlace} /\ frames \in Seq(Places)
LinkOK ==
  /\ stamp \in Nat /\ ws \in {"none", "open", "closing"} /\ pump \in {"down", "lookup", "reading"}
BoundsOK == cmds \in 0 .. MaxCmds /\ drops \in 0 .. MaxDrops /\ Len(frames) <= MaxFrames
FlagsOK == paused \in BOOLEAN /\ reverse \in BOOLEAN /\ pausing \in BOOLEAN

ExternalOK ==
  /\ tail \in [out : BOOLEAN, same : BOOLEAN, rec : Recs, seeks : Places]
  /\ wire \in Seq(Cmd)
  /\ dsm \in [on : BOOLEAN, rec : Recs, paused : BOOLEAN, reverse : BOOLEAN, at : Places,
              stamp : Nat]

TypeOK == PlacesOK /\ LinkOK /\ BoundsOK /\ FlagsOK /\ ExternalOK

Init ==
  /\ rec = FirstRec /\ seeks = 0 /\ frozen = NoPlace /\ anchor = 0 /\ msec = NoPlace
  /\ paused = FALSE /\ reverse = FALSE /\ pausing = FALSE /\ stamp = 0
  /\ ws = "none" /\ pump = "down" /\ asked = 0 /\ tail = NoTail
  /\ half = NoPlace /\ wire = <<>> /\ dsm = Off /\ frames = <<>>
  /\ cmds = 0 /\ drops = 0 /\ chosen = 0

----------------------------------------------------------------------------
(* What is sent.                                                           *)

LastFrameOnly == IF frozen # NoPlace THEN frozen ELSE msec

(* _current_history_target: frozen, else the last frame, else the anchor.  *)
Target == IF frozen # NoPlace THEN frozen ELSE IF msec # NoPlace THEN msec ELSE anchor

(* A message carries the state as it will be after the step that sends it. *)
Message(kind, to, n) ==
  [kind |-> kind, rec |-> rec', paused |-> paused', reverse |-> reverse', at |-> to, stamp |-> n]

NextStamp(n) == n + 1

(* A connection being closed or already dropped raises; the state the      *)
(* command has set stays.                                                  *)
SendCommand(kind, to) ==
  IF ws = "none" THEN UNCHANGED <<stamp, wire>>
  ELSE /\ stamp' = NextStamp(stamp)
       /\ wire' = IF ws = "open" THEN Append(wire, Message(kind, to, stamp')) ELSE wire

SendUpdate     == SendCommand("update", Target')
SendSeekMs(to) == SendCommand("seekMs", to)

(* A new recording ends the lookups' claim on the old one.                 *)
Replaced(t) == [t EXCEPT !.same = FALSE]

----------------------------------------------------------------------------
(* The transport commands.                                                 *)

NewCommand == cmds < MaxCmds /\ cmds' = cmds + 1

(* The flag is set on the GTK thread ahead of the coroutine.               *)
RequestPause ==
  /\ ~pausing /\ NewCommand
  /\ pausing' = TRUE /\ paused' = TRUE
  /\ UNCHANGED <<place, reverse, stamp, link, lookups, half, external, drops, chosen>>

FlagSet == paused
AlreadyPaused == frozen # NoPlace

Pause ==
  /\ pausing /\ pausing' = FALSE /\ paused' = TRUE
  /\ frozen' = Target /\ UNCHANGED <<rec, seeks, anchor, msec, reverse>>
  /\ IF AlreadyPaused THEN UNCHANGED <<stamp, wire>> ELSE SendUpdate
  /\ UNCHANGED <<link, lookups, half, dsm, frames, cmds, drops, chosen>>

Resume ==
  /\ paused /\ NewCommand
  /\ paused' = FALSE /\ UNCHANGED <<reverse, pausing, rec, seeks>>
  /\ IF frozen = NoPlace THEN UNCHANGED <<frozen, anchor, msec, stamp, wire>>
     ELSE /\ anchor' = frozen /\ frozen' = NoPlace /\ msec' = NoPlace
          /\ SendUpdate
  /\ UNCHANGED <<link, lookups, half, dsm, frames, drops, chosen>>

(* set_speed and set_reverse re-anchor before they change anything.        *)
SetMode ==
  /\ NewCommand /\ reverse' = ~reverse /\ anchor' = Target
  /\ UNCHANGED <<rec, seeks, frozen, msec, paused, pausing>>
  /\ SendUpdate
  /\ UNCHANGED <<link, lookups, half, dsm, frames, drops, chosen>>

(* seek(): here and play.  Another recording closes the connection for     *)
(* _pump to open one on it; the same one is sought in place, after an      *)
(* update of its own if playback was paused.                               *)
Seek(r) ==
  /\ NewCommand /\ seeks < MaxSeeks /\ (r = rec => half = NoPlace)
  /\ seeks' = seeks + 1 /\ chosen' = seeks + 1 /\ rec' = r
  /\ paused' = FALSE /\ frozen' = NoPlace /\ msec' = NoPlace /\ anchor' = seeks + 1
  /\ UNCHANGED <<reverse, pausing, pump, asked, dsm, frames, drops>>
  /\ IF r = rec
     THEN /\ IF paused THEN SendUpdate ELSE SendSeekMs(seeks + 1)
          /\ half' = IF paused /\ ws # "none" THEN seeks + 1 ELSE NoPlace
          /\ UNCHANGED <<ws, tail>>
     ELSE /\ ws' = IF ws = "none" THEN ws ELSE "closing"
          /\ tail' = Replaced(tail)
          /\ UNCHANGED <<half, stamp, wire>>

(* The seekMs after the update. The connection may have gone while the     *)
(* update was sent: the seek fails then, and the next play starts from its *)
(* anchor.                                                                 *)
SeekMs ==
  /\ half # NoPlace /\ half' = NoPlace
  /\ UNCHANGED <<place, modes, link, lookups, dsm, frames, cmds, drops, chosen>>
  /\ SendSeekMs(half)

----------------------------------------------------------------------------
(* The pump.                                                               *)

StampOnward(n) == n + 1
FirstStamp(n) == 1

SendPlay ==
  /\ stamp' = FirstStamp(stamp)
  /\ IF ws = "open" THEN pump' = "reading" /\ wire' = Append(wire, Message("play", Target', stamp'))
                    ELSE pump' = "down" /\ UNCHANGED wire

WhilePlaying == ~paused
Reconnects == TRUE

(* The connection is up before the recording is known to cover the target; *)
(* if it may not, the resolver is awaited first.                           *)
Connect ==
  /\ pump = "down" /\ ws = "none" /\ Reconnects
  /\ ws' = "open" /\ msec' = NoPlace
  /\ UNCHANGED <<rec, seeks, frozen, anchor, modes, tail, half, cmds, drops, chosen>>
  /\ dsm' = Off /\ frames' = <<>>
  /\ \/ pump' = "lookup" /\ asked' = seeks /\ wire' = <<>> /\ UNCHANGED stamp
     \/ /\ pump' = "reading" /\ stamp' = FirstStamp(stamp)
        /\ wire' = <<Message("play", Target', stamp')>> /\ UNCHANGED asked

AnswerTaken == TRUE
AnswerCurrent == seeks = asked

(* The resolver's answer counts only if no seek came meanwhile; then play. *)
LookupDone ==
  /\ pump = "lookup"
  /\ \/ AnswerCurrent /\ rec' \in Recs /\ chosen' = asked /\ tail' = Replaced(tail)
     \/ UNCHANGED <<rec, chosen, tail>>
  /\ UNCHANGED <<seeks, frozen, anchor, msec, modes, ws, asked, half, dsm, frames, cmds,
                 drops>>
  /\ SendPlay

LookupFails ==
  /\ pump = "lookup" /\ drops < MaxDrops /\ drops' = drops + 1
  /\ pump' = "down" /\ ws' = "closing"
  /\ UNCHANGED <<place, modes, stamp, lookups, half, external, cmds, chosen>>

ReadFrame ==
  /\ pump = "reading" /\ frames # <<>>
  /\ msec' = Head(frames) /\ frames' = Tail(frames)
  /\ UNCHANGED <<rec, seeks, frozen, anchor, modes, stamp, link, lookups, half, wire, dsm, cmds,
                 drops, chosen>>

ConnectionOver ==
  /\ ws = "closing" /\ pump # "lookup"
  /\ ws' = "none" /\ pump' = "down"
  /\ dsm' = Off /\ wire' = <<>> /\ frames' = <<>>
  /\ UNCHANGED <<place, modes, stamp, lookups, half, cmds, drops, chosen>>

----------------------------------------------------------------------------
(* The tail watch: the same recording, grown longer, or nothing.           *)

TailAsks ==
  /\ ~tail.out /\ ~paused /\ tail' = [out |-> TRUE, same |-> TRUE, rec |-> rec, seeks |-> seeks]
  /\ UNCHANGED <<place, modes, stamp, link, asked, half, external, cmds, drops, chosen>>

StillThatOne == tail.same

TailAnswers ==
  /\ tail.out /\ tail' = NoTail
  /\ \/ UNCHANGED rec
     \/ StillThatOne /\ rec' = tail.rec
  /\ chosen' = IF rec' = rec THEN chosen ELSE tail.seeks
  /\ UNCHANGED <<seeks, frozen, anchor, msec, modes, stamp, link, asked, half, external, cmds,
                 drops>>

----------------------------------------------------------------------------
(* DSM (external): commands in order; before play it has nothing to apply  *)
(* them to but sees their stamps.  restart=false leaves start= alone.      *)

DsmTakes ==
  /\ wire # <<>> /\ wire' = Tail(wire)
  /\ LET m == Head(wire) IN
       dsm' = CASE m.kind = "play" ->
                     [on |-> TRUE, rec |-> m.rec, paused |-> m.paused, reverse |-> m.reverse,
                      at |-> m.at, stamp |-> m.stamp]
                [] m.kind = "update" /\ dsm.on ->
                     [dsm EXCEPT !.paused = m.paused, !.reverse = m.reverse, !.stamp = m.stamp]
                [] m.kind = "seekMs" /\ dsm.on ->
                     [dsm EXCEPT !.at = m.at, !.stamp = m.stamp]
                [] OTHER -> [dsm EXCEPT !.stamp = m.stamp]
  /\ UNCHANGED <<place, modes, stamp, link, lookups, half, frames, cmds, drops, chosen>>

DsmSends ==
  /\ dsm.on /\ ~dsm.paused /\ Len(frames) < MaxFrames /\ frames' = Append(frames, dsm.at)
  /\ UNCHANGED <<place, modes, stamp, link, lookups, half, wire, dsm, cmds, drops, chosen>>

Drop ==
  /\ drops < MaxDrops /\ drops' = drops + 1 /\ ws = "open" /\ pump # "down"
  /\ ws' = "closing" /\ wire' = <<>> /\ dsm' = Off
  /\ UNCHANGED <<place, modes, stamp, pump, lookups, half, frames, cmds, chosen>>

----------------------------------------------------------------------------
Next ==
  \/ RequestPause \/ Resume \/ SetMode \/ \E r \in Recs : Seek(r)
  \/ Pause \/ SeekMs \/ Connect \/ LookupDone \/ LookupFails \/ ReadFrame \/ ConnectionOver
  \/ TailAsks \/ TailAnswers \/ DsmTakes \/ DsmSends \/ Drop

Spec == Init /\ [][Next]_vars

FairSpec == Spec /\ WF_vars(Pause \/ SeekMs) /\ WF_vars(Connect \/ LookupDone \/ ConnectionOver)
                 /\ WF_vars(ReadFrame) /\ WF_vars(DsmTakes)

----------------------------------------------------------------------------
Idle == wire = <<>> /\ ~pausing /\ half = NoPlace
InStep == dsm.rec = rec /\ dsm.paused = paused /\ dsm.reverse = reverse

(* Once nothing is on its way, DSM plays what the bridge believes: the     *)
(* recording, paused or not, the speed and direction, whatever order the   *)
(* commands, drops and lookups came in.                                    *)
DsmAgrees == pump = "reading" /\ ws = "open" /\ Idle => dsm.on /\ InStep

(* The recording loaded is the one chosen for the last seek: no lookup     *)
(* asked for before it replaces what it chose.                             *)
RecordingIsForLastSeek == chosen = seeks

(* The command a step puts on the connection; the stamp of the last one    *)
(* put on it, 0 before any.                                                *)
LastSent == IF wire = <<>> THEN dsm.stamp ELSE wire[Len(wire)].stamp
Sent == wire'[Len(wire')]

(* What the module's docstring says of stamp: a counter per connection, 1  *)
(* for its first command and one more with every later one.  It is broken: *)
(* _current_ws is set before the lookup that precedes play is awaited, so  *)
(* a command that comes meanwhile is the first, with the count of the      *)
(* connection before, and play's 1 follows it.                             *)
StampsInOrder == [][Len(wire') > Len(wire) => Sent.stamp = LastSent + 1]_vars

(* What holds of it: play carries 1, and every other command one more than *)
(* the last on its connection, whichever coroutine sends it; only the      *)
(* first command that goes ahead of play has nothing to count on from.     *)
CountsFromPlay ==
  [][Len(wire') > Len(wire) =>
       IF Sent.kind = "play" THEN Sent.stamp = 1
       ELSE Sent.stamp = LastSent + 1 \/ (LastSent = 0 /\ pump = "lookup")]_vars

(* Commands sent, a playing bridge settles on a connection that plays them.*)
Settles == []<>(pump = "reading" /\ ws = "open" /\ Idle)

(* seek(): the position is the seek's own until a frame arrives for the    *)
(* new target, so a later play starts at or after it and not where         *)
(* playback was before.                                                    *)
SeekSurvives ==
  [][pump # "reading" /\ pump' = "reading" => wire'[Len(wire')].at = seeks']_vars

----------------------------------------------------------------------------
(* Behind the safety properties, an inductive invariant.                   *)

(* The tail's lookup is about the recording that is loaded, while it claims*)
(* so; the last word on the recording is the last seek's.                  *)
TailIsCurrent == tail.same => tail.rec = rec

(* A frozen position and the flag part only while a pause is on its way.   *)
FrozenIsPaused ==
  (frozen # NoPlace => paused) /\ (paused /\ frozen = NoPlace => pausing)

(* No connection is open but while the pump holds it, and none plays       *)
(* before its lookup is over.                                              *)
LinkHeld ==
  /\ pump = "down" => ws # "open"
  /\ pump = "lookup" /\ ws = "open" => ~dsm.on /\ \A i \in DOMAIN wire : wire[i].kind # "play"

(* Once play is sent, the counter is the last stamp on the connection; and *)
(* before it too, if anything was sent ahead of it.                        *)
Played(i) == dsm.on \/ \E k \in DOMAIN wire : k <= i /\ wire[k].kind = "play"
CountIsSent ==
  /\ pump = "reading" /\ ws = "open" => Played(Len(wire))
  /\ ws = "open" /\ (pump = "reading" \/ LastSent # 0) => stamp = LastSent

(* The last word on the modes: what is on its way, or what DSM has taken.  *)
(* A pause that is on its way may be ahead of its command.                 *)
Current(m) == m.reverse = reverse /\ (frozen # NoPlace \/ ~pausing => m.paused = paused)
ModesAreSent ==
  pump = "reading" /\ ws = "open" =>
    /\ dsm.on => dsm.rec = rec
    /\ \A i \in DOMAIN wire : wire[i].kind = "play" => wire[i].rec = rec
    /\ \A i \in DOMAIN wire :
         wire[i].kind # "seekMs" /\ (\A k \in DOMAIN wire : k > i => wire[k].kind = "seekMs")
           => Current(wire[i])
    /\ (\A i \in DOMAIN wire : wire[i].kind = "seekMs") => Current(dsm)

IInv == /\ TypeOK /\ RecordingIsForLastSeek /\ TailIsCurrent /\ FrozenIsPaused /\ LinkHeld
        /\ CountIsSent /\ ModesAreSent

============================================================================
