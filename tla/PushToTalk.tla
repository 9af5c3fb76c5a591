----------------------------- MODULE PushToTalk -----------------------------
(***************************************************************************)
(* The microphone button of one slot and the sessions it starts.  GTK owns *)
(* the button and the slot's session; a session runs on the asyncio loop   *)
(* from opening the microphone to closing it, looking at its stop event    *)
(* between its awaits.  The camera's speaker takes one talker at a time.   *)
(***************************************************************************)
EXTENDS Integers, Sequences

CONSTANTS Sessions,    \* bound: sessions started, in order
          MaxQueued,   \* MAX_QUEUED_CHUNKS
          MaxChunks    \* bound: chunks one session records

SessionAssumption == Sessions \subseteq Nat \ {0}
QueueAssumption == MaxQueued \in Nat \ {0} /\ MaxChunks \in Nat

None == 0

VARIABLES active, own,     \* GTK: the button, slot._ptt_session
          stage,           \* per session, where run() is
          told,            \* per session: its stop event is set
          telling,         \* stop()'s callbacks not yet run on the loop
          mic,             \* per session: the capture stream is open
          queue,           \* per session: chunks recorded and not yet sent
          recorded, sent,  \* per session: chunks counted; the last one sent
          failing,         \* errors on their way to _on_ptt_ended
          others           \* somebody else talks through the camera

slot == <<active, own>>
audio == <<mic, queue, recorded, sent>>
vars == <<slot, stage, told, telling, audio, failing, others>>

Stages == {"new", "opening", "checking", "connecting", "sending", "closing", "ended"}

Init ==
    /\ active = FALSE /\ own = None
    /\ stage = [s \in Sessions |-> "new"]
    /\ told = {} /\ telling = {} /\ mic = {} /\ failing = {}
    /\ queue = [s \in Sessions |-> <<>>]
    /\ recorded = [s \in Sessions |-> 0] /\ sent = [s \in Sessions |-> 0]
    /\ others = FALSE

To(s, next) == stage' = [stage EXCEPT ![s] = next]
Unused == {s \in Sessions : stage[s] = "new"}
Fails(s) == To(s, "closing") /\ failing' = failing \cup {s}

(***************************************************************************)
(* The GTK thread.                                                         *)
(***************************************************************************)
(* The button, when off: a new session, whatever still runs.               *)
TalkOn ==
    /\ ~active
    /\ \E s \in Unused :
          /\ \A t \in Unused : s <= t
          /\ active' = TRUE /\ own' = s /\ To(s, "opening")
    /\ UNCHANGED <<told, telling, audio, failing, others>>

(* The button, when on, or the slot is no longer used: cleared, assigned   *)
(* another camera, hidden by a layout, its camera offline, logout.         *)
TalkOff ==
    /\ active /\ active' = FALSE /\ own' = None
    /\ telling' = telling \cup ({own} \ {None})
    /\ UNCHANGED <<stage, told, audio, failing, others>>

(* A mutant: whichever session failed, the button goes off.                *)
AnySession(s) == TRUE

Owner(s) == own = s

(* _on_ptt_ended: what ended on its own, if the slot still has it.         *)
Ended ==
    /\ \E s \in failing :
          /\ stage[s] = "ended" /\ failing' = failing \ {s}
          /\ IF Owner(s) THEN active' = FALSE /\ own' = None
                         ELSE UNCHANGED slot
    /\ UNCHANGED <<stage, told, telling, audio, others>>

(***************************************************************************)
(* A session on the loop, and its microphone.                              *)
(***************************************************************************)
StopEvent ==
    /\ \E s \in telling : told' = told \cup {s} /\ telling' = telling \ {s}
    /\ UNCHANGED <<slot, stage, audio, failing, others>>

(* The stream opens on a worker thread, or has no device to open.          *)
Opened ==
    /\ \E s \in Sessions : stage[s] = "opening" /\
          \/ /\ mic' = mic \cup {s} /\ UNCHANGED failing
             /\ To(s, IF s \in told THEN "closing" ELSE "checking")
          \/ /\ Fails(s) /\ UNCHANGED mic
    /\ UNCHANGED <<slot, told, telling, queue, recorded, sent, others>>

(* A mutant: a full queue keeps what it has.                               *)
NewestDropped(q, c) == IF Len(q) >= MaxQueued THEN q ELSE Append(q, c)

Enqueued(q, c) == Append(IF Len(q) >= MaxQueued THEN Tail(q) ELSE q, c)

Record ==
    /\ \E s \in mic :
          /\ recorded[s] < MaxChunks
          /\ recorded' = [recorded EXCEPT ![s] = @ + 1]
          /\ queue' = [queue EXCEPT ![s] = Enqueued(@, recorded'[s])]
    /\ UNCHANGED <<slot, stage, told, telling, mic, sent, failing, others>>

Talking == {s \in Sessions : stage[s] = "sending"}

(* CheckOccupied answers, or fails.                                        *)
Checked ==
    /\ \E s \in Sessions : stage[s] = "checking" /\
          \/ Fails(s)
          \/ /\ Talking = {} /\ ~others /\ UNCHANGED failing
             /\ To(s, IF s \in told THEN "closing" ELSE "connecting")
    /\ UNCHANGED <<slot, told, telling, audio, others>>

ConnectDone ==
    /\ \E s \in Sessions : stage[s] = "connecting" /\
          \/ Fails(s)
          \/ To(s, "sending") /\ UNCHANGED failing
    /\ UNCHANGED <<slot, told, telling, audio, others>>

(* The send fails, stalls past its timeout, or goes through; the loop then *)
(* looks at the stop event.                                                *)
SendChunk ==
    /\ \E s \in Talking :
          /\ s \notin told /\ queue[s] # <<>>
          /\ queue' = [queue EXCEPT ![s] = Tail(@)]
          /\ \/ /\ sent' = [sent EXCEPT ![s] = Head(queue[s])]
                /\ UNCHANGED <<stage, failing>>
             \/ Fails(s) /\ UNCHANGED sent
    /\ UNCHANGED <<slot, told, telling, mic, recorded, others>>

(* A mutant: only a chunk wakes the loop, and a muted microphone has none. *)
WokenByChunk(s) == s \in told /\ queue[s] # <<>>

(* The wait for a chunk ends after half a second at the latest.            *)
Noticed(s) == s \in told

StopSeen ==
    /\ \E s \in Talking : Noticed(s) /\ To(s, "closing")
    /\ UNCHANGED <<slot, told, telling, audio, failing, others>>

(* The finally: the stream is closed on a worker thread, then run() ends.  *)
Closed ==
    /\ \E s \in Sessions :
          stage[s] = "closing" /\ mic' = mic \ {s} /\ To(s, "ended")
    /\ UNCHANGED <<slot, told, telling, queue, recorded, sent, failing, others>>

SomebodyElse ==
    /\ others' = ~others
    /\ UNCHANGED <<slot, stage, told, telling, audio, failing>>

Next ==
    \/ TalkOn \/ TalkOff \/ Ended
    \/ StopEvent \/ Opened \/ Record \/ Checked \/ ConnectDone
    \/ SendChunk \/ StopSeen \/ Closed
    \/ SomebodyElse

Spec == Init /\ [][Next]_vars

(* Every await of a session has a timeout; callbacks to GTK are run.       *)
Steps == StopEvent \/ Opened \/ Checked \/ ConnectDone \/ StopSeen \/ Closed \/ Ended
FairSpec == Spec /\ WF_vars(Steps)

TypeOK ==
    /\ active \in BOOLEAN /\ own \in Sessions \cup {None}
    /\ stage \in [Sessions -> Stages]
    /\ told \subseteq Sessions /\ telling \subseteq Sessions
    /\ mic \subseteq Sessions /\ failing \subseteq Sessions
    /\ queue \in [Sessions -> Seq(1 .. MaxChunks)]
    /\ recorded \in [Sessions -> 0 .. MaxChunks]
    /\ sent \in [Sessions -> 0 .. MaxChunks]
    /\ others \in BOOLEAN

(* An open microphone is the slot's, under a lit button, unless its        *)
(* session was told to stop or is on its way out (TalkOff, _on_ptt_ended,  *)
(* run's finally).                                                         *)
MicIsShown ==
    \A s \in mic :
        s \in told \cup telling \/ stage[s] = "closing" \/ (active /\ own = s)

(* The camera hears chunks in order, and never one that MAX_QUEUED_CHUNKS  *)
(* newer ones had been recorded behind (enqueue, the send loop).           *)
SendsRecent ==
    \A s \in Sessions : sent'[s] # sent[s] =>
        sent'[s] > sent[s] /\ recorded[s] - sent'[s] < MaxQueued
SpeechIsRecent == [][SendsRecent]_vars

(* What was told to stop lets go of the microphone (run).                  *)
ToldIsSilent == mic \cap told = {}
MicReleased == []<>ToldIsSilent
=============================================================================
