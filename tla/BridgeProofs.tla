---------------------------- MODULE BridgeProofs ----------------------------
(***************************************************************************)
(* The pump of a bridge (BridgePump, as Pump), for any number of fast      *)
(* failures a bridge is allowed: what ends it has a reason that stands, a  *)
(* dead muxer gets no attempt, closes of our own are not counted and       *)
(* pauses are no stalls.  All four rest on one invariant: a cancelled pump *)
(* is on its way out (CancelReachesPump), its reason there before          *)
(* (ReasonFirst), and the marks of pauses and closes are spent where they  *)
(* were made (PauseNoted, MarkedCloses).                                   *)
(*                                                                         *)
(* What is fed to ffmpeg (MuxFeed), for any sizes and timeouts of which    *)
(* the audio gap's is the shorter: a sound muxer is not given up and only  *)
(* silence ends audio.  The argument is one of time: a blocked write waits *)
(* for audio, which is as old as the camera's silence unless some lies     *)
(* unread (HeldUpOrSilent), so the watchdog is due before the write is     *)
(* (SeenInTime), and the write does not grow old (WritesInTime).           *)
(***************************************************************************)
EXTENDS MCBridge, SequenceTheorems, TLAPS

(***************************************************************************)
(* The pump: connections, reconnects, giving up                            *)
(***************************************************************************)

(* A bridge before start() satisfies the pump's invariant.                 *)
LEMMA InitPump ==
  ASSUME Pump!MaxFailsAssumption PROVE Pump!Init => Pump!IInv
<1>1. Pump!Init => Pump!ValuesOK /\ Pump!CountBelowLimit
    BY DEF Pump!MaxFailsAssumption, Pump!Init, Pump!ValuesOK, Pump!CountBelowLimit,
         Pump!Locations, Pump!Causes, Pump!Errors
<1>2. Pump!Init => Pump!FlagsOK
  <2>1. Pump!Init => recv \in [atStart : BOOLEAN, since : BOOLEAN]
      BY DEF Pump!Init
  <2>. QED
      BY Zenon, <2>1 DEF Pump!Init, Pump!FlagsOK
<1>3. Pump!Init => Pump!MarkedCloses /\ Pump!CancelReachesPump /\ Pump!ReasonFirst /\ Pump!PauseNoted
    BY DEF Pump!Init, Pump!MarkedCloses, Pump!CancelReachesPump, Pump!ReasonFirst,
         Pump!PauseNoted, Pump!Stopping
<1>. QED
    BY <1>1, <1>2, <1>3 DEF Pump!IInv, Pump!TypeOK

(* The flags stay flags: first-order reasoning, a step of its own for each *)
(* action.                                                                 *)
LEMMA StepFlags == Pump!FlagsOK /\ [Pump!Next]_(Pump!vars) => Pump!FlagsOK'
<1>. SUFFICES ASSUME Pump!FlagsOK, [Pump!Next]_(Pump!vars) PROVE Pump!FlagsOK'
    OBVIOUS
<1>. USE DEF Pump!FlagsOK, Pump!NewRecv, Pump!SameRecv, Pump!callers, Pump!task, Pump!EndReading,
     Pump!CloseOnPurpose,
             Pump!HasConnection, Pump!NoteOutcome
<1>1. CASE Pump!Start
    BY Zenon, <1>1 DEF Pump!Start
<1>2. CASE Pump!Connected
    BY Zenon, <1>2 DEF Pump!Connected
<1>3. CASE Pump!Resolved
    BY Zenon, <1>3 DEF Pump!Resolved
<1>4. CASE Pump!Message
    BY Zenon, <1>4 DEF Pump!Message
<1>5. CASE Pump!IdleExcused
    BY Zenon, <1>5 DEF Pump!IdleExcused
<1>6. CASE Pump!IdleStalled
    BY Zenon, <1>6 DEF Pump!IdleStalled
<1>7. CASE Pump!ReadFails
    BY Zenon, <1>7 DEF Pump!ReadFails
<1>8. CASE Pump!KeepaliveGone
    BY Zenon, <1>8 DEF Pump!KeepaliveGone
<1>9. CASE Pump!AttemptFails
    BY Zenon, <1>9 DEF Pump!AttemptFails
<1>10. CASE Pump!CancelMet
    BY Zenon, <1>10 DEF Pump!CancelMet
<1>11. CASE Pump!AttemptOver
    BY Zenon, <1>11 DEF Pump!AttemptOver
<1>12. CASE Pump!NextAttempt
    BY Zenon, <1>12 DEF Pump!NextAttempt
<1>13. CASE Pump!PeerCloses
    BY Zenon, <1>13 DEF Pump!PeerCloses
<1>14. CASE Pump!ServerGone
    BY Zenon, <1>14 DEF Pump!ServerGone
<1>15. CASE Pump!MuxExits
    BY Zenon, <1>15 DEF Pump!MuxExits
<1>16. CASE Pump!MuxWatched
    BY Zenon, <1>16 DEF Pump!MuxWatched
<1>17. CASE Pump!RequestPause
    BY Zenon, <1>17 DEF Pump!RequestPause
<1>18. CASE Pump!Resume
    BY Zenon, <1>18 DEF Pump!Resume
<1>19. CASE Pump!Seek
    BY Zenon, <1>19 DEF Pump!Seek
<1>20. CASE Pump!CloseWriteEnd
    BY Zenon, <1>20 DEF Pump!CloseWriteEnd
<1>21. CASE Pump!Stop
    BY Zenon, <1>21 DEF Pump!Stop
<1>22. CASE UNCHANGED Pump!vars
    BY Zenon, <1>22 DEF Pump!vars
<1>. QED
    BY Zenon, <1>1, <1>2, <1>3, <1>4, <1>5, <1>6, <1>7, <1>8, <1>9, <1>10, <1>11, <1>12,
       <1>13, <1>14, <1>15, <1>16, <1>17, <1>18, <1>19, <1>20, <1>21, <1>22 DEF Pump!Next,
            Pump!PumpStep

(* The count of fast failures stays in its bounds.                         *)
LEMMA StepValues ==
  ASSUME Pump!MaxFailsAssumption PROVE Pump!ValuesOK /\ Pump!CountBelowLimit /\ [Pump!Next]_(Pump!vars) => Pump!ValuesOK' /\ Pump!CountBelowLimit'
<1>. SUFFICES ASSUME Pump!ValuesOK, Pump!CountBelowLimit,
     [Pump!Next]_(Pump!vars) PROVE Pump!ValuesOK' /\ Pump!CountBelowLimit'
    OBVIOUS
<1>. USE DEF Pump!MaxFailsAssumption, Pump!ValuesOK, Pump!CountBelowLimit, Pump!Locations,
     Pump!Causes, Pump!Errors, Pump!At, Pump!callers, Pump!task, Pump!EndReading,
         Pump!CloseOnPurpose, Pump!HasConnection
<1>1. CASE Pump!Start
    BY <1>1 DEF Pump!Start
<1>2. CASE Pump!Connected
    BY <1>2 DEF Pump!Connected
<1>3. CASE Pump!Resolved
    BY <1>3 DEF Pump!Resolved
<1>4. CASE Pump!Message
    BY <1>4 DEF Pump!Message
<1>5. CASE Pump!IdleExcused
    BY <1>5 DEF Pump!IdleExcused
<1>6. CASE Pump!IdleStalled
    BY <1>6 DEF Pump!IdleStalled
<1>7. CASE Pump!ReadFails
    BY <1>7 DEF Pump!ReadFails
<1>8. CASE Pump!KeepaliveGone
    BY <1>8 DEF Pump!KeepaliveGone
<1>9. CASE Pump!AttemptFails
    BY <1>9 DEF Pump!AttemptFails
<1>10. CASE Pump!CancelMet
    BY <1>10 DEF Pump!CancelMet
<1>11. CASE Pump!AttemptOver
  <2>1. CASE exc = "cancelled"
      BY <1>11, <2>1 DEF Pump!AttemptOver
  <2>2. CASE exc # "cancelled" /\ (Pump!Stopping \/ exc = "pipe" \/ Pump!OnPurpose)
      BY <1>11, <2>2 DEF Pump!AttemptOver
  <2>3. CASE exc # "cancelled" /\ ~(Pump!Stopping \/ exc = "pipe" \/ Pump!OnPurpose)
      BY <1>11, <2>3 DEF Pump!AttemptOver, Pump!NoteOutcome, Pump!GivesUp, Pump!Reason
  <2>. QED
      BY <2>1, <2>2, <2>3
<1>12. CASE Pump!NextAttempt
    BY <1>12 DEF Pump!NextAttempt
<1>13. CASE Pump!PeerCloses
    BY <1>13 DEF Pump!PeerCloses
<1>14. CASE Pump!ServerGone
    BY <1>14 DEF Pump!ServerGone
<1>15. CASE Pump!MuxExits
    BY <1>15 DEF Pump!MuxExits
<1>16. CASE Pump!MuxWatched
    BY <1>16 DEF Pump!MuxWatched
<1>17. CASE Pump!RequestPause
    BY <1>17 DEF Pump!RequestPause
<1>18. CASE Pump!Resume
    BY <1>18 DEF Pump!Resume
<1>19. CASE Pump!Seek
    BY <1>19 DEF Pump!Seek
<1>20. CASE Pump!CloseWriteEnd
    BY <1>20 DEF Pump!CloseWriteEnd
<1>21. CASE Pump!Stop
    BY <1>21 DEF Pump!Stop
<1>22. CASE UNCHANGED Pump!vars
    BY <1>22 DEF Pump!vars
<1>. QED
    BY <1>1, <1>2, <1>3, <1>4, <1>5, <1>6, <1>7, <1>8, <1>9, <1>10, <1>11, <1>12,
       <1>13, <1>14, <1>15, <1>16, <1>17, <1>18, <1>19, <1>20, <1>21, <1>22 DEF Pump!Next,
            Pump!PumpStep

(* How the cancellation, its reason, our closes and the pauses hang        *)
(* together.                                                               *)
LEMMA StepParts ==
  ASSUME Pump!MaxFailsAssumption, fails \in Nat, Pump!MarkedCloses, Pump!CancelReachesPump,
           Pump!ReasonFirst, Pump!PauseNoted, [Pump!Next]_(Pump!vars)
  PROVE  Pump!MarkedCloses' /\ Pump!CancelReachesPump' /\ Pump!ReasonFirst' /\ Pump!PauseNoted'
<1>. USE DEF Pump!MaxFailsAssumption, Pump!MarkedCloses, Pump!CancelReachesPump,
     Pump!ReasonFirst, Pump!PauseNoted, Pump!Stopping, Pump!At, Pump!NewRecv,
         Pump!SameRecv, Pump!callers, Pump!task, Pump!EndReading, Pump!CloseOnPurpose,
                  Pump!HasConnection, Pump!OnPurpose
<1>1. CASE Pump!Start
    BY <1>1 DEF Pump!Start
<1>2. CASE Pump!Connected
    BY <1>2 DEF Pump!Connected
<1>3. CASE Pump!Resolved
    BY <1>3 DEF Pump!Resolved
<1>4. CASE Pump!Message
    BY <1>4 DEF Pump!Message
<1>5. CASE Pump!IdleExcused
    BY <1>5 DEF Pump!IdleExcused
<1>6. CASE Pump!IdleStalled
    BY <1>6 DEF Pump!IdleStalled
<1>7. CASE Pump!ReadFails
    BY <1>7 DEF Pump!ReadFails
<1>8. CASE Pump!KeepaliveGone
    BY <1>8 DEF Pump!KeepaliveGone, Pump!CancelRaisedAgain
<1>9. CASE Pump!AttemptFails
    BY <1>9 DEF Pump!AttemptFails
<1>10. CASE Pump!CancelMet
    BY <1>10 DEF Pump!CancelMet
<1>11. CASE Pump!AttemptOver
  <2>1. CASE exc = "cancelled"
      BY <1>11, <2>1 DEF Pump!AttemptOver
  <2>2. CASE exc # "cancelled" /\ (Pump!Stopping \/ exc = "pipe" \/ Pump!OnPurpose)
      BY <1>11, <2>2 DEF Pump!AttemptOver
  <2>3. CASE exc # "cancelled" /\ ~(Pump!Stopping \/ exc = "pipe" \/ Pump!OnPurpose)
      BY <1>11, <2>3 DEF Pump!AttemptOver, Pump!NoteOutcome, Pump!GivesUp, Pump!Reason
  <2>. QED
      BY <2>1, <2>2, <2>3
<1>12. CASE Pump!NextAttempt
    BY <1>12 DEF Pump!NextAttempt
<1>13. CASE Pump!PeerCloses
    BY <1>13 DEF Pump!PeerCloses
<1>14. CASE Pump!ServerGone
    BY <1>14 DEF Pump!ServerGone
<1>15. CASE Pump!MuxExits
    BY <1>15 DEF Pump!MuxExits
<1>16. CASE Pump!MuxWatched
    BY <1>16 DEF Pump!MuxWatched, Pump!NotTheCause
<1>17. CASE Pump!RequestPause
    BY <1>17 DEF Pump!RequestPause
<1>18. CASE Pump!Resume
    BY <1>18 DEF Pump!Resume
<1>19. CASE Pump!Seek
    BY <1>19 DEF Pump!Seek
<1>20. CASE Pump!CloseWriteEnd
    BY <1>20 DEF Pump!CloseWriteEnd
<1>21. CASE Pump!Stop
    BY <1>21 DEF Pump!Stop
<1>22. CASE UNCHANGED Pump!vars
    BY <1>22 DEF Pump!vars
<1>. QED
    BY <1>1, <1>2, <1>3, <1>4, <1>5, <1>6, <1>7, <1>8, <1>9, <1>10, <1>11, <1>12,
       <1>13, <1>14, <1>15, <1>16, <1>17, <1>18, <1>19, <1>20, <1>21, <1>22 DEF Pump!Next,
            Pump!PumpStep

(* Every step of the pump, of the watch on ffmpeg, of the callers and of   *)
(* the server keeps it.                                                    *)
LEMMA StepPump ==
  ASSUME Pump!MaxFailsAssumption PROVE Pump!IInv /\ [Pump!Next]_(Pump!vars) => Pump!IInv'
<1>. SUFFICES ASSUME Pump!IInv, [Pump!Next]_(Pump!vars) PROVE Pump!IInv'
    OBVIOUS
<1>1. fails \in Nat
    BY DEF Pump!MaxFailsAssumption, Pump!IInv, Pump!TypeOK, Pump!ValuesOK
<1>. QED
    BY <1>1, StepFlags, StepValues, StepParts DEF Pump!IInv, Pump!TypeOK

(* The invariant holds throughout a bridge's life.                         *)
THEOREM PumpInductive == PumpSpec => []Pump!IInv
<1>1. Pump!Init => Pump!IInv
    BY InitPump, PumpAssumption
<1>2. Pump!IInv /\ [Pump!Next]_(Pump!vars) => Pump!IInv'
    BY StepPump, PumpAssumption
<1>. QED
    BY <1>1, <1>2, PTL DEF PumpSpec, Pump!Spec

(* The types: the count of fast failures included, which stays below the   *)
(* limit that gives the bridge up.                                         *)
THEOREM PumpTypes == PumpSpec => []Pump!TypeOK
<1>1. Pump!IInv => Pump!TypeOK
    BY DEF Pump!IInv
<1>. QED
    BY <1>1, PumpInductive, PTL

----------------------------------------------------------------------------
(* Only the end of an attempt counts a failure; only Start and NextAttempt *)
(* begin one; the reason is set where an attempt ends or an idle wait does *)
(* or the watch finds ffmpeg gone.                                         *)
LEMMA WhoActs ==
  ASSUME Pump!MaxFailsAssumption, Pump!IInv, [Pump!Next]_(Pump!vars)
  PROVE  /\ fails' > fails => Pump!AttemptOver
         /\ pump' = "connecting" /\ pump # "connecting" => Pump!Start \/ Pump!NextAttempt
         /\ error' # error => Pump!AttemptOver \/ Pump!IdleStalled \/ Pump!MuxWatched
<1>1. fails \in Nat
    BY DEF Pump!MaxFailsAssumption, Pump!IInv, Pump!TypeOK, Pump!ValuesOK
<1>. USE <1>1 DEF Pump!At, Pump!callers, Pump!task, Pump!EndReading
<1>2. CASE Pump!PumpStep
  <2>1. CASE Pump!Start \/ Pump!Connected \/ Pump!Resolved \/ Pump!Message \/ Pump!IdleExcused
      BY <2>1 DEF Pump!Start, Pump!Connected, Pump!Resolved, Pump!Message, Pump!IdleExcused
  <2>2. CASE Pump!IdleStalled \/ Pump!ReadFails \/ Pump!KeepaliveGone
      BY <2>2 DEF Pump!IdleStalled, Pump!ReadFails, Pump!KeepaliveGone
  <2>3. CASE Pump!AttemptFails \/ Pump!CancelMet
      BY <2>3 DEF Pump!AttemptFails, Pump!CancelMet
  <2>4. CASE Pump!AttemptOver
    <3>1. pump' # "connecting"
        BY <2>4 DEF Pump!AttemptOver, Pump!NoteOutcome
    <3>. QED
        BY <2>4, <3>1
  <2>5. CASE Pump!NextAttempt
      BY <2>5 DEF Pump!NextAttempt
  <2>. QED
      BY <1>2, <2>1, <2>2, <2>3, <2>4, <2>5 DEF Pump!PumpStep
<1>3. CASE Pump!PeerCloses \/ Pump!ServerGone \/ Pump!MuxExits \/ Pump!MuxWatched
    BY <1>3 DEF Pump!PeerCloses, Pump!ServerGone, Pump!MuxExits, Pump!MuxWatched
<1>4. CASE Pump!RequestPause \/ Pump!Resume \/ Pump!Seek \/ Pump!CloseWriteEnd \/ Pump!Stop
    BY <1>4 DEF Pump!RequestPause, Pump!Resume, Pump!Seek, Pump!CloseWriteEnd, Pump!Stop
<1>5. CASE UNCHANGED Pump!vars
    BY <1>5 DEF Pump!vars
<1>. QED
    BY <1>2, <1>3, <1>4, <1>5 DEF Pump!Next

(* An attempt that ended on a connection of our own closing is not         *)
(* counted: the mark was there, and is gone with the connection.           *)
THEOREM OwnClosesAreFree == PumpSpec => OwnClosesDoNotCount
<1>1. ASSUME Pump!IInv, Pump!IInv', [Pump!Next]_(Pump!vars)
      PROVE  (fails' > fails => conn # "dropped") /\ (purpose' => conn' # "none")
  <2>1. fails \in Nat
      BY <1>1, PumpAssumption DEF Pump!MaxFailsAssumption, Pump!IInv, Pump!TypeOK,
           Pump!ValuesOK
  <2>2. ASSUME Pump!AttemptOver, conn = "dropped" PROVE ~(fails' > fails)
    <3>1. purpose
        BY <1>1, <2>2 DEF Pump!IInv, Pump!MarkedCloses
    <3>2. fails' = fails
        BY <2>2, <3>1 DEF Pump!AttemptOver, Pump!OnPurpose
    <3>. QED
        BY <2>1, <3>2
  <2>. QED
      BY <1>1, <2>2, WhoActs, PumpAssumption DEF Pump!IInv, Pump!MarkedCloses
<1>. QED
    BY <1>1, PumpInductive, PTL
       DEF PumpSpec, Pump!Spec, OwnClosesDoNotCount, Pump!OwnClosesDoNotCount

(* A pump that the watch has cancelled is never again at its back-off      *)
(* without the cancellation waiting there.                                 *)
THEOREM DeadMuxGetsNoAttempt == PumpSpec => NoAttemptOnDeadMux
<1>1. ASSUME Pump!IInv, [Pump!Next]_(Pump!vars), mux = "watched", cancelling
      PROVE  ~(pump' = "connecting" /\ pump # "connecting")
    BY <1>1, WhoActs, PumpAssumption DEF Pump!IInv, Pump!CancelReachesPump, Pump!Start, Pump!NextAttempt, Pump!At
<1>. QED
    BY <1>1, PumpInductive, PTL
       DEF PumpSpec, Pump!Spec, NoAttemptOnDeadMux, Pump!NoAttemptOnDeadMux

(* Nothing touches the reason once the pump is done, and it is there when  *)
(* a pump nobody stops is done.                                            *)
THEOREM ReasonIsFinal == PumpSpec => ReasonStands
<1>1. ASSUME Pump!IInv, Pump!IInv', [Pump!Next]_(Pump!vars)
      PROVE  /\ pump = "done" => error' = error
             /\ (pump' = "done" /\ ~Pump!Stopping') => error' # "none"
  <2>1. pump = "done" => error' = error
      BY <1>1, WhoActs, PumpAssumption DEF Pump!AttemptOver, Pump!IdleStalled, Pump!MuxWatched, Pump!NotTheCause,
           Pump!At
  <2>2. (pump' = "done" /\ ~Pump!Stopping') => error' # "none"
      BY <1>1 DEF Pump!IInv, Pump!ReasonFirst
  <2>. QED
      BY <2>1, <2>2
<1>. QED
    BY <1>1, PumpInductive, PTL
       DEF PumpSpec, Pump!Spec, ReasonStands, Pump!ReasonStands

(* Any pause within the recv() was noted by it, so the timeout is excused. *)
THEOREM PausesAreExcused == PumpSpec => PauseIsNotAStall
<1>1. ASSUME Pump!IInv, Pump!IdleStalled PROVE ~(ofHistory /\ overlap)
    BY <1>1 DEF Pump!IInv, Pump!PauseNoted, Pump!IdleStalled, Pump!Excused
<1>. QED
    BY <1>1, PumpInductive, PTL
       DEF PumpSpec, Pump!Spec, PauseIsNotAStall, Pump!PauseIsNotAStall

(***************************************************************************)
(* The feed: what reaches ffmpeg                                           *)
(***************************************************************************)

(* What each stamp is compared with.                                       *)
LEMMA LimitFacts ==
  /\ Stamps = {"audio", "real", "video", "write"}
  /\ Limit["audio"] = GapTimeout /\ Limit["real"] = 1
  /\ Limit["video"] = GapTimeout /\ Limit["write"] = WriteTimeout
BY DEF Stamps, Limit

AgesOK(a) == DOMAIN a = Stamps /\ \A s \in Stamps : a[s] \in 0 .. Limit[s]

(* The inbox loses its head or gains a tick's messages.                    *)
LEMMA TailFacts ==
  ASSUME NEW q \in Seq({"V", "A"}), q # <<>>
  PROVE  /\ Tail(q) \in Seq({"V", "A"}) /\ Len(Tail(q)) <= Len(q)
         /\ Head(q) = "V" /\ (\E i \in 1 .. Len(q) : q[i] = "A")
              => \E i \in 1 .. Len(Tail(q)) : Tail(q)[i] = "A"
<1>1. Tail(q) \in Seq({"V", "A"}) /\ Len(Tail(q)) = Len(q) - 1 /\ Len(q) \in Nat \ {0}
      /\ \A j \in 1 .. Len(Tail(q)) : Tail(q)[j] = q[j + 1]
  OBVIOUS
<1>2. ASSUME Head(q) = "V", NEW i \in 1 .. Len(q), q[i] = "A"
      PROVE  \E j \in 1 .. Len(Tail(q)) : Tail(q)[j] = "A"
  <2>1. i # 1
    BY <1>2
  <2>2. i - 1 \in 1 .. Len(Tail(q)) /\ (i - 1) + 1 = i
    BY <1>1, <2>1
  <2> QED BY <1>1, <1>2, <2>2
<1> QED BY <1>1, <1>2

(* What a tick brings: the NALs a camera sends, then its audio, behind     *)
(* what has not been read.                                                 *)
LEMMA ArrivalFacts ==
  ASSUME NEW q \in Seq({"V", "A"}), NEW n \in Nat, NEW a \in BOOLEAN
  PROVE  LET r == q \o NalsThenAudio(n, a)
         IN  /\ r \in Seq({"V", "A"}) /\ Len(r) <= Len(q) + n + 1
             /\ (n = 0 /\ ~a => r = q)
             /\ a \/ (\E i \in 1 .. Len(q) : q[i] = "A") => \E i \in 1 .. Len(r) : r[i] = "A"
<1> DEFINE v == [i \in 1 .. n |-> "V"]
           b == IF a THEN <<"A">> ELSE <<>>
           r == q \o NalsThenAudio(n, a)
<1>1. v \in Seq({"V", "A"}) /\ Len(v) = n
  <2>1. v \in [1 .. n -> {"V", "A"}] /\ DOMAIN v = 1 .. n
    OBVIOUS
  <2> HIDE DEF v
  <2>2. v \in Seq({"V", "A"})
    BY <2>1, SeqDef
  <2>3. Len(v) \in Nat /\ 1 .. Len(v) = 1 .. n
    BY <2>1, <2>2, LenProperties
  <2> QED BY <2>2, <2>3
<1>2. b \in Seq({"V", "A"}) /\ Len(b) = (IF a THEN 1 ELSE 0) /\ (a => b[1] = "A")
  <2>1. CASE a
    <3>1. b = <<"A">>
      BY <2>1
    <3> HIDE DEF b
    <3> QED BY <2>1, <3>1
  <2>2. CASE ~a
    <3>1. b = <<>>
      BY <2>2
    <3> HIDE DEF b
    <3> QED BY <2>2, <3>1
  <2> QED BY <2>1, <2>2
<1>3. NalsThenAudio(n, a) = v \o b
  BY DEF NalsThenAudio
<1> HIDE DEF v, b
<1>4. v \o b \in Seq({"V", "A"}) /\ Len(v \o b) = n + Len(b)
      /\ (a => (v \o b)[n + 1] = "A")
  <2>1. v \o b \in Seq({"V", "A"}) /\ Len(v \o b) = Len(v) + Len(b)
        /\ \A i \in 1 .. Len(v) + Len(b) : (v \o b)[i] = IF i <= Len(v) THEN v[i] ELSE b[i - Len(v)]
    BY <1>1, <1>2, ConcatProperties
  <2> DEFINE c == v \o b
  <2> HIDE DEF c
  <2>2. ASSUME a PROVE c[n + 1] = "A"
    <3>1. n + 1 \in 1 .. Len(v) + Len(b) /\ ~(n + 1 <= Len(v)) /\ (n + 1) - Len(v) = 1
      BY <1>1, <1>2, <2>2
    <3> QED BY <1>2, <2>1, <2>2, <3>1 DEF c
  <2> QED BY <1>1, <2>1, <2>2 DEF c
<1>5. r \in Seq({"V", "A"}) /\ Len(r) = Len(q) + n + Len(b)
      /\ (\A i \in 1 .. Len(q) : r[i] = q[i]) /\ (a => r[Len(q) + n + 1] = "A")
  <2> DEFINE c == v \o b
  <2> HIDE DEF c
  <2>1. r = q \o c /\ c \in Seq({"V", "A"}) /\ Len(c) = n + Len(b) /\ (a => c[n + 1] = "A")
    BY <1>3, <1>4 DEF c
  <2>2. a => n + 1 \in 1 .. Len(c)
    BY <1>2, <2>1
  <2> HIDE DEF r
  <2>3. r \in Seq({"V", "A"}) /\ Len(r) = Len(q) + Len(c)
        /\ \A i \in 1 .. Len(q) : r[i] = q[i]
    BY <2>1
  <2>4. a => r[Len(q) + (n + 1)] = c[n + 1]
    BY <2>1, <2>2
  <2> QED BY <1>2, <2>1, <2>3, <2>4
<1>6. n = 0 /\ ~a => r = q
  <2> SUFFICES ASSUME n = 0, ~a PROVE r = q
    OBVIOUS
  <2>1. v = <<>> /\ b = <<>>
    BY DEF v, b
  <2>2. NalsThenAudio(n, a) = <<>>
    BY <1>3, <2>1
  <2> QED BY <2>2
<1> HIDE DEF r
<1>7. a => \E i \in 1 .. Len(r) : r[i] = "A"
  <2> SUFFICES ASSUME a PROVE Len(q) + n + 1 \in 1 .. Len(r)
    BY <1>5
  <2> QED BY <1>2, <1>5
<1>8. ASSUME NEW i \in 1 .. Len(q), q[i] = "A" PROVE \E j \in 1 .. Len(r) : r[j] = "A"
  <2>1. i \in 1 .. Len(r)
    BY <1>2, <1>5
  <2> QED BY <1>5, <1>8, <2>1
<1> QED BY <1>2, <1>5, <1>6, <1>7, <1>8 DEF r

(* A stamp gets a tick older, up to what it is compared with.              *)
LEMMA OlderFacts ==
  ASSUME NEW limit \in Nat, NEW n \in 0 .. limit
  PROVE  Older(n, limit) \in 0 .. limit /\ Older(n, limit) <= n + 1 /\ Older(n, limit) >= n
         /\ (n < limit => Older(n, limit) = n + 1)
BY DEF Older

(***************************************************************************)
(* Steps                                                                   *)
(***************************************************************************)

(* A session just opened satisfies the feed's invariant.                   *)
LEMMA InitIInv == Init => IInv
<1> SUFFICES ASSUME Init PROVE IInv
  OBVIOUS
<1> USE DEF Init
<1>1. TypeOK
  <2>1. \A s \in Stamps : age[s] = 0 /\ 0 \in 0 .. Limit[s]
    BY LimitFacts, FeedAssumption
  <2>2. age = [s \in Stamps |-> 0]
    OBVIOUS
  <2>3. DOMAIN age = Stamps /\ \A s \in Stamps : age[s] \in 0 .. Limit[s]
    BY <2>1, <2>2
  <2>4. inbox \in Seq({"V", "A"}) /\ Len(inbox) <= Backlog
    BY FeedAssumption
  <2>5. /\ pend \in 0 .. QueueLimit /\ pipe \in 0 .. PipeCap /\ lead \in 0 .. Slack
        /\ mute \in 0 .. GapTimeout
    BY FeedAssumption
  <2>6. /\ history \in BOOLEAN /\ connected \in BOOLEAN /\ paused \in BOOLEAN
        /\ writing \in BOOLEAN /\ audio \in BOOLEAN /\ due \subseteq Checks
        /\ failed \in BOOLEAN /\ wedged \in BOOLEAN /\ restamped \in BOOLEAN
    OBVIOUS
  <2> QED BY <2>3, <2>4, <2>5, <2>6 DEF TypeOK
<1>2. HeldUpOrSilent /\ SeenInTime /\ WritesInTime
  BY LimitFacts, FeedAssumption DEF HeldUpOrSilent, SeenInTime, WritesInTime
<1> QED BY <1>1, <1>2 DEF IInv

(* The reader takes a message: video is queued or waits for room, audio    *)
(* renews its stamp and goes to ffmpeg.                                    *)
LEMMA ReadKeeps ==
  ASSUME IInv, ReadVideo \/ ReadAudio
  PROVE  IInv'
<1> USE LimitFacts, FeedAssumption
<1>1. inbox \in Seq({"V", "A"}) /\ inbox # <<>> /\ inbox' = Tail(inbox) /\ Len(inbox) <= Backlog
  BY DEF IInv, TypeOK, ReadVideo, ReadAudio, CanReadVideo
<1>2. Tail(inbox) \in Seq({"V", "A"}) /\ Len(Tail(inbox)) <= Backlog
  BY <1>1, TailFacts
<1>3. AgesOK(age)
  BY DEF IInv, TypeOK, AgesOK
<1>4. CASE ReadVideo
  <2>1. age' = age \/ age' = [age EXCEPT !["video"] = 0]
    BY <1>4 DEF ReadVideo
  <2>2. AgesOK(age') /\ age'["audio"] = age["audio"] /\ age'["write"] = age["write"]
    BY <1>3, <2>1 DEF AgesOK
  <2>3. pend' \in 0 .. QueueLimit
    BY <1>4 DEF ReadVideo, CanReadVideo, HasRoom, IInv, TypeOK
  <2>4. UNCHANGED <<stream, writing, pipe, lead, audio, due, end, mute, restamped>>
    BY <1>4 DEF ReadVideo
  <2>5. TypeOK'
    BY <1>1, <1>2, <2>2, <2>3, <2>4 DEF IInv, TypeOK, AgesOK, stream, end
  <2>6. HeldUpOrSilent'
    <3>1. Head(inbox) = "V"
      BY <1>4 DEF ReadVideo, CanReadVideo
    <3> QED BY <1>1, <2>2, <2>4, <3>1, TailFacts DEF IInv, HeldUpOrSilent
  <2>7. SeenInTime' /\ WritesInTime'
    BY <2>2, <2>4 DEF IInv, SeenInTime, WritesInTime, Stuck, end
  <2> QED BY <2>5, <2>6, <2>7 DEF IInv
<1>5. CASE ReadAudio
  <2>1. UNCHANGED <<stream, pend, writing, pipe, audio, due, end, mute>>
        /\ restamped' = (restamped \/ (Discarding /\ writing))
        /\ lead' = IF audio /\ ~Discarding THEN 0 ELSE lead
    BY <1>5 DEF ReadAudio
  <2>2. /\ AgesOK(age') /\ age'["write"] = age["write"]
        /\ IF Discarding \/ audio THEN age'["audio"] = 0 ELSE age' = age
    <3>1. CASE Discarding
      <4>1. age' = [age EXCEPT !["audio"] = 0]
        BY <1>5, <3>1 DEF ReadAudio
      <4> QED BY <1>3, <3>1, <4>1 DEF AgesOK
    <3>2. CASE ~Discarding /\ audio
      <4> DEFINE a == [age EXCEPT !["audio"] = 0]
      <4>1. age' = [a EXCEPT !["real"] = 0]
        BY <1>5, <3>2 DEF ReadAudio
      <4>2. AgesOK(a) /\ a["audio"] = 0 /\ a["write"] = age["write"]
        BY <1>3 DEF AgesOK
      <4> HIDE DEF a
      <4> QED BY <3>2, <4>1, <4>2 DEF AgesOK
    <3>3. CASE ~Discarding /\ ~audio
      <4>1. age' = age
        BY <1>5, <3>3 DEF ReadAudio
      <4> QED BY <1>3, <3>3, <4>1
    <3> QED BY <3>1, <3>2, <3>3
  <2>3. TypeOK'
    <3>1. lead' \in 0 .. Slack /\ restamped' \in BOOLEAN
      BY <2>1 DEF IInv, TypeOK
    <3> QED BY <1>1, <1>2, <2>1, <2>2, <3>1 DEF IInv, TypeOK, AgesOK, stream, end
  <2>4. HeldUpOrSilent'
    BY <2>1, <2>2 DEF IInv, TypeOK, HeldUpOrSilent
  <2>5. SeenInTime'
    BY <2>1, <2>2 DEF IInv, TypeOK, SeenInTime, Stuck
  <2>6. WritesInTime'
    BY <2>1, <2>2 DEF IInv, WritesInTime, end
  <2> QED BY <2>3, <2>4, <2>5, <2>6 DEF IInv
<1> QED BY <1>4, <1>5

(* The writer: a new NAL starts its own timeout, a written one ends it.    *)
LEMMA WriteKeeps ==
  ASSUME IInv, WriterTakes \/ WriterWrites \/ WriteStalls
  PROVE  IInv'
<1> USE LimitFacts, FeedAssumption
<1>1. AgesOK(age)
  BY DEF IInv, TypeOK, AgesOK
<1>2. CASE WriterTakes \/ WriterWrites
  <2>1. AgesOK(age') /\ age'["audio"] = age["audio"] /\ age'["write"] = 0
    <3>1. CASE WriterTakes
      <4> DEFINE a == [age EXCEPT !["video"] = 0]
      <4>1. age' = [a EXCEPT !["write"] = 0]
        BY <3>1 DEF WriterTakes
      <4>2. AgesOK(a) /\ a["audio"] = age["audio"]
        BY <1>1 DEF AgesOK
      <4> HIDE DEF a
      <4> QED BY <4>1, <4>2 DEF AgesOK
    <3>2. CASE WriterWrites
      <4>1. age' = [age EXCEPT !["write"] = 0]
        BY <3>2 DEF WriterWrites
      <4> QED BY <1>1, <4>1 DEF AgesOK
    <3> QED BY <1>2, <3>1, <3>2
  <2>2. /\ pend' \in 0 .. QueueLimit /\ pipe' \in 0 .. PipeCap /\ writing' \in BOOLEAN
        /\ UNCHANGED <<stream, inbox, lead, audio, due, end, mute, restamped>>
    <3>1. CASE WriterTakes
      BY <3>1 DEF WriterTakes, Discarding, IInv, TypeOK
    <3>2. CASE WriterWrites
      <4>1. /\ writing' = FALSE /\ pipe' = pipe + 1 /\ pipe < PipeCap
            /\ UNCHANGED <<stream, inbox, pend, lead, audio, due, end, mute, restamped>>
        BY <3>2 DEF WriterWrites
      <4>2. pend \in 0 .. QueueLimit /\ pipe \in 0 .. PipeCap
        BY DEF IInv, TypeOK
      <4>3. pipe' \in 0 .. PipeCap /\ pend' \in 0 .. QueueLimit
        BY <4>1, <4>2
      <4>4. writing' \in BOOLEAN
        BY <4>1
      <4> QED BY <4>1, <4>3, <4>4
    <3> QED BY <1>2, <3>1, <3>2
  <2>3. TypeOK'
    BY <2>1, <2>2 DEF IInv, TypeOK, AgesOK, stream, end
  <2>4. HeldUpOrSilent'
    BY <2>1, <2>2 DEF IInv, HeldUpOrSilent
  <2>5. SeenInTime'
    BY <2>1, <2>2, <2>3 DEF SeenInTime, TypeOK, AgesOK
  <2>6. WritesInTime'
    BY <2>1, <2>2 DEF IInv, WritesInTime, end
  <2> QED BY <2>3, <2>4, <2>5, <2>6 DEF IInv
<1>3. CASE WriteStalls
  <2>1. failed' /\ WriteDue /\ UNCHANGED <<stream, inbox, feed, age, due, wedged, mute, restamped>>
    BY <1>3 DEF WriteStalls
  <2>2. TypeOK' /\ HeldUpOrSilent' /\ SeenInTime'
    BY <2>1 DEF IInv, TypeOK, HeldUpOrSilent, SeenInTime, Stuck, stream, feed
  <2>3. wedged \/ restamped
    <3>1. age["write"] >= WriteTimeout /\ age["write"] \in Nat
      BY <2>1 DEF WriteDue, IInv, TypeOK
    <3> QED BY <3>1 DEF IInv, WritesInTime
  <2> QED BY <2>1, <2>2, <2>3 DEF IInv, WritesInTime
<1> QED BY <1>2, <1>3

(* ffmpeg takes a NAL: the pipe has room again.                            *)
LEMMA MuxKeeps == ASSUME IInv, Mux PROVE IInv'
<1> USE LimitFacts, FeedAssumption DEF Mux, CanMux
<1>1. /\ pipe' = pipe - 1 /\ pipe > 0 /\ lead' = IF audio THEN lead + 1 ELSE 0
      /\ ~audio \/ lead < Slack
      /\ UNCHANGED <<stream, inbox, pend, writing, audio, age, due, end, mute, restamped>>
  OBVIOUS
<1> HIDE DEF Mux, CanMux
<1>2. pipe' \in 0 .. PipeCap /\ pipe' # PipeCap /\ lead' \in 0 .. Slack
  BY <1>1 DEF IInv, TypeOK
<1>3. TypeOK'
  BY <1>1, <1>2 DEF IInv, TypeOK, stream, end
<1>4. HeldUpOrSilent' /\ SeenInTime' /\ WritesInTime'
  BY <1>1, <1>2 DEF IInv, HeldUpOrSilent, SeenInTime, WritesInTime, Stuck, end
<1> QED BY <1>3, <1>4 DEF IInv

(* The checks: the audio of a silent camera is ended, or filled with       *)
(* silence; either frees the video.                                        *)
LEMMA ChecksKeep ==
  ASSUME IInv, WatchAudioGap \/ FillSilence
  PROVE  IInv'
<1> USE LimitFacts, FeedAssumption
<1>1. CASE WatchAudioGap
  <2>1. /\ due' \subseteq due
        /\ \/ audio' = FALSE /\ lead' = 0
           \/ /\ UNCHANGED <<audio, lead>>
              /\ ~(audio /\ age["audio"] >= GapTimeout /\ VideoArriving)
        /\ UNCHANGED <<stream, inbox, pend, writing, pipe, age, end, mute, restamped>>
    BY <1>1 DEF WatchAudioGap
  <2>2. TypeOK'
    <3>1. audio' \in BOOLEAN /\ lead' \in 0 .. Slack
      <4>1. audio \in BOOLEAN /\ lead \in 0 .. Slack
        BY DEF IInv, TypeOK
      <4>2. lead' \in 0 .. Slack
        BY <2>1, <4>1
      <4>3. audio' \in BOOLEAN
        BY <2>1, <4>1
      <4> QED BY <4>2, <4>3
    <3>2. due' \subseteq Checks
      BY <2>1 DEF IInv, TypeOK
    <3> QED BY <2>1, <3>1, <3>2 DEF IInv, TypeOK, stream, end
  <2>3. HeldUpOrSilent' /\ WritesInTime'
    BY <2>1 DEF IInv, HeldUpOrSilent, WritesInTime, end
  <2>4. SeenInTime'
    <3>1. writing /\ audio' => ~(age["audio"] >= GapTimeout)
      BY <2>1 DEF VideoArriving
    <3> QED BY <2>1, <3>1 DEF IInv, SeenInTime, Stuck
  <2> QED BY <2>2, <2>3, <2>4 DEF IInv
<1>2. CASE FillSilence
  <2>1. /\ due' = due \ {"fill"}
        /\ \/ age' = [age EXCEPT !["audio"] = 0] /\ lead' = 0
           \/ UNCHANGED <<age, lead>>
        /\ UNCHANGED <<stream, inbox, pend, writing, pipe, audio, end, mute, restamped>>
    BY <1>2 DEF FillSilence
  <2>2. AgesOK(age)
    BY DEF IInv, TypeOK, AgesOK
  <2>3. /\ AgesOK(age') /\ age'["write"] = age["write"]
        /\ (age'["audio"] = 0 /\ lead' = 0) \/ (age' = age /\ lead' = lead)
    BY <2>1, <2>2 DEF AgesOK
  <2>4. TypeOK'
    BY <2>1, <2>3 DEF IInv, TypeOK, AgesOK, stream, end
  <2>5. HeldUpOrSilent' /\ WritesInTime'
    BY <2>1, <2>3 DEF IInv, TypeOK, HeldUpOrSilent, WritesInTime, end
  <2>6. SeenInTime'
    BY <2>1, <2>3 DEF IInv, TypeOK, SeenInTime, Stuck
  <2> QED BY <2>4, <2>5, <2>6 DEF IInv
<1> QED BY <1>1, <1>2

(* Pauses, outages and a muxer that wedges.                                *)
LEMMA OutsideKeeps ==
  ASSUME IInv, Pause \/ Resume \/ Drop \/ Connect \/ Wedge
  PROVE  IInv'
<1> USE LimitFacts, FeedAssumption
<1>1. CASE Pause \/ Drop \/ Wedge
  <2>1. /\ UNCHANGED <<history, inbox, feed, age, due, failed, mute, restamped>>
        /\ paused' \in BOOLEAN /\ connected' \in BOOLEAN /\ wedged' \in BOOLEAN
        /\ (wedged => wedged')
    BY <1>1 DEF Pause, Drop, Wedge, end, stream, IInv, TypeOK
  <2>2. TypeOK'
    BY <2>1 DEF IInv, TypeOK, feed
  <2>3. HeldUpOrSilent' /\ SeenInTime' /\ WritesInTime'
    BY <2>1 DEF IInv, HeldUpOrSilent, SeenInTime, WritesInTime, Stuck, feed
  <2> QED BY <2>2, <2>3 DEF IInv
<1>2. CASE Resume \/ Connect
  <2>1. /\ UNCHANGED <<history, inbox, feed, due, end>> /\ paused' \in BOOLEAN
        /\ connected' \in BOOLEAN /\ Restamp(FreshStamp)
    BY <1>2 DEF Resume, Connect, AfterOutage, IInv, TypeOK
  <2>2. age' = [age EXCEPT !["audio"] = 0] /\ mute' = 0 /\ restamped' = (restamped \/ writing)
    BY <2>1 DEF Restamp, FreshStamp
  <2>3. AgesOK(age') /\ age'["audio"] = 0 /\ age'["write"] = age["write"]
    <3>1. AgesOK(age)
      BY DEF IInv, TypeOK, AgesOK
    <3> QED BY <2>2, <3>1 DEF AgesOK
  <2>4. TypeOK'
    BY <2>1, <2>2, <2>3 DEF IInv, TypeOK, AgesOK, feed, end
  <2>5. HeldUpOrSilent'
    BY <2>2, <2>3 DEF HeldUpOrSilent
  <2>6. WritesInTime'
    <3>1. ~restamped' => ~restamped
      BY <2>2
    <3> QED BY <2>1, <2>3, <3>1 DEF IInv, WritesInTime, end
  <2>7. SeenInTime'
    <3>1. ~restamped' => ~writing
      BY <2>2
    <3>2. writing' = writing
      BY <2>1 DEF feed
    <3> QED BY <2>3, <3>1, <3>2 DEF SeenInTime
  <2> QED BY <2>4, <2>5, <2>6, <2>7 DEF IInv
<1> QED BY <1>1, <1>2

(* A tick finds a write under way only where ffmpeg waits for audio, and   *)
(* that for less than the gap's timeout: the last check has seen to it.    *)
LEMMA TickKeeps == ASSUME IInv, Tick PROVE IInv'
<1> USE LimitFacts, FeedAssumption
<1>1. PICK n \in 0 .. Burst, a \in BOOLEAN :
       /\ Len(inbox) + n + 1 <= Backlog \/ (n = 0 /\ ~a)
       /\ inbox' = inbox \o NalsThenAudio(n, a)
       /\ mute' = IF a THEN 0 ELSE Older(mute, GapTimeout)
  BY DEF Tick
<1>2. /\ ~failed /\ Quiet /\ due' = Checks /\ UNCHANGED <<stream, feed, end, restamped>>
      /\ age' = [s \in Stamps |-> IF s = "write" /\ ~writing THEN 0 ELSE Older(age[s], Limit[s])]
  BY DEF Tick
<1>3. AgesOK(age) /\ mute \in 0 .. GapTimeout
  BY DEF IInv, TypeOK, AgesOK
<1>4. /\ AgesOK(age') /\ age'["audio"] = Older(age["audio"], GapTimeout)
      /\ age'["write"] = IF ~writing THEN 0 ELSE Older(age["write"], WriteTimeout)
  <2>1. \A s \in Stamps : Limit[s] \in Nat
    OBVIOUS
  <2>2. \A s \in Stamps : age[s] \in 0 .. Limit[s]
    BY <1>3 DEF AgesOK
  <2>3. \A s \in Stamps : Older(age[s], Limit[s]) \in 0 .. Limit[s] /\ 0 \in 0 .. Limit[s]
    <3> SUFFICES ASSUME NEW s \in Stamps
                 PROVE  Older(age[s], Limit[s]) \in 0 .. Limit[s] /\ 0 \in 0 .. Limit[s]
      OBVIOUS
    <3>1. Limit[s] \in Nat /\ age[s] \in 0 .. Limit[s]
      BY <2>1, <2>2
    <3> QED BY <3>1 DEF Older
  <2> QED BY <1>2, <2>3 DEF AgesOK
<1>5. /\ inbox' \in Seq({"V", "A"}) /\ Len(inbox') <= Backlog
      /\ a \/ (\E i \in 1 .. Len(inbox) : inbox[i] = "A") =>
               \E i \in 1 .. Len(inbox') : inbox'[i] = "A"
  <2>1. inbox \in Seq({"V", "A"}) /\ Len(inbox) <= Backlog /\ n \in Nat
    BY DEF IInv, TypeOK
  <2> DEFINE r == inbox \o NalsThenAudio(n, a)
  <2>2. /\ r \in Seq({"V", "A"}) /\ Len(r) <= Len(inbox) + n + 1
        /\ (n = 0 /\ ~a => r = inbox)
        /\ a \/ (\E i \in 1 .. Len(inbox) : inbox[i] = "A") => \E i \in 1 .. Len(r) : r[i] = "A"
    BY <2>1, ArrivalFacts
  <2> HIDE DEF r
  <2>3. inbox' = r /\ Len(r) \in Nat
    BY <1>1, <2>2 DEF r
  <2>4. Len(r) <= Backlog
    BY <1>1, <2>1, <2>2, <2>3
  <2> QED BY <2>2, <2>3, <2>4
<1>6. mute' \in 0 .. GapTimeout /\ (a \/ mute' = Older(mute, GapTimeout))
  BY <1>1, <1>3, OlderFacts
<1>7. TypeOK'
  BY <1>2, <1>4, <1>5, <1>6 DEF IInv, TypeOK, AgesOK, Checks, stream, feed, end
<1>8. HeldUpOrSilent'
  <2> SUFFICES ASSUME audio', ~\E i \in 1 .. Len(inbox') : inbox'[i] = "A"
               PROVE  age'["audio"] <= mute'
    BY DEF HeldUpOrSilent
  <2>1. audio /\ ~a /\ ~\E i \in 1 .. Len(inbox) : inbox[i] = "A"
    BY <1>2, <1>5 DEF feed
  <2>2. age["audio"] <= mute
    BY <2>1 DEF IInv, HeldUpOrSilent
  <2> QED BY <1>3, <1>4, <1>6, <2>1, <2>2 DEF Older, AgesOK
<1>9. writing /\ ~wedged => Stuck
  BY <1>2 DEF Quiet, CanMux, Stuck, IInv, TypeOK
<1>10. writing /\ ~wedged /\ ~restamped => age["write"] < GapTimeout /\ age["write"] <= age["audio"]
  <2> SUFFICES ASSUME writing, ~wedged, ~restamped
               PROVE  age["write"] < GapTimeout /\ age["write"] <= age["audio"]
    OBVIOUS
  <2>1. Stuck /\ age["write"] <= age["audio"]
    BY <1>9 DEF IInv, SeenInTime
  <2>2. due = {}
    BY <1>2 DEF Quiet
  <2>3. ~(age["write"] > 0 /\ age["audio"] >= GapTimeout)
    BY <2>1, <2>2 DEF IInv, SeenInTime, Stuck
  <2> QED BY <1>3, <2>1, <2>3 DEF AgesOK
<1>11. SeenInTime'
  <2>1. "gap" \in due'
    BY <1>2 DEF Checks
  <2> SUFFICES ASSUME writing', Stuck', ~restamped' PROVE age'["write"] <= age'["audio"]
    BY <2>1 DEF SeenInTime
  <2>2. writing /\ Stuck /\ ~restamped
    BY <1>2 DEF Stuck, feed
  <2>3. age["write"] <= age["audio"] /\ ~(age["write"] > 0 /\ age["audio"] >= GapTimeout)
    <3>1. due = {}
      BY <1>2 DEF Quiet
    <3> QED BY <2>2, <3>1 DEF IInv, SeenInTime, Stuck
  <2> QED BY <1>3, <1>4, <2>2, <2>3 DEF Older, AgesOK
<1>12. WritesInTime'
  <2> SUFFICES ASSUME ~wedged, ~restamped PROVE age'["write"] <= GapTimeout /\ ~failed'
    BY <1>2 DEF WritesInTime, end
  <2>1. ~failed'
    BY <1>2 DEF end
  <2>2. age'["write"] <= GapTimeout
    BY <1>3, <1>4, <1>10 DEF Older, AgesOK
  <2> QED BY <2>1, <2>2
<1> QED BY <1>7, <1>8, <1>11, <1>12 DEF IInv

(* Every step of the reader, the writer, the checks, ffmpeg and the clock  *)
(* keeps the invariant.                                                    *)
LEMMA StepIInv == IInv /\ [Next]_vars => IInv'
<1> SUFFICES ASSUME IInv, [Next]_vars PROVE IInv'
  OBVIOUS
<1>1. CASE UNCHANGED vars
  <2>1. UNCHANGED <<stream, inbox, feed, age, due, end, mute, restamped>>
    BY <1>1 DEF vars, stream, feed, end
  <2>2. TypeOK'
    BY <2>1 DEF IInv, TypeOK, stream, feed, end
  <2>3. HeldUpOrSilent' /\ SeenInTime' /\ WritesInTime'
    BY <2>1 DEF IInv, HeldUpOrSilent, SeenInTime, WritesInTime, Stuck, feed, end
  <2> QED BY <2>2, <2>3 DEF IInv
<1>2. CASE ReadVideo \/ ReadAudio
  BY <1>2, ReadKeeps
<1>3. CASE WriterTakes \/ WriterWrites \/ WriteStalls
  BY <1>3, WriteKeeps
<1>4. CASE Mux
  BY <1>4, MuxKeeps
<1>5. CASE WatchAudioGap \/ FillSilence
  BY <1>5, ChecksKeep
<1>6. CASE Pause \/ Resume \/ Drop \/ Connect \/ Wedge
  BY <1>6, OutsideKeeps
<1>7. CASE Tick
  BY <1>7, TickKeeps
<1> QED BY <1>1, <1>2, <1>3, <1>4, <1>5, <1>6, <1>7 DEF Next

(* Through any run of messages, silences, pauses and outages: the audio    *)
(* stamp runs ahead of the camera's silence only while audio lies unread,  *)
(* a check comes before a blocked write times out, and so no write blocks  *)
(* longer than the gap's timeout unless the muxer is wedged or the gap was *)
(* started over.                                                           *)
THEOREM FeedInductive == Spec => []IInv
  BY InitIInv, StepIInv, PTL DEF Spec

(* For any sizes of the queue and the pipe, any slack of ffmpeg's between  *)
(* the streams and any timeouts of which the audio gap's is the shorter: a *)
(* write gives ffmpeg up as stalled only if ffmpeg is wedged or the gap    *)
(* was started over.                                                       *)
THEOREM SoundMuxerIsKept == Spec => []StallMeansWedged
<1>1. IInv => StallMeansWedged
  BY DEF IInv, WritesInTime, StallMeansWedged
<1> QED BY <1>1, FeedInductive, PTL

(* For the same: the audio is ended only for a camera silent for           *)
(* _AUDIO_GAP_TIMEOUT, or while the video queue is full.                   *)
THEOREM OnlySilenceEndsAudio == Spec => EndsOnlySilentAudio
<1>1. IInv /\ [Next]_vars => [audio /\ ~audio' => mute >= GapTimeout \/ pend = QueueLimit]_vars
  <2> SUFFICES ASSUME IInv, Next, audio, ~audio' PROVE mute >= GapTimeout \/ pend = QueueLimit
    OBVIOUS
  <2>1. WatchAudioGap
    BY DEF Next, ReadVideo, ReadAudio, WriterTakes, WriterWrites, WriteStalls, Mux, FillSilence,
       Pause, Resume, Drop, Connect, Wedge, Tick, feed
  <2>2. age["audio"] >= GapTimeout /\ ~CanRead
    BY <2>1 DEF WatchAudioGap
  <2>3. CASE inbox = <<>>
    <3>1. age["audio"] <= mute
      BY <2>3 DEF IInv, HeldUpOrSilent
    <3>2. age["audio"] \in Nat /\ mute \in Nat
      BY LimitFacts, FeedAssumption DEF IInv, TypeOK
    <3> QED BY <2>2, <3>1, <3>2, FeedAssumption
  <2>4. CASE inbox # <<>>
    <3>1. Head(inbox) \in {"V", "A"}
      BY <2>4 DEF IInv, TypeOK
    <3>2. ~HasRoom
      BY <2>2, <2>4, <3>1 DEF CanRead, CanReadVideo
    <3> QED BY <3>2, FeedAssumption DEF HasRoom, IInv, TypeOK
  <2> QED BY <2>3, <2>4
<1> QED BY <1>1, FeedInductive, PTL DEF Spec, EndsOnlySilentAudio

(***************************************************************************)
(* Both                                                                    *)
(***************************************************************************)

(* A behaviour of the bridge as it is model-checked is one of its pump and *)
(* one of what it feeds ffmpeg, so that all of the above holds of it.      *)
THEOREM BridgeIsBoth == BridgeSpec => PumpSpec /\ Spec
<1>1. BridgeInit => Pump!Init /\ Init
    BY DEF BridgeInit
<1>2. [BridgeNext]_bridgeVars => [Pump!Next]_(Pump!vars)
    BY DEF BridgeNext, OnlyPump, OnlyFeed, bridgeVars, pumpVars, Pump!vars
<1>3. [BridgeNext]_bridgeVars => [Next]_vars
    BY DEF BridgeNext, OnlyPump, OnlyFeed, bridgeVars, vars
<1>. QED
    BY <1>1, <1>2, <1>3, PTL DEF BridgeSpec, PumpSpec, Pump!Spec, Spec

=============================================================================
