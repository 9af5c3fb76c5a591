------------------------------ MODULE MCBridge ------------------------------
(* The two halves of a bridge: the life of its pump (BridgePump, as Pump)  *)
(* and what ffmpeg is fed (MuxFeed).  What one does to the other, a stalled*)
(* write or a lost connection, the other has as a choice of its world, so  *)
(* a behaviour is about one of them, and the other waits as it began.      *)
EXTENDS MuxFeed

CONSTANT MaxFails
VARIABLES ofHistory, pump, exc, conn, purpose, gotData, fails, error, stopping, cancelling,
          pending, mux, onPause, recv, overlap, server, about

Pump == INSTANCE BridgePump WITH history <- ofHistory, paused <- onPause

ASSUME PumpAssumption == Pump!MaxFailsAssumption

PumpSpec == Pump!Spec

pumpVars == <<ofHistory, pump, exc, conn, purpose, gotData, fails, error, stopping, cancelling,
              pending, mux, onPause, recv, overlap, server>>

BridgeInit ==
  /\ about \in {"pump", "feed"} /\ Pump!Init /\ Init
  /\ about = "feed" => ~ofHistory /\ ~onPause
  /\ about = "pump" => ~history

OnlyPump == about = "pump" /\ UNCHANGED <<about, vars>>
OnlyFeed == about = "feed" /\ UNCHANGED <<about, pumpVars>>

BridgeNext == \/ OnlyPump /\ Pump!Next
              \/ OnlyFeed /\ Next
bridgeVars == <<about, vars, pumpVars>>

BridgeSpec == BridgeInit /\ [][BridgeNext]_bridgeVars

BridgeFairSpec ==
  /\ BridgeSpec
  /\ WF_bridgeVars(\/ OnlyPump /\ Pump!PumpStep
                   \/ OnlyFeed /\ Prompt)
  /\ WF_bridgeVars(OnlyPump /\ Pump!MuxWatched) /\ WF_bridgeVars(OnlyPump /\ Pump!Stop)

(* A connection that resume() or seek() closed while it was sound is never *)
(* counted as a fast failure, and the excuse is spent on it                *)
(* (_closing_on_purpose).                                                  *)
OwnClosesDoNotCount == Pump!OwnClosesDoNotCount

(* Once _watch_ffmpeg has ended the bridge no attempt is begun.            *)
NoAttemptOnDeadMux == Pump!NoAttemptOnDeadMux

(* A bridge nobody stops ends with a reason, and what wait_closed()        *)
(* reports once the pump is over does not change.                          *)
ReasonStands == Pump!ReasonStands

(* Idle time within a recv() that a pause of History accounts for is never *)
(* taken for a stall (_read_messages).                                     *)
PauseIsNotAStall == Pump!PauseIsNotAStall

(* A muxer that exits and a stop each end the pump, wherever it is.        *)
EndsWhenTold == Pump!EndsWhenTold

(* So does a NAS that has stopped feeding it, gone or accepting in vain,   *)
(* but for a paused History whose connection stays open and for ever new   *)
(* closes by resume() and seek().                                          *)
GoneServerEnds == Pump!GoneServerEnds
=============================================================================
