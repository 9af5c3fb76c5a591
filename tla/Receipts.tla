------------------------------ MODULE Receipts ------------------------------
(***************************************************************************)
(* Receipts of a POS device over the Live View slots that show the camera  *)
(* it is paired with: a poll reads the pairing when it is due, then the    *)
(* transactions, and draws what is new.  One device with one sale, rung up *)
(* line by line; polls may overlap, and slots change under them.           *)
(***************************************************************************)
EXTENDS Naturals, FiniteSets

CONSTANTS Cams, Slots,
          Unread,      \* the pairing was never read (_pos_cameras is None)
          NoCam,       \* no camera: an empty slot, an unpaired device
          MaxText,     \* bound: lines of the sale
          MaxPolls,    \* bound: polls
          MaxMoves     \* bound: moves of the user, changes of the pairing

PairingAssumption == Unread \notin Cams /\ NoCam \notin Cams \cup {Unread}

VARIABLES pairing, text, old,  \* NAS: paired camera, the sale, over 60 s ago
          paired, seen, available, \* window: _pos_cameras, _seen_transactions
          polls, asked,        \* requests out, and how many yet
          active, away,        \* live view: slots on screen, another page shown
          camera, mode,        \* slots: live, history, or leaving History
          due,                 \* slots whose restart on the live stream waits
          receipt,             \* slots: the receipt over the video, or NoReceipt
          moves

nas == <<pairing, text, old>>
reader == <<paired, seen, available>>
screen == <<active, away, camera, mode, due>>
vars == <<nas, reader, polls, asked, screen, receipt, moves>>

NoReceipt == [of |-> NoCam, text |-> 0, over |-> "live"]

Init ==
    /\ pairing = NoCam /\ text = 0 /\ old = FALSE
    /\ paired = Unread /\ seen = 0 /\ available = TRUE
    /\ polls = {} /\ asked = 0
    /\ active = Slots /\ away = FALSE
    /\ camera = [s \in Slots |-> NoCam] /\ mode = [s \in Slots |-> "live"]
    /\ due = {}
    /\ receipt = [s \in Slots |-> NoReceipt]
    /\ moves = 0

ShownSlots == IF away THEN {} ELSE {s \in active : camera[s] # NoCam}
Displayed == {camera[s] : s \in ShownSlots}

(***************************************************************************)
(* The NAS.                                                                *)
(***************************************************************************)
Pair(c) ==
    /\ moves < MaxMoves /\ moves' = moves + 1
    /\ pairing' = c
    /\ UNCHANGED <<text, old, reader, polls, asked, screen, receipt>>
RingUp ==
    /\ text < MaxText /\ ~old /\ text' = text + 1
    /\ UNCHANGED <<pairing, old, reader, polls, asked, screen, receipt, moves>>
GrowOld ==
    /\ text > 0 /\ old' = TRUE
    /\ UNCHANGED <<pairing, text, reader, polls, asked, screen, receipt, moves>>

(***************************************************************************)
(* A poll: the device list if the pairing is unread or five minutes old,   *)
(* then the transactions if a paired camera was on screen when it started. *)
(***************************************************************************)
Poll ==
    \E known \in {paired, Unread} :
        /\ available /\ asked < MaxPolls
        /\ known \in Displayed \cup {Unread}
        /\ asked' = asked + 1
        /\ polls' = polls \cup
               {[id |-> asked', shown |-> Displayed, cameras |-> Unread, text |-> 0,
                 stage |-> IF known = Unread THEN "devices" ELSE "sales"]}
        /\ UNCHANGED <<nas, reader, screen, receipt, moves>>

Moved(p, q) == polls' = (polls \ {p}) \cup {q}

DevicesRead(p) ==
    /\ p.stage = "devices"
    /\ Moved(p, [p EXCEPT !.cameras = pairing,
                          !.stage = IF pairing \in p.shown THEN "sales" ELSE "answered"])
    /\ UNCHANGED <<nas, reader, asked, screen, receipt, moves>>
SalesRead(p) ==
    /\ p.stage = "sales"
    /\ Moved(p, [p EXCEPT !.text = text, !.stage = "answered"])
    /\ UNCHANGED <<nas, reader, asked, screen, receipt, moves>>

(* fresh_receipts: a sale whose text changed, or a new one not over long.  *)
Fresh(p) == p.text \notin {0, seen} /\ (seen > 0 \/ ~old)

(* show_receipt: over live video only, but for one already told to leave.  *)
Show(c, t) ==
    receipt' = [s \in Slots |->
        IF s \in ShownSlots /\ camera[s] = c /\ mode[s] # "history"
        THEN [of |-> c, text |-> t, over |-> mode[s]] ELSE receipt[s]]

Apply(p) ==
    /\ p.stage = "answered" /\ polls' = polls \ {p}
    /\ paired' = IF p.cameras = Unread THEN paired ELSE p.cameras
    /\ seen' = IF p.text = 0 THEN seen ELSE p.text
    /\ IF Fresh(p) /\ paired' \in Cams THEN Show(paired', p.text) ELSE UNCHANGED receipt
    /\ UNCHANGED <<nas, available, asked, screen, moves>>

(* _transactions_error: without the add-on or the privilege it is over.    *)
Fail(p, off) ==
    /\ p.stage # "answered" /\ polls' = polls \ {p}
    /\ available' = (available /\ ~off)
    /\ UNCHANGED <<nas, paired, seen, asked, screen, receipt, moves>>

(* _on_receipt_timeout.                                                    *)
Timeout(s) ==
    /\ receipt[s] # NoReceipt /\ receipt' = [receipt EXCEPT ![s] = NoReceipt]
    /\ UNCHANGED <<nas, reader, polls, asked, screen, moves>>

(***************************************************************************)
(* The slots.                                                              *)
(***************************************************************************)
Move ==
    /\ moves < MaxMoves /\ moves' = moves + 1
    /\ UNCHANGED <<nas, reader, polls, asked>>
(* A mutant: hide_receipt drops the timer and leaves the receipt up.       *)
TimerOnly(S) == S \subseteq Slots /\ UNCHANGED receipt
Hidden(S) == receipt' = [s \in Slots |-> IF s \in S THEN NoReceipt ELSE receipt[s]]

(* _assign_to_slot: the camera leaves the slot it was in.  Recorded video  *)
(* in this slot comes back by a seek of its own.                           *)
Assign(s, c) ==
    /\ s \in active /\ camera[s] # c /\ Move
    /\ LET from == {t \in Slots : camera[t] = c} IN
       /\ camera' = [t \in Slots |-> IF t = s THEN c
                                     ELSE IF t \in from THEN NoCam ELSE camera[t]]
       /\ mode' = [t \in Slots |-> IF t \in {s} \cup from THEN "live" ELSE mode[t]]
       /\ Hidden({s} \cup from)
    /\ UNCHANGED <<active, away, due>>
Clear(s) ==
    /\ camera[s] # NoCam /\ Move
    /\ camera' = [camera EXCEPT ![s] = NoCam] /\ mode' = [mode EXCEPT ![s] = "live"]
    /\ Hidden({s})
    /\ UNCHANGED <<active, away, due>>

(* A recording was found: a new History bridge takes the receipt down, one *)
(* still playing is told to seek and nothing else.                         *)
Seek(s) ==
    /\ s \in ShownSlots /\ Move
    /\ mode' = [mode EXCEPT ![s] = "history"]
    /\ IF mode[s] = "live" THEN Hidden({s}) ELSE UNCHANGED receipt
    /\ UNCHANGED <<active, away, camera, due>>

Playing == {s \in active : mode[s] = "history"}
Left == [s \in Slots |-> IF s \in Playing THEN "leaving" ELSE mode[s]]
GoLive ==
    /\ ~away /\ Move /\ mode' = Left /\ due' = due \cup Playing
    /\ UNCHANGED <<active, away, camera, receipt>>
(* _run_staggered: the slot's turn comes, a seek since then or not.        *)
Restart(s) ==
    /\ s \in due /\ due' = due \ {s}
    /\ mode' = [mode EXCEPT ![s] = "live"]
    /\ UNCHANGED <<nas, reader, polls, asked, active, away, camera, receipt, moves>>

SwitchLayout(A) ==
    /\ A # active /\ Move /\ active' = A /\ due' = due \cup Playing
    /\ mode' = [s \in Slots |-> IF s \in A THEN Left[s] ELSE "live"]
    /\ UNCHANGED <<away, camera, receipt>>

(* pause_streams and resume_streams: what comes back is live.              *)
LeavePage ==
    /\ ~away /\ Move /\ away' = TRUE
    /\ UNCHANGED <<active, camera, mode, due, receipt>>
ReturnToPage ==
    /\ away /\ Move /\ away' = FALSE
    /\ mode' = [s \in Slots |-> "live"]
    /\ UNCHANGED <<active, camera, due, receipt>>

SlotMoves ==
    \/ \E s \in Slots, c \in Cams : Assign(s, c)
    \/ \E s \in Slots : Clear(s) \/ Seek(s) \/ Restart(s) \/ Timeout(s)
    \/ GoLive \/ LeavePage \/ ReturnToPage
    \/ \E A \in SUBSET Slots \ {{}} : SwitchLayout(A)

Next ==
    \/ RingUp \/ GrowOld \/ Poll
    \/ \E c \in Cams \cup {NoCam} : Pair(c)
    \/ \E p \in polls :
           \/ DevicesRead(p) \/ SalesRead(p) \/ Apply(p)
           \/ \E off \in BOOLEAN : Fail(p, off)
    \/ SlotMoves

Spec == Init /\ [][Next]_vars

(* A receipt lies over the camera it belongs to (CameraSlot.assign, clear, *)
(* LiveView.show_transaction): a poll asked before a slot changed does not *)
(* draw over the new camera, nor does a receipt stay when it changes.      *)
ReceiptOfCamera == \A s \in Slots : receipt[s].of = camera[s] \/ receipt[s] = NoReceipt

(* No live receipt lies over recorded video (set_history_mode,             *)
(* show_receipt), but for one drawn while the slot was leaving History.    *)
NotOverRecording ==
    \A s \in Slots : mode[s] = "history" /\ receipt[s] # NoReceipt
                         => receipt[s].over = "leaving"

(* "A live receipt over recorded video would be misleading"                *)
(* (CameraSlot.set_history_mode): fails when one drawn while the slot was  *)
(* leaving meets a seek, which finds the old bridge and hides nothing.     *)
NeverOverRecording == \A s \in Slots : mode[s] = "history" => receipt[s] = NoReceipt
=============================================================================
