----------------------- MODULE HistoryPlaybackProofs -----------------------
(***************************************************************************)
(* What a History bridge and DSM agree on, for any number of recordings,   *)
(* seeks, commands and drops. IInv is inductive: the types, step by step;  *)
(* then the wire, one lemma per thing that can happen to it (nothing is    *)
(* sent, a command is, the play is, DSM takes one, the connection ends);   *)
(* then who may replace the recording.                                     *)
(***************************************************************************)
EXTENDS HistoryPlayback, TLAPS

LEMMA Bounds ==
  /\ 0 \in Places /\ NoPlace \in Nat /\ NoPlace \notin Places /\ FirstRec \in Recs
  /\ \A p \in Places : p < MaxSeeks => p + 1 \in Places
BY PlaybackAssumption DEF Places, NoPlace

LEMMA Targets == PlacesOK => Target \in Places
BY DEF PlacesOK, Target

(* What sending does to the counter and the wire.                          *)
LEMMA Sending ==
  ASSUME PlacesOK, NEW kind \in Kinds, NEW to, SendCommand(kind, to)
  PROVE  /\ stamp' \in {stamp, stamp + 1}
         /\ ws = "open" => stamp' = stamp + 1 /\ wire' = Append(wire, Message(kind, to, stamp'))
         /\ ws # "open" => wire' = wire
BY DEF PlacesOK, SendCommand, NextStamp

LEMMA StepFlags == FlagsOK /\ [Next]_vars => FlagsOK'
<1>. SUFFICES ASSUME FlagsOK, [Next]_vars PROVE FlagsOK'
    OBVIOUS
<1>. USE DEF FlagsOK, modes
<1>2. CASE RequestPause
    BY Zenon, <1>2 DEF RequestPause
<1>3. CASE Resume
    BY Zenon, <1>3 DEF Resume
<1>4. CASE SetMode
    BY Zenon, <1>4 DEF SetMode
<1>5. CASE \E r \in Recs : Seek(r)
    BY Zenon, <1>5 DEF Seek
<1>6. CASE Pause
    BY Zenon, <1>6 DEF Pause
<1>7. CASE SeekMs
    BY Zenon, <1>7 DEF SeekMs
<1>8. CASE Connect
    BY Zenon, <1>8 DEF Connect
<1>9. CASE LookupDone
    BY Zenon, <1>9 DEF LookupDone
<1>10. CASE LookupFails
    BY Zenon, <1>10 DEF LookupFails
<1>11. CASE ReadFrame
    BY Zenon, <1>11 DEF ReadFrame
<1>12. CASE ConnectionOver
    BY Zenon, <1>12 DEF ConnectionOver
<1>13. CASE TailAsks
    BY Zenon, <1>13 DEF TailAsks
<1>14. CASE TailAnswers
    BY Zenon, <1>14 DEF TailAnswers
<1>15. CASE DsmTakes
    BY Zenon, <1>15 DEF DsmTakes
<1>16. CASE DsmSends
    BY Zenon, <1>16 DEF DsmSends
<1>17. CASE Drop
    BY Zenon, <1>17 DEF Drop
<1>18. CASE UNCHANGED vars
    BY Zenon, <1>18 DEF vars
<1>. QED
    BY Zenon, <1>2, <1>3, <1>4, <1>5, <1>6, <1>7, <1>8, <1>9, <1>10,
       <1>11, <1>12, <1>13, <1>14, <1>15, <1>16, <1>17, <1>18 DEF Next

LEMMA StepLink == LinkOK /\ [Next]_vars => LinkOK'
<1>. SUFFICES ASSUME LinkOK, [Next]_vars PROVE LinkOK'
    OBVIOUS
<1>. USE DEF LinkOK, link, SendUpdate, SendSeekMs, SendCommand, NextStamp, SendPlay, FirstStamp
<1>2. CASE RequestPause \/ Resume \/ SetMode \/ Pause
    BY <1>2 DEF RequestPause, Resume, SetMode, Pause
<1>3. CASE \E r \in Recs : Seek(r)
    BY <1>3 DEF Seek
<1>4. CASE SeekMs \/ LookupFails \/ ReadFrame \/ ConnectionOver
    BY <1>4 DEF SeekMs, LookupFails, ReadFrame, ConnectionOver
<1>5. CASE Connect
    BY <1>5 DEF Connect
<1>6. CASE LookupDone
    BY <1>6 DEF LookupDone
<1>7. CASE TailAsks \/ TailAnswers \/ DsmTakes \/ DsmSends \/ Drop
    BY <1>7 DEF TailAsks, TailAnswers, DsmTakes, DsmSends, Drop
<1>8. CASE UNCHANGED vars
    BY <1>8 DEF vars
<1>. QED
    BY <1>2, <1>3, <1>4, <1>5, <1>6, <1>7, <1>8 DEF Next

LEMMA StepPlaces == PlacesOK /\ ExternalOK /\ [Next]_vars => PlacesOK'
<1>. SUFFICES ASSUME PlacesOK, ExternalOK, [Next]_vars PROVE PlacesOK'
    OBVIOUS
<1>. USE Bounds, Targets DEF PlacesOK, place, lookups, external
<1>2. CASE RequestPause \/ Resume \/ SetMode \/ Pause
    BY <1>2 DEF RequestPause, Resume, SetMode, Pause
<1>3. CASE \E r \in Recs : Seek(r)
    BY <1>3 DEF Seek
<1>4. CASE SeekMs \/ LookupFails \/ ReadFrame \/ ConnectionOver
  <2>1. CASE SeekMs \/ LookupFails
      BY <2>1 DEF SeekMs, LookupFails
  <2>2. CASE ReadFrame
      BY <2>2 DEF ReadFrame
  <2>3. CASE ConnectionOver
      BY <2>3 DEF ConnectionOver
  <2>. QED
      BY <1>4, <2>1, <2>2, <2>3
<1>5. CASE Connect
    BY <1>5 DEF Connect
<1>6. CASE LookupDone
    BY <1>6 DEF LookupDone
<1>7. CASE TailAsks \/ TailAnswers \/ DsmTakes \/ DsmSends \/ Drop
  <2>1. CASE TailAsks \/ DsmTakes \/ Drop
      BY <2>1 DEF TailAsks, DsmTakes, Drop
  <2>2. CASE TailAnswers
    <3>1. tail.rec \in Recs /\ tail.seeks \in Places
        BY DEF ExternalOK
    <3>. QED
        BY <2>2, <3>1 DEF TailAnswers
  <2>3. CASE DsmSends
    <3>1. dsm.at \in Places
        BY DEF ExternalOK
    <3>. QED
        BY <2>3, <3>1 DEF DsmSends
  <2>. QED
      BY <1>7, <2>1, <2>2, <2>3
<1>8. CASE UNCHANGED vars
    BY <1>8 DEF vars
<1>. QED
    BY <1>2, <1>3, <1>4, <1>5, <1>6, <1>7, <1>8 DEF Next

LEMMA StepBounds == BoundsOK /\ PlacesOK /\ [Next]_vars => BoundsOK'
<1>. SUFFICES ASSUME BoundsOK, PlacesOK, [Next]_vars PROVE BoundsOK'
    OBVIOUS
<1>. USE PlaybackAssumption DEF BoundsOK, PlacesOK, external, NewCommand
<1>2. CASE RequestPause \/ Resume \/ SetMode \/ Pause
    BY <1>2 DEF RequestPause, Resume, SetMode, Pause
<1>3. CASE \E r \in Recs : Seek(r)
    BY <1>3 DEF Seek
<1>4. CASE SeekMs \/ LookupFails \/ ReadFrame \/ ConnectionOver
    BY <1>4 DEF SeekMs, LookupFails, ReadFrame, ConnectionOver
<1>5. CASE Connect
    BY <1>5 DEF Connect
<1>6. CASE LookupDone
    BY <1>6 DEF LookupDone
<1>7. CASE TailAsks \/ TailAnswers \/ DsmTakes \/ DsmSends \/ Drop
    BY <1>7 DEF TailAsks, TailAnswers, DsmTakes, DsmSends, Drop
<1>8. CASE UNCHANGED vars
    BY <1>8 DEF vars
<1>. QED
    BY <1>2, <1>3, <1>4, <1>5, <1>6, <1>7, <1>8 DEF Next
----------------------------------------------------------------------------
(* The wire.                                                               *)

LEMMA Appended ==
  ASSUME NEW S, NEW q \in Seq(S), NEW m \in S, NEW r, r = Append(q, m), NEW z, z = Len(q) + 1
  PROVE  /\ r \in Seq(S) /\ r # <<>> /\ Len(q) \in Nat /\ Len(r) = z
         /\ DOMAIN q = 1 .. Len(q) /\ DOMAIN r = 1 .. z
         /\ \A i \in DOMAIN q : r[i] = q[i]
         /\ r[z] = m
OBVIOUS

LEMMA EmptyIsNone ==
  ASSUME NEW S, NEW q \in Seq(S)
  PROVE  q = <<>> <=> Len(q) = 0
OBVIOUS

LEMMA Popped ==
  ASSUME NEW S, NEW q \in Seq(S), q # <<>>, NEW r, r = Tail(q)
  PROVE  /\ r \in Seq(S) /\ Len(q) \in Nat /\ Len(r) = Len(q) - 1
         /\ DOMAIN q = 1 .. Len(q) /\ DOMAIN r = 1 .. Len(q) - 1
         /\ 1 \in DOMAIN q /\ Head(q) = q[1] /\ q[1] \in S
         /\ r = <<>> <=> Len(q) = 1
         /\ \A i \in DOMAIN r : i + 1 \in DOMAIN q /\ r[i] = q[i + 1]
<1>1. /\ r \in Seq(S) /\ Len(q) \in Nat /\ Len(r) = Len(q) - 1
      /\ DOMAIN q = 1 .. Len(q) /\ DOMAIN r = 1 .. Len(q) - 1
    OBVIOUS
<1>2. 1 \in DOMAIN q /\ Head(q) = q[1] /\ q[1] \in S
    OBVIOUS
<1>3. \A i \in DOMAIN r : i + 1 \in DOMAIN q /\ r[i] = q[i + 1]
    OBVIOUS
<1>4. r = <<>> <=> Len(q) = 1
  <2>1. r = <<>> <=> Len(r) = 0
      BY Zenon, <1>1, EmptyIsNone
  <2>2. Len(r) = 0 <=> Len(q) = 1
      BY <1>1
  <2>. QED
      BY Zenon, <2>1, <2>2
<1>. QED
    BY <1>1, <1>2, <1>3, <1>4

LEMMA MessageTyped ==
  ASSUME PlacesOK', FlagsOK', NEW kind \in Kinds, NEW to \in Places, NEW n \in Nat,
         NEW m, m = Message(kind, to, n)
  PROVE  /\ m \in Cmd /\ m.kind = kind /\ m.rec = rec' /\ m.stamp = n
         /\ m.paused = paused' /\ m.reverse = reverse'
<1>1. m \in Cmd
    BY DEF Message, Cmd, PlacesOK, FlagsOK
<1>2. m.kind = kind /\ m.rec = rec' /\ m.stamp = n /\ m.paused = paused' /\ m.reverse = reverse'
    BY DEF Message
<1>. QED
    BY <1>1, <1>2

LEMMA CmdFields ==
  ASSUME NEW m \in Cmd
  PROVE  m.kind \in Kinds /\ m.rec \in Recs /\ m.stamp \in Nat /\ m.at \in Places
         /\ m.paused \in BOOLEAN /\ m.reverse \in BOOLEAN
BY DEF Cmd

WireOK == LinkHeld /\ CountIsSent /\ ModesAreSent

(* A connection that is not open promises nothing more.                    *)
LEMMA NotOpen ==
  ASSUME ws' # "open"
  PROVE  WireOK'
BY DEF WireOK, LinkHeld, CountIsSent, ModesAreSent

LEMMA NothingSent ==
  ASSUME WireOK, UNCHANGED <<wire, dsm, ws, pump, stamp, rec>>,
         \A m : Current(m) => Current(m)'
  PROVE  WireOK'
<1>1. LinkHeld' /\ CountIsSent'
    BY DEF WireOK, LinkHeld, CountIsSent, Played, LastSent
<1>2. ModesAreSent'
    BY DEF WireOK, ModesAreSent
<1>. QED
    BY <1>1, <1>2 DEF WireOK

LEMMA CommandSent ==
  ASSUME WireOK, wire \in Seq(Cmd), stamp \in Nat, ws = "open", UNCHANGED <<dsm, ws, pump, rec>>,
         pump \in {"down", "lookup", "reading"},
         NEW m \in Cmd, m.kind \in {"update", "seekMs"}, m.stamp = stamp + 1, stamp' = stamp + 1,
         wire' = Append(wire, m),
         \/ m.kind = "update" /\ Current(m)'
         \/ m.kind = "seekMs" /\ \A x : Current(x) => Current(x)'
  PROVE  WireOK'
<1>. PICK z : z = Len(wire) + 1
    OBVIOUS
<1>1. /\ wire' \in Seq(Cmd) /\ wire' # <<>> /\ Len(wire) \in Nat /\ Len(wire') = z
      /\ DOMAIN wire = 1 .. Len(wire) /\ DOMAIN wire' = 1 .. z
      /\ \A i \in DOMAIN wire : wire'[i] = wire[i]
      /\ wire'[z] = m
    BY Appended
<1>2. z \in DOMAIN wire' /\ m.kind # "play"
      /\ \A i \in DOMAIN wire' : i # z => i \in DOMAIN wire /\ i < z
    BY <1>1
<1>3. \A i \in DOMAIN wire : i \in DOMAIN wire' /\ i < z
    BY <1>1
<1>4. \A i \in DOMAIN wire : Played(i)' <=> Played(i)
    BY <1>1, <1>2, <1>3 DEF Played
<1>5. Played(Len(wire)) => Played(z)'
    BY <1>1, <1>2, <1>3 DEF Played
<1>6. LinkHeld' /\ pump # "down"
    BY <1>1, <1>2 DEF WireOK, LinkHeld
<1>7. LastSent' = m.stamp
    BY <1>1 DEF LastSent
<1>8. CountIsSent'
    BY <1>1, <1>5, <1>7 DEF WireOK, CountIsSent
<1>9. ModesAreSent'
  <2>. SUFFICES ASSUME pump = "reading" PROVE ModesAreSent'
      BY DEF ModesAreSent
  <2>1. (dsm.on => dsm.rec = rec) /\ \A i \in DOMAIN wire : wire[i].kind = "play" => wire[i].rec = rec
      BY DEF WireOK, ModesAreSent
  <2>2. CASE m.kind = "update" /\ Current(m)'
      BY <1>1, <1>2, <2>1, <2>2 DEF ModesAreSent
  <2>3. CASE m.kind = "seekMs" /\ \A x : Current(x) => Current(x)'
    <3>1. ASSUME NEW i \in DOMAIN wire', wire'[i].kind # "seekMs",
                 \A k \in DOMAIN wire' : k > i => wire'[k].kind = "seekMs"
          PROVE  Current(wire[i])' /\ wire'[i] = wire[i]
      <4>1. i \in DOMAIN wire /\ wire'[i] = wire[i]
          BY <1>1, <1>2, <2>3, <3>1
      <4>2. \A k \in DOMAIN wire : k > i => wire[k].kind = "seekMs"
          BY <1>1, <1>3, <3>1
      <4>3. Current(wire[i])
          BY <3>1, <4>1, <4>2 DEF WireOK, ModesAreSent
      <4>4. (wire[i])' = wire[i]
          BY <4>1
      <4>. QED
          BY <2>3, <4>1, <4>3, <4>4 DEF Current
    <3>2. ASSUME \A i \in DOMAIN wire' : wire'[i].kind = "seekMs" PROVE Current(dsm)'
      <4>1. Current(dsm)
          BY <1>1, <1>3, <3>2 DEF WireOK, ModesAreSent
      <4>. QED
          BY <2>3, <4>1 DEF Current
    <3>3. \A i \in DOMAIN wire' : wire'[i].kind = "play" => wire'[i].rec = rec'
        BY <1>1, <1>2, <2>1
    <3>. QED
        BY <2>1, <3>1, <3>2, <3>3 DEF ModesAreSent
  <2>. QED
      BY <2>2, <2>3
<1>. QED
    BY <1>6, <1>8, <1>9 DEF WireOK


(* The play that opens a connection, after whatever its lookup let by.     *)
LEMMA PlaySent ==
  ASSUME WireOK, wire \in Seq(Cmd), ws = "open", pump = "lookup", UNCHANGED <<dsm, ws>>,
         pump' = "reading", stamp' = 1,
         NEW m \in Cmd, m.kind = "play", m.stamp = 1, m.rec = rec', Current(m)',
         wire' = Append(wire, m)
  PROVE  WireOK'
<1>. PICK z : z = Len(wire) + 1
    OBVIOUS
<1>1. /\ wire' \in Seq(Cmd) /\ wire' # <<>> /\ Len(wire) \in Nat /\ Len(wire') = z
      /\ DOMAIN wire = 1 .. Len(wire) /\ DOMAIN wire' = 1 .. z
      /\ \A i \in DOMAIN wire : wire'[i] = wire[i]
      /\ wire'[z] = m
    BY Appended
<1>2. z \in DOMAIN wire' /\ \A i \in DOMAIN wire' : i # z => i \in DOMAIN wire /\ i < z
    BY <1>1
<1>3. ~dsm.on /\ \A i \in DOMAIN wire' : wire'[i].kind = "play" => i = z
    BY <1>1, <1>2 DEF WireOK, LinkHeld
<1>4. Played(z)' /\ LastSent' = 1
    BY <1>1, <1>2 DEF Played, LastSent
<1>5. LinkHeld'
    BY <1>1, <1>2, <1>3 DEF WireOK, LinkHeld
<1>6. CountIsSent'
    BY <1>1, <1>4 DEF CountIsSent
<1>7. ModesAreSent'
  <2>1. ASSUME NEW i \in DOMAIN wire', \A k \in DOMAIN wire' : k > i => wire'[k].kind = "seekMs"
        PROVE  i = z
      BY <1>1, <1>2, <2>1
  <2>. QED
      BY <1>1, <1>2, <1>3, <2>1 DEF ModesAreSent
<1>. QED
    BY <1>5, <1>6, <1>7 DEF WireOK

LEMMA PlayFirst ==
  ASSUME dsm' = Off, ws' = "open", pump' = "reading", stamp' = 1,
         NEW m \in Cmd, m.kind = "play", m.stamp = 1, m.rec = rec', Current(m)', wire' = <<m>>
  PROVE  WireOK'
<1>1. wire' # <<>> /\ Len(wire') = 1 /\ DOMAIN wire' = {1} /\ wire'[1] = m /\ dsm'.on = FALSE
    BY DEF Off
<1>2. Played(1)' /\ LastSent' = 1
    BY <1>1 DEF Played, LastSent
<1>. QED
    BY <1>1, <1>2 DEF WireOK, LinkHeld, CountIsSent, ModesAreSent

(* DSM takes the oldest command: before the play it has nothing to apply   *)
(* it to.                                                                  *)
LEMMA Taken ==
  ASSUME WireOK, wire \in Seq(Cmd), ExternalOK, DsmTakes
  PROVE  WireOK'
<1>. DEFINE m == wire[1]
<1>1. /\ wire' \in Seq(Cmd) /\ Len(wire) \in Nat /\ Len(wire') = Len(wire) - 1
      /\ DOMAIN wire = 1 .. Len(wire) /\ DOMAIN wire' = 1 .. Len(wire) - 1
      /\ 1 \in DOMAIN wire /\ Head(wire) = m /\ m \in Cmd
      /\ wire' = <<>> <=> Len(wire) = 1
      /\ \A i \in DOMAIN wire' : i + 1 \in DOMAIN wire /\ wire'[i] = wire[i + 1]
    BY Popped DEF DsmTakes
<1>2. UNCHANGED <<rec, paused, frozen, reverse, pausing, stamp, ws, pump>>
    BY DEF DsmTakes, place, modes, link
<1>3. /\ m.kind = "play" => /\ dsm'.on /\ dsm'.stamp = m.stamp /\ dsm'.rec = m.rec
                            /\ dsm'.paused = m.paused /\ dsm'.reverse = m.reverse
      /\ m.kind = "update" /\ dsm.on => /\ dsm'.on /\ dsm'.stamp = m.stamp /\ dsm'.rec = dsm.rec
                                        /\ dsm'.paused = m.paused /\ dsm'.reverse = m.reverse
      /\ m.kind = "seekMs" /\ dsm.on => /\ dsm'.on /\ dsm'.stamp = m.stamp /\ dsm'.rec = dsm.rec
                                /\ dsm'.paused = dsm.paused /\ dsm'.reverse = dsm.reverse
      /\ m.kind # "play" /\ ~dsm.on => ~dsm'.on
      /\ dsm'.stamp = m.stamp
  <2>1. dsm' = CASE m.kind = "play" ->
                     [on |-> TRUE, rec |-> m.rec, paused |-> m.paused, reverse |-> m.reverse,
                      at |-> m.at, stamp |-> m.stamp]
                [] m.kind = "update" /\ dsm.on ->
                     [dsm EXCEPT !.paused = m.paused, !.reverse = m.reverse, !.stamp = m.stamp]
                [] m.kind = "seekMs" /\ dsm.on ->
                     [dsm EXCEPT !.at = m.at, !.stamp = m.stamp]
                [] OTHER -> [dsm EXCEPT !.stamp = m.stamp]
      BY <1>1 DEF DsmTakes
  <2>. HIDE DEF m
  <2>2. CASE m.kind = "play"
      BY <2>1, <2>2
  <2>3. CASE m.kind = "update" /\ dsm.on
      BY <2>1, <2>3 DEF ExternalOK
  <2>4. CASE m.kind = "seekMs" /\ dsm.on
      BY <2>1, <2>4 DEF ExternalOK
  <2>5. CASE m.kind # "play" /\ ~dsm.on
      BY <2>1, <2>5 DEF ExternalOK
  <2>6. m.kind \in {"play", "update", "seekMs"}
      BY <1>1, CmdFields DEF Kinds, m
  <2>. QED
      BY <2>2, <2>3, <2>4, <2>5, <2>6
<1>4. m.kind \in {"play", "update", "seekMs"}
    BY <1>1, CmdFields DEF Kinds
<1>5. dsm'.on <=> dsm.on \/ m.kind = "play"
    BY <1>3, <1>4
<1>6. \A k \in DOMAIN wire : k # 1 => k - 1 \in DOMAIN wire' /\ wire'[k - 1] = wire[k]
    BY <1>1
<1>. HIDE DEF m
<1>7. \A i \in DOMAIN wire : i # 1 /\ Played(i) => Played(i - 1)'
  <2>. SUFFICES ASSUME NEW i \in DOMAIN wire, i # 1, Played(i) PROVE Played(i - 1)'
      OBVIOUS
  <2>1. CASE dsm.on
      BY <1>5, <2>1 DEF Played
  <2>2. CASE ~dsm.on
    <3>1. PICK k \in DOMAIN wire : k <= i /\ wire[k].kind = "play"
        BY <2>2 DEF Played
    <3>2. CASE k = 1
        BY <1>5, <3>1, <3>2 DEF Played, m
    <3>3. CASE k # 1
      <4>1. k - 1 \in DOMAIN wire' /\ wire'[k - 1].kind = "play" /\ k - 1 <= i - 1
          BY <1>1, <1>6, <3>1, <3>3
      <4>. QED
          BY <4>1 DEF Played
    <3>. QED
        BY <3>2, <3>3
  <2>. QED
      BY <2>1, <2>2
<1>8. LinkHeld'
    BY <1>1, <1>2, <1>3, <1>5 DEF WireOK, LinkHeld, m
<1>9. LastSent' = LastSent
  <2>. PICK l : l = Len(wire) - 1
      OBVIOUS
  <2>1. wire # <<>> /\ LastSent = wire[Len(wire)].stamp
      BY DEF DsmTakes, LastSent
  <2>2. CASE Len(wire) = 1
    <3>1. wire' = <<>> /\ wire[Len(wire)].stamp = m.stamp
        BY <1>1, <2>2 DEF m
    <3>. QED
        BY <1>3, <2>1, <3>1 DEF LastSent
  <2>3. CASE Len(wire) # 1
    <3>1. wire' # <<>> /\ Len(wire') = l /\ wire'[l] = wire[Len(wire)]
        BY <1>1, <2>3
    <3>. QED
        BY <2>1, <3>1 DEF LastSent
  <2>. QED
      BY <2>2, <2>3
<1>10. CountIsSent'
  <2>. PICK l : l = Len(wire) - 1
      OBVIOUS
  <2>1. Len(wire') = l
      BY <1>1
  <2>2. ASSUME pump = "reading", ws = "open" PROVE Played(l)'
    <3>1. Played(Len(wire))
        BY <2>2 DEF WireOK, CountIsSent
    <3>2. CASE Len(wire) = 1
        BY <1>1, <1>5, <3>1, <3>2 DEF Played, m
    <3>3. CASE Len(wire) # 1
        BY <1>1, <1>7, <3>1, <3>3
    <3>. QED
        BY <3>2, <3>3
  <2>. QED
      BY <1>2, <1>9, <2>1, <2>2 DEF WireOK, CountIsSent
<1>11. ModesAreSent'
  <2>. SUFFICES ASSUME pump = "reading", ws = "open" PROVE ModesAreSent'
      BY <1>2 DEF ModesAreSent
  <2>1. Played(Len(wire)) /\ ModesAreSent
      BY DEF WireOK, CountIsSent
  <2>2. dsm'.on => dsm'.rec = rec
      BY <1>1, <1>3, <1>4, <1>5, <2>1 DEF ModesAreSent, m
  <2>3. \A i \in DOMAIN wire' : wire'[i].kind = "play" => wire'[i].rec = rec
      BY <1>1, <2>1 DEF ModesAreSent
  <2>4. ASSUME NEW i \in DOMAIN wire', wire'[i].kind # "seekMs",
               \A k \in DOMAIN wire' : k > i => wire'[k].kind = "seekMs"
        PROVE  Current(wire'[i])
    <3>1. i + 1 \in DOMAIN wire /\ wire[i + 1] = wire'[i]
        BY <1>1
    <3>2. ASSUME NEW k \in DOMAIN wire, k > i + 1 PROVE wire[k].kind = "seekMs"
      <4>1. k # 1 /\ k - 1 > i
          BY <1>1, <3>2
      <4>. QED
          BY <1>6, <2>4, <3>2, <4>1
    <3>. QED
        BY <2>1, <2>4, <3>1, <3>2 DEF ModesAreSent
  <2>5. ASSUME \A i \in DOMAIN wire' : wire'[i].kind = "seekMs"
        PROVE  dsm'.reverse = reverse /\ (frozen # NoPlace \/ ~pausing => dsm'.paused = paused)
    <3>1. \A k \in DOMAIN wire : k # 1 => wire[k].kind = "seekMs"
        BY <1>6, <2>5
    <3>2. CASE m.kind = "seekMs"
      <4>1. \A k \in DOMAIN wire : wire[k].kind = "seekMs"
          BY <3>1, <3>2 DEF m
      <4>2. Current(dsm)
          BY <2>1, <4>1 DEF ModesAreSent
      <4>3. dsm.on
          BY <2>1, <4>1 DEF Played
      <4>. QED
          BY <1>3, <3>2, <4>2, <4>3 DEF Current
    <3>3. CASE m.kind # "seekMs"
      <4>1. Current(m)
        <5>1. \A k \in DOMAIN wire : k > 1 => wire[k].kind = "seekMs"
            BY <1>1, <3>1
        <5>. QED
            BY <1>1, <2>1, <3>3, <5>1 DEF ModesAreSent, m
      <4>2. m.kind = "update" => dsm.on
        <5>1. m.kind = "update" => \A k \in DOMAIN wire : wire[k].kind # "play"
            BY <3>1 DEF m
        <5>. QED
            BY <2>1, <5>1 DEF Played
      <4>. QED
          BY <1>3, <1>4, <3>3, <4>1, <4>2 DEF Current
    <3>. QED
        BY <3>2, <3>3
  <2>. QED
      BY <1>2, <2>2, <2>3, <2>4, <2>5 DEF ModesAreSent, Current
<1>. QED
    BY <1>8, <1>10, <1>11 DEF WireOK

LEMMA Ended ==
  ASSUME dsm' = Off, wire' = <<>>, ws' # "open"
  PROVE  WireOK'
BY DEF WireOK, LinkHeld, CountIsSent, ModesAreSent, Played, Off

LEMMA TargetsNext == PlacesOK' => Target' \in Places
BY DEF PlacesOK, Target, Places

LEMMA SendTyped ==
  ASSUME PlacesOK, PlacesOK', FlagsOK', LinkOK', wire \in Seq(Cmd),
         NEW kind \in Kinds, NEW to \in Places, SendCommand(kind, to)
  PROVE  wire' \in Seq(Cmd)
<1>. PICK m : m = Message(kind, to, stamp')
    OBVIOUS
<1>1. m \in Cmd
    BY MessageTyped DEF LinkOK
<1>2. wire' = wire \/ wire' = Append(wire, m)
    BY DEF SendCommand
<1>. QED
    BY <1>1, <1>2

(* A command of any of the three transport kinds, sent or refused.         *)
LEMMA Command ==
  ASSUME WireOK, TypeOK, PlacesOK', FlagsOK', LinkOK', UNCHANGED <<dsm, ws, pump, rec>>,
         NEW kind \in {"update", "seekMs"}, NEW to \in Places, SendCommand(kind, to),
         kind = "seekMs" => \A x : Current(x) => Current(x)'
  PROVE  WireOK'
<1>1. CASE ws = "open"
  <2>. PICK m : m = Message(kind, to, stamp')
      OBVIOUS
  <2>1. kind \in Kinds
      BY DEF Kinds
  <2>2. stamp' = stamp + 1 /\ wire' = Append(wire, m)
      BY <1>1, <2>1, Sending DEF TypeOK
  <2>3. /\ m \in Cmd /\ m.kind = kind /\ m.rec = rec' /\ m.stamp = stamp'
        /\ m.paused = paused' /\ m.reverse = reverse'
      BY <2>1, MessageTyped DEF LinkOK
  <2>4. Current(m)'
      BY <2>3 DEF Current
  <2>5. wire \in Seq(Cmd) /\ stamp \in Nat /\ pump \in {"down", "lookup", "reading"}
      BY DEF TypeOK, ExternalOK, LinkOK
  <2>. QED
      BY <1>1, <2>2, <2>3, <2>4, <2>5, CommandSent
<1>2. CASE ws # "open"
  <2>1. wire' = wire
      BY <1>2 DEF SendCommand
  <2>. QED
      BY <1>2, <2>1, NotOpen DEF WireOK
<1>. QED
    BY <1>1, <1>2

LEMMA StepWire ==
  ASSUME WireOK, TypeOK, TailIsCurrent, FrozenIsPaused, PlacesOK', FlagsOK', LinkOK', [Next]_vars
  PROVE  WireOK'
<1>1. CASE RequestPause
  <2>1. \A x : Current(x) => Current(x)'
      BY <1>1 DEF RequestPause, Current, FrozenIsPaused, place, TypeOK, FlagsOK
  <2>. QED
      BY <1>1, <2>1, NothingSent DEF RequestPause, place, external, link
<1>2. CASE Pause
  <2>1. CASE AlreadyPaused
    <3>1. \A x : Current(x) => Current(x)'
        BY <1>2, <2>1 DEF Pause, AlreadyPaused, Current, FrozenIsPaused, TypeOK, FlagsOK
    <3>. QED
        BY <1>2, <2>1, <3>1, NothingSent DEF Pause, link
  <2>2. CASE ~AlreadyPaused
      BY <1>2, <2>2, Command, TargetsNext DEF Pause, SendUpdate, link
  <2>. QED
      BY <2>1, <2>2
<1>3. CASE Resume
  <2>1. CASE frozen = NoPlace
    <3>1. \A x : Current(x) => Current(x)'
        BY <1>3, <2>1 DEF Resume, Current, FrozenIsPaused
    <3>. QED
        BY <1>3, <2>1, <3>1, NothingSent DEF Resume, link
  <2>2. CASE frozen # NoPlace
      BY <1>3, <2>2, Command, TargetsNext DEF Resume, SendUpdate, link
  <2>. QED
      BY <2>1, <2>2
<1>4. CASE SetMode
    BY <1>4, Command, TargetsNext DEF SetMode, SendUpdate, link
<1>5. ASSUME NEW r \in Recs, Seek(r) PROVE WireOK'
  <2>1. CASE r = rec /\ paused
      BY <1>5, <2>1, Command, TargetsNext DEF Seek, SendUpdate
  <2>2. CASE r = rec /\ ~paused
    <3>1. paused' = paused
        BY <1>5, <2>2 DEF Seek, TypeOK, FlagsOK
    <3>2. \A x : Current(x) => Current(x)'
        BY <1>5, <2>2, <3>1 DEF Seek, Current, FrozenIsPaused
    <3>3. seeks + 1 \in Places
        BY <1>5, Bounds DEF Seek, TypeOK, PlacesOK
    <3>. QED
        BY <1>5, <2>2, <3>2, <3>3, Command DEF Seek, SendSeekMs
  <2>3. CASE r # rec
      BY <1>5, <2>3, NotOpen DEF Seek, WireOK
  <2>. QED
      BY <2>1, <2>2, <2>3
<1>6. CASE SeekMs
  <2>1. half \in Places
      BY <1>6 DEF SeekMs, TypeOK, PlacesOK
  <2>2. \A x : Current(x) => Current(x)'
      BY <1>6 DEF SeekMs, Current, place, modes
  <2>. QED
      BY <1>6, <2>1, <2>2, Command DEF SeekMs, SendSeekMs, link, place
<1>7. CASE Connect
  <2>1. CASE pump' = "lookup"
      BY <1>7, <2>1 DEF Connect, WireOK, LinkHeld, CountIsSent, ModesAreSent, Off, LastSent
  <2>2. CASE pump' = "reading"
    <3>. PICK m : m = Message("play", Target', stamp')
        OBVIOUS
    <3>1. stamp' = 1 /\ wire' = <<m>> /\ dsm' = Off /\ ws' = "open"
        BY <1>7, <2>2 DEF Connect, FirstStamp
    <3>2. /\ m \in Cmd /\ m.kind = "play" /\ m.rec = rec' /\ m.stamp = 1
          /\ m.paused = paused' /\ m.reverse = reverse'
        BY <3>1, TargetsNext, MessageTyped DEF Kinds
    <3>. QED
        BY <2>2, <3>1, <3>2, PlayFirst DEF Current
  <2>. QED
      BY <1>7, <2>1, <2>2 DEF Connect
<1>8. CASE LookupDone
  <2>1. CASE ws = "open"
    <3>. PICK m : m = Message("play", Target', stamp')
        OBVIOUS
    <3>1. /\ stamp' = 1 /\ wire' = Append(wire, m) /\ pump = "lookup" /\ pump' = "reading"
          /\ UNCHANGED <<dsm, ws>>
        BY <1>8, <2>1 DEF LookupDone, SendPlay, FirstStamp
    <3>2. /\ m \in Cmd /\ m.kind = "play" /\ m.rec = rec' /\ m.stamp = 1
          /\ m.paused = paused' /\ m.reverse = reverse'
        BY <3>1, TargetsNext, MessageTyped DEF Kinds
    <3>3. Current(m)' /\ wire \in Seq(Cmd)
        BY <3>2 DEF Current, TypeOK, ExternalOK
    <3>. QED
        BY <2>1, <3>1, <3>2, <3>3, PlaySent
  <2>2. CASE ws # "open"
      BY <1>8, <2>2, NotOpen DEF LookupDone, SendPlay, WireOK
  <2>. QED
      BY <2>1, <2>2
<1>9. CASE LookupFails
    BY <1>9, NotOpen DEF LookupFails, WireOK, external
<1>10. CASE ReadFrame \/ TailAsks \/ DsmSends
  <2>1. \A x : Current(x) => Current(x)'
      BY <1>10 DEF ReadFrame, TailAsks, DsmSends, Current, place, modes
  <2>. QED
      BY <1>10, <2>1, NothingSent DEF ReadFrame, TailAsks, DsmSends, place, external, link
<1>11. CASE ConnectionOver
    BY <1>11, Ended DEF ConnectionOver
<1>12. CASE TailAnswers
  <2>1. rec' = rec
      BY <1>12 DEF TailAnswers, StillThatOne, TailIsCurrent
  <2>2. \A x : Current(x) => Current(x)'
      BY <1>12 DEF TailAnswers, Current, modes
  <2>. QED
      BY <1>12, <2>1, <2>2, NothingSent DEF TailAnswers, external, link
<1>13. CASE DsmTakes
    BY <1>13, Taken DEF TypeOK, ExternalOK
<1>14. CASE Drop
    BY <1>14, Ended DEF Drop
<1>15. CASE UNCHANGED vars
  <2>1. \A x : Current(x) => Current(x)'
      BY <1>15 DEF vars, Current, place, modes
  <2>. QED
      BY <1>15, <2>1, NothingSent DEF vars, external, link, place
<1>. QED
    BY <1>1, <1>2, <1>3, <1>4, <1>5, <1>6, <1>7, <1>8, <1>9, <1>10, <1>11, <1>12, <1>13,
       <1>14, <1>15 DEF Next

----------------------------------------------------------------------------
(* What is outside the bridge.                                             *)

LEMMA StepTail ==
  ASSUME PlacesOK, PlacesOK', ExternalOK, [Next]_vars
  PROVE  tail' \in [out : BOOLEAN, same : BOOLEAN, rec : Recs, seeks : Places]
<1>. DEFINE Tails == [out : BOOLEAN, same : BOOLEAN, rec : Recs, seeks : Places]
<1>1. tail \in Tails /\ NoTail \in Tails /\ Replaced(tail) \in Tails
    BY Bounds DEF ExternalOK, NoTail, Replaced
<1>2. CASE TailAsks
    BY <1>2 DEF TailAsks, PlacesOK
<1>3. CASE TailAnswers
    BY <1>1, <1>3 DEF TailAnswers
<1>4. tail' = tail \/ tail' = Replaced(tail) \/ TailAsks \/ TailAnswers
    BY DEF Next, RequestPause, Resume, SetMode, Seek, Pause, SeekMs, Connect, LookupDone,
       LookupFails, ReadFrame, ConnectionOver, DsmTakes, DsmSends, Drop, vars, lookups
<1>. QED
    BY <1>1, <1>2, <1>3, <1>4

LEMMA StepSent ==
  ASSUME TypeOK, PlacesOK', FlagsOK', LinkOK', [Next]_vars
  PROVE  wire' \in Seq(Cmd)
<1>1. wire \in Seq(Cmd) /\ PlacesOK /\ "update" \in Kinds /\ "seekMs" \in Kinds /\ "play" \in Kinds
    BY DEF TypeOK, ExternalOK, Kinds
<1>2. Target' \in Places
    BY TargetsNext
<1>3. CASE RequestPause \/ LookupFails \/ ReadFrame \/ TailAsks \/ TailAnswers \/ DsmSends
    BY <1>1, <1>3 DEF RequestPause, LookupFails, ReadFrame, TailAsks, TailAnswers, DsmSends, external
<1>4. CASE Pause \/ Resume \/ SetMode
    BY <1>1, <1>2, <1>4, SendTyped DEF Pause, Resume, SetMode, SendUpdate
<1>5. ASSUME NEW r \in Recs, Seek(r) PROVE wire' \in Seq(Cmd)
  <2>1. seeks + 1 \in Places
      BY <1>1, <1>5, Bounds DEF Seek, PlacesOK
  <2>. QED
      BY <1>1, <1>2, <1>5, <2>1, SendTyped DEF Seek, SendUpdate, SendSeekMs
<1>6. CASE SeekMs
  <2>1. half \in Places
      BY <1>1, <1>6 DEF SeekMs, PlacesOK
  <2>. QED
      BY <1>1, <1>6, <2>1, SendTyped DEF SeekMs, SendSeekMs
<1>7. CASE Connect \/ LookupDone
  <2>. PICK m : m = Message("play", Target', stamp')
      OBVIOUS
  <2>1. m \in Cmd
      BY <1>1, <1>2, MessageTyped DEF LinkOK
  <2>2. wire' = <<>> \/ wire' = <<m>> \/ wire' = wire \/ wire' = Append(wire, m)
      BY <1>7 DEF Connect, LookupDone, SendPlay
  <2>3. <<>> \in Seq(Cmd) /\ <<m>> \in Seq(Cmd) /\ Append(wire, m) \in Seq(Cmd)
      BY <1>1, <2>1
  <2>. QED
      BY Zenon, <1>1, <2>2, <2>3
<1>8. CASE ConnectionOver \/ Drop
  <2>1. <<>> \in Seq(Cmd)
      OBVIOUS
  <2>. QED
      BY Zenon, <1>8, <2>1 DEF ConnectionOver, Drop
<1>9. CASE DsmTakes
    BY <1>1, <1>9 DEF DsmTakes
<1>10. CASE UNCHANGED vars
    BY <1>1, <1>10 DEF vars, external
<1>. QED
    BY <1>3, <1>4, <1>5, <1>6, <1>7, <1>8, <1>9, <1>10 DEF Next

LEMMA StepDsm ==
  ASSUME TypeOK, [Next]_vars
  PROVE  dsm' \in [on : BOOLEAN, rec : Recs, paused : BOOLEAN, reverse : BOOLEAN, at : Places,
                   stamp : Nat]
<1>. DEFINE Playing == [on : BOOLEAN, rec : Recs, paused : BOOLEAN, reverse : BOOLEAN,
                        at : Places, stamp : Nat]
<1>1. dsm \in Playing /\ wire \in Seq(Cmd)
    BY DEF TypeOK, ExternalOK
<1>2. Off \in Playing
    BY Bounds DEF Off
<1>3. CASE DsmTakes
  <2>. PICK m : m = Head(wire)
      OBVIOUS
  <2>1. m \in Cmd
      BY <1>1, <1>3 DEF DsmTakes
  <2>2. /\ m.rec \in Recs /\ m.stamp \in Nat /\ m.at \in Places
        /\ m.paused \in BOOLEAN /\ m.reverse \in BOOLEAN
      BY <2>1, CmdFields
  <2>3. \/ dsm' = [on |-> TRUE, rec |-> m.rec, paused |-> m.paused, reverse |-> m.reverse,
                   at |-> m.at, stamp |-> m.stamp]
        \/ dsm' = [dsm EXCEPT !.paused = m.paused, !.reverse = m.reverse, !.stamp = m.stamp]
        \/ dsm' = [dsm EXCEPT !.at = m.at, !.stamp = m.stamp]
        \/ dsm' = [dsm EXCEPT !.stamp = m.stamp]
      BY <1>3 DEF DsmTakes
  <2>4. /\ [on |-> TRUE, rec |-> m.rec, paused |-> m.paused, reverse |-> m.reverse,
            at |-> m.at, stamp |-> m.stamp] \in Playing
        /\ [dsm EXCEPT !.at = m.at, !.stamp = m.stamp] \in Playing
        /\ [dsm EXCEPT !.stamp = m.stamp] \in Playing
      BY <1>1, <2>2
  <2>5. [dsm EXCEPT !.paused = m.paused, !.reverse = m.reverse, !.stamp = m.stamp] \in Playing
      BY <1>1, <2>2
  <2>. HIDE DEF Playing
  <2>6. dsm' \in Playing
      BY Zenon, <1>1, <2>3, <2>4, <2>5
  <2>. QED
      BY Zenon, <2>6 DEF Playing
<1>4. dsm' = dsm \/ dsm' = Off \/ DsmTakes
    BY DEF Next, RequestPause, Resume, SetMode, Seek, Pause, SeekMs, Connect, LookupDone,
       LookupFails, ReadFrame, ConnectionOver, TailAsks, TailAnswers, DsmSends, Drop, vars, external
<1>. QED
    BY <1>1, <1>2, <1>3, <1>4

LEMMA StepTypes == TypeOK /\ [Next]_vars => TypeOK'
<1>. SUFFICES ASSUME TypeOK, [Next]_vars PROVE TypeOK'
    OBVIOUS
<1>1. PlacesOK' /\ FlagsOK' /\ LinkOK' /\ BoundsOK'
    BY StepPlaces, StepFlags, StepLink, StepBounds DEF TypeOK
<1>2. ExternalOK'
    BY <1>1, StepTail, StepSent, StepDsm DEF TypeOK, ExternalOK
<1>. QED
    BY <1>1, <1>2 DEF TypeOK
----------------------------------------------------------------------------
(* Who may replace the recording.                                          *)

Chosen == RecordingIsForLastSeek /\ TailIsCurrent /\ FrozenIsPaused

LEMMA StepChosen == TypeOK /\ Chosen /\ [Next]_vars => Chosen'
<1>. SUFFICES ASSUME TypeOK, Chosen, [Next]_vars PROVE Chosen'
    OBVIOUS
<1>. USE DEF Chosen, RecordingIsForLastSeek, TailIsCurrent, FrozenIsPaused, place, modes, lookups
<1>1. CASE RequestPause \/ Resume \/ SetMode
    BY <1>1 DEF RequestPause, Resume, SetMode
<1>2. CASE Pause
  <2>1. Target # NoPlace
      BY Targets, Bounds DEF TypeOK
  <2>. QED
      BY <1>2, <2>1 DEF Pause
<1>3. ASSUME NEW r \in Recs, Seek(r) PROVE Chosen'
  <2>1. Replaced(tail).same = FALSE
      BY DEF TypeOK, ExternalOK, Replaced
  <2>. QED
      BY <1>3, <2>1 DEF Seek
<1>4. CASE SeekMs \/ Connect \/ LookupFails \/ ReadFrame \/ ConnectionOver
    BY <1>4 DEF SeekMs, Connect, LookupFails, ReadFrame, ConnectionOver
<1>5. CASE LookupDone
  <2>1. Replaced(tail).same = FALSE
      BY DEF TypeOK, ExternalOK, Replaced
  <2>. QED
      BY <1>5, <2>1 DEF LookupDone, AnswerCurrent
<1>6. CASE TailAsks
    BY <1>6 DEF TailAsks
<1>7. CASE TailAnswers
    BY <1>7 DEF TailAnswers, StillThatOne, NoTail
<1>8. CASE DsmTakes \/ DsmSends \/ Drop
    BY <1>8 DEF DsmTakes, DsmSends, Drop
<1>9. CASE UNCHANGED vars
    BY <1>9 DEF vars
<1>. QED
    BY <1>1, <1>2, <1>3, <1>4, <1>5, <1>6, <1>7, <1>8, <1>9 DEF Next
----------------------------------------------------------------------------
LEMMA InitInvariant == Init => IInv
<1>. SUFFICES ASSUME Init PROVE IInv
    OBVIOUS
<1>. USE DEF Init
<1>1. PlacesOK /\ LinkOK
    BY Bounds DEF PlacesOK, LinkOK
<1>2. FlagsOK
    BY Zenon DEF FlagsOK
<1>3. BoundsOK
    BY PlaybackAssumption DEF BoundsOK
<1>4. ExternalOK
    BY Bounds DEF ExternalOK, NoTail, Off
<1>5. RecordingIsForLastSeek /\ TailIsCurrent /\ FrozenIsPaused
    BY DEF RecordingIsForLastSeek, TailIsCurrent, FrozenIsPaused, NoTail
<1>6. LinkHeld /\ CountIsSent /\ ModesAreSent
    BY DEF LinkHeld, CountIsSent, ModesAreSent
<1>. QED
    BY <1>1, <1>2, <1>3, <1>4, <1>5, <1>6 DEF IInv, TypeOK

LEMMA StepInvariant == IInv /\ [Next]_vars => IInv'
<1>. SUFFICES ASSUME IInv, [Next]_vars PROVE IInv'
    OBVIOUS
<1>1. TypeOK'
    BY StepTypes DEF IInv
<1>2. Chosen'
    BY StepChosen DEF IInv, Chosen
<1>3. WireOK'
    BY <1>1, StepWire DEF IInv, WireOK, TypeOK
<1>. QED
    BY <1>1, <1>2, <1>3 DEF IInv, Chosen, WireOK

(* The inductive invariant: what a bridge believes, what it has put on its *)
(* connection, and what DSM has taken of it, in every reachable state.     *)
THEOREM PlaybackInductive == Spec => []IInv
BY InitInvariant, StepInvariant, PTL DEF Spec

(* Every variable has its type: a position is a seek's, the frozen one and *)
(* the last frame's may be missing, and the queues hold what was sent.     *)
THEOREM PlaybackTypes == Spec => []TypeOK
<1>1. IInv => TypeOK
    BY DEF IInv
<1>. QED
    BY <1>1, PlaybackInductive, PTL

(* Neither lookup replaces the recording a later seek chose: _pump checks  *)
(* _seek_count after its await, the tail watch checks the recording's id.  *)
THEOREM LastSeekChooses == Spec => []RecordingIsForLastSeek
<1>1. IInv => RecordingIsForLastSeek
    BY DEF IInv
<1>. QED
    BY <1>1, PlaybackInductive, PTL

(* With nothing on its way DSM plays the bridge's recording, paused and    *)
(* reversed as the bridge says, however commands, drops and lookups were   *)
(* ordered: the last word on each reached it on this connection.           *)
THEOREM DsmFollows == Spec => []DsmAgrees
<1>1. IInv => DsmAgrees
  <2>. SUFFICES ASSUME IInv, pump = "reading", ws = "open", Idle PROVE dsm.on /\ InStep
      BY DEF DsmAgrees
  <2>1. wire = <<>> /\ ~pausing
      BY DEF Idle
  <2>2. DOMAIN wire = {}
      BY <2>1
  <2>3. dsm.on
      BY <2>2 DEF IInv, CountIsSent, Played
  <2>4. dsm.rec = rec /\ Current(dsm)
      BY <2>2, <2>3 DEF IInv, ModesAreSent
  <2>. QED
      BY <2>1, <2>3, <2>4 DEF InStep, Current
<1>. QED
    BY <1>1, PlaybackInductive, PTL

(* On every connection the play carries the stamp 1 and each later command *)
(* one more than the one before it, whichever coroutine sends it; so does  *)
(* what goes ahead of play, but for the first command, sent during the     *)
(* lookup (the module's docstring has no such exception: StampsInOrder).   *)
THEOREM StampsCountUp == Spec => CountsFromPlay
<1>1. IInv /\ [Next]_vars =>
        [Len(wire') > Len(wire) =>
           IF Sent.kind = "play" THEN Sent.stamp = 1
           ELSE Sent.stamp = LastSent + 1 \/ (LastSent = 0 /\ pump = "lookup")]_vars
  <2>. SUFFICES ASSUME IInv, Next, Len(wire') > Len(wire), IInv'
                PROVE  IF Sent.kind = "play" THEN Sent.stamp = 1
                       ELSE Sent.stamp = LastSent + 1 \/ (LastSent = 0 /\ pump = "lookup")
      BY StepInvariant
  <2>1. wire \in Seq(Cmd) /\ wire' \in Seq(Cmd) /\ stamp \in Nat
        /\ pump \in {"down", "lookup", "reading"}
      BY DEF IInv, TypeOK, ExternalOK, LinkOK
  <2>2. ASSUME NEW kind \in {"update", "seekMs"}, NEW to, SendCommand(kind, to)
        PROVE  /\ Sent.kind # "play"
               /\ Sent.stamp = LastSent + 1 \/ (LastSent = 0 /\ pump = "lookup")
    <3>. PICK m : m = Message(kind, to, stamp')
        OBVIOUS
    <3>1. ws = "open" /\ stamp' = stamp + 1 /\ wire' = Append(wire, m)
        BY <2>2 DEF SendCommand, NextStamp
    <3>2. Sent = m
        BY <2>1, <3>1 DEF Sent
    <3>3. m.stamp = stamp + 1 /\ m.kind # "play"
        BY <2>2, <3>1 DEF Message
    <3>4. pump # "down" /\ (pump = "reading" \/ LastSent # 0 => stamp = LastSent)
        BY <3>1 DEF IInv, LinkHeld, CountIsSent
    <3>. QED
        BY <2>1, <3>2, <3>3, <3>4
  <2>3. ASSUME NEW m, m = Message("play", Target', stamp'), stamp' = 1,
               wire' = Append(wire, m) \/ wire' = <<m>>
        PROVE  Sent.kind = "play" /\ Sent.stamp = 1
    <3>1. Sent = m
        BY <2>1, <2>3 DEF Sent
    <3>. QED
        BY <2>3, <3>1 DEF Message
  <2>4. CASE Connect \/ LookupDone
    <3>. PICK m : m = Message("play", Target', stamp')
        OBVIOUS
    <3>1. stamp' = 1 /\ (wire' = Append(wire, m) \/ wire' = <<m>>)
        BY <2>1, <2>4 DEF Connect, LookupDone, SendPlay, FirstStamp
    <3>. QED
        BY <2>3, <3>1
  <2>5. CASE Pause \/ Resume \/ SetMode \/ SeekMs \/ \E r \in Recs : Seek(r)
    <3>1. \/ SendCommand("update", Target')
          \/ \E to : SendCommand("seekMs", to)
          \/ wire' = wire
        BY <2>5 DEF Pause, Resume, SetMode, SeekMs, Seek, SendUpdate, SendSeekMs
    <3>. QED
        BY <2>1, <2>2, <3>1
  <2>6. wire' = wire \/ wire' = <<>> \/ (wire # <<>> /\ wire' = Tail(wire))
        \/ Connect \/ LookupDone \/ Pause \/ Resume \/ SetMode \/ SeekMs \/ \E r \in Recs : Seek(r)
      BY DEF Next, RequestPause, LookupFails, ReadFrame, ConnectionOver, TailAsks, TailAnswers,
         DsmTakes, DsmSends, Drop, external
  <2>7. wire' # wire /\ wire' # <<>>
      BY <2>1
  <2>8. wire # <<>> => wire' # Tail(wire)
      BY <2>1, Popped
  <2>. QED
      BY <2>4, <2>5, <2>6, <2>7, <2>8
<1>. QED
    BY <1>1, PlaybackInductive, PTL DEF Spec, CountsFromPlay

=============================================================================
