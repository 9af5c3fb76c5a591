-------------------------- MODULE LiveSlotsProofs --------------------------
(***************************************************************************)
(* For any cameras and any number of acts: a slot's stream is that of its  *)
(* camera, agrees with the layout's pause once the loop is idle, heeds no  *)
(* stale lookup, and a slot that has left History gets no position back    *)
(* but from an answer under way.                                           *)
(*                                                                         *)
(* The invariant has two halves.  Core: the slot, what has been asked for, *)
(* and the user's last word, kept by every handler through a few lemmas    *)
(* on what a handler leaves of the slot (StreamKept, StreamGone, Started)  *)
(* and asks for (NoMore, OneMore, Restarted).  InStep: the coroutines      *)
(* still on the loop end with what the layout last said, kept because a    *)
(* pause or a resume goes to the loop's end (LastWord), a new stream finds *)
(* no message of its own there (StartedInStep), and what the loop runs is  *)
(* undone by what follows it (LoopInStep).                                 *)
(***************************************************************************)
EXTENDS LiveSlots, TLAPS

LEMMA NoSourceTyped ==
  NoSource \in [n : Nat, kind : Kinds, cam : Somewhere, at : 0 .. MaxGens]
BY SlotAssumption DEF NoSource, Kinds, Somewhere

(* What a handler that ends the slot's stream leaves of the slot.          *)
LEMMA Dropped ==
  ASSUME NEW s \in SlotType,
         NEW t \in {Stopped(s), Cleared(s), Offline(s)}
  PROVE  /\ t \in SlotType
         /\ t.cam = s.cam /\ t.on = s.on
         /\ t.source = NoSource
         /\ t.position \in {s.position, 0}
         /\ t.lost => s.lost
<1>1. /\ Stopped(s) \in SlotType
      /\ Stopped(s).cam = s.cam /\ Stopped(s).on = s.on /\ Stopped(s).source = NoSource
      /\ Stopped(s).position = s.position /\ Stopped(s).lost = s.lost
    BY NoSourceTyped DEF SlotType, Stopped
<1>2. CASE t = Stopped(s)
    BY <1>1, <1>2
<1>. 0 \in 0 .. MaxGens
    BY SlotAssumption
<1>3. CASE t = Cleared(s)
    BY <1>1, <1>3 DEF Cleared, SlotType
<1>4. CASE t = Offline(s)
    BY <1>1, <1>4 DEF Offline, SlotType
<1>. QED
    BY <1>2, <1>3, <1>4

LEMMA DroppedSource == NoSource.n = 0 /\ NoSource.kind = "none"
BY DEF NoSource

Blank == [what : {"none"}, cam : Somewhere, on : BOOLEAN, gen : Nat, at : 0 .. MaxGens, n : Nat]
LEMMA NothingAsked == NoJob \in Blank /\ NoJob.gen = 0 /\ NoJob.n = 0
<1>. NoCam \in Somewhere /\ 0 \in 0 .. MaxGens
    BY SlotAssumption DEF Somewhere
<1>. QED
    BY DEF NoJob, Blank

LEMMA Errand ==
  ASSUME NEW c \in Cams, NEW g \in Nat, NEW p \in 0 .. MaxGens
  PROVE  UrlFetch(c) \in JobType /\ Lookup(c, g, p) \in JobType
<1>1. NoJob \in Blank /\ c \in Somewhere
    BY NothingAsked DEF Somewhere
<1>2. UrlFetch(c) \in JobType
    BY <1>1 DEF UrlFetch, JobType, Errands, Blank
<1>3. Lookup(c, g, p) \in JobType
    BY <1>1 DEF Lookup, JobType, Errands, Blank
<1>. QED
    BY <1>2, <1>3

LEMMA SeekErrand ==
  ASSUME NEW g \in Nat, NEW p \in 0 .. MaxGens, NEW n \in Nat
  PROVE  Seeking(g, p, n) \in JobType
<1>1. NoJob \in Blank
    BY NothingAsked
<1>. QED
    BY <1>1 DEF Seeking, JobType, Errands, Blank

LEMMA PostponedStart ==
  ASSUME NEW c \in Somewhere, NEW b \in BOOLEAN,
         NEW x, x = [NoJob EXCEPT !.what = "start_later", !.cam = c, !.on = b]
  PROVE  x \in JobType /\ x.gen = 0 /\ x.n = 0 /\ x.what = "start_later" /\ x.cam = c
<1>1. x \in JobType
    BY NothingAsked DEF JobType, Errands, Blank
<1>2. x.gen = 0 /\ x.n = 0 /\ x.what = "start_later" /\ x.cam = c
    BY NothingAsked DEF Blank
<1>. QED
    BY <1>1, <1>2

LEMMA PostponedSeek ==
  ASSUME NEW g \in 0 .. MaxGens, NEW x, x = [NoJob EXCEPT !.what = "seek_later", !.gen = g, !.at = g]
  PROVE  x \in JobType /\ x.gen = g /\ x.n = 0 /\ x.what = "seek_later"
<1>. g \in Nat
    OBVIOUS
<1>1. x \in JobType
    BY NothingAsked DEF JobType, Errands, Blank
<1>2. x.gen = g /\ x.n = 0 /\ x.what = "seek_later"
    BY NothingAsked DEF Blank
<1>. QED
    BY <1>1, <1>2

(* A restart leaves the slot as it was handed over, or offline, and asks   *)
(* for a URL, or for a recording under a new generation.                   *)
LEMMA Restarting ==
  ASSUME NEW s \in SlotType, s.cam \in Cams, NEW place \in 0 .. MaxGens, NEW js,
         gens \in 0 .. MaxGens, mark \in 0 .. gens, newest \in 0 .. gens, mark = newest,
         RestartSlot(s, place, js)
  PROVE  /\ slot' = s \/ (slot' = Offline(s) /\ place = 0)
         /\ gens' \in gens .. MaxGens /\ mark' \in 0 .. gens' /\ newest' = mark'
         /\ \/ jobs' = js /\ UNCHANGED seek
            \/ jobs' = js \cup {UrlFetch(s.cam)} /\ UNCHANGED seek
            \/ jobs' = js \cup {Lookup(s.cam, gens', place)} /\ gens' # 0 /\ newest' = gens'
<1>1. CASE place = 0
    BY <1>1, SlotAssumption DEF RestartSlot, StartStream, LostUntilUrl, seek
<1>2. CASE place # 0
  <2>1. gens < MaxGens /\ gens' = gens + 1 /\ mark' = gens' /\ newest' = gens' /\ slot' = s
      BY <1>2 DEF RestartSlot
  <2>2. jobs' = js \cup {Lookup(s.cam, gens', place)}
      BY <1>2 DEF RestartSlot
  <2>3. gens' \in gens .. MaxGens /\ mark' \in 0 .. gens' /\ newest' = mark' /\ gens' # 0
      BY <2>1, SlotAssumption
  <2>. QED
      BY Zenon, <2>1, <2>2, <2>3
<1>. QED
    BY <1>1, <1>2

LEMMA Targets == ASSUME NEW s \in SlotType PROVE HistoryTarget(s) \in 0 .. MaxGens
BY SlotAssumption DEF HistoryTarget, SlotType
----------------------------------------------------------------------------
(* The slot.                                                               *)

Sound == SlotOK /\ SourceIsForCamera /\ NothingInEmpty /\ LeavingKnown

(* Its stream is what it was, for the same camera.                         *)
SameStream(s, t) ==
  /\ t \in SlotType /\ t.cam = s.cam /\ (t.lost => s.lost)
  /\ t.source.n = s.source.n /\ t.source.kind = s.source.kind /\ t.source.cam = s.source.cam

LEMMA StreamKept ==
  ASSUME Sound, SameStream(slot, slot'), sources' = sources,
         leaving' = leaving \/ leaving', newest' = newest \/ newest' # 0 \/ leaving'
  PROVE  Sound'
BY DEF Sound, SlotOK, SourceIsForCamera, NothingInEmpty, LeavingKnown, SameStream, IsHistory

LEMMA StreamGone ==
  ASSUME Sound, slot' \in SlotType, slot'.source = NoSource, sources' = sources
  PROVE  Sound'
BY DroppedSource
   DEF Sound, SlotOK, SourceIsForCamera, NothingInEmpty, LeavingKnown, IsHistory

(* What a step may write into the slot without touching its stream.        *)
LEMMA Touched ==
  ASSUME NEW s \in SlotType, NEW p \in 0 .. MaxGens, NEW b \in BOOLEAN
  PROVE  /\ SameStream(s, s) /\ SameStream(s, Unpaused(s))
         /\ SameStream(s, [s EXCEPT !.position = p])
         /\ SameStream(s, [s EXCEPT !.told = b])
         /\ SameStream(s, [s EXCEPT !.on = b])
         /\ SameStream(s, [s EXCEPT !.source.at = p, !.told = b])
<1>1. SameStream(s, s)
    BY DEF SameStream
<1>2. SameStream(s, Unpaused(s))
    BY DEF SameStream, SlotType, Unpaused
<1>3. SameStream(s, [s EXCEPT !.position = p])
    BY DEF SameStream, SlotType
<1>4. SameStream(s, [s EXCEPT !.told = b])
    BY DEF SameStream, SlotType
<1>5. SameStream(s, [s EXCEPT !.on = b])
    BY DEF SameStream, SlotType
<1>6. SameStream(s, [s EXCEPT !.source.at = p, !.told = b])
    BY DEF SameStream, SlotType
<1>. QED
    BY <1>1, <1>2, <1>3, <1>4, <1>5, <1>6

----------------------------------------------------------------------------
(* What has been asked for, and the user's last word.                      *)

Named(j) == /\ j.what \in {"url", "lookup", "start_later"} => j.cam \in Cams
            /\ j.what \in {"lookup", "seek", "seek_later"} => j.gen # 0
Asked == /\ jobs \subseteq JobType /\ \A j \in jobs : j.gen <= gens /\ j.n <= sources
         /\ ErrandsNamed
Words == gens \in 0 .. MaxGens /\ mark \in 0 .. gens /\ newest \in 0 .. gens /\ MarkIsNewest
Grown == gens' \in Nat /\ gens' >= gens /\ sources' \in Nat /\ sources' >= sources

LEMMA OneMore ==
  ASSUME Asked, gens \in Nat, sources \in Nat, Grown,
         NEW x \in JobType, x.gen <= gens', x.n <= sources', Named(x), jobs' \subseteq jobs \cup {x}
  PROVE  Asked'
<1>1. ASSUME NEW j \in jobs' PROVE j \in JobType /\ j.gen <= gens' /\ j.n <= sources' /\ Named(j)
  <2>1. CASE j = x
      BY <2>1
  <2>2. CASE j \in jobs
    <3>1. j \in JobType /\ j.gen <= gens /\ j.n <= sources /\ Named(j)
        BY <2>2 DEF Asked, ErrandsNamed, Named
    <3>2. j.gen \in Nat /\ j.n \in Nat
        BY <3>1 DEF JobType
    <3>. QED
        BY <3>1, <3>2 DEF Grown
  <2>. QED
      BY <1>1, <2>1, <2>2
<1>. QED
    BY <1>1 DEF Asked, ErrandsNamed, Named

LEMMA NoMore ==
  ASSUME Asked, gens \in Nat, sources \in Nat, Grown, jobs' \subseteq jobs
  PROVE  Asked'
<1>1. ASSUME NEW j \in jobs' PROVE j \in JobType /\ j.gen <= gens' /\ j.n <= sources' /\ Named(j)
  <2>1. j \in JobType /\ j.gen <= gens /\ j.n <= sources /\ Named(j)
      BY <1>1 DEF Asked, ErrandsNamed, Named
  <2>2. j.gen \in Nat /\ j.n \in Nat
      BY <2>1 DEF JobType
  <2>. QED
      BY <2>1, <2>2 DEF Grown
<1>. QED
    BY <1>1 DEF Asked, ErrandsNamed, Named

(* A restart of a slot whose stream plays on, or has been stopped.         *)
LEMMA Restarted ==
  ASSUME Sound, Asked, Words, NEW s \in SlotType,
         SameStream(slot, s) \/ s.source = NoSource, s.cam \in Cams,
         NEW place \in 0 .. MaxGens, NEW js, js \subseteq jobs,
         RestartSlot(s, place, js), UNCHANGED <<sources, leaving>>
  PROVE  Sound' /\ Asked' /\ Words'
<1>1. /\ slot' = s \/ (slot' = Offline(s) /\ place = 0)
      /\ gens' \in gens .. MaxGens /\ mark' \in 0 .. gens' /\ newest' = mark'
      /\ \/ jobs' = js /\ UNCHANGED seek
         \/ jobs' = js \cup {UrlFetch(s.cam)} /\ UNCHANGED seek
         \/ jobs' = js \cup {Lookup(s.cam, gens', place)} /\ gens' # 0 /\ newest' = gens'
    BY Restarting DEF Words, MarkIsNewest
<1>2. sources \in Nat /\ gens \in Nat /\ Grown
    BY <1>1, SlotAssumption DEF Sound, SlotOK, Words, Grown
<1>3. Words'
    BY <1>1, SlotAssumption DEF Words, MarkIsNewest
<1>4. newest' = newest \/ newest' # 0
    BY <1>1 DEF seek
<1>5. Sound'
  <2>1. CASE slot' = s
      BY <1>4, <2>1, StreamKept, StreamGone
  <2>2. CASE slot' = Offline(s)
      BY <2>2, Dropped, StreamGone
  <2>. QED
      BY <1>1, <2>1, <2>2
<1>6. Asked'
  <2>1. CASE jobs' = js
      BY <1>2, <2>1, NoMore
  <2>2. CASE jobs' = js \cup {UrlFetch(s.cam)}
    <3>1. UrlFetch(s.cam) \in JobType
        BY Errand, SlotAssumption
    <3>2. LET x == UrlFetch(s.cam)
          IN  x.gen = 0 /\ x.n = 0 /\ x.what = "url" /\ x.cam = s.cam
        BY DEF UrlFetch, NoJob
    <3>. QED
        BY <1>2, <2>2, <3>1, <3>2, OneMore DEF Grown, Named
  <2>3. CASE jobs' = js \cup {Lookup(s.cam, gens', place)} /\ gens' # 0
    <3>1. Lookup(s.cam, gens', place) \in JobType
        BY <1>2, Errand DEF Grown
    <3>2. LET x == Lookup(s.cam, gens', place)
          IN  x.gen = gens' /\ x.n = 0 /\ x.what = "lookup" /\ x.cam = s.cam
        BY DEF Lookup, NoJob
    <3>. QED
        BY <1>2, <2>3, <3>1, <3>2, OneMore DEF Grown, Named
  <2>. QED
      BY <1>1, <2>1, <2>2, <2>3
<1>. QED
    BY <1>3, <1>5, <1>6

----------------------------------------------------------------------------
(* Each handler keeps the slot sound and what is asked for named.          *)

Core == Sound /\ Asked /\ Words /\ paused \in BOOLEAN
CoreNext == Sound' /\ Asked' /\ Words'

LEMMA Counts ==
  ASSUME Core
  PROVE  gens \in Nat /\ sources \in Nat /\ slot \in SlotType /\ 0 \in 0 .. MaxGens
BY SlotAssumption DEF Core, Sound, SlotOK, Words

(* Steps that leave the generations alone and ask for nothing.             *)
LEMMA Quiet ==
  ASSUME Core, UNCHANGED <<gens, mark, newest>>, sources' = sources \/ sources' = sources + 1,
         jobs' \subseteq jobs
  PROVE  Asked' /\ Words'
<1>1. Grown
    BY Counts DEF Grown
<1>. QED
    BY <1>1, Counts, NoMore DEF Core, Words, MarkIsNewest

(* And those that ask for one thing more.                                  *)
LEMMA QuietAsking ==
  ASSUME Core, UNCHANGED <<gens, mark, newest, sources>>,
         NEW x \in JobType, x.gen <= gens, x.n <= sources, Named(x), jobs' \subseteq jobs \cup {x}
  PROVE  Asked' /\ Words'
<1>1. Grown
    BY Counts DEF Grown
<1>. QED
    BY <1>1, Counts, OneMore DEF Core, Words, MarkIsNewest

LEMMA UserKeepsCore ==
  ASSUME Core, User
  PROVE  CoreNext
<1>. USE Counts
<1>. DEFINE s == Unpaused(slot)
<1>1. s \in SlotType /\ SameStream(slot, s)
    BY Touched DEF SameStream
<1>2. CASE SeekAll
  <2>. DEFINE x == [NoJob EXCEPT !.what = "seek_later", !.gen = gens', !.at = gens']
  <2>1. gens' = gens + 1 /\ gens' \in 0 .. MaxGens /\ mark' = gens' /\ newest' = gens'
      BY <1>2, SlotAssumption DEF SeekAll
  <2>2. Grown /\ Words'
      BY <1>2, <2>1 DEF SeekAll, Grown, Words, MarkIsNewest
  <2>3. x \in JobType /\ x.gen = gens' /\ x.n = 0 /\ x.what = "seek_later"
      BY <2>1, PostponedSeek
  <2>4. Sound'
      BY <1>1, <1>2, <2>1, StreamKept DEF SeekAll, Core
  <2>5. jobs' = jobs \cup {x}
      BY <1>2 DEF SeekAll
  <2>6. Asked'
    <3>. HIDE DEF x
    <3>. QED
        BY <2>1, <2>2, <2>3, <2>5, OneMore DEF Core, Named, Grown
  <2>. QED
      BY <2>2, <2>4, <2>6 DEF CoreNext
<1>3. CASE GoLive
  <2>1. Words' /\ Grown
      BY <1>3 DEF GoLive, Core, Words, MarkIsNewest, Grown
  <2>2. CASE IsHistory(s)
    <3>. DEFINE x == [NoJob EXCEPT !.what = "start_later", !.cam = s.cam, !.on = s.on]
    <3>1. s.cam = slot.cam /\ slot.cam \in Cams /\ s.on \in BOOLEAN
        BY <1>1, <2>2 DEF SameStream, Core, Sound, SlotOK, NothingInEmpty, SlotType, IsHistory,
                          Somewhere
    <3>2. x \in JobType /\ x.gen = 0 /\ x.n = 0 /\ x.what = "start_later" /\ x.cam = s.cam
        BY Zenon, <3>1, PostponedStart DEF Somewhere
    <3>3. slot' = [s EXCEPT !.position = 0] /\ leaving' /\ sources' = sources
        BY <1>3, <2>2 DEF GoLive, LeavingArmed
    <3>4. SameStream(slot, slot')
        BY <1>1, <3>3, Touched DEF SameStream
    <3>5. Sound'
        BY <3>3, <3>4, StreamKept DEF Core
    <3>6. jobs' = jobs \cup {x}
        BY <1>3, <2>2 DEF GoLive
    <3>7. Asked'
      <4>. HIDE DEF x
      <4>. QED
          BY <2>1, <3>1, <3>2, <3>6, OneMore DEF Core, Named, Grown
    <3>. QED
        BY <2>1, <3>5, <3>7 DEF CoreNext
  <2>3. CASE ~IsHistory(s)
    <3>1. /\ slot' \in {s, [s EXCEPT !.position = 0]}
          /\ leaving' = leaving /\ sources' = sources /\ jobs' = jobs /\ gens' = gens
        BY <1>3, <2>3 DEF GoLive
    <3>2. SameStream(s, slot')
        BY <1>1, <3>1, Touched
    <3>3. SameStream(slot, slot') /\ ~IsHistory(slot')
        BY <1>1, <2>3, <3>2 DEF SameStream, IsHistory
    <3>4. Sound'
        BY <3>1, <3>3 DEF Core, Sound, SlotOK, SourceIsForCamera, NothingInEmpty, LeavingKnown,
                          SameStream, IsHistory
    <3>5. Asked'
        BY <2>1, <3>1, NoMore DEF Core
    <3>. QED
        BY <2>1, <3>4, <3>5 DEF CoreNext
  <2>. QED
      BY <2>2, <2>3
<1>4. CASE PauseAll
  <2>1. (slot.source.n # 0) \in BOOLEAN
      OBVIOUS
  <2>2. Sound'
      BY <1>4, <2>1, Touched, StreamKept DEF PauseAll, Core, seek
  <2>. QED
      BY <1>4, <2>2, Quiet DEF PauseAll, CoreNext, seek
<1>5. CASE Play
  <2>1. Sound'
      BY <1>1, <1>5, StreamKept DEF Play, Core, seek
  <2>. QED
      BY <1>5, <2>1, Quiet DEF Play, CoreNext, seek
<1>6. CASE Clear
  <2>1. slot' \in SlotType /\ slot'.source = NoSource
      BY <1>6, Dropped, SlotAssumption DEF Clear, SlotType, Somewhere
  <2>2. Sound'
      BY <1>6, <2>1, StreamGone DEF Clear, Core
  <2>. QED
      BY <1>6, <2>2, Quiet DEF Clear, CoreNext, seek
<1>7. CASE ReloadAll
  <2>. DEFINE x == [NoJob EXCEPT !.what = "reload_later"]
  <2>1. x \in JobType /\ x.gen = 0 /\ x.n = 0 /\ x.what = "reload_later"
      BY NothingAsked DEF JobType, Errands, Blank
  <2>2. Sound'
      BY <1>7, Touched, StreamKept DEF ReloadAll, Core, seek
  <2>3. jobs' = jobs \cup {x} /\ UNCHANGED <<gens, mark, newest, sources>>
      BY <1>7 DEF ReloadAll, seek
  <2>. HIDE DEF x
  <2>. QED
      BY <2>1, <2>2, <2>3, QuietAsking DEF CoreNext, Named
<1>8. CASE RestartCamera
  <2>1. Stopped(slot) \in SlotType /\ Stopped(slot).source = NoSource
        /\ Stopped(slot).cam = slot.cam
      BY Dropped
  <2>2. CASE away
    <3>1. Sound'
        BY <1>8, <2>1, <2>2, StreamGone DEF RestartCamera, Core
    <3>. QED
        BY <1>8, <2>2, <3>1, Quiet DEF RestartCamera, CoreNext, seek
  <2>3. CASE ~away
    <3>1. slot.cam \in Cams
        BY <1>8 DEF RestartCamera, SlotType, Somewhere
    <3>2. RestartSlot(Stopped(slot), HistoryTarget(slot), jobs) /\ UNCHANGED <<sources, leaving>>
        BY <1>8, <2>3 DEF RestartCamera
    <3>. QED
        BY <2>1, <3>1, <3>2, Targets, Restarted DEF Core, CoreNext
  <2>. QED
      BY <2>2, <2>3
<1>9. CASE LeavePage
  <2>1. Sound'
    <3>1. CASE slot.cam = NoCam
        BY <1>9, <3>1 DEF LeavePage, Core, Sound, SlotOK, SourceIsForCamera, NothingInEmpty,
                          LeavingKnown, IsHistory
    <3>2. CASE slot.cam # NoCam
        BY <1>9, <3>2, Dropped, StreamGone DEF LeavePage, Core
    <3>. QED
        BY <3>1, <3>2
  <2>2. Words' /\ Grown /\ jobs' = jobs
      BY <1>9 DEF LeavePage, Core, Words, MarkIsNewest, Grown
  <2>. QED
      BY <2>1, <2>2, NoMore DEF CoreNext, Core
<1>10. CASE ComeBack
  <2>1. CASE slot.cam = NoCam
    <3>1. Sound'
        BY <1>10, <2>1, Touched, StreamKept DEF ComeBack, Core, seek
    <3>. QED
        BY <1>10, <2>1, <3>1, Quiet DEF ComeBack, CoreNext, seek
  <2>2. CASE slot.cam # NoCam
    <3>. DEFINE t == [slot EXCEPT !.position = 0]
    <3>1. SameStream(slot, t) /\ t \in SlotType
        BY Touched DEF SameStream
    <3>2. slot.cam \in Cams /\ t.cam = slot.cam /\ t.on = slot.on
        BY <2>2, <3>1 DEF SlotType, Somewhere
    <3>3. StartStream(t, slot.cam, slot.on, jobs) /\ UNCHANGED <<sources, seek, leaving>>
        BY <1>10, <2>2 DEF ComeBack
    <3>4. RestartSlot(t, 0, jobs)
        BY <3>2, <3>3 DEF RestartSlot
    <3>. QED
        BY <3>1, <3>2, <3>3, <3>4, Restarted DEF Core, CoreNext
  <2>. QED
      BY <2>1, <2>2
<1>11. CASE \E c \in Cams : Assign(c)
  <2>. SUFFICES ASSUME NEW c \in Cams, Assign(c) PROVE CoreNext
      BY <1>11
  <2>. PICK on \in BOOLEAN :
         RestartSlot([Cleared(slot) EXCEPT !.cam = c, !.on = on], HistoryTarget(slot), jobs)
      BY DEF Assign
  <2>. DEFINE t == [Cleared(slot) EXCEPT !.cam = c, !.on = on]
  <2>1. t \in SlotType /\ t.source = NoSource /\ t.cam = c
      BY Dropped DEF SlotType, Somewhere
  <2>2. UNCHANGED <<sources, leaving>>
      BY DEF Assign
  <2>. QED
      BY <2>1, <2>2, Targets, Restarted DEF Core, CoreNext
<1>. QED
    BY <1>2, <1>3, <1>4, <1>5, <1>6, <1>7, <1>8, <1>9, <1>10, <1>11 DEF User

(* A stream that starts is for the slot's camera.                          *)
LEMMA Started ==
  ASSUME Core, NEW kind \in {"live", "rtsp", "history"}, slot.cam \in Cams,
         NEW place \in 0 .. MaxGens, NewSource(kind, slot.cam, place),
         newest' = newest, kind = "history" => newest # 0
  PROVE  Sound' /\ sources' = sources + 1
<1>. DEFINE new == [n |-> sources', kind |-> kind, cam |-> slot.cam, at |-> place]
<1>1. sources \in Nat /\ slot \in SlotType /\ sources' = sources + 1 /\ paused \in BOOLEAN
    BY Counts DEF NewSource, Core
<1>2. new \in [n : Nat, kind : Kinds, cam : Somewhere, at : 0 .. MaxGens]
    BY <1>1 DEF Kinds, Somewhere
<1>3. slot' = [slot EXCEPT !.source = new, !.told = paused, !.card = "none", !.lost = FALSE,
                           !.position = place]
    BY DEF NewSource, JoinsPause, NotLost
<1>4. new.n = sources' /\ new.kind = kind /\ new.cam = slot.cam
    OBVIOUS
<1>. HIDE DEF new
<1>5. slot' \in SlotType
    BY <1>1, <1>2, <1>3 DEF SlotType
<1>6. slot'.source = new /\ slot'.cam = slot.cam /\ ~slot'.lost
    BY <1>1, <1>3 DEF SlotType
<1>. QED
    BY <1>1, <1>4, <1>5, <1>6, SlotAssumption
       DEF Sound, SlotOK, SourceIsForCamera, NothingInEmpty, LeavingKnown, IsHistory

LEMMA TimerKeepsCore ==
  ASSUME Core, NEW j \in jobs, Timer(j)
  PROVE  CoreNext
<1>1. j \in JobType /\ Named(j) /\ Answered(j) \subseteq jobs
      /\ j.gen <= gens /\ j.n <= sources
    BY DEF Core, Asked, ErrandsNamed, Named, Answered
<1>2. SameStream(slot, slot) /\ slot \in SlotType
    BY Counts, Touched
<1>3. CASE StaggeredStart(j)
  <2>1. StartStream(slot, j.cam, j.on, Answered(j)) /\ j.cam \in Cams
        /\ UNCHANGED <<sources, gens, mark, newest, leaving>>
      BY <1>1, <1>3 DEF StaggeredStart, seek, Named
  <2>2. CASE j.on
    <3>1. slot' = slot /\ jobs' = Answered(j) \cup {UrlFetch(j.cam)}
        BY <2>1, <2>2 DEF StartStream, LostUntilUrl
    <3>2. Sound'
        BY <1>2, <2>1, <3>1, StreamKept DEF Core
    <3>3. UrlFetch(j.cam) \in JobType
        BY <2>1, Errand, Counts
    <3>4. LET x == UrlFetch(j.cam)
          IN  x.gen = 0 /\ x.n = 0 /\ x.what = "url" /\ x.cam = j.cam
        BY DEF UrlFetch, NoJob
    <3>5. Asked' /\ Words'
        BY <1>1, <2>1, <3>1, <3>3, <3>4, QuietAsking, Counts DEF Named
    <3>. QED
        BY <3>2, <3>5 DEF CoreNext
  <2>3. CASE ~j.on
    <3>1. slot' = Offline(slot) /\ jobs' = Answered(j)
        BY <2>1, <2>3 DEF StartStream
    <3>2. Sound'
        BY <1>2, <2>1, <3>1, Dropped, StreamGone DEF Core
    <3>. QED
        BY <1>1, <2>1, <3>1, <3>2, Quiet DEF CoreNext
  <2>. QED
      BY <2>2, <2>3
<1>4. CASE StaggeredReload(j)
  <2>1. CASE slot.cam = NoCam
    <3>1. Sound'
        BY <1>2, <1>4, <2>1, StreamKept DEF StaggeredReload, Core, seek
    <3>. QED
        BY <1>1, <1>4, <2>1, <3>1, Quiet DEF StaggeredReload, CoreNext, seek
  <2>2. CASE slot.cam # NoCam
    <3>1. Stopped(slot) \in SlotType /\ Stopped(slot).source = NoSource
          /\ Stopped(slot).cam = slot.cam
        BY <1>2, Dropped
    <3>2. slot.cam \in Cams
        BY <1>2, <2>2 DEF SlotType, Somewhere
    <3>3. RestartSlot(Stopped(slot), HistoryTarget(slot), Answered(j))
          /\ UNCHANGED <<sources, leaving>>
        BY <1>4, <2>2 DEF StaggeredReload
    <3>. QED
        BY <1>1, <1>2, <3>1, <3>2, <3>3, Targets, Restarted DEF Core, CoreNext
  <2>. QED
      BY <2>1, <2>2
<1>5. CASE StaggeredSeek(j)
  <2>1. UNCHANGED <<slot, sources, gens, mark, newest, leaving>>
      BY <1>5 DEF StaggeredSeek, seek
  <2>2. Sound'
      BY <1>2, <2>1, StreamKept DEF Core
  <2>3. CASE j.gen = mark /\ slot.cam # NoCam
    <3>. DEFINE x == Lookup(slot.cam, j.gen, j.at)
    <3>1. jobs' = Answered(j) \cup {x}
        BY <1>5, <2>3 DEF StaggeredSeek
    <3>2. slot.cam \in Cams /\ j.gen \in Nat /\ j.at \in 0 .. MaxGens /\ j.gen # 0
        BY <1>1, <1>2, <1>5, <2>3 DEF SlotType, Somewhere, JobType, StaggeredSeek, Named
    <3>3. x \in JobType
        BY <3>2, Errand, Counts
    <3>4. x.gen = j.gen /\ x.n = 0 /\ x.what = "lookup" /\ x.cam = slot.cam
        BY DEF Lookup, NoJob
    <3>. HIDE DEF x
    <3>5. Asked' /\ Words'
        BY <1>1, <2>1, <3>1, <3>2, <3>3, <3>4, QuietAsking, Counts DEF Named
    <3>. QED
        BY <2>2, <3>5 DEF CoreNext
  <2>4. CASE ~(j.gen = mark /\ slot.cam # NoCam)
      BY <1>1, <1>5, <2>1, <2>2, <2>4, Quiet DEF StaggeredSeek, CoreNext
  <2>. QED
      BY <2>3, <2>4
<1>. QED
    BY <1>3, <1>4, <1>5 DEF Timer

LEMMA AnswerKeepsCore ==
  ASSUME Core, NEW j \in jobs, Answer(j)
  PROVE  CoreNext
<1>1. j \in JobType /\ Named(j) /\ Answered(j) \subseteq jobs
    BY DEF Core, Asked, ErrandsNamed, Named, Answered
<1>2. SameStream(slot, slot) /\ slot \in SlotType /\ 0 \in 0 .. MaxGens
    BY Counts, Touched
<1>3. j.at \in 0 .. MaxGens
    BY <1>1 DEF JobType
<1>4. UNCHANGED <<gens, mark, newest>> /\ jobs' \subseteq jobs
    BY <1>1 DEF Answer, UrlArrives, UrlFails, RecordingFound, NoRecording, SeekDone,
                PositionAnswer, GaveUp, seek
<1>5. CASE UNCHANGED <<slot, sources, leaving>>
    BY <1>2, <1>4, <1>5, StreamKept, Quiet DEF Core, CoreNext
<1>6. CASE UrlArrives(j)
  <2>1. CASE away \/ ~SameCamera(j.cam)
      BY <1>5, <1>6, <2>1 DEF UrlArrives
  <2>2. CASE ~(away \/ ~SameCamera(j.cam))
    <3>1. j.cam = slot.cam /\ slot.cam \in Cams
        BY <1>1, <1>6, <2>2 DEF SameCamera, UrlArrives, Named
    <3>. PICK kind \in {"live", "rtsp"} : NewSource(kind, slot.cam, 0)
        BY <1>6, <2>2, <3>1 DEF UrlArrives
    <3>2. Sound' /\ sources' = sources + 1
        BY <1>2, <1>4, <3>1, Started
    <3>. QED
        BY <1>4, <3>2, Quiet DEF CoreNext
  <2>. QED
      BY <2>1, <2>2
<1>7. CASE RecordingFound(j)
  <2>1. CASE ~NewestLookup(j.gen) \/ ~SameCamera(j.cam) \/ IsHistory(slot)
    <3>. UNCHANGED <<slot, sources, leaving>>
        BY <1>7, <2>1 DEF RecordingFound
    <3>. QED
        BY <1>5
  <2>2. CASE ~(~NewestLookup(j.gen) \/ ~SameCamera(j.cam) \/ IsHistory(slot))
    <3>1. j.cam = slot.cam /\ slot.cam \in Cams /\ newest # 0
        BY <1>1, <1>7, <2>2
           DEF SameCamera, NewestLookup, RecordingFound, Named, Core, Words, MarkIsNewest
    <3>2. NewSource("history", slot.cam, j.at)
        BY <1>7, <2>2, <3>1 DEF RecordingFound
    <3>3. Sound' /\ sources' = sources + 1
        BY <1>3, <1>4, <3>1, <3>2, Started
    <3>. QED
        BY <1>4, <3>3, Quiet DEF CoreNext
  <2>. QED
      BY <2>1, <2>2
<1>8. CASE SeekDone(j) \/ PositionAnswer(j)
  <2>1. slot' \in {slot, [slot EXCEPT !.position = j.at]} /\ UNCHANGED <<sources, leaving>>
      BY <1>8 DEF SeekDone, PositionAnswer
  <2>2. SameStream(slot, slot')
      BY <1>2, <1>3, <2>1, Touched
  <2>. QED
      BY <1>4, <2>1, <2>2, StreamKept, Quiet DEF Core, CoreNext
<1>9. CASE GaveUp(j)
  <2>1. CASE slot.source.n # j.n
      BY <1>5, <1>9, <2>1 DEF GaveUp
  <2>2. CASE slot.source.n = j.n
    <3>1. slot' = [Stopped(slot) EXCEPT !.lost = TRUE, !.card = "lost"]
          /\ UNCHANGED <<sources, leaving>>
        BY <1>9, <2>2 DEF GaveUp
    <3>2. Stopped(slot) \in SlotType /\ Stopped(slot).source = NoSource
        BY <1>2, Dropped
    <3>3. slot' \in SlotType /\ slot'.source = NoSource
        BY <3>1, <3>2 DEF SlotType
    <3>. QED
        BY <1>4, <3>1, <3>3, StreamGone, Quiet DEF Core, CoreNext
  <2>. QED
      BY <2>1, <2>2
<1>10. CASE UrlFails(j) \/ NoRecording(j)
    BY <1>5, <1>10 DEF UrlFails, NoRecording
<1>. QED
    BY <1>6, <1>7, <1>8, <1>9, <1>10 DEF Answer

----------------------------------------------------------------------------
(* The asyncio loop.                                                       *)

LEMMA Appended ==
  ASSUME NEW S, NEW q \in Seq(S), NEW m \in S, NEW r, r = Append(q, m)
  PROVE  /\ r \in Seq(S) /\ Len(q) \in Nat
         /\ DOMAIN q = 1 .. Len(q) /\ DOMAIN r = 1 .. Len(q) + 1
         /\ \A i \in DOMAIN q : r[i] = q[i]
         /\ r[Len(q) + 1] = m
OBVIOUS

LEMMA Popped ==
  ASSUME NEW S, NEW q \in Seq(S), q # <<>>, NEW r, r = Tail(q)
  PROVE  /\ r \in Seq(S) /\ Len(q) \in Nat
         /\ DOMAIN q = 1 .. Len(q) /\ DOMAIN r = 1 .. Len(q) - 1
         /\ 1 \in DOMAIN q /\ Head(q) = q[1]
         /\ \A i \in DOMAIN r : i + 1 \in DOMAIN q /\ r[i] = q[i + 1]
OBVIOUS

Posted == loop \in Seq(Message) /\ (\A i \in DOMAIN loop : loop[i].n <= sources) /\ SeeksNamed

LEMMA MessageFields ==
  ASSUME NEW m \in Message
  PROVE  /\ m.what \in {"pause", "resume", "resume_unseen", "seek"}
         /\ m.n \in Nat /\ m.at \in 0 .. MaxGens
         /\ m.what = "seek" => m.gen \in Nat
BY DEF Message

LEMMA PostedMore ==
  ASSUME Posted, sources \in Nat, gens \in Nat, Grown,
         NEW m \in Message, m.n <= sources', m.what = "seek" => m.gen \in 1 .. gens',
         loop' = Append(loop, m)
  PROVE  Posted'
<1>1. /\ loop' \in Seq(Message) /\ Len(loop) \in Nat
      /\ DOMAIN loop = 1 .. Len(loop) /\ DOMAIN loop' = 1 .. Len(loop) + 1
      /\ \A i \in DOMAIN loop : loop'[i] = loop[i]
      /\ loop'[Len(loop) + 1] = m
    BY Appended DEF Posted
<1>2. ASSUME NEW i \in DOMAIN loop'
      PROVE  loop'[i].n <= sources' /\ (loop'[i].what = "seek" => loop'[i].gen \in 1 .. gens')
  <2>1. CASE i = Len(loop) + 1
      BY <1>1, <2>1
  <2>2. CASE i # Len(loop) + 1
    <3>1. i \in DOMAIN loop /\ loop'[i] = loop[i] /\ loop[i] \in Message
        BY <1>1, <1>2, <2>2 DEF Posted
    <3>2. loop[i].n <= sources /\ (loop[i].what = "seek" => loop[i].gen \in 1 .. gens)
        BY <3>1 DEF Posted, SeeksNamed
    <3>. QED
        BY <3>1, <3>2, MessageFields DEF Grown
  <2>. QED
      BY <2>1, <2>2
<1>. QED
    BY <1>1, <1>2 DEF Posted, SeeksNamed

LEMMA PostedKept ==
  ASSUME Posted, sources \in Nat, gens \in Nat, Grown, loop' = loop
  PROVE  Posted'
<1>1. ASSUME NEW i \in DOMAIN loop
      PROVE  loop[i].n <= sources' /\ (loop[i].what = "seek" => loop[i].gen \in 1 .. gens')
  <2>1. loop[i].n <= sources /\ (loop[i].what = "seek" => loop[i].gen \in 1 .. gens)
        /\ loop[i] \in Message
      BY DEF Posted, SeeksNamed
  <2>. QED
      BY <2>1, MessageFields DEF Grown
<1>. QED
    BY <1>1 DEF Posted, SeeksNamed

LEMMA LoopKeepsCore ==
  ASSUME Core, Posted, LoopStep
  PROVE  CoreNext /\ Posted'
<1>. DEFINE m == Head(loop)
            mine == slot.source.n = m.n
            history == IF mine THEN IsHistory(slot) ELSE m.at # 0
            at == IF mine THEN slot.source.at ELSE m.at
            position == [NoJob EXCEPT !.what = "position", !.at = at]
<1>1. m \in Message /\ m = loop[1] /\ 1 \in DOMAIN loop /\ loop \in Seq(Message)
    BY Popped DEF Posted, LoopStep
<1>2. /\ m.what \in {"pause", "resume", "resume_unseen", "seek"}
      /\ m.n \in Nat /\ m.n <= sources /\ m.at \in 0 .. MaxGens
      /\ m.what = "seek" => m.gen \in 1 .. gens
    BY <1>1, MessageFields DEF Posted, SeeksNamed
<1>3. slot \in SlotType /\ slot.source.at \in 0 .. MaxGens /\ at \in 0 .. MaxGens
    BY <1>2, Counts DEF SlotType
<1>. HIDE DEF m
<1>4. UNCHANGED <<sources, gens, mark, newest, leaving>>
    BY DEF LoopStep, seek
<1>5. Sound'
  <2>1. \/ slot' = slot
        \/ slot' = [slot EXCEPT !.source.at = m.at, !.told = FALSE]
        \/ slot' = [slot EXCEPT !.told = TRUE]
        \/ slot' = [slot EXCEPT !.told = FALSE]
      BY <1>2 DEF LoopStep, m
  <2>2. SameStream(slot, slot')
      BY <1>2, <1>3, <2>1, Touched
  <2>. QED
      BY <1>4, <2>2, StreamKept DEF Core
<1>6. Asked' /\ Words'
  <2>1. CASE m.what = "seek"
    <3>1. jobs' = jobs \cup {Seeking(m.gen, m.at, m.n)}
        BY <2>1 DEF LoopStep, m
    <3>2. Seeking(m.gen, m.at, m.n) \in JobType
      <4>1. m.gen \in Nat
          BY <1>1, <2>1, MessageFields
      <4>. QED
          BY <1>2, <4>1, SeekErrand
    <3>3. LET x == Seeking(m.gen, m.at, m.n)
          IN  x.gen = m.gen /\ x.n = m.n /\ x.what = "seek"
        BY DEF Seeking, NoJob
    <3>. QED
        BY <1>2, <1>4, <2>1, <3>1, <3>2, <3>3, QuietAsking, Counts DEF Named
  <2>2. CASE m.what # "seek"
    <3>1. jobs' \subseteq jobs \cup {position}
        BY <1>2, <2>2 DEF LoopStep, m
    <3>2. position \in JobType
        BY <1>3, NothingAsked DEF JobType, Errands, Blank
    <3>3. position.gen = 0 /\ position.n = 0 /\ position.what = "position"
        BY NothingAsked DEF Blank
    <3>. HIDE DEF position
    <3>. QED
        BY <1>4, <3>1, <3>2, <3>3, QuietAsking, Counts DEF Named
  <2>. QED
      BY <2>1, <2>2
<1>7. Posted'
  <2>1. loop # <<>> /\ loop' = Tail(loop)
      BY DEF LoopStep
  <2>2. /\ loop' \in Seq(Message)
        /\ \A i \in DOMAIN loop' : i + 1 \in DOMAIN loop /\ loop'[i] = loop[i + 1]
      BY <1>1, <2>1, Popped
  <2>. QED
      BY <1>4, <2>2 DEF Posted, SeeksNamed
<1>. QED
    BY <1>5, <1>6, <1>7 DEF CoreNext

LEMMA OthersKeepCore ==
  ASSUME Core, GiveUp \/ Tick \/ (\E on \in BOOLEAN : Sync(on)) \/ UNCHANGED vars
  PROVE  CoreNext
<1>1. SameStream(slot, slot) /\ slot \in SlotType
    BY Counts, Touched
<1>2. CASE GiveUp
  <2>. DEFINE x == [NoJob EXCEPT !.what = "gave_up", !.n = slot.source.n]
  <2>1. slot.source.n \in Nat /\ slot.source.n <= sources
      BY DEF Core, Sound, SlotOK, SlotType
  <2>2. x \in JobType
      BY <2>1, NothingAsked DEF JobType, Errands, Blank
  <2>3. x.gen = 0 /\ x.n = slot.source.n /\ x.what = "gave_up"
      BY NothingAsked DEF Blank
  <2>4. Sound'
      BY <1>1, <1>2, StreamKept DEF GiveUp, Core, seek
  <2>5. jobs' = jobs \cup {x} /\ UNCHANGED <<gens, mark, newest, sources>>
      BY <1>2 DEF GiveUp, seek
  <2>. HIDE DEF x
  <2>. QED
      BY <2>1, <2>2, <2>3, <2>4, <2>5, QuietAsking, Counts DEF CoreNext, Named
<1>3. CASE Tick
  <2>1. slot.source.at \in 0 .. MaxGens
      BY <1>1 DEF SlotType
  <2>2. SameStream(slot, slot') /\ UNCHANGED <<sources, gens, mark, newest, leaving, jobs>>
      BY <1>1, <1>3, <2>1, Touched DEF Tick, seek
  <2>. QED
      BY <2>2, StreamKept, Quiet DEF Core, CoreNext
<1>4. ASSUME NEW on \in BOOLEAN, Sync(on) PROVE CoreNext
  <2>. DEFINE s == [slot EXCEPT !.on = on]
  <2>1. SameStream(slot, s) /\ s \in SlotType /\ slot.cam \in Cams /\ s.cam = slot.cam
      BY <1>1, <1>4, Touched DEF SameStream, Sync, SlotType, Somewhere
  <2>2. CASE away
    <3>1. slot' = s /\ UNCHANGED <<sources, gens, mark, newest, leaving, jobs>>
        BY <1>4, <2>2 DEF Sync, seek
    <3>. QED
        BY <2>1, <3>1, StreamKept, Quiet DEF Core, CoreNext
  <2>3. CASE ~away
    <3>. DEFINE place == IF on THEN slot.position ELSE 0
    <3>1. RestartSlot(s, place, jobs) /\ UNCHANGED <<sources, leaving>>
        BY <1>4, <2>3 DEF Sync
    <3>2. place \in 0 .. MaxGens
        BY Counts DEF SlotType
    <3>. HIDE DEF s, place
    <3>. QED
        BY <2>1, <3>1, <3>2, Restarted DEF Core, CoreNext
  <2>. QED
      BY <2>2, <2>3
<1>5. CASE UNCHANGED vars
    BY <1>1, <1>5, StreamKept, Quiet DEF vars, Core, CoreNext
<1>. QED
    BY <1>2, <1>3, <1>4, <1>5

----------------------------------------------------------------------------
(* The pause: what the loop still has for the stream ends as the layout is.*)

InStep == PausesLifted /\ PausesLast /\ MonitorsNotOnLoop

LEMMA SilentStep ==
  ASSUME InStep, UNCHANGED <<paused, loop>>, slot'.told = slot.told,
         slot'.source.n = slot.source.n, slot'.source.kind = slot.source.kind
  PROVE  InStep'
BY DEF InStep, PausesLifted, PausesLast, MonitorsNotOnLoop, Own, IsHistory

LEMMA NoStream ==
  ASSUME slot'.source.n = 0, slot'.source.kind = "none"
  PROVE  InStep'
BY DEF InStep, PausesLifted, PausesLast, MonitorsNotOnLoop

(* A message at the end of the loop is the last word.                      *)
LEMMA LastWord ==
  ASSUME InStep, Posted, slot.source.n # 0,
         slot'.source.n = slot.source.n, slot'.source.kind = slot.source.kind,
         slot.source.kind # "rtsp",
         NEW m \in Message, loop' = Append(loop, m), m.n = slot.source.n,
         \/ m.what = "pause" /\ paused' /\ slot'.told
         \/ m.what # "pause" /\ ~paused'
         \/ m.what = "seek" /\ IsHistory(slot) /\ UNCHANGED paused /\ slot'.told = slot.told
  PROVE  InStep'
<1>. PICK z : z = Len(loop) + 1
    OBVIOUS
<1>1. /\ loop' \in Seq(Message) /\ Len(loop) \in Nat
      /\ DOMAIN loop = 1 .. Len(loop) /\ DOMAIN loop' = 1 .. z
      /\ \A i \in DOMAIN loop : loop'[i] = loop[i]
      /\ loop'[z] = m
    BY Appended DEF Posted
<1>2. Own(z)' /\ z \in Nat /\ \A i \in DOMAIN loop' : i # z => z > i /\ i \in DOMAIN loop
    BY <1>1 DEF Own
<1>3. CASE m.what = "pause" /\ paused' /\ slot'.told
    BY <1>1, <1>2, <1>3 DEF InStep, PausesLifted, PausesLast, MonitorsNotOnLoop, Own, IsHistory
<1>4. CASE m.what # "pause" /\ ~paused'
    BY <1>1, <1>2, <1>4 DEF InStep, PausesLifted, PausesLast, MonitorsNotOnLoop, Own, IsHistory
<1>5. CASE m.what = "seek" /\ IsHistory(slot) /\ UNCHANGED paused /\ slot'.told = slot.told
    BY <1>1, <1>2, <1>5 DEF InStep, PausesLifted, PausesLast, MonitorsNotOnLoop, Own, IsHistory
<1>. QED
    BY <1>3, <1>4, <1>5

(* A monitor hears of the pause at once.                                   *)
LEMMA Monitored ==
  ASSUME MonitorsNotOnLoop, slot.source.kind = "rtsp", loop' = loop,
         slot'.source.n = slot.source.n, slot'.source.kind = slot.source.kind,
         slot'.told = paused', slot'.told \in BOOLEAN
  PROVE  InStep'
BY DEF InStep, PausesLifted, PausesLast, MonitorsNotOnLoop, Own, IsHistory

(* A coroutine that has run did what the rest of the loop may yet undo.    *)
LEMMA LoopInStep ==
  ASSUME Core, Posted, InStep, LoopStep
  PROVE  InStep'
<1>. DEFINE m == loop[1]
<1>1. /\ loop' \in Seq(Message) /\ Len(loop) \in Nat
      /\ DOMAIN loop = 1 .. Len(loop) /\ DOMAIN loop' = 1 .. Len(loop) - 1
      /\ 1 \in DOMAIN loop /\ Head(loop) = m
      /\ \A i \in DOMAIN loop' : i + 1 \in DOMAIN loop /\ loop'[i] = loop[i + 1]
    BY Popped DEF Posted, LoopStep
<1>2. m \in Message /\ m.what \in {"pause", "resume", "resume_unseen", "seek"}
    BY <1>1, MessageFields DEF Posted
<1>3. slot \in SlotType /\ paused' = paused
    BY Counts DEF LoopStep, page
<1>4. /\ slot'.source.n = slot.source.n /\ slot'.source.kind = slot.source.kind
      /\ slot.source.n # m.n => slot'.told = slot.told
      /\ slot.source.n = m.n => slot'.told = (m.what = "pause")
  <2>1. CASE slot.source.n # m.n
      BY <1>1, <1>2, <2>1 DEF LoopStep
  <2>2. CASE slot.source.n = m.n /\ m.what = "seek"
    <3>1. slot' = [slot EXCEPT !.source.at = m.at, !.told = FALSE]
        BY <1>1, <2>2 DEF LoopStep
    <3>. HIDE DEF m
    <3>. QED
        BY <1>3, <2>2, <3>1 DEF SlotType
  <2>3. CASE slot.source.n = m.n /\ m.what = "pause"
      BY <1>1, <1>3, <2>3 DEF LoopStep, SlotType
  <2>4. CASE slot.source.n = m.n /\ m.what \notin {"seek", "pause"}
      BY <1>1, <1>3, <2>4 DEF LoopStep, SlotType
  <2>. QED
      BY <2>1, <2>2, <2>3, <2>4
<1>. HIDE DEF m
<1>5. \A k \in DOMAIN loop : k # 1 => k - 1 \in DOMAIN loop' /\ loop'[k - 1] = loop[k]
    BY <1>1
<1>6. \A k \in DOMAIN loop : k # 1 /\ Own(k) => Own(k - 1)'
    BY <1>1, <1>4, <1>5 DEF Own
<1>7. \A i \in DOMAIN loop' : Own(i)' => Own(i + 1) /\ loop'[i] = loop[i + 1]
    BY <1>1, <1>4 DEF Own
<1>8. ASSUME (slot.source.n # 0 /\ ~paused)'
      PROVE  /\ slot'.told => \E k \in DOMAIN loop' : Own(k)' /\ loop'[k].what # "pause"
             /\ \A i \in DOMAIN loop' : Own(i)' /\ loop'[i].what = "pause"
                  => \E k \in DOMAIN loop' : k > i /\ Own(k)' /\ loop'[k].what # "pause"
  <2>1. ASSUME slot'.told PROVE \E k \in DOMAIN loop' : Own(k)' /\ loop'[k].what # "pause"
    <3>1. PICK k \in DOMAIN loop : k # 1 /\ Own(k) /\ loop[k].what # "pause"
        BY <1>1, <1>3, <1>4, <1>8, <2>1 DEF InStep, PausesLifted, Own, m
    <3>. QED
        BY <1>5, <1>6, <3>1
  <2>2. ASSUME NEW i \in DOMAIN loop', Own(i)', loop'[i].what = "pause"
        PROVE  \E k \in DOMAIN loop' : k > i /\ Own(k)' /\ loop'[k].what # "pause"
    <3>1. PICK k \in DOMAIN loop : k > i + 1 /\ Own(k) /\ loop[k].what # "pause"
        BY <1>1, <1>3, <1>4, <1>7, <1>8, <2>2 DEF InStep, PausesLifted
    <3>. QED
        BY <1>1, <1>5, <1>6, <3>1
  <2>. QED
      BY <2>1, <2>2
<1>9. ASSUME (slot.source.n # 0 /\ paused /\ ~IsHistory(slot))'
      PROVE  /\ ~slot'.told => \E k \in DOMAIN loop' : Own(k)' /\ loop'[k].what = "pause"
             /\ \A i \in DOMAIN loop' : Own(i)' /\ loop'[i].what # "pause"
                  => \E k \in DOMAIN loop' : k > i /\ Own(k)' /\ loop'[k].what = "pause"
  <2>. ~IsHistory(slot)
      BY <1>4, <1>9 DEF IsHistory
  <2>1. ASSUME ~slot'.told PROVE \E k \in DOMAIN loop' : Own(k)' /\ loop'[k].what = "pause"
    <3>1. PICK k \in DOMAIN loop : k # 1 /\ Own(k) /\ loop[k].what = "pause"
        BY <1>1, <1>3, <1>4, <1>9, <2>1 DEF InStep, PausesLast, Own, m
    <3>. QED
        BY <1>5, <1>6, <3>1
  <2>2. ASSUME NEW i \in DOMAIN loop', Own(i)', loop'[i].what # "pause"
        PROVE  \E k \in DOMAIN loop' : k > i /\ Own(k)' /\ loop'[k].what = "pause"
    <3>1. PICK k \in DOMAIN loop : k > i + 1 /\ Own(k) /\ loop[k].what = "pause"
        BY <1>1, <1>3, <1>4, <1>7, <1>9, <2>2 DEF InStep, PausesLast
    <3>. QED
        BY <1>1, <1>5, <1>6, <3>1
  <2>. QED
      BY <2>1, <2>2
<1>10. MonitorsNotOnLoop'
    BY <1>4, <1>7 DEF InStep, MonitorsNotOnLoop, Own
<1>. QED
    BY <1>8, <1>9, <1>10 DEF InStep, PausesLifted, PausesLast

(* Both for a step; the generations and the numbers of streams only grow.  *)
PauseNext == InStep' /\ Posted' /\ paused' \in BOOLEAN

SameTold(s, t) == /\ t.told = s.told /\ t.source.n = s.source.n /\ t.source.kind = s.source.kind

LEMMA Silent ==
  ASSUME Core, InStep, Posted, Grown, UNCHANGED <<paused, loop>>,
         SameTold(slot, slot') \/ slot'.source = NoSource
  PROVE  PauseNext
<1>1. InStep'
    BY SilentStep, NoStream, DroppedSource DEF SameTold
<1>2. Posted'
    BY PostedKept, Counts
<1>. QED
    BY <1>1, <1>2 DEF PauseNext, Core

LEMMA RestartSilent ==
  ASSUME Core, InStep, Posted, UNCHANGED <<paused, loop, sources>>, NEW s \in SlotType,
         SameTold(slot, s) \/ s.source = NoSource, NEW place, NEW js, RestartSlot(s, place, js)
  PROVE  PauseNext
<1>1. Grown
    BY Counts DEF RestartSlot, Grown, seek
<1>2. slot' \in {s, Offline(s)}
    BY DEF RestartSlot, StartStream, LostUntilUrl
<1>3. Offline(s).source = NoSource
    BY Dropped
<1>. QED
    BY <1>1, <1>2, <1>3, Silent

(* A stream that starts has no messages on the loop but the pause it joins.*)
LEMMA StartedInStep ==
  ASSUME Core, Posted, UNCHANGED <<paused, seek>>,
         NEW kind \in {"live", "rtsp", "history"}, NEW c, NEW place \in 0 .. MaxGens,
         NewSource(kind, c, place)
  PROVE  PauseNext
<1>. DEFINE new == [n |-> sources', kind |-> kind, cam |-> c, at |-> place]
<1>1. sources \in Nat /\ slot \in SlotType /\ sources' = sources + 1 /\ paused \in BOOLEAN
    BY Counts DEF NewSource, Core
<1>2. Grown
    BY <1>1, Counts DEF Grown, seek
<1>3. slot' = [slot EXCEPT !.source = new, !.told = paused, !.card = "none", !.lost = FALSE,
                           !.position = place]
    BY DEF NewSource, JoinsPause, NotLost
<1>4. new.n = sources' /\ new.kind = kind /\ new.at = place
    OBVIOUS
<1>. HIDE DEF new
<1>5. slot'.source = new /\ slot'.told = paused
    BY <1>1, <1>3 DEF SlotType
<1>6. \A i \in DOMAIN loop : loop[i].n # slot'.source.n
  <2>. SUFFICES ASSUME NEW i \in DOMAIN loop PROVE loop[i].n # slot'.source.n
      OBVIOUS
  <2>1. loop[i] \in Message /\ loop[i].n <= sources
      BY DEF Posted
  <2>. QED
      BY <1>1, <1>4, <1>5, <2>1, MessageFields
<1>7. CASE paused /\ kind # "rtsp"
  <2>. PICK m : m = Pausing(slot')
      OBVIOUS
  <2>1. loop' = Append(loop, m)
      BY <1>4, <1>5, <1>7 DEF NewSource, JoinsPause, IsBridge
  <2>2. m \in Message /\ m.what = "pause" /\ m.n = sources'
      BY <1>1, <1>4, <1>5 DEF Pausing, Message
  <2>3. Posted'
      BY <1>1, <1>2, <2>1, <2>2, PostedMore, Counts
  <2>. PICK z : z = Len(loop) + 1
      OBVIOUS
  <2>4. /\ Len(loop) \in Nat
        /\ DOMAIN loop = 1 .. Len(loop) /\ DOMAIN loop' = 1 .. z
        /\ \A i \in DOMAIN loop : loop'[i] = loop[i]
        /\ loop'[z] = m
      BY <2>1, <2>2, Appended DEF Posted
  <2>5. \A i \in DOMAIN loop' : Own(i)' => i = z
      BY <1>6, <2>4 DEF Own
  <2>6. InStep'
      BY <1>4, <1>5, <1>7, <2>2, <2>4, <2>5
         DEF InStep, PausesLifted, PausesLast, MonitorsNotOnLoop
  <2>. QED
      BY <2>3, <2>6, <1>1 DEF PauseNext
<1>8. CASE ~(paused /\ kind # "rtsp")
  <2>1. loop' = loop
      BY <1>4, <1>5, <1>8 DEF NewSource, JoinsPause, IsBridge
  <2>2. InStep'
      BY <1>4, <1>5, <1>6, <1>8, <2>1
         DEF InStep, PausesLifted, PausesLast, MonitorsNotOnLoop, Own
  <2>3. Posted'
      BY <1>2, <2>1, PostedKept, Counts
  <2>. QED
      BY <1>1, <2>2, <2>3 DEF PauseNext
<1>. QED
    BY <1>7, <1>8

(* The layout plays on: monitors at once, bridges by the loop.             *)
LEMMA ResumedInStep ==
  ASSUME Core, InStep, Posted, Grown, NEW show \in BOOLEAN, ResumeSlots(show),
         NEW p \in 0 .. MaxGens,
         slot' = Unpaused(slot) \/ slot' = [Unpaused(slot) EXCEPT !.position = p]
  PROVE  PauseNext
<1>1. slot \in SlotType /\ paused' = FALSE /\ paused \in BOOLEAN
    BY Counts DEF ResumeSlots, Core
<1>2. /\ slot'.source = slot.source
      /\ slot.source.kind = "rtsp" => slot'.told = FALSE
      /\ slot.source.kind # "rtsp" => slot'.told = slot.told
    BY <1>1 DEF Unpaused, SlotType
<1>3. /\ slot.source.n \in Nat /\ slot.source.n <= sources /\ slot.source.at \in 0 .. MaxGens
      /\ (slot.source.n = 0) = (slot.source.kind = "none")
    BY <1>1 DEF Core, Sound, SlotOK, SlotType
<1>4. CASE slot.source.kind = "rtsp"
  <2>1. loop' = loop
      BY <1>4 DEF ResumeSlots, IsBridge
  <2>2. InStep'
      BY <1>1, <1>2, <1>4, <2>1, Monitored DEF InStep
  <2>. QED
      BY <1>1, <2>1, <2>2, PostedKept, Counts DEF PauseNext
<1>5. CASE slot.source.n = 0
  <2>1. loop' = loop
      BY <1>3, <1>5 DEF ResumeSlots, IsBridge
  <2>2. InStep'
      BY <1>2, <1>3, <1>5, NoStream
  <2>. QED
      BY <1>1, <2>1, <2>2, PostedKept, Counts DEF PauseNext
<1>6. CASE slot.source.kind # "rtsp" /\ slot.source.n # 0 /\ ~paused
  <2>1. loop' = loop /\ paused' = paused
      BY <1>1, <1>6 DEF ResumeSlots
  <2>. QED
      BY <1>2, <1>6, <2>1, Silent DEF SameTold
<1>7. CASE slot.source.kind # "rtsp" /\ slot.source.n # 0 /\ paused
  <2>1. IsBridge(slot)
      BY <1>1, <1>3, <1>7 DEF IsBridge, SlotType, Kinds
  <2>. PICK m : m = [what |-> IF show THEN "resume" ELSE "resume_unseen",
                     n |-> slot.source.n, at |-> slot.source.at]
      OBVIOUS
  <2>2. loop' = Append(loop, m)
      BY <1>7, <2>1 DEF ResumeSlots
  <2>3. m \in Message /\ m.what \notin {"pause", "seek"} /\ m.n = slot.source.n
      BY <1>3 DEF Message
  <2>4. InStep'
      BY <1>1, <1>2, <1>7, <2>2, <2>3, LastWord
  <2>5. Posted'
      BY <1>3, <2>2, <2>3, PostedMore, Counts DEF Grown
  <2>. QED
      BY <1>1, <2>4, <2>5 DEF PauseNext
<1>. QED
    BY <1>1, <1>4, <1>5, <1>6, <1>7

Heard == Core /\ InStep /\ Posted

LEMMA UserInStep ==
  ASSUME Heard, User
  PROVE  PauseNext
<1>. USE Counts DEF Heard
<1>1. SameTold(slot, slot)
    BY DEF SameTold
<1>2. CASE SeekAll
  <2>1. ResumeSlots(FALSE) /\ slot' = Unpaused(slot)
      BY <1>2 DEF SeekAll
  <2>2. Grown
      BY <1>2 DEF SeekAll, Grown
  <2>. QED
      BY <2>1, <2>2, ResumedInStep
<1>3. CASE GoLive
  <2>1. ResumeSlots(FALSE)
        /\ (slot' = Unpaused(slot) \/ slot' = [Unpaused(slot) EXCEPT !.position = 0])
      BY <1>3 DEF GoLive
  <2>2. Grown
      BY <1>3 DEF GoLive, Grown
  <2>. QED
      BY <2>1, <2>2, ResumedInStep
<1>4. CASE Play
  <2>1. ResumeSlots(TRUE) /\ slot' = Unpaused(slot)
      BY <1>4 DEF Play
  <2>2. Grown
      BY <1>4 DEF Play, Grown, seek
  <2>. QED
      BY <2>1, <2>2, ResumedInStep
<1>5. CASE PauseAll
  <2>1. Grown /\ paused' = TRUE
      BY <1>5 DEF PauseAll, Grown, seek
  <2>2. slot'.source = slot.source /\ slot'.told = (slot.source.n # 0)
      BY <1>5 DEF PauseAll, SlotType
  <2>3. /\ slot.source.n \in Nat /\ slot.source.n <= sources
        /\ slot.source.at \in 0 .. MaxGens /\ slot.source.kind \in Kinds
        /\ (slot.source.n = 0) = (slot.source.kind = "none")
      BY DEF Core, Sound, SlotOK, SlotType
  <2>4. CASE slot.source.n = 0
    <3>1. loop' = loop
        BY <1>5, <2>3, <2>4 DEF PauseAll, IsBridge
    <3>. QED
        BY <2>1, <2>2, <2>3, <2>4, <3>1, NoStream, PostedKept DEF PauseNext
  <2>5. CASE slot.source.kind = "rtsp"
    <3>1. loop' = loop /\ slot'.told = paused'
        BY <1>5, <2>1, <2>2, <2>3, <2>5 DEF PauseAll, IsBridge
    <3>2. InStep'
        BY <2>1, <2>2, <2>5, <3>1, Monitored DEF InStep
    <3>. QED
        BY <2>1, <3>1, <3>2, PostedKept DEF PauseNext
  <2>6. CASE slot.source.n # 0 /\ slot.source.kind # "rtsp"
    <3>. PICK m : m = Pausing(slot)
        OBVIOUS
    <3>1. loop' = Append(loop, m)
        BY <1>5, <2>3, <2>6 DEF PauseAll, IsBridge, Kinds
    <3>2. m \in Message /\ m.what = "pause" /\ m.n = slot.source.n
        BY <2>3 DEF Message, Pausing
    <3>3. slot'.told
        BY <2>2, <2>6
    <3>4. InStep'
        BY <2>1, <2>2, <2>6, <3>1, <3>2, <3>3, LastWord
    <3>5. Posted'
        BY <2>1, <2>3, <3>1, <3>2, PostedMore DEF Grown
    <3>. QED
        BY <2>1, <3>4, <3>5 DEF PauseNext
  <2>. QED
      BY <2>4, <2>5, <2>6
<1>6. CASE Clear
  <2>1. slot' = [Cleared(slot) EXCEPT !.cam = NoCam] /\ Grown /\ UNCHANGED <<paused, loop>>
      BY <1>6 DEF Clear, Grown, seek, page
  <2>2. slot'.source = NoSource
      BY <2>1, Dropped DEF SlotType
  <2>. QED
      BY <2>1, <2>2, Silent
<1>7. CASE ReloadAll
    BY <1>1, <1>7, Silent DEF ReloadAll, Grown, seek, page
<1>8. CASE RestartCamera
  <2>1. Stopped(slot) \in SlotType /\ Stopped(slot).source = NoSource
      BY Dropped
  <2>2. CASE away
      BY <1>8, <2>1, <2>2, Silent DEF RestartCamera, Grown, seek, page
  <2>3. CASE ~away
      BY <1>8, <2>1, <2>3, RestartSilent DEF RestartCamera, page
  <2>. QED
      BY <2>2, <2>3
<1>9. CASE LeavePage
  <2>1. slot'.source.n = 0 /\ slot'.source.kind = "none"
    <3>1. CASE slot.cam = NoCam
        BY <1>9, <3>1 DEF LeavePage, Core, Sound, SlotOK, NothingInEmpty
    <3>2. CASE slot.cam # NoCam
        BY <1>9, <3>2, Dropped, DroppedSource DEF LeavePage
    <3>. QED
        BY <3>1, <3>2
  <2>2. Posted'
      BY <1>9, PostedKept DEF LeavePage, Grown
  <2>3. paused' \in BOOLEAN
      BY <1>9 DEF LeavePage
  <2>. QED
      BY <2>1, <2>2, <2>3, NoStream DEF PauseNext
<1>10. CASE ComeBack
  <2>1. CASE slot.cam = NoCam
      BY <1>1, <1>10, <2>1, Silent DEF ComeBack, Grown, seek
  <2>2. CASE slot.cam # NoCam
    <3>. DEFINE t == [slot EXCEPT !.position = 0]
    <3>1. SameTold(slot, t) /\ t \in SlotType /\ t.cam = slot.cam /\ t.on = slot.on
        BY DEF SameTold, SlotType
    <3>2. RestartSlot(t, 0, jobs) /\ UNCHANGED <<paused, loop, sources>>
        BY <1>10, <2>2, <3>1 DEF ComeBack, RestartSlot
    <3>. QED
        BY <3>1, <3>2, RestartSilent
  <2>. QED
      BY <2>1, <2>2
<1>11. CASE \E c \in Cams : Assign(c)
  <2>. PICK c \in Cams : Assign(c)
      BY <1>11
  <2>. PICK on \in BOOLEAN :
         RestartSlot([Cleared(slot) EXCEPT !.cam = c, !.on = on], HistoryTarget(slot), jobs)
      BY DEF Assign
  <2>1. LET t == [Cleared(slot) EXCEPT !.cam = c, !.on = on]
        IN  t \in SlotType /\ t.source = NoSource
      BY Dropped DEF SlotType, Somewhere
  <2>2. UNCHANGED <<paused, loop, sources>>
      BY DEF Assign, page
  <2>. QED
      BY <2>1, <2>2, RestartSilent
<1>. QED
    BY <1>2, <1>3, <1>4, <1>5, <1>6, <1>7, <1>8, <1>9, <1>10, <1>11 DEF User

LEMMA TimerInStep ==
  ASSUME Heard, NEW j \in jobs, Timer(j)
  PROVE  PauseNext
<1>. USE Counts DEF Heard
<1>1. SameTold(slot, slot) /\ Stopped(slot) \in SlotType /\ Stopped(slot).source = NoSource
      /\ Offline(slot).source = NoSource
    BY Dropped DEF SameTold
<1>2. CASE StaggeredStart(j)
    BY <1>1, <1>2, Silent DEF StaggeredStart, StartStream, LostUntilUrl, Grown, seek, page
<1>3. CASE StaggeredReload(j) /\ slot.cam = NoCam
    BY <1>1, <1>3, Silent DEF StaggeredReload, Grown, seek, page
<1>4. CASE StaggeredReload(j) /\ slot.cam # NoCam
    BY <1>1, <1>4, RestartSilent DEF StaggeredReload, page
<1>5. CASE StaggeredSeek(j)
    BY <1>1, <1>5, Silent DEF StaggeredSeek, Grown, seek, page
<1>. QED
    BY <1>2, <1>3, <1>4, <1>5 DEF Timer

LEMMA AnswerInStep ==
  ASSUME Heard, NEW j \in jobs, Answer(j)
  PROVE  PauseNext
<1>. USE Counts DEF Heard
<1>1. SameTold(slot, slot) /\ UNCHANGED <<paused, seek>>
    BY DEF SameTold, Answer, UrlArrives, UrlFails, RecordingFound, NoRecording, SeekDone,
           PositionAnswer, GaveUp, page
<1>2. j \in JobType /\ Named(j) /\ j.gen <= gens /\ j.at \in 0 .. MaxGens
    BY DEF Core, Asked, ErrandsNamed, Named, JobType
<1>3. CASE UNCHANGED <<slot, sources, loop>>
    BY <1>1, <1>3, Silent DEF Grown, seek
<1>4. CASE UrlArrives(j)
  <2>1. CASE away \/ ~SameCamera(j.cam)
      BY <1>3, <1>4, <2>1 DEF UrlArrives
  <2>2. CASE ~(away \/ ~SameCamera(j.cam))
    <3>. PICK kind \in {"live", "rtsp"} : NewSource(kind, j.cam, 0)
        BY <1>4, <2>2 DEF UrlArrives
    <3>. QED
        BY <1>1, StartedInStep
  <2>. QED
      BY <2>1, <2>2
<1>5. CASE RecordingFound(j)
  <2>1. CASE ~NewestLookup(j.gen) \/ ~SameCamera(j.cam)
      BY <1>3, <1>5, <2>1 DEF RecordingFound
  <2>2. CASE ~(~NewestLookup(j.gen) \/ ~SameCamera(j.cam)) /\ ~IsHistory(slot)
      BY <1>1, <1>2, <1>5, <2>2, StartedInStep DEF RecordingFound
  <2>3. CASE ~(~NewestLookup(j.gen) \/ ~SameCamera(j.cam)) /\ IsHistory(slot)
    <3>. PICK m : m = [what |-> "seek", n |-> slot.source.n, at |-> j.at, gen |-> j.gen]
        OBVIOUS
    <3>1. loop' = Append(loop, m) /\ UNCHANGED <<slot, sources>>
        BY <1>5, <2>3 DEF RecordingFound
    <3>2. /\ slot.source.n \in Nat /\ slot.source.n # 0 /\ slot.source.n <= sources
          /\ slot.source.kind = "history"
        BY <2>3 DEF Core, Sound, SlotOK, SlotType, IsHistory
    <3>3. j.gen \in 1 .. gens /\ j.gen \in Nat
        BY <1>2, <1>5 DEF RecordingFound, Named, JobType
    <3>4. m \in Message /\ m.what = "seek" /\ m.n = slot.source.n /\ m.gen = j.gen
        BY <1>2, <3>2, <3>3 DEF Message
    <3>5. InStep'
        BY <1>1, <2>3, <3>1, <3>2, <3>4, LastWord
    <3>6. Posted'
        BY <1>1, <3>1, <3>2, <3>3, <3>4, PostedMore DEF Grown, seek
    <3>. QED
        BY <1>1, <3>5, <3>6 DEF PauseNext, Core
  <2>. QED
      BY <2>1, <2>2, <2>3
<1>6. CASE SeekDone(j) \/ PositionAnswer(j)
  <2>1. slot' \in {slot, [slot EXCEPT !.position = j.at]} /\ UNCHANGED <<loop, sources>>
      BY <1>6 DEF SeekDone, PositionAnswer
  <2>2. SameTold(slot, slot')
      BY <2>1 DEF SameTold, SlotType
  <2>. QED
      BY <1>1, <2>1, <2>2, Silent DEF Grown, seek
<1>7. CASE GaveUp(j)
  <2>1. CASE slot.source.n # j.n
      BY <1>3, <1>7, <2>1 DEF GaveUp
  <2>2. CASE slot.source.n = j.n
    <3>1. slot' = [Stopped(slot) EXCEPT !.lost = TRUE, !.card = "lost"]
          /\ UNCHANGED <<sources, loop>>
        BY <1>7, <2>2 DEF GaveUp
    <3>2. slot'.source = NoSource
        BY <3>1, Dropped DEF SlotType
    <3>. QED
        BY <1>1, <3>1, <3>2, Silent DEF Grown, seek
  <2>. QED
      BY <2>1, <2>2
<1>8. CASE UrlFails(j) \/ NoRecording(j)
    BY <1>3, <1>8 DEF UrlFails, NoRecording
<1>. QED
    BY <1>4, <1>5, <1>6, <1>7, <1>8 DEF Answer

LEMMA OthersInStep ==
  ASSUME Heard, GiveUp \/ Tick \/ LoopStep \/ (\E on \in BOOLEAN : Sync(on)) \/ UNCHANGED vars
  PROVE  PauseNext
<1>. USE Counts DEF Heard
<1>1. SameTold(slot, slot)
    BY DEF SameTold
<1>2. CASE GiveUp \/ UNCHANGED vars
    BY <1>1, <1>2, Silent DEF GiveUp, vars, Grown, seek, page
<1>3. CASE Tick
  <2>1. SameTold(slot, slot')
      BY <1>3 DEF Tick, SameTold, SlotType
  <2>. QED
      BY <1>3, <2>1, Silent DEF Tick, Grown, seek, page
<1>4. CASE LoopStep
  <2>1. Posted' /\ InStep'
      BY <1>4, LoopKeepsCore, LoopInStep
  <2>. QED
      BY <1>4, <2>1 DEF PauseNext, LoopStep, page, Core
<1>5. ASSUME NEW on \in BOOLEAN, Sync(on) PROVE PauseNext
  <2>. DEFINE s == [slot EXCEPT !.on = on]
  <2>1. SameTold(slot, s) /\ s \in SlotType
      BY DEF SameTold, SlotType
  <2>2. CASE away
    <3>1. slot' = s /\ Grown /\ UNCHANGED <<paused, loop>>
        BY <1>5, <2>2 DEF Sync, Grown, seek, page
    <3>. QED
        BY <2>1, <3>1, Silent
  <2>3. CASE ~away
    <3>1. RestartSlot(s, IF on THEN slot.position ELSE 0, jobs) /\ UNCHANGED <<paused, loop, sources>>
        BY <1>5, <2>3 DEF Sync, page
    <3>. QED
        BY <2>1, <3>1, RestartSilent
  <2>. QED
      BY <2>2, <2>3
<1>. QED
    BY <1>2, <1>3, <1>4, <1>5

----------------------------------------------------------------------------
(* The invariant, and what follows from it.                                *)

Rest == away \in BOOLEAN /\ leaving \in BOOLEAN /\ acts \in 0 .. MaxActs

LEMMA Parts == IInv <=> Core /\ InStep /\ Posted /\ Rest
BY Zenon DEF IInv, TypeOK, Core, Sound, Asked, Words, InStep, Posted, Rest

LEMMA InitIInv == Init => IInv
<1>. SUFFICES ASSUME Init PROVE IInv
    OBVIOUS
<1>. PICK c \in Cams :
       slot = [cam |-> c, on |-> TRUE, told |-> FALSE, card |-> "none", lost |-> FALSE, position |-> 0,
               source |-> [n |-> 1, kind |-> "live", cam |-> c, at |-> 0]]
    BY DEF Init
<1>1. c \in Somewhere /\ c # NoCam /\ 0 \in 0 .. MaxGens /\ MaxActs \in Nat
    BY SlotAssumption DEF Somewhere
<1>2. slot \in SlotType
    BY <1>1 DEF SlotType, Kinds
<1>3. slot.cam = c /\ slot.source.n = 1 /\ slot.source.kind = "live" /\ slot.source.cam = c
      /\ slot.lost = FALSE /\ slot.told = FALSE
    OBVIOUS
<1>4. Sound
    BY <1>1, <1>2, <1>3
       DEF Init, Sound, SlotOK, SourceIsForCamera, NothingInEmpty, LeavingKnown, IsHistory
<1>5. Asked /\ Words
    BY <1>1 DEF Init, Asked, ErrandsNamed, Words, MarkIsNewest
<1>6. Posted
    BY DEF Init, Posted, SeeksNamed
<1>7. InStep
    BY <1>3 DEF Init, InStep, PausesLifted, PausesLast, MonitorsNotOnLoop, Own
<1>8. paused \in BOOLEAN /\ away \in BOOLEAN /\ leaving \in BOOLEAN
    BY Zenon DEF Init
<1>9. acts \in 0 .. MaxActs
    BY <1>1 DEF Init
<1>. QED
    BY <1>4, <1>5, <1>6, <1>7, <1>8, <1>9, Parts DEF Core, Rest

LEMMA StepRest == Rest /\ [Next]_vars => Rest'
<1>. SUFFICES ASSUME Rest, [Next]_vars PROVE Rest'
    OBVIOUS
<1>. acts \in Nat
    BY DEF Rest
<1>1. acts' \in {acts, acts + 1} /\ (acts' = acts + 1 => acts < MaxActs)
  <2>1. CASE User
      BY <2>1 DEF User, SeekAll, GoLive, PauseAll, Play, Clear, ReloadAll, RestartCamera,
                  LeavePage, ComeBack, Assign, Act
  <2>2. ASSUME NEW j \in jobs, Timer(j) \/ Answer(j) PROVE acts' = acts
      BY <2>2 DEF Timer, StaggeredStart, StaggeredReload, StaggeredSeek, Answer, UrlArrives,
                  UrlFails, RecordingFound, NoRecording, SeekDone, PositionAnswer, GaveUp
  <2>3. CASE GiveUp \/ LoopStep \/ Tick \/ (\E on \in BOOLEAN : Sync(on)) \/ UNCHANGED vars
    <3>1. CASE GiveUp \/ LoopStep \/ Tick \/ UNCHANGED vars
        BY <3>1 DEF GiveUp, LoopStep, Tick, Act, vars
    <3>2. ASSUME NEW on \in BOOLEAN, Sync(on) PROVE acts' = acts \/ Act
        BY <3>2 DEF Sync, Act
    <3>. QED
        BY <2>3, <3>1, <3>2 DEF Act
  <2>. QED
      BY <2>1, <2>2, <2>3 DEF Next, Rest
<1>2. away' \in BOOLEAN
  <2>1. CASE User
      BY Zenon, <2>1 DEF User, SeekAll, GoLive, PauseAll, Play, Clear, ReloadAll, RestartCamera,
                  LeavePage, ComeBack, Assign, page, Rest
  <2>2. ASSUME NEW j \in jobs, Timer(j) \/ Answer(j) PROVE away' = away
      BY <2>2 DEF Timer, StaggeredStart, StaggeredReload, StaggeredSeek, Answer, UrlArrives,
                  UrlFails, RecordingFound, NoRecording, SeekDone, PositionAnswer, GaveUp, page
  <2>3. CASE GiveUp \/ LoopStep \/ Tick \/ (\E on \in BOOLEAN : Sync(on)) \/ UNCHANGED vars
      BY <2>3 DEF GiveUp, LoopStep, Tick, Sync, vars, page, Rest
  <2>. QED
      BY <2>1, <2>2, <2>3 DEF Next, Rest
<1>3. leaving' \in BOOLEAN
  <2>1. CASE User
      BY Zenon, <2>1 DEF User, SeekAll, GoLive, PauseAll, Play, Clear, ReloadAll, RestartCamera,
                  LeavePage, ComeBack, Assign, LeavingArmed, Rest
  <2>2. ASSUME NEW j \in jobs, Timer(j) \/ Answer(j) PROVE leaving' \in BOOLEAN
    <3>1. \/ leaving' = leaving
          \/ \E kind \in {"live", "rtsp", "history"} : leaving' = (leaving /\ kind = "rtsp")
        BY <2>2 DEF Timer, StaggeredStart, StaggeredReload, StaggeredSeek, Answer, UrlArrives,
                  UrlFails, RecordingFound, NoRecording, SeekDone, PositionAnswer, GaveUp, NewSource
    <3>. QED
        BY Zenon, <3>1 DEF Rest
  <2>3. CASE GiveUp \/ LoopStep \/ Tick \/ (\E on \in BOOLEAN : Sync(on)) \/ UNCHANGED vars
      BY <2>3 DEF GiveUp, LoopStep, Tick, Sync, vars, Rest
  <2>. QED
      BY <2>1, <2>2, <2>3 DEF Next, Rest
<1>4. acts' \in 0 .. MaxActs
    BY <1>1, SlotAssumption DEF Rest
<1>. QED
    BY <1>2, <1>3, <1>4 DEF Rest

LEMMA StepIInv == IInv /\ [Next]_vars => IInv'
<1>. SUFFICES ASSUME IInv, [Next]_vars PROVE IInv'
    OBVIOUS
<1>1. Core /\ InStep /\ Posted /\ Rest /\ Heard
    BY Parts DEF Heard
<1>2. CoreNext /\ PauseNext
  <2>1. CASE User
      BY <1>1, <2>1, UserKeepsCore, UserInStep
  <2>2. ASSUME NEW j \in jobs, Timer(j) \/ Answer(j) PROVE CoreNext /\ PauseNext
      BY <1>1, <2>2, TimerKeepsCore, TimerInStep, AnswerKeepsCore, AnswerInStep
  <2>3. CASE GiveUp \/ LoopStep \/ Tick \/ (\E on \in BOOLEAN : Sync(on)) \/ UNCHANGED vars
      BY <1>1, <2>3, OthersKeepCore, LoopKeepsCore, OthersInStep
  <2>. QED
      BY <2>1, <2>2, <2>3 DEF Next
<1>. QED
    BY Zenon, <1>1, <1>2, StepRest
       DEF CoreNext, PauseNext, IInv, TypeOK, Sound, Asked, Words, InStep, Posted, Rest

THEOREM SlotsInductive == Spec => []IInv
BY InitIInv, StepIInv, PTL DEF Spec

THEOREM SlotTypes == Spec => []TypeOK
<1>1. IInv => TypeOK
    BY DEF IInv
<1>. QED
    BY <1>1, SlotsInductive, PTL

(* A late URL or recording never shows one camera in another's slot.       *)
THEOREM SlotShowsItsCamera == Spec => []SourceIsForCamera
<1>1. IInv => SourceIsForCamera
    BY DEF IInv
<1>. QED
    BY <1>1, SlotsInductive, PTL

(* With the loop empty there is no last word but what the stream was told. *)
THEOREM StreamsFollowPause == Spec => []PauseInStep
<1>1. ASSUME IInv PROVE PauseInStep
  <2>. SUFFICES ASSUME loop = <<>>, slot.source.n # 0, slot.told # paused
                PROVE  paused /\ IsHistory(slot)
      BY DEF PauseInStep
  <2>1. slot.told \in BOOLEAN /\ paused \in BOOLEAN
      BY <1>1 DEF IInv, TypeOK, SlotOK, SlotType
  <2>2. DOMAIN loop = {}
      OBVIOUS
  <2>. QED
      BY <1>1, <2>1, <2>2 DEF IInv, PausesLifted, PausesLast
<1>. QED
    BY <1>1, SlotsInductive, PTL

(* A lookup of an older generation is dropped: the mark is the newest.     *)
THEOREM StaleLookupsAreDropped == Spec => StaleLookupsIgnored
<1>1. ASSUME IInv, \E j \in jobs : RecordingFound(j) /\ j.gen # newest
      PROVE  slot'.source = slot.source /\ loop' = loop
    BY <1>1 DEF IInv, MarkIsNewest, RecordingFound, NewestLookup
<1>. QED
    BY <1>1, SlotsInductive, PTL DEF Spec, StaleLookupsIgnored

(* What could bring a position back to a slot that has left History: a     *)
(* lookup or a seek, whose generation is not 0; the clock of a stream in   *)
(* History, which waits while the slot is leaving.                         *)
LEMMA NoWayBack ==
  ASSUME IInv, [Next]_vars, newest = 0, slot.position = 0, ~\E j \in jobs : PositionAnswer(j)
  PROVE  slot'.position = 0
<1>1. slot \in SlotType /\ Core
    BY Parts, Counts
<1>2. Stopped(slot).position = 0 /\ Stopped(slot).lost = slot.lost
      /\ Cleared(slot).position = 0 /\ Cleared(slot) \in SlotType /\ Stopped(slot) \in SlotType
    BY <1>1, Dropped DEF SlotType, Stopped
<1>3. HistoryTarget(slot) = 0
    BY DEF HistoryTarget
<1>4. ASSUME NEW s \in SlotType, s.position = 0, NEW js, RestartSlot(s, 0, js)
      PROVE  slot'.position = 0
    BY <1>4, Dropped DEF RestartSlot, StartStream, LostUntilUrl
<1>5. CASE slot' = slot \/ slot' = Unpaused(slot) \/ slot' = Stopped(slot)
    BY <1>1, <1>2, <1>5 DEF Unpaused, SlotType
<1>6. CASE User
  <2>1. CASE SeekAll \/ Play \/ ReloadAll
      BY <1>5, <2>1 DEF SeekAll, Play, ReloadAll
  <2>2. CASE GoLive
    <3>1. slot' \in {Unpaused(slot), [Unpaused(slot) EXCEPT !.position = 0]}
        BY <2>2 DEF GoLive
    <3>2. Unpaused(slot) \in SlotType
        BY <1>1 DEF Unpaused, SlotType
    <3>. QED
        BY <1>5, <3>1, <3>2 DEF SlotType
  <2>3. CASE PauseAll
      BY <1>1, <2>3 DEF PauseAll, SlotType
  <2>4. CASE Clear
      BY <1>2, <2>4 DEF Clear, SlotType
  <2>5. CASE RestartCamera \/ LeavePage
      BY <1>2, <1>3, <1>4, <1>5, <2>5 DEF RestartCamera, LeavePage
  <2>6. CASE ComeBack
    <3>1. CASE slot.cam = NoCam
        BY <1>5, <2>6, <3>1 DEF ComeBack
    <3>2. CASE slot.cam # NoCam
      <4>. DEFINE t == [slot EXCEPT !.position = 0]
      <4>1. t \in SlotType /\ t.position = 0
          BY <1>1, SlotAssumption DEF SlotType
      <4>2. slot' \in {t, Offline(t)}
          BY <2>6, <3>2 DEF ComeBack, StartStream, LostUntilUrl
      <4>. HIDE DEF t
      <4>. QED
          BY <4>1, <4>2, Dropped
    <3>. QED
        BY <3>1, <3>2
  <2>7. ASSUME NEW c \in Cams, Assign(c) PROVE slot'.position = 0
    <3>. PICK on \in BOOLEAN :
           RestartSlot([Cleared(slot) EXCEPT !.cam = c, !.on = on], HistoryTarget(slot), jobs)
        BY <2>7 DEF Assign
    <3>1. LET t == [Cleared(slot) EXCEPT !.cam = c, !.on = on]
          IN  t \in SlotType /\ t.position = 0
        BY <1>2 DEF SlotType, Somewhere
    <3>. QED
        BY <1>3, <1>4, <3>1
  <2>. QED
      BY <1>6, <2>1, <2>2, <2>3, <2>4, <2>5, <2>6, <2>7 DEF User
<1>7. ASSUME NEW j \in jobs, Timer(j) PROVE slot'.position = 0
  <2>1. CASE StaggeredStart(j)
      BY <1>1, <1>5, <2>1, Dropped DEF StaggeredStart, StartStream, LostUntilUrl
  <2>2. CASE StaggeredReload(j)
      BY <1>2, <1>3, <1>4, <1>5, <2>2 DEF StaggeredReload
  <2>3. CASE StaggeredSeek(j)
      BY <1>5, <2>3 DEF StaggeredSeek
  <2>. QED
      BY <1>7, <2>1, <2>2, <2>3 DEF Timer
<1>8. ASSUME NEW j \in jobs, Answer(j) PROVE slot'.position = 0
  <2>1. Named(j) /\ mark = 0
      BY <1>1 DEF Core, Asked, ErrandsNamed, Named, Words, MarkIsNewest
  <2>2. CASE UrlArrives(j)
      BY <1>1, <2>2 DEF UrlArrives, NewSource, SlotType
  <2>3. CASE RecordingFound(j) \/ SeekDone(j)
      BY <1>5, <2>1, <2>3 DEF RecordingFound, SeekDone, NewestLookup, Named
  <2>4. CASE UrlFails(j) \/ NoRecording(j)
      BY <1>5, <2>4 DEF UrlFails, NoRecording
  <2>5. CASE GaveUp(j)
      BY <1>2, <1>5, <2>5 DEF GaveUp, SlotType
  <2>. QED
      BY <1>8, <2>2, <2>3, <2>4, <2>5 DEF Answer
<1>9. CASE Tick
    BY <1>1, <1>9 DEF Tick, Core, Sound, LeavingKnown
<1>10. CASE GiveUp \/ UNCHANGED vars
    BY <1>5, <1>10 DEF GiveUp, vars
<1>11. CASE LoopStep
  <2>1. \/ slot' = slot
        \/ \E p, b : slot' = [slot EXCEPT !.source.at = p, !.told = b]
        \/ \E b : slot' = [slot EXCEPT !.told = b]
      BY <1>11 DEF LoopStep
  <2>. QED
      BY <1>1, <2>1 DEF SlotType
<1>12. ASSUME NEW on \in BOOLEAN, Sync(on) PROVE slot'.position = 0
  <2>1. LET s == [slot EXCEPT !.on = on] IN s \in SlotType /\ s.position = 0
      BY <1>1 DEF SlotType
  <2>2. CASE away
      BY <1>12, <2>1, <2>2 DEF Sync
  <2>3. CASE ~away
      BY <1>4, <1>12, <2>1, <2>3 DEF Sync
  <2>. QED
      BY <2>2, <2>3
<1>. QED
    BY <1>6, <1>7, <1>8, <1>9, <1>10, <1>11, <1>12 DEF Next

THEOREM LeavingIsForGood == Spec => LeftMeansLeft
<1>1. ASSUME IInv, [Next]_vars, newest = 0, slot.position = 0, slot'.position # 0
      PROVE  \E j \in jobs : PositionAnswer(j)
    BY <1>1, NoWayBack
<1>. QED
    BY <1>1, SlotsInductive, PTL DEF Spec, LeftMeansLeft

=============================================================================
