---- MODULE TimelineNav ----
(***************************************************************************)
(* Moving through recorded time from the shared timeline: clicks on the    *)
(* ruler or the calendar, Back/Forward 10 s, Previous/Next event, Live,    *)
(* layout switches.  Every seek asks the NAS once per slot which recording *)
(* covers the place; the answers come late and in any order.               *)
(* Positions count nudge steps back from now, which is 0.                  *)
(***************************************************************************)
EXTENDS Integers, FiniteSets

CONSTANTS Slots,       \* the visible slots of the layout
          First,       \* the slot a batch starts with, and layouts focus on
          Empty,       \* slots that show no camera
          Windows,     \* search windows of one event search
          Places,      \* how far back a ruler click or an event may be
          MaxClicks    \* bound: the user's clicks

ASSUME SlotAssumption == First \in Slots \ Empty /\ IsFiniteSet(Slots)
ASSUME PlaceAssumption == Places \subseteq Nat
ASSUME WindowAssumption == Windows \in Nat \ {0}

Now == 0
Live == 1              \* no History position
None == 2              \* nothing tracked

VARIABLES pos,         \* per slot: _history_position, or Live
          gen,         \* _seek_generation
          slotGen,     \* _slot_seek_generation, 0 for forgotten
          focus,       \* _timeline_focus_slot
          out,         \* seeks under way: staged, looked up, in the bridge
          pend,        \* _pending_nudge_seconds, in steps
          inFlight,    \* _nudge_seek_in_flight
          timers,      \* nudge timeouts that have not fired
          navGen, searches, busy,  \* event searches and the busy button
          clicks,      \* clicks so far
          asked,       \* history: the user has asked for recorded video
          goal,        \* history: where each slot's newest seek leads
          sum          \* history: what a run of nudges adds up to

nav == <<navGen, searches, busy>>
history == <<asked, goal, sum>>
vars == <<pos, gen, slotGen, focus, out, pend, inFlight, timers, nav, clicks, history>>

Clamp(t) == IF t > Now THEN Now ELSE t
Reference == IF pos[focus] = Live THEN Now ELSE pos[focus]

Mine(s) == {r \in out : r.slot = s /\ r.gen = slotGen[s]}
Quiet(s) == Mine(s) = {}
AllQuiet == out = {} /\ pend = 0 /\ ~inFlight

(* _on_timeline_seek: one generation for the whole batch, stamped on every *)
(* slot at once; the first looks up now, the others wait their turn.       *)
Seek(t, others) ==
    /\ gen' = gen + 1
    /\ slotGen' = [s \in Slots |-> gen + 1]
    /\ goal' = [s \in Slots |-> IF s \in Empty THEN goal[s] ELSE Clamp(t)]
    /\ out' = others \cup
              {[at |-> IF s = First THEN "lookup" ELSE "staged",
                slot |-> s, gen |-> gen + 1, to |-> t] : s \in Slots}

Clicked == clicks < MaxClicks /\ clicks' = clicks + 1

NoSeek(others) == out' = others /\ UNCHANGED <<gen, slotGen, goal>>

(* _flush_timeline_nudge, with the clicks p and the slots at position q.   *)
Flush(p, q, others) ==
    IF p = 0
    THEN /\ NoSeek(others) /\ pend' = 0 /\ inFlight' = FALSE /\ UNCHANGED timers
    ELSE /\ pend' = 0 /\ inFlight' = TRUE /\ timers' = timers + 1
         /\ Seek((IF q[focus] = Live THEN Now ELSE q[focus]) + p, others)

(* _finish_timeline_seek: whatever the outcome, the focus slot's releases  *)
(* the clicks that piled up.  q is where the slots are by now.             *)
Finish(s, q, others) ==
    IF s = focus THEN Flush(pend, q, others)
    ELSE NoSeek(others) /\ UNCHANGED <<pend, inFlight, timers>>

(***************************************************************************)
(* The user.                                                               *)
(***************************************************************************)
Click(t) ==
    /\ Seek(t, out)
    /\ asked' = TRUE /\ sum' = None

RulerClick ==
    /\ Clicked /\ \E t \in Places : Click(-t)
    /\ UNCHANGED <<pos, focus, pend, inFlight, timers, nav>>

(* Back 10 s, or in History Forward 10 s: flushed only if none is out.     *)
Nudge ==
    /\ Clicked
    /\ \E d \in IF pos[focus] = Live THEN {-1} ELSE {-1, 1} :
          /\ sum' = IF AllQuiet THEN Reference + d
                    ELSE IF sum # None THEN sum + d ELSE None
          /\ asked' = TRUE
          /\ IF inFlight
             THEN pend' = pend + d /\ NoSeek(out) /\ UNCHANGED <<inFlight, timers>>
             ELSE Flush(pend + d, pos, out)
    /\ UNCHANGED <<pos, focus, nav>>

(* A mutant: the clicks queued behind a seek are kept.                     *)
ForgetLookupsOnly ==
    /\ slotGen' = [s \in Slots |-> 0]
    /\ navGen' = navGen + 1 /\ busy' = FALSE
    /\ pend' = pend

(* Seeks, searches and clicks still out are made stale.                    *)
ForgetPendingLookups ==
    /\ slotGen' = [s \in Slots |-> 0]
    /\ navGen' = navGen + 1 /\ busy' = FALSE
    /\ pend' = 0

ReturnAllToLive ==
    /\ Clicked /\ ForgetPendingLookups
    /\ pos' = [s \in Slots |-> Live] /\ goal' = pos'
    /\ asked' = FALSE /\ sum' = None
    /\ UNCHANGED <<gen, out, inFlight, timers, searches>>

LiveClicked == ReturnAllToLive /\ UNCHANGED focus
ApplyLayout == ReturnAllToLive /\ focus' = First

(* A click on another slot: the timeline follows it.                       *)
SelectSlot ==
    /\ focus' \in Slots \ {focus} /\ sum' = None
    /\ UNCHANGED <<pos, gen, slotGen, out, pend, inFlight, timers, nav, clicks,
                   asked, goal>>

(* A camera put into a slot that plays recorded video: a batch of one.     *)
AssignCamera ==
    /\ Clicked
    /\ \E s \in Slots :
          /\ pos[s] # Live
          /\ gen' = gen + 1 /\ slotGen' = [slotGen EXCEPT ![s] = gen + 1]
          /\ goal' = [goal EXCEPT ![s] = pos[s]]
          /\ out' = out \cup {[at |-> "lookup", slot |-> s, gen |-> gen + 1, to |-> pos[s]]}
    /\ sum' = None
    /\ UNCHANGED <<pos, focus, pend, inFlight, timers, nav, asked>>

(* Previous/Next event: from the cache, or by a search window by window.   *)
EventClick ==
    /\ Clicked /\ navGen' = navGen + 1
    /\ \/ /\ \E t \in Places : Click(-t)
          /\ busy' = FALSE /\ UNCHANGED searches
       \/ /\ busy' = TRUE
          /\ searches' = searches \cup {[gen |-> navGen + 1, left |-> Windows]}
          /\ UNCHANGED <<gen, slotGen, out, history>>
    /\ UNCHANGED <<pos, focus, pend, inFlight, timers>>

(***************************************************************************)
(* Answers and timers.                                                     *)
(***************************************************************************)
(* A mutant: answers are taken whatever was asked for since.               *)
NothingOvertakes(r) == FALSE

(* A newer seek of the slot, Live or a layout switch came meanwhile.       *)
Overtaken(r) == r.gen # slotGen[r.slot]

(* _run_staggered_one: a seek overtaken while it waited is only finished.  *)
StaggeredSeek ==
    /\ \E r \in out :
          /\ r.at = "staged"
          /\ IF ~Overtaken(r)
             THEN /\ NoSeek(IF r.slot \in Empty THEN out \ {r} ELSE (out \ {r}) \cup {[r EXCEPT !.at = "lookup"]})
                  /\ UNCHANGED <<pend, inFlight, timers>>
             ELSE Finish(r.slot, pos, out \ {r})
    /\ UNCHANGED <<pos, focus, nav, clicks, asked, sum>>

(* _on_history_seek_applied, and what the clicks waiting make of it.       *)
Applied(r) ==
    /\ pos' = [pos EXCEPT ![r.slot] = Clamp(r.to)]
    /\ sum' = IF r.to > Now THEN None ELSE sum
    /\ Finish(r.slot, pos', out \ {r})

(* A seek that found nothing, or failed: the slot stays where it is.       *)
Fruitless(r) ==
    /\ UNCHANGED pos /\ sum' = None
    /\ IF r.slot = focus /\ pend # 0
       THEN Flush(pend, pos, out \ {r})
       ELSE /\ out' = out \ {r} /\ goal' = [goal EXCEPT ![r.slot] = pos[r.slot]]
            /\ inFlight' = (inFlight /\ r.slot # focus)
            /\ UNCHANGED <<gen, slotGen, pend, timers>>

Stale(r) ==
    /\ UNCHANGED <<pos, sum>>
    /\ Finish(r.slot, pos, out \ {r})

RecordingResolved ==
    /\ \E r \in out :
          /\ r.at = "lookup"
          /\ \/ Overtaken(r) /\ Stale(r)
             \/ ~Overtaken(r) /\ Fruitless(r)
             \/ ~Overtaken(r) /\ pos[r.slot] = Live /\ Applied(r)
             \/ /\ ~Overtaken(r) /\ pos[r.slot] # Live
                /\ NoSeek((out \ {r}) \cup {[r EXCEPT !.at = "seek"]})
                /\ UNCHANGED <<pos, pend, inFlight, timers, sum>>
    /\ UNCHANGED <<focus, nav, clicks, asked>>

(* The lookup raised: finished, whether or not it was overtaken.           *)
LookupFailed ==
    /\ \E r \in out :
          /\ r.at = "lookup"
          /\ IF ~Overtaken(r) THEN Fruitless(r) ELSE Stale(r)
    /\ UNCHANGED <<focus, nav, clicks, asked>>

(* The bridge has sought, unless another seek or bridge came between.      *)
BridgeSeekDone ==
    /\ \E r \in out :
          /\ r.at = "seek"
          /\ \/ Overtaken(r) /\ Stale(r)
             \/ ~Overtaken(r) /\ (Applied(r) \/ Fruitless(r))
    /\ UNCHANGED <<focus, nav, clicks, asked>>

(* A mutant: the net gives the click up and leaves the others queued.      *)
TimeoutGivesUp ==
    /\ timers > 0 /\ timers' = timers - 1 /\ inFlight' = FALSE
    /\ NoSeek(out) /\ UNCHANGED <<pend, pos, focus, nav, clicks, asked, sum>>

(* The safety net of a flush, armed by every flush and never cancelled.    *)
NudgeTimeout ==
    /\ timers > 0
    /\ IF inFlight
       THEN /\ pend' = 0 /\ inFlight' = (pend # 0)
            /\ timers' = IF pend = 0 THEN timers - 1 ELSE timers
            /\ IF pend = 0 THEN NoSeek(out) ELSE Seek(Reference + pend, out)
       ELSE timers' = timers - 1 /\ NoSeek(out) /\ UNCHANGED <<pend, inFlight>>
    /\ UNCHANGED <<pos, focus, nav, clicks, asked, sum>>

(* A mutant: an answer ends the search on screen, whichever it was for.    *)
AnySearch(s) == TRUE

(* No later event click, Live or layout switch.                            *)
Heeded(s) == s.gen = navGen

(* One window of an event search is answered.                              *)
SearchAnswered ==
    /\ \E s \in searches :
          LET others == searches \ {s} IN
          \/ /\ ~Heeded(s) /\ searches' = others
             /\ UNCHANGED <<gen, slotGen, out, busy, history>>
          \/ /\ Heeded(s) /\ s.left > 1
             /\ searches' = others \cup {[s EXCEPT !.left = @ - 1]}
             /\ UNCHANGED <<gen, slotGen, out, busy, history>>
          \/ /\ Heeded(s) /\ searches' = others /\ busy' = FALSE
             /\ UNCHANGED <<gen, slotGen, out, history>>
          \/ /\ Heeded(s) /\ searches' = others /\ busy' = FALSE
             /\ \E t \in Places : Click(-t)
    /\ UNCHANGED <<pos, focus, pend, inFlight, timers, navGen, clicks>>

Init ==
    /\ pos = [s \in Slots |-> Live] /\ goal = pos
    /\ gen = 0 /\ slotGen = [s \in Slots |-> 0] /\ focus = First
    /\ out = {} /\ pend = 0 /\ inFlight = FALSE /\ timers = 0
    /\ navGen = 0 /\ searches = {} /\ busy = FALSE
    /\ clicks = 0 /\ asked = FALSE /\ sum = None

User == RulerClick \/ Nudge \/ LiveClicked \/ ApplyLayout \/ SelectSlot
          \/ AssignCamera \/ EventClick
Answers == StaggeredSeek \/ RecordingResolved \/ LookupFailed \/ BridgeSeekDone
Next == User \/ Answers \/ NudgeTimeout \/ SearchAnswered

Spec == Init /\ [][Next]_vars

(* DSM answers or the request times out, timers fire, GTK runs callbacks.  *)
FairSpec == Spec /\ WF_vars(Answers) /\ WF_vars(NudgeTimeout)
                 /\ WF_vars(SearchAnswered)
----
Stages == {"staged", "lookup", "seek"}

(* Types; seeks under way carry a generation that was given out.           *)
TypeOK ==
    /\ pos \in [Slots -> Int] /\ goal \in [Slots -> Int] /\ sum \in Int
    /\ gen \in Nat /\ slotGen \in [Slots -> 0..gen] /\ focus \in Slots
    /\ \A r \in out : r.at \in Stages /\ r.slot \in Slots /\ r.gen \in 1..gen
    /\ pend \in Int /\ timers \in Nat /\ navGen \in Nat
    /\ {inFlight, busy, asked} \subseteq BOOLEAN

(* Whatever the order of the answers: a slot with nothing more to wait for *)
(* is where its newest seek led, or on Live if that was newest.            *)
SettlesOnNewest == \A s \in Slots : Quiet(s) => pos[s] = goal[s]

(* After Live or a layout switch no answer, queued click, timer or event   *)
(* search still out takes a slot back to recorded video.                   *)
LiveStaysLive == ~asked => \A s \in Slots : pos[s] = Live /\ Quiet(s)

(* The event button is busy exactly while a search that will be heeded is  *)
(* out: superseded searches neither leave it busy nor clear it.            *)
BusyIsTrue == busy <=> \E s \in searches : s.gen = navGen

(* The newest thing the user asked for is what the timeline comes to.      *)
NewestWins == SettlesOnNewest /\ LiveStaysLive /\ BusyIsTrue

(* Back/Forward clicks made while a seek is out are acted on in the end,   *)
(* also when the answer that should release them never comes.              *)
NudgesReleased == pend # 0 ~> pend = 0

(* A run of Back/Forward clicks moves as far as the clicks add up to: the  *)
(* timeout may flush early, "never incorrect, just less batched".          *)
(* Violated: the move it releases counts from the place before the first.  *)
NudgesAddUp ==
    AllQuiet /\ sum # None /\ focus \notin Empty => pos[focus] = Clamp(sum)
====
