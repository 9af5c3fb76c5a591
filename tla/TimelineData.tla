---- MODULE TimelineData ----
(***************************************************************************)
(* What the shared timeline draws under its ruler: the recordings and the  *)
(* events of the cameras on screen, over the stretch of time in view.      *)
(* The canvas moves the view (or time does, while it follows now); the     *)
(* view fetches what it lacks, padded by one window on each side, one      *)
(* fetch at a time, and keeps the answers per camera.                      *)
(***************************************************************************)
EXTENDS Integers, FiniteSets

CONSTANTS Cams,        \* cameras a layout may show
          Widths,      \* widths of the view, in seconds
          Default,     \* _DEFAULT_WINDOW_SECONDS
          LiveRefresh, \* _PRESENCE_LIVE_REFRESH_SEC
          StartTime, EndTime,  \* bound: wall-clock time runs between them
          MaxMoves     \* bound: pans, zooms, jumps and layout changes

WindowAssumption == Default \in Widths /\ Widths \subseteq Nat \ {0}
TimeAssumption == {StartTime, EndTime, LiveRefresh} \subseteq Nat

None == "none"
NoneAssumption == None \notin Cams
Never == -1

(* A camera's cache entry: the stretch it claims, and when DSM was asked.  *)
NoEntry == [lo |-> 0, hi |-> -1, asOf |-> Never]
NoView == [lo |-> 0, hi |-> -1, force |-> FALSE]
NoCall == [cams |-> {}, lo |-> 0, hi |-> -1, at |-> Never, served |-> Never,
           focus |-> None, active |-> {}]
Failed == -2

VARIABLES now, end, window, following,   \* the canvas
          focus, active,                 \* cameras of the layout
          lastLive, debounce,            \* _presence_last_live_fetch, the timer
          inFlight, pending, call,
          presence, eventsTo,            \* the caches
          drawn,                         \* what the canvas was last given
          lost,                          \* history: the newest fetch failed
          moves

view == <<now, end, window, following>>
layout == <<focus, active>>
asking == <<inFlight, pending, call>>
cache == <<presence, eventsTo>>
vars == <<view, layout, lastLive, debounce, asking, cache, drawn, lost, moves>>

(* _presence_covers, from caches p.                                        *)
Covers(p, c, q) == p[c].lo <= q.lo /\ p[c].hi >= q.hi

(* _apply_timeline_data_to_canvas, from caches p.                          *)
Drawing(f, a, p) ==
    [focus |-> f, active |-> a, span |-> IF f = None THEN NoEntry ELSE p[f]]

(* _refresh_timeline_data of stretch q, for a layout of cameras a with f   *)
(* in focus, from caches p; d is on the canvas until something else is.    *)
RefreshData(q, busy, f, a, p, d) ==
    LET all == a \cup (IF f = None THEN {} ELSE {f})
        needed == {c \in all : q.force \/ ~Covers(p, c, q)}
        pad == q.hi - q.lo
    IN \/ /\ busy /\ pending' = q
          /\ drawn' = d /\ UNCHANGED <<inFlight, call>>
       \/ /\ ~busy /\ needed = {}
          /\ pending' = NoView /\ inFlight' = FALSE /\ call' = NoCall
          /\ drawn' = Drawing(f, a, p)
       \/ /\ ~busy /\ needed # {}
          /\ pending' = NoView /\ inFlight' = TRUE
          /\ call' = [cams |-> needed, lo |-> q.lo - pad, hi |-> q.hi + pad,
                      at |-> now', served |-> Never, focus |-> f, active |-> a]
          /\ drawn' = d

(* _on_timeline_view_changed, with the view at e of width w: while it      *)
(* follows now a fetch every LiveRefresh seconds, else once it has settled.*)
ViewChanged(e, w, follow) ==
    IF follow
    THEN /\ UNCHANGED debounce
         /\ IF lastLive # Never /\ now' - lastLive < LiveRefresh
            THEN UNCHANGED <<asking, drawn, lastLive>>
            ELSE /\ lastLive' = now'
                 /\ RefreshData([lo |-> e - w, hi |-> e, force |-> TRUE], inFlight,
                             focus, active, presence, drawn)
    ELSE /\ debounce' = [lo |-> e - w, hi |-> e, force |-> FALSE]
         /\ UNCHANGED <<asking, drawn, lastLive>>

(***************************************************************************)
(* The canvas.                                                             *)
(***************************************************************************)
(* _clamp_to_live: the view never ends past now, and follows it from there.*)
MoveTo(e, w) ==
    /\ UNCHANGED now /\ window' = w
    /\ end' = (IF e >= now THEN now ELSE e) /\ following' = (e >= now)
    /\ ViewChanged(end', w, following')

Moves == moves < MaxMoves /\ moves' = moves + 1

Ends == (StartTime - 1)..(EndTime + 1)

(* A drag of the ruler.                                                    *)
Pan == Moves /\ \E e \in Ends : MoveTo(e, window)

(* zoom_at keeps the time under the pointer where it is.                   *)
ZoomAt ==
    /\ Moves
    /\ \E w \in Widths \ {window} :
          \E part \in {0, w, w - window} : MoveTo(end + part, w)

(* center_on, of the calendar's jump, always at the default width.         *)
CenterOn == Moves /\ \E t \in Ends : MoveTo(t + Default \div 2, Default)

(* ensure_visible, of every seek: no move if the place is in view already. *)
EnsureVisible ==
    /\ Moves
    /\ \E t \in Ends :
          (t < end - window \/ t > end) /\ MoveTo(t + window \div 2, window)

(* reset_view, of the return to Live.                                      *)
ResetView ==
    /\ Moves /\ UNCHANGED now
    /\ window' = Default /\ end' = now /\ following' = TRUE
    /\ ViewChanged(now, Default, TRUE)

MoveView ==
    /\ Pan \/ ZoomAt \/ CenterOn \/ EnsureVisible \/ ResetView
    /\ UNCHANGED <<layout, cache, lost>>

(* A second passes; a view that follows now is moved along and fetched for.*)
Tick ==
    /\ now < EndTime /\ now' = now + 1
    /\ IF following
       THEN end' = now + 1 /\ UNCHANGED following
            /\ ViewChanged(now + 1, window, TRUE)
       ELSE UNCHANGED <<end, following, lastLive, debounce, asking, drawn>>
    /\ UNCHANGED <<window, layout, cache, lost, moves>>

(***************************************************************************)
(* The view.                                                               *)
(***************************************************************************)
(* _on_presence_debounce_fire.                                             *)
DebounceFires ==
    /\ UNCHANGED view
    /\ debounce # NoView /\ debounce' = NoView
    /\ RefreshData(debounce, inFlight, focus, active, presence, drawn)
    /\ UNCHANGED <<layout, lastLive, cache, lost, moves>>

(* _set_timeline_focus_slot, _save_session, _restore_layout_cameras: other *)
(* cameras on screen, or another of them in the timeline's focus.          *)
ChangeLayout ==
    /\ UNCHANGED view
    /\ Moves
    /\ active' \in SUBSET Cams
    /\ focus' \in active' \cup {None}
    /\ <<focus', active'>> # <<focus, active>>
    /\ RefreshData([lo |-> end - window, hi |-> end, force |-> FALSE], inFlight,
                   focus', active', presence, drawn)
    /\ UNCHANGED <<lastLive, debounce, cache, lost>>

(***************************************************************************)
(* Answers.                                                                *)
(***************************************************************************)
(* DSM answers with what it has recorded by now, or the request fails.     *)
Serve ==
    /\ inFlight /\ call.served = Never
    /\ call' \in {[call EXCEPT !.served = now], [call EXCEPT !.served = Failed]}
    /\ UNCHANGED <<view, layout, lastLive, debounce, inFlight, pending, cache,
                   drawn, lost, moves>>

(* A mutant: what was wanted meanwhile is not asked for.                   *)
SettleOnly(p, d) ==
    inFlight' = FALSE /\ call' = NoCall /\ pending' = NoView /\ drawn' = d

(* _settle_timeline_fetch: what was wanted meanwhile is asked for now.     *)
Settle(p, d) ==
    IF pending = NoView
    THEN inFlight' = FALSE /\ call' = NoCall /\ UNCHANGED pending /\ drawn' = d
    ELSE RefreshData(pending, FALSE, focus, active, p, d)

(* A mutant: the events are trusted as far as the recordings.              *)
WholeStretch(c) == c.hi

(* Previous/Next event trusts the events only up to the request.           *)
TrustedTo(c) == IF c.hi <= c.at THEN c.hi ELSE c.at

DataFetched ==
    /\ UNCHANGED view
    /\ inFlight /\ call.served >= 0
    /\ presence' = [c \in Cams |->
            IF c \in call.cams
            THEN [lo |-> call.lo, hi |-> call.hi, asOf |-> call.served] ELSE presence[c]]
    /\ eventsTo' = [c \in Cams |->
            IF c \in call.cams THEN TrustedTo(call) ELSE eventsTo[c]]
    /\ Settle(presence', Drawing(call.focus, call.active, presence'))
    /\ lost' = FALSE
    /\ UNCHANGED <<layout, lastLive, debounce, moves>>

(* A mutant: the failure is logged and the fetch stays marked in flight.   *)
FailureOnlyLogged ==
    /\ inFlight /\ call.served = Failed /\ lost' = TRUE
    /\ UNCHANGED <<view, layout, lastLive, debounce, asking, cache, drawn, moves>>

DataFailed ==
    /\ UNCHANGED view
    /\ inFlight /\ call.served = Failed
    /\ Settle(presence, drawn) /\ lost' = TRUE
    /\ UNCHANGED <<layout, lastLive, debounce, cache, moves>>

Init ==
    /\ now = StartTime /\ end = StartTime /\ window = Default /\ following = TRUE
    /\ focus = None /\ active = {}
    /\ lastLive = Never /\ debounce = NoView
    /\ inFlight = FALSE /\ pending = NoView /\ call = NoCall
    /\ presence = [c \in Cams |-> NoEntry] /\ eventsTo = [c \in Cams |-> -1]
    /\ drawn = Drawing(None, {}, presence)
    /\ lost = FALSE /\ moves = 0

Answer == DataFetched \/ DataFailed
Next == MoveView \/ Tick \/ DebounceFires \/ ChangeLayout \/ Serve \/ Answer

Spec == Init /\ [][Next]_vars

(* DSM answers or the request times out; the GTK loop runs its timers and  *)
(* what it was handed.                                                     *)
FairSpec == Spec /\ WF_vars(Serve) /\ WF_vars(Answer) /\ WF_vars(DebounceFires)

----
Stretch == [lo : Int, hi : Int, force : BOOLEAN]

(* Types; one fetch at a time, and something waits only behind it.         *)
TypeOK ==
    /\ {now, end, window, moves} \subseteq Int /\ {following, inFlight, lost} \subseteq BOOLEAN
    /\ focus \in Cams \cup {None} /\ active \subseteq Cams
    /\ debounce \in Stretch /\ pending \in Stretch
    /\ presence \in [Cams -> [lo : Int, hi : Int, asOf : Int]]
    /\ eventsTo \in [Cams -> Int]
    /\ pending # NoView => inFlight

Rest == ~inFlight /\ debounce = NoView /\ ~lost

(* With nothing under way and the newest fetch answered, the timeline shows*)
(* the cameras now on screen and in focus, and where the view stands still *)
(* all of it: no answer for another layout or another stretch is left.     *)
RestShowsView ==
    Rest =>
       /\ drawn.focus = focus /\ drawn.active = active
       /\ focus # None /\ ~following =>
             drawn.span.lo <= end - window /\ drawn.span.hi >= end

(* Previous/Next event goes by the cache only where an event would be in   *)
(* it: never past the moment DSM listed the camera's events.               *)
EventsCovered == \A c \in Cams : eventsTo[c] <= presence[c].asOf

(* What is wanted while a fetch is out is asked for once that is settled,  *)
(* however it ends.                                                        *)
NothingWanted == pending = NoView
WantedIsAsked == []<>NothingWanted

(* "treating that as durable coverage would freeze the trailing edge":     *)
(* where the view stands still, what was recorded up to its end is drawn,  *)
(* give or take the seconds between two fetches.                           *)
TrailingEdgeDrawn ==
    Rest /\ ~following /\ focus # None => drawn.span.asOf + LiveRefresh >= end
====
