---------------------------- MODULE EventSearch ----------------------------
(***************************************************************************)
(* Previous and Next event: the event to go to, picked from the events the *)
(* timeline has or else searched for in windows ever further away.  Who    *)
(* owns a search when the user clicks again is TimelineNav's business; an  *)
(* event here is one that passes the filter, in recording time 0 .. Now.   *)
(***************************************************************************)
EXTENDS Integers, Sequences, FiniteSets, FiniteSetsExt

CONSTANTS Cams,        \* cameras of the layout
          Now,         \* wall clock
          Floor,       \* MIN_HISTORY_DELTA_SECONDS: no seek closer than this
          EventLength, \* of an event
          SearchSteps, \* _EVENT_NAV_SEARCH_STEPS
          Graces,      \* grace periods, by speed and view (event_nav_grace_seconds)
          Skip,        \* _EVENT_NAV_NEXT_SKIP_SECONDS
          References,  \* positions searched from
          Stretches,   \* stretches a camera's cache may cover, <<from, to>>
          MaxEvents    \* bound: events recorded

StepsAssumption == SearchSteps \in Seq(Nat \ {0}) /\ SearchSteps # <<>>
StretchAssumption == Now \in Nat /\ Stretches \subseteq (0 .. Now) \X (0 .. Now)
(* Without a camera in the layout nothing is searched for.                 *)
SearchAssumption ==
    /\ Cams # {} /\ References \subseteq Int
    /\ Graces \subseteq Nat /\ Skip \in Nat /\ Floor \in Nat

Nowhere == -1
NotCached == <<>>

VARIABLES events,              \* NAS: what the cameras recorded
          cache,               \* per camera: the stretch it has, or NotCached
          reference, grace,    \* the position played, the grace period
          forward, reverse,    \* Next or Previous; playing backwards
          stage,               \* "idle", "searching", "found", "nothing", "failed"
          windows, target

asked == <<events, cache, reference, grace, forward, reverse>>
vars == <<asked, stage, windows, target>>

Happened == {E \in SUBSET [camera : Cams, start : 0 .. Now] : Cardinality(E) <= MaxEvents}

(* Nothing recorded, nothing asked.                                        *)
Quiet ==
    /\ events = {} /\ cache = [c \in Cams |-> NotCached]
    /\ reference = Now /\ grace = 0 /\ forward = FALSE /\ reverse = FALSE
    /\ stage = "nothing" /\ windows = <<>> /\ target = Nowhere

Idle == stage = "idle" /\ windows = <<>> /\ target = Nowhere
Init ==
    /\ events \in Happened
    /\ cache \in [Cams -> Stretches \cup {NotCached}]
    /\ reference \in References /\ grace \in Graces
    /\ forward \in BOOLEAN /\ reverse \in BOOLEAN
    /\ Idle

(* pick_nav_target: an event is entered at its start, or at its end when   *)
(* playing in reverse; the grace period is against the direction of play.  *)
Anchor(e) == IF reverse THEN e.start + EventLength ELSE e.start
Ahead(t) ==
    IF forward THEN IF reverse THEN t >= reference + grace ELSE t > reference + Skip
    ELSE IF reverse THEN t < reference - Skip ELSE t <= reference - grace
Eligible(e) == e.start <= Now - Floor /\ Ahead(Anchor(e))
Pick(E) ==
    LET at == {Anchor(e) : e \in {x \in E : Eligible(x)}} IN
    IF at = {} THEN Nowhere ELSE IF forward THEN Min(at) ELSE Max(at)

(* _cached_event_coverage, and whether the position lies in it.            *)
Cached == \A c \in Cams : cache[c] # NotCached
Covered == <<Max({cache[c][1] : c \in Cams}), Min({cache[c][2] : c \in Cams})>>
(* A mutant: a stretch elsewhere is taken for the one being played.        *)
Somewhere == Cached
Within == Cached /\ Covered[1] <= reference /\ reference <= Covered[2]

Between(from, to) == {e \in events : from <= e.start /\ e.start <= to}
InCache(e) == cache[e.camera] # NotCached
              /\ e \in Between(cache[e.camera][1], cache[e.camera][2])

(* event_nav_search_windows: each starts where the one before it ended; a  *)
(* step that leads no further adds none.                                   *)
Far(i) == IF forward THEN Min({reference + SearchSteps[i], Now}) ELSE reference - SearchSteps[i]
Edge0 == IF ~Within THEN reference ELSE IF forward THEN Covered[2] ELSE Covered[1]
Widened(s, i) ==
    IF forward /\ Far(i) > s.edge
      THEN [edge |-> Far(i), found |-> Append(s.found, <<s.edge, Far(i)>>)]
    ELSE IF ~forward /\ Far(i) < s.edge
      THEN [edge |-> Far(i), found |-> Append(s.found, <<Far(i), s.edge>>)]
    ELSE s
Windows ==
    LET upto[i \in 0 .. Len(SearchSteps)] ==
            IF i = 0 THEN [edge |-> Edge0, found |-> <<>>] ELSE Widened(upto[i - 1], i)
    IN upto[Len(SearchSteps)].found

(* _search_event_window: the first of what is left, or nothing was found.  *)
Search(ws) ==
    /\ stage' = IF ws = <<>> THEN "nothing" ELSE "searching"
    /\ windows' = ws /\ UNCHANGED target
Found(t) == stage' = "found" /\ target' = t /\ windows' = <<>>

(* _seek_to_nearest_event.                                                 *)
Click ==
    /\ stage = "idle" /\ UNCHANGED asked
    /\ LET t == IF Within THEN Pick({e \in events : InCache(e)}) ELSE Nowhere IN
       IF t = Nowhere THEN Search(Windows) ELSE Found(t)

Listed ==
    /\ stage = "searching" /\ UNCHANGED asked
    /\ LET t == Pick(Between(windows[1][1], windows[1][2])) IN
       IF t = Nowhere THEN Search(Tail(windows)) ELSE Found(t)
Failed ==
    /\ stage = "searching" /\ UNCHANGED <<asked, target>>
    /\ stage' = "failed" /\ windows' = <<>>

Next == Click \/ Listed \/ Failed

Spec == Init /\ [][Next]_vars

Nearer(e) == IF forward THEN Anchor(e) < target ELSE Anchor(e) > target
Reach == {reference - SearchSteps[Len(SearchSteps)], reference + SearchSteps[Len(SearchSteps)]}
AllKnowHere == \A c \in Cams : /\ cache[c] # NotCached
                              /\ cache[c][1] <= reference /\ reference <= cache[c][2]

(* Playing forward, no event between the position and where the search     *)
(* went was skipped, but for one its own camera's cache does not hold when *)
(* all caches hold the position; and nothing is found only if nothing is   *)
(* within reach (_seek_to_nearest_event, pick_nav_target,                  *)
(* event_nav_search_windows).                                              *)
NoEventSkipped ==
    ~reverse =>
    /\ stage = "found" => \A e \in events :
           Eligible(e) /\ Nearer(e) => AllKnowHere /\ ~InCache(e)
    /\ stage = "nothing" => \A e \in events :
           Eligible(e) => e.start < Min(Reach) \/ e.start > Max(Reach)

(* "the nearest one on either side of the current position, across every   *)
(* camera in the layout" (README, Timeline): fails when one camera's cache *)
(* reaches further than another's.                                         *)
NearestOfAll ==
    stage = "found" /\ ~reverse => \A e \in events : Eligible(e) => ~Nearer(e)

(* What is behind the first: the windows left adjoin one another and reach *)
(* as far as the steps do, and up to them no event was found.              *)
Nearest(w) == IF forward THEN w[1] ELSE w[2]
Furthest(w) == IF forward THEN w[2] ELSE w[1]
Adjoining(ws) ==
    /\ \A i \in 1 .. Len(ws) : ws[i][1] < ws[i][2]
    /\ \A i \in 1 .. Len(ws) - 1 : Furthest(ws[i]) = Nearest(ws[i + 1])
Spans(from, ws, to) ==
    IF ws = <<>> THEN from = to
    ELSE Adjoining(ws) /\ Nearest(ws[1]) = from /\ Furthest(ws[Len(ws)]) = to
OutOfReach(edge) ==
    LET far == Far(Len(SearchSteps)) IN IF forward THEN edge >= far ELSE edge <= far
SearchedTo(edge) ==
    \A e \in events : Eligible(e) => IF forward THEN e.start > edge ELSE e.start <= edge

SearchGoesOn ==
    stage = "searching" =>
    /\ windows # <<>> /\ Adjoining(windows)
    /\ OutOfReach(Furthest(windows[Len(windows)]))
    /\ ~reverse => SearchedTo(Nearest(windows[1]))

Knowledge ==
    /\ events \subseteq [camera : Cams, start : 0 .. Now]
    /\ cache \in [Cams -> Stretches \cup {NotCached}]
    /\ reference \in References \cup {Now} /\ grace \in Graces \cup {0}
    /\ forward \in BOOLEAN /\ reverse \in BOOLEAN /\ windows \in Seq(Int \X Int)

IInv == Knowledge /\ SearchGoesOn /\ NoEventSkipped
=============================================================================
