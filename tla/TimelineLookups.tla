---- MODULE TimelineLookups ----
(***************************************************************************)
(* The timeline's small questions to the NAS, each answered some time      *)
(* later, when the pointer has moved on, the popover shows another month   *)
(* or has been closed and opened again: the picture of the moment under    *)
(* the pointer, the days of a month that have recordings, and the event    *)
(* types a camera has ever recorded.  They share the layout and the        *)
(* session and nothing else: "kind" says which the behaviour is about.     *)
(***************************************************************************)
EXTENDS Integers

CONSTANTS Cams,        \* cameras a layout may show
          Months, Days, \* of the calendar
          Recorded,    \* <<camera, month, day>> with recordings
          MaxTime,     \* bound: seconds the clock runs
          MaxClicks    \* bound: what the user does

RecordedAssumption == Recorded \subseteq Cams \X Months \X Days
BoundAssumption == MaxTime \in Nat /\ MaxClicks \in Nat
DayAssumption == Days \subseteq Nat \ {0}

Unknown == {0}         \* no answer for the month yet

VARIABLES kind,          \* "picture", "month" or "types"
          shown,         \* cameras of the layout
          api,           \* app.api is not None
          inside, settling, ptr,   \* the pointer, its debounce, its moves
          thumbGen, pictures, thumb,
          calOpen, month, sel, avail, calGen, queries,
          filterOpen, page, scanGen, scans,
          now, happened,           \* events, by the second they begin in
          known, checked,          \* EventTypeHistory: types, checked_until
          clicks

hover == <<inside, settling, ptr, thumbGen, pictures, thumb>>
calendar == <<calOpen, month, sel, avail, calGen, queries>>
scanning == <<filterOpen, page, scanGen, scans>>
events == <<now, happened>>
types == <<known, checked>>
vars == <<kind, shown, api, hover, calendar, scanning, events, types, clicks>>

Clicked == UNCHANGED kind /\ clicks < MaxClicks /\ clicks' = clicks + 1

(***************************************************************************)
(* The pointer over the ruler: once it has rested, a picture is asked for. *)
(***************************************************************************)
PointerMoves ==
    /\ kind = "picture" /\ Clicked /\ inside' = TRUE /\ settling' = TRUE /\ ptr' = ptr + 1
    /\ UNCHANGED <<shown, api, thumbGen, pictures, thumb, calendar, scanning, events, types>>

(* A mutant: the answers still out are not orphaned.                       *)
OnlyHidden == thumb' = 0 /\ UNCHANGED thumbGen

(* _on_timeline_hover_leave.                                               *)
HoverLeave == thumb' = 0 /\ thumbGen' = thumbGen + 1

PointerLeaves ==
    /\ inside /\ inside' = FALSE /\ settling' = FALSE
    /\ HoverLeave
    /\ UNCHANGED <<kind, shown, api, ptr, pictures, calendar, scanning, events, types, clicks>>

PointerRests ==
    /\ settling /\ settling' = FALSE
    /\ \/ /\ api /\ shown # {}
          /\ thumbGen' = thumbGen + 1
          /\ pictures' = pictures \cup {[gen |-> thumbGen + 1, at |-> ptr]}
          /\ UNCHANGED thumb
       \/ /\ ~(api /\ shown # {})
          /\ thumb' = 0 /\ UNCHANGED <<thumbGen, pictures>>
    /\ UNCHANGED <<kind, shown, api, inside, ptr, calendar, scanning, events, types, clicks>>

(* _show_timeline_thumbnail, unless it failed or cannot be decoded.        *)
PictureAnswered ==
    /\ \E r \in pictures :
          /\ pictures' = pictures \ {r}
          /\ thumb' \in {thumb, IF r.gen = thumbGen THEN r.at ELSE thumb}
    /\ UNCHANGED <<kind, shown, api, inside, settling, ptr, thumbGen, calendar,
                   scanning, events, types, clicks>>

(***************************************************************************)
(* The calendar.                                                           *)
(***************************************************************************)
(* _on_calendar_month_changed, once the picker shows month m.              *)
MonthChanged(m) ==
    IF api /\ shown # {}
    THEN /\ calGen' = calGen + 1
         /\ queries' = queries \cup {[gen |-> calGen + 1, month |-> m, cams |-> shown]}
    ELSE UNCHANGED <<calGen, queries>>

(* The popover opens on the moment being watched, or another month is      *)
(* turned to: what was known of the month before is forgotten.             *)
ShowMonth(m, d) ==
    /\ month' = m /\ sel' = d /\ avail' = Unknown
    /\ MonthChanged(m)

OpenCalendar ==
    /\ kind = "month" /\ Clicked /\ ~calOpen /\ calOpen' = TRUE
    /\ \E m \in Months, d \in Days : ShowMonth(m, d)
    /\ UNCHANGED <<shown, api, hover, scanning, events, types>>

TurnMonth ==
    /\ Clicked /\ calOpen /\ UNCHANGED calOpen
    /\ \E m \in Months \ {month} : ShowMonth(m, sel)
    /\ UNCHANGED <<shown, api, hover, scanning, events, types>>

(* A day known to have nothing is not taken: the last one is put back.     *)
PickDay ==
    /\ Clicked /\ calOpen
    /\ \E d \in Days \ {sel} :
          sel' = IF avail # Unknown /\ d \notin avail THEN sel ELSE d
    /\ UNCHANGED <<shown, api, hover, calOpen, month, avail, calGen, queries,
                   scanning, events, types>>

(* is_current_selection_valid: Jump can be clicked.                        *)
JumpOffered == avail # Unknown /\ sel \in avail

(* Jump closes the popover as Cancel and a click elsewhere do.             *)
CloseCalendar ==
    /\ calOpen /\ calOpen' = FALSE
    /\ UNCHANGED <<kind, shown, api, hover, month, sel, avail, calGen, queries,
                   scanning, events, types, clicks>>

DaysOf(r) == {d \in Days : \E c \in r.cams : <<c, r.month, d>> \in Recorded}

(* A mutant: an answer is taken for the month on display, whichever it is. *)
WhicheverMonth(r) == TRUE

(* Not superseded by a newer month view, and of the month on display.      *)
ForThisMonth(r) == r.gen = calGen /\ r.month = month

(* _on_calendar_availability_fetched, or _failed: the month stays unknown. *)
MonthAnswered ==
    /\ \E r \in queries :
          /\ queries' = queries \ {r}
          /\ avail' \in {avail, IF ForThisMonth(r) THEN DaysOf(r) ELSE avail}
    /\ UNCHANGED <<kind, shown, api, hover, calOpen, month, sel, calGen,
                   scanning, events, types, clicks>>

(***************************************************************************)
(* The event filter: every camera's history is scanned, one by one, from   *)
(* where the last scan of that camera left off.                            *)
(***************************************************************************)
(* _scan_next_camera_for_event_types, for scan g with cameras rest to go.  *)
ScanNext(g, all, rest, others) ==
    \/ /\ api /\ rest # {} /\ UNCHANGED page
       /\ \E c \in rest :
             scans' = others \cup {[gen |-> g, cam |-> c, all |-> all, rest |-> rest \ {c},
                                    from |-> checked'[c], cutoff |-> now, found |-> {},
                                    ans |-> "waiting"]}
    \/ /\ api /\ rest = {} /\ scans' = others
       /\ page' = IF \A c \in all : known'[c] = {} THEN "empty" ELSE "checklist"
    \/ ~api /\ scans' = others /\ UNCHANGED page

OpenFilter ==
    /\ kind = "types" /\ Clicked /\ ~filterOpen /\ filterOpen' = TRUE
    /\ UNCHANGED <<shown, api, hover, calendar, events, types>>
    /\ \/ ~api /\ UNCHANGED <<page, scanGen, scans>>
       \/ api /\ scanGen' = scanGen + 1 /\ shown = {} /\ page' = "empty" /\ UNCHANGED scans
       \/ /\ api /\ scanGen' = scanGen + 1 /\ shown # {} /\ page' = "scanning"
          /\ \E c \in shown :
                scans' = scans \cup {[gen |-> scanGen + 1, cam |-> c, all |-> shown,
                                      rest |-> shown \ {c}, from |-> checked[c],
                                      cutoff |-> now, found |-> {}, ans |-> "waiting"]}

(* Cancel, Apply and a click elsewhere: the scan is given up.              *)
CloseFilter ==
    /\ filterOpen /\ filterOpen' = FALSE /\ scanGen' = scanGen + 1
    /\ UNCHANGED <<kind, shown, api, hover, calendar, page, scans, events, types, clicks>>

(* DSM lists what began between the last scan and this one's cutoff.       *)
ServeScan ==
    /\ \E r \in scans :
          /\ r.ans = "waiting"
          /\ \/ scans' = (scans \ {r}) \cup {[r EXCEPT !.ans = "failed"]}
             \/ scans' = (scans \ {r}) \cup {[r EXCEPT !.ans = "listed",
                    !.found = {t \in happened[r.cam] : r.from <= t /\ t <= r.cutoff}]}
    /\ UNCHANGED <<kind, shown, api, hover, calendar, filterOpen, page, scanGen,
                   events, types, clicks>>

(* A mutant: the history is taken as read up to the answer.                *)
CheckedToNow(r) == now

(* checked_until moves to where this camera's scan was asked to stop.      *)
CheckedUntil(r) == r.cutoff

(* A mutant: a camera that cannot be scanned ends the scan.                *)
FailureStops(r) == scans' = scans \ {r} /\ UNCHANGED page

(* _on_camera_event_type_scan_failed: its history stays as it was.         *)
AfterFailure(r) == ScanNext(r.gen, r.all, r.rest, scans \ {r})

(* _on_camera_event_types_scanned, _on_camera_event_type_scan_failed: the  *)
(* next camera; nothing at all if the popover was closed meanwhile.        *)
ScanAnswered ==
    /\ UNCHANGED <<kind, shown, api, hover, calendar, filterOpen, scanGen, events, clicks>>
    /\ \E r \in scans :
          \/ /\ r.ans # "waiting" /\ r.gen # scanGen
             /\ scans' = scans \ {r} /\ UNCHANGED <<page, types>>
          \/ /\ r.ans = "failed" /\ r.gen = scanGen /\ UNCHANGED types
             /\ AfterFailure(r)
          \/ /\ r.ans = "listed" /\ r.gen = scanGen
             /\ known' = [known EXCEPT ![r.cam] = @ \cup r.found]
             /\ checked' = [checked EXCEPT ![r.cam] = CheckedUntil(r)]
             /\ ScanNext(r.gen, r.all, r.rest, scans \ {r})

(***************************************************************************)
(* The rest of the world.                                                  *)
(***************************************************************************)
ChangeLayout ==
    /\ Clicked /\ shown' \in (SUBSET Cams) \ {shown}
    /\ UNCHANGED <<api, hover, calendar, scanning, events, types>>

(* A new kind of event begins at a camera; then the clock moves on.        *)
Happens ==
    /\ kind = "types"
    /\ \E c \in Cams : now \notin happened[c]
                       /\ happened' = [happened EXCEPT ![c] = @ \cup {now}]
    /\ UNCHANGED <<kind, shown, api, hover, calendar, scanning, now, types, clicks>>

Tick ==
    /\ kind = "types" /\ now < MaxTime /\ now' = now + 1
    /\ UNCHANGED <<kind, shown, api, hover, calendar, scanning, happened, types, clicks>>

Logout ==
    /\ Clicked /\ api /\ api' = FALSE
    /\ UNCHANGED <<shown, hover, calendar, scanning, events, types>>

Init ==
    /\ kind \in {"picture", "month", "types"}
    /\ shown = Cams /\ api = TRUE
    /\ inside = FALSE /\ settling = FALSE /\ ptr = 0
    /\ thumbGen = 0 /\ pictures = {} /\ thumb = 0
    /\ calOpen = FALSE /\ month = (CHOOSE m \in Months : TRUE)
    /\ sel = (CHOOSE d \in Days : TRUE)
    /\ avail = Unknown /\ calGen = 0 /\ queries = {}
    /\ filterOpen = FALSE /\ page = "scanning" /\ scanGen = 0 /\ scans = {}
    /\ now = 0 /\ happened = [c \in Cams |-> {}]
    /\ known = [c \in Cams |-> {}] /\ checked = [c \in Cams |-> 0]
    /\ clicks = 0

User == PointerMoves \/ PointerLeaves \/ PointerRests \/ OpenCalendar \/ TurnMonth
          \/ PickDay \/ CloseCalendar \/ OpenFilter \/ CloseFilter \/ ChangeLayout \/ Logout
Answer == PictureAnswered \/ MonthAnswered \/ ScanAnswered
Next == User \/ Answer \/ ServeScan \/ Happens \/ Tick

Spec == Init /\ [][Next]_vars

(* DSM answers or the request times out; the loop runs the callbacks.      *)
FairSpec == Spec /\ WF_vars(ServeScan) /\ WF_vars(ScanAnswered)
----
(* Types; what is remembered is about cameras and moments that exist.      *)
TypeOK ==
    /\ {api, inside, settling, calOpen, filterOpen} \subseteq BOOLEAN
    /\ {ptr, thumb, thumbGen, calGen, scanGen, now, clicks} \subseteq Nat
    /\ shown \subseteq Cams /\ month \in Months /\ sel \in Days
    /\ avail = Unknown \/ avail \subseteq Days
    /\ page \in {"scanning", "checklist", "empty"}
    /\ known \in [Cams -> SUBSET Nat] /\ checked \in [Cams -> Nat]

(* No picture stays or comes up once the pointer has left the ruler.       *)
NoGhostThumbnail == thumb # 0 => inside

(* Jump is offered only where one of the layout's cameras, as it was when  *)
(* the month was asked for, has recordings: never on another month's days. *)
JumpsWhereRecorded ==
    JumpOffered => \E c \in Cams : <<c, month, sel>> \in Recorded

(* Event types are never skipped: whatever began at a camera before its    *)
(* checked_until is among its known types, however scans overlap and fail. *)
NoTypeSkipped ==
    \A c \in Cams : \A t \in happened[c] : t < checked[c] => t \in known[c]

(* An open filter popover does not stay on "Scanning".                     *)
NotScanning == page # "scanning" \/ ~filterOpen \/ ~api
ScanEnds == []<>NotScanning
====
