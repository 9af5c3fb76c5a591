---- MODULE ListPages ----
(***************************************************************************)
(* The pages that list what the NAS has: recordings and time lapses (paged *)
(* by the server), snapshots (paged by the server, or fetched whole and    *)
(* paged here when cameras are chosen) and events (always paged here).     *)
(* A page has one query out at a time; what the user changes meanwhile is  *)
(* remembered and asked for when the answer to the old query lands.        *)
(* "kind" says which of the four the behaviour is about.                   *)
(***************************************************************************)
EXTENDS Integers, FiniteSets

CONSTANTS Cams,        \* cameras (time lapse: tasks) a filter may name
          PageSize,    \* rows on one page
          FirstRows,   \* rows whose thumbnails are fetched at once
          MaxItems,    \* bound: entries the NAS holds for one filter
          MaxChanges   \* bound: times the NAS gains or loses entries

ASSUME SizeAssumption == PageSize \in Nat \ {0}
ASSUME CamAssumption == {"all", "none"} \cap Cams = {}
ASSUME ItemAssumption == MaxItems \in Nat

Kinds == {"rec", "tl", "snap", "evt"}

(* A filter: one camera or all, and whether a time preset is on.           *)
Filters == [cam : Cams \cup {"all"}, preset : BOOLEAN]
All == [cam |-> "all", preset |-> FALSE]
NoFilter == [cam |-> "none", preset |-> FALSE]

Waiting == -1            \* no answer yet
Failed == -2             \* an error instead of an answer
NoList == [f |-> NoFilter, n |-> 0, m |-> 0]
NoCall == [f |-> All, p |-> 0, ans |-> Waiting, m |-> 0]

(* What the page shows: the filter and page its rows were fetched for, how *)
(* many there are, of how many; old when a later query for it failed.      *)
Blank == [f |-> NoFilter, p |-> 0, n |-> 0, total |-> 0, old |-> FALSE]

VARIABLES kind, filter, page,
          api,            \* app.api is not None
          known,          \* the sidebar has its cameras
          loading, pending, call,
          shown,          \* the rows on display and the page label
          total, prevOn, nextOn,
          multi,          \* snapshots: the list is paged here
          held,           \* snapshots and events: the list kept for that
          quick, search,  \* events: the type box, the types of a search
          offered,        \* time lapse tasks, event types the box offers
          tasksOut, gone, \* time lapse: task query out, tasks deleted
          rest, thumbs,   \* recordings: idle callbacks, thumbnail fetches
          items, changes  \* the NAS: entries per filter

ask == <<loading, pending, call, prevOn, nextOn, multi>>
types == <<quick, search, offered>>
tasks == <<tasksOut, gone>>
pictures == <<rest, thumbs>>
nas == <<items, changes>>
display == <<shown, total, held>>
vars == <<kind, filter, page, api, known, ask, display, types, tasks,
          pictures, nas>>

Least(a, b) == IF a <= b THEN a ELSE b
Most(a, b) == IF a >= b THEN a ELSE b

(* max(1, ceil(n / page size)), and the rows of page p of n entries.       *)
Pages(n) == Most(1, (n + PageSize - 1) \div PageSize)
RowsOn(p, n) == Most(0, Least(PageSize, n - p * PageSize))
Listed(f, p, n) ==
    [f |-> f, p |-> p, n |-> RowsOn(p, n), total |-> n, old |-> FALSE]

(***************************************************************************)
(* Asking.  busy is what the handler knows of _loading at the call.        *)
(***************************************************************************)
(* A mutant: the request made meanwhile is dropped.                        *)
PutOffForGood(busy) ==
    /\ loading' = busy /\ call' = IF busy THEN call ELSE NoCall
    /\ UNCHANGED <<pending, prevOn, nextOn, multi>>

PutOff(busy) ==
    /\ pending' = TRUE /\ loading' = busy
    /\ call' = IF busy THEN call ELSE NoCall
    /\ UNCHANGED <<prevOn, nextOn, multi>>

(* A mutant: _reload_pending is not cleared when the reload goes out.      *)
QueryStillPending(f, p) ==
    /\ loading' = TRUE /\ pending' = pending
    /\ call' = [f |-> f, p |-> p, ans |-> Waiting, m |-> 0]

Query(f, p) ==
    /\ loading' = TRUE /\ pending' = FALSE
    /\ call' = [f |-> f, p |-> p, ans |-> Waiting, m |-> 0]

ButtonsOff == prevOn' = FALSE /\ nextOn' = FALSE

RecLoad(busy, f, p) ==
    IF ~api \/ busy THEN PutOff(busy)
    ELSE Query(f, p) /\ ButtonsOff /\ UNCHANGED multi

TlLoad(busy, f, p) ==
    IF ~api \/ busy THEN PutOff(busy)
    ELSE Query(f, p) /\ ButtonsOff /\ UNCHANGED multi

(* With cameras chosen the whole time range is fetched, whatever the page. *)
SnapLoad(busy, f, p) ==
    IF ~api \/ busy THEN PutOff(busy)
    ELSE /\ multi' = (f.cam # "all")
         /\ Query(f, IF multi' THEN 0 ELSE p)
         /\ ButtonsOff

(* No cameras known and none chosen: there is nothing to ask yet.          *)
EvtLoad(busy, f, cams) ==
    /\ UNCHANGED <<prevOn, nextOn, multi>>
    /\ IF api /\ ~busy /\ (f.cam # "all" \/ cams)
       THEN Query(f, 0)
       ELSE /\ pending' = (pending \/ (api /\ busy))
            /\ loading' = busy
            /\ call' = IF busy THEN call ELSE NoCall

Load(busy, f, p) ==
    /\ filter' = f /\ page' = p
    /\ CASE kind = "rec" -> RecLoad(busy, f, p)
         [] kind = "tl" -> TlLoad(busy, f, p)
         [] kind = "snap" -> SnapLoad(busy, f, p)
         [] kind = "evt" -> EvtLoad(busy, f, known)

(***************************************************************************)
(* The user: filters, pages, showing the page again.  After a logout the   *)
(* pages are out of reach behind the logged-out one.                       *)
(***************************************************************************)
(* Camera box or row button, preset on or off, Reset, the search dialog.   *)
FilterChoices ==
    [cam : Cams \cup {"all"}, preset : {filter.preset}]
        \cup [cam : {filter.cam}, preset : {~filter.preset}]
        \cup {All} \cup Filters

RecFilter == kind = "rec" /\ \E f \in FilterChoices : Load(loading, f, 0)
SnapFilter == kind = "snap" /\ \E f \in FilterChoices : Load(loading, f, 0)

(* The camera box of the events page leaves the page number to the answer. *)
EvtFilter ==
    /\ kind = "evt"
    /\ \/ \E c \in Cams \cup {"all"} :
             Load(loading, [filter EXCEPT !.cam = c], page) /\ UNCHANGED types
       \/ Load(loading, [filter EXCEPT !.preset = ~@], 0) /\ UNCHANGED types
       \/ /\ Load(loading, All, 0)
          /\ quick' = FALSE /\ search' = FALSE /\ UNCHANGED offered
       \/ /\ \E f \in Filters : Load(loading, f, 0)
          /\ search' \in BOOLEAN /\ UNCHANGED <<quick, offered>>

TlFilter ==
    /\ kind = "tl"
    /\ \E c \in {"all"} \cup (IF offered THEN Cams ELSE {}) :
          c # filter.cam /\ Load(loading, [cam |-> c, preset |-> FALSE], 0)

ChooseFilter ==
    /\ api
    /\ UNCHANGED <<kind, api, known, display, tasks, pictures, nas>>
    /\ \/ (RecFilter \/ SnapFilter \/ TlFilter) /\ UNCHANGED types
       \/ EvtFilter

(* The page is opened again, Refresh, or a delete or a lock was answered.  *)
Refresh ==
    /\ Load(loading, filter, page)
    /\ tasksOut' \in {tasksOut, kind = "tl" /\ api}
    /\ UNCHANGED <<kind, api, known, display, types, gone, pictures, nas>>

(* The sidebar fills: snapshots reload for the names, events if unfiltered.*)
RefreshCameraFilter ==
    /\ api /\ ~known /\ known' = TRUE
    /\ UNCHANGED <<filter, page>>
    /\ CASE kind = "snap" -> SnapLoad(loading, filter, page)
         [] kind = "evt" /\ filter.cam = "all" -> EvtLoad(loading, filter, TRUE)
         [] OTHER -> UNCHANGED ask
    /\ UNCHANGED <<kind, api, display, types, tasks, pictures, nas>>

(***************************************************************************)
(* Paging what is held here.                                               *)
(***************************************************************************)
Clamped(p, n) == Most(0, Least(p, Pages(n) - 1))

(* _render_multi_camera_page and _render_page of its slice.                *)
SnapRender(h, p) ==
    LET q == Clamped(p, h.n) IN
    /\ page' = q /\ total' = h.n
    /\ shown' = Listed(h.f, q, h.n)
    /\ prevOn' = (q > 0) /\ nextOn' = (q < Pages(h.n) - 1)

Matching(h, q, s) == IF q \/ s THEN h.m ELSE h.n

EvtRender(h, p, q, s) ==
    LET n == Matching(h, q, s)
        pp == Clamped(p, n)
    IN /\ page' = pp
       /\ shown' = Listed(h.f, pp, n)
       /\ prevOn' = (pp > 0) /\ nextOn' = (pp < Pages(n) - 1)

RecTurn(p) == kind = "rec" /\ Load(loading, filter, p) /\ UNCHANGED display
TlTurn(p) == kind = "tl" /\ Load(loading, filter, p) /\ UNCHANGED display

SnapTurn(p) ==
    /\ kind = "snap"
    /\ \/ /\ multi /\ SnapRender(held, p)
          /\ UNCHANGED <<filter, held, loading, pending, call, multi>>
       \/ ~multi /\ Load(loading, filter, p) /\ UNCHANGED display

EvtTurn(p) ==
    /\ kind = "evt" /\ EvtRender(held, p, quick, search)
    /\ UNCHANGED <<filter, total, held, loading, pending, call, multi>>

(* Previous and Next, when they can be clicked.                            *)
Turn ==
    /\ api
    /\ \E p \in (IF prevOn THEN {Most(0, page - 1)} ELSE {})
                 \cup (IF nextOn THEN {page + 1} ELSE {}) :
          RecTurn(p) \/ TlTurn(p) \/ SnapTurn(p) \/ EvtTurn(p)
    /\ UNCHANGED <<kind, api, known, types, tasks, pictures, nas>>

(* The quick type box of the events page; a search's types give way to it. *)
ChooseType ==
    /\ api /\ kind = "evt"
    /\ \E q \in BOOLEAN :
          /\ q => offered
          /\ q # quick
          /\ quick' = q /\ search' = FALSE
          /\ EvtRender(held, 0, q, FALSE)
    /\ UNCHANGED <<kind, filter, api, known, loading, pending, call, multi,
                   total, held, offered, tasks, pictures, nas>>

(***************************************************************************)
(* Answers.  Every handler clears _loading, and asks again instead of      *)
(* showing an answer when something was put off meanwhile.                 *)
(***************************************************************************)
Answered == loading /\ call.ans # Waiting
Got == Answered /\ call.ans >= 0
Lost == Answered /\ call.ans = Failed

Again == Load(FALSE, filter, page)
Idle == loading' = FALSE /\ call' = NoCall /\ UNCHANGED <<filter, pending, multi>>

(* _clear_rows: fetches for the old rows are cancelled, and what an idle   *)
(* callback still holds of them belongs to an older generation.            *)
ClearRows ==
    /\ thumbs' = {}
    /\ rest' = IF rest = {} THEN {} ELSE {"old"}

LastPage(n) == Most(0, (n - 1) \div PageSize)

RecLoaded ==
    /\ kind = "rec" /\ Got
    /\ LET n == call.ans IN
       \/ pending /\ Again /\ UNCHANGED <<display, pictures>>
       \/ /\ ~pending /\ total' = n /\ page > 0 /\ page * PageSize >= n
          /\ Load(FALSE, filter, LastPage(n))
          /\ UNCHANGED <<shown, held, pictures>>
       \/ /\ ~pending /\ total' = n /\ (page = 0 \/ page * PageSize < n)
          /\ Idle /\ UNCHANGED <<page, held>>
          /\ shown' = [Listed(call.f, page, n) EXCEPT !.p = call.p]
          /\ thumbs' = IF RowsOn(page, n) > 0 THEN {"new"} ELSE {}
          /\ rest' = (IF rest = {} THEN {} ELSE {"old"})
                        \cup (IF RowsOn(page, n) > FirstRows THEN {"new"} ELSE {})
          /\ prevOn' = (page > 0) /\ nextOn' = ((page + 1) * PageSize < n)

RecError ==
    /\ kind = "rec" /\ Lost
    /\ \/ pending /\ Again /\ UNCHANGED <<display, pictures>>
       \/ /\ ~pending /\ Idle /\ ClearRows
          /\ shown' = Blank /\ total' = 0
          /\ prevOn' = (page > 0) /\ nextOn' = FALSE
          /\ UNCHANGED <<page, held>>

(* The rows past the first few are fetched for in an idle callback.        *)
LoadRest ==
    /\ \E g \in rest :
          /\ rest' = rest \ {g}
          /\ thumbs' = IF g = "new" /\ api THEN thumbs \cup {g} ELSE thumbs
    /\ UNCHANGED <<kind, filter, page, api, known, ask, display, types, tasks, nas>>

TlLoaded ==
    /\ kind = "tl" /\ Got /\ UNCHANGED pictures
    /\ LET n == call.ans IN
       \/ pending /\ Again /\ UNCHANGED display
       \/ /\ ~pending /\ total' = n /\ page > 0 /\ page * PageSize >= n
          /\ Load(FALSE, filter, LastPage(n)) /\ UNCHANGED <<shown, held>>
       \/ /\ ~pending /\ total' = n /\ (page = 0 \/ page * PageSize < n)
          /\ Idle /\ UNCHANGED <<page, held>>
          /\ shown' = [Listed(call.f, page, n) EXCEPT !.p = call.p]
          /\ prevOn' = (page > 0) /\ nextOn' = ((page + 1) * PageSize < n)

(* The rows of the list before stay; only the log tells.                   *)
TlError ==
    /\ kind = "tl" /\ Lost /\ UNCHANGED <<total, held, pictures>>
    /\ shown' = [shown EXCEPT !.old = TRUE]
    /\ \/ pending /\ api /\ Again
       \/ /\ ~(pending /\ api) /\ Idle /\ UNCHANGED page
          /\ prevOn' = (page > 0) /\ nextOn' = ((page + 1) * PageSize < total)

SnapLoaded ==
    /\ kind = "snap" /\ ~multi /\ Got /\ UNCHANGED pictures
    /\ LET n == call.ans IN
       \/ pending /\ Again /\ UNCHANGED display
       \/ /\ ~pending /\ total' = n
          /\ held' = [f |-> call.f, n |-> RowsOn(call.p, n), m |-> 0]
          /\ shown' = Listed(call.f, call.p, n)
          /\ \/ page >= Pages(n) /\ Load(FALSE, filter, Pages(n) - 1)
             \/ /\ page < Pages(n) /\ Idle /\ UNCHANGED page
                /\ prevOn' = (page > 0) /\ nextOn' = (page < Pages(n) - 1)

(* A mutant: the answer is shown although the filter changed meanwhile.    *)
SnapMultiShowsAnyway ==
    /\ kind = "snap" /\ multi /\ Got /\ UNCHANGED pictures
    /\ Idle /\ held' = [f |-> call.f, n |-> call.ans, m |-> 0]
    /\ SnapRender(held', page)

SnapMultiLoaded ==
    /\ kind = "snap" /\ multi /\ Got /\ UNCHANGED pictures
    /\ \/ pending /\ Again /\ UNCHANGED display
       \/ /\ ~pending /\ Idle
          /\ held' = [f |-> call.f, n |-> call.ans, m |-> 0]
          /\ SnapRender(held', page)

SnapError ==
    /\ kind = "snap" /\ Lost /\ UNCHANGED pictures
    /\ \/ pending /\ Again /\ UNCHANGED display
       \/ /\ ~pending /\ Idle /\ UNCHANGED <<page, total>>
          /\ held' = NoList
          /\ shown' = Blank
          /\ prevOn' = (page > 0) /\ nextOn' = FALSE

(* The type box is rebuilt from the new events: a type they lack is let go.*)
EvtLoaded ==
    /\ kind = "evt" /\ Got /\ UNCHANGED pictures
    /\ \/ pending /\ Again /\ UNCHANGED <<display, types>>
       \/ /\ ~pending /\ Idle
          /\ held' = [f |-> call.f, n |-> call.ans, m |-> call.m]
          /\ offered' = (call.m > 0) /\ quick' = (quick /\ offered')
          /\ EvtRender(held', 0, quick', search) /\ UNCHANGED <<search, total>>

EvtError ==
    /\ kind = "evt" /\ Lost /\ UNCHANGED <<pictures, types>>
    /\ \/ pending /\ Again /\ UNCHANGED display
       \/ /\ ~pending /\ Idle /\ UNCHANGED total
          /\ held' = NoList
          /\ page' = 0 /\ prevOn' = FALSE /\ nextOn' = FALSE
          /\ shown' = Blank

Answer ==
    /\ \/ (RecLoaded \/ RecError) /\ UNCHANGED types
       \/ (TlLoaded \/ TlError) /\ UNCHANGED types
       \/ (SnapLoaded \/ SnapMultiLoaded \/ SnapError) /\ UNCHANGED types
       \/ EvtLoaded \/ EvtError
    /\ UNCHANGED <<kind, api, known, tasks, nas>>

(* The task box is rebuilt; a chosen task that is gone falls back to all.  *)
TasksLoaded ==
    /\ tasksOut /\ tasksOut' = FALSE
    /\ offered' = ~gone
    /\ IF gone /\ filter.cam # "all"
       THEN Load(loading, All, 0)
       ELSE UNCHANGED <<filter, page, ask>>
    /\ UNCHANGED <<kind, api, known, display, quick, search, gone, pictures, nas>>

(***************************************************************************)
(* The NAS, and the session.                                               *)
(***************************************************************************)
Serve ==
    /\ loading /\ call.ans = Waiting
    /\ \/ call' = [call EXCEPT !.ans = Failed]
       \/ \E m \in (IF kind = "evt" THEN {0, items} ELSE {0}) :
             call' = [call EXCEPT !.ans = items, !.m = m]
    /\ UNCHANGED <<kind, filter, page, api, known, loading, pending, prevOn, nextOn,
                   multi, display, types, tasks, pictures, nas>>

(* Entries come and go: recorded, deleted by the user or by the NAS.       *)
NasChanges ==
    /\ changes < MaxChanges /\ changes' = changes + 1
    /\ \/ items' \in 0..MaxItems /\ items' # items /\ UNCHANGED gone
       \/ kind = "tl" /\ ~gone /\ gone' = TRUE /\ UNCHANGED items
    /\ UNCHANGED <<kind, filter, page, api, known, ask, display, types, tasksOut, pictures>>

(* _on_logout: app.api becomes None while answers are on their way.        *)
Logout ==
    /\ api /\ api' = FALSE
    /\ UNCHANGED <<kind, filter, page, known, ask, display, types, tasks, pictures, nas>>

(* Each page ends __init__ with a load; the filter may be a saved one.     *)
Init ==
    /\ kind \in Kinds
    /\ filter \in (IF kind = "tl" THEN {All} ELSE Filters)
    /\ page = 0 /\ api = TRUE /\ known \in BOOLEAN
    /\ loading = ~(kind = "evt" /\ filter.cam = "all" /\ ~known)
    /\ pending = FALSE /\ prevOn = FALSE /\ nextOn = FALSE
    /\ call = IF loading THEN [f |-> filter, p |-> 0, ans |-> Waiting, m |-> 0]
                         ELSE NoCall
    /\ multi = (kind = "snap" /\ filter.cam # "all")
    /\ shown = Blank /\ total = 0 /\ held = NoList
    /\ quick = FALSE /\ search \in (IF kind = "evt" THEN BOOLEAN ELSE {FALSE})
    /\ offered = FALSE /\ tasksOut = (kind = "tl") /\ gone = FALSE
    /\ rest = {} /\ thumbs = {}
    /\ items \in 0..MaxItems /\ changes = 0

User == ChooseFilter \/ Refresh \/ RefreshCameraFilter \/ Turn \/ ChooseType \/ Logout
Next == User \/ Answer \/ LoadRest \/ TasksLoaded \/ Serve \/ NasChanges

Spec == Init /\ [][Next]_vars

(* The NAS answers (or the request times out) and the GTK loop runs what   *)
(* it was handed; the user owes nothing.                                   *)
FairSpec == Spec /\ WF_vars(Serve) /\ WF_vars(Answer) /\ WF_vars(LoadRest)
                 /\ WF_vars(TasksLoaded)

----
(* Every variable keeps its type: no page below the first, no answer       *)
(* without a query, one query at a time.                                   *)
TypeOK ==
    /\ kind \in Kinds /\ filter \in Filters /\ page \in Nat
    /\ {api, known, loading, pending, prevOn, nextOn, multi, quick, search,
        offered, tasksOut, gone} \subseteq BOOLEAN
    /\ call \in [f : Filters, p : Nat, ans : Nat \cup {Waiting, Failed}, m : Nat]
    /\ shown \in [f : Filters \cup {NoFilter}, p : Nat, n : Nat, total : Nat, old : BOOLEAN]
    /\ held \in [f : Filters \cup {NoFilter}, n : Nat, m : Nat]
    /\ total \in Nat /\ items \in Nat /\ changes \in Nat
    /\ rest \subseteq {"new", "old"} /\ thumbs \subseteq {"new", "old"}

(* Whether the page has something to ask for at all.                       *)
Askable == api /\ (kind # "evt" \/ known \/ filter.cam # "all")

(* With no query out, the page shows the filter and the page number chosen *)
(* (or an error, or is marked old), is not stranded past the last entry,   *)
(* and Previous and Next lead to where there are entries and only there.   *)
ViewIsRight ==
    Askable /\ ~loading =>
       \/ shown.f = NoFilter /\ shown.n = 0
       \/ shown.old
       \/ /\ shown.f = filter /\ shown.p = page
          /\ shown.n = 0 => shown.total = 0
          /\ prevOn <=> page > 0
          /\ nextOn <=> (page + 1) * PageSize < shown.total

(* A task or a quick type that the box no longer offers is not filtered by.*)
FilterIsOffered ==
    /\ kind = "evt" /\ quick => offered
    /\ kind = "tl" /\ ~offered => filter.cam = "all"

(* No thumbnail is being fetched for rows that are not on display: each    *)
(* fetch takes one of the few connections from the rows that are.          *)
NoThumbsForOldRows == "old" \notin thumbs

(* The three together: what a page at rest may be relied on for.           *)
PagesRight == ViewIsRight /\ FilterIsOffered /\ NoThumbsForOldRows

(* What was put off while a query was out is asked for.                    *)
ReloadHappens == pending /\ Askable ~> ~pending \/ ~Askable

(* However answers and clicks interleave, the list on display changes only *)
(* to the one chosen at that moment: the abstract page is implemented.     *)
LL == INSTANCE LatestList WITH Wants <- Filters, Nothing <- NoFilter,
                               want <- filter, have <- shown.f
ShowsLatest == LL!Spec
====
