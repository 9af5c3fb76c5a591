---- MODULE ListPagesProofs ----
(***************************************************************************)
(* The pages of rows, for any filters, page size and bounds: a page at     *)
(* rest shows what was chosen last, its buttons lead where there is        *)
(* something, and every step is one LatestList allows.  What an answer     *)
(* brings was asked for before it came; the invariant therefore says of    *)
(* the query out that it is for the filter and the page chosen now, or     *)
(* that its answer will be thrown away because something was put off.      *)
(***************************************************************************)
EXTENDS ListPages, TLAPS

(***************************************************************************)
(* The invariant.                                                          *)
(***************************************************************************)

Calls == [f : Filters, p : Nat, ans : Nat \cup {Waiting, Failed}, m : Nat]
Rows == [f : Filters \cup {NoFilter}, p : Nat, n : Nat, total : Nat, old : BOOLEAN]
Lists == [f : Filters \cup {NoFilter}, n : Nat, m : Nat]

ChoiceTypes ==
    /\ kind \in Kinds /\ filter \in Filters /\ page \in Nat
    /\ api \in BOOLEAN /\ known \in BOOLEAN

AskTypes ==
    /\ loading \in BOOLEAN /\ pending \in BOOLEAN /\ prevOn \in BOOLEAN
    /\ nextOn \in BOOLEAN /\ multi \in BOOLEAN
    /\ call \in Calls

(* The query out is for what is chosen, unless its answer is to be dropped.*)
CallFits ==
    loading /\ ~pending =>
        /\ call.f = filter
        /\ kind \in {"rec", "tl"} \/ (kind = "snap" /\ ~multi) => call.p = page

DisplayTypes == shown \in Rows /\ held \in Lists /\ total \in Nat

(* The rows of a list kept here are cut from it; no list, no rows; only a  *)
(* time lapse list is left on display when it could not be fetched again.  *)
ShownFits ==
    /\ kind \in {"snap", "evt"} => held.f = shown.f
    /\ held.f = NoFilter => held.n = 0 /\ held.m = 0
    /\ shown.f = NoFilter => shown.n = 0
    /\ shown.old => kind = "tl"

BoxTypes ==
    /\ quick \in BOOLEAN /\ search \in BOOLEAN /\ offered \in BOOLEAN
    /\ tasksOut \in BOOLEAN /\ gone \in BOOLEAN

OtherTypes ==
    /\ items \in Nat /\ changes \in Nat
    /\ rest \subseteq {"new", "old"} /\ thumbs \subseteq {"new", "old"}

Core == ChoiceTypes /\ AskTypes /\ CallFits /\ DisplayTypes /\ ShownFits /\ ViewIsRight

Boxes ==
    /\ BoxTypes /\ FilterIsOffered
    /\ tasksOut => kind = "tl"

Pictures == OtherTypes /\ NoThumbsForOldRows

IInv == Core /\ Boxes /\ Pictures

(* What a step may do to the display, as LatestList has it.                *)
Shows ==
    \/ filter' \in Filters /\ shown'.f = shown.f
    \/ filter' = filter /\ shown'.f \in {filter, NoFilter}

(* What ViewIsRight asks of a list on display.                             *)
ViewFits ==
    /\ shown.p = page
    /\ shown.n = 0 => shown.total = 0
    /\ prevOn <=> page > 0
    /\ nextOn <=> (page + 1) * PageSize < shown.total

(***************************************************************************)
(* Pages and rows.                                                         *)
(***************************************************************************)
LEMMA Scaling ==
    ASSUME NEW a \in Int, NEW b \in Int, NEW k \in Nat, a <= b
    PROVE  a * k <= b * k
<1>1. (b - a) \in Nat
    OBVIOUS
<1>2. \A x \in Nat, y \in Nat : x * y >= 0
    OBVIOUS
<1>3. (b - a) * k >= 0
    BY <1>1, <1>2
<1> QED  BY <1>3

(* Division rounds down: (n + size - 1) div size pages hold n rows.        *)
LEMMA Rounding ==
    ASSUME NEW n \in Nat
    PROVE  /\ (n + PageSize - 1) \div PageSize \in Nat
           /\ ((n + PageSize - 1) \div PageSize) * PageSize <= n + PageSize - 1
           /\ n + PageSize - 1 < ((n + PageSize - 1) \div PageSize + 1) * PageSize
BY SizeAssumption

(* There is a page after p exactly if rows are left after it.              *)
LEMMA Paging ==
    ASSUME NEW n \in Nat, NEW p \in Nat
    PROVE  /\ Pages(n) \in Nat \ {0}
           /\ p < Pages(n) - 1 <=> (p + 1) * PageSize < n
           /\ p < Pages(n) /\ n > 0 => p * PageSize < n
<1> DEFINE q == (n + PageSize - 1) \div PageSize
<1>1. /\ q \in Nat
      /\ q * PageSize <= n + PageSize - 1
      /\ n + PageSize - 1 < (q + 1) * PageSize
    BY Rounding
<1>2. Pages(n) = IF 1 >= q THEN 1 ELSE q
    BY <1>1 DEF Pages, Most
<1> HIDE DEF q
<1>3. /\ PageSize \in Nat \ {0}
      /\ (q + 1) * PageSize = q * PageSize + PageSize
      /\ (p + 1) * PageSize = p * PageSize + PageSize
      /\ (p + 2) * PageSize = p * PageSize + PageSize + PageSize
      /\ p * PageSize \in Nat /\ q * PageSize \in Nat
    BY <1>1, SizeAssumption
<1>4. p + 2 <= q => (p + 2) * PageSize <= q * PageSize
    BY <1>1, Scaling, SizeAssumption
<1>5. q <= p + 1 => q * PageSize <= (p + 1) * PageSize
    BY <1>1, Scaling, SizeAssumption
<1>6. p + 1 <= q => (p + 1) * PageSize <= q * PageSize
    BY <1>1, Scaling, SizeAssumption
<1>7. p < Pages(n) - 1 <=> (p + 1) * PageSize < n
    <2>1. CASE p + 2 <= q
        BY <2>1, <1>1, <1>2, <1>3, <1>4
    <2>2. CASE q <= p + 1
        BY <2>2, <1>1, <1>2, <1>3, <1>5
    <2> QED  BY <2>1, <2>2, <1>1
<1>8. ASSUME p < Pages(n), n > 0  PROVE p * PageSize < n
    <2>1. CASE q <= 1
        BY <2>1, <1>8, <1>2, <1>1, <1>3
    <2>2. CASE q > 1
        BY <2>2, <1>8, <1>2, <1>1, <1>3, <1>6
    <2> QED  BY <2>1, <2>2, <1>1
<1> QED  BY <1>1, <1>2, <1>7, <1>8

(* A page that begins before the last entry has rows.                      *)
LEMMA RowsShown ==
    ASSUME NEW n \in Nat, NEW p \in Nat
    PROVE  /\ RowsOn(p, n) \in Nat
           /\ n = 0 => RowsOn(p, n) = 0
           /\ p * PageSize < n => RowsOn(p, n) > 0
<1>1. p * PageSize \in Nat /\ PageSize \in Nat \ {0}
    BY SizeAssumption
<1> QED  BY <1>1 DEF RowsOn, Most, Least

LEMMA Clamping ==
    ASSUME NEW n \in Nat, NEW p \in Nat
    PROVE  Clamped(p, n) \in Nat /\ Clamped(p, n) < Pages(n)
<1>1. Pages(n) \in Nat \ {0}
    BY Paging
<1> QED  BY <1>1 DEF Clamped, Most, Least

LEMMA LastPages ==
    ASSUME NEW n \in Nat
    PROVE  LastPage(n) \in Nat
<1>1. (n - 1) \div PageSize \in Int
    BY SizeAssumption
<1> QED  BY <1>1 DEF LastPage, Most

(***************************************************************************)
(* Asking.                                                                 *)
(***************************************************************************)
(* What Load does, with the cameras known after the step.                  *)
AsksFor(b, f, p) ==
    /\ api \/ f = filter \/ kind # "evt"
    /\ filter' = f /\ page' = p
    /\ CASE kind = "rec" -> RecLoad(b, f, p)
         [] kind = "tl" -> TlLoad(b, f, p)
         [] kind = "snap" -> SnapLoad(b, f, p)
         [] kind = "evt" -> EvtLoad(b, f, known')

Asks == \E b \in {loading, FALSE}, f \in Filters, p \in Nat : AsksFor(b, f, p)

(* A page that has asked again is waiting for the right thing.             *)
LEMMA Loading ==
    ASSUME ChoiceTypes, AskTypes, CallFits,
           Asks, UNCHANGED <<kind, api>>, known' \in BOOLEAN
    PROVE  /\ ChoiceTypes' /\ AskTypes' /\ CallFits'
           /\ Askable' => loading'
<1>. PICK b \in {loading, FALSE}, f \in Filters, p \in Nat : AsksFor(b, f, p)
    BY DEF Asks
<1>0. /\ filter' = f /\ page' = p
      /\ kind' = kind /\ api' = api
      /\ api \/ f = filter \/ kind # "evt"
    BY DEF AsksFor
<1>c. PICK k \in BOOLEAN : known' = k
    OBVIOUS
<1>d. ChoiceTypes'
    BY <1>0, Zenon DEF ChoiceTypes
<1>a. Askable' <=> api /\ (kind # "evt" \/ k \/ f.cam # "all")
    BY <1>0, <1>c DEF Askable
<1>1. NoCall \in Calls
    BY CamAssumption DEF NoCall, All, Calls, Filters
<1>2. \A q \in Nat : [f |-> f, p |-> q, ans |-> Waiting, m |-> 0] \in Calls
    BY DEF Calls
<1>b. /\ b \in BOOLEAN
      /\ b = TRUE => loading
  <2>1. b = loading \/ b = FALSE
      OBVIOUS
  <2>2. CASE b = loading
      BY <2>2, Zenon DEF AskTypes
  <2>3. CASE b = FALSE
      BY <2>3, Zenon
  <2> QED  BY <2>1, <2>2, <2>3
<1>3. ASSUME PutOff(b), kind # "evt", ~api \/ b
      PROVE AskTypes' /\ CallFits' /\ (Askable' => loading')
    <2>1. pending' = TRUE /\ loading' = b
        BY <1>3 DEF PutOff
    <2>2. /\ loading' \in BOOLEAN /\ pending' \in BOOLEAN /\ prevOn' \in BOOLEAN
          /\ nextOn' \in BOOLEAN /\ multi' \in BOOLEAN
        BY <2>1, <1>b, <1>3, Zenon DEF PutOff, AskTypes
    <2>3. call' \in Calls
        BY <1>3, <1>1 DEF PutOff, AskTypes
    <2>4. Askable' => loading'
        <3>1. CASE b
            BY <3>1, <2>1, Zenon
        <3>2. CASE ~b
            BY <3>2, <1>3, <1>a, Zenon
        <3> QED  BY <3>1, <3>2
    <2>5. CallFits'
        BY <2>1, Zenon DEF CallFits
    <2> QED  BY <2>2, <2>3, <2>4, <2>5, Zenon DEF AskTypes
<1>4. ASSUME NEW q \in Nat, Query(f, q),
             multi' \in BOOLEAN, prevOn' \in BOOLEAN, nextOn' \in BOOLEAN,
             kind \in {"rec", "tl"} \/ (kind = "snap" /\ ~multi') => q = p
      PROVE AskTypes' /\ CallFits' /\ (Askable' => loading')
    <2>1. /\ loading' = TRUE /\ pending' = FALSE
          /\ call' = [f |-> f, p |-> q, ans |-> Waiting, m |-> 0]
        BY <1>4 DEF Query
    <2>2. loading' \in BOOLEAN /\ pending' \in BOOLEAN
        BY <2>1, Zenon
    <2>3. call' \in Calls /\ call'.f = f /\ call'.p = q
        BY <2>1, <1>2
    <2>4. CallFits'
        BY <2>3, <1>0, <1>4 DEF CallFits
    <2> QED  BY <2>1, <2>2, <2>3, <2>4, <1>4, Zenon DEF AskTypes
<1>5. ButtonsOff => prevOn' \in BOOLEAN /\ nextOn' \in BOOLEAN
    BY Zenon DEF ButtonsOff
<1>6. CASE kind \in {"rec", "tl"}
    <2>1. RecLoad(b, f, p) \/ TlLoad(b, f, p)
        BY <1>6 DEF AsksFor
    <2>2. CASE ~api \/ b
        BY <2>1, <2>2, <1>3, <1>6, <1>0, <1>d DEF RecLoad, TlLoad
    <2>3. CASE ~(~api \/ b)
        <3>1. Query(f, p) /\ ButtonsOff /\ multi' = multi
            BY <2>1, <2>3, Zenon DEF RecLoad, TlLoad
        <3>2. multi' \in BOOLEAN
            BY <3>1, Zenon DEF AskTypes
        <3> QED  BY <3>1, <3>2, <1>4, <1>5, <1>0, <1>d
    <2> QED  BY <2>2, <2>3
<1>7. CASE kind = "snap"
    <2>1. SnapLoad(b, f, p)
        BY <1>7 DEF AsksFor
    <2>2. CASE ~api \/ b
        BY <2>1, <2>2, <1>3, <1>7, <1>0, <1>d DEF SnapLoad
    <2>3. CASE ~(~api \/ b)
        <3>1. /\ multi' = (f.cam # "all")
              /\ Query(f, IF multi' THEN 0 ELSE p) /\ ButtonsOff
            BY <2>1, <2>3, Zenon DEF SnapLoad
        <3>2. multi' \in BOOLEAN
            BY <3>1, Zenon
        <3>3. (IF multi' THEN 0 ELSE p) \in Nat
            OBVIOUS
        <3>4. ~multi' => (IF multi' THEN 0 ELSE p) = p
            OBVIOUS
        <3>5. ~(kind \in {"rec", "tl"})
            BY <1>7
        <3>6. prevOn' \in BOOLEAN /\ nextOn' \in BOOLEAN
            BY <3>1, <1>5, Zenon
        <3> DEFINE q == IF multi' THEN 0 ELSE p
        <3>7. /\ q \in Nat /\ Query(f, q)
              /\ kind \in {"rec", "tl"} \/ (kind = "snap" /\ ~multi') => q = p
            BY <3>1, <3>3, <3>4, <3>5
        <3> HIDE DEF q
        <3> QED  BY <3>2, <3>6, <3>7, <1>4, <1>d, Zenon
    <2> QED  BY <2>2, <2>3
<1>8. CASE kind = "evt"
    <2>1. EvtLoad(b, f, k)
        BY <1>8, <1>c DEF AsksFor
    <2>2. prevOn' \in BOOLEAN /\ nextOn' \in BOOLEAN /\ multi' \in BOOLEAN
        BY <2>1, Zenon DEF EvtLoad, AskTypes
    <2>3. CASE api /\ ~b /\ (f.cam # "all" \/ k)
        <3>1. Query(f, 0)
            BY <2>1, <2>3, Zenon DEF EvtLoad
        <3>2. ~(kind \in {"rec", "tl"} \/ (kind = "snap" /\ ~multi'))
            BY <1>8
        <3> QED  BY <3>1, <3>2, <2>2, <1>4, <1>0, <1>d
    <2>4. CASE ~(api /\ ~b /\ (f.cam # "all" \/ k))
        <3>1. /\ pending' = (pending \/ (api /\ b))
              /\ loading' = b
              /\ call' = IF b THEN call ELSE NoCall
            BY <2>1, <2>4, Zenon DEF EvtLoad
        <3>2. pending' \in BOOLEAN /\ loading' \in BOOLEAN
            <4>1. (pending \/ (api /\ b)) \in BOOLEAN
                BY Zenon
            <4>2. pending' \in BOOLEAN
                BY <4>1, <3>1
            <4>3. loading' = b
                BY <3>1
            <4>4. loading' \in BOOLEAN
                BY <4>3, <1>b
            <4> QED  BY <4>2, <4>4
        <3>3. call' \in Calls
            BY <3>1, <1>1 DEF AskTypes
        <3>4. Askable' => loading'
            BY <3>1, <2>4, <1>a, <1>b, <1>8, Zenon
        <3>7. AskTypes'
            BY <3>2, <3>3, <2>2, Zenon DEF AskTypes
        <3>5. CASE b
            <4>1. pending' = (pending \/ api) /\ call' = call /\ loading
                BY <3>5, <3>1, <1>b, Zenon
            <4>2. CallFits'
                BY <4>1, <1>0, <1>8 DEF CallFits
            <4> QED  BY <4>2, <3>4, <3>7, <1>0, <1>d
        <3>6. CASE ~b
            <4>1. CallFits'
                BY <3>6, <3>1, Zenon DEF CallFits
            <4> QED  BY <4>1, <3>4, <3>7, <1>0, <1>d
        <3> QED  BY <3>5, <3>6
    <2> QED  BY <2>3, <2>4
<1> QED  BY <1>d, <1>6, <1>7, <1>8 DEF ChoiceTypes, Kinds

(* Every handler that calls _load does just that.                          *)
LEMMA LoadAsks ==
    ASSUME ChoiceTypes, AskTypes, known' = known,
           NEW f \in Filters, NEW p \in Nat, NEW b \in {loading, FALSE},
           api \/ f = filter \/ kind # "evt", Load(b, f, p)
    PROVE  Asks
BY DEF Load, Asks, AsksFor

LEMMA Choices == ASSUME ChoiceTypes PROVE FilterChoices \subseteq Filters
<1>1. filter.cam \in Cams \cup {"all"} /\ filter.preset \in BOOLEAN
    BY DEF ChoiceTypes, Filters
<1>2. (~filter.preset) \in BOOLEAN
    BY Zenon
<1>3. [cam : Cams \cup {"all"}, preset : {filter.preset}] \subseteq Filters
    BY <1>1 DEF Filters
<1>4. [cam : {filter.cam}, preset : {~filter.preset}] \subseteq Filters
  <2>1. {filter.cam} \subseteq Cams \cup {"all"} /\ {~filter.preset} \subseteq BOOLEAN
      BY <1>1, <1>2, Zenon
  <2>. QED
      BY <2>1 DEF Filters
<1>5. All \in Filters
    BY DEF All, Filters
<1>. QED
    BY <1>3, <1>4, <1>5, Zenon DEF FilterChoices

LEMMA Asked ==
    ASSUME Core, Asks, UNCHANGED <<kind, api>>, known' \in BOOLEAN,
           DisplayTypes', ShownFits'
    PROVE  Core'
<1>1. /\ ChoiceTypes' /\ AskTypes' /\ CallFits'
      /\ Askable' => loading'
    BY Loading DEF Core
<1>2. ViewIsRight'
    BY <1>1, Zenon DEF ViewIsRight
<1>. QED
    BY <1>1, <1>2, Zenon DEF Core

(* It shows what it showed.                                                *)
LEMMA AskedOnly ==
    ASSUME Core, Asks, UNCHANGED <<kind, api, shown, held>>,
           known' \in BOOLEAN, total' \in Nat
    PROVE  Core' /\ Shows
<1>1. DisplayTypes' /\ ShownFits'
    BY DEF Core, DisplayTypes, ShownFits
<1>2. ChoiceTypes'
    BY Loading DEF Core
<1>3. shown'.f = shown.f
    OBVIOUS
<1>. QED
    BY <1>1, <1>2, <1>3, Asked DEF Shows, ChoiceTypes

(* A step that touches nothing of it keeps it.                             *)
LEMMA SameCore ==
    ASSUME Core,
           UNCHANGED <<kind, filter, page, api, known, ask, display>>
    PROVE  Core' /\ Shows
<1>1. /\ kind' = kind /\ filter' = filter /\ page' = page /\ api' = api /\ known' = known
      /\ loading' = loading /\ pending' = pending /\ call' = call
      /\ prevOn' = prevOn /\ nextOn' = nextOn /\ multi' = multi
      /\ shown' = shown /\ total' = total /\ held' = held
    BY DEF ask, display
<1>2. ChoiceTypes' /\ AskTypes' /\ CallFits'
    BY <1>1, Zenon DEF Core, ChoiceTypes, AskTypes, CallFits
<1>3. DisplayTypes' /\ ShownFits'
    BY <1>1, Zenon DEF Core, DisplayTypes, ShownFits
<1>5. ViewIsRight'
  <2>1. Askable' => Askable
      BY <1>1 DEF Askable
  <2>. QED
      BY <1>1, <2>1, Zenon DEF Core, ViewIsRight
<1>4. Shows
    BY <1>1, Zenon DEF Core, ChoiceTypes, Shows
<1>. QED
    BY <1>2, <1>3, <1>4, <1>5, Zenon DEF Core

(***************************************************************************)
(* The steps.                                                              *)
(***************************************************************************)

LEMMA StepChooseFilter == ASSUME Core, ChooseFilter PROVE Core' /\ Shows
<1>1. /\ api /\ known' = known /\ total' = total
      /\ UNCHANGED <<kind, api, shown, held>>
    BY DEF ChooseFilter, display
<1>2. PICK f \in Filters, p \in Nat : Load(loading, f, p)
  <2>1. CASE RecFilter \/ SnapFilter
      BY <2>1, Choices DEF RecFilter, SnapFilter, Core
  <2>2. CASE TlFilter
      BY <2>2 DEF TlFilter, Core, ChoiceTypes, Filters
  <2>3. CASE EvtFilter
    <3>1. \A c \in Cams \cup {"all"} : [filter EXCEPT !.cam = c] \in Filters
        BY DEF Core, ChoiceTypes, Filters
    <3>2. [filter EXCEPT !.preset = ~@] \in Filters /\ All \in Filters
        BY DEF Core, ChoiceTypes, Filters, All
    <3>. QED
        BY <2>3, <3>1, <3>2 DEF EvtFilter, Core, ChoiceTypes
  <2>. QED
      BY <2>1, <2>2, <2>3 DEF ChooseFilter
<1>3. Asks
    BY <1>1, <1>2, LoadAsks DEF Core
<1>. QED
    BY <1>1, <1>3, AskedOnly DEF Core, ChoiceTypes, DisplayTypes

LEMMA StepRefresh == ASSUME Core, Refresh PROVE Core' /\ Shows
<1>1. /\ Load(loading, filter, page) /\ known' = known /\ total' = total
      /\ UNCHANGED <<kind, api, shown, held>>
    BY DEF Refresh, display
<1>2. Asks
    BY <1>1, LoadAsks DEF Core, ChoiceTypes
<1>. QED
    BY <1>1, <1>2, AskedOnly DEF Core, ChoiceTypes, DisplayTypes

LEMMA StepRefreshCameraFilter == ASSUME Core, RefreshCameraFilter PROVE Core' /\ Shows
<1>1. /\ api /\ known' = TRUE /\ filter' = filter /\ page' = page
      /\ total' = total /\ UNCHANGED <<kind, api, shown, held>>
      /\ filter \in Filters /\ page \in Nat /\ total \in Nat /\ kind \in Kinds
    BY DEF RefreshCameraFilter, display, Core, ChoiceTypes, DisplayTypes
<1>2. known' \in BOOLEAN
    BY <1>1, Zenon
<1>3. CASE kind = "snap"
  <2>1. SnapLoad(loading, filter, page)
      BY <1>3 DEF RefreshCameraFilter
  <2>2. Asks
      BY <2>1, <1>1, <1>3 DEF Asks, AsksFor
  <2>. QED
      BY <2>2, <1>1, <1>2, AskedOnly
<1>4. CASE kind = "evt" /\ filter.cam = "all"
  <2>1. EvtLoad(loading, filter, known')
      BY <1>4, <1>1 DEF RefreshCameraFilter
  <2>2. Asks
      BY <2>1, <1>1, <1>4 DEF Asks, AsksFor
  <2>. QED
      BY <2>2, <1>1, <1>2, AskedOnly
<1>5. CASE kind # "snap" /\ ~(kind = "evt" /\ filter.cam = "all")
  <2>1. UNCHANGED <<loading, pending, call, prevOn, nextOn, multi>>
      BY <1>5 DEF RefreshCameraFilter, ask
  <2>2. Askable' => Askable
      BY <1>5, <1>1 DEF Askable
  <2>3. ChoiceTypes' /\ AskTypes' /\ CallFits'
      BY <1>1, <1>2, <2>1, Zenon DEF Core, ChoiceTypes, AskTypes, CallFits
  <2>4. DisplayTypes' /\ ShownFits'
      BY <1>1, Zenon DEF Core, DisplayTypes, ShownFits
  <2>5. ViewIsRight'
      BY <1>1, <2>1, <2>2, Zenon DEF Core, ViewIsRight
  <2>6. Shows
      BY <1>1, Zenon DEF Shows
  <2>. QED
      BY <2>3, <2>4, <2>5, <2>6, Zenon DEF Core
<1>. QED
    BY <1>3, <1>4, <1>5

LEMMA StepTasksLoaded == ASSUME Core, TasksLoaded, tasksOut => kind = "tl" PROVE Core' /\ Shows
<1>1. UNCHANGED <<kind, api, known, shown, total, held>> /\ kind # "evt"
    BY DEF TasksLoaded, display
<1>2. CASE gone /\ filter.cam # "all"
  <2>1. Load(loading, All, 0) /\ All \in Filters
      BY <1>2 DEF TasksLoaded, All, Filters
  <2>2. Asks
      BY <2>1, <1>1, LoadAsks DEF Core
  <2>. QED
      BY <2>2, <1>1, AskedOnly DEF Core, ChoiceTypes, DisplayTypes
<1>3. CASE ~(gone /\ filter.cam # "all")
    BY <1>3, SameCore DEF TasksLoaded
<1>. QED
    BY <1>2, <1>3

LEMMA StepQuiet ==
    ASSUME Core, Logout \/ LoadRest \/ Serve \/ NasChanges, items \in Nat
    PROVE  Core' /\ Shows
<1>1. CASE LoadRest \/ NasChanges
    BY <1>1, SameCore DEF LoadRest, NasChanges
<1>2. CASE Logout
  <2>1. /\ api' = FALSE
        /\ UNCHANGED <<kind, filter, page, known, loading, pending, call, prevOn, nextOn,
                       multi, shown, total, held>>
      BY <1>2 DEF Logout, ask, display
  <2>2. ChoiceTypes' /\ AskTypes' /\ CallFits'
      BY <2>1, Zenon DEF Core, ChoiceTypes, AskTypes, CallFits
  <2>3. DisplayTypes' /\ ShownFits' /\ ViewIsRight'
      BY <2>1, Zenon DEF Core, DisplayTypes, ShownFits, ViewIsRight, Askable
  <2>4. Shows
      BY <2>1, Zenon DEF Core, ChoiceTypes, Shows
  <2>. QED
      BY <2>2, <2>3, <2>4, Zenon DEF Core
<1>3. CASE Serve
  <2>1. UNCHANGED <<kind, filter, page, api, known, loading, pending, prevOn, nextOn,
                    multi, shown, total, held>>
      BY <1>3 DEF Serve, display
  <2>2. call' \in Calls /\ call'.f = call.f /\ call'.p = call.p
    <3>1. call \in Calls
        BY DEF Core, AskTypes
    <3>2. CASE call' = [call EXCEPT !.ans = Failed]
        BY <3>1, <3>2 DEF Calls
    <3>3. CASE \E m \in {0, items} : call' = [call EXCEPT !.ans = items, !.m = m]
      <4>1. PICK m \in {0, items} : call' = [call EXCEPT !.ans = items, !.m = m]
          BY <3>3
      <4>2. m \in Nat
          OBVIOUS
      <4>. QED
          BY <3>1, <4>1, <4>2 DEF Calls
    <3>. QED
        BY <1>3, <3>2, <3>3 DEF Serve
  <2>3. ChoiceTypes' /\ AskTypes'
      BY <2>1, <2>2, Zenon DEF Core, ChoiceTypes, AskTypes
  <2>4. CallFits'
      BY <2>1, <2>2, Zenon DEF Core, CallFits
  <2>5. DisplayTypes' /\ ShownFits' /\ ViewIsRight'
      BY <2>1, Zenon DEF Core, DisplayTypes, ShownFits, ViewIsRight, Askable
  <2>6. Shows
      BY <2>1, Zenon DEF Core, ChoiceTypes, Shows
  <2>. QED
      BY <2>3, <2>4, <2>5, <2>6, Zenon DEF Core
<1>. QED
    BY <1>1, <1>2, <1>3

(* The view that a list of n entries gives on page p.                      *)
LEMMA Viewing ==
    ASSUME NEW n \in Nat, NEW p \in Nat, NEW g \in Filters \cup {NoFilter},
           page' = p, shown' = Listed(g, p, n), p = 0 \/ p * PageSize < n,
           prevOn' = (p > 0), nextOn' = ((p + 1) * PageSize < n)
    PROVE  /\ page' \in Nat /\ shown' \in Rows
           /\ prevOn' \in BOOLEAN /\ nextOn' \in BOOLEAN
           /\ shown'.f = g /\ ~shown'.old
           /\ n = 0 => shown'.n = 0
           /\ ViewFits'
<1>1. /\ RowsOn(p, n) \in Nat
      /\ n = 0 => RowsOn(p, n) = 0
      /\ p * PageSize < n => RowsOn(p, n) > 0
    BY RowsShown
<1>2. FALSE \in BOOLEAN
    BY Zenon
<1>3. /\ shown' \in Rows /\ shown'.f = g /\ shown'.p = p
      /\ shown'.n = RowsOn(p, n) /\ shown'.total = n /\ shown'.old = FALSE
    BY <1>1, <1>2 DEF Listed, Rows
<1>4. (p > 0) \in BOOLEAN /\ ((p + 1) * PageSize < n) \in BOOLEAN
    OBVIOUS
<1>5. prevOn' \in BOOLEAN /\ nextOn' \in BOOLEAN
    BY <1>4, Zenon
<1>6. shown'.n = 0 => shown'.total = 0
  <2>1. CASE p = 0
    <3>1. p * PageSize = 0
        BY <2>1, SizeAssumption
    <3>. QED
        BY <3>1, <1>1, <1>3
  <2>2. CASE p * PageSize < n
      BY <2>2, <1>1, <1>3
  <2>. QED
      BY <2>1, <2>2
<1>7. prevOn' <=> page' > 0
    BY Zenon
<1>8. nextOn' <=> (page' + 1) * PageSize < shown'.total
    BY <1>3, Zenon
<1>9. ViewFits'
    BY <1>3, <1>6, <1>7, <1>8, Zenon DEF ViewFits
<1>10. ~shown'.old
    BY <1>3, Zenon
<1>. QED
    BY <1>1, <1>3, <1>5, <1>9, <1>10

LEMMA NoPages == Pages(0) = 1
<1>1. (0 + PageSize - 1) \div PageSize = 0
    BY SizeAssumption
<1>. QED
    BY <1>1 DEF Pages, Most

LEMMA ClampedView ==
    ASSUME NEW n \in Nat, NEW p \in Nat, NEW q, q = Clamped(p, n)
    PROVE  /\ q \in Nat
           /\ q = 0 \/ q * PageSize < n
           /\ q < Pages(n) - 1 <=> (q + 1) * PageSize < n
<1>1. q \in Nat /\ q < Pages(n)
    BY Clamping
<1>2. n > 0 => q * PageSize < n
    BY <1>1, Paging
<1>3. n = 0 => q = 0
    BY <1>1, NoPages
<1>. QED
    BY <1>1, <1>2, <1>3, Paging

LEMMA SnapRendering ==
    ASSUME NEW p \in Nat, NEW n \in Nat, NEW g \in Filters \cup {NoFilter}, NEW h,
           h.f = g, h.n = n, SnapRender(h, p)
    PROVE  /\ page' \in Nat /\ shown' \in Rows
           /\ prevOn' \in BOOLEAN /\ nextOn' \in BOOLEAN
           /\ shown'.f = g /\ ~shown'.old
           /\ n = 0 => shown'.n = 0
           /\ ViewFits'
<1>1. PICK q : q = Clamped(p, n)
    OBVIOUS
<1>2. /\ q \in Nat
      /\ q = 0 \/ q * PageSize < n
      /\ q < Pages(n) - 1 <=> (q + 1) * PageSize < n
    BY <1>1, ClampedView
<1>3. /\ page' = q /\ shown' = Listed(g, q, n)
      /\ prevOn' = (q > 0) /\ nextOn' = (q < Pages(n) - 1)
    BY <1>1, Zenon DEF SnapRender
<1>4. nextOn' = ((q + 1) * PageSize < n)
    BY <1>2, <1>3
<1>. QED
    BY <1>2, <1>3, <1>4, Viewing

LEMMA EvtRendering ==
    ASSUME NEW p \in Nat, NEW n \in Nat, NEW g \in Filters \cup {NoFilter}, NEW h,
           NEW a, NEW b, h.f = g, Matching(h, a, b) = n, EvtRender(h, p, a, b)
    PROVE  /\ page' \in Nat /\ shown' \in Rows
           /\ prevOn' \in BOOLEAN /\ nextOn' \in BOOLEAN
           /\ shown'.f = g /\ ~shown'.old
           /\ n = 0 => shown'.n = 0
           /\ ViewFits'
<1>1. PICK q : q = Clamped(p, n)
    OBVIOUS
<1>2. /\ q \in Nat
      /\ q = 0 \/ q * PageSize < n
      /\ q < Pages(n) - 1 <=> (q + 1) * PageSize < n
    BY <1>1, ClampedView
<1>3. /\ page' = q /\ shown' = Listed(g, q, n)
      /\ prevOn' = (q > 0) /\ nextOn' = (q < Pages(n) - 1)
    BY <1>1, Zenon DEF EvtRender
<1>4. nextOn' = ((q + 1) * PageSize < n)
    BY <1>2, <1>3
<1>. QED
    BY <1>2, <1>3, <1>4, Viewing

(* A list kept here is cut anew: the view stays right if it was.           *)
LEMMA Recut ==
    ASSUME Core, kind \in {"snap", "evt"}, kind = "snap" => multi,
           UNCHANGED <<kind, api, known, filter, held, loading, pending, call, multi>>,
           total' \in Nat,
           page' \in Nat, shown' \in Rows, prevOn' \in BOOLEAN, nextOn' \in BOOLEAN,
           shown'.f = held.f, ~shown'.old, held.f = NoFilter => shown'.n = 0, ViewFits'
    PROVE  Core' /\ Shows
<1>1. kind' = kind /\ api' = api /\ known' = known /\ filter' = filter
      /\ held' = held /\ loading' = loading /\ pending' = pending /\ call' = call /\ multi' = multi
    OBVIOUS
<1>2. ChoiceTypes' /\ AskTypes'
    BY <1>1, Zenon DEF Core, ChoiceTypes, AskTypes
<1>3. CallFits'
    BY <1>1 DEF Core, CallFits
<1>4. DisplayTypes'
    BY <1>1, Zenon DEF Core, DisplayTypes
<1>5. ShownFits'
    BY <1>1, Zenon DEF Core, ShownFits
<1>6. Askable' => Askable
    BY <1>1 DEF Askable
<1>7. kind # "tl"
    OBVIOUS
<1>8. Askable /\ ~loading => shown.f = NoFilter \/ shown.f = filter
    BY <1>7 DEF Core, ViewIsRight, ShownFits
<1>9. held.f = shown.f
    BY DEF Core, ShownFits
<1>10. ViewIsRight'
  <2>1. SUFFICES ASSUME Askable', ~loading'
                 PROVE  \/ shown'.f = NoFilter /\ shown'.n = 0
                        \/ shown'.f = filter' /\ ViewFits'
      BY Zenon DEF ViewIsRight, ViewFits
  <2>. QED
      BY <2>1, <1>1, <1>6, <1>8, <1>9
<1>11. Shows
    BY <1>1, <1>9 DEF Core, ChoiceTypes, Shows
<1>. QED
    BY <1>2, <1>3, <1>4, <1>5, <1>10, <1>11, Zenon DEF Core

LEMMA HeldTypes ==
    ASSUME Core
    PROVE  /\ held.f \in Filters \cup {NoFilter} /\ held.n \in Nat /\ held.m \in Nat
           /\ held.f = NoFilter => held.n = 0 /\ held.m = 0
BY DEF Core, DisplayTypes, Lists, ShownFits

LEMMA StepTurn == ASSUME Core, Turn PROVE Core' /\ Shows
<1>1. api /\ UNCHANGED <<kind, api, known>> /\ known' \in BOOLEAN
    BY DEF Turn, Core, ChoiceTypes
<1>2. PICK p \in (IF prevOn THEN {Most(0, page - 1)} ELSE {})
                    \cup (IF nextOn THEN {page + 1} ELSE {}) :
          RecTurn(p) \/ TlTurn(p) \/ SnapTurn(p) \/ EvtTurn(p)
    BY Zenon DEF Turn
<1>3. p \in Nat
    BY DEF Core, ChoiceTypes, Most
<1>4. PICK n1 \in Nat, m1 \in Nat : n1 = held.n /\ m1 = held.m
    BY HeldTypes
<1>5. CASE Load(loading, filter, p) /\ UNCHANGED display
  <2>1. Asks
      BY <1>1, <1>3, <1>5, LoadAsks DEF Core, ChoiceTypes
  <2>. QED
      BY <1>1, <1>5, <2>1, AskedOnly DEF display, Core, DisplayTypes
<1>6. CASE kind = "snap" /\ multi /\ SnapTurn(p)
  <2>1. /\ SnapRender(held, p) /\ total' = held.n
        /\ UNCHANGED <<filter, held, loading, pending, call, multi>>
      BY <1>6 DEF SnapTurn, SnapRender
  <2>2. /\ page' \in Nat /\ shown' \in Rows
        /\ prevOn' \in BOOLEAN /\ nextOn' \in BOOLEAN
        /\ shown'.f = held.f /\ ~shown'.old
        /\ n1 = 0 => shown'.n = 0
        /\ ViewFits'
      BY <2>1, <1>3, <1>4, HeldTypes, SnapRendering
  <2>. QED
      BY <2>1, <2>2, <1>1, <1>4, <1>6, HeldTypes, Recut
<1>7. CASE EvtTurn(p)
  <2>1. /\ kind = "evt" /\ EvtRender(held, p, quick, search) /\ total' \in Nat
        /\ UNCHANGED <<filter, held, loading, pending, call, multi>>
      BY <1>7 DEF EvtTurn, Core, DisplayTypes
  <2>2. PICK n \in {n1, m1} : Matching(held, quick, search) = n
      BY <1>4 DEF Matching
  <2>3. /\ page' \in Nat /\ shown' \in Rows
        /\ prevOn' \in BOOLEAN /\ nextOn' \in BOOLEAN
        /\ shown'.f = held.f /\ ~shown'.old
        /\ n = 0 => shown'.n = 0
        /\ ViewFits'
      BY <2>1, <2>2, <1>3, HeldTypes, EvtRendering
  <2>. QED
      BY <2>1, <2>2, <2>3, <1>1, <1>4, HeldTypes, Recut
<1>. QED
    BY <1>2, <1>5, <1>6, <1>7 DEF RecTurn, TlTurn, SnapTurn

LEMMA StepChooseType == ASSUME Core, ChooseType PROVE Core' /\ Shows
<1>1. /\ kind = "evt" /\ total \in Nat
      /\ UNCHANGED <<kind, filter, api, known, loading, pending, call, multi, total, held>>
    BY DEF ChooseType, Core, DisplayTypes
<1>2. PICK q \in BOOLEAN : EvtRender(held, 0, q, FALSE)
    BY DEF ChooseType
<1>3. PICK n1 \in Nat, m1 \in Nat : n1 = held.n /\ m1 = held.m
    BY HeldTypes
<1>4. PICK n \in {n1, m1} : Matching(held, q, FALSE) = n
    BY <1>3 DEF Matching
<1>5. /\ page' \in Nat /\ shown' \in Rows
      /\ prevOn' \in BOOLEAN /\ nextOn' \in BOOLEAN
      /\ shown'.f = held.f /\ ~shown'.old
      /\ n = 0 => shown'.n = 0
      /\ ViewFits'
    BY <1>2, <1>4, HeldTypes, EvtRendering
<1>. QED
    BY <1>1, <1>3, <1>4, <1>5, HeldTypes, Recut

(* What an answer brings, once nothing was put off behind it.              *)
LEMMA Answers ==
    ASSUME Core, Got
    PROVE  /\ call.ans \in Nat /\ call.m \in Nat /\ call.p \in Nat
           /\ call.f \in Filters /\ loading
           /\ ~pending =>
                 /\ call.f = filter
                 /\ kind \in {"rec", "tl"} \/ (kind = "snap" /\ ~multi) => call.p = page
<1>1. call \in Calls
    BY DEF Core, AskTypes
<1>2. loading /\ call.ans >= 0
    BY DEF Got, Answered
<1>3. ~pending => /\ call.f = filter
                  /\ kind \in {"rec", "tl"} \/ (kind = "snap" /\ ~multi) => call.p = page
    BY <1>2 DEF Core, CallFits
<1>. QED
    BY <1>1, <1>2, <1>3 DEF Calls, Waiting, Failed

LEMMA AgainAsks ==
    ASSUME Core, Again, UNCHANGED <<kind, api, known>>
    PROVE  Asks
BY LoadAsks DEF Again, Core, ChoiceTypes

LEMMA Stranded ==
    ASSUME Core, NEW n \in Nat, Load(FALSE, filter, LastPage(n)),
           UNCHANGED <<kind, api, known>>
    PROVE  Asks
<1>1. PICK p \in Nat : p = LastPage(n)
    BY LastPages
<1>. QED
    BY <1>1, LoadAsks DEF Core, ChoiceTypes

(* The answer leaves the page at rest.                                     *)
LEMMA Settled ==
    ASSUME Core, Idle, UNCHANGED <<kind, api, known>>, page' \in Nat,
           prevOn' \in BOOLEAN, nextOn' \in BOOLEAN,
           DisplayTypes', ShownFits', ViewIsRight'
    PROVE  Core'
<1>1. /\ loading' = FALSE /\ call' = NoCall /\ filter' = filter /\ pending' = pending
      /\ multi' = multi /\ kind' = kind /\ api' = api /\ known' = known
    BY DEF Idle
<1>2. NoCall \in Calls
    BY DEF NoCall, All, Calls, Filters
<1>3. ChoiceTypes'
    BY <1>1, Zenon DEF Core, ChoiceTypes
<1>4. AskTypes' /\ CallFits'
    BY <1>1, <1>2, Zenon DEF Core, AskTypes, CallFits
<1>. QED
    BY <1>3, <1>4, Zenon DEF Core

(* No rows, and no list: Previous still leads back.                        *)
LEMMA Emptied ==
    ASSUME Core, Idle, UNCHANGED <<kind, api, known>>, page' \in Nat,
           prevOn' \in BOOLEAN, nextOn' \in BOOLEAN, total' \in Nat,
           shown' = Blank, held' = NoList \/ (kind \in {"rec", "tl"} /\ held' = held)
    PROVE  Core' /\ Shows
<1>1. kind' = kind /\ filter' = filter
    BY DEF Idle
<1>2. /\ Blank \in Rows /\ Blank.f = NoFilter /\ Blank.n = 0 /\ Blank.old = FALSE
      /\ NoList \in Lists /\ NoList.f = NoFilter /\ NoList.n = 0 /\ NoList.m = 0
    <2>1. FALSE \in BOOLEAN
        BY Zenon
    <2>. QED
        BY <2>1 DEF Blank, NoList, Rows, Lists
<1>3. DisplayTypes'
    BY <1>2 DEF Core, DisplayTypes
<1>4. ShownFits'
    BY <1>1, <1>2 DEF Core, ShownFits
<1>5. ViewIsRight'
    BY <1>2, Zenon DEF ViewIsRight
<1>6. Shows
    BY <1>1, <1>2, Zenon DEF Shows
<1>. QED
    BY <1>3, <1>4, <1>5, <1>6, Settled

LEMMA Unnamed == NoFilter \notin Filters
BY CamAssumption DEF NoFilter, Filters

(* A page at rest that shows what was asked for.                           *)
LEMMA RestsOn ==
    ASSUME Core, Idle, UNCHANGED <<kind, api, known>>, page' \in Nat,
           prevOn' \in BOOLEAN, nextOn' \in BOOLEAN, total' \in Nat,
           shown' \in Rows, shown'.f = filter, ~shown'.old, ViewFits',
           held' \in Lists, held'.f = filter \/ (kind \in {"rec", "tl"} /\ held' = held)
    PROVE  Core' /\ Shows
<1>1. kind' = kind /\ filter' = filter /\ filter \in Filters /\ NoFilter \notin Filters
    BY Unnamed DEF Idle, Core, ChoiceTypes
<1>2. DisplayTypes'
    BY Zenon DEF DisplayTypes
<1>3. ShownFits'
    BY <1>1 DEF Core, ShownFits
<1>4. ViewIsRight'
    BY <1>1, Zenon DEF ViewIsRight, ViewFits
<1>5. Shows
    BY <1>1 DEF Shows
<1>. QED
    BY <1>2, <1>3, <1>4, <1>5, Settled

(* A page cut by the server: its answer is shown as it comes.              *)
LEMMA ShownAnswer ==
    ASSUME Core, Got, ~pending, kind \in {"rec", "tl"}, Idle,
           UNCHANGED <<kind, api, known, page, held>>,
           NEW n \in Nat, total' = n, page = 0 \/ page * PageSize < n,
           shown' = [Listed(call.f, page, n) EXCEPT !.p = call.p],
           prevOn' = (page > 0), nextOn' = ((page + 1) * PageSize < n)
    PROVE  Core' /\ Shows
<1>1. PICK p \in Nat, g \in Filters : p = page /\ g = filter
    BY DEF Core, ChoiceTypes
<1>2. call.f = g /\ call.p = p
    BY <1>1, Answers
<1>3. shown' = Listed(g, p, n)
    BY <1>1, <1>2 DEF Listed
<1>4. page' = p /\ prevOn' = (p > 0) /\ nextOn' = ((p + 1) * PageSize < n)
    BY <1>1
<1>5. /\ page' \in Nat /\ shown' \in Rows
      /\ prevOn' \in BOOLEAN /\ nextOn' \in BOOLEAN
      /\ shown'.f = filter /\ ~shown'.old
      /\ ViewFits'
    BY <1>1, <1>3, <1>4, Viewing
<1>6. held' \in Lists /\ held' = held
    BY DEF Core, DisplayTypes
<1>. QED
    BY <1>5, <1>6, RestsOn

LEMMA StepRecAnswer ==
    ASSUME Core, RecLoaded \/ RecError, UNCHANGED <<kind, api, known>>
    PROVE  Core' /\ Shows
<1>1. kind = "rec" /\ page \in Nat /\ known' \in BOOLEAN /\ total \in Nat
    BY DEF RecLoaded, RecError, Core, ChoiceTypes, DisplayTypes
<1>2. CASE pending
  <2>1. Again /\ UNCHANGED <<shown, total, held>>
      BY <1>2, Zenon DEF RecLoaded, RecError, display
  <2>. QED
      BY <2>1, <1>1, AgainAsks, AskedOnly
<1>3. CASE ~pending /\ RecLoaded
  <2>1. PICK n \in Nat : n = call.ans
      BY <1>3, Answers DEF RecLoaded
  <2>2. CASE page > 0 /\ page * PageSize >= n /\ Load(FALSE, filter, LastPage(n))
                 /\ total' = n /\ UNCHANGED <<shown, held>>
      BY <2>2, <1>1, Stranded, AskedOnly
  <2>3. CASE /\ page = 0 \/ page * PageSize < n
             /\ Idle /\ total' = n /\ UNCHANGED <<page, held>>
             /\ shown' = [Listed(call.f, page, n) EXCEPT !.p = call.p]
             /\ prevOn' = (page > 0) /\ nextOn' = ((page + 1) * PageSize < n)
      BY <2>3, <1>1, <1>3, ShownAnswer DEF RecLoaded
  <2>. QED
      BY <1>3, <2>1, <2>2, <2>3 DEF RecLoaded
<1>4. CASE ~pending /\ RecError
  <2>1. /\ Idle /\ shown' = Blank /\ total' = 0 /\ UNCHANGED <<page, held>>
        /\ prevOn' = (page > 0) /\ nextOn' = FALSE
      BY <1>4, Zenon DEF RecError
  <2>2. (page > 0) \in BOOLEAN
      BY <1>1
  <2>3. prevOn' \in BOOLEAN /\ nextOn' \in BOOLEAN
      BY <2>1, <2>2, Zenon
  <2>. QED
      BY <2>1, <2>3, <1>1, Emptied
<1>. QED
    BY <1>2, <1>3, <1>4

LEMMA StepTlAnswer ==
    ASSUME Core, TlLoaded \/ TlError, UNCHANGED <<kind, api, known>>
    PROVE  Core' /\ Shows
<1>1. kind = "tl" /\ page \in Nat /\ known' \in BOOLEAN /\ total \in Nat
    BY DEF TlLoaded, TlError, Core, ChoiceTypes, DisplayTypes
<1>2. CASE pending /\ TlLoaded
  <2>1. Again /\ UNCHANGED <<shown, total, held>>
      BY <1>2, Zenon DEF TlLoaded, display
  <2>. QED
      BY <2>1, <1>1, AgainAsks, AskedOnly
<1>3. CASE ~pending /\ TlLoaded
  <2>1. PICK n \in Nat : n = call.ans
      BY <1>3, Answers DEF TlLoaded
  <2>2. CASE page > 0 /\ page * PageSize >= n /\ Load(FALSE, filter, LastPage(n))
                 /\ total' = n /\ UNCHANGED <<shown, held>>
      BY <2>2, <1>1, Stranded, AskedOnly
  <2>3. CASE /\ page = 0 \/ page * PageSize < n
             /\ Idle /\ total' = n /\ UNCHANGED <<page, held>>
             /\ shown' = [Listed(call.f, page, n) EXCEPT !.p = call.p]
             /\ prevOn' = (page > 0) /\ nextOn' = ((page + 1) * PageSize < n)
      BY <2>3, <1>1, <1>3, ShownAnswer DEF TlLoaded
  <2>. QED
      BY <1>3, <2>1, <2>2, <2>3 DEF TlLoaded
<1>4. CASE TlError
  <2>1. /\ UNCHANGED <<total, held>> /\ shown' = [shown EXCEPT !.old = TRUE]
        /\ \/ Again
           \/ /\ Idle /\ UNCHANGED page
              /\ prevOn' = (page > 0) /\ nextOn' = ((page + 1) * PageSize < total)
      BY <1>4, Zenon DEF TlError
  <2>2. shown \in Rows /\ held \in Lists
      BY DEF Core, DisplayTypes
  <2>3. TRUE \in BOOLEAN
      BY Zenon
  <2>4. shown' \in Rows /\ shown'.old = TRUE /\ shown'.f = shown.f /\ shown'.n = shown.n
      BY <2>1, <2>2, <2>3 DEF Rows
  <2>5. DisplayTypes' /\ ShownFits'
    <3>1. DisplayTypes'
        BY <2>1, <2>2, <2>4, <1>1 DEF DisplayTypes
    <3>2. kind' = "tl" /\ held' = held
        BY <1>1, <2>1
    <3>3. ShownFits'
        BY <3>2, <2>4 DEF Core, ShownFits
    <3>. QED
        BY <3>1, <3>3
  <2>6. CASE Again
    <3>1. Asks
        BY <2>6, AgainAsks
    <3>2. Core' /\ filter' \in Filters
        BY <3>1, <1>1, <2>5, Asked DEF Core, ChoiceTypes
    <3>. QED
        BY <3>2, <2>4 DEF Shows
  <2>7. CASE Idle /\ UNCHANGED page /\ prevOn' = (page > 0)
               /\ nextOn' = ((page + 1) * PageSize < total)
    <3>1. (page > 0) \in BOOLEAN /\ ((page + 1) * PageSize < total) \in BOOLEAN
        BY <1>1
    <3>2. prevOn' \in BOOLEAN /\ nextOn' \in BOOLEAN
        BY <3>1, <2>7, Zenon
    <3>3. ViewIsRight'
        BY <2>4, Zenon DEF ViewIsRight
    <3>4. Core'
        BY <2>5, <2>7, <3>2, <3>3, <1>1, Settled
    <3>5. filter' = filter /\ filter \in Filters
        BY <2>7 DEF Idle, Core, ChoiceTypes
    <3>. QED
        BY <3>4, <3>5, <2>4 DEF Shows
  <2>. QED
      BY <2>1, <2>6, <2>7
<1>. QED
    BY <1>2, <1>3, <1>4

LEMMA StepSnapAnswer ==
    ASSUME Core, SnapLoaded \/ SnapMultiLoaded \/ SnapError, UNCHANGED <<kind, api, known>>
    PROVE  Core' /\ Shows
<1>1. kind = "snap" /\ page \in Nat /\ known' \in BOOLEAN /\ total \in Nat
    BY DEF SnapLoaded, SnapMultiLoaded, SnapError, Core, ChoiceTypes, DisplayTypes
<1>2. CASE pending
  <2>1. Again /\ UNCHANGED <<shown, total, held>>
      BY <1>2, Zenon DEF SnapLoaded, SnapMultiLoaded, SnapError, display
  <2>. QED
      BY <2>1, <1>1, AgainAsks, AskedOnly
<1>3. CASE ~pending /\ SnapLoaded
  <2>1. PICK n \in Nat, p \in Nat : n = call.ans /\ p = call.p /\ p = page
      BY <1>3, <1>1, Answers DEF SnapLoaded
  <2>2. /\ total' = n /\ held' = [f |-> filter, n |-> RowsOn(p, n), m |-> 0]
        /\ shown' = Listed(filter, p, n) /\ filter \in Filters
      BY <1>3, <2>1, Answers DEF SnapLoaded, Core, ChoiceTypes
  <2>3. RowsOn(p, n) \in Nat /\ NoFilter \notin Filters
      BY RowsShown, Unnamed
  <2>4. /\ held' \in Lists /\ held'.f = filter
        /\ shown' \in Rows /\ shown'.f = filter /\ shown'.old = FALSE
    <3>1. FALSE \in BOOLEAN
        BY Zenon
    <3>. QED
        BY <2>2, <2>3, <3>1 DEF Lists, Rows, Listed
  <2>5. DisplayTypes' /\ ShownFits'
      BY <2>2, <2>3, <2>4, <1>1 DEF DisplayTypes, ShownFits
  <2>6. CASE Load(FALSE, filter, Pages(n) - 1)
    <3>1. PICK k \in Nat : k = Pages(n) - 1
        BY Paging
    <3>2. Asks
        BY <3>1, <2>6, LoadAsks DEF Core, ChoiceTypes
    <3>3. filter' = filter
        BY <2>6 DEF Load
    <3>4. Core'
        BY <3>2, <2>5, <1>1, Asked
    <3>. QED
        BY <3>3, <3>4, <2>4 DEF Shows
  <2>7. CASE /\ page < Pages(n) /\ Idle /\ UNCHANGED page
             /\ prevOn' = (page > 0) /\ nextOn' = (page < Pages(n) - 1)
    <3>1. /\ p < Pages(n) - 1 <=> (p + 1) * PageSize < n
          /\ n > 0 => p * PageSize < n
        BY <2>7, <2>1, Paging
    <3>2. page' = p /\ prevOn' = (p > 0) /\ nextOn' = (p < Pages(n) - 1)
        BY <2>7, <2>1
    <3>3. nextOn' = ((p + 1) * PageSize < n)
        BY <3>1, <3>2
    <3>4. p = 0 \/ p * PageSize < n
      <4>1. CASE n = 0
        <5>1. Pages(0) = 1
            BY NoPages
        <5>. QED
            BY <5>1, <4>1, <2>1, <2>7
      <4>. QED
          BY <4>1, <3>1
    <3>5. /\ page' \in Nat /\ prevOn' \in BOOLEAN /\ nextOn' \in BOOLEAN /\ ViewFits'
      <4>1. PICK g \in Filters : g = filter
          BY <2>2
      <4>. QED
          BY <4>1, <2>2, <3>2, <3>3, <3>4, Viewing
    <3>. QED
        BY <3>5, <2>2, <2>4, <2>7, RestsOn
  <2>. QED
      BY <1>3, <2>1, <2>6, <2>7 DEF SnapLoaded
<1>4. CASE ~pending /\ SnapMultiLoaded
  <2>1. PICK n \in Nat : n = call.ans
      BY <1>4, Answers DEF SnapMultiLoaded
  <2>2. /\ Idle /\ held' = [f |-> filter, n |-> n, m |-> 0]
        /\ SnapRender(held', page) /\ filter \in Filters
      BY <1>4, <2>1, Answers DEF SnapMultiLoaded, Core, ChoiceTypes
  <2>3. held' \in Lists /\ held'.f = filter /\ held'.n = n
      BY <2>2 DEF Lists
  <2>4. /\ page' \in Nat /\ shown' \in Rows
        /\ prevOn' \in BOOLEAN /\ nextOn' \in BOOLEAN
        /\ shown'.f = filter /\ ~shown'.old
        /\ ViewFits'
      BY <2>2, <2>3, <1>1, SnapRendering
  <2>5. total' = n
      BY <2>2, <2>3 DEF SnapRender
  <2>. QED
      BY <2>2, <2>3, <2>4, <2>5, <1>1, RestsOn
<1>5. CASE ~pending /\ SnapError
  <2>1. /\ Idle /\ shown' = Blank /\ held' = NoList /\ UNCHANGED <<page, total>>
        /\ prevOn' = (page > 0) /\ nextOn' = FALSE
      BY <1>5, Zenon DEF SnapError
  <2>2. (page > 0) \in BOOLEAN
      BY <1>1
  <2>3. prevOn' \in BOOLEAN /\ nextOn' \in BOOLEAN
      BY <2>1, <2>2, Zenon
  <2>. QED
      BY <2>1, <2>3, <1>1, Emptied
<1>. QED
    BY <1>2, <1>3, <1>4, <1>5

LEMMA StepEvtAnswer ==
    ASSUME Core, EvtLoaded \/ EvtError, UNCHANGED <<kind, api, known>>
    PROVE  Core' /\ Shows
<1>1. kind = "evt" /\ page \in Nat /\ known' \in BOOLEAN /\ total \in Nat
    BY DEF EvtLoaded, EvtError, Core, ChoiceTypes, DisplayTypes
<1>2. CASE pending
  <2>1. Again /\ UNCHANGED <<shown, total, held>>
      BY <1>2, Zenon DEF EvtLoaded, EvtError, display
  <2>. QED
      BY <2>1, <1>1, AgainAsks, AskedOnly
<1>3. CASE ~pending /\ EvtLoaded
  <2>1. PICK n1 \in Nat, m1 \in Nat : n1 = call.ans /\ m1 = call.m
      BY <1>3, Answers DEF EvtLoaded
  <2>2. /\ Idle /\ held' = [f |-> filter, n |-> n1, m |-> m1] /\ total' = total
        /\ EvtRender(held', 0, quick', search) /\ filter \in Filters
      BY <1>3, <2>1, Answers DEF EvtLoaded, Core, ChoiceTypes
  <2>3. held' \in Lists /\ held'.f = filter /\ held'.n = n1 /\ held'.m = m1
      BY <2>2 DEF Lists
  <2>4. PICK n \in {n1, m1} : Matching(held', quick', search) = n
      BY <2>3 DEF Matching
  <2>5. /\ page' \in Nat /\ shown' \in Rows
        /\ prevOn' \in BOOLEAN /\ nextOn' \in BOOLEAN
        /\ shown'.f = filter /\ ~shown'.old
        /\ ViewFits'
      BY <2>2, <2>3, <2>4, EvtRendering
  <2>. QED
      BY <2>2, <2>3, <2>5, <1>1, RestsOn
<1>4. CASE ~pending /\ EvtError
  <2>1. /\ Idle /\ shown' = Blank /\ held' = NoList /\ UNCHANGED total
        /\ page' = 0 /\ prevOn' = FALSE /\ nextOn' = FALSE
      BY <1>4, Zenon DEF EvtError
  <2>2. prevOn' \in BOOLEAN /\ nextOn' \in BOOLEAN
      BY <2>1, Zenon
  <2>. QED
      BY <2>1, <2>2, <1>1, Emptied
<1>. QED
    BY <1>2, <1>3, <1>4

(* Every step, put together.                                               *)
LEMMA StepCore == ASSUME IInv, [Next]_vars PROVE Core' /\ Shows
<1>1. Core /\ items \in Nat /\ (tasksOut => kind = "tl")
    BY DEF IInv, Boxes, Pictures, OtherTypes
<1>2. CASE User
    BY <1>1, <1>2, StepChooseFilter, StepRefresh, StepRefreshCameraFilter, StepTurn,
       StepChooseType, StepQuiet DEF User
<1>3. CASE Answer
    BY <1>1, <1>3, StepRecAnswer, StepTlAnswer, StepSnapAnswer, StepEvtAnswer DEF Answer
<1>4. CASE LoadRest \/ Serve \/ NasChanges
    BY <1>1, <1>4, StepQuiet
<1>5. CASE TasksLoaded
    BY <1>1, <1>5, StepTasksLoaded
<1>6. CASE UNCHANGED vars
    BY <1>1, <1>6, SameCore DEF vars
<1>. QED
    BY <1>2, <1>3, <1>4, <1>5, <1>6 DEF Next

(* The boxes of the other pages stay as they are.                          *)
LEMMA SameBoxes ==
    ASSUME Boxes, UNCHANGED <<kind, types, tasks>>, kind # "tl" \/ filter' = filter
    PROVE  Boxes'
<1>1. /\ kind' = kind /\ quick' = quick /\ search' = search /\ offered' = offered
      /\ tasksOut' = tasksOut /\ gone' = gone
    BY DEF types, tasks
<1>2. BoxTypes' /\ (tasksOut' => kind' = "tl")
    BY <1>1, Zenon DEF Boxes, BoxTypes
<1>3. FilterIsOffered'
    BY <1>1 DEF Boxes, FilterIsOffered
<1>. QED
    BY <1>2, <1>3 DEF Boxes

LEMMA StepBoxes == ASSUME IInv, [Next]_vars PROVE Boxes'
<1>1. /\ Boxes /\ kind \in Kinds
      /\ \A f, p, b : Load(b, f, p) => filter' = f
    BY DEF IInv, Core, ChoiceTypes, Load
<1>2. CASE ChooseFilter
  <2>1. kind' = kind /\ UNCHANGED tasks
      BY <1>2 DEF ChooseFilter
  <2>2. CASE (RecFilter \/ SnapFilter) /\ UNCHANGED types
      BY <2>1, <2>2, <1>1, SameBoxes DEF RecFilter, SnapFilter
  <2>3. CASE TlFilter /\ UNCHANGED types
    <3>1. PICK c \in {"all"} \cup (IF offered THEN Cams ELSE {}) :
              filter' = [cam |-> c, preset |-> FALSE]
        BY <2>3, <1>1 DEF TlFilter
    <3>2. filter'.cam = c /\ (~offered => c = "all")
        BY <3>1
    <3>3. /\ quick' = quick /\ search' = search /\ offered' = offered
          /\ tasksOut' = tasksOut /\ gone' = gone /\ kind = "tl"
        BY <2>1, <2>3 DEF types, tasks, TlFilter
    <3>4. BoxTypes' /\ (tasksOut' => kind' = "tl")
        BY <1>1, <2>1, <3>3, Zenon DEF Boxes, BoxTypes
    <3>5. FilterIsOffered'
        BY <2>1, <3>2, <3>3 DEF FilterIsOffered
    <3>. QED
        BY <3>4, <3>5 DEF Boxes
  <2>4. CASE EvtFilter
    <3>1. /\ kind' = "evt" /\ offered' = offered /\ quick' \in {quick, FALSE}
          /\ search' \in {search, FALSE, TRUE} /\ tasksOut' = tasksOut /\ gone' = gone
        BY <2>1, <2>4 DEF EvtFilter, types, tasks
    <3>2. quick' = quick \/ quick' = FALSE
        BY <3>1
    <3>3. search' = search \/ search' = FALSE \/ search' = TRUE
        BY <3>1
    <3>4. quick' \in BOOLEAN /\ search' \in BOOLEAN
      <4>1. quick' \in BOOLEAN
          BY <1>1, <3>2, Zenon DEF Boxes, BoxTypes
      <4>2. search' \in BOOLEAN
          BY <1>1, <3>3, Zenon DEF Boxes, BoxTypes
      <4>. QED
          BY <4>1, <4>2
    <3>5. BoxTypes' /\ ~tasksOut'
      <4>1. kind = "evt"
          BY <2>4 DEF EvtFilter
      <4>2. ~tasksOut
          BY <4>1, <1>1 DEF Boxes
      <4>. QED
          BY <1>1, <3>1, <3>4, <4>2, Zenon DEF Boxes, BoxTypes
    <3>6. quick' => offered'
      <4>1. kind = "evt"
          BY <2>4 DEF EvtFilter
      <4>2. quick => offered
          BY <4>1, <1>1 DEF Boxes, FilterIsOffered
      <4>. QED
          BY <3>1, <3>2, <4>2, Zenon
    <3>7. FilterIsOffered'
        BY <3>1, <3>6 DEF FilterIsOffered
    <3>. QED
        BY <3>5, <3>7, Zenon DEF Boxes
  <2>. QED
      BY <1>2, <2>2, <2>3, <2>4 DEF ChooseFilter
<1>3. CASE Refresh
  <2>1. /\ kind' = kind /\ filter' = filter /\ UNCHANGED types /\ gone' = gone
        /\ tasksOut' \in {tasksOut, kind = "tl" /\ api}
      BY <1>3, <1>1 DEF Refresh
  <2>2. tasksOut' = tasksOut \/ tasksOut' = (kind = "tl" /\ api)
      BY <2>1
  <2>3. CASE tasksOut' = tasksOut
      BY <2>1, <2>3, <1>1, SameBoxes DEF tasks
  <2>4. CASE tasksOut' = (kind = "tl" /\ api)
    <3>1. tasksOut' \in BOOLEAN /\ (tasksOut' => kind' = "tl")
        BY <2>1, <2>4, Zenon
    <3>2. quick' = quick /\ search' = search /\ offered' = offered
        BY <2>1 DEF types
    <3>3. BoxTypes'
        BY <1>1, <2>1, <3>1, <3>2, Zenon DEF Boxes, BoxTypes
    <3>4. FilterIsOffered'
        BY <1>1, <2>1, <3>2 DEF Boxes, FilterIsOffered
    <3>. QED
        BY <3>1, <3>3, <3>4 DEF Boxes
  <2>. QED
      BY <2>2, <2>3, <2>4
<1>4. CASE RefreshCameraFilter \/ Logout \/ LoadRest \/ Serve \/ NasChanges
  <2>1. UNCHANGED <<kind, filter, types, tasksOut>>
      BY <1>4 DEF RefreshCameraFilter, Logout, LoadRest, Serve, NasChanges, tasks
  <2>2. gone' = gone \/ gone' = TRUE
      BY <1>4 DEF RefreshCameraFilter, Logout, LoadRest, Serve, NasChanges, tasks
  <2>3. gone' \in BOOLEAN
      BY <1>1, <2>2, Zenon DEF Boxes, BoxTypes
  <2>4. /\ kind' = kind /\ filter' = filter /\ tasksOut' = tasksOut
        /\ quick' = quick /\ search' = search /\ offered' = offered
      BY <2>1 DEF types
  <2>5. BoxTypes' /\ (tasksOut' => kind' = "tl")
      BY <1>1, <2>3, <2>4, Zenon DEF Boxes, BoxTypes
  <2>6. FilterIsOffered'
      BY <1>1, <2>4 DEF Boxes, FilterIsOffered
  <2>. QED
      BY <2>5, <2>6 DEF Boxes
<1>5. CASE Turn
  <2>1. UNCHANGED <<kind, types, tasks>>
      BY <1>5 DEF Turn
  <2>2. filter' = filter
      BY <1>5, <1>1 DEF Turn, RecTurn, TlTurn, SnapTurn, EvtTurn
  <2>. QED
      BY <2>1, <2>2, <1>1, SameBoxes
<1>6. CASE ChooseType
  <2>1. PICK q \in BOOLEAN : (q => offered) /\ quick' = q /\ search' = FALSE
      BY <1>6 DEF ChooseType
  <2>2. /\ kind = "evt" /\ kind' = "evt" /\ offered' = offered
        /\ tasksOut' = tasksOut /\ gone' = gone
      BY <1>6 DEF ChooseType, tasks
  <2>3. quick' \in BOOLEAN /\ search' \in BOOLEAN /\ (quick' => offered')
      BY <2>1, <2>2, Zenon
  <2>4. BoxTypes' /\ (tasksOut' => kind' = "tl")
      BY <1>1, <2>2, <2>3, Zenon DEF Boxes, BoxTypes
  <2>5. FilterIsOffered'
      BY <2>2, <2>3 DEF FilterIsOffered
  <2>. QED
      BY <2>4, <2>5 DEF Boxes
<1>7. CASE Answer
  <2>1. kind' = kind /\ UNCHANGED tasks
      BY <1>7 DEF Answer
  <2>2. CASE UNCHANGED types
    <3>1. filter' = filter
        BY <1>7, <1>1 DEF Answer, RecLoaded, RecError, TlLoaded, TlError, SnapLoaded,
           SnapMultiLoaded, SnapError, EvtLoaded, EvtError, Again, Idle
    <3>. QED
        BY <3>1, <2>1, <2>2, <1>1, SameBoxes
  <2>3. CASE EvtLoaded /\ ~(UNCHANGED types)
    <3>1. /\ kind = "evt" /\ offered' = (call.m > 0) /\ quick' = (quick /\ offered')
          /\ search' = search /\ tasksOut' = tasksOut /\ gone' = gone
        BY <2>1, <2>3, Zenon DEF EvtLoaded, tasks
    <3>2. call.m \in Nat
        BY DEF IInv, Core, AskTypes, Calls
    <3>3. (call.m > 0) \in BOOLEAN
        BY <3>2
    <3>4. offered' \in BOOLEAN /\ quick' \in BOOLEAN /\ (quick' => offered')
        BY <3>1, <3>3, Zenon
    <3>5. BoxTypes' /\ (tasksOut' => kind' = "tl")
        BY <1>1, <2>1, <3>1, <3>4, Zenon DEF Boxes, BoxTypes
    <3>6. FilterIsOffered'
        BY <2>1, <3>1, <3>4 DEF FilterIsOffered
    <3>. QED
        BY <3>5, <3>6 DEF Boxes
  <2>. QED
      BY <1>7, <2>2, <2>3 DEF Answer, EvtError
<1>8. CASE TasksLoaded
  <2>1. /\ tasksOut' = FALSE /\ offered' = ~gone /\ gone' = gone
        /\ kind' = kind /\ quick' = quick /\ search' = search /\ kind = "tl"
      BY <1>8, <1>1 DEF TasksLoaded, Boxes
  <2>2. gone => filter'.cam = "all"
      BY <1>8, <1>1 DEF TasksLoaded, All
  <2>3. tasksOut' \in BOOLEAN /\ offered' \in BOOLEAN
      BY <2>1, Zenon
  <2>4. BoxTypes' /\ (tasksOut' => kind' = "tl")
      BY <1>1, <2>1, <2>3, Zenon DEF Boxes, BoxTypes
  <2>5. FilterIsOffered'
      BY <2>1, <2>2 DEF FilterIsOffered
  <2>. QED
      BY <2>4, <2>5 DEF Boxes
<1>9. CASE UNCHANGED vars
    BY <1>9, <1>1, SameBoxes DEF vars
<1>. QED
    BY <1>2, <1>3, <1>4, <1>5, <1>6, <1>7, <1>8, <1>9 DEF Next, User

(* Idle callbacks of old rows fetch nothing.                               *)
LEMMA StepPictures == ASSUME IInv, [Next]_vars PROVE Pictures'
<1>1. /\ items \in Nat /\ changes \in Nat
      /\ rest \subseteq {"new", "old"} /\ thumbs \subseteq {"new", "old"} /\ "old" \notin thumbs
    BY DEF IInv, Pictures, OtherTypes, NoThumbsForOldRows
<1>2. CASE RecLoaded /\ Answer
  <2>1. UNCHANGED nas
      BY <1>2 DEF Answer
  <2>2. CASE UNCHANGED pictures
      BY <1>1, <2>1, <2>2 DEF pictures, nas, Pictures, OtherTypes, NoThumbsForOldRows
  <2>3. CASE ~UNCHANGED pictures
    <3>1. thumbs' \subseteq {"new"} /\ rest' \subseteq {"new", "old"}
      <4>1. PICK n \in Nat : n = call.ans
          BY <1>2, Answers DEF RecLoaded, IInv
      <4>2. /\ thumbs' = IF RowsOn(page, n) > 0 THEN {"new"} ELSE {}
            /\ rest' = (IF rest = {} THEN {} ELSE {"old"})
                          \cup (IF RowsOn(page, n) > FirstRows THEN {"new"} ELSE {})
          BY <1>2, <2>3, <4>1, Zenon DEF RecLoaded
      <4>. QED
          BY <4>2
    <3>. QED
        BY <1>1, <2>1, <3>1 DEF nas, Pictures, OtherTypes, NoThumbsForOldRows
  <2>. QED
      BY <2>2, <2>3
<1>3. CASE RecError /\ Answer
    BY <1>1, <1>3 DEF Answer, RecError, ClearRows, pictures, nas, Pictures, OtherTypes,
       NoThumbsForOldRows
<1>4. CASE Answer /\ ~RecLoaded /\ ~RecError
    BY <1>1, <1>4 DEF Answer, TlLoaded, TlError, SnapLoaded, SnapMultiLoaded, SnapError,
       EvtLoaded, EvtError, pictures, nas, Pictures, OtherTypes, NoThumbsForOldRows
<1>5. CASE LoadRest
    BY <1>1, <1>5 DEF LoadRest, nas, Pictures, OtherTypes, NoThumbsForOldRows
<1>6. CASE NasChanges
    BY <1>1, <1>6, ItemAssumption DEF NasChanges, pictures, Pictures, OtherTypes, NoThumbsForOldRows
<1>7. CASE User \/ TasksLoaded \/ Serve \/ UNCHANGED vars
  <2>1. UNCHANGED <<pictures, nas>>
      BY <1>7 DEF User, ChooseFilter, Refresh, RefreshCameraFilter, Turn, ChooseType, Logout,
         TasksLoaded, Serve, vars
  <2>. QED
      BY <1>1, <2>1 DEF pictures, nas, Pictures, OtherTypes, NoThumbsForOldRows
<1>. QED
    BY <1>2, <1>3, <1>4, <1>5, <1>6, <1>7 DEF Next

LEMMA InitInv == Init => IInv
<1>. SUFFICES ASSUME Init PROVE IInv
    OBVIOUS
<1>1. All \in Filters /\ NoCall \in Calls /\ NoCall.f = All
    BY DEF All, Filters, NoCall, Calls
<1>2. kind \in Kinds /\ filter \in Filters /\ page = 0 /\ api = TRUE /\ known \in BOOLEAN
    BY <1>1 DEF Init
<1>3. ChoiceTypes
  <2>1. api \in BOOLEAN
      BY <1>2, Zenon
  <2>. QED
      BY <1>2, <2>1 DEF ChoiceTypes
<1>4. /\ loading = ~(kind = "evt" /\ filter.cam = "all" /\ ~known)
      /\ pending = FALSE /\ prevOn = FALSE /\ nextOn = FALSE
      /\ multi = (kind = "snap" /\ filter.cam # "all")
      /\ call = IF loading THEN [f |-> filter, p |-> 0, ans |-> Waiting, m |-> 0]
                           ELSE NoCall
    BY Zenon DEF Init
<1>5. call \in Calls /\ (loading => call.f = filter /\ call.p = 0)
  <2>1. CASE loading
      BY <2>1, <1>4, <1>2 DEF Calls
  <2>2. CASE ~loading
      BY <2>2, <1>4, <1>1
  <2>. QED
      BY <2>1, <2>2
<1>6. AskTypes
  <2>1. loading \in BOOLEAN /\ multi \in BOOLEAN
      BY <1>4, Zenon
  <2>2. pending \in BOOLEAN /\ prevOn \in BOOLEAN /\ nextOn \in BOOLEAN
      BY <1>4, Zenon
  <2>. QED
      BY <1>5, <2>1, <2>2 DEF AskTypes
<1>7. CallFits
    BY <1>2, <1>5 DEF CallFits
<1>8. /\ shown \in Rows /\ shown.f = NoFilter /\ shown.n = 0 /\ shown.old = FALSE
      /\ held \in Lists /\ held.f = NoFilter /\ held.n = 0 /\ held.m = 0
      /\ total = 0
  <2>1. FALSE \in BOOLEAN
      BY Zenon
  <2>. QED
      BY <2>1 DEF Init, Blank, NoList, Rows, Lists
<1>9. DisplayTypes /\ ShownFits /\ ViewIsRight
    BY <1>8, SMT DEF DisplayTypes, ShownFits, ViewIsRight
<1>10. quick = FALSE /\ search \in BOOLEAN /\ offered = FALSE /\ tasksOut = (kind = "tl")
       /\ gone = FALSE
  <2>1. search \in BOOLEAN
    <3>1. FALSE \in BOOLEAN
        BY Zenon
    <3>. QED
        BY <3>1 DEF Init
  <2>. QED
      BY <2>1, Zenon DEF Init
<1>11. BoxTypes
    BY <1>10, Zenon DEF BoxTypes
<1>12. FilterIsOffered
  <2>1. kind = "tl" => filter.cam = "all"
      BY DEF Init, All
  <2>. QED
      BY <1>10, <2>1, Zenon DEF FilterIsOffered
<1>13. Pictures
    BY ItemAssumption DEF Init, Pictures, OtherTypes, NoThumbsForOldRows
<1>. QED
    BY <1>3, <1>6, <1>7, <1>9, <1>10, <1>11, <1>12, <1>13, Zenon DEF IInv, Core, Boxes

(***************************************************************************)
(* What follows.                                                           *)
(***************************************************************************)
(* The invariant holds of every reachable state.                           *)
THEOREM PagesInductive == Spec => []IInv
<1>1. IInv /\ [Next]_vars => IInv'
    BY StepCore, StepBoxes, StepPictures DEF IInv
<1>. QED
    BY <1>1, InitInv, PTL DEF Spec

(* Every variable keeps its type.                                          *)
THEOREM PageTypes == Spec => []TypeOK
<1>1. IInv => TypeOK
  <2>. SUFFICES ASSUME IInv PROVE TypeOK
      OBVIOUS
  <2>2. /\ api \in BOOLEAN /\ known \in BOOLEAN /\ loading \in BOOLEAN /\ pending \in BOOLEAN
        /\ prevOn \in BOOLEAN /\ nextOn \in BOOLEAN /\ multi \in BOOLEAN
        /\ quick \in BOOLEAN /\ search \in BOOLEAN /\ offered \in BOOLEAN
        /\ tasksOut \in BOOLEAN /\ gone \in BOOLEAN
      BY DEF IInv, Core, ChoiceTypes, AskTypes, Boxes, BoxTypes
  <2>3. {api, known, loading, pending, prevOn, nextOn, multi, quick, search,
         offered, tasksOut, gone} \subseteq BOOLEAN
      BY <2>2
  <2>4. /\ kind \in Kinds /\ filter \in Filters /\ page \in Nat /\ call \in Calls
        /\ shown \in Rows /\ held \in Lists /\ total \in Nat
        /\ items \in Nat /\ changes \in Nat
        /\ rest \subseteq {"new", "old"} /\ thumbs \subseteq {"new", "old"}
      BY DEF IInv, Core, ChoiceTypes, AskTypes, DisplayTypes, Pictures, OtherTypes
  <2>. QED
      BY <2>3, <2>4, Zenon DEF Calls, Rows, Lists, TypeOK
<1>. QED
    BY <1>1, PagesInductive, PTL

(* A page at rest shows the filter and the page chosen last, filters only  *)
(* by what its boxes offer, and fetches no thumbnail of rows that are gone *)
(* (_load, _reload_pending, _update_paging, _clear_rows of the four pages).*)
THEOREM PagesAreRight == Spec => []PagesRight
<1>1. IInv => PagesRight
    BY DEF IInv, Core, Boxes, Pictures, PagesRight
<1>. QED
    BY <1>1, PagesInductive, PTL

(* The pages implement LatestList: whatever answers are late, the list on  *)
(* display changes only to the one wanted at that moment or to nothing     *)
(* (the handlers of the answers of the four pages).                        *)
THEOREM LatestIsShown == Spec => ShowsLatest
<1>1. Init => LL!Init
  <2>1. ASSUME Init PROVE filter \in Filters /\ shown.f = NoFilter
      BY <2>1, InitInv DEF Init, IInv, Core, ChoiceTypes, Blank
  <2>. QED
      BY <2>1 DEF LL!Init
<1>2. IInv /\ [Next]_vars => [LL!Next]_<<filter, shown.f>>
    BY StepCore DEF Shows, LL!Next, LL!Ask, LL!Show
<1>. QED
    BY <1>1, <1>2, PagesInductive, PTL DEF Spec, ShowsLatest, LL!Spec
====
