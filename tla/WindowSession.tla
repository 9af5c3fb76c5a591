---------------------------- MODULE WindowSession ----------------------------
(***************************************************************************)
(* The main window from one login to the next, of any connection profile: *)
(* the login dialog with its second factor (ui/login.py), MainWindow's     *)
(* pages, polls and held command line requests (ui/window.py, app.py), the *)
(* sidebar's camera list, the Live View arrangement of every grid layout   *)
(* (ui/liveview.py) and the file it is kept in (config.py), across exits   *)
(* and crashes.                                                            *)
(*                                                                         *)
(* The file keeps a camera's id, which cameras of two NAS may share; the   *)
(* model keeps the camera, to tell whose it was.  NoCam, the 0 of an empty *)
(* slot, is also what a layout that was never saved restores.              *)
(***************************************************************************)
EXTENDS Integers, Sequences

CONSTANTS Profiles,     \* connection profiles, one NAS each
          Cameras,      \* cameras, as positive numbers
          NasOf, IdOf,  \* of each camera, the profile of its NAS and its id there
          Slots, Focus, \* the pool of slots, and the one --camera goes to
          Layouts, Solo,\* grid layouts, and 1x1
          Shown,        \* the slots of each layout
          Default,      \* the profile of the first start
          MaxClients,   \* API clients ever built
          MaxEdits,     \* changes of an arrangement and command line requests
          MaxStarts     \* times the program is started

NoCam == 0
Empty == [x \in Slots |-> NoCam]
NoLayouts == [l \in Layouts |-> Empty]
Nobody == "none"
Clients == 1..MaxClients
None == 0

ASSUME WindowAssumption ==
  /\ Default \in Profiles /\ Nobody \notin Profiles
  /\ NoCam \notin Cameras /\ NasOf \in [Cameras -> Profiles]
  /\ \A c, d \in Cameras : NasOf[c] = NasOf[d] /\ IdOf[c] = IdOf[d] => c = d
  /\ Solo \in Layouts /\ Shown \in [Layouts -> SUBSET Slots]
  /\ Focus \in Slots /\ \A l \in Layouts : Focus \in Shown[l]
  /\ Shown[Solo] = {Focus} /\ MaxClients \in Nat /\ MaxEdits \in Nat

VARIABLES
  config,   \* AppConfig: the active profile, its layouts, the others', the grid
  disk,     \* config.toml
  profileOf,\* of each API client, the profile it was built for
  task,     \* what the dialog's coroutine for the client is doing
  open,     \* clients not closed
  dialog,   \* the login dialog: shown, its _current_api, the second factor, the button
  stale,    \* clients whose dialog was dismissed
  api,      \* app.api
  window,   \* _live_session_ready, the requests held, those run, the next number
  listed,   \* whose cameras the sidebar shows
  view,     \* LiveView: its layout and what its slots hold
  polls,    \* <<kind, client>>: requests of the polls that are out
  heard,    \* clients whose answers reached the header bar or the webhooks since login
  mine,     \* history: how the user last left each layout of each profile
  wiped,    \* history: profiles whose layout was switched before the cameras were known
  edits, starts

disks == <<config, disk>>
login == <<profileOf, task, open, dialog, stale>>
session == <<api, window, listed, view, polls, heard>>
history == <<mine, wiped>>
vars == <<disks, login, session, history, edits, starts>>

(***************************************************************************)
(* The configuration and its file                                          *)
(***************************************************************************)
\* What _write_config() writes: the active profile's fields under its name.
FileOf(c) ==
  [default |-> c.default, known |-> c.known, grid |-> c.grid,
   state |-> [p \in Profiles |->
      IF p \notin c.known THEN NoLayouts
      ELSE IF p = c.active THEN c.layouts ELSE c.away[p]]]

\* What load_config() makes of it: the default profile's settings are active.
Loaded(f) ==
  [active |-> f.default, default |-> f.default, known |-> f.known, grid |-> f.grid,
   layouts |-> IF f.default = Nobody THEN NoLayouts ELSE f.state[f.default],
   away |-> [p \in Profiles |-> IF p = f.default THEN NoLayouts ELSE f.state[p]]]

\* A mutant: the profile logged out of keeps nothing of its own.
SharedLayouts(c, p) == [c EXCEPT !.active = p]

\* AppConfig.activate_profile(): what was active is put away, p's is taken out.
Activated(c, p) ==
  IF c.active = p THEN c
  ELSE [c EXCEPT !.active = p,
                 !.layouts = c.away[p],
                 !.away = [q \in Profiles |->
                    IF q = p THEN NoLayouts
                    ELSE IF q = c.active THEN c.layouts ELSE c.away[q]]]

WithProfile(c, p) ==
  [c EXCEPT !.known = @ \union {p}, !.default = IF @ = Nobody THEN p ELSE @]

(***************************************************************************)
(* The arrangement of Live View.  An arrangement under way is a record of  *)
(* the slots, the layout shown and the saved layouts, so that the requests *)
(* held before login can be run one after the other in one handler.        *)
(***************************************************************************)
Arrangement == [slots |-> view.slots, grid |-> view.grid, saved |-> config.layouts]

Visible(slots, l) == [x \in Slots |-> IF x \in Shown[l] THEN slots[x] ELSE NoCam]

\* _save_layout_cameras(), and _save_session() but for the write.
Saved(a) == [a EXCEPT !.saved[a.grid] = Visible(a.slots, a.grid)]

\* The camera with id i of p's NAS, if there is one.
CameraWith(i, p) ==
  IF \E d \in Cameras : NasOf[d] = p /\ IdOf[d] = i
  THEN CHOOSE d \in Cameras : NasOf[d] = p /\ IdOf[d] = i ELSE NoCam

\* _restore_layout_cameras() with the cameras of p, or without any list.
Restored(a, p) ==
  IF p = Nobody THEN a
  ELSE [a EXCEPT !.slots = [x \in Slots |->
          IF x \notin Shown[a.grid] THEN a.slots[x]
          ELSE IF a.saved[a.grid][x] = NoCam THEN NoCam
          ELSE CameraWith(IdOf[a.saved[a.grid][x]], p)]]

\* A mutant: set_layout() does not save the layout it leaves nor, once the
\* slots are those of the new one, the new one.
SwitchedUnsaved(a, l, p) == Saved([a EXCEPT !.grid = l])

\* set_layout(l), p being whose cameras are known.
Switched(a, l, p) ==
  IF l = a.grid THEN a ELSE Saved(Restored([Saved(a) EXCEPT !.grid = l], p))

\* _assign_to_slot(): moved if another slot, shown or hidden, has it.
AssignedTo(a, x, c) ==
  Saved([a EXCEPT !.slots = [y \in Slots |->
           IF y = x THEN c ELSE IF a.slots[y] = c THEN NoCam ELSE a.slots[y]]])

\* on_camera_selected() with no slot selected: the camera alone, in 1x1.
Alone(a, c) ==
  Saved([Saved(a) EXCEPT !.grid = Solo,
           !.slots = [y \in Slots |->
              IF y = Focus THEN c ELSE IF y \in Shown[a.grid] THEN NoCam ELSE a.slots[y]]])

Cleared(a, X) ==
  Saved([a EXCEPT !.slots = [y \in Slots |-> IF y \in X THEN NoCam ELSE a.slots[y]]])

\* _run_live_view_request(): --grid or --camera.
AfterRequest(a, r) ==
  IF r.what = "grid" THEN Switched(a, r.grid, profileOf[api])
  ELSE LET c == CameraWith(r.id, profileOf[api])
       IN IF c = NoCam THEN a ELSE AssignedTo(a, Focus, c)

\* What the user meant by a request: that layout's arrangement, if a camera
\* was placed.
Meant(m, a, r) == IF r.what = "camera" THEN [m EXCEPT ![a.grid] = Visible(a.slots, a.grid)] ELSE m

\* The arrangement and the user's idea of it, after a run of requests.
RequestRun(s, r) ==
  LET a == AfterRequest(s.now, r) IN [now |-> a, meant |-> Meant(s.meant, a, r)]

\* The requests held, one after the other.
AllRun(first, held) ==
  LET after[i \in 0 .. Len(held)] ==
        IF i = 0 THEN first ELSE RequestRun(after[i - 1], held[i])
  IN after[Len(held)]

NowShows(a) ==
  /\ view' = [view EXCEPT !.slots = a.slots, !.grid = a.grid]
  /\ config' = [config EXCEPT !.layouts = a.saved, !.grid = a.grid]

\* _save_session() and save_config_now().
Written == disk' = FileOf(config')

(***************************************************************************)
(* Start, exit, crash                                                      *)
(***************************************************************************)
NoView == [slots |-> Empty, grid |-> Solo]
NoWindow == [ready |-> FALSE, held |-> <<>>, ran |-> <<>>, next |-> 1]
NewDialog == [shown |-> TRUE, current |-> None, otp |-> FALSE, button |-> TRUE]

Init ==
  /\ disk = [default |-> Default, known |-> {Default}, grid |-> Solo,
             state |-> [p \in Profiles |-> NoLayouts]]
  /\ config = Loaded(disk)
  /\ profileOf = [c \in Clients |-> Nobody]
  /\ task = [c \in Clients |-> "none"] /\ open = {} /\ stale = {}
  /\ dialog = NewDialog
  /\ api = None /\ window = NoWindow /\ listed = Nobody /\ view = NoView
  /\ polls = {} /\ heard = {}
  /\ mine = [p \in Profiles |-> NoLayouts] /\ wiped = {}
  /\ edits = 0 /\ starts = 1

\* The program is started again; f is what the file then holds.
StartedWith(f) ==
  /\ starts < MaxStarts /\ starts' = starts + 1
  /\ disk' = f /\ config' = Loaded(f)
  /\ task' = [c \in Clients |-> "none"] /\ open' = {} /\ stale' = {}
  /\ dialog' = NewDialog
  /\ api' = None /\ window' = NoWindow /\ listed' = Nobody /\ view' = NoView
  /\ polls' = {} /\ heard' = {}
  /\ UNCHANGED <<profileOf, history, edits>>

\* exit_now() writes the configuration first; a crash leaves the file as it is.
Restart == \E f \in {disk, FileOf(config)} : StartedWith(f)

(***************************************************************************)
(* The login dialog                                                        *)
(***************************************************************************)
\* A mutant: the client of the attempt before is left open.
LeftOpen(S, c) == S

Closing(S, c) == S \ {c}

\* _on_connect_clicked()
Connect ==
  /\ dialog.shown /\ dialog.button
  /\ \E c \in Clients, p \in Profiles :
       /\ \A d \in 1..c : (profileOf[d] = Nobody) = (d = c)
       /\ profileOf' = [profileOf EXCEPT ![c] = p]
       /\ task' = [task EXCEPT ![c] = "connect"]
       /\ open' = Closing(open, dialog.current) \union {c}
       /\ dialog' = [dialog EXCEPT !.current = c, !.button = FALSE]
  /\ UNCHANGED <<disks, stale, session, history, edits, starts>>

\* The Cancel button, or closing the window: _on_close_request().  Whatever
\* is still asked for this dialog will find it dismissed.
Dismiss ==
  /\ dialog.shown /\ ~dialog.otp
  /\ open' = open \ {dialog.current}
  /\ stale' = {c \in Clients : profileOf[c] # Nobody}
  /\ dialog' = [dialog EXCEPT !.shown = FALSE, !.current = None]
  /\ UNCHANGED <<disks, profileOf, task, session, history, edits, starts>>

\* A mutant: an answer is dropped only if its dialog is gone.
OnlyDismissed(c) == c \notin stale

\* The answer is for the attempt the user is still waiting for.
Wanted(c) == c \notin stale /\ c = dialog.current

\* on_connected(): webhooks, new pages, the camera list and the polls.
Connected(c) ==
  /\ config' = Activated(WithProfile(config, profileOf[c]), profileOf[c])
  /\ disk' = FileOf(WithProfile(config, profileOf[c]))
  /\ api' = c
  /\ heard' = {}
  /\ view' = [slots |-> Empty, grid |-> config.grid]
  /\ polls' = polls \union {<<"cameras", c>>, <<"news", c>>}
  /\ dialog' = [dialog EXCEPT !.shown = FALSE, !.current = None, !.otp = FALSE]
  /\ stale' = {d \in Clients : profileOf[d] # Nobody}

\* _on_connect_success(), for the password or for the second factor.
LoggedIn(c) ==
  /\ task[c] \in {"connect", "verify"}
  /\ task' = [task EXCEPT ![c] = "none"]
  /\ IF Wanted(c)
     THEN Connected(c) /\ UNCHANGED open
     ELSE /\ open' = open \ {c}
          /\ UNCHANGED <<disks, stale, api, heard, view, polls>>
          \* _on_otp_success() closes the second factor's window in any case.
          /\ dialog' = IF task[c] = "verify" /\ c \notin stale
                       THEN [dialog EXCEPT !.otp = FALSE] ELSE dialog
  /\ UNCHANGED <<profileOf, window, listed, history, edits, starts>>

\* _on_connect_error(): a second factor is asked for, or the client is dropped.
ConnectFailed(c) ==
  /\ task[c] = "connect"
  /\ task' = [task EXCEPT ![c] = "none"]
  /\ IF c \in stale THEN UNCHANGED <<open, dialog, disk, config>>
     ELSE \/ /\ dialog' = [dialog EXCEPT !.otp = TRUE, !.button = TRUE]
             \* A device token that was refused is forgotten in the file too.
             /\ \/ UNCHANGED <<config, disk>>
                \/ /\ config' = WithProfile(config, profileOf[c])
                   /\ disk' = FileOf(config')
             /\ UNCHANGED open
          \/ /\ dialog' = [dialog EXCEPT !.button = TRUE, !.current = None]
             /\ open' = open \ {dialog.current}
             /\ UNCHANGED <<config, disk>>
  /\ UNCHANGED <<profileOf, stale, session, history, edits, starts>>

\* _on_verify(): once at a time, since the button goes grey until the answer.
Verify ==
  /\ dialog.shown /\ dialog.otp /\ dialog.current # None
  /\ task[dialog.current] = "none"
  /\ task' = [task EXCEPT ![dialog.current] = "verify"]
  /\ UNCHANGED <<disks, profileOf, open, dialog, stale, session, history, edits, starts>>

\* _on_otp_error(): another code may be tried.
VerifyFailed(c) ==
  /\ task[c] = "verify"
  /\ task' = [task EXCEPT ![c] = "none"]
  /\ UNCHANGED <<disks, profileOf, open, dialog, stale, session, history, edits, starts>>

\* _on_otp_cancel(), or its window closed, which keeps the client.
OtpClosed ==
  /\ dialog.otp
  /\ \/ /\ dialog' = [dialog EXCEPT !.otp = FALSE, !.current = None]
        /\ open' = open \ {dialog.current}
     \/ /\ dialog' = [dialog EXCEPT !.otp = FALSE]
        /\ UNCHANGED open
  /\ UNCHANGED <<disks, profileOf, task, stale, session, history, edits, starts>>

\* _on_logout(), which is also the Login button: on_disconnected(), the API
\* client logged out and closed, a new dialog.
Logout ==
  /\ ~dialog.shown
  /\ window' = [window EXCEPT !.ready = FALSE]
  /\ listed' = Nobody
  /\ view' = [view EXCEPT !.slots = Empty]
  /\ heard' = {}
  /\ api' = None
  /\ open' = open \ {api}
  /\ dialog' = NewDialog
  /\ UNCHANGED <<disks, profileOf, task, stale, polls, history, edits, starts>>

(***************************************************************************)
(* The polls                                                               *)
(***************************************************************************)
\* A mutant: the timer waits for the first list.
OnlyOnceReady == api # None /\ window.ready

PollDue == api # None

\* sidebar._poll_tick() and the polls of _start_polling().
Tick(kind) ==
  /\ PollDue
  /\ <<kind, api>> \notin polls /\ polls' = polls \union {<<kind, api>>}
  /\ UNCHANGED <<disks, login, api, window, listed, view, heard, history, edits, starts>>

\* A mutant: an answer is used if anyone is logged in.
AnySession(c) == api # None

\* sidebar.refresh()._on_loaded() and _for_session(): the same session still.
SameSession(c) == api = c

\* A mutant: the requests held are also kept for the next time.
KeptToo(held) == held

LeftHeld(held) == <<>>

\* _on_cameras_updated(), and _restore_live_session() the first time.
CamerasListed(c) ==
  /\ <<"cameras", c>> \in polls /\ polls' = polls \ {<<"cameras", c>>}
  /\ IF ~SameSession(c)
     THEN UNCHANGED <<disks, window, listed, view, mine, wiped>>
     ELSE /\ listed' = profileOf[c]
          /\ IF window.ready THEN UNCHANGED <<disks, window, view, mine, wiped>>
             ELSE LET first == [now |-> Restored(Arrangement, profileOf[c]),
                                meant |-> mine[config.active]]
                      last == AllRun(first, window.held)
                  IN /\ NowShows(last.now)
                     \* Restoring writes nothing, a request that changed something does.
                     /\ IF last.now.saved = config.layouts /\ last.now.grid = view.grid
                        THEN UNCHANGED disk ELSE Written
                     /\ window' = [window EXCEPT
                          !.ready = TRUE, !.held = LeftHeld(@),
                          !.ran = @ \o [i \in DOMAIN window.held |-> window.held[i].n]]
                     /\ mine' = [mine EXCEPT ![config.active] = last.meant]
                     /\ UNCHANGED wiped
  /\ UNCHANGED <<login, api, heard, edits, starts>>

\* The answer of a home mode, alert or transaction poll: shown in the header
\* bar and on the video, noted by the webhooks.
NewsAnswered(c) ==
  /\ <<"news", c>> \in polls /\ polls' = polls \ {<<"news", c>>}
  /\ heard' = IF SameSession(c) THEN heard \union {c} ELSE heard
  /\ UNCHANGED <<disks, login, api, window, listed, view, history, edits, starts>>

\* Only logged: the next tick asks again.
PollFailed ==
  /\ \E k \in polls : polls' = polls \ {k}
  /\ UNCHANGED <<disks, login, api, window, listed, view, heard, history, edits, starts>>

(***************************************************************************)
(* What the user does with the arrangement                                 *)
(***************************************************************************)
\* A change the user meant: that layout is to come back like this.
Edit(a) ==
  /\ api # None /\ edits < MaxEdits /\ edits' = edits + 1
  /\ NowShows(a) /\ Written
  /\ mine' = [mine EXCEPT ![config.active] = [@ EXCEPT ![a.grid] = Visible(a.slots, a.grid)]]
  /\ UNCHANGED <<login, api, window, listed, polls, heard, wiped, starts>>

PickCamera ==
  \E c \in Cameras :
    /\ NasOf[c] = listed
    /\ \/ \E x \in Shown[view.grid] : Edit(AssignedTo(Arrangement, x, c))
       \/ Edit(Alone(Arrangement, c))

Clear ==
  \/ \E x \in Shown[view.grid] : Edit(Cleared(Arrangement, {x}))
  \/ Edit(Cleared(Arrangement, Slots))

\* The header bar's menu, there as soon as the login is through.
SwitchLayout ==
  /\ api # None /\ edits < MaxEdits /\ edits' = edits + 1
  /\ \E l \in Layouts \ {view.grid} : NowShows(Switched(Arrangement, l, listed)) /\ Written
  /\ wiped' = IF listed = Nobody THEN wiped \union {config.active} ELSE wiped
  /\ UNCHANGED <<login, api, window, listed, polls, heard, mine, starts>>

(***************************************************************************)
(* The command line of a second launch                                     *)
(***************************************************************************)
Requests ==
  [n : 1..MaxEdits, what : {"grid"}, grid : Layouts, id : {0}]
    \union [n : 1..MaxEdits, what : {"camera"}, grid : {Solo}, id : {IdOf[c] : c \in Cameras}]

\* apply_remote_request()
Request ==
  /\ edits < MaxEdits /\ edits' = edits + 1
  /\ \E r \in Requests :
       /\ r.n = window.next
       /\ IF ~window.ready
          THEN /\ window' = [window EXCEPT !.held = Append(@, r), !.next = @ + 1]
               /\ UNCHANGED <<disks, view, mine>>
          ELSE LET s == RequestRun([now |-> Arrangement, meant |-> mine[config.active]], r)
               IN /\ NowShows(s.now) /\ Written
                  /\ mine' = [mine EXCEPT ![config.active] = s.meant]
                  /\ window' = [window EXCEPT !.ran = Append(@, r.n), !.next = @ + 1]
  /\ UNCHANGED <<login, api, listed, polls, heard, wiped, starts>>

(***************************************************************************)
(* The specification                                                       *)
(***************************************************************************)
Next ==
  \/ Restart
  \/ Connect \/ Dismiss \/ Verify \/ OtpClosed \/ Logout
  \/ \E c \in Clients : LoggedIn(c) \/ ConnectFailed(c) \/ VerifyFailed(c)
  \/ Tick("cameras") \/ Tick("news") \/ PollFailed
  \/ \E c \in Clients : CamerasListed(c) \/ NewsAnswered(c)
  \/ PickCamera \/ Clear \/ SwitchLayout \/ Request

Spec == Init /\ [][Next]_vars

\* The camera list of the NAS logged in to is answered: of the steps there
\* are, only those of CamerasListed do this before the list is there.
Answers ==
  /\ <<"cameras", api>> \in polls /\ polls' = polls \ {<<"cameras", api>>}
  /\ api # None /\ listed' = profileOf[api]

\* The timer runs, and a NAS that is asked again and again answers at last.
FairSpec == Spec /\ WF_polls(Tick("cameras")) /\ SF_polls(Answers)

(***************************************************************************)
(* Properties                                                              *)
(***************************************************************************)
Arrangements == [Layouts -> [Slots -> Cameras \union {NoCam}]]
TypeOK ==
  /\ config \in [active : Profiles, default : Profiles, known : SUBSET Profiles, grid : Layouts,
                 layouts : Arrangements, away : [Profiles -> Arrangements]]
  /\ disk \in [default : Profiles, known : SUBSET Profiles, grid : Layouts,
               state : [Profiles -> Arrangements]]
  /\ profileOf \in [Clients -> Profiles \union {Nobody}]
  /\ task \in [Clients -> {"none", "connect", "verify"}]
  /\ open \subseteq Clients /\ stale \subseteq Clients /\ heard \subseteq Clients
  /\ dialog \in [shown : BOOLEAN, current : Clients \union {None}, otp : BOOLEAN, button : BOOLEAN]
  /\ api \in Clients \union {None} /\ listed \in Profiles \union {Nobody}
  /\ window \in [ready : BOOLEAN, held : Seq(Requests), ran : Seq(Nat), next : Nat \ {0}]
  /\ view \in [slots : [Slots -> Cameras \union {NoCam}], grid : Layouts]
  /\ mine \in [Profiles -> Arrangements]

StoredFor(p) == IF config.active = p THEN config.layouts ELSE config.away[p]

\* What a profile has saved, in memory and in the file, names only its own
\* cameras: a login to another NAS, a late camera list or an exit at any
\* moment never mixes the arrangements of two profiles.
LayoutsStayApart ==
  \A p \in Profiles, l \in Layouts, x \in Slots :
    \A c \in {StoredFor(p)[l][x], disk.state[p][l][x]} \ {NoCam} : NasOf[c] = p

\* Every layout of every profile is kept as the user last left it, in the
\* file at once, and is what Live View shows when it comes back to it; but
\* for a profile whose layout was switched before its cameras were known.
ArrangementKept ==
  \A p \in Profiles \ wiped :
    /\ StoredFor(p) = mine[p] /\ disk.state[p] = mine[p]
    /\ window.ready /\ config.active = p =>
         Visible(view.slots, view.grid) = mine[p][view.grid]

\* The arrangements of a profile are its own and as the user left them.
ArrangementsKept == LayoutsStayApart /\ ArrangementKept

\* README.md: "Each layout keeps its own camera arrangement"; "camera
\* assignments [...] are restored on restart".  Violated: switching the
\* layout before the camera list has come saves empty slots over it.
LayoutsKept == \A p \in Profiles : disk.state[p] = mine[p]

\* What the header bar shows and the webhooks are told since the login comes
\* from the NAS logged in to, and the cameras listed are that NAS's.
OwnNews ==
  /\ heard \subseteq {api}
  /\ listed # Nobody => api # None /\ listed = profileOf[api]

\* Every command line request is run once, in the order given, and not
\* before the cameras of a session are listed.
RequestsOnce ==
  /\ window.ran \o [i \in DOMAIN window.held |-> window.held[i].n]
       = [i \in 1..(window.next - 1) |-> i]
  /\ window.ready => listed # Nobody

\* An API client that is not closed is the program's or the dialog's own:
\* no login that was given up leaves one behind.
NoClientLeaks ==
  \A c \in open : c \in {api, dialog.current} \/ task[c] # "none"

\* Nothing of one session lands in the next: no news, no request run again,
\* no client left open (_for_session, _restore_live_session, on_disconnected).
NothingCarriedOver == OwnNews /\ RequestsOnce /\ NoClientLeaks

\* A login comes up, however often the camera list fails at first: its
\* arrangement is restored and what was held is run.
SessionComesUp == api # None ~> window.ready \/ api = None

(***************************************************************************)
(* The invariant behind them                                               *)
(***************************************************************************)
\* No session while the dialog is up; without one nothing is shown or ready,
\* with one the active profile is its own.  Once it is ready, no request is held.
DialogOrSession ==
  /\ dialog.current # None => dialog.shown /\ profileOf[dialog.current] # Nobody
  /\ dialog.shown => api = None
  /\ IF api = None THEN view.slots = Empty /\ listed = Nobody
     ELSE profileOf[api] = config.active
  /\ window.ready <=> listed # Nobody
  /\ window.ready => window.held = <<>>

\* What is under way is an attempt on a profile.
AttemptsNamed == \A c \in Clients : task[c] # "none" => profileOf[c] # Nobody

\* Clients not closed are the program's or the dialog's.
OpenHasOwner == open \subseteq {api, dialog.current}

\* The file knows the profiles the program does; an unknown one has nothing.
KnownAlike ==
  /\ {config.active, config.default} \subseteq config.known
  /\ disk.known = config.known /\ disk.default \in disk.known
  /\ \A p \in Profiles \ config.known :
       StoredFor(p) = NoLayouts /\ disk.state[p] = NoLayouts /\ mine[p] = NoLayouts

\* An arrangement saved has cameras of its profile, in slots it shows.
Proper(s, p) ==
  \A l \in Layouts, x \in Slots :
    s[l][x] # NoCam => x \in Shown[l] /\ NasOf[s[l][x]] = p
OwnArrangements ==
  /\ \A p \in Profiles : Proper(StoredFor(p), p) /\ Proper(disk.state[p], p)
  /\ \A x \in Slots : view.slots[x] # NoCam => NasOf[view.slots[x]] = config.active

IInv == /\ TypeOK /\ DialogOrSession /\ AttemptsNamed /\ OpenHasOwner /\ KnownAlike
        /\ OwnArrangements /\ ArrangementKept /\ OwnNews /\ RequestsOnce
=============================================================================
