---------------------------- MODULE SessionProofs ----------------------------
(***************************************************************************)
(* The session of an API client (ApiSession, as Api): for any number of    *)
(* concurrent calls and any bounds on what the NAS does, a refused         *)
(* password is not tried again, a retry carries a newer session than the   *)
(* attempt that failed, and a closed client sends nothing.                 *)
(*                                                                         *)
(* The main window from login to login (WindowSession): for any NASes,     *)
(* cameras, layouts and requests, arrangements are kept and one session    *)
(* does not see another's.  The arguments are that what is on screen,      *)
(* stored and on file all fit the profile (OwnArrangements), that the file *)
(* knows the profiles the configuration knows (KnownAlike), and that there *)
(* is no session while the dialog is up (DialogOrSession).  That it holds  *)
(* after all the requests held have run is an induction over their number. *)
(***************************************************************************)
EXTENDS WindowSession, MCApiSession, WellFoundedInduction, TLAPS

(***************************************************************************)
(* The session of an API client                                            *)
(***************************************************************************)

(* The client the login dialog hands over satisfies the invariant.         *)
LEMMA InitApi == ASSUME Api!SessionAssumption, Api!Init PROVE Api!IInv
<1> USE DEF Api!SessionAssumption, Api!Init
<1>1. /\ 0 \in Api!Sids /\ 1 \in Api!Sids /\ 0 \in 0 .. MaxKicks
      /\ "idle" \notin Api!Waiting /\ "none" \in Api!Replies
  BY DEF Api!Sids, Api!Waiting, Api!Replies
<1>2. Api!TypeOK
  BY <1>1 DEF Api!TypeOK
<1>3. Api!Unrefused /\ Api!Ordered /\ Api!FreshRetry
  BY <1>1 DEF Api!Unrefused, Api!Ordered, Api!FreshRetry, Api!Waiting
<1> QED BY <1>2, <1>3 DEF Api!IInv

(* A caller's own steps: sending, and handling what came back.             *)
LEMMA CallerKeepsIInv ==
  ASSUME Api!SessionAssumption, Api!IInv, NEW c \in Callers, Api!Ask(c) \/ Api!Handle(c)
  PROVE  Api!IInv'
<1> USE DEF Api!SessionAssumption, Api!IInv, Api!Sids, Api!Waiting, Api!Replies
<1>1. CASE Api!Ask(c)
  <2>1. Api!TypeOK'
    BY <1>1 DEF Api!Ask, Api!TypeOK, Api!Send, Api!Open, Api!session, Api!nas, Api!leaving
  <2>2. Api!Unrefused'
    BY <1>1 DEF Api!Ask, Api!TypeOK, Api!Unrefused, Api!Send, Api!Open, Api!session
  <2>3. Api!Ordered' /\ Api!FreshRetry'
    BY <1>1 DEF Api!Ask, Api!TypeOK, Api!Ordered, Api!FreshRetry, Api!Send, Api!Open,
         Api!session, Api!nas
  <2> QED BY <2>1, <2>2, <2>3
<1>2. CASE Api!AskFailed(c)
  <2>1. Api!TypeOK'
    BY <1>2 DEF Api!AskFailed, Api!TypeOK, Api!Send, Api!End, Api!Open, Api!session, Api!nas,
         Api!leaving
  <2>2. Api!Unrefused'
    BY <1>2 DEF Api!AskFailed, Api!TypeOK, Api!Unrefused, Api!Send, Api!End, Api!Open,
         Api!session
  <2>3. Api!Ordered' /\ Api!FreshRetry'
    BY <1>2 DEF Api!AskFailed, Api!TypeOK, Api!Ordered, Api!FreshRetry, Api!Send, Api!End,
         Api!Open, Api!session, Api!nas
  <2> QED BY <2>1, <2>2, <2>3
<1>3. CASE Api!AskDone(c) \/ Api!AgainDone(c)
  <2>1. Api!TypeOK'
    BY <1>3 DEF Api!AskDone, Api!AgainDone, Api!TypeOK, Api!End, Api!session, Api!nas,
         Api!leaving
  <2>2. Api!Unrefused'
    BY <1>3 DEF Api!AskDone, Api!AgainDone, Api!TypeOK, Api!Unrefused, Api!End, Api!session
  <2>3. Api!Ordered' /\ Api!FreshRetry'
    BY <1>3 DEF Api!AskDone, Api!AgainDone, Api!TypeOK, Api!Ordered, Api!FreshRetry, Api!End,
         Api!session, Api!nas
  <2> QED BY <2>1, <2>2, <2>3
<1>4. CASE Api!LoggedIn(c)
  <2>1. Api!TypeOK'
    BY <1>4 DEF Api!LoggedIn, Api!TypeOK, Api!Send, Api!Open, Api!NewSid, Api!SidAtSend,
         Api!nas, Api!leaving
  <2>2. Api!Unrefused'
    BY <1>4 DEF Api!LoggedIn, Api!TypeOK, Api!Unrefused, Api!Send, Api!Open
  <2>3. Api!Ordered' /\ Api!FreshRetry'
    BY <1>4 DEF Api!LoggedIn, Api!TypeOK, Api!Ordered, Api!FreshRetry, Api!Send, Api!Open,
         Api!NewSid, Api!SidAtSend, Api!nas
  <2> QED BY <2>1, <2>2, <2>3
<1>5. CASE Api!LoginFailed(c)
  <2>1. Api!TypeOK'
    BY <1>5 DEF Api!LoginFailed, Api!TypeOK, Api!End, Api!Recorded, Api!nas, Api!leaving
  <2>2. Api!Unrefused'
    <3>1. refused[c] = 0 /\ refusal \in BOOLEAN
      BY <1>5 DEF Api!LoginFailed, Api!TypeOK, Api!Unrefused
    <3>2. at'[c] = "idle" /\ \A d \in Callers \ {c} : at'[d] = at[d] /\ refused'[d] = refused[d]
      BY <1>5 DEF Api!LoginFailed, Api!TypeOK, Api!End
    <3>3. CASE reply[c] = "refused"
      <4>1. refused'[c] = 1
        BY <1>5, <3>1, <3>3 DEF Api!LoginFailed, Api!TypeOK
      <4>2. refusal'
        BY <1>5, <3>3 DEF Api!LoginFailed, Api!Recorded
      <4> QED BY <3>2, <4>1, <4>2 DEF Api!Unrefused
    <3>4. CASE reply[c] # "refused"
      <4>1. refused' = refused /\ (refusal => refusal')
        BY <1>5, <3>4 DEF Api!LoginFailed, Api!Recorded
      <4> QED BY <3>1, <3>2, <4>1 DEF Api!Unrefused
    <3> QED BY <3>3, <3>4
  <2>3. Api!Ordered' /\ Api!FreshRetry'
    BY <1>5 DEF Api!LoginFailed, Api!TypeOK, Api!Ordered, Api!FreshRetry, Api!End, Api!nas
  <2> QED BY <2>1, <2>2, <2>3
<1> QED BY <1>1, <1>2, <1>3, <1>4, <1>5 DEF Api!Handle

(* The steps of the NAS and of the network on a call.                      *)
LEMMA ServeKeepsIInv ==
  ASSUME Api!SessionAssumption, Api!IInv, NEW c \in Callers, Api!Serve(c) \/ Api!Lost(c)
  PROVE  Api!IInv'
<1> USE DEF Api!SessionAssumption, Api!IInv, Api!Sids, Api!Waiting, Api!Replies, Api!session, Api!leaving
<1>1. CASE Api!NasAnswers(c) \/ Api!NasTurnsAway(c) \/ Api!Lost(c)
  <2>1. Api!TypeOK'
    <3>1. reply' \in [Callers -> Api!Replies]
      BY <1>1 DEF Api!NasAnswers, Api!NasTurnsAway, Api!Lost, Api!TypeOK
    <3>2. errors' \in Nat
      BY <1>1 DEF Api!NasAnswers, Api!NasTurnsAway, Api!Lost, Api!TypeOK
    <3>3. UNCHANGED <<Api!session, at, sent, first, got, Api!leaving, Api!nas, refused>>
      BY <1>1 DEF Api!NasAnswers, Api!NasTurnsAway, Api!Lost
    <3> QED BY <3>1, <3>2, <3>3 DEF Api!TypeOK, Api!nas
  <2>2. Api!Unrefused'
    BY <1>1 DEF Api!NasAnswers, Api!NasTurnsAway, Api!Lost, Api!TypeOK, Api!Unrefused
  <2>3. Api!Ordered' /\ Api!FreshRetry'
    BY <1>1 DEF Api!NasAnswers, Api!NasTurnsAway, Api!Lost, Api!TypeOK, Api!Ordered,
         Api!FreshRetry, Api!nas
  <2> QED BY <2>1, <2>2, <2>3
<1>2. CASE Api!NasGrants(c)
  <2>1. Api!TypeOK'
    BY <1>2 DEF Api!NasGrants, Api!TypeOK
  <2>2. Api!Unrefused'
    BY <1>2 DEF Api!NasGrants, Api!TypeOK, Api!Unrefused
  <2>3. Api!Ordered' /\ Api!FreshRetry'
    BY <1>2 DEF Api!NasGrants, Api!TypeOK, Api!Ordered, Api!FreshRetry
  <2> QED BY <2>1, <2>2, <2>3
<1> QED BY <1>1, <1>2 DEF Api!Serve

(* Logging out, and what the NAS does on its own.                          *)
LEMMA OthersKeepIInv ==
  ASSUME Api!SessionAssumption, Api!IInv, Api!LogOut \/ Api!NasLogsOut \/ Api!LoggedOut \/ Api!Kick \/ Api!ChangePassword
  PROVE  Api!IInv'
<1> USE DEF Api!SessionAssumption, Api!IInv, Api!Sids, Api!Waiting, Api!Replies, Api!session, Api!calls, Api!leaving, Api!nas
<1>1. Api!TypeOK'
  <2>1. CASE Api!LogOut \/ Api!NasLogsOut
    BY <2>1 DEF Api!LogOut, Api!NasLogsOut, Api!TypeOK
  <2>2. CASE Api!LoggedOut
    <3>1. sid' \in Api!Sids /\ creds' \in BOOLEAN /\ closed' \in BOOLEAN /\ out' = "done"
      <4>1. sid' = 0 /\ creds' = FALSE /\ closed' = TRUE /\ out' = "done"
        BY <2>2, Zenon DEF Api!LoggedOut
      <4>2. 0 \in Api!Sids
        OBVIOUS
      <4> QED BY <4>1, <4>2, Zenon
    <3>2. errors' \in Nat
      BY <2>2 DEF Api!LoggedOut, Api!TypeOK
    <3>3. UNCHANGED <<refusal, Api!calls, bye, Api!nas, refused>>
      BY <2>2 DEF Api!LoggedOut
    <3> QED BY <3>1, <3>2, <3>3 DEF Api!TypeOK
  <2>3. CASE Api!Kick
    BY <2>3 DEF Api!Kick, Api!TypeOK
  <2>4. CASE Api!ChangePassword
    BY <2>4 DEF Api!ChangePassword, Api!TypeOK
  <2> QED BY <2>1, <2>2, <2>3, <2>4
<1>2. Api!Unrefused'
  BY DEF Api!LogOut, Api!NasLogsOut, Api!LoggedOut, Api!Kick, Api!ChangePassword, Api!TypeOK,
       Api!Unrefused
<1>3. Api!Ordered' /\ Api!FreshRetry'
  BY DEF Api!LogOut, Api!NasLogsOut, Api!LoggedOut, Api!Kick, Api!ChangePassword, Api!TypeOK,
       Api!Ordered, Api!FreshRetry
<1> QED BY <1>1, <1>2, <1>3

(* Every step of anybody keeps the invariant.                              *)
LEMMA StepApi ==
  ASSUME Api!SessionAssumption, Api!IInv, [Api!Next]_(Api!vars) PROVE Api!IInv'
<1>1. CASE UNCHANGED Api!vars
  BY <1>1 DEF Api!vars, Api!session, Api!calls, Api!leaving, Api!nas, Api!IInv, Api!TypeOK,
       Api!Unrefused, Api!Ordered, Api!FreshRetry
<1>2. ASSUME NEW c \in Callers, Api!Ask(c) \/ Api!Handle(c) PROVE Api!IInv'
  BY <1>2, CallerKeepsIInv
<1>3. ASSUME NEW c \in Callers, Api!Serve(c) \/ Api!Lost(c) PROVE Api!IInv'
  BY <1>3, ServeKeepsIInv
<1>4. CASE Api!LogOut \/ Api!NasLogsOut \/ Api!LoggedOut \/ Api!Kick \/ Api!ChangePassword
  BY <1>4, OthersKeepIInv
<1> QED BY <1>1, <1>2, <1>3, <1>4 DEF Api!Next

(* The types, at most one refusal per caller and none behind a login under *)
(* way, and sessions granted in increasing order.                          *)
THEOREM SessionInductive == ApiSpec => []Api!IInv
<1>1. Api!Init => Api!IInv
  BY InitApi, ApiAssumption
<1>2. Api!IInv /\ [Api!Next]_(Api!vars) => Api!IInv'
  BY StepApi, ApiAssumption
<1> QED BY <1>1, <1>2, PTL DEF ApiSpec, Api!Spec

(* However many calls run at once and however long, each hears the NAS     *)
(* refuse the stored password at most once.                                *)
THEOREM RefusedAtMostOnce == ApiSpec => []RefusedOnce
<1>1. Api!IInv => RefusedOnce
  <2> SUFFICES ASSUME Api!IInv, NEW c \in Callers PROVE refused[c] <= 1
    BY DEF RefusedOnce, Api!RefusedOnce
  <2>1. refused[c] \in Nat /\ (refused[c] > 0 => refused[c] = 1)
    BY DEF Api!IInv, Api!TypeOK, Api!Unrefused
  <2> QED BY <2>1
<1> QED BY <1>1, SessionInductive, PTL

(* A retry never carries the session that failed, nor one older than it.   *)
THEOREM RetriesAreFresh == ApiSpec => []FreshRetry
<1>1. Api!IInv => FreshRetry
  BY DEF FreshRetry, Api!IInv
<1> QED BY <1>1, SessionInductive, PTL

(* Nothing is sent by a client that is closed: no caller moves on to a new *)
(* message, whatever it was waiting for when the logout closed it.         *)
THEOREM ClosedIsSilent == ApiSpec => ClosedSendsNothing
<1>1. Api!IInv /\ [Api!Next]_(Api!vars) => [closed => \A c \in Callers : ~Api!Sends(c)]_(Api!vars)
  <2> SUFFICES ASSUME Api!IInv, Api!Next, closed, NEW c \in Callers PROVE ~Api!Sends(c)
    OBVIOUS
  <2>1. ASSUME NEW d \in Callers, Api!Ask(d) \/ Api!Handle(d) PROVE ~Api!Sends(c)
    BY <2>1 DEF Api!IInv, Api!TypeOK, Api!Ask, Api!Handle, Api!AskFailed, Api!AskDone,
         Api!LoggedIn, Api!LoginFailed, Api!AgainDone,
       Api!Send, Api!End, Api!Open, Api!Sends, Api!Waiting
  <2>2. ASSUME NEW d \in Callers, Api!Serve(d) \/ Api!Lost(d) PROVE ~Api!Sends(c)
    BY <2>2 DEF Api!Serve, Api!NasAnswers, Api!NasGrants, Api!NasTurnsAway, Api!Lost, Api!Sends
  <2>3. CASE Api!LogOut \/ Api!NasLogsOut \/ Api!LoggedOut \/ Api!Kick \/ Api!ChangePassword
    BY <2>3 DEF Api!LogOut, Api!NasLogsOut, Api!LoggedOut, Api!Kick, Api!ChangePassword,
         Api!calls, Api!Sends
  <2> QED BY <2>1, <2>2, <2>3 DEF Api!Next
<1> QED BY <1>1, SessionInductive, PTL
       DEF ApiSpec, Api!Spec, ClosedSendsNothing, Api!ClosedSendsNothing

(***************************************************************************)
(* The main window from one login to the next                              *)
(***************************************************************************)
USE DEF NoCam, None

Config == [active : Profiles, default : Profiles, known : SUBSET Profiles, grid : Layouts,
           layouts : Arrangements, away : [Profiles -> Arrangements]]
Disk == [default : Profiles, known : SUBSET Profiles, grid : Layouts,
         state : [Profiles -> Arrangements]]
Filled == [Slots -> Cameras \union {NoCam}]
Arranged == [slots : Filled, grid : Layouts, saved : Arrangements]

Stored(c, p) == IF c.active = p THEN c.layouts ELSE c.away[p]
OwnSlots(slots, p) == \A x \in Slots : slots[x] # NoCam => NasOf[slots[x]] = p

(***************************************************************************)
(* The configuration and its file                                          *)
(***************************************************************************)

(* The slots of a layout never filled: as much any profile's as another's. *)
LEMMA EmptyTypes ==
  /\ Empty \in Filled /\ NoLayouts \in Arrangements
  /\ \A p \in Profiles : Proper(NoLayouts, p) /\ OwnSlots(Empty, p)
<1>1. Empty \in Filled /\ \A x \in Slots : Empty[x] = 0
  BY DEF Empty, Filled
<1>2. NoLayouts \in Arrangements /\ \A l \in Layouts : NoLayouts[l] = Empty
  BY <1>1 DEF NoLayouts, Arrangements, Filled
<1> QED BY <1>1, <1>2 DEF Proper, OwnSlots

(* What save_config writes: a section for every profile known, with the    *)
(* active profile's state taken from the flat fields.                      *)
LEMMA FileFacts ==
  ASSUME NEW c \in Config
  PROVE  /\ FileOf(c) \in Disk
         /\ FileOf(c).known = c.known /\ FileOf(c).default = c.default
         /\ \A p \in Profiles :
              FileOf(c).state[p] = IF p \in c.known THEN Stored(c, p) ELSE NoLayouts
<1>1. \A p \in Profiles : Stored(c, p) \in Arrangements
  BY DEF Stored, Config
<1>2. \A p \in Profiles :
        FileOf(c).state[p] = IF p \in c.known THEN Stored(c, p) ELSE NoLayouts
  BY DEF FileOf, Stored
<1>3. FileOf(c).state \in [Profiles -> Arrangements]
  <2>1. \A p \in Profiles : (IF p \notin c.known THEN NoLayouts
                              ELSE IF p = c.active THEN c.layouts ELSE c.away[p]) \in Arrangements
    BY EmptyTypes DEF Config
  <2> QED BY <2>1 DEF FileOf
<1> QED BY <1>2, <1>3 DEF FileOf, Config, Disk

(* What load_config makes of the file: the default profile is active, and  *)
(* each profile has what its section holds.                                *)
LEMMA LoadFacts ==
  ASSUME NEW f \in Disk, WindowAssumption
  PROVE  /\ Loaded(f) \in Config
         /\ Loaded(f).active = f.default /\ Loaded(f).default = f.default
         /\ Loaded(f).known = f.known
         /\ \A p \in Profiles : Stored(Loaded(f), p) = f.state[p]
<1>1. f.default \in Profiles /\ f.default # Nobody /\ f.state \in [Profiles -> Arrangements]
  BY DEF Disk, WindowAssumption
<1>2. Loaded(f).away \in [Profiles -> Arrangements]
  BY <1>1, EmptyTypes DEF Loaded
<1>3. Loaded(f).layouts = f.state[f.default]
  BY <1>1 DEF Loaded
<1> QED BY <1>1, <1>2, <1>3 DEF Loaded, Config, Disk, Stored

(* activate_profile: the profile left and the profile come to keep what    *)
(* was stored for them, under the other field.                             *)
LEMMA ActivateFacts ==
  ASSUME NEW c \in Config, NEW p \in Profiles
  PROVE  /\ Activated(c, p) \in Config
         /\ Activated(c, p).active = p /\ Activated(c, p).default = c.default
         /\ Activated(c, p).known = c.known
         /\ \A q \in Profiles : Stored(Activated(c, p), q) = Stored(c, q)
<1>1. CASE c.active = p
  BY <1>1 DEF Activated
<1>2. CASE c.active # p
  <2> DEFINE A == [q \in Profiles |-> IF q = p THEN NoLayouts
                                      ELSE IF q = c.active THEN c.layouts ELSE c.away[q]]
  <2>1. A \in [Profiles -> Arrangements]
    BY EmptyTypes DEF Config
  <2>2. \A q \in Profiles : A[q] = IF q = p THEN NoLayouts
                                   ELSE IF q = c.active THEN c.layouts ELSE c.away[q]
    OBVIOUS
  <2>3. Activated(c, p) = [c EXCEPT !.active = p, !.layouts = c.away[p], !.away = A]
    BY <1>2 DEF Activated
  <2> HIDE DEF A
  <2> QED BY <1>2, <2>1, <2>2, <2>3 DEF Config, Stored
<1> QED BY <1>1, <1>2

(* A profile added at login: one more known, no arrangement touched.       *)
LEMMA ProfileFacts ==
  ASSUME NEW c \in Config, NEW p \in Profiles, WindowAssumption
  PROVE  /\ WithProfile(c, p) \in Config
         /\ WithProfile(c, p).active = c.active /\ WithProfile(c, p).default = c.default
         /\ WithProfile(c, p).known = c.known \union {p}
         /\ \A q \in Profiles : Stored(WithProfile(c, p), q) = Stored(c, q)
BY DEF WithProfile, Config, Stored, WindowAssumption

(***************************************************************************)
(* Arrangements                                                            *)
(***************************************************************************)

(* The cameras _save_layout_cameras saves: those in the slots the layout   *)
(* shows.                                                                  *)
LEMMA VisibleFacts ==
  ASSUME NEW slots \in Filled, NEW l \in Layouts
  PROVE  /\ Visible(slots, l) \in Filled
         /\ \A x \in Slots : Visible(slots, l)[x] = IF x \in Shown[l] THEN slots[x] ELSE NoCam
BY DEF Visible, Filled

(* _save_layout_cameras stores the layout shown and no other, and puts no  *)
(* camera of another NAS there.                                            *)
LEMMA SavedFacts ==
  ASSUME NEW a \in Arranged
  PROVE  /\ Saved(a) \in Arranged /\ Saved(a).slots = a.slots /\ Saved(a).grid = a.grid
         /\ Saved(a).saved = [a.saved EXCEPT ![a.grid] = Visible(a.slots, a.grid)]
         /\ \A p \in Profiles : OwnSlots(a.slots, p) /\ Proper(a.saved, p) => Proper(Saved(a).saved, p)
<1>1. a.grid \in Layouts /\ a.slots \in Filled /\ a.saved \in [Layouts -> Filled]
  BY DEF Arranged, Arrangements, Filled
<1>2. Visible(a.slots, a.grid) \in Filled
      /\ \A x \in Slots : Visible(a.slots, a.grid)[x] = IF x \in Shown[a.grid] THEN a.slots[x] ELSE NoCam
  BY <1>1, VisibleFacts
<1> DEFINE s == [a.saved EXCEPT ![a.grid] = Visible(a.slots, a.grid)]
<1>3. s \in [Layouts -> Filled] /\ s[a.grid] = Visible(a.slots, a.grid)
      /\ \A l \in Layouts \ {a.grid} : s[l] = a.saved[l]
  BY <1>1, <1>2
<1>4. Saved(a) = [a EXCEPT !.saved = s]
  BY <1>1 DEF Saved, Arranged
<1>5. \A p \in Profiles : OwnSlots(a.slots, p) /\ Proper(a.saved, p) => Proper(s, p)
  BY <1>2, <1>3 DEF OwnSlots, Proper
<1> HIDE DEF s
<1>6. Saved(a) \in Arranged /\ Saved(a).slots = a.slots /\ Saved(a).grid = a.grid /\ Saved(a).saved = s
  BY <1>3, <1>4 DEF Arranged, Arrangements, Filled
<1> QED BY <1>5, <1>6 DEF s

(* An arrangement on screen as saved, of the profile p.                    *)
Fits(a, p) == a \in Arranged /\ OwnSlots(a.slots, p) /\ Proper(a.saved, p)
Kept(a, m) == a.saved = m /\ Visible(a.slots, a.grid) = m[a.grid]

(* Saving what is on screen leaves it kept; saving it once more changes    *)
(* nothing.                                                                *)
LEMMA SavedKept ==
  ASSUME NEW a \in Arranged
  PROVE  /\ Kept(Saved(a), [a.saved EXCEPT ![a.grid] = Visible(a.slots, a.grid)])
         /\ \A m : Kept(a, m) => Saved(a).saved = m
<1>1. a.grid \in Layouts /\ a.saved \in [Layouts -> Filled]
  BY DEF Arranged, Arrangements, Filled
<1> QED BY <1>1, SavedFacts DEF Kept

(* A camera id names at most one camera of a NAS, so looking one up in the *)
(* list finds that camera.                                                 *)
LEMMA CameraFacts ==
  ASSUME NEW i, NEW p \in Profiles, WindowAssumption
  PROVE  /\ CameraWith(i, p) \in Cameras \union {NoCam}
         /\ CameraWith(i, p) # NoCam => NasOf[CameraWith(i, p)] = p
         /\ \A c \in Cameras : NasOf[c] = p /\ IdOf[c] = i => CameraWith(i, p) = c
<1>1. CASE \E d \in Cameras : NasOf[d] = p /\ IdOf[d] = i
  <2>1. CameraWith(i, p) \in Cameras /\ NasOf[CameraWith(i, p)] = p /\ IdOf[CameraWith(i, p)] = i
    BY <1>1 DEF CameraWith
  <2> QED BY <2>1 DEF WindowAssumption
<1>2. CASE ~\E d \in Cameras : NasOf[d] = p /\ IdOf[d] = i
  BY <1>2 DEF CameraWith
<1> QED BY <1>1, <1>2

(* _restore_layout_cameras with the profile's own camera list puts back    *)
(* what the layout was saved with, slot by slot.                           *)
LEMMA RestoredFacts ==
  ASSUME WindowAssumption, NEW p \in Profiles, NEW a, Fits(a, p)
  PROVE  /\ Fits(Restored(a, p), p)
         /\ Restored(a, p).grid = a.grid /\ Restored(a, p).saved = a.saved
         /\ Visible(Restored(a, p).slots, a.grid) = a.saved[a.grid]
<1> DEFINE S == [x \in Slots |->
          IF x \notin Shown[a.grid] THEN a.slots[x]
          ELSE IF a.saved[a.grid][x] = NoCam THEN NoCam
          ELSE CameraWith(IdOf[a.saved[a.grid][x]], p)]
<1>1. a.grid \in Layouts /\ a.slots \in Filled /\ a.saved \in [Layouts -> Filled]
  BY DEF Fits, Arranged, Arrangements, Filled
<1>2. p # Nobody
  BY DEF WindowAssumption
<1>3. \A x \in Slots : S[x] = IF x \in Shown[a.grid] THEN a.saved[a.grid][x] ELSE a.slots[x]
  <2> SUFFICES ASSUME NEW x \in Slots, x \in Shown[a.grid], a.saved[a.grid][x] # NoCam
               PROVE  CameraWith(IdOf[a.saved[a.grid][x]], p) = a.saved[a.grid][x]
    OBVIOUS
  <2>1. a.saved[a.grid][x] \in Cameras /\ NasOf[a.saved[a.grid][x]] = p
    BY <1>1 DEF Fits, Proper, Filled
  <2> QED BY <2>1, CameraFacts
<1>4. S \in Filled
  <2>1. \A x \in Slots : S[x] \in Cameras \union {NoCam}
    BY <1>1, <1>3 DEF Filled
  <2> QED BY <2>1 DEF Filled
<1>5. Restored(a, p) = [a EXCEPT !.slots = S]
  BY <1>2 DEF Restored
<1> HIDE DEF S
<1>6. Restored(a, p) \in Arranged /\ Restored(a, p).grid = a.grid /\ Restored(a, p).saved = a.saved
      /\ Restored(a, p).slots = S
  BY <1>4, <1>5 DEF Fits, Arranged
<1>7. OwnSlots(S, p)
  BY <1>1, <1>3 DEF OwnSlots, Fits, Proper
<1>8. Visible(S, a.grid) = a.saved[a.grid]
  <2>1. \A x \in Slots : x \notin Shown[a.grid] => a.saved[a.grid][x] = NoCam
    BY <1>1 DEF Fits, Proper
  <2>2. a.saved[a.grid] = [x \in Slots |-> a.saved[a.grid][x]]
    BY <1>1 DEF Filled
  <2> QED BY <1>3, <2>1, <2>2 DEF Visible
<1> QED BY <1>6, <1>7, <1>8 DEF Fits

(* Saving leaves an arrangement of its profile.                            *)
LEMMA SavedFits ==
  ASSUME NEW p \in Profiles, NEW a, Fits(a, p)
  PROVE  Fits(Saved(a), p)
BY SavedFacts DEF Fits

(* Switching the layout with the profile's camera list changes nothing     *)
(* saved and shows the other layout as it was.                             *)
LEMMA SwitchedFacts ==
  ASSUME WindowAssumption, NEW p \in Profiles, NEW a, Fits(a, p), NEW l \in Layouts,
         NEW q \in {p, Nobody}
  PROVE  /\ Fits(Switched(a, l, q), p) /\ Switched(a, l, q).grid = l
         /\ \A m : Kept(a, m) /\ q = p => Kept(Switched(a, l, q), m)
<1>1. CASE l = a.grid
  BY <1>1 DEF Switched
<1>2. CASE l # a.grid
  <2> DEFINE b == [Saved(a) EXCEPT !.grid = l]
             r == Restored(b, q)
  <2>1. Fits(Saved(a), p)
    BY SavedFits
  <2>2. Fits(b, p) /\ b.saved = Saved(a).saved /\ b.grid = l
    BY <2>1 DEF Fits, Arranged
  <2>3. Switched(a, l, q) = Saved(r)
    BY <1>2 DEF Switched
  <2> HIDE DEF b
  <2>4. CASE q = p
    <3>1. Fits(r, p) /\ r.grid = l /\ r.saved = b.saved /\ Visible(r.slots, l) = b.saved[l]
      BY <2>2, <2>4, RestoredFacts
    <3> HIDE DEF r
    <3>2. Fits(Saved(r), p) /\ Saved(r).grid = l
      BY <3>1, SavedFits, SavedFacts DEF Fits
    <3>3. ASSUME NEW m, Kept(a, m) PROVE Kept(Saved(r), m)
      <4>1. b.saved = m
        BY <3>3, <2>2, SavedKept DEF Fits
      <4>2. Kept(r, m)
        BY <3>1, <4>1 DEF Kept
      <4>3. Saved(r).saved = m /\ Saved(r).slots = r.slots
        BY <4>2, <3>1, SavedKept, SavedFacts DEF Fits
      <4> QED BY <4>2, <4>3, <3>1, <3>2 DEF Kept
    <3> QED BY <3>2, <3>3, <2>3
  <2>5. CASE q = Nobody /\ q # p
    <3>1. r = b
      BY <2>5 DEF Restored
    <3> HIDE DEF r
    <3>2. Fits(Saved(b), p) /\ Saved(b).grid = l
      BY <2>2, SavedFits, SavedFacts DEF Fits
    <3> QED BY <3>1, <3>2, <2>3, <2>5
  <2> QED BY <2>4, <2>5
<1> QED BY <1>1, <1>2

(* Other cameras in the slots, and what is on screen saved.                *)
LEMMA PlacedFacts ==
  ASSUME NEW p \in Profiles, NEW a, Proper(a.saved, p), NEW c \in Arranged, OwnSlots(c.slots, p),
         c.saved = a.saved
  PROVE  /\ Fits(Saved(c), p) /\ Saved(c).grid = c.grid /\ Saved(c).slots = c.slots
         /\ Kept(Saved(c), [a.saved EXCEPT ![c.grid] = Visible(c.slots, c.grid)])
<1>1. Fits(c, p)
  BY DEF Fits
<1> QED BY <1>1, SavedFits, SavedFacts, SavedKept

(* A change of slots in the layout shown.                                  *)
Edited(a, b) ==
  b.grid = a.grid /\ Kept(b, [a.saved EXCEPT ![a.grid] = Visible(b.slots, b.grid)])

(* A camera put in a slot (and taken from the slot it was in): the layout  *)
(* is saved as changed, the others as they were.                           *)
LEMMA AssignedFacts ==
  ASSUME NEW p \in Profiles, NEW a, Fits(a, p), NEW x, NEW c \in Cameras, NasOf[c] = p
  PROVE  Fits(AssignedTo(a, x, c), p) /\ Edited(a, AssignedTo(a, x, c))
<1> DEFINE S == [y \in Slots |->
           IF y = x THEN c ELSE IF a.slots[y] = c THEN NoCam ELSE a.slots[y]]
<1>1. a.grid \in Layouts /\ a.slots \in Filled
  BY DEF Fits, Arranged
<1>2. S \in Filled /\ OwnSlots(S, p)
  BY <1>1 DEF Filled, OwnSlots, Fits
<1> DEFINE b == [a EXCEPT !.slots = S]
<1>3. AssignedTo(a, x, c) = Saved(b)
  BY DEF AssignedTo
<1> HIDE DEF S
<1>4. b \in Arranged /\ b.slots = S /\ b.grid = a.grid /\ b.saved = a.saved
  BY <1>2 DEF Fits, Arranged
<1> HIDE DEF b
<1>5. Proper(a.saved, p)
  BY DEF Fits
<1>6. /\ Fits(Saved(b), p) /\ Saved(b).grid = b.grid /\ Saved(b).slots = b.slots
      /\ Kept(Saved(b), [a.saved EXCEPT ![b.grid] = Visible(b.slots, b.grid)])
  BY <1>2, <1>4, <1>5, PlacedFacts
<1> QED BY <1>3, <1>4, <1>6 DEF Edited

(* The same for slots emptied.                                             *)
LEMMA ClearedFacts ==
  ASSUME NEW p \in Profiles, NEW a, Fits(a, p), NEW X
  PROVE  Fits(Cleared(a, X), p) /\ Edited(a, Cleared(a, X))
<1> DEFINE S == [y \in Slots |-> IF y \in X THEN NoCam ELSE a.slots[y]]
<1>1. a.grid \in Layouts /\ a.slots \in Filled
  BY DEF Fits, Arranged
<1>2. S \in Filled /\ OwnSlots(S, p)
  BY <1>1 DEF Filled, OwnSlots, Fits
<1> DEFINE b == [a EXCEPT !.slots = S]
<1>3. Cleared(a, X) = Saved(b)
  BY DEF Cleared
<1> HIDE DEF S
<1>4. b \in Arranged /\ b.slots = S /\ b.grid = a.grid /\ b.saved = a.saved
  BY <1>2 DEF Fits, Arranged
<1> HIDE DEF b
<1>5. Proper(a.saved, p)
  BY DEF Fits
<1>6. /\ Fits(Saved(b), p) /\ Saved(b).grid = b.grid /\ Saved(b).slots = b.slots
      /\ Kept(Saved(b), [a.saved EXCEPT ![b.grid] = Visible(b.slots, b.grid)])
  BY <1>2, <1>4, <1>5, PlacedFacts
<1> QED BY <1>3, <1>4, <1>6 DEF Edited

(* A camera alone in 1x1: the layout left is saved as it was.              *)
LEMMA AloneFacts ==
  ASSUME WindowAssumption, NEW p \in Profiles, NEW a, Fits(a, p), NEW c \in Cameras, NasOf[c] = p
  PROVE  LET b == Alone(a, c)
         IN  /\ Fits(b, p) /\ b.grid = Solo
             /\ \A m : Kept(a, m) => Kept(b, [m EXCEPT ![Solo] = Visible(b.slots, Solo)])
<1> DEFINE S == [y \in Slots |->
              IF y = Focus THEN c ELSE IF y \in Shown[a.grid] THEN NoCam ELSE a.slots[y]]
<1>1. a.slots \in Filled /\ Solo \in Layouts
  BY DEF Fits, Arranged, WindowAssumption
<1>2. S \in Filled /\ OwnSlots(S, p)
  BY <1>1 DEF Filled, OwnSlots, Fits
<1>3. Fits(Saved(a), p) /\ \A m : Kept(a, m) => Saved(a).saved = m
  BY SavedFits, SavedKept DEF Fits
<1> DEFINE d == [Saved(a) EXCEPT !.grid = Solo, !.slots = S]
<1>4. Alone(a, c) = Saved(d)
  BY DEF Alone
<1> HIDE DEF S
<1>5. d \in Arranged /\ d.slots = S /\ d.grid = Solo /\ d.saved = Saved(a).saved
  BY <1>1, <1>2, <1>3 DEF Fits, Arranged
<1> HIDE DEF d
<1>6. Proper(Saved(a).saved, p)
  BY <1>3 DEF Fits
<1>7. /\ Fits(Saved(d), p) /\ Saved(d).grid = d.grid /\ Saved(d).slots = d.slots
      /\ Kept(Saved(d), [Saved(a).saved EXCEPT ![d.grid] = Visible(d.slots, d.grid)])
  BY <1>2, <1>5, <1>6, PlacedFacts
<1> QED BY <1>3, <1>4, <1>5, <1>7

(***************************************************************************)
(* Requests                                                                *)
(***************************************************************************)

(* What a run of requests has come to, in a session of the profile p.      *)
Runs(p, kept) ==
  {s \in [now : Arranged, meant : Arrangements] :
     Fits(s.now, p) /\ (kept => Kept(s.now, s.meant))}

(* One command line request keeps an arrangement of the session's profile, *)
(* and what is saved the one meant.                                        *)
LEMMA RunFacts ==
  ASSUME WindowAssumption, NEW p \in Profiles, profileOf[api] = p, NEW kept \in BOOLEAN,
         NEW s \in Runs(p, kept), NEW r \in Requests
  PROVE  RequestRun(s, r) \in Runs(p, kept)
<1> DEFINE a == AfterRequest(s.now, r)
           m == Meant(s.meant, a, r)
<1>1. Fits(s.now, p) /\ s.now \in Arranged /\ s.meant \in Arrangements
      /\ s.now.saved \in Arrangements /\ (kept => Kept(s.now, s.meant))
  BY DEF Runs, Arranged
<1>2. r.what \in {"grid", "camera"} /\ r.grid \in Layouts
  BY DEF Requests, WindowAssumption
<1>3. Fits(a, p) /\ m \in Arrangements /\ (kept => Kept(a, m))
  <2>1. CASE r.what = "grid"
    <3>1. a = Switched(s.now, r.grid, p) /\ m = s.meant
      BY <2>1 DEF AfterRequest, Meant
    <3> QED BY <1>1, <1>2, <3>1, SwitchedFacts
  <2>2. CASE r.what = "camera"
    <3> DEFINE c == CameraWith(r.id, p)
    <3>1. a = IF c = NoCam THEN s.now ELSE AssignedTo(s.now, Focus, c)
      BY <2>2 DEF AfterRequest
    <3>2. m = [s.meant EXCEPT ![a.grid] = Visible(a.slots, a.grid)]
      BY <2>2 DEF Meant
    <3>3. c = NoCam \/ (c \in Cameras /\ NasOf[c] = p)
      BY CameraFacts
    <3> HIDE DEF c, m
    <3>4. Fits(a, p) /\ a.grid = s.now.grid /\ (kept => Kept(a, m))
      <4>1. CASE c = NoCam
        <5>1. a = s.now
          BY <4>1, <3>1
        <5>2. ASSUME kept PROVE m = s.meant
          BY <5>1, <5>2, <1>1, <3>2 DEF Kept, Arrangements
        <5> QED BY <5>1, <5>2, <1>1
      <4>2. CASE c # NoCam
        <5>1. a = AssignedTo(s.now, Focus, c)
          BY <4>2, <3>1
        <5>2. Fits(a, p) /\ Edited(s.now, a)
          BY <4>2, <3>3, <5>1, <1>1, AssignedFacts
        <5> HIDE DEF a
        <5> QED BY <5>2, <1>1, <3>2 DEF Edited, Kept
      <4> QED BY <4>1, <4>2
    <3> HIDE DEF a
    <3>5. m \in Arrangements
      <4>1. Visible(a.slots, a.grid) \in Filled
        BY <3>4, VisibleFacts DEF Fits, Arranged
      <4> QED BY <4>1, <3>2, <1>1 DEF Arrangements, Filled
    <3> QED BY <3>4, <3>5
  <2> QED BY <1>2, <2>1, <2>2
<1>4. RequestRun(s, r) = [now |-> a, meant |-> m]
  BY DEF RequestRun
<1> HIDE DEF a, m
<1>5. a \in Arranged
  BY <1>3 DEF Fits
<1> QED BY <1>3, <1>4, <1>5 DEF Runs

(* The natural numbers are well ordered, hence induction.                  *)
Below == {ss \in Nat \X Nat : ss[1] < ss[2]}

(* The less-than relation on them, as the library has it.                 *)
LEMMA BelowWellFounded == IsWellFoundedOn(Below, Nat)
<1>1. IsWellFoundedOn({ss \in Nat \X Nat : ss[1] < ss[2]}, Nat)
  BY NatLessThanWellFounded, Zenon DEF OpToRel
<1> QED BY <1>1 DEF Below

(* Induction over the natural numbers, for a set rather than a formula.    *)
LEMMA Induction ==
  ASSUME NEW S, 0 \in S, \A n \in Nat : n \in S => n + 1 \in S
  PROVE  Nat \subseteq S
<1> DEFINE T == {n \in Nat : n \notin S}
<1>1. SUFFICES ASSUME T # {} PROVE FALSE
  OBVIOUS
<1>2. PICK n \in T : \A k \in T : <<k, n>> \notin Below
  <2>1. T \subseteq Nat
    OBVIOUS
  <2> HIDE DEF T
  <2> QED BY <1>1, <2>1, BelowWellFounded, WFMin
<1>3. n \in Nat /\ n # 0 /\ n - 1 \in Nat
  OBVIOUS
<1>4. n - 1 \in T /\ <<n - 1, n>> \in Below
  BY <1>3 DEF Below
<1> QED BY <1>2, <1>4

(* Whatever every request keeps is kept by all that were held.             *)
LEMMA AllRunKeeps ==
  ASSUME NEW R, NEW begun \in R, NEW q \in Seq(Requests),
         \A s \in R, r \in Requests : RequestRun(s, r) \in R
  PROVE  AllRun(begun, q) \in R
<1> DEFINE n == Len(q)
           Is(g, k) == g = [i \in 0 .. k |-> IF i = 0 THEN begun ELSE RequestRun(g[i - 1], q[i])]
           Some == {k \in Nat : k <= n => \E g : Is(g, k)}
<1>1. n \in Nat /\ \A i \in 1 .. n : q[i] \in Requests
  OBVIOUS
<1>2. n \in Some
  <2>1. 0 \in Some
    <3>1. Is([i \in 0 .. 0 |-> begun], 0)
      OBVIOUS
    <3> QED BY <3>1
  <2>2. ASSUME NEW k \in Nat, k \in Some PROVE k + 1 \in Some
    <3>1. SUFFICES ASSUME k + 1 <= n PROVE \E g : Is(g, k + 1)
      OBVIOUS
    <3>2. PICK g : Is(g, k)
      BY <3>1, <2>2, <1>1
    <3> DEFINE h == [i \in 0 .. k + 1 |-> IF i = k + 1 THEN RequestRun(g[k], q[k + 1]) ELSE g[i]]
    <3>3. \A i \in 0 .. k : h[i] = g[i]
      OBVIOUS
    <3>4. \A i \in 0 .. k : g[i] = IF i = 0 THEN begun ELSE RequestRun(g[i - 1], q[i])
      BY <3>2
    <3>5. h[k + 1] = RequestRun(h[k], q[k + 1])
      OBVIOUS
    <3>6. \A i \in 0 .. k + 1 : h[i] = IF i = 0 THEN begun ELSE RequestRun(h[i - 1], q[i])
      <4> SUFFICES ASSUME NEW i \in 0 .. k + 1
                   PROVE  h[i] = IF i = 0 THEN begun ELSE RequestRun(h[i - 1], q[i])
        OBVIOUS
      <4>1. CASE i = k + 1
        BY <4>1, <3>5
      <4>2. CASE i # k + 1
        <5>1. i \in 0 .. k /\ (i # 0 => i - 1 \in 0 .. k)
          BY <4>2
        <5> HIDE DEF h
        <5> QED BY <5>1, <3>3, <3>4
      <4> QED BY <4>1, <4>2
    <3>7. h = [i \in 0 .. k + 1 |-> h[i]]
      OBVIOUS
    <3> HIDE DEF h
    <3>8. Is(h, k + 1)
      BY <3>6, <3>7
    <3> QED BY <3>8
  <2> HIDE DEF Some
  <2> QED BY <2>1, <2>2, <1>1, Induction
<1> DEFINE after == CHOOSE g : Is(g, n)
<1>3. Is(after, n) /\ AllRun(begun, q) = after[n]
  <2>1. \E g : Is(g, n)
    BY <1>1, <1>2
  <2>2. AllRun(begun, q) = after[n]
    BY DEF AllRun
  <2> HIDE DEF Is, after
  <2>3. Is(after, n)
    BY <2>1 DEF after
  <2> QED BY <2>2, <2>3
<1> HIDE DEF after
<1>4. after[0] = begun /\ \A i \in 1 .. n : after[i] = RequestRun(after[i - 1], q[i])
  BY <1>1, <1>3
<1> DEFINE Kind == {k \in Nat : k <= n => after[k] \in R}
<1>5. 0 \in Kind
  BY <1>4
<1>6. ASSUME NEW k \in Nat, k \in Kind PROVE k + 1 \in Kind
  <2>1. SUFFICES ASSUME k + 1 <= n PROVE after[k + 1] \in R
    OBVIOUS
  <2>2. k + 1 \in 1 .. n /\ k <= n /\ (k + 1) - 1 = k
    BY <2>1, <1>1
  <2>3. after[k] \in R /\ q[k + 1] \in Requests /\ after[k + 1] = RequestRun(after[k], q[k + 1])
    BY <2>2, <1>1, <1>4, <1>6
  <2> QED BY <2>3
<1>7. n \in Kind
  <2> HIDE DEF Kind
  <2> QED BY <1>5, <1>6, <1>1, Induction
<1> QED BY <1>1, <1>3, <1>7

(***************************************************************************)
(* Steps                                                                   *)
(***************************************************************************)

Saving == KnownAlike /\ OwnArrangements /\ ArrangementKept

(* The numbers of the requests held.                                       *)
Numbers(held) == [i \in DOMAIN held |-> held[i].n]
(* RequestsOnce, in terms of those numbers.                                *)
LEMMA OnceNumbers ==
  RequestsOnce <=> /\ window.ran \o Numbers(window.held) = [i \in 1 .. window.next - 1 |-> i]
                   /\ window.ready => listed # Nobody
BY DEF RequestsOnce, Numbers

(* The same, after a step.                                                 *)
LEMMA OnceNumbersNext ==
  RequestsOnce' <=> /\ window'.ran \o Numbers(window'.held) = [i \in 1 .. window'.next - 1 |-> i]
                    /\ window'.ready => listed' # Nobody
BY DEF RequestsOnce, Numbers

(* A request put at the end of _pending_remote_requests has its number at  *)
(* the end of theirs.                                                      *)
LEMMA NumbersFacts ==
  ASSUME WindowAssumption, NEW h \in Seq(Requests)
  PROVE  /\ Numbers(h) \in Seq(Nat)
         /\ \A r \in Requests : Numbers(Append(h, r)) = Append(Numbers(h), r.n)
<1>1. \A i \in 1 .. Len(h) : h[i] \in Requests
  OBVIOUS
<1>2. \A r \in Requests : r.n \in Nat
  BY DEF Requests, WindowAssumption
<1>3. DOMAIN h = 1 .. Len(h) /\ Len(h) \in Nat
  OBVIOUS
<1>4. Numbers(h) \in Seq(Nat) /\ Len(Numbers(h)) = Len(h)
  BY <1>1, <1>2, <1>3 DEF Numbers
<1>5. ASSUME NEW r \in Requests PROVE Numbers(Append(h, r)) = Append(Numbers(h), r.n)
  <2>1. DOMAIN Append(h, r) = 1 .. Len(h) + 1
    OBVIOUS
  <2>2. Numbers(Append(h, r)) = [i \in 1 .. Len(h) + 1 |-> Append(h, r)[i].n]
    BY <2>1 DEF Numbers
  <2>3. \A i \in 1 .. Len(h) + 1 : Append(h, r)[i] = IF i = Len(h) + 1 THEN r ELSE h[i]
    OBVIOUS
  <2>4. Append(Numbers(h), r.n)
          = [i \in 1 .. Len(h) + 1 |-> IF i = Len(h) + 1 THEN r.n ELSE Numbers(h)[i]]
    BY <1>4
  <2>5. \A i \in 1 .. Len(h) : Numbers(h)[i] = h[i].n
    BY <1>3 DEF Numbers
  <2> QED BY <1>3, <2>2, <2>3, <2>4, <2>5
<1> QED BY <1>4, <1>5

(* A handler that leaves the window and the camera list alone.             *)
LEMMA WindowKept ==
  ASSUME IInv, UNCHANGED <<window, listed>>
  PROVE  /\ window'.ready <=> listed' # Nobody
         /\ window'.ready => window'.held = <<>>
         /\ window' \in [ready : BOOLEAN, held : Seq(Requests), ran : Seq(Nat), next : Nat \ {0}]
         /\ RequestsOnce'
<1>1. (window.ready <=> listed # Nobody) /\ (window.ready => window.held = <<>>)
  BY DEF IInv, DialogOrSession
<1>2. window \in [ready : BOOLEAN, held : Seq(Requests), ran : Seq(Nat), next : Nat \ {0}]
  BY DEF IInv, TypeOK
<1>3. RequestsOnce
  BY DEF IInv
<1>4. RequestsOnce'
  BY <1>3 DEF RequestsOnce
<1> QED BY <1>1, <1>2, <1>4

(* The client started with an empty configuration satisfies the invariant. *)
LEMMA InitIInv == ASSUME Init, WindowAssumption PROVE IInv
<1> USE DEF Init
<1>1. /\ disk \in Disk /\ disk.default = Default /\ disk.known = {Default}
      /\ \A p \in Profiles : disk.state[p] = NoLayouts
  <2>1. [p \in Profiles |-> NoLayouts] \in [Profiles -> Arrangements]
    BY EmptyTypes
  <2> QED BY <2>1 DEF Disk, WindowAssumption
<1>2. /\ config \in Config /\ config.active = Default /\ config.default = Default
      /\ config.known = {Default} /\ \A p \in Profiles : Stored(config, p) = NoLayouts
  <2>1. config = Loaded(disk)
    BY Zenon
  <2> HIDE DEF Init
  <2> QED BY <1>1, <2>1, LoadFacts
<1>3. /\ mine \in [Profiles -> Arrangements] /\ \A p \in Profiles : mine[p] = NoLayouts
      /\ view \in [slots : Filled, grid : Layouts] /\ view.slots = Empty
  BY EmptyTypes DEF NoView, WindowAssumption
<1>4. window \in [ready : BOOLEAN, held : Seq(Requests), ran : Seq(Nat), next : Nat \ {0}]
      /\ window.ready = FALSE /\ window.held = <<>> /\ window.ran = <<>> /\ window.next = 1
  BY DEF NoWindow
<1>5. TypeOK
  BY <1>1, <1>2, <1>3, <1>4 DEF TypeOK, Config, Disk, Filled, NewDialog
<1>6. DialogOrSession /\ AttemptsNamed /\ OpenHasOwner
  BY <1>3, <1>4 DEF DialogOrSession, AttemptsNamed, OpenHasOwner, NewDialog
<1>7. \A p \in Profiles : StoredFor(p) = NoLayouts
  BY <1>2 DEF Stored, StoredFor
<1>8. Default \in Profiles
  BY DEF WindowAssumption
<1>9. KnownAlike
  BY <1>1, <1>2, <1>3, <1>7 DEF KnownAlike
<1>10. OwnArrangements
  <2>1. \A x \in Slots : view.slots[x] = 0
    BY <1>3 DEF Empty
  <2> QED BY <1>1, <1>7, <2>1, EmptyTypes DEF OwnArrangements
<1>11. ArrangementKept
  BY <1>1, <1>3, <1>4, <1>7 DEF ArrangementKept
<1>12. OwnNews
  BY DEF OwnNews
<1>13. RequestsOnce
  BY <1>4 DEF RequestsOnce
<1> QED BY <1>5, <1>6, <1>9, <1>10, <1>11, <1>12, <1>13 DEF IInv

(* What is saved and shown does not change.                                *)
LEMMA SavingKept ==
  ASSUME Saving, UNCHANGED <<disks, history>>,
         window'.ready => window.ready, UNCHANGED view \/ view'.slots = Empty,
         view' # view => ~window'.ready
  PROVE  Saving'
<1> USE DEF Saving, disks, history
<1>1. \A p : StoredFor(p)' = StoredFor(p)
  BY DEF StoredFor
<1>2. KnownAlike'
  BY <1>1 DEF KnownAlike
<1>3. OwnArrangements'
  BY <1>1 DEF OwnArrangements, Proper, Empty
<1>4. ArrangementKept'
  BY <1>1 DEF ArrangementKept, Visible
<1> QED BY <1>2, <1>3, <1>4

(* A restart: whether the configuration was written last or the file is    *)
(* what an earlier save left, it holds every arrangement the user made.    *)
LEMMA StartKeeps ==
  ASSUME IInv, Restart, WindowAssumption PROVE IInv'
<1> PICK f \in {disk, FileOf(config)} : StartedWith(f)
  BY DEF Restart
<1> USE DEF StartedWith, history
<1>1. /\ f \in Disk /\ f.known = config.known /\ f.default \in f.known
      /\ \A p \in Profiles : Proper(f.state[p], p)
      /\ \A p \in Profiles \ f.known : f.state[p] = NoLayouts
      /\ \A p \in Profiles \ wiped : f.state[p] = mine[p]
  <2>1. CASE f = disk
    BY <2>1 DEF IInv, TypeOK, KnownAlike, OwnArrangements, ArrangementKept, Disk
  <2>2. CASE f = FileOf(config)
    <3>1. config \in Config
      BY DEF IInv, TypeOK, Config
    <3>2. \A p \in Profiles : StoredFor(p) = Stored(config, p)
      BY DEF Stored, StoredFor
    <3> HIDE DEF StartedWith
    <3>3. /\ f \in Disk /\ f.known = config.known /\ f.default = config.default
          /\ \A p \in Profiles : f.state[p] = IF p \in config.known THEN StoredFor(p) ELSE NoLayouts
      BY <2>2, <3>1, <3>2, FileFacts
    <3>4. \A p \in Profiles : f.state[p] = StoredFor(p)
      BY <3>3 DEF IInv, KnownAlike
    <3> QED BY <3>3, <3>4 DEF IInv, KnownAlike, OwnArrangements, ArrangementKept
  <2> QED BY <2>1, <2>2
<1>2. /\ config' \in Config /\ config'.active = f.default /\ config'.default = f.default
      /\ config'.known = f.known /\ \A p \in Profiles : StoredFor(p)' = f.state[p]
  <2>1. config' = Loaded(f)
    OBVIOUS
  <2>2. \A p \in Profiles : StoredFor(p)' = Stored(config', p)
    BY DEF Stored, StoredFor
  <2> HIDE DEF StartedWith
  <2> QED BY <1>1, <2>1, <2>2, LoadFacts
<1>3. view' \in [slots : Filled, grid : Layouts] /\ view'.slots = Empty
  BY EmptyTypes DEF NoView, WindowAssumption
<1>4. window' \in [ready : BOOLEAN, held : Seq(Requests), ran : Seq(Nat), next : Nat \ {0}]
      /\ window'.ready = FALSE /\ window'.held = <<>> /\ window'.ran = <<>> /\ window'.next = 1
  BY DEF NoWindow
<1>5. disk' = f /\ mine' = mine /\ wiped' = wiped
  OBVIOUS
<1>6. TypeOK'
  <2>1. mine' \in [Profiles -> Arrangements] /\ profileOf' \in [Clients -> Profiles \union {Nobody}]
    BY DEF IInv, TypeOK
  <2> QED BY <1>1, <1>2, <1>3, <1>4, <1>5, <2>1 DEF TypeOK, Config, Disk, Filled, NewDialog
<1>7. DialogOrSession' /\ AttemptsNamed' /\ OpenHasOwner'
  BY <1>3, <1>4 DEF DialogOrSession, AttemptsNamed, OpenHasOwner, NewDialog
<1>8. KnownAlike'
  BY <1>1, <1>2, <1>5 DEF KnownAlike, IInv
<1>9. OwnArrangements'
  <2>1. \A x \in Slots : view'.slots[x] = 0
    BY <1>3 DEF Empty
  <2> QED BY <1>1, <1>2, <1>5, <2>1 DEF OwnArrangements, Proper
<1>10. ArrangementKept'
  BY <1>1, <1>2, <1>4, <1>5 DEF ArrangementKept
<1>11. OwnNews'
  BY DEF OwnNews
<1>12. RequestsOnce'
  BY <1>4 DEF RequestsOnce
<1> QED BY <1>6, <1>7, <1>8, <1>9, <1>10, <1>11, <1>12 DEF IInv

(* The login dialog's own steps.                                           *)
LEMMA DialogKeeps ==
  ASSUME IInv, WindowAssumption,
         Connect \/ Dismiss \/ Verify \/ OtpClosed \/ \E c \in Clients : VerifyFailed(c)
  PROVE  IInv'
<1>1. UNCHANGED <<disks, session, history>>
  BY DEF Connect, Dismiss, Verify, OtpClosed, VerifyFailed
<1>2. Saving'
  BY <1>1, SavingKept DEF IInv, Saving, session
<1>3. TypeOK' /\ DialogOrSession' /\ OpenHasOwner' /\ OwnNews'
  <2> USE DEF IInv, TypeOK, DialogOrSession, OpenHasOwner, OwnNews, session, disks, history
  <2>1. CASE Connect
    <3>1. PICK c \in Clients, p \in Profiles :
           /\ \A d \in 1..c : (profileOf[d] = Nobody) = (d = c)
           /\ profileOf' = [profileOf EXCEPT ![c] = p]
           /\ task' = [task EXCEPT ![c] = "connect"]
           /\ open' = Closing(open, dialog.current) \union {c}
           /\ dialog' = [dialog EXCEPT !.current = c, !.button = FALSE]
      BY <2>1 DEF Connect
    <3>2. dialog.shown /\ api = 0 /\ c # 0 /\ p # Nobody
      <4>1. dialog.shown /\ api = 0
        BY <2>1 DEF Connect
      <4>2. c # 0
        BY DEF Clients, WindowAssumption
      <4>3. p # Nobody
        BY DEF WindowAssumption
      <4> QED BY <4>1, <4>2, <4>3
    <3>3. TypeOK'
      <4>1. dialog' \in [shown : BOOLEAN, current : Clients \union {None}, otp : BOOLEAN, button : BOOLEAN]
        BY <3>1
      <4>2. stale' = stale
        BY <2>1 DEF Connect
      <4>3. task' \in [Clients -> {"none", "connect", "verify"}]
            /\ profileOf' \in [Clients -> Profiles \union {Nobody}] /\ open' \subseteq Clients
        BY <3>1 DEF Closing
      <4> QED BY <1>1, <4>1, <4>2, <4>3
    <3>4. dialog'.current = c /\ dialog'.shown /\ profileOf'[c] = p
      BY <3>1, <3>2
    <3>5. OpenHasOwner'
      BY <1>1, <3>1, <3>2, <3>4 DEF Closing
    <3>6. DialogOrSession'
      BY <1>1, <3>2, <3>4
    <3>7. OwnNews'
      BY <1>1, <3>2
    <3> QED BY <3>3, <3>5, <3>6, <3>7
  <2>2. CASE Dismiss
    <3>1. TypeOK'
      BY <1>1, <2>2 DEF Dismiss
    <3>2. dialog'.current = 0 /\ dialog'.shown = FALSE /\ profileOf' = profileOf
          /\ open' = open \ {dialog.current}
      BY <2>2 DEF Dismiss
    <3> QED BY <1>1, <3>1, <3>2
  <2>3. CASE Verify \/ \E c \in Clients : VerifyFailed(c)
    <3>1. UNCHANGED <<profileOf, open, dialog, stale>>
          /\ task' \in [Clients -> {"none", "connect", "verify"}]
      <4>1. UNCHANGED <<profileOf, open, dialog, stale>>
        BY <2>3 DEF Verify, VerifyFailed
      <4>2. task \in [Clients -> {"none", "connect", "verify"}]
        BY DEF IInv, TypeOK
      <4> DEFINE T == {"none", "connect", "verify"}
      <4>3. ASSUME NEW c, NEW t \in T, task' = [task EXCEPT ![c] = t] PROVE task' \in [Clients -> T]
        BY <4>2, <4>3
      <4>4. CASE Verify
        <5>1. task' = [task EXCEPT ![dialog.current] = "verify"]
          BY <4>4 DEF Verify
        <5> QED BY <4>1, <4>3, <5>1
      <4>5. ASSUME NEW c \in Clients, VerifyFailed(c) PROVE task' \in [Clients -> T]
        <5>1. task' = [task EXCEPT ![c] = "none"]
          BY <4>5 DEF VerifyFailed
        <5> QED BY <4>3, <5>1
      <4> QED BY <2>3, <4>1, <4>4, <4>5
    <3> QED BY <1>1, <3>1
  <2>4. CASE OtpClosed
    <3>1. UNCHANGED <<profileOf, task, stale>>
      BY <2>4 DEF OtpClosed
    <3>2. \/ dialog' = [dialog EXCEPT !.otp = FALSE, !.current = 0] /\ open' = open \ {dialog.current}
          \/ dialog' = [dialog EXCEPT !.otp = FALSE] /\ open' = open
      BY <2>4 DEF OtpClosed
    <3>3. TypeOK'
      <4> DEFINE D == [shown : BOOLEAN, current : Clients \union {None}, otp : BOOLEAN, button : BOOLEAN]
      <4>1. dialog' \in D
        <5>1. dialog \in D
          OBVIOUS
        <5>2. ASSUME dialog' = [dialog EXCEPT !.otp = FALSE, !.current = 0] PROVE dialog' \in D
          BY <5>1, <5>2
        <5>3. ASSUME dialog' = [dialog EXCEPT !.otp = FALSE] PROVE dialog' \in D
          BY <5>1, <5>3
        <5> QED BY <3>2, <5>2, <5>3
      <4>2. open' \subseteq Clients
        BY <3>2
      <4> QED BY <1>1, <3>1, <4>1, <4>2
    <3>4. dialog'.shown = dialog.shown
          /\ \/ dialog'.current = 0 /\ open' = open \ {dialog.current}
             \/ dialog'.current = dialog.current /\ open' = open
      BY <3>2
    <3> QED BY <1>1, <3>1, <3>3, <3>4
  <2> QED BY <2>1, <2>2, <2>3, <2>4
<1>4. RequestsOnce'
  BY <1>1 DEF IInv, RequestsOnce, session
<1>5. AttemptsNamed'
  <2>1. ASSUME NEW c \in Clients, NEW p \in Profiles, profileOf' = [profileOf EXCEPT ![c] = p],
               task' = [task EXCEPT ![c] = "connect"]
        PROVE  AttemptsNamed'
    BY <2>1 DEF IInv, TypeOK, AttemptsNamed, WindowAssumption
  <2>2. CASE Verify
    BY <2>2 DEF Verify, IInv, TypeOK, AttemptsNamed, DialogOrSession
  <2>3. CASE Dismiss \/ OtpClosed \/ \E c \in Clients : VerifyFailed(c)
    BY <2>3 DEF Dismiss, OtpClosed, VerifyFailed, IInv, TypeOK, AttemptsNamed
  <2> QED BY <2>1, <2>2, <2>3 DEF Connect
<1> QED BY <1>2, <1>3, <1>4, <1>5 DEF IInv, Saving

(* Logging out puts the dialog up and empties Live View; nothing saved is  *)
(* touched.                                                                *)
LEMMA LogoutKeeps ==
  ASSUME IInv, Logout, WindowAssumption PROVE IInv'
<1> USE DEF Logout
<1>1. dialog.current = 0
  BY DEF IInv, TypeOK, DialogOrSession
<1>2. window' = [window EXCEPT !.ready = FALSE] /\ view' = [view EXCEPT !.slots = Empty]
  OBVIOUS
<1>3. view'.slots = Empty /\ view'.grid = view.grid
      /\ window'.ready = FALSE /\ window'.held = window.held /\ window'.ran = window.ran
      /\ window'.next = window.next
  BY <1>2 DEF IInv, TypeOK
<1>4. Saving'
  BY <1>3, SavingKept DEF IInv, Saving, history
<1>5. TypeOK'
  BY <1>2, EmptyTypes DEF IInv, TypeOK, disks, history, Filled, NewDialog
<1>6. DialogOrSession' /\ AttemptsNamed' /\ OpenHasOwner' /\ OwnNews'
  BY <1>1, <1>3 DEF IInv, DialogOrSession, AttemptsNamed, OpenHasOwner, OwnNews, NewDialog
<1>7. RequestsOnce'
  BY <1>3, OnceNumbers, OnceNumbersNext DEF IInv
<1> QED BY <1>4, <1>5, <1>6, <1>7 DEF IInv, Saving

(* What the answer to an attempt does when it logs in.                     *)
LEMMA ConnectedKeeps ==
  ASSUME IInv, WindowAssumption, NEW c \in Clients, LoggedIn(c), Wanted(c)
  PROVE  IInv'
<1> DEFINE p == profileOf[c]
           w == WithProfile(config, p)
<1>1. /\ Connected(c) /\ open' = open /\ task' = [task EXCEPT ![c] = "none"]
      /\ UNCHANGED <<profileOf, window, listed, history>>
  BY DEF LoggedIn
<1>2. c = dialog.current /\ c # 0 /\ dialog.shown /\ api = 0 /\ p \in Profiles
  <2>1. c = dialog.current /\ c # 0
    BY DEF Wanted, Clients, WindowAssumption
  <2> QED BY <2>1 DEF IInv, TypeOK, DialogOrSession
<1>3. listed = Nobody /\ window.ready = FALSE /\ open \subseteq {c}
  <2>1. listed = Nobody /\ window.ready \in BOOLEAN /\ ~window.ready
    BY <1>2 DEF IInv, DialogOrSession, TypeOK
  <2>2. open \subseteq {c}
    BY <1>2 DEF IInv, OpenHasOwner, TypeOK, Clients
  <2> QED BY <2>1, <2>2
<1>4. config \in Config /\ \A q \in Profiles : StoredFor(q) = Stored(config, q)
  BY DEF IInv, TypeOK, Config, Stored, StoredFor
<1>5. /\ w \in Config /\ w.active = config.active /\ w.default = config.default
      /\ w.known = config.known \union {p} /\ \A q \in Profiles : Stored(w, q) = Stored(config, q)
  BY <1>2, <1>4, ProfileFacts
<1> HIDE DEF w
<1>6. /\ config' \in Config /\ config'.active = p /\ config'.default = config.default
      /\ config'.known = w.known /\ \A q \in Profiles : StoredFor(q)' = StoredFor(q)
  <2>1. config' = Activated(w, p)
    BY <1>1 DEF Connected, w
  <2>2. \A q \in Profiles : StoredFor(q)' = Stored(config', q)
    BY DEF Stored, StoredFor
  <2>3. /\ Activated(w, p) \in Config /\ Activated(w, p).active = p
        /\ Activated(w, p).default = w.default /\ Activated(w, p).known = w.known
        /\ \A q \in Profiles : Stored(Activated(w, p), q) = Stored(w, q)
    BY <1>2, <1>5, ActivateFacts
  <2> QED BY <1>4, <1>5, <2>1, <2>2, <2>3
<1>7. /\ disk' \in Disk /\ disk'.known = w.known /\ disk'.default = config.default
      /\ \A q \in Profiles : disk'.state[q] = StoredFor(q)
  <2>1. disk' = FileOf(w)
    BY <1>1 DEF Connected, w
  <2>2. /\ FileOf(w) \in Disk /\ FileOf(w).known = w.known /\ FileOf(w).default = w.default
        /\ \A q \in Profiles :
             FileOf(w).state[q] = IF q \in w.known THEN Stored(w, q) ELSE NoLayouts
    BY <1>5, FileFacts
  <2>3. \A q \in Profiles : q \notin w.known => StoredFor(q) = NoLayouts
    BY <1>5 DEF IInv, KnownAlike
  <2> QED BY <1>4, <1>5, <2>1, <2>2, <2>3
<1>8. view' = [slots |-> Empty, grid |-> config.grid] /\ api' = c /\ heard' = {}
  BY <1>1 DEF Connected
<1>9. dialog' = [dialog EXCEPT !.shown = FALSE, !.current = 0, !.otp = FALSE]
      /\ stale' = {d \in Clients : profileOf[d] # Nobody}
  BY <1>1 DEF Connected
<1>10. dialog' \in [shown : BOOLEAN, current : Clients \union {None}, otp : BOOLEAN, button : BOOLEAN]
       /\ dialog'.shown = FALSE /\ dialog'.current = 0
  BY <1>9 DEF IInv, TypeOK
<1>11. TypeOK'
  <2>1. view' \in [slots : Filled, grid : Layouts]
    BY <1>4, <1>8, EmptyTypes DEF Config
  <2>2. mine' \in [Profiles -> Arrangements] /\ profileOf' \in [Clients -> Profiles \union {Nobody}]
        /\ window' \in [ready : BOOLEAN, held : Seq(Requests), ran : Seq(Nat), next : Nat \ {0}]
        /\ listed' \in Profiles \union {Nobody} /\ open' \subseteq Clients
        /\ task' \in [Clients -> {"none", "connect", "verify"}]
    BY <1>1 DEF IInv, TypeOK, history
  <2>3. stale' \subseteq Clients /\ heard' \subseteq Clients /\ api' \in Clients \union {None}
    BY <1>8, <1>9
  <2> QED BY <1>6, <1>7, <1>10, <2>1, <2>2, <2>3 DEF TypeOK, Config, Disk, Filled
<1>12. DialogOrSession' /\ AttemptsNamed' /\ OpenHasOwner'
  <2>1. AttemptsNamed'
    BY <1>1 DEF IInv, TypeOK, AttemptsNamed
  <2> QED BY <1>1, <1>2, <1>3, <1>6, <1>8, <1>10, <2>1 DEF DialogOrSession, OpenHasOwner
<1>13. KnownAlike'
  <2>1. config.active \in config.known /\ config.default \in config.known
    BY DEF IInv, KnownAlike
  <2>2. \A q \in Profiles \ config'.known :
           StoredFor(q)' = NoLayouts /\ disk'.state[q] = NoLayouts /\ mine'[q] = NoLayouts
    BY <1>1, <1>5, <1>6, <1>7 DEF IInv, KnownAlike, history
  <2> QED BY <1>5, <1>6, <1>7, <2>1, <2>2 DEF KnownAlike
<1>14. OwnArrangements'
  <2>1. \A x \in Slots : view'.slots[x] = 0
    BY <1>8 DEF Empty
  <2> QED BY <1>6, <1>7, <2>1 DEF IInv, OwnArrangements, Proper
<1>15. ArrangementKept'
  BY <1>1, <1>3, <1>6, <1>7 DEF IInv, ArrangementKept, history
<1>16. OwnNews' /\ RequestsOnce'
  BY <1>1, <1>3, <1>8 DEF IInv, OwnNews, RequestsOnce
<1> QED BY <1>11, <1>12, <1>13, <1>14, <1>15, <1>16 DEF IInv

(* The two ways an answer to an attempt logs in.                           *)
LEMMA LoggedInKeeps ==
  ASSUME IInv, WindowAssumption, NEW c \in Clients, LoggedIn(c)
  PROVE  IInv'
<1>1. CASE Wanted(c)
  BY <1>1, ConnectedKeeps
<1>2. CASE ~Wanted(c)
  <2>1. /\ open' = open \ {c} /\ UNCHANGED <<disks, stale, api, heard, view, polls>>
        /\ dialog' = [dialog EXCEPT !.otp = FALSE] \/ dialog' = dialog
        /\ task' = [task EXCEPT ![c] = "none"]
        /\ UNCHANGED <<profileOf, window, listed, history>>
    BY <1>2 DEF LoggedIn
  <2>2. Saving'
    BY <2>1, SavingKept DEF IInv, Saving
  <2>3. dialog' \in [shown : BOOLEAN, current : Clients \union {None}, otp : BOOLEAN, button : BOOLEAN]
        /\ dialog'.shown = dialog.shown /\ dialog'.current = dialog.current
    <3>1. dialog \in [shown : BOOLEAN, current : Clients \union {None}, otp : BOOLEAN, button : BOOLEAN]
      BY DEF IInv, TypeOK
    <3>2. CASE dialog' = [dialog EXCEPT !.otp = FALSE]
      BY <3>1, <3>2
    <3>3. CASE dialog' = dialog
      BY <3>1, <3>3
    <3> QED BY <2>1, <3>2, <3>3
  <2>4. TypeOK'
    <3>1. task' \in [Clients -> {"none", "connect", "verify"}] /\ open' \subseteq Clients
      BY <2>1 DEF IInv, TypeOK
    <3> QED BY <2>1, <2>3, <3>1 DEF IInv, TypeOK, disks, history
  <2>5. DialogOrSession' /\ AttemptsNamed' /\ OpenHasOwner' /\ OwnNews'
    <3>1. AttemptsNamed'
      BY <2>1 DEF IInv, TypeOK, AttemptsNamed
    <3> QED BY <2>1, <2>3, <3>1 DEF IInv, DialogOrSession, OpenHasOwner, OwnNews, disks
  <2>6. RequestsOnce'
    BY <2>1 DEF IInv, RequestsOnce
  <2> QED BY <2>2, <2>4, <2>5, <2>6 DEF IInv, Saving
<1> QED BY <1>1, <1>2

(* A profile more is known; nothing else is saved or shown.                *)
LEMMA ConnectFailedKeeps ==
  ASSUME IInv, WindowAssumption, NEW c \in Clients, ConnectFailed(c)
  PROVE  IInv'
<1>1. /\ task[c] = "connect" /\ task' = [task EXCEPT ![c] = "none"]
      /\ UNCHANGED <<profileOf, stale, session, history>>
  BY DEF ConnectFailed
<1>2. \/ UNCHANGED disks
      \/ /\ profileOf[c] \in Profiles
         /\ config' = WithProfile(config, profileOf[c]) /\ disk' = FileOf(config')
  <2>1. profileOf[c] \in Profiles
    BY <1>1 DEF IInv, TypeOK, AttemptsNamed
  <2> QED BY <2>1 DEF ConnectFailed, disks
<1>3. /\ open' \subseteq open /\ dialog' \in [shown : BOOLEAN, current : Clients \union {None},
                                              otp : BOOLEAN, button : BOOLEAN]
      /\ dialog'.shown = dialog.shown
      /\ \/ dialog'.current = dialog.current
         \/ dialog'.current = 0 /\ open' = open \ {dialog.current}
  <2>1. dialog \in [shown : BOOLEAN, current : Clients \union {None}, otp : BOOLEAN, button : BOOLEAN]
    BY DEF IInv, TypeOK
  <2>2. CASE UNCHANGED <<open, dialog>>
    BY <2>1, <2>2
  <2>3. CASE dialog' = [dialog EXCEPT !.otp = TRUE, !.button = TRUE] /\ UNCHANGED open
    BY <2>1, <2>3
  <2>4. CASE dialog' = [dialog EXCEPT !.button = TRUE, !.current = None]
             /\ open' = open \ {dialog.current}
    BY <2>1, <2>4
  <2> QED BY <2>2, <2>3, <2>4 DEF ConnectFailed
<1>4. /\ config' \in Config /\ disk' \in Disk
      /\ config'.active = config.active /\ config'.default = config.default
      /\ config.known \subseteq config'.known
      /\ disk'.known = config'.known /\ disk'.default \in disk'.known
      /\ \A p \in Profiles : StoredFor(p)' = StoredFor(p)
      /\ \A p \in Profiles : disk'.state[p] \in {disk.state[p], StoredFor(p)}
      /\ \A p \in Profiles \ disk'.known : disk'.state[p] = NoLayouts
  <2>1. config \in Config /\ disk \in Disk
        /\ (\A p \in Profiles : StoredFor(p) = Stored(config, p))
        /\ (\A p \in Profiles : StoredFor(p)' = Stored(config', p))
    BY DEF IInv, TypeOK, Config, Disk, Stored, StoredFor
  <2>2. CASE UNCHANGED disks
    BY <2>1, <2>2 DEF disks, IInv, KnownAlike
  <2>3. CASE /\ profileOf[c] \in Profiles
             /\ config' = WithProfile(config, profileOf[c]) /\ disk' = FileOf(config')
    <3>1. /\ config' \in Config /\ config'.active = config.active
          /\ config'.default = config.default /\ config.known \subseteq config'.known
          /\ \A p \in Profiles : Stored(config', p) = Stored(config, p)
      BY <2>1, <2>3, ProfileFacts
    <3>2. /\ disk' \in Disk /\ disk'.known = config'.known /\ disk'.default = config'.default
          /\ \A p \in Profiles :
               disk'.state[p] = IF p \in config'.known THEN Stored(config', p) ELSE NoLayouts
      BY <2>3, <3>1, FileFacts
    <3>3. \A p \in Profiles : p \notin config'.known => StoredFor(p) = NoLayouts
      BY <3>1 DEF IInv, KnownAlike
    <3>4. config.default \in config.known
      BY DEF IInv, KnownAlike
    <3> QED BY <2>1, <3>1, <3>2, <3>3, <3>4
  <2> QED BY <1>2, <2>2, <2>3
<1>5. Saving'
  <2>1. \A p \in Profiles \ config'.known :
           StoredFor(p)' = NoLayouts /\ disk'.state[p] = NoLayouts /\ mine'[p] = NoLayouts
    BY <1>1, <1>4 DEF IInv, KnownAlike, history
  <2>2. KnownAlike'
    BY <1>4, <2>1 DEF IInv, KnownAlike
  <2>3. OwnArrangements'
    BY <1>1, <1>4 DEF IInv, OwnArrangements, Proper, session
  <2>4. ArrangementKept'
    BY <1>1, <1>4 DEF IInv, ArrangementKept, session, history, Visible
  <2> QED BY <2>2, <2>3, <2>4 DEF Saving
<1>6. TypeOK'
  <2>1. task' \in [Clients -> {"none", "connect", "verify"}] /\ open' \subseteq Clients
    BY <1>1, <1>3 DEF IInv, TypeOK
  <2>2. UNCHANGED <<profileOf, stale, heard, api, listed, window, view, mine>>
    BY <1>1 DEF session, history
  <2> QED BY <1>3, <1>4, <2>1, <2>2 DEF IInv, TypeOK, Config, Disk
<1>7. DialogOrSession' /\ OpenHasOwner' /\ OwnNews'
  BY <1>1, <1>3, <1>4 DEF IInv, DialogOrSession, OpenHasOwner, OwnNews, session
<1>8. AttemptsNamed'
  BY <1>1 DEF IInv, TypeOK, AttemptsNamed
<1>9. RequestsOnce'
  BY <1>1 DEF IInv, RequestsOnce, session
<1> QED BY <1>9, <1>5, <1>6, <1>7, <1>8 DEF IInv, Saving

(* The polls that show nothing of the arrangement.                         *)
LEMMA PollKeeps ==
  ASSUME IInv, WindowAssumption,
         Tick("cameras") \/ Tick("news") \/ PollFailed \/ \E c \in Clients : NewsAnswered(c)
  PROVE  IInv'
<1>1. UNCHANGED <<disks, login, api, window, listed, view, history>>
  BY DEF Tick, PollFailed, NewsAnswered
<1>2. heard' = heard \/ \E c \in Clients : heard' = heard \union {c} /\ api = c
  BY DEF Tick, PollFailed, NewsAnswered, SameSession
<1>3. Saving'
  BY <1>1, SavingKept DEF IInv, Saving
<1>4. TypeOK'
  BY <1>1, <1>2 DEF IInv, TypeOK, disks, login, history
<1>5. DialogOrSession' /\ AttemptsNamed' /\ OpenHasOwner' /\ OwnNews'
  BY <1>1, <1>2 DEF IInv, DialogOrSession, AttemptsNamed, OpenHasOwner, OwnNews, disks, login
<1>6. RequestsOnce'
  BY <1>1 DEF IInv, RequestsOnce
<1> QED BY <1>3, <1>4, <1>5, <1>6 DEF IInv, Saving

(***************************************************************************)
(* The arrangement                                                         *)
(***************************************************************************)

(* What is on screen fits the session's profile.                           *)
LEMMA NowFits ==
  ASSUME IInv, WindowAssumption, api # None
  PROVE  /\ config.active \in Profiles /\ profileOf[api] = config.active
         /\ Fits(Arrangement, config.active)
         /\ Arrangement.saved = config.layouts /\ Arrangement.grid = view.grid
         /\ Arrangement.slots = view.slots
         /\ mine[config.active] \in Arrangements
         /\ window.ready /\ config.active \notin wiped => Kept(Arrangement, mine[config.active])
         /\ config.active \notin wiped => config.layouts = mine[config.active]
<1>1. Arrangement.saved = config.layouts /\ Arrangement.grid = view.grid
      /\ Arrangement.slots = view.slots /\ Arrangement \in Arranged
  BY DEF Arrangement, Arranged, IInv, TypeOK, Filled
<1>2. config.active \in Profiles /\ StoredFor(config.active) = config.layouts
  BY DEF IInv, TypeOK, StoredFor
<1>3. Fits(Arrangement, config.active)
  BY <1>1, <1>2 DEF Fits, OwnSlots, IInv, OwnArrangements
<1>4. profileOf[api] = config.active
  BY DEF IInv, DialogOrSession
<1>5. /\ window.ready /\ config.active \notin wiped => Kept(Arrangement, mine[config.active])
      /\ config.active \notin wiped => config.layouts = mine[config.active]
  BY <1>1, <1>2 DEF Kept, IInv, ArrangementKept
<1>6. mine[config.active] \in Arrangements
  BY <1>2 DEF IInv, TypeOK
<1> QED BY <1>1, <1>2, <1>3, <1>4, <1>5, <1>6

(* A handler that ends with an arrangement that fits, saved and meant, in  *)
(* a session that goes on, keeps the invariant.                            *)
LEMMA ShowKeeps ==
  ASSUME IInv, WindowAssumption, api # None, NEW a, Fits(a, config.active), NowShows(a),
         Written \/ (UNCHANGED disk /\ a.saved = config.layouts),
         UNCHANGED <<login, api, heard>>,
         NEW m \in Arrangements, mine' = [mine EXCEPT ![config.active] = m],
         wiped \subseteq wiped',
         config.active \notin wiped' => a.saved = m,
         config.active \notin wiped' /\ window'.ready => Kept(a, m),
         listed' \in {listed, config.active}, window'.ready <=> listed' # Nobody,
         window'.ready => window'.held = <<>>,
         window' \in [ready : BOOLEAN, held : Seq(Requests), ran : Seq(Nat), next : Nat \ {0}],
         RequestsOnce'
  PROVE  IInv'
<1> DEFINE p == config.active
<1>1. p \in Profiles /\ p # Nobody /\ config \in Config /\ disk \in Disk
  BY DEF IInv, TypeOK, Config, Disk, WindowAssumption
<1>2. a.slots \in Filled /\ a.grid \in Layouts /\ a.saved \in Arrangements
  BY DEF Fits, Arranged
<1>3. view' \in [slots : Filled, grid : Layouts] /\ view'.slots = a.slots /\ view'.grid = a.grid
  BY <1>2 DEF NowShows, IInv, TypeOK, Filled
<1>4. /\ config' \in Config /\ config'.active = p /\ config'.default = config.default
      /\ config'.known = config.known
      /\ \A q \in Profiles : StoredFor(q)' = IF q = p THEN a.saved ELSE StoredFor(q)
  BY <1>1, <1>2 DEF NowShows, Config, StoredFor
<1>5. p \in config.known /\ config.default \in config.known
  BY DEF IInv, KnownAlike
<1>6. /\ disk' \in Disk /\ disk'.known = config.known /\ disk'.default \in config.known
      /\ \A q \in Profiles : disk'.state[q] = StoredFor(q)' \/ (q # p /\ disk'.state[q] = disk.state[q])
                             \/ (q = p /\ disk'.state[q] = disk.state[q] /\ a.saved = StoredFor(p))
      /\ \A q \in Profiles \ config.known : disk'.state[q] = NoLayouts
  <2>1. CASE UNCHANGED disk /\ a.saved = config.layouts
    BY <1>1, <2>1 DEF IInv, KnownAlike, StoredFor
  <2>2. CASE Written
    <3>1. /\ disk' \in Disk /\ disk'.known = config'.known /\ disk'.default = config'.default
          /\ \A q \in Profiles :
               disk'.state[q] = IF q \in config'.known THEN Stored(config', q) ELSE NoLayouts
      BY <2>2, <1>4, FileFacts DEF Written
    <3>2. \A q \in Profiles : Stored(config', q) = StoredFor(q)'
      BY DEF Stored, StoredFor
    <3>3. \A q \in Profiles : q \notin config.known => StoredFor(q)' = NoLayouts
      BY <1>4, <1>5 DEF IInv, KnownAlike
    <3> QED BY <1>4, <1>5, <3>1, <3>2, <3>3
  <2> QED BY <2>1, <2>2
<1>7. /\ mine' \in [Profiles -> Arrangements]
      /\ \A q \in Profiles : mine'[q] = IF q = p THEN m ELSE mine[q]
  BY <1>1 DEF IInv, TypeOK
<1>8. KnownAlike'
  <2>1. \A q \in Profiles \ config.known : q # p
    BY <1>5
  <2>2. \A q \in Profiles \ config.known : StoredFor(q)' = NoLayouts /\ mine'[q] = NoLayouts
    BY <1>4, <1>7, <2>1 DEF IInv, KnownAlike
  <2> QED BY <1>4, <1>5, <1>6, <2>2 DEF KnownAlike
<1>9. OwnArrangements'
  <2>1. Proper(a.saved, p) /\ OwnSlots(a.slots, p)
    BY DEF Fits
  <2>2. \A q \in Profiles : Proper(StoredFor(q), q) /\ Proper(disk.state[q], q)
    BY DEF IInv, OwnArrangements
  <2>3. \A q \in Profiles : Proper(StoredFor(q)', q)
    BY <1>4, <2>1, <2>2
  <2>4. \A q \in Profiles : Proper(disk'.state[q], q)
    BY <1>6, <2>2, <2>3
  <2> QED BY <1>3, <1>4, <2>1, <2>3, <2>4 DEF OwnArrangements, OwnSlots, Proper
<1>10. ArrangementKept'
  <2> SUFFICES ASSUME NEW q \in Profiles, q \notin wiped'
               PROVE  /\ StoredFor(q)' = mine'[q] /\ disk'.state[q] = mine'[q]
                      /\ window'.ready /\ config'.active = q =>
                           Visible(view'.slots, view'.grid) = mine'[q][view'.grid]
    BY DEF ArrangementKept, Visible
  <2>1. q \notin wiped
    OBVIOUS
  <2>2. StoredFor(q) = mine[q] /\ disk.state[q] = mine[q]
    BY <2>1 DEF IInv, ArrangementKept
  <2>3. CASE q = p
    <3>1. StoredFor(q)' = m /\ mine'[q] = m
      BY <1>4, <1>7, <2>3
    <3>2. disk'.state[q] = m
      BY <1>4, <1>6, <2>2, <2>3, <3>1
    <3>3. window'.ready => Visible(view'.slots, view'.grid) = m[view'.grid]
      BY <1>3, <2>3 DEF Kept
    <3> QED BY <3>1, <3>2, <3>3
  <2>4. CASE q # p
    BY <1>4, <1>6, <1>7, <2>2, <2>4
  <2> QED BY <2>3, <2>4
<1>11. TypeOK'
  <2>1. listed' \in Profiles \union {Nobody}
    BY <1>1 DEF IInv, TypeOK
  <2> QED BY <1>3, <1>4, <1>6, <1>7, <2>1 DEF IInv, TypeOK, Config, Disk, Filled, login
<1>12. DialogOrSession' /\ AttemptsNamed' /\ OpenHasOwner'
  BY <1>4 DEF IInv, DialogOrSession, AttemptsNamed, OpenHasOwner, login
<1>13. OwnNews'
  BY <1>1 DEF IInv, OwnNews, DialogOrSession, login
<1> QED BY <1>8, <1>9, <1>10, <1>11, <1>12, <1>13 DEF IInv

(* The first list of a session: what the layout was saved with comes back, *)
(* then what was held is run.                                              *)
LEMMA ListedKeeps ==
  ASSUME IInv, WindowAssumption, NEW c \in Clients, CamerasListed(c)
  PROVE  IInv'
<1>1. CASE ~SameSession(c) \/ window.ready
  <2>1. UNCHANGED <<disks, window, view, login, api, heard, mine, wiped>>
    BY <1>1 DEF CamerasListed
  <2>2. listed' = listed
    <3>1. CASE SameSession(c)
      <4>1. listed' = profileOf[c] /\ api = c
        BY <3>1 DEF CamerasListed, SameSession
      <4> QED BY <1>1, <3>1, <4>1 DEF IInv, DialogOrSession, OwnNews
    <3>2. CASE ~SameSession(c)
      BY <3>2 DEF CamerasListed
    <3> QED BY <3>1, <3>2
  <2>3. Saving'
    BY <2>1, SavingKept DEF IInv, Saving, history
  <2>4. TypeOK'
    BY <2>1, <2>2 DEF IInv, TypeOK, disks, login
  <2>5. DialogOrSession' /\ AttemptsNamed' /\ OpenHasOwner' /\ OwnNews' /\ RequestsOnce'
    BY <2>1, <2>2 DEF IInv, DialogOrSession, AttemptsNamed, OpenHasOwner, OwnNews, RequestsOnce,
       disks, login
  <2> QED BY <2>3, <2>4, <2>5 DEF IInv, Saving
<1>2. CASE SameSession(c) /\ ~window.ready
  <2> DEFINE p == config.active
             begun == [now |-> Restored(Arrangement, profileOf[c]), meant |-> mine[p]]
             final == AllRun(begun, window.held)
             kept == p \notin wiped
  <2>1. /\ listed' = profileOf[c] /\ NowShows(final.now)
        /\ (UNCHANGED disk /\ final.now.saved = config.layouts) \/ Written
        /\ window' = [window EXCEPT !.ready = TRUE, !.held = LeftHeld(@),
                          !.ran = @ \o [i \in DOMAIN window.held |-> window.held[i].n]]
        /\ mine' = [mine EXCEPT ![p] = final.meant]
        /\ UNCHANGED <<wiped, login, api, heard>>
    BY <1>2 DEF CamerasListed
  <2>2. api = c /\ c # None
    BY <1>2 DEF SameSession, Clients, WindowAssumption
  <2>3. /\ p \in Profiles /\ profileOf[c] = p /\ Fits(Arrangement, p)
        /\ mine[p] \in Arrangements /\ (kept => Arrangement.saved = mine[p])
    BY <2>2, NowFits
  <2>4. begun \in Runs(p, kept)
    <3> DEFINE r == Restored(Arrangement, p)
    <3>1. /\ Fits(r, p) /\ r.grid = Arrangement.grid /\ r.saved = Arrangement.saved
          /\ Visible(r.slots, r.grid) = Arrangement.saved[r.grid]
      BY <2>3, RestoredFacts
    <3> HIDE DEF r
    <3>2. r \in Arranged /\ (kept => Kept(r, mine[p]))
      BY <2>3, <3>1 DEF Kept, Fits
    <3>3. begun = [now |-> r, meant |-> mine[p]]
      BY <2>3 DEF r
    <3> QED BY <2>3, <3>1, <3>2, <3>3 DEF Runs
  <2>5. final \in Runs(p, kept)
    <3>1. \A s \in Runs(p, kept), r \in Requests : RequestRun(s, r) \in Runs(p, kept)
      BY <2>2, <2>3, RunFacts
    <3>2. window.held \in Seq(Requests)
      BY DEF IInv, TypeOK
    <3> HIDE DEF begun
    <3> QED BY <2>4, <3>1, <3>2, AllRunKeeps
  <2> HIDE DEF begun, final
  <2>6. Fits(final.now, p) /\ final.meant \in Arrangements /\ (kept => Kept(final.now, final.meant))
    BY <2>5 DEF Runs
  <2>7. /\ window' \in [ready : BOOLEAN, held : Seq(Requests), ran : Seq(Nat), next : Nat \ {0}]
        /\ window'.ready = TRUE /\ window'.held = <<>> /\ window'.next = window.next
        /\ window'.ran = window.ran \o Numbers(window.held)
    <3>1. window \in [ready : BOOLEAN, held : Seq(Requests), ran : Seq(Nat), next : Nat \ {0}]
      BY DEF IInv, TypeOK
    <3>2. window' = [window EXCEPT !.ready = TRUE, !.held = <<>>,
                                   !.ran = window.ran \o Numbers(window.held)]
      BY <2>1 DEF LeftHeld, Numbers
    <3>3. Numbers(window.held) \in Seq(Nat)
      BY <3>1, NumbersFacts
    <3>4. window.ran \o Numbers(window.held) \in Seq(Nat)
      BY <3>1, <3>3
    <3> DEFINE H == Seq(Requests)  Q == Seq(Nat)  N == Nat \ {0}
               h == <<>>  q == window.ran \o Numbers(window.held)
    <3>5. /\ window \in [ready : BOOLEAN, held : H, ran : Q, next : N]
          /\ h \in H /\ q \in Q /\ window' = [window EXCEPT !.ready = TRUE, !.held = h, !.ran = q]
      BY <3>1, <3>2, <3>4
    <3> HIDE DEF H, Q, N, h, q, kept
    <3>6. /\ window' \in [ready : BOOLEAN, held : H, ran : Q, next : N]
          /\ window'.ready = TRUE /\ window'.held = h /\ window'.next = window.next /\ window'.ran = q
      BY <3>5
    <3> QED BY <3>6 DEF H, Q, N, h, q
  <2>8. RequestsOnce'
    <3>1. Numbers(window'.held) = <<>>
      BY <2>7 DEF Numbers
    <3>2. window'.ran \in Seq(Nat)
      BY <2>7
    <3>3. window'.ran \o <<>> = window'.ran
      BY <3>2
    <3>4. p # Nobody
      BY <2>3 DEF WindowAssumption
    <3> QED BY <2>1, <2>3, <2>7, <3>1, <3>3, <3>4, OnceNumbers, OnceNumbersNext DEF IInv
  <2>9. listed' = p /\ (window'.ready <=> listed' # Nobody)
    BY <2>1, <2>3, <2>7 DEF WindowAssumption
  <2>10. /\ Written \/ (UNCHANGED disk /\ final.now.saved = config.layouts)
         /\ wiped \subseteq wiped' /\ (p \notin wiped' => final.now.saved = final.meant)
         /\ (p \notin wiped' /\ window'.ready => Kept(final.now, final.meant))
         /\ listed' \in {listed, p} /\ UNCHANGED <<login, api, heard>>
    BY <2>1, <2>6, <2>9 DEF Kept
  <2>11. /\ NowShows(final.now) /\ mine' = [mine EXCEPT ![p] = final.meant] /\ api # None
         /\ (window'.ready => window'.held = <<>>)
    BY <2>1, <2>2, <2>7
  <2> QED BY <2>6, <2>7, <2>8, <2>9, <2>10, <2>11, ShowKeeps
<1> QED BY <1>1, <1>2

(* A change the user meant.                                                *)
LEMMA EditKeeps ==
  ASSUME IInv, WindowAssumption, NEW a, Edit(a), Fits(a, config.active),
         config.active \notin wiped =>
           a.saved = [mine[config.active] EXCEPT ![a.grid] = Visible(a.slots, a.grid)]
  PROVE  IInv'
<1> DEFINE p == config.active
           m == [mine[p] EXCEPT ![a.grid] = Visible(a.slots, a.grid)]
<1>1. /\ api # None /\ NowShows(a) /\ Written /\ mine' = [mine EXCEPT ![p] = m]
      /\ UNCHANGED <<login, api, window, listed, heard, wiped>>
  BY DEF Edit
<1>2. p \in Profiles /\ mine[p] \in Arrangements
  BY <1>1, NowFits
<1>3. a.grid \in Layouts /\ Visible(a.slots, a.grid) \in Filled
  BY VisibleFacts DEF Fits, Arranged
<1>4. m \in Arrangements /\ m[a.grid] = Visible(a.slots, a.grid)
  BY <1>2, <1>3 DEF Arrangements, Filled
<1>5. p \notin wiped => Kept(a, m)
  BY <1>4 DEF Kept
<1> HIDE DEF m
<1>6. (window'.ready <=> listed' # Nobody) /\ (window'.ready => window'.held = <<>>) /\ RequestsOnce'
      /\ window' \in [ready : BOOLEAN, held : Seq(Requests), ran : Seq(Nat), next : Nat \ {0}]
  BY <1>1, WindowKept
<1>7. /\ Written \/ (UNCHANGED disk /\ a.saved = config.layouts)
      /\ wiped \subseteq wiped' /\ (p \notin wiped' => a.saved = m)
      /\ (p \notin wiped' /\ window'.ready => Kept(a, m))
      /\ listed' \in {listed, p} /\ UNCHANGED <<login, api, heard>>
  BY <1>1, <1>5 DEF Kept
<1> QED BY <1>1, <1>4, <1>6, <1>7, ShowKeeps

(* Picking a camera, alone or for a slot, and clearing slots.              *)
LEMMA ChangesKeep ==
  ASSUME IInv, WindowAssumption, PickCamera \/ Clear
  PROVE  IInv'
<1> DEFINE p == config.active
<1>1. api # None
  BY DEF PickCamera, Clear, Edit
<1>2. /\ p \in Profiles /\ Fits(Arrangement, p) /\ Arrangement.saved = config.layouts
      /\ (window.ready /\ p \notin wiped => Kept(Arrangement, mine[p]))
      /\ (p \notin wiped => config.layouts = mine[p])
  BY <1>1, NowFits
<1>3. ASSUME NEW a, Edit(a), Fits(a, p), Edited(Arrangement, a) PROVE IInv'
  <2>1. p \notin wiped => a.saved = [mine[p] EXCEPT ![a.grid] = Visible(a.slots, a.grid)]
    BY <1>2, <1>3 DEF Edited, Kept
  <2> QED BY <1>3, <2>1, EditKeeps
<1>4. ASSUME NEW c \in Cameras, NasOf[c] = listed,
             (\E x \in Shown[view.grid] : Edit(AssignedTo(Arrangement, x, c)))
               \/ Edit(Alone(Arrangement, c))
      PROVE  IInv'
  <2>1. NasOf[c] \in Profiles /\ listed # Nobody
    BY <1>4 DEF WindowAssumption
  <2>2. NasOf[c] = p /\ window.ready
    BY <1>4, <2>1 DEF IInv, OwnNews, DialogOrSession
  <2>3. ASSUME NEW x \in Shown[view.grid], Edit(AssignedTo(Arrangement, x, c)) PROVE IInv'
    BY <1>2, <1>3, <2>2, <2>3, AssignedFacts
  <2>4. CASE Edit(Alone(Arrangement, c))
    <3> DEFINE b == Alone(Arrangement, c)
    <3>1. /\ Fits(b, p) /\ b.grid = Solo
          /\ \A m : Kept(Arrangement, m) => Kept(b, [m EXCEPT ![Solo] = Visible(b.slots, Solo)])
      BY <1>2, <2>2, AloneFacts
    <3>2. Edit(b)
      BY <2>4
    <3> HIDE DEF b
    <3>3. p \notin wiped => b.saved = [mine[p] EXCEPT ![b.grid] = Visible(b.slots, b.grid)]
      BY <1>2, <2>2, <3>1 DEF Kept
    <3> QED BY <3>1, <3>2, <3>3, EditKeeps
  <2> QED BY <1>4, <2>3, <2>4
<1>5. ASSUME NEW X, Edit(Cleared(Arrangement, X)) PROVE IInv'
  BY <1>2, <1>3, <1>5, ClearedFacts
<1> QED BY <1>4, <1>5 DEF PickCamera, Clear

(* Switching the layout: with the camera list there it comes up as it was  *)
(* left; without it the profile counts as wiped.                           *)
LEMMA SwitchKeeps ==
  ASSUME IInv, WindowAssumption, SwitchLayout
  PROVE  IInv'
<1> DEFINE p == config.active
<1>1. PICK l \in Layouts \ {view.grid} : NowShows(Switched(Arrangement, l, listed)) /\ Written
  BY DEF SwitchLayout
<1>2. /\ api # None /\ wiped' = IF listed = Nobody THEN wiped \union {p} ELSE wiped
      /\ UNCHANGED <<login, api, window, listed, heard, mine>>
  BY DEF SwitchLayout
<1>3. /\ p \in Profiles /\ Fits(Arrangement, p) /\ mine[p] \in Arrangements
      /\ (window.ready /\ p \notin wiped => Kept(Arrangement, mine[p]))
  BY <1>2, NowFits
<1>4. listed \in {p, Nobody} /\ (window.ready <=> listed # Nobody)
  BY DEF IInv, OwnNews, DialogOrSession
<1> DEFINE a == Switched(Arrangement, l, listed)
<1>5. Fits(a, p) /\ (p \notin wiped' => Kept(a, mine[p]))
  <2>1. Fits(a, p) /\ \A m : Kept(Arrangement, m) /\ listed = p => Kept(a, m)
    BY <1>3, <1>4, SwitchedFacts
  <2> HIDE DEF a
  <2> QED BY <1>2, <1>3, <1>4, <2>1
<1> HIDE DEF a
<1>6. mine' = [mine EXCEPT ![p] = mine[p]]
  BY <1>2, <1>3 DEF IInv, TypeOK
<1>7. (window'.ready <=> listed' # Nobody) /\ (window'.ready => window'.held = <<>>) /\ RequestsOnce'
      /\ window' \in [ready : BOOLEAN, held : Seq(Requests), ran : Seq(Nat), next : Nat \ {0}]
  BY <1>2, WindowKept
<1>8. /\ NowShows(a) /\ (Written \/ (UNCHANGED disk /\ a.saved = config.layouts))
      /\ wiped \subseteq wiped' /\ (p \notin wiped' => a.saved = mine[p])
      /\ (p \notin wiped' /\ window'.ready => Kept(a, mine[p]))
      /\ listed' \in {listed, p} /\ UNCHANGED <<login, api, heard>>
  BY <1>1, <1>2, <1>5 DEF Kept, a
<1> QED BY <1>2, <1>3, <1>5, <1>6, <1>7, <1>8, ShowKeeps

(* A request from the command line: held until the session is ready, and   *)
(* run once then, or at once.                                              *)
LEMMA RequestKeeps ==
  ASSUME IInv, WindowAssumption, Request
  PROVE  IInv'
<1> DEFINE p == config.active
<1>1. UNCHANGED <<login, api, listed, polls, heard, wiped>>
  BY DEF Request
<1>2. window \in [ready : BOOLEAN, held : Seq(Requests), ran : Seq(Nat), next : Nat \ {0}]
  BY DEF IInv, TypeOK
<1>3. PICK r \in Requests :
       /\ r.n = window.next
       /\ IF ~window.ready
          THEN /\ window' = [window EXCEPT !.held = Append(@, r), !.next = @ + 1]
               /\ UNCHANGED <<disks, view, mine>>
          ELSE LET s == RequestRun([now |-> Arrangement, meant |-> mine[config.active]], r)
               IN /\ NowShows(s.now) /\ Written
                  /\ mine' = [mine EXCEPT ![config.active] = s.meant]
                  /\ window' = [window EXCEPT !.ran = Append(@, r.n), !.next = @ + 1]
  BY DEF Request
<1>4. Numbers(window.held) \in Seq(Nat)
      /\ Numbers(Append(window.held, r)) = Append(Numbers(window.held), r.n)
  BY <1>2, NumbersFacts
<1>5. /\ window.ran \o Numbers(window.held) = [i \in 1 .. window.next - 1 |-> i]
      /\ window.ready => listed # Nobody
  BY OnceNumbers DEF IInv
<1>6. Append([i \in 1 .. window.next - 1 |-> i], window.next) = [i \in 1 .. window.next |-> i]
  BY <1>2
<1>7. CASE ~window.ready
  <2>1. window' = [window EXCEPT !.held = Append(window.held, r), !.next = window.next + 1]
        /\ UNCHANGED <<disks, view, mine>>
    BY <1>3, <1>7
  <2>2. /\ window' \in [ready : BOOLEAN, held : Seq(Requests), ran : Seq(Nat), next : Nat \ {0}]
        /\ window'.ready = window.ready /\ window'.held = Append(window.held, r)
        /\ window'.ran = window.ran /\ window'.next = window.next + 1
    <3>1. Append(window.held, r) \in Seq(Requests) /\ window.next + 1 \in Nat \ {0}
          /\ window.ran \in Seq(Nat)
      BY <1>2
    <3> DEFINE H == Seq(Requests)  Q == Seq(Nat)  N == Nat \ {0}
               h == Append(window.held, r)  n == window.next + 1
    <3>2. /\ window \in [ready : BOOLEAN, held : H, ran : Q, next : N]
          /\ h \in H /\ n \in N /\ window' = [window EXCEPT !.held = h, !.next = n]
      BY <1>2, <2>1, <3>1
    <3> HIDE DEF H, Q, N, h, n
    <3>3. /\ window' \in [ready : BOOLEAN, held : H, ran : Q, next : N]
          /\ window'.ready = window.ready /\ window'.held = h /\ window'.ran = window.ran
          /\ window'.next = n
      BY <3>2
    <3> QED BY <3>3 DEF H, Q, N, h, n
  <2>3. RequestsOnce'
    <3>1. window.ran \o Append(Numbers(window.held), r.n) = Append(window.ran \o Numbers(window.held), r.n)
      BY <1>2, <1>4
    <3>2. window'.next - 1 = window.next
      BY <1>2, <2>2
    <3> QED BY <1>1, <1>3, <1>4, <1>5, <1>6, <2>2, <3>1, <3>2, OnceNumbersNext
  <2>4. Saving'
    BY <1>1, <2>1, <2>2, SavingKept DEF IInv, Saving, history
  <2>5. TypeOK'
    BY <1>1, <2>1, <2>2 DEF IInv, TypeOK, disks, login
  <2>6. DialogOrSession' /\ AttemptsNamed' /\ OpenHasOwner' /\ OwnNews'
    <3>1. ~window'.ready
      BY <1>7, <2>2
    <3>2. DialogOrSession'
      BY <1>1, <1>7, <2>1, <3>1 DEF IInv, DialogOrSession, disks, login
    <3> QED BY <1>1, <3>2 DEF IInv, AttemptsNamed, OpenHasOwner, OwnNews, login
  <2> QED BY <2>3, <2>4, <2>5, <2>6 DEF IInv, Saving
<1>8. CASE window.ready
  <2> DEFINE begun == [now |-> Arrangement, meant |-> mine[p]]
             s == RequestRun(begun, r)
             kept == p \notin wiped
  <2>1. /\ NowShows(s.now) /\ Written /\ mine' = [mine EXCEPT ![p] = s.meant]
        /\ window' = [window EXCEPT !.ran = Append(window.ran, r.n), !.next = window.next + 1]
    BY <1>3, <1>8
  <2>2. api # None
    BY <1>8 DEF IInv, DialogOrSession
  <2>3. /\ p \in Profiles /\ profileOf[api] = p /\ Fits(Arrangement, p) /\ mine[p] \in Arrangements
        /\ (kept => Kept(Arrangement, mine[p]))
    BY <1>8, <2>2, NowFits
  <2>4. begun \in Runs(p, kept)
    BY <2>3 DEF Runs, Fits
  <2>5. s \in Runs(p, kept)
    <3> HIDE DEF begun
    <3> QED BY <2>3, <2>4, RunFacts
  <2> HIDE DEF begun, s
  <2>6. Fits(s.now, p) /\ s.meant \in Arrangements /\ (kept => Kept(s.now, s.meant))
    BY <2>5 DEF Runs
  <2>7. /\ window' \in [ready : BOOLEAN, held : Seq(Requests), ran : Seq(Nat), next : Nat \ {0}]
        /\ window'.ready = window.ready /\ window'.held = window.held
        /\ window'.ran = Append(window.ran, r.n) /\ window'.next = window.next + 1
    <3>1. Append(window.ran, r.n) \in Seq(Nat) /\ window.next + 1 \in Nat \ {0}
          /\ window.held \in Seq(Requests)
      BY <1>2, <1>3
    <3> DEFINE H == Seq(Requests)  Q == Seq(Nat)  N == Nat \ {0}
               q == Append(window.ran, r.n)  n == window.next + 1
    <3>2. /\ window \in [ready : BOOLEAN, held : H, ran : Q, next : N]
          /\ q \in Q /\ n \in N /\ window' = [window EXCEPT !.ran = q, !.next = n]
      BY <1>2, <2>1, <3>1
    <3> HIDE DEF H, Q, N, q, n
    <3>3. /\ window' \in [ready : BOOLEAN, held : H, ran : Q, next : N]
          /\ window'.ready = window.ready /\ window'.held = window.held /\ window'.ran = q
          /\ window'.next = n
      BY <3>2
    <3> QED BY <3>3 DEF H, Q, N, q, n
  <2>8. RequestsOnce'
    <3>1. window.held = <<>>
      BY <1>8 DEF IInv, DialogOrSession
    <3>2. Numbers(window.held) = <<>>
      BY <3>1 DEF Numbers
    <3>3. window.ran \o <<>> = window.ran /\ Append(window.ran, r.n) \o <<>> = Append(window.ran, r.n)
      BY <1>2, <1>3
    <3>4. window'.next - 1 = window.next /\ r.n = window.next
      BY <1>2, <1>3, <2>7
    <3>5. window.ran = [i \in 1 .. window.next - 1 |-> i]
      BY <1>5, <3>2, <3>3
    <3>6. window'.ran \o Numbers(window'.held) = [i \in 1 .. window'.next - 1 |-> i]
      BY <1>6, <2>7, <3>2, <3>3, <3>4, <3>5
    <3>7. window'.ready => listed' # Nobody
      BY <1>1, <1>5, <2>7
    <3> QED BY <3>6, <3>7, OnceNumbersNext
  <2>9. (window'.ready <=> listed' # Nobody) /\ listed' \in {listed, p}
        /\ (window'.ready => window'.held = <<>>)
    BY <1>1, <2>7 DEF IInv, DialogOrSession
  <2>10. /\ wiped \subseteq wiped' /\ (p \notin wiped' => s.now.saved = s.meant)
         /\ (p \notin wiped' /\ window'.ready => Kept(s.now, s.meant))
         /\ UNCHANGED <<login, api, heard>>
    BY <1>1, <2>6 DEF Kept
  <2> QED BY <2>1, <2>2, <2>6, <2>7, <2>8, <2>9, <2>10, ShowKeeps
<1> QED BY <1>7, <1>8

(* Every handler, poll, answer and restart keeps the invariant.            *)
LEMMA StepIInv == IInv /\ [Next]_vars => IInv'
<1> SUFFICES ASSUME IInv, [Next]_vars PROVE IInv'
  OBVIOUS
<1>1. CASE UNCHANGED vars
  <2>1. UNCHANGED <<disks, login, session, history>>
    BY <1>1 DEF vars
  <2>2. Saving'
    BY <2>1, SavingKept DEF IInv, Saving, session
  <2>3. TypeOK'
    BY <2>1 DEF IInv, TypeOK, disks, login, session, history
  <2>4. DialogOrSession' /\ AttemptsNamed' /\ OpenHasOwner' /\ OwnNews'
    BY <2>1 DEF IInv, DialogOrSession, AttemptsNamed, OpenHasOwner, OwnNews, disks, login,
         session
  <2>5. RequestsOnce'
    BY <2>1, WindowKept DEF session
  <2> QED BY <2>2, <2>3, <2>4, <2>5 DEF IInv, Saving
<1>2. CASE Restart
  BY <1>2, StartKeeps, WindowAssumption
<1>3. CASE Connect \/ Dismiss \/ Verify \/ OtpClosed
  BY <1>3, DialogKeeps, WindowAssumption
<1>4. CASE Logout
  BY <1>4, LogoutKeeps, WindowAssumption
<1>5. ASSUME NEW c \in Clients, LoggedIn(c) \/ ConnectFailed(c) \/ VerifyFailed(c) PROVE IInv'
  BY <1>5, LoggedInKeeps, ConnectFailedKeeps, DialogKeeps, WindowAssumption
<1>6. CASE Tick("cameras") \/ Tick("news") \/ PollFailed
  BY <1>6, PollKeeps, WindowAssumption
<1>7. ASSUME NEW c \in Clients, CamerasListed(c) \/ NewsAnswered(c) PROVE IInv'
  BY <1>7, ListedKeeps, PollKeeps, WindowAssumption
<1>8. CASE PickCamera \/ Clear \/ SwitchLayout \/ Request
  BY <1>8, ChangesKeep, SwitchKeeps, RequestKeeps, WindowAssumption
<1> QED BY <1>1, <1>2, <1>3, <1>4, <1>5, <1>6, <1>7, <1>8 DEF Next

(* Through any number of logins, logouts, restarts, polls and requests:    *)
(* dialog and session exclude each other, the configuration and its file   *)
(* know the same profiles, arrangements are their profiles' own and as the *)
(* user left them, and what is shown and run is the session's.             *)
THEOREM WindowInductive == Spec => []IInv
<1>1. Init => IInv
  BY InitIInv, WindowAssumption
<1> QED BY <1>1, StepIInv, PTL DEF Spec

(* Whatever profiles, layouts and cameras there are, each layout of each   *)
(* profile is stored, on file and shown again as the user last left it,    *)
(* with cameras of its own NAS only; but for a profile whose layout was    *)
(* switched before its cameras were listed (the code saves empty slots     *)
(* then).                                                                  *)
THEOREM ArrangementsStay == Spec => []ArrangementsKept
<1>1. IInv => ArrangementsKept
  <2> SUFFICES ASSUME IInv PROVE LayoutsStayApart
    BY DEF IInv, ArrangementsKept
  <2> QED BY DEF LayoutsStayApart, IInv, OwnArrangements, Proper
<1> QED BY <1>1, WindowInductive, PTL

(* However logins, logouts and late answers mix, the news shown and the    *)
(* cameras listed are those of the NAS logged in to, every request is run  *)
(* once and in order, and no client is left open without an owner.         *)
THEOREM SessionsStayApart == Spec => []NothingCarriedOver
<1>1. IInv => NothingCarriedOver
  BY DEF IInv, NothingCarriedOver, OpenHasOwner, NoClientLeaks
<1> QED BY <1>1, WindowInductive, PTL

=============================================================================
