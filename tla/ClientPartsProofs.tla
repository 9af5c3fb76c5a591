------------------------- MODULE ClientPartsProofs -------------------------
(***************************************************************************)
(* What is proved of the client's parts, in the whole client: a step of    *)
(* the client is a step of the part it is about and leaves the others as   *)
(* they are.  Each part has an inductive invariant of its own: a camera's  *)
(* commands are in turn; a generation of the thumbnail cache belongs to    *)
(* one session, so that a fetch whose generation is still the current one  *)
(* was called in this session; the newest load of the Maps page is the     *)
(* selected row's; where the view stands still, what is wanted next, asked *)
(* for or else drawn spans it; a scan of the event types has all there was *)
(* between its two ends; an unpaused monitor that saw the stream move and  *)
(* was disturbed has a new frame; the chunks queued are the last recorded; *)
(* a lone download holds the .part name from its first write to its end;   *)
(* the windows an event search has left adjoin one another up to its last  *)
(* step, and between the position and the first of them there was nothing. *)
(***************************************************************************)
EXTENDS ClientParts, SequenceTheorems, WellFoundedInduction, TLAPS

(* A step of the client that is not about a part leaves it alone.         *)
LEMMA ThumbsStep == ASSUME [Next]_vars PROVE [Thumbs!Next]_thumbsVars
<1>1. CASE UNCHANGED vars
    BY <1>1 DEF vars
<1>2. ASSUME NEW p, p # "thumbs", Only(p) PROVE UNCHANGED thumbsVars
    BY <1>2 DEF Only
<1>. QED
    BY <1>1, <1>2 DEF Next

LEMMA PtzStep == ASSUME [Next]_vars PROVE [Ptz!Next]_ptzVars
<1>1. CASE UNCHANGED vars
    BY <1>1 DEF vars
<1>2. ASSUME NEW p, p # "ptz", Only(p) PROVE UNCHANGED ptzVars
    BY <1>2 DEF Only
<1>. QED
    BY <1>1, <1>2 DEF Next

LEMMA MapPageStep == ASSUME [Next]_vars PROVE [MapPage!Next]_mapsVars
<1>1. CASE UNCHANGED vars
    BY <1>1 DEF vars
<1>2. ASSUME NEW p, p # "maps", Only(p) PROVE UNCHANGED mapsVars
    BY <1>2 DEF Only
<1>. QED
    BY <1>1, <1>2 DEF Next

LEMMA DataStep == ASSUME [Next]_vars PROVE [Data!Next]_dataVars
<1>1. CASE UNCHANGED vars
    BY <1>1 DEF vars
<1>2. ASSUME NEW p, p # "data", Only(p) PROVE UNCHANGED dataVars
    BY <1>2 DEF Only
<1>. QED
    BY <1>1, <1>2 DEF Next

LEMMA LookupsStep == ASSUME [Next]_vars PROVE [Lookups!Next]_lookupsVars
<1>1. CASE UNCHANGED vars
    BY <1>1 DEF vars
<1>2. ASSUME NEW p, p # "lookups", Only(p) PROVE UNCHANGED lookupsVars
    BY <1>2 DEF Only
<1>. QED
    BY <1>1, <1>2 DEF Next

LEMMA HooksStep == ASSUME [Next]_vars PROVE [Hooks!Next]_hooksVars
<1>1. CASE UNCHANGED vars
    BY <1>1 DEF vars
<1>2. ASSUME NEW p, p # "hooks", Only(p) PROVE UNCHANGED hooksVars
    BY <1>2 DEF Only
<1>. QED
    BY <1>1, <1>2 DEF Next

LEMMA RtspStep == ASSUME [Next]_vars PROVE [Rtsp!Next]_rtspVars
<1>1. CASE UNCHANGED vars
    BY <1>1 DEF vars
<1>2. ASSUME NEW p, p # "rtsp", Only(p) PROVE UNCHANGED rtspVars
    BY <1>2 DEF Only
<1>. QED
    BY <1>1, <1>2 DEF Next

LEMMA TalkStep == ASSUME [Next]_vars PROVE [Talk!Next]_talkVars
<1>1. CASE UNCHANGED vars
    BY <1>1 DEF vars
<1>2. ASSUME NEW p, p # "talk", Only(p) PROVE UNCHANGED talkVars
    BY <1>2 DEF Only
<1>. QED
    BY <1>1, <1>2 DEF Next

LEMMA SavingStep == ASSUME [Next]_vars PROVE [Saving!Next]_savingVars
<1>1. CASE UNCHANGED vars
    BY <1>1 DEF vars
<1>2. ASSUME NEW p, p # "saving", Only(p) PROVE UNCHANGED savingVars
    BY <1>2 DEF Only
<1>. QED
    BY <1>1, <1>2 DEF Next

LEMMA PosStep == ASSUME [Next]_vars PROVE [Pos!Next]_posVars
<1>1. CASE UNCHANGED vars
    BY <1>1 DEF vars
<1>2. ASSUME NEW p, p # "pos", Only(p) PROVE UNCHANGED posVars
    BY <1>2 DEF Only
<1>. QED
    BY <1>1, <1>2 DEF Next

LEMMA SearchStep == ASSUME [Next]_vars PROVE [Search!Next]_searchVars
<1>1. CASE UNCHANGED vars
    BY <1>1 DEF vars
<1>2. ASSUME NEW p, p # "search", Only(p) PROVE UNCHANGED searchVars
    BY <1>2 DEF Only
<1>. QED
    BY <1>1, <1>2 DEF Next

-----------------------------------------------------------------------------
(* The thumbnails.                                                         *)

(* What a put leaves in the cache was there before or is the new image.    *)
LEMMA PutAddsOne ==
    ASSUME NEW e, Thumbs!Put(e)
    PROVE  cache' \subseteq cache \cup {e}
BY Zenon DEF Thumbs!Put

(* A fetch that moves on keeps its recording, its NAS and its generation.  *)
LEMMA MovedKeeps ==
    ASSUME NEW f \in fetches, fetches \subseteq Thumbs!Fetch,
           NEW next \in {"called", "waiting", "asking"}, Thumbs!Moved(f, next)
    PROVE  /\ fetches' \subseteq Thumbs!Fetch
           /\ \A g \in fetches' : \E h \in fetches : g.of = h.of /\ g.gen = h.gen
<1>1. [f EXCEPT !.at = next] \in Thumbs!Fetch
    BY DEF Thumbs!Fetch
<1>2. [f EXCEPT !.at = next].of = f.of /\ [f EXCEPT !.at = next].gen = f.gen
    BY DEF Thumbs!Fetch
<1>. QED
    BY <1>1, <1>2 DEF Thumbs!Moved

(* The first session starts with nothing cached and nothing under way.     *)
LEMMA InitGeneration == ASSUME Thumbs!LoginAssumption, Thumbs!Init PROVE Thumbs!GenerationIsNas
BY DEF Thumbs!LoginAssumption, Thumbs!Init, Thumbs!GenerationIsNas, Thumbs!TypeOK,
   Thumbs!ImagesOfThisNas

(* Every step keeps generations and sessions in step.                      *)
LEMMA StepGeneration ==
    ASSUME Thumbs!LoginAssumption, Thumbs!GenerationIsNas, [Thumbs!Next]_thumbsVars
    PROVE  Thumbs!GenerationIsNas'
<1>. USE DEF Thumbs!LoginAssumption, Thumbs!GenerationIsNas, Thumbs!TypeOK, Thumbs!ImagesOfThisNas
<1>1. CASE Thumbs!Call
    BY <1>1 DEF Thumbs!Call, Thumbs!Fetch
<1>2. CASE Thumbs!Begin
    BY <1>2, MovedKeeps DEF Thumbs!Begin
<1>3. CASE Thumbs!Ask
    BY <1>3, MovedKeeps DEF Thumbs!Ask, Thumbs!Asking
<1>4. CASE Thumbs!NoImage
    BY <1>4 DEF Thumbs!NoImage, Thumbs!Asking
<1>5. CASE Thumbs!Answered
  <2>1. PICK f \in Thumbs!Asking :
            /\ fetches' = fetches \ {f}
            /\ IF Thumbs!Kept(f) THEN Thumbs!Put([rec |-> f.rec, of |-> f.of])
                          ELSE UNCHANGED cache
    BY <1>5 DEF Thumbs!Answered
  <2>2. f \in fetches /\ f \in Thumbs!Fetch
    BY DEF Thumbs!Asking
  <2>3. CASE ~Thumbs!Kept(f)
    BY <1>5, <2>1, <2>3 DEF Thumbs!Answered
  <2>4. CASE Thumbs!Kept(f)
    <3>1. f.of = nas /\ f.rec \in Recs /\ f.of \in 1 .. MaxLogins
        BY <2>2, <2>4 DEF Thumbs!Kept, Thumbs!Fetch
    <3>2. cache' \subseteq cache \cup {[rec |-> f.rec, of |-> f.of]}
        BY <2>1, <2>4, PutAddsOne
    <3>3. cache' \subseteq Thumbs!Image /\ \A e \in cache' : e.of = nas
        BY <3>1, <3>2 DEF Thumbs!Image
    <3>. QED
        BY <1>5, <2>1, <3>3 DEF Thumbs!Answered
  <2>. QED
    BY <2>3, <2>4
<1>6. CASE Thumbs!Cancelled
    BY <1>6 DEF Thumbs!Cancelled
<1>7. CASE Thumbs!Logout
    BY <1>7 DEF Thumbs!Logout
<1>8. CASE Thumbs!Login
    BY <1>8 DEF Thumbs!Login, Thumbs!Image, Thumbs!Fetch
<1>9. CASE UNCHANGED thumbsVars
    BY <1>9 DEF thumbsVars
<1>. QED
    BY <1>1, <1>2, <1>3, <1>4, <1>5, <1>6, <1>7, <1>8, <1>9 DEF Thumbs!Next

(* In the client, no image of one NAS is kept for a recording of another:  *)
(* what a fetch of an earlier session brings is dropped                    *)
(* (clear_snapshot_cache, _fetch_recording_thumbnail).                     *)
THEOREM CacheIsOfThisNas == Spec => []ImagesOfThisNas
<1>1. Init => Thumbs!GenerationIsNas
    BY PartsAssumption, InitGeneration DEF Init
<1>2. Thumbs!GenerationIsNas /\ [Next]_vars => Thumbs!GenerationIsNas'
    BY PartsAssumption, StepGeneration, ThumbsStep
<1>3. Thumbs!GenerationIsNas => ImagesOfThisNas
    BY DEF ImagesOfThisNas, Thumbs!GenerationIsNas
<1>. QED
    BY <1>1, <1>2, <1>3, PTL DEF Spec
-----------------------------------------------------------------------------
(* PTZ commands.                                                           *)

(* Before the first click nothing is under way.                            *)
LEMMA InitInTurn == ASSUME Ptz!ClickAssumption, Ptz!Init PROVE Ptz!InTurn
<1>. DEFINE c0 == CHOOSE c \in Cams : TRUE
<1>1. c0 \in Cams
    BY DEF Ptz!ClickAssumption
<1>2. camera = [n \in Ptz!Commands |-> c0]
    BY DEF Ptz!Init
<1>. HIDE DEF c0
<1>3. camera \in [Ptz!Commands -> Cams]
    BY <1>1, <1>2
<1>4. \A n \in Ptz!Commands : command[n] = "none" /\ n > commands
    BY DEF Ptz!Init, Ptz!Commands
<1>5. Ptz!TypeOK
  <2>1. commands \in 0 .. MaxCommands
    BY DEF Ptz!Init, Ptz!ClickAssumption
  <2>2. /\ command \in [Ptz!Commands -> Ptz!Stages]
        /\ holder \in [Cams -> Ptz!Commands \cup {Ptz!Nobody}]
    BY DEF Ptz!Init, Ptz!Stages
  <2>. QED
    BY <1>3, <2>1, <2>2 DEF Ptz!TypeOK
<1>. QED
    BY <1>4, <1>5 DEF Ptz!InTurn, Ptz!UnderWay, Ptz!Commands, Ptz!TypeOK,
       Ptz!ClickAssumption

(* A click adds the last command, behind all others.                       *)
LEMMA ClickInTurn == ASSUME Ptz!ClickAssumption, Ptz!InTurn, Ptz!Click PROVE Ptz!InTurn'
<1>. USE DEF Ptz!ClickAssumption, Ptz!InTurn, Ptz!TypeOK, Ptz!Click, Ptz!To, Ptz!Stages,
        Ptz!Commands, Ptz!Nobody
<1>1. PICK c \in Cams : camera' = [camera EXCEPT ![commands'] = c]
    OBVIOUS
<1>2. commands' \in Ptz!Commands /\ command[commands'] = "none"
    OBVIOUS
<1>3. \A n \in Ptz!Commands : n # commands' => command'[n] = command[n] /\ camera'[n] = camera[n]
    BY <1>1
<1>4. command'[commands'] = "new" /\ commands' = commands + 1
    BY <1>2
<1>5. Ptz!TypeOK'
    BY <1>1, <1>2
<1>6. \A n \in Ptz!Commands : command'[n] = "none" <=> n > commands'
    BY <1>3, <1>4
<1>7. \A n \in Ptz!Commands : command'[n] \in Ptz!UnderWay => holder'[camera'[n]] = n
    BY <1>3, <1>4 DEF Ptz!UnderWay
<1>8. \A n, m \in Ptz!Commands : m < n /\ command'[m] = "new" => command'[n] \in {"new", "none"}
    BY <1>3, <1>4
<1>9. \A n, m \in Ptz!Commands :
          /\ m < n /\ camera'[m] = camera'[n] /\ n <= commands'
          /\ command'[n] \notin {"new", "waiting"}
          => command'[m] \in Ptz!Settled
    BY <1>3, <1>4
<1>. QED
    BY <1>5, <1>6, <1>7, <1>8, <1>9

(* A command's own steps change its stage and no other.                    *)
LEMMA OneMoves ==
    ASSUME Ptz!TypeOK, NEW n \in Ptz!Commands, NEW next \in Ptz!Stages, Ptz!To(n, next)
    PROVE  /\ command' \in [Ptz!Commands -> Ptz!Stages] /\ command'[n] = next
           /\ \A m \in Ptz!Commands : m # n => command'[m] = command[m]
BY DEF Ptz!TypeOK, Ptz!To

(* The next coroutine begins: those before it have, those behind have not. *)
LEMMA BeginInTurn == ASSUME Ptz!ClickAssumption, Ptz!InTurn, Ptz!Begin PROVE Ptz!InTurn'
<1>. USE DEF Ptz!InTurn
<1>1. PICK n \in Ptz!Commands :
          /\ command[n] = "new" /\ \A m \in Ptz!Commands : m < n => command[m] # "new"
          /\ Ptz!To(n, "waiting")
    BY DEF Ptz!Begin
<1>2. /\ command' \in [Ptz!Commands -> Ptz!Stages] /\ command'[n] = "waiting"
      /\ \A m \in Ptz!Commands : m # n => command'[m] = command[m]
    BY <1>1, OneMoves DEF Ptz!Stages
<1>3. UNCHANGED <<commands, camera, holder>>
    BY DEF Ptz!Begin
<1>4. Ptz!TypeOK'
    BY <1>2, <1>3 DEF Ptz!TypeOK
<1>. QED
    BY <1>1, <1>2, <1>3, <1>4 DEF Ptz!Commands, Ptz!UnderWay, Ptz!Settled,
       Ptz!ClickAssumption

(* The lock goes to the first of those waiting: all before it are settled. *)
LEMMA AcquireInTurn == ASSUME Ptz!ClickAssumption, Ptz!InTurn, Ptz!Acquire PROVE Ptz!InTurn'
<1>. USE DEF Ptz!InTurn
<1>1. PICK n \in Ptz!Commands :
          /\ command[n] = "waiting" /\ Ptz!MyTurn(n) /\ Ptz!To(n, "sending")
          /\ holder' = [holder EXCEPT ![camera[n]] = n]
    BY DEF Ptz!Acquire
<1>2. /\ command' \in [Ptz!Commands -> Ptz!Stages] /\ command'[n] = "sending"
      /\ \A m \in Ptz!Commands : m # n => command'[m] = command[m]
    BY <1>1, OneMoves DEF Ptz!Stages
<1>3. UNCHANGED <<commands, camera>> /\ camera[n] \in Cams
    BY DEF Ptz!Acquire, Ptz!TypeOK
<1>4. Ptz!TypeOK'
    BY <1>1, <1>2, <1>3 DEF Ptz!TypeOK
<1>5. \A m \in Ptz!Commands : camera[m] = camera[n] => command[m] \notin Ptz!UnderWay
    BY <1>1 DEF Ptz!MyTurn, Ptz!Commands, Ptz!Nobody
<1>6. \A m \in Ptz!Commands : m < n /\ camera[m] = camera[n] => command[m] \in Ptz!Settled
    <2>. SUFFICES ASSUME NEW m \in Ptz!Commands, m < n, camera[m] = camera[n]
                  PROVE  command[m] \in Ptz!Settled
        OBVIOUS
    <2>1. command[m] # "waiting" /\ command[m] \notin Ptz!UnderWay
        BY <1>1, <1>5 DEF Ptz!MyTurn
    <2>2. command[m] # "new"
        BY <1>1
    <2>3. command[m] # "none"
        BY <1>1 DEF Ptz!Commands, Ptz!TypeOK, Ptz!ClickAssumption
    <2>. QED
        BY <2>1, <2>2, <2>3 DEF Ptz!TypeOK, Ptz!Stages, Ptz!UnderWay, Ptz!Settled
<1>7. \A m \in Ptz!Commands : command'[m] = "none" <=> m > commands'
    BY <1>1, <1>2, <1>3
<1>8. \A m \in Ptz!Commands : command'[m] \in Ptz!UnderWay => holder'[camera'[m]] = m
    BY <1>1, <1>2, <1>3, <1>5 DEF Ptz!TypeOK
<1>9. \A k, m \in Ptz!Commands : m < k /\ command'[m] = "new" => command'[k] \in {"new", "none"}
    BY <1>1, <1>2
<1>10. \A k, m \in Ptz!Commands :
          /\ m < k /\ camera'[m] = camera'[k] /\ k <= commands'
          /\ command'[k] \notin {"new", "waiting"}
          => command'[m] \in Ptz!Settled
    BY <1>1, <1>2, <1>3, <1>6 DEF Ptz!Commands, Ptz!Settled
<1>. QED
    BY <1>4, <1>7, <1>8, <1>9, <1>10

(* A command goes on under its lock.                                       *)
LEMMA SentInTurn == ASSUME Ptz!ClickAssumption, Ptz!InTurn, Ptz!Sent PROVE Ptz!InTurn'
<1>. USE DEF Ptz!InTurn
<1>1. PICK n \in Ptz!Commands, next \in {"arrived", "login"} :
          command[n] \in {"sending", "login"} /\ Ptz!To(n, next)
    BY DEF Ptz!Sent
<1>2. /\ command' \in [Ptz!Commands -> Ptz!Stages] /\ command'[n] = next
      /\ \A m \in Ptz!Commands : m # n => command'[m] = command[m]
    BY <1>1, OneMoves DEF Ptz!Stages
<1>3. UNCHANGED <<commands, camera, holder>>
    BY DEF Ptz!Sent
<1>4. Ptz!TypeOK'
    BY <1>2, <1>3 DEF Ptz!TypeOK
<1>. QED
    BY <1>1, <1>2, <1>3, <1>4 DEF Ptz!Commands, Ptz!UnderWay, Ptz!Settled

(* A command is over and lets go of its lock, which was its own.           *)
LEMMA OverInTurn == ASSUME Ptz!ClickAssumption, Ptz!InTurn, Ptz!Over PROVE Ptz!InTurn'
<1>. USE DEF Ptz!InTurn
<1>1. PICK n \in Ptz!Commands, next \in Ptz!Settled :
          command[n] \in Ptz!UnderWay /\ Ptz!To(n, next) /\ Ptz!Release(n)
    BY DEF Ptz!Over, Ptz!UnderWay, Ptz!Settled
<1>2. /\ command' \in [Ptz!Commands -> Ptz!Stages] /\ command'[n] = next
      /\ \A m \in Ptz!Commands : m # n => command'[m] = command[m]
    BY <1>1, OneMoves DEF Ptz!Stages, Ptz!Settled
<1>3. UNCHANGED <<commands, camera>> /\ camera[n] \in Cams
    BY DEF Ptz!Over, Ptz!TypeOK
<1>4. holder' = [holder EXCEPT ![camera[n]] = Ptz!Nobody] /\ holder[camera[n]] = n
    BY <1>1 DEF Ptz!Release
<1>5. Ptz!TypeOK'
    BY <1>2, <1>3, <1>4 DEF Ptz!TypeOK
<1>6. \A m \in Ptz!Commands : m # n /\ command[m] \in Ptz!UnderWay => camera[m] # camera[n]
    BY <1>4
<1>7. \A m \in Ptz!Commands : command'[m] \in Ptz!UnderWay => holder'[camera'[m]] = m
    BY <1>2, <1>3, <1>4, <1>6 DEF Ptz!TypeOK, Ptz!UnderWay, Ptz!Settled
<1>. QED
    BY <1>1, <1>2, <1>3, <1>5, <1>7 DEF Ptz!Commands, Ptz!UnderWay, Ptz!Settled

LEMMA StepInTurn == ASSUME Ptz!ClickAssumption, Ptz!InTurn, [Ptz!Next]_ptzVars PROVE Ptz!InTurn'
<1>1. CASE UNCHANGED ptzVars
    BY <1>1 DEF ptzVars, Ptz!InTurn, Ptz!TypeOK
<1>. QED
    BY <1>1, ClickInTurn, BeginInTurn, AcquireInTurn, SentInTurn, OverInTurn
       DEF Ptz!Next

(* In the client, the last PTZ command clicked for a camera is the last of *)
(* that camera's to reach the NAS, even when one of them has to log in     *)
(* again on its way (_ptz_in_order).                                       *)
THEOREM CommandsInTurn == Spec => []LastClickLast
<1>1. Init => Ptz!InTurn
    BY PartsAssumption, InitInTurn DEF Init
<1>2. Ptz!InTurn /\ [Next]_vars => Ptz!InTurn'
    BY PartsAssumption, StepInTurn, PtzStep
<1>3. Ptz!InTurn => LastClickLast
    BY PartsAssumption DEF LastClickLast, Ptz!InTurn, Ptz!LastClickLast, Ptz!TypeOK,
       Ptz!Commands, Ptz!Stages, Ptz!Settled, Ptz!ClickAssumption
<1>. QED
    BY <1>1, <1>2, <1>3, PTL DEF Spec
-----------------------------------------------------------------------------
(* The Maps page.                                                          *)

MapLoad == [map : Maps, req : Nat, ver : Nat, at : {"called", "asking", "read", "done"}]

(* What the argument needs of the types.                                   *)
MapTyped ==
    /\ request \in Nat /\ rows \subseteq Maps /\ loads \subseteq MapLoad
    /\ maps \in [Maps -> Nat] /\ versions \in [Maps -> Nat]

MapInv == MapTyped /\ MapPage!NewestIsSelected

(* The same load, further on.                                              *)
MapGoes(l, next) == next \in MapLoad /\ next.map = l.map /\ next.req = l.req

(* The page of a new session shows a message and loads nothing.            *)
LEMMA InitPage == MapPage!Init => MapInv
BY DEF MapPage!Init, MapInv, MapTyped, MapPage!NewestIsSelected,
   MapPage!MapIsSelected, MapPage!Message

(* A load that goes on stays the load of its map and request.              *)
LEMMA GoesOn ==
    ASSUME MapInv, NEW l \in loads, NEW next, MapGoes(l, next), MapPage!To(l, next),
           UNCHANGED <<rows, selected, display, request>>
    PROVE  MapPage!NewestIsSelected' /\ loads' \subseteq MapLoad
BY DEF MapGoes, MapInv, MapTyped, MapPage!NewestIsSelected, MapPage!MapIsSelected,
   MapPage!Newest, MapPage!To, MapLoad

(* A selection: its load is newer than all others.                         *)
LEMMA NewestLoad ==
    ASSUME MapInv, NEW m \in Maps, MapPage!LoadMap(m), selected' = m
    PROVE  MapPage!NewestIsSelected' /\ request' \in Nat /\ loads' \subseteq MapLoad
<1>. DEFINE new == [map |-> m, req |-> request', at |-> "called", ver |-> 0]
<1>1. request' = request + 1 /\ loads' = loads \cup {new} /\ display'.map = MapPage!None
    BY DEF MapPage!LoadMap, MapPage!Message
<1>2. new \in MapLoad /\ new.map = m /\ new.req = request'
    BY <1>1 DEF MapInv, MapTyped, MapLoad
<1>. HIDE DEF new
<1>3. \A l \in loads : l.req \in Nat /\ l.req <= request
    BY DEF MapInv, MapTyped, MapPage!NewestIsSelected, MapLoad
<1>4. \A l \in loads' : l.req <= request' /\ (l.req = request' => l.map = selected')
    BY <1>1, <1>2, <1>3 DEF MapInv, MapTyped
<1>5. MapPage!MapIsSelected'
    BY <1>1 DEF MapPage!MapIsSelected
<1>. QED
    BY <1>1, <1>2, <1>4, <1>5 DEF MapInv, MapTyped, MapPage!NewestIsSelected,
       MapPage!Newest

(* A load ends and the page keeps what it shows, or shows a message.       *)
LEMMA EndsQuietly ==
    ASSUME MapInv, loads' \subseteq loads, display' \in {display, MapPage!Message},
           UNCHANGED <<rows, selected, request>>
    PROVE  MapPage!NewestIsSelected'
BY DEF MapInv, MapTyped, MapPage!NewestIsSelected, MapPage!MapIsSelected,
   MapPage!Newest, MapPage!Message

(* Every step of the page, the service and the NAS.                        *)
LEMMA StepPage == ASSUME MapInv, [MapPage!Next]_mapsVars PROVE MapInv'
<1>. USE DEF MapInv
<1>1. CASE MapPage!Mapped
    BY <1>1, EndsQuietly DEF MapPage!Mapped, MapTyped
<1>2. CASE MapPage!Refresh
    BY <1>2, EndsQuietly DEF MapPage!Refresh, MapTyped
<1>3. CASE MapPage!SelectRow
  <2>1. PICK m \in rows : selected' = m /\ MapPage!LoadMap(m)
    BY <1>3 DEF MapPage!SelectRow
  <2>2. m \in Maps
    BY <2>1 DEF MapTyped
  <2>3. MapPage!NewestIsSelected' /\ request' \in Nat /\ loads' \subseteq MapLoad
    BY <2>1, <2>2, NewestLoad
  <2>. QED
    BY <1>3, <2>3 DEF MapPage!SelectRow, MapTyped
<1>4. CASE MapPage!ListLoaded
  <2>1. rows' \subseteq Maps /\ UNCHANGED <<maps, versions>>
    BY <1>4 DEF MapPage!ListLoaded
  <2>2. CASE rows' = {}
    <3>1. display' = MapPage!Message /\ UNCHANGED <<request, loads>>
      BY <1>4, <2>2 DEF MapPage!ListLoaded
    <3>2. MapPage!NewestIsSelected'
      BY <2>2, <3>1 DEF MapPage!NewestIsSelected, MapPage!MapIsSelected,
         MapPage!Newest
    <3>. QED
      BY <2>1, <3>1, <3>2 DEF MapTyped
  <2>3. CASE rows' # {}
    <3>1. PICK m \in rows' : selected' = m /\ MapPage!LoadMap(m)
      BY <1>4, <2>3 DEF MapPage!ListLoaded
    <3>2. MapPage!NewestIsSelected' /\ request' \in Nat /\ loads' \subseteq MapLoad
      BY <2>1, <3>1, NewestLoad
    <3>. QED
      BY <2>1, <3>2 DEF MapTyped
  <2>. QED
    BY <2>2, <2>3
<1>5. CASE MapPage!ListFailed
    BY <1>5, EndsQuietly DEF MapPage!ListFailed, MapPage!LoadError, MapTyped
<1>6. CASE MapPage!LookUp
  <2>1. PICK l \in loads :
            MapPage!To(l, IF maps[l.map] # 0
                  THEN [l EXCEPT !.at = "done", !.ver = maps[l.map]]
                  ELSE [l EXCEPT !.at = "asking"])
    BY <1>6 DEF MapPage!LookUp
  <2>2. l \in MapLoad /\ maps[l.map] \in Nat
    BY DEF MapTyped, MapLoad
  <2>3. /\ \A v \in Nat : MapGoes(l, [l EXCEPT !.at = "done", !.ver = v])
        /\ MapGoes(l, [l EXCEPT !.at = "asking"])
    BY <2>2 DEF MapLoad, MapGoes
  <2>4. PICK next : MapGoes(l, next) /\ MapPage!To(l, next)
    BY <2>1, <2>2, <2>3, Zenon
  <2>. QED
    BY <1>6, <2>4, GoesOn DEF MapPage!LookUp, MapPage!page, MapTyped
<1>7. CASE MapPage!Read
  <2>1. CASE UNCHANGED loads
    BY <1>7, <2>1, EndsQuietly DEF MapPage!Read, MapPage!page, MapTyped
  <2>2. ASSUME NEW l \in loads, MapPage!To(l, [l EXCEPT !.at = "read", !.ver = versions[l.map]])
        PROVE  MapInv'
    <3>1. l \in MapLoad /\ versions[l.map] \in Nat
      BY DEF MapTyped, MapLoad
    <3>2. MapGoes(l, [l EXCEPT !.at = "read", !.ver = versions[l.map]])
      BY <3>1 DEF MapLoad, MapGoes
    <3>3. PICK next : MapGoes(l, next) /\ MapPage!To(l, next)
      BY <2>2, <3>2
    <3>4. UNCHANGED <<MapPage!page, request, maps, versions>>
      BY <1>7 DEF MapPage!Read
    <3>. QED
      BY <3>3, <3>4, GoesOn DEF MapPage!page, MapTyped
  <2>. QED
    BY <1>7, <2>1, <2>2 DEF MapPage!Read
<1>8. CASE MapPage!Cache
  <2>1. PICK l \in loads :
            /\ MapPage!To(l, [l EXCEPT !.at = "done"])
            /\ maps' = IF l.ver = 0 THEN maps ELSE [maps EXCEPT ![l.map] = l.ver]
    BY <1>8 DEF MapPage!Cache
  <2>2. l \in MapLoad
    BY DEF MapTyped
  <2>3. PICK next : MapGoes(l, next) /\ MapPage!To(l, next)
    BY <2>1, <2>2 DEF MapLoad, MapGoes
  <2>4. maps' \in [Maps -> Nat]
    BY <2>1, <2>2 DEF MapTyped, MapLoad
  <2>. QED
    BY <1>8, <2>3, <2>4, GoesOn DEF MapPage!Cache, MapPage!page, MapTyped
<1>9. CASE MapPage!Loaded
  <2>1. PICK l \in loads :
            /\ loads' = loads \ {l}
            /\ display' = CASE ~MapPage!Newest(l) -> display
                          [] l.ver = 0 -> MapPage!Message
                          [] OTHER -> [map |-> l.map, ver |-> l.ver]
    BY <1>9 DEF MapPage!Loaded
  <2>2. CASE ~MapPage!Newest(l) \/ l.ver = 0
    BY <1>9, <2>1, <2>2, EndsQuietly DEF MapPage!Loaded, MapTyped
  <2>3. CASE MapPage!Newest(l) /\ l.ver # 0
    <3>1. display'.map = l.map /\ (rows = {} \/ l.map = selected)
      BY <2>1, <2>3 DEF MapPage!NewestIsSelected
    <3>. QED
      BY <1>9, <2>1, <3>1 DEF MapPage!Loaded, MapTyped, MapPage!NewestIsSelected,
         MapPage!MapIsSelected, MapPage!Newest
  <2>. QED
    BY <2>2, <2>3
<1>10. CASE MapPage!MapFailed
    BY <1>10, EndsQuietly DEF MapPage!MapFailed, MapPage!LoadError, MapTyped
<1>11. CASE MapPage!Edit
  <2>1. versions' \in [Maps -> Nat]
    BY <1>11 DEF MapPage!Edit, MapTyped
  <2>. QED
    BY <1>11, <2>1, EndsQuietly DEF MapPage!Edit, MapPage!page, MapTyped
<1>12. CASE UNCHANGED mapsVars
    BY <1>12, EndsQuietly DEF mapsVars, MapTyped
<1>. QED
    BY <1>1, <1>2, <1>3, <1>4, <1>5, <1>6, <1>7, <1>8, <1>9, <1>10, <1>11, <1>12
       DEF MapPage!Next

(* In the client, the newest load is for the selected row, and only it may *)
(* show its map, in whatever order the maps arrive (_load_map,             *)
(* _on_list_loaded).                                                       *)
THEOREM SelectedMapShown == Spec => []MapPage!MapIsSelected
<1>1. Init => MapInv
    BY InitPage DEF Init
<1>2. MapInv /\ [Next]_vars => MapInv'
    BY StepPage, MapPageStep
<1>3. MapInv => MapPage!MapIsSelected
    BY DEF MapInv, MapPage!NewestIsSelected
<1>. QED
    BY <1>1, <1>2, <1>3, PTL DEF Spec
-----------------------------------------------------------------------------
(* The part of a recording that is asked for, in whole times.              *)

(* A range is refused when the two stretches have nothing in common, and   *)
(* only then (download_recording_range's ValueErrors).                     *)
THEOREM RefusedIsDisjoint ==
    ASSUME NEW s \in Int, NEW e \in Int, NEW r0 \in Int, NEW r1 \in Int
    PROVE  Saving!Refused(s, e, r0, r1) <=> Saving!Sooner(e, r1) <= Saving!Later(s, r0)
BY DEF Saving!Refused, Saving!Later, Saving!Sooner, Saving!Offset

(* Otherwise the part asked for lies in the recording, is not empty, begins*)
(* where the later of the two stretches begins and ends where the sooner   *)
(* ends (download_recording_range).                                        *)
THEOREM RangeIsIntersection ==
    ASSUME NEW s \in Int, NEW e \in Int, NEW r0 \in Int, NEW r1 \in Int,
           ~Saving!Refused(s, e, r0, r1)
    PROVE  /\ Saving!Offset(s, r0) >= 0 /\ Saving!Length(s, e, r0, r1) > 0
           /\ r0 + Saving!Offset(s, r0) = Saving!Later(s, r0)
           /\ r0 + Saving!Offset(s, r0) + Saving!Length(s, e, r0, r1) = Saving!Sooner(e, r1)
BY DEF Saving!Refused, Saving!Later, Saving!Sooner, Saving!Offset, Saving!Length
-----------------------------------------------------------------------------
(* What the timeline draws.                                                *)

DataEntry == [lo : Int, hi : Int, asOf : Int]
DataStretch == [lo : Int, hi : Int, force : BOOLEAN]
DataCall == [cams : SUBSET Cams, lo : Int, hi : Int, at : Int, served : Int,
             focus : Cams \cup {Data!None}, active : SUBSET Cams]

DataTyped ==
    /\ now \in Int /\ end \in Int /\ window \in Nat \ {0}
    /\ focus \in Cams \cup {Data!None} /\ active \subseteq Cams
    /\ debounce \in DataStretch /\ pending \in DataStretch /\ call \in DataCall
    /\ presence \in [Cams -> DataEntry] /\ eventsTo \in [Cams -> Int]

Spans(s, lo, hi) == s.lo <= lo /\ s.hi >= hi

(* The debounce waits to ask for the view, where that stands still.        *)
DebounceFits ==
    debounce # Data!NoView =>
        debounce.lo < debounce.hi /\ (~following => Spans(debounce, end - window, end))

(* Something is wanted only behind a fetch; a fetch is for the layout on   *)
(* screen unless something is wanted behind it; its answer is not older    *)
(* than its question.                                                      *)
DataAsked ==
    /\ pending # Data!NoView => inFlight /\ pending.lo < pending.hi
    /\ inFlight => call.at <= now /\ (call.served >= 0 => call.at <= call.served)
    /\ inFlight /\ pending = Data!NoView => call.focus = focus /\ call.active = active
    /\ ~inFlight /\ ~lost => drawn.focus = focus /\ drawn.active = active

(* Where the view stands still and the debounce has gone off, what is      *)
(* wanted next, asked for or else drawn spans it.                          *)
DataSpans ==
    ~following /\ debounce = Data!NoView =>
        /\ inFlight /\ pending # Data!NoView => Spans(pending, end - window, end)
        /\ inFlight /\ pending = Data!NoView /\ focus # Data!None =>
              Spans(IF focus \in call.cams THEN call ELSE presence[focus], end - window, end)
        /\ ~inFlight /\ ~lost /\ focus # Data!None => Spans(drawn.span, end - window, end)
DataShown == DataTyped /\ DebounceFits /\ DataAsked /\ DataSpans /\ Data!EventsCovered

LEMMA InitData == Data!Init => DataShown
<1>. SUFFICES ASSUME Data!Init PROVE DataShown
    OBVIOUS
<1>1. now \in Int /\ window \in Nat \ {0} /\ end \in Int
    BY PartsAssumption DEF Data!Init, Data!WindowAssumption, Data!TimeAssumption
<1>2. Data!NoView \in DataStretch /\ Data!NoCall \in DataCall /\ Data!NoEntry \in DataEntry
    BY DEF Data!NoView, Data!NoCall, Data!NoEntry, DataStretch, DataCall, DataEntry,
       Data!Never
<1>3. DataTyped
    BY <1>1, <1>2 DEF Data!Init, DataTyped
<1>4. ~inFlight /\ following
    BY Zenon DEF Data!Init
<1>5. drawn.focus = focus /\ drawn.active = active
    BY DEF Data!Init, Data!Drawing
<1>6. Data!EventsCovered
    BY DEF Data!Init, Data!EventsCovered, Data!NoEntry, Data!Never
<1>. QED
    BY <1>3, <1>4, <1>5, <1>6 DEF Data!Init, DataShown, DebounceFits, DataAsked,
       DataSpans

(* The three ends of a refresh of stretch q: it waits behind the fetch     *)
(* that is out, draws what it has, or asks.                                *)
Waits(q, d) == pending' = q /\ drawn' = d /\ UNCHANGED <<inFlight, call>>
Draws(q, f, a, p) ==
    /\ pending' = Data!NoView /\ ~inFlight' /\ call' = Data!NoCall
    /\ drawn' = Data!Drawing(f, a, p)
    /\ f # Data!None => Spans(p[f], q.lo, q.hi)
Asks(q, f, a, p) ==
    /\ pending' = Data!NoView /\ inFlight' /\ call' \in DataCall
    /\ call'.focus = f /\ call'.active = a /\ call'.at = now' /\ call'.served = Data!Never
    /\ Spans(call', q.lo, q.hi)
    /\ f # Data!None /\ f \notin call'.cams => Spans(p[f], q.lo, q.hi)

LEMMA RefreshEnds ==
    ASSUME NEW q \in DataStretch, q.lo < q.hi, NEW busy, NEW f \in Cams \cup {Data!None},
           NEW a \in SUBSET Cams, NEW p, NEW d, now' \in Int,
           Data!RefreshData(q, busy, f, a, p, d)
    PROVE  \/ busy /\ Waits(q, d)
           \/ ~busy /\ Draws(q, f, a, p)
           \/ ~busy /\ Asks(q, f, a, p)
<1>. DEFINE all == a \cup (IF f = Data!None THEN {} ELSE {f})
            needed == {c \in all : q.force \/ ~Data!Covers(p, c, q)}
            pad == q.hi - q.lo
            new == [cams |-> needed, lo |-> q.lo - pad, hi |-> q.hi + pad,
                    at |-> now', served |-> Data!Never, focus |-> f, active |-> a]
<1>1. \/ busy /\ pending' = q /\ drawn' = d /\ UNCHANGED <<inFlight, call>>
      \/ /\ ~busy /\ needed = {}
         /\ pending' = Data!NoView /\ inFlight' = FALSE /\ call' = Data!NoCall
         /\ drawn' = Data!Drawing(f, a, p)
      \/ /\ ~busy /\ pending' = Data!NoView /\ inFlight' = TRUE /\ call' = new
    BY Zenon DEF Data!RefreshData
<1>2. ASSUME f # Data!None, f \notin needed PROVE Spans(p[f], q.lo, q.hi)
    BY <1>2 DEF Data!Covers, Spans
<1>3. new \in DataCall /\ new.lo <= q.lo /\ new.hi >= q.hi /\ new.cams = needed
      /\ new.focus = f /\ new.active = a /\ new.at = now' /\ new.served = Data!Never
  <2>1. q.lo \in Int /\ q.hi \in Int /\ pad \in Int /\ pad > 0
      BY DEF DataStretch
  <2>2. needed \subseteq Cams /\ all \subseteq Cams
      OBVIOUS
  <2>. HIDE DEF needed, pad
  <2>3. q.lo - pad \in Int /\ q.hi + pad \in Int /\ q.lo - pad <= q.lo /\ q.hi + pad >= q.hi
      BY <2>1
  <2>. QED
      BY <2>2, <2>3 DEF DataCall, Data!Never
<1>. HIDE DEF needed, new
<1>4. CASE busy /\ pending' = q /\ drawn' = d /\ UNCHANGED <<inFlight, call>>
    BY <1>4 DEF Waits
<1>5. CASE /\ ~busy /\ needed = {}
           /\ pending' = Data!NoView /\ inFlight' = FALSE /\ call' = Data!NoCall
           /\ drawn' = Data!Drawing(f, a, p)
  <2>1. f # Data!None => Spans(p[f], q.lo, q.hi)
      BY <1>2, <1>5
  <2>. QED
      BY <1>5, <2>1, Zenon DEF Draws
<1>6. CASE ~busy /\ pending' = Data!NoView /\ inFlight' = TRUE /\ call' = new
  <2>1. Spans(call', q.lo, q.hi)
      BY <1>3, <1>6 DEF Spans
  <2>2. f # Data!None /\ f \notin call'.cams => Spans(p[f], q.lo, q.hi)
      BY <1>2, <1>3, <1>6
  <2>3. inFlight' /\ call' \in DataCall /\ call'.focus = f /\ call'.active = a /\ call'.at = now'
        /\ call'.served = Data!Never
      BY <1>3, <1>6, Zenon
  <2>. QED
      BY <1>6, <2>1, <2>2, <2>3, Zenon DEF Asks
<1>. QED
    BY <1>1, <1>4, <1>5, <1>6

(* Whichever it is, the stretch asked for last spans the view.             *)
LEMMA RefreshFits ==
    ASSUME NEW q \in DataStretch, q.lo < q.hi, NEW d, NEW busy,
           busy => inFlight /\ DataAsked, now \in Int, now' \in Int, now <= now',
           call \in DataCall, end' \in Int, window' \in Nat,
           ~following' /\ debounce' = Data!NoView => Spans(q, end' - window', end'),
           presence' \in [Cams -> DataEntry], focus' \in Cams \cup {Data!None},
           \/ busy /\ Waits(q, d)
           \/ ~busy /\ Draws(q, focus', active', presence')
           \/ ~busy /\ Asks(q, focus', active', presence')
    PROVE  DataAsked' /\ DataSpans' /\ pending' \in DataStretch /\ call' \in DataCall
<1>1. q.lo \in Int /\ q.hi \in Int /\ q # Data!NoView
    BY DEF DataStretch, Data!NoView
<1>2. Data!NoView \in DataStretch /\ Data!NoCall \in DataCall
    BY DEF Data!NoView, Data!NoCall, DataStretch, DataCall, Data!Never
<1>3. CASE busy /\ Waits(q, d)
  <2>1. call.at \in Int /\ call' = call /\ pending' = q /\ inFlight' /\ call.at <= now
        /\ (call.served >= 0 => call.at <= call.served)
      BY <1>3 DEF Waits, DataCall, DataAsked
  <2>2. call'.at <= now'
      BY <2>1
  <2>3. DataAsked'
      BY <1>1, <2>1, <2>2 DEF DataAsked
  <2>4. DataSpans'
      BY <1>1, <2>1 DEF DataSpans
  <2>. QED
      BY <2>1, <2>3, <2>4
<1>4. CASE ~busy /\ Draws(q, focus', active', presence')
  <2>1. /\ drawn'.focus = focus' /\ drawn'.active = active'
        /\ focus' # Data!None => drawn'.span = presence'[focus'] /\ Spans(drawn'.span, q.lo, q.hi)
      BY <1>4 DEF Draws, Data!Drawing
  <2>2. pending' = Data!NoView /\ ~inFlight' /\ call' = Data!NoCall
      BY <1>4 DEF Draws
  <2>3. DataAsked'
      BY <2>1, <2>2 DEF DataAsked
  <2>4. ASSUME focus' # Data!None, ~following', debounce' = Data!NoView
        PROVE  Spans(drawn'.span, end' - window', end')
    <3>1. drawn'.span.lo \in Int /\ drawn'.span.hi \in Int
        BY <2>1, <2>4 DEF DataEntry
    <3>. QED
        BY <1>1, <2>1, <2>4, <3>1 DEF Spans
  <2>5. DataSpans'
      BY <2>2, <2>4 DEF DataSpans
  <2>. QED
      BY <1>2, <2>2, <2>3, <2>5
<1>5. CASE ~busy /\ Asks(q, focus', active', presence')
  <2>1. /\ pending' = Data!NoView /\ inFlight' /\ call' \in DataCall
        /\ call'.focus = focus' /\ call'.active = active' /\ call'.at = now' /\ call'.served = -1
      BY <1>5 DEF Asks, Data!Never
  <2>2. DataAsked'
      BY <2>1 DEF DataAsked
  <2>3. ASSUME focus' # Data!None, ~following', debounce' = Data!NoView
        PROVE  Spans(IF focus' \in call'.cams THEN call' ELSE presence'[focus'],
                     end' - window', end')
    <3>1. CASE focus' \in call'.cams
      <4>1. call'.lo \in Int /\ call'.hi \in Int /\ Spans(call', q.lo, q.hi)
          BY <1>5, <2>1 DEF Asks, DataCall
      <4>. QED
          BY <1>1, <2>3, <3>1, <4>1 DEF Spans
    <3>2. CASE focus' \notin call'.cams
      <4>1. /\ presence'[focus'].lo \in Int /\ presence'[focus'].hi \in Int
            /\ Spans(presence'[focus'], q.lo, q.hi)
          BY <1>5, <2>3, <3>2 DEF Asks, DataEntry
      <4>. QED
          BY <1>1, <2>3, <3>2, <4>1 DEF Spans
    <3>. QED
        BY <3>1, <3>2
  <2>4. DataSpans'
      BY <2>1, <2>3 DEF DataSpans
  <2>. QED
      BY <1>2, <2>1, <2>2, <2>4
<1>. QED
    BY <1>3, <1>4, <1>5

(* The canvas moves the view, or time does.                                *)
LEMMA ViewMoves ==
    ASSUME DataShown, NEW e \in Int, NEW w \in Nat \ {0}, NEW follow, follow <=> following',
           now' \in Int, now <= now', end' = e, window' = w, Data!ViewChanged(e, w, follow),
           UNCHANGED <<focus, active, presence, eventsTo, lost>>
    PROVE  DataShown'
<1>1. /\ now \in Int /\ call \in DataCall /\ presence' \in [Cams -> DataEntry]
      /\ eventsTo' \in [Cams -> Int]
      /\ focus' \in Cams \cup {Data!None} /\ active' \subseteq Cams
      /\ debounce \in DataStretch /\ pending \in DataStretch
      /\ end' \in Int /\ window' \in Nat \ {0}
    BY DEF DataShown, DataTyped
<1>2. Data!EventsCovered'
    BY DEF DataShown, Data!EventsCovered
<1>3. ASSUME UNCHANGED <<inFlight, pending, call, drawn>> PROVE DataAsked'
  <2>1. call.at \in Int
      BY <1>1 DEF DataCall
  <2>2. inFlight => call.at <= now'
      BY <1>1, <2>1 DEF DataShown, DataAsked
  <2>. QED
      BY <1>3, <2>2 DEF DataShown, DataAsked
<1>4. CASE follow
  <2>1. debounce' = debounce /\ following'
      BY <1>4 DEF Data!ViewChanged
  <2>2. DebounceFits'
      BY <2>1 DEF DataShown, DebounceFits
  <2>3. CASE UNCHANGED <<Data!asking, drawn, lastLive>>
    <3>1. UNCHANGED <<inFlight, pending, call, drawn>>
        BY <2>3 DEF Data!asking
    <3>2. DataAsked' /\ DataSpans'
        BY <1>3, <2>1, <3>1 DEF DataSpans
    <3>. QED
        BY <1>1, <1>2, <2>1, <2>2, <3>1, <3>2 DEF DataShown, DataTyped
  <2>4. CASE Data!RefreshData([lo |-> e - w, hi |-> e, force |-> TRUE], inFlight,
                             focus, active, presence, drawn)
    <3>. DEFINE q == [lo |-> e - w, hi |-> e, force |-> TRUE]
    <3>1. q \in DataStretch /\ q.lo < q.hi
        BY DEF DataStretch
    <3>. HIDE DEF q
    <3>2. Data!RefreshData(q, inFlight, focus, active, presence, drawn)
        BY <2>4 DEF q
    <3>3. \/ inFlight /\ Waits(q, drawn)
          \/ ~inFlight /\ Draws(q, focus, active, presence)
          \/ ~inFlight /\ Asks(q, focus, active, presence)
        BY <1>1, <3>1, <3>2, RefreshEnds
    <3>4. \/ inFlight /\ Waits(q, drawn)
          \/ ~inFlight /\ Draws(q, focus', active', presence')
          \/ ~inFlight /\ Asks(q, focus', active', presence')
        BY <3>3
    <3>5. inFlight => inFlight /\ DataAsked
        BY DEF DataShown
    <3>6. DataAsked' /\ DataSpans' /\ pending' \in DataStretch /\ call' \in DataCall
        BY <1>1, <2>1, <3>1, <3>4, <3>5, RefreshFits
    <3>. QED
        BY <1>1, <1>2, <2>1, <2>2, <3>6 DEF DataShown, DataTyped
  <2>. QED
      BY <1>4, <2>3, <2>4 DEF Data!ViewChanged
<1>5. CASE ~follow
  <2>1. /\ debounce' = [lo |-> e - w, hi |-> e, force |-> FALSE]
        /\ UNCHANGED <<Data!asking, drawn, lastLive>> /\ ~following'
      BY <1>5 DEF Data!ViewChanged
  <2>2. /\ debounce' \in DataStretch /\ debounce' # Data!NoView
        /\ debounce'.lo < debounce'.hi /\ Spans(debounce', end' - window', end')
      BY <2>1 DEF DataStretch, Spans, Data!NoView
  <2>3. UNCHANGED <<inFlight, pending, call, drawn>>
      BY <2>1 DEF Data!asking
  <2>4. DataAsked' /\ DataSpans' /\ DebounceFits'
      BY <1>3, <2>2, <2>3 DEF DataSpans, DebounceFits
  <2>. QED
      BY <1>1, <1>2, <2>2, <2>3, <2>4 DEF DataShown, DataTyped
<1>. QED
    BY <1>4, <1>5

LEMMA MoveTos ==
    ASSUME DataShown, NEW e \in Int, NEW w \in Nat \ {0}, Data!MoveTo(e, w),
           UNCHANGED <<focus, active, presence, eventsTo, lost>>
    PROVE  DataShown'
<1>1. now' = now /\ now \in Int /\ window' = w /\ end' = (IF e >= now THEN now ELSE e)
    BY DEF Data!MoveTo, DataShown, DataTyped
<1>2. following' <=> (e >= now)
    BY Zenon DEF Data!MoveTo
<1>3. Data!ViewChanged(end', w, following')
    BY DEF Data!MoveTo
<1>4. PICK k \in Int : k = end'
    BY <1>1
<1>5. PICK follow : (follow <=> following') /\ Data!ViewChanged(k, w, follow)
    BY <1>3, <1>4
<1>6. now' \in Int /\ now <= now'
    BY <1>1
<1>. QED
    BY <1>1, <1>4, <1>5, <1>6, ViewMoves

LEMMA StepView == ASSUME DataShown, Data!MoveView PROVE DataShown'
<1>1. UNCHANGED <<focus, active, presence, eventsTo, lost>>
    BY DEF Data!MoveView, Data!layout, Data!cache
<1>2. end \in Int /\ now \in Int /\ window \in Nat \ {0}
    BY DEF DataShown, DataTyped
<1>3. Data!Ends \subseteq Int /\ Widths \subseteq Nat \ {0} /\ Default \in Nat \ {0}
    BY PartsAssumption DEF Data!Ends, Data!TimeAssumption, Data!WindowAssumption
<1>4. CASE Data!Pan
    BY <1>1, <1>2, <1>3, <1>4, MoveTos DEF Data!Pan
<1>5. CASE Data!ZoomAt
  <2>1. PICK w \in Widths : \E step \in {0, w, w - window} : Data!MoveTo(end + step, w)
      BY <1>5 DEF Data!ZoomAt
  <2>2. PICK step \in {0, w, w - window} : Data!MoveTo(end + step, w)
      BY <2>1
  <2>3. end + step \in Int /\ w \in Nat \ {0}
      BY <1>2, <1>3
  <2>. QED
      BY <1>1, <2>2, <2>3, MoveTos
<1>6. CASE Data!CenterOn
  <2>1. PICK t \in Data!Ends : Data!MoveTo(t + Default \div 2, Default)
      BY <1>6 DEF Data!CenterOn
  <2>2. t + Default \div 2 \in Int
      BY <1>3
  <2>. QED
      BY <1>1, <1>3, <2>1, <2>2, MoveTos
<1>7. CASE Data!EnsureVisible
  <2>1. PICK t \in Data!Ends : Data!MoveTo(t + window \div 2, window)
      BY <1>7 DEF Data!EnsureVisible
  <2>2. t + window \div 2 \in Int
      BY <1>2, <1>3
  <2>. QED
      BY <1>1, <1>2, <2>1, <2>2, MoveTos
<1>8. CASE Data!ResetView
  <2>1. /\ now' = now /\ window' = Default /\ end' = now
        /\ Data!ViewChanged(now, Default, TRUE)
      BY <1>8 DEF Data!ResetView
  <2>2. following' = TRUE
      BY <1>8 DEF Data!ResetView
  <2>3. TRUE <=> following'
      BY <2>2, Zenon
  <2>4. now' \in Int /\ now <= now'
      BY <1>2, <2>1
  <2>. QED
      BY <1>1, <1>2, <1>3, <2>1, <2>3, <2>4, ViewMoves
<1>. QED
    BY <1>4, <1>5, <1>6, <1>7, <1>8 DEF Data!MoveView

LEMMA StepTick == ASSUME DataShown, Data!Tick PROVE DataShown'
<1>1. /\ now' = now + 1 /\ now \in Int /\ end \in Int /\ window \in Nat \ {0}
      /\ UNCHANGED <<window, focus, active, presence, eventsTo, lost>>
    BY DEF Data!Tick, DataShown, DataTyped, Data!layout, Data!cache
<1>2. now' \in Int /\ now <= now' /\ now + 1 \in Int
    BY <1>1
<1>3. CASE following
  <2>1. end' = now + 1 /\ UNCHANGED following /\ Data!ViewChanged(now + 1, window, TRUE)
      BY <1>3 DEF Data!Tick
  <2>2. TRUE <=> following'
      BY <1>3, <2>1, Zenon
  <2>. QED
      BY <1>1, <1>2, <2>1, <2>2, ViewMoves
<1>4. CASE ~following
  <2>1. UNCHANGED <<end, following, debounce, inFlight, pending, call, drawn>>
      BY <1>4 DEF Data!Tick, Data!asking
  <2>2. call.at \in Int
      BY DEF DataShown, DataTyped, DataCall
  <2>3. inFlight => call.at <= now'
      BY <1>1, <2>2 DEF DataShown, DataAsked
  <2>4. DataTyped'
      BY <1>1, <1>2, <2>1 DEF DataShown, DataTyped
  <2>5. DebounceFits' /\ DataSpans' /\ Data!EventsCovered'
      BY <1>1, <2>1 DEF DataShown, DebounceFits, DataSpans, Data!EventsCovered
  <2>6. DataAsked'
      BY <1>1, <2>1, <2>3 DEF DataShown, DataAsked
  <2>. QED
      BY <2>4, <2>5, <2>6 DEF DataShown
<1>. QED
    BY <1>3, <1>4

LEMMA StepDebounce == ASSUME DataShown, Data!DebounceFires PROVE DataShown'
<1>1. /\ UNCHANGED <<now, end, window, following, focus, active, presence, eventsTo>>
      /\ debounce # Data!NoView /\ debounce' = Data!NoView
      /\ Data!RefreshData(debounce, inFlight, focus, active, presence, drawn)
    BY DEF Data!DebounceFires, Data!view, Data!layout, Data!cache
<1>2. PICK q : q = debounce
    OBVIOUS
<1>3. /\ now \in Int /\ now' \in Int /\ now <= now' /\ call \in DataCall
      /\ q \in DataStretch /\ end' \in Int /\ window' \in Nat \ {0}
      /\ focus \in Cams \cup {Data!None} /\ active \in SUBSET Cams
      /\ presence' \in [Cams -> DataEntry]
    BY <1>1, <1>2 DEF DataShown, DataTyped
<1>4. q.lo < q.hi /\ (~following' => Spans(q, end' - window', end'))
    BY <1>1, <1>2 DEF DataShown, DebounceFits
<1>5. Data!RefreshData(q, inFlight, focus, active, presence, drawn)
    BY <1>1, <1>2
<1>6. \/ inFlight /\ Waits(q, drawn)
      \/ ~inFlight /\ Draws(q, focus, active, presence)
      \/ ~inFlight /\ Asks(q, focus, active, presence)
    BY <1>3, <1>4, <1>5, RefreshEnds
<1>7. \/ inFlight /\ Waits(q, drawn)
      \/ ~inFlight /\ Draws(q, focus', active', presence')
      \/ ~inFlight /\ Asks(q, focus', active', presence')
    BY <1>1, <1>6
<1>8. inFlight => inFlight /\ DataAsked
    BY DEF DataShown
<1>9. DataAsked' /\ DataSpans' /\ pending' \in DataStretch /\ call' \in DataCall
    BY <1>1, <1>3, <1>4, <1>7, <1>8, RefreshFits
<1>10. DataTyped'
    BY <1>1, <1>2, <1>3, <1>9 DEF DataShown, DataTyped, DataStretch, Data!NoView
<1>11. DebounceFits' /\ Data!EventsCovered'
    BY <1>1 DEF DataShown, DebounceFits, Data!EventsCovered
<1>. QED
    BY <1>9, <1>10, <1>11 DEF DataShown

LEMMA StepLayout == ASSUME DataShown, Data!ChangeLayout PROVE DataShown'
<1>. DEFINE v == [lo |-> end - window, hi |-> end, force |-> FALSE]
<1>1. /\ UNCHANGED <<now, end, window, following, debounce, presence, eventsTo>>
      /\ active' \in SUBSET Cams /\ focus' \in Cams \cup {Data!None}
      /\ Data!RefreshData(v, inFlight, focus', active', presence, drawn)
    BY DEF Data!ChangeLayout, Data!view, Data!cache
<1>2. PICK q : q = v
    OBVIOUS
<1>3. /\ now \in Int /\ now' \in Int /\ now <= now' /\ call \in DataCall
      /\ end' \in Int /\ window' \in Nat \ {0} /\ presence' \in [Cams -> DataEntry]
    BY <1>1 DEF DataShown, DataTyped
<1>4. q \in DataStretch /\ q.lo < q.hi /\ Spans(q, end' - window', end')
    BY <1>1, <1>2, <1>3 DEF DataStretch, Spans
<1>5. PICK f, a : f = focus' /\ a = active'
    OBVIOUS
<1>6. Data!RefreshData(q, inFlight, f, a, presence, drawn)
    BY <1>1, <1>2, <1>5
<1>7. \/ inFlight /\ Waits(q, drawn)
      \/ ~inFlight /\ Draws(q, f, a, presence)
      \/ ~inFlight /\ Asks(q, f, a, presence)
    BY <1>1, <1>3, <1>4, <1>5, <1>6, RefreshEnds
<1>8. \/ inFlight /\ Waits(q, drawn)
      \/ ~inFlight /\ Draws(q, focus', active', presence')
      \/ ~inFlight /\ Asks(q, focus', active', presence')
    BY <1>1, <1>5, <1>7
<1>9. inFlight => inFlight /\ DataAsked
    BY DEF DataShown
<1>10. DataAsked' /\ DataSpans' /\ pending' \in DataStretch /\ call' \in DataCall
    BY <1>1, <1>3, <1>4, <1>8, <1>9, RefreshFits
<1>11. DataTyped'
    BY <1>1, <1>3, <1>10 DEF DataShown, DataTyped
<1>12. DebounceFits' /\ Data!EventsCovered'
    BY <1>1 DEF DataShown, DebounceFits, Data!EventsCovered
<1>. QED
    BY <1>10, <1>11, <1>12 DEF DataShown

LEMMA StepServe == ASSUME DataShown, Data!Serve PROVE DataShown'
<1>1. /\ inFlight /\ call \in DataCall /\ now \in Int /\ call.at <= now
      /\ UNCHANGED <<now, end, window, following, focus, active, debounce, inFlight, pending,
                     presence, eventsTo, drawn, lost>>
    BY DEF Data!Serve, Data!view, Data!layout, Data!cache, DataShown, DataTyped,
       DataAsked
<1>2. /\ call' \in DataCall /\ call'.at = call.at /\ call'.served \in {now, -2}
      /\ call'.cams = call.cams /\ call'.lo = call.lo /\ call'.hi = call.hi
      /\ call'.focus = call.focus /\ call'.active = call.active
    BY <1>1 DEF Data!Serve, DataCall, Data!Failed
<1>3. call.at \in Int
    BY <1>1 DEF DataCall
<1>4. DataAsked'
    BY <1>1, <1>2, <1>3 DEF DataShown, DataAsked
<1>5. DataSpans'
    BY <1>1, <1>2 DEF DataShown, DataSpans, Spans
<1>6. DataTyped'
    BY <1>1, <1>2 DEF DataShown, DataTyped
<1>. QED
    BY <1>1, <1>4, <1>5, <1>6 DEF DataShown, DebounceFits, Data!EventsCovered

(* The fetch is settled: what is wanted by now is asked for, or what came  *)
(* is drawn.                                                               *)
LEMMA SettleFits ==
    ASSUME DataShown, inFlight, NEW p \in [Cams -> DataEntry], p = presence',
           NEW d, Data!Settle(p, d),
           UNCHANGED <<now, end, window, following, focus, active, debounce>>,
           pending = Data!NoView =>
              \/ lost'
              \/ /\ d.focus = focus /\ d.active = active
                 /\ ~following /\ debounce = Data!NoView /\ focus # Data!None =>
                        Spans(d.span, end - window, end)
    PROVE  DataAsked' /\ DataSpans' /\ pending' \in DataStretch /\ call' \in DataCall
<1>1. /\ now \in Int /\ now' \in Int /\ now <= now' /\ call \in DataCall
      /\ end' \in Int /\ window' \in Nat \ {0} /\ presence' \in [Cams -> DataEntry]
      /\ focus \in Cams \cup {Data!None} /\ active \in SUBSET Cams /\ pending \in DataStretch
    BY DEF DataShown, DataTyped
<1>2. CASE pending = Data!NoView
  <2>1. call' = Data!NoCall /\ pending' = pending /\ drawn' = d
      BY <1>2 DEF Data!Settle
  <2>2. ~inFlight'
      BY <1>2, Zenon DEF Data!Settle
  <2>3. Data!NoCall \in DataCall
      BY DEF Data!NoCall, DataCall, Data!Never
  <2>4. DataAsked' /\ DataSpans'
      BY <1>2, <2>1, <2>2 DEF DataAsked, DataSpans
  <2>. QED
      BY <1>1, <2>1, <2>3, <2>4
<1>3. CASE pending # Data!NoView
  <2>1. PICK q : q = pending
      OBVIOUS
  <2>2. Data!RefreshData(q, FALSE, focus, active, p, d)
      BY <1>3, <2>1 DEF Data!Settle
  <2>3. /\ q \in DataStretch /\ q.lo < q.hi
        /\ ~following' /\ debounce' = Data!NoView => Spans(q, end' - window', end')
      BY <1>1, <1>3, <2>1 DEF DataShown, DataAsked, DataSpans
  <2>4. Draws(q, focus, active, p) \/ Asks(q, focus, active, p)
      BY <1>1, <2>2, <2>3, RefreshEnds
  <2>5. \/ ~FALSE /\ Draws(q, focus', active', presence')
        \/ ~FALSE /\ Asks(q, focus', active', presence')
      BY <2>4
  <2>. QED
      BY <1>1, <2>3, <2>5, RefreshFits
<1>. QED
    BY <1>2, <1>3

LEMMA StepFetched == ASSUME DataShown, Data!DataFetched PROVE DataShown'
<1>1. /\ inFlight /\ call.served >= 0 /\ call \in DataCall
      /\ UNCHANGED <<now, end, window, following, focus, active, debounce>>
      /\ Data!Settle(presence', Data!Drawing(call.focus, call.active, presence'))
    BY DEF Data!DataFetched, Data!view, Data!layout, DataShown, DataTyped
<1>2. /\ presence' \in [Cams -> DataEntry]
      /\ \A c \in Cams : presence'[c] = IF c \in call.cams
            THEN [lo |-> call.lo, hi |-> call.hi,
            asOf |-> call.served] ELSE presence[c]
    BY <1>1 DEF Data!DataFetched, DataShown, DataTyped, DataCall, DataEntry
<1>3. Data!TrustedTo(call) \in Int /\ Data!TrustedTo(call) <= call.served
    BY <1>1 DEF Data!TrustedTo, DataCall, DataShown, DataAsked
<1>4. /\ eventsTo' \in [Cams -> Int]
      /\ \A c \in Cams : eventsTo'[c] =
            IF c \in call.cams THEN Data!TrustedTo(call) ELSE eventsTo[c]
    BY <1>3 DEF Data!DataFetched, DataShown, DataTyped
<1>5. Data!EventsCovered'
    BY <1>2, <1>3, <1>4 DEF DataShown, Data!EventsCovered
<1>6. PICK p : p = presence'
    OBVIOUS
<1>7. PICK d : d = Data!Drawing(call.focus, call.active, p)
    OBVIOUS
<1>8. Data!Settle(p, d)
    BY <1>1, <1>6, <1>7
<1>9. ASSUME pending = Data!NoView
      PROVE  /\ d.focus = focus /\ d.active = active
             /\ ~following /\ debounce = Data!NoView /\ focus # Data!None =>
                    Spans(d.span, end - window, end)
  <2>1. call.focus = focus /\ call.active = active
      BY <1>1, <1>9 DEF DataShown, DataAsked
  <2>2. d.focus = focus /\ d.active = active /\ (focus # Data!None => d.span = p[focus])
      BY <1>7, <2>1 DEF Data!Drawing
  <2>3. ASSUME ~following, debounce = Data!NoView, focus # Data!None
        PROVE  Spans(p[focus], end - window, end)
    <3>1. focus \in Cams
        BY <2>3 DEF DataShown, DataTyped
    <3>2. Spans(IF focus \in call.cams THEN call ELSE presence[focus], end - window, end)
        BY <1>1, <1>9, <2>3 DEF DataShown, DataSpans
    <3>. QED
        BY <1>2, <1>6, <3>1, <3>2 DEF Spans
  <2>. QED
      BY <2>2, <2>3
<1>10. DataAsked' /\ DataSpans' /\ pending' \in DataStretch /\ call' \in DataCall
    BY <1>1, <1>2, <1>6, <1>8, <1>9, SettleFits
<1>11. DataTyped' /\ DebounceFits'
    BY <1>1, <1>2, <1>4, <1>10 DEF DataShown, DataTyped, DebounceFits
<1>. QED
    BY <1>5, <1>10, <1>11 DEF DataShown

LEMMA StepFailed == ASSUME DataShown, Data!DataFailed PROVE DataShown'
<1>1. /\ inFlight
      /\ UNCHANGED <<now, end, window, following, focus, active, debounce, presence, eventsTo>>
      /\ Data!Settle(presence, drawn)
    BY DEF Data!DataFailed, Data!view, Data!layout, Data!cache
<1>2. lost' = TRUE
    BY DEF Data!DataFailed
<1>3. lost'
    BY <1>2, Zenon
<1>4. PICK p, d : p = presence /\ d = drawn
    OBVIOUS
<1>5. Data!Settle(p, d) /\ p = presence' /\ p \in [Cams -> DataEntry]
    BY <1>1, <1>4 DEF DataShown, DataTyped
<1>6. DataAsked' /\ DataSpans' /\ pending' \in DataStretch /\ call' \in DataCall
    BY <1>1, <1>3, <1>5, SettleFits
<1>7. DataTyped'
    BY <1>1, <1>6 DEF DataShown, DataTyped
<1>. QED
    BY <1>1, <1>6, <1>7 DEF DataShown, DebounceFits, Data!EventsCovered

LEMMA StepData == ASSUME DataShown, [Data!Next]_dataVars PROVE DataShown'
<1>1. CASE UNCHANGED dataVars
    BY <1>1 DEF dataVars, DataShown, DataTyped, DebounceFits, DataAsked, DataSpans,
       Data!EventsCovered
<1>. QED
    BY <1>1, StepView, StepTick, StepDebounce, StepLayout, StepServe, StepFetched,
       StepFailed
       DEF Data!Next, Data!Answer

LEMMA ShownAtRest == DataShown => Data!RestShowsView
BY DEF DataShown, DataAsked, DataSpans, Spans, Data!RestShowsView, Data!Rest
-----------------------------------------------------------------------------
(* The small questions of the timeline.                                    *)

(* A picture that may still come up is for a pointer still on the ruler.   *)
PointerShown ==
    /\ thumbGen \in Nat /\ (settling => inside) /\ (thumb # 0 => inside)
    /\ \A r \in pictures : r.gen \in Nat /\ r.gen <= thumbGen /\ (r.gen = thumbGen => inside)

LEMMA InitPointer == Lookups!Init => PointerShown
BY DEF Lookups!Init, PointerShown

LEMMA StepPointer == ASSUME PointerShown, [Lookups!Next]_lookupsVars PROVE PointerShown'
<1>0. CASE UNCHANGED <<inside, settling, thumbGen, pictures, thumb>>
    BY <1>0 DEF PointerShown
<1>1. CASE Lookups!PointerMoves
  <2>1. inside'
      BY <1>1, Zenon DEF Lookups!PointerMoves
  <2>. QED
      BY <1>1, <2>1 DEF Lookups!PointerMoves, PointerShown
<1>2. CASE Lookups!PointerLeaves
  <2>1. ~settling'
      BY <1>2, Zenon DEF Lookups!PointerLeaves
  <2>. QED
      BY <1>2, <2>1 DEF Lookups!PointerLeaves, Lookups!HoverLeave, PointerShown
<1>3. CASE Lookups!PointerRests
  <2>1. ~settling'
      BY <1>3, Zenon DEF Lookups!PointerRests
  <2>. QED
      BY <1>3, <2>1 DEF Lookups!PointerRests, PointerShown
<1>4. CASE Lookups!PictureAnswered
    BY <1>4 DEF Lookups!PictureAnswered, PointerShown
<1>5. CASE \/ lookupsVars' = lookupsVars
           \/ Lookups!OpenCalendar \/ Lookups!TurnMonth \/ Lookups!PickDay \/ Lookups!CloseCalendar
           \/ Lookups!OpenFilter \/ Lookups!CloseFilter \/ Lookups!ChangeLayout \/ Lookups!Logout
           \/ Lookups!MonthAnswered \/ Lookups!ScanAnswered
           \/ Lookups!ServeScan \/ Lookups!Happens \/ Lookups!Tick
    BY <1>0, <1>5 DEF lookupsVars, Lookups!hover, Lookups!OpenCalendar,
       Lookups!TurnMonth, Lookups!PickDay,
       Lookups!CloseCalendar, Lookups!OpenFilter, Lookups!CloseFilter,
       Lookups!ChangeLayout, Lookups!Logout,
       Lookups!MonthAnswered, Lookups!ScanAnswered, Lookups!ServeScan,
       Lookups!Happens, Lookups!Tick
<1>. QED
    BY <1>1, <1>2, <1>3, <1>4, <1>5 DEF Lookups!Next, Lookups!User, Lookups!Answer

(* What is known of a month was answered for that month.                   *)
MonthShown ==
    /\ shown \subseteq Cams /\ \A r \in queries : r.cams \subseteq Cams
    /\ avail # Lookups!Unknown =>
          \A d \in avail : \E c \in Cams : <<c, month, d>> \in Recorded

LEMMA InitMonth == Lookups!Init => MonthShown
BY DEF Lookups!Init, MonthShown

LEMMA StepMonth == ASSUME MonthShown, [Lookups!Next]_lookupsVars PROVE MonthShown'
<1>0. CASE UNCHANGED <<shown, month, avail, queries>>
    BY <1>0 DEF MonthShown
<1>1. CASE Lookups!OpenCalendar \/ Lookups!TurnMonth
  <2>1. UNCHANGED shown /\ \E m, d : Lookups!ShowMonth(m, d)
      BY <1>1, Zenon DEF Lookups!OpenCalendar, Lookups!TurnMonth
  <2>2. avail' = Lookups!Unknown /\ \A r \in queries' : r.cams \subseteq Cams
      BY <2>1 DEF Lookups!ShowMonth, Lookups!MonthChanged, MonthShown
  <2>. QED
      BY <2>1, <2>2 DEF MonthShown, Lookups!Unknown
<1>2. CASE Lookups!PickDay
    BY <1>0, <1>2 DEF Lookups!PickDay
<1>3. CASE Lookups!MonthAnswered
    BY <1>3 DEF Lookups!MonthAnswered, Lookups!ForThisMonth, Lookups!DaysOf,
       Lookups!Unknown, MonthShown
<1>4. CASE Lookups!ChangeLayout
    BY <1>4 DEF Lookups!ChangeLayout, Lookups!calendar, Lookups!Unknown, MonthShown
<1>5. CASE \/ lookupsVars' = lookupsVars
           \/ Lookups!PointerMoves \/ Lookups!PointerLeaves \/ Lookups!PointerRests
           \/ Lookups!PictureAnswered \/ Lookups!CloseCalendar
           \/ Lookups!OpenFilter \/ Lookups!CloseFilter \/ Lookups!Logout
           \/ Lookups!ScanAnswered \/ Lookups!ServeScan \/ Lookups!Happens \/ Lookups!Tick
    BY <1>0, <1>5 DEF lookupsVars, Lookups!calendar, Lookups!PointerMoves,
       Lookups!PointerLeaves, Lookups!PointerRests,
       Lookups!PictureAnswered, Lookups!CloseCalendar, Lookups!OpenFilter,
       Lookups!CloseFilter, Lookups!Logout,
       Lookups!ScanAnswered, Lookups!ServeScan, Lookups!Happens, Lookups!Tick
<1>. QED
    BY <1>1, <1>2, <1>3, <1>4, <1>5 DEF Lookups!Next, Lookups!User, Lookups!Answer

(* A scan begins where its camera's history ends, and what DSM lists for   *)
(* it is all there was up to its cutoff.                                   *)
ScanInv(r, clock, begun, types) ==
    /\ r.cam \in Cams /\ r.rest \subseteq Cams /\ r.from \in Nat /\ r.cutoff \in Nat
    /\ r.from <= clock /\ r.cutoff <= clock
    /\ \A t \in begun[r.cam] : t < r.from => t \in types[r.cam]
    /\ r.ans = "listed" => \A t \in begun[r.cam] : r.from <= t /\ t < r.cutoff => t \in r.found
HistoryKept ==
    /\ time \in Nat /\ shown \subseteq Cams
    /\ happened \in [Cams -> SUBSET Nat] /\ checked \in [Cams -> Nat]
    /\ known = [c \in Cams |-> known[c]]
    /\ \A c \in Cams : checked[c] <= time
    /\ Lookups!NoTypeSkipped
    /\ \A r \in scans : ScanInv(r, time, happened, known)

LEMMA InitHistory == Lookups!Init => HistoryKept
BY DEF Lookups!Init, HistoryKept, Lookups!NoTypeSkipped

(* A scan waiting for its answer, of cameras not yet done.                 *)
LEMMA NextScanKept ==
    ASSUME NEW g, NEW all, NEW rest, NEW rests, rest \subseteq Cams,
           Lookups!ScanNext(g, all, rest, rests), HistoryKept,
           UNCHANGED <<time, happened, shown>>, checked' \in [Cams -> Nat],
           known' = [c \in Cams |-> known'[c]],
           \A c \in Cams : checked'[c] <= time /\ known[c] \subseteq known'[c],
           Lookups!NoTypeSkipped', rests \subseteq scans
    PROVE  HistoryKept'
<1>1. ASSUME NEW r \in scans PROVE ScanInv(r, time', happened', known')
    BY <1>1 DEF HistoryKept, ScanInv
<1>2. ASSUME NEW c \in rest
      PROVE  ScanInv([gen |-> g, cam |-> c, all |-> all, rest |-> rest \ {c},
                      from |-> checked'[c], cutoff |-> time, found |-> {},
                      ans |-> "waiting"], time', happened', known')
    BY <1>2 DEF HistoryKept, ScanInv, Lookups!NoTypeSkipped
<1>3. \A r \in scans' : r \in scans \/ \E c \in rest :
        r = [gen |-> g, cam |-> c, all |-> all, rest |-> rest \ {c},
             from |-> checked'[c], cutoff |-> time, found |-> {}, ans |-> "waiting"]
    BY Zenon DEF Lookups!ScanNext
<1>4. \A r \in scans' : ScanInv(r, time', happened', known')
    BY <1>1, <1>2, <1>3
<1>. QED
    BY <1>4 DEF HistoryKept

LEMMA StepHistory == ASSUME HistoryKept, [Lookups!Next]_lookupsVars PROVE HistoryKept'
<1>0. ASSUME UNCHANGED <<time, happened, known, checked>>, shown' \subseteq Cams,
             \A r \in scans' : ScanInv(r, time, happened, known)
      PROVE  HistoryKept'
    BY <1>0 DEF HistoryKept, ScanInv, Lookups!NoTypeSkipped
<1>1. CASE \/ lookupsVars' = lookupsVars
           \/ Lookups!PointerMoves \/ Lookups!PointerLeaves \/ Lookups!PointerRests
           \/ Lookups!PictureAnswered \/ Lookups!MonthAnswered \/ Lookups!CloseCalendar
           \/ Lookups!PickDay \/ Lookups!OpenCalendar \/ Lookups!TurnMonth \/ Lookups!CloseFilter \/ Lookups!Logout
           \/ Lookups!ChangeLayout
  <2>1. UNCHANGED <<scans, time, happened, known, checked>>
      BY <1>1 DEF lookupsVars, Lookups!PointerMoves, Lookups!PointerLeaves,
         Lookups!PointerRests,
         Lookups!PictureAnswered, Lookups!MonthAnswered, Lookups!CloseCalendar,
         Lookups!PickDay,
         Lookups!OpenCalendar, Lookups!TurnMonth, Lookups!CloseFilter,
         Lookups!Logout,
         Lookups!ChangeLayout, Lookups!scanning, Lookups!events, Lookups!types
  <2>2. shown' \subseteq Cams
      BY <1>1 DEF HistoryKept, lookupsVars, Lookups!PointerMoves,
         Lookups!PointerLeaves, Lookups!PointerRests,
         Lookups!PictureAnswered, Lookups!MonthAnswered, Lookups!CloseCalendar,
         Lookups!PickDay,
         Lookups!OpenCalendar, Lookups!TurnMonth, Lookups!CloseFilter,
         Lookups!Logout,
         Lookups!ChangeLayout
  <2>. QED
      BY <1>0, <2>1, <2>2 DEF HistoryKept
<1>2. CASE Lookups!OpenFilter
  <2>1. UNCHANGED <<shown, time, happened, known, checked>>
      BY <1>2 DEF Lookups!OpenFilter, Lookups!events, Lookups!types
  <2>2. \A r \in scans' : r \in scans \/ \E c \in shown :
          r = [gen |-> scanGen + 1, cam |-> c, all |-> shown, rest |-> shown \ {c},
               from |-> checked[c], cutoff |-> time, found |-> {}, ans |-> "waiting"]
      BY <1>2, Zenon DEF Lookups!OpenFilter
  <2>3. ASSUME NEW c \in shown
        PROVE  ScanInv([gen |-> scanGen + 1, cam |-> c, all |-> shown, rest |-> shown \ {c},
                        from |-> checked[c], cutoff |-> time, found |-> {}, ans |-> "waiting"], time,
                        happened, known)
      BY <2>3 DEF HistoryKept, ScanInv, Lookups!NoTypeSkipped
  <2>4. \A r \in scans' : ScanInv(r, time, happened, known)
      BY <2>2, <2>3 DEF HistoryKept
  <2>. QED
      BY <1>0, <2>1, <2>4 DEF HistoryKept
<1>3. CASE Lookups!ServeScan
  <2>1. PICK r \in scans :
          \/ scans' = (scans \ {r}) \cup {[r EXCEPT !.ans = "failed"]}
          \/ scans' = (scans \ {r}) \cup {[r EXCEPT !.ans = "listed",
                    !.found = {t \in happened[r.cam] : r.from <= t /\ t <= r.cutoff}]}
      BY <1>3 DEF Lookups!ServeScan
  <2>2. ScanInv(r, time, happened, known) /\ happened[r.cam] \subseteq Nat
      BY DEF HistoryKept, ScanInv
  <2>3. ScanInv([r EXCEPT !.ans = "failed"], time, happened, known)
      BY <2>2 DEF ScanInv
  <2>4. ScanInv([r EXCEPT !.ans = "listed",
                    !.found = {t \in happened[r.cam] : r.from <= t /\ t <= r.cutoff}],
               time, happened, known)
      BY <2>2 DEF ScanInv
  <2>5. \A q \in scans' : ScanInv(q, time, happened, known)
      BY <2>1, <2>3, <2>4 DEF HistoryKept
  <2>. QED
      BY <1>0, <1>3, <2>5 DEF Lookups!ServeScan, Lookups!events, Lookups!types,
         HistoryKept
<1>4. CASE Lookups!ScanAnswered
  <2>1. PICK r \in scans :
          \/ /\ r.ans # "waiting" /\ r.gen # scanGen
             /\ scans' = scans \ {r} /\ UNCHANGED <<page, Lookups!types>>
          \/ /\ r.ans = "failed" /\ r.gen = scanGen /\ UNCHANGED Lookups!types
             /\ Lookups!AfterFailure(r)
          \/ /\ r.ans = "listed" /\ r.gen = scanGen
             /\ known' = [known EXCEPT ![r.cam] = @ \cup r.found]
             /\ checked' = [checked EXCEPT ![r.cam] = Lookups!CheckedUntil(r)]
             /\ Lookups!ScanNext(r.gen, r.all, r.rest, scans \ {r})
      BY <1>4 DEF Lookups!ScanAnswered
  <2>2. /\ UNCHANGED <<time, happened, shown>> /\ ScanInv(r, time, happened, known)
        /\ r.rest \subseteq Cams
      BY <1>4 DEF Lookups!ScanAnswered, Lookups!events, HistoryKept, ScanInv
  <2>3. CASE scans' = scans \ {r} /\ UNCHANGED <<page, Lookups!types>>
      BY <1>0, <2>2, <2>3 DEF Lookups!types, HistoryKept
  <2>4. CASE UNCHANGED Lookups!types /\ Lookups!AfterFailure(r)
    <3>1. Lookups!ScanNext(r.gen, r.all, r.rest, scans \ {r})
        BY <2>4 DEF Lookups!AfterFailure
    <3>2. Lookups!NoTypeSkipped' /\ known' = known /\ checked' = checked
        BY <2>2, <2>4 DEF Lookups!types, Lookups!NoTypeSkipped, HistoryKept
    <3>. QED
        BY <2>2, <3>1, <3>2, NextScanKept DEF HistoryKept
  <2>5. CASE /\ r.ans = "listed"
             /\ known' = [known EXCEPT ![r.cam] = @ \cup r.found]
             /\ checked' = [checked EXCEPT ![r.cam] = Lookups!CheckedUntil(r)]
             /\ Lookups!ScanNext(r.gen, r.all, r.rest, scans \ {r})
    <3>1. /\ known' = [c \in Cams |-> known'[c]]
          /\ \A c \in Cams : known'[c] = IF c = r.cam THEN known[c] \cup r.found ELSE known[c]
        BY <2>2, <2>5 DEF HistoryKept, ScanInv
    <3>2. /\ checked' \in [Cams -> Nat]
          /\ \A c \in Cams : checked'[c] = IF c = r.cam THEN r.cutoff ELSE checked[c]
        BY <2>2, <2>5 DEF HistoryKept, ScanInv, Lookups!CheckedUntil
    <3>3. Lookups!NoTypeSkipped'
        BY <2>2, <2>5, <3>1, <3>2 DEF HistoryKept, ScanInv, Lookups!NoTypeSkipped
    <3>4. \A c \in Cams : checked'[c] <= time /\ known[c] \subseteq known'[c]
        BY <2>2, <3>1, <3>2 DEF HistoryKept, ScanInv
    <3>5. r.rest \subseteq Cams /\ (scans \ {r}) \subseteq scans
        BY <2>2
    <3>6. Lookups!ScanNext(r.gen, r.all, r.rest, scans \ {r}) /\ UNCHANGED <<time, happened, shown>>
        BY <2>2, <2>5
    <3>. QED
        BY <3>1, <3>2, <3>3, <3>4, <3>5, <3>6, NextScanKept, Zenon
  <2>. QED
      BY <2>1, <2>3, <2>4, <2>5
<1>5. CASE Lookups!Happens
  <2>1. PICK c \in Cams : happened' = [happened EXCEPT ![c] = @ \cup {time}]
      BY <1>5 DEF Lookups!Happens
  <2>2. UNCHANGED <<shown, time, known, checked, scans>>
      BY <1>5 DEF Lookups!Happens, Lookups!types, Lookups!scanning
  <2>3. /\ happened' \in [Cams -> SUBSET Nat]
        /\ \A d \in Cams : \A t \in happened'[d] : t \in happened[d] \/ t = time
      BY <2>1 DEF HistoryKept
  <2>4. ASSUME NEW r \in scans' PROVE ScanInv(r, time', happened', known')
    <3>1. ScanInv(r, time, happened, known) /\ UNCHANGED <<time, known>> /\ time \in Nat
        BY <2>2 DEF HistoryKept
    <3>2. r.cam \in Cams /\ r.from <= time /\ r.cutoff <= time /\ r.from \in Nat /\ r.cutoff \in Nat
        BY <3>1 DEF ScanInv
    <3>3. \A t \in happened'[r.cam] : t \in happened[r.cam] \/ t = time
        BY <2>3, <3>2
    <3>4. checked[r.cam] <= time
        BY <3>2 DEF HistoryKept
    <3>. QED
        BY <3>1, <3>2, <3>3, <3>4 DEF ScanInv
  <2>5. Lookups!NoTypeSkipped'
      BY <2>2, <2>3 DEF HistoryKept, Lookups!NoTypeSkipped
  <2>. QED
      BY <2>2, <2>3, <2>4, <2>5 DEF HistoryKept
<1>6. CASE Lookups!Tick
  <2>1. time' = time + 1 /\ UNCHANGED <<shown, happened, known, checked, scans>>
      BY <1>6 DEF Lookups!Tick, Lookups!types, Lookups!scanning
  <2>2. \A r \in scans' : ScanInv(r, time', happened', known')
      BY <2>1 DEF HistoryKept, ScanInv
  <2>. QED
      BY <2>1, <2>2 DEF HistoryKept, Lookups!NoTypeSkipped
<1>. QED
    BY <1>1, <1>2, <1>3, <1>4, <1>5, <1>6 DEF Lookups!Next, Lookups!User,
       Lookups!Answer
-----------------------------------------------------------------------------
(* The webhooks.                                                           *)

HookCall ==
    {c \in [what : {"start", "stop", "put"}, of : Nat, event : Nat] : c.what = "put" => c.event # 0}

(* What a dispatcher has waiting and being posted is what it counts.       *)
Counted(q, p, n) ==
    q \in Seq(Nat \ {0}) /\ p \in Nat /\ n = Len(q) + (IF p = 0 THEN 0 ELSE 1)
HooksCount ==
    /\ dispatcher \in Nat /\ started \in Nat /\ emitted \in Nat /\ calls \in Seq(HookCall)
    /\ queue = [d \in Hooks!Dispatchers |-> queue[d]]
    /\ posting = [d \in Hooks!Dispatchers |-> posting[d]]
    /\ unfinished = [d \in Hooks!Dispatchers |-> unfinished[d]]
    /\ \A d \in Hooks!Dispatchers : Counted(queue[d], posting[d], unfinished[d])

LEMMA InitHooks == Hooks!Init => HooksCount
<1>1. Counted(<<>>, 0, 0)
    BY DEF Counted
<1>2. <<>> \in Seq(HookCall)
    OBVIOUS
<1>. QED
    BY <1>1, <1>2 DEF Hooks!Init, HooksCount, Hooks!None

(* Whoever is counted right goes on to be, if only d changes.              *)
LEMMA OneCounts ==
    ASSUME HooksCount, NEW d, NEW q, NEW p, NEW n,
           queue' = [queue EXCEPT ![d] = q], posting' = [posting EXCEPT ![d] = p],
           unfinished' = [unfinished EXCEPT ![d] = n],
           d \in Hooks!Dispatchers => Counted(q, p, n),
           dispatcher' \in Nat, started' \in Nat, emitted' \in Nat, calls' \in Seq(HookCall)
    PROVE  HooksCount'
<1>1. Hooks!Dispatchers' = Hooks!Dispatchers
    BY DEF Hooks!Dispatchers
<1>2. /\ queue' = [e \in Hooks!Dispatchers |-> queue'[e]]
      /\ posting' = [e \in Hooks!Dispatchers |-> posting'[e]]
      /\ unfinished' = [e \in Hooks!Dispatchers |-> unfinished'[e]]
    BY DEF HooksCount
<1>3. ASSUME NEW e \in Hooks!Dispatchers PROVE Counted(queue'[e], posting'[e], unfinished'[e])
    BY DEF HooksCount
<1>. QED
    BY <1>1, <1>2, <1>3 DEF HooksCount

LEMMA NothingCounted ==
    ASSUME HooksCount, UNCHANGED <<queue, posting, unfinished>>,
           dispatcher' \in Nat, started' \in Nat, emitted' \in Nat, calls' \in Seq(HookCall)
    PROVE  HooksCount'
BY DEF HooksCount, Hooks!Dispatchers

LEMMA PutCounts ==
    ASSUME NEW q, NEW p, NEW n, Counted(q, p, n), NEW e \in Nat \ {0}
    PROVE  /\ Len(q) >= QueueSize => Counted(Append(Tail(q), e), p, n)
           /\ Counted(Append(q, e), p, n + 1)
<1>1. q \in Seq(Nat \ {0}) /\ Len(q) \in Nat /\ QueueSize \in Nat \ {0}
    BY PartsAssumption DEF Counted, Hooks!QueueAssumption
<1>2. Append(q, e) \in Seq(Nat \ {0}) /\ Len(Append(q, e)) = Len(q) + 1
    BY <1>1
<1>3. ASSUME Len(q) >= QueueSize
      PROVE  Append(Tail(q), e) \in Seq(Nat \ {0}) /\ Len(Append(Tail(q), e)) = Len(q)
  <2>1. q # <<>>
      BY <1>1, <1>3
  <2>2. Tail(q) \in Seq(Nat \ {0}) /\ Len(Tail(q)) = Len(q) - 1
      BY <1>1, <2>1
  <2>. QED
      BY <1>1, <2>2
<1>4. p \in Nat /\ n = Len(q) + (IF p = 0 THEN 0 ELSE 1)
    BY DEF Counted
<1>5. n + 1 = (Len(q) + 1) + (IF p = 0 THEN 0 ELSE 1)
    BY <1>1, <1>4
<1>6. Counted(Append(q, e), p, n + 1)
    BY <1>2, <1>4, <1>5, Zenon DEF Counted
<1>7. Len(q) >= QueueSize => Counted(Append(Tail(q), e), p, n)
    BY <1>3, <1>4, Zenon DEF Counted
<1>. QED
    BY <1>6, <1>7

LEMMA StepHooks == ASSUME HooksCount, [Hooks!Next]_hooksVars PROVE HooksCount'
<1>0. dispatcher \in Nat /\ started \in Nat /\ emitted \in Nat /\ calls \in Seq(HookCall)
    BY DEF HooksCount
<1>1. ASSUME NEW c \in HookCall PROVE Append(calls, c) \in Seq(HookCall)
    BY <1>0
<1>2. CASE Hooks!Start
  <2>1. /\ started' = started + 1 /\ dispatcher' = started' /\ emitted' = emitted
        /\ calls' = Append(calls, [what |-> "start", of |-> started', event |-> 0])
        /\ UNCHANGED <<queue, posting, unfinished>>
      BY <1>2 DEF Hooks!Start, Hooks!None
  <2>2. [what |-> "start", of |-> started', event |-> 0] \in HookCall
      BY <1>0, <2>1 DEF HookCall
  <2>3. calls' \in Seq(HookCall)
      BY <1>1, <2>1, <2>2, Zenon
  <2>. QED
      BY <1>0, <2>1, <2>3, NothingCounted
<1>3. CASE Hooks!Stop
  <2>1. /\ dispatcher' = 0 /\ started' = started /\ emitted' = emitted
        /\ calls' = Append(calls, [what |-> "stop", of |-> dispatcher, event |-> 0])
        /\ UNCHANGED <<queue, posting, unfinished>>
      BY <1>3 DEF Hooks!Stop, Hooks!Ask, Hooks!None
  <2>2. [what |-> "stop", of |-> dispatcher, event |-> 0] \in HookCall
      BY <1>0 DEF HookCall
  <2>3. calls' \in Seq(HookCall)
      BY <1>1, <2>1, <2>2, Zenon
  <2>. QED
      BY <1>0, <2>1, <2>3, NothingCounted
<1>4. CASE Hooks!Emit
  <2>1. /\ dispatcher' = dispatcher /\ started' = started /\ emitted' = emitted + 1
        /\ calls' = Append(calls, [what |-> "put", of |-> dispatcher, event |-> emitted'])
        /\ UNCHANGED <<queue, posting, unfinished>>
      BY <1>4 DEF Hooks!Emit, Hooks!Ask, Hooks!None
  <2>2. [what |-> "put", of |-> dispatcher, event |-> emitted'] \in HookCall
      BY <1>0, <2>1 DEF HookCall
  <2>3. calls' \in Seq(HookCall)
      BY <1>1, <2>1, <2>2, Zenon
  <2>. QED
      BY <1>0, <2>1, <2>3, NothingCounted
<1>5. CASE Hooks!Callback
  <2>1. calls # <<>> /\ calls' = Tail(calls) /\ UNCHANGED <<dispatcher, started, emitted>>
      BY <1>5 DEF Hooks!Callback, Hooks!gtk
  <2>2. PICK c : c = Head(calls)
      OBVIOUS
  <2>3. c \in HookCall /\ calls' \in Seq(HookCall)
      BY <1>0, <2>1, <2>2
  <2>4. CASE c.what = "start"
    <3>1. Hooks!Started(c.of)
        BY <1>5, <2>2, <2>4 DEF Hooks!Callback
    <3>. QED
        BY <1>0, <2>1, <2>3, <3>1, NothingCounted DEF Hooks!Started
  <2>5. CASE c.what = "stop"
    <3>1. Hooks!Stopped(c.of)
        BY <1>5, <2>2, <2>5 DEF Hooks!Callback
    <3>. DEFINE d == c.of
                n == IF posting[d] = 0 THEN unfinished[d] ELSE unfinished[d] - 1
    <3>2. /\ queue' = [queue EXCEPT ![d] = queue[d]]
          /\ posting' = [posting EXCEPT ![d] = 0]
          /\ unfinished' = [unfinished EXCEPT ![d] = n]
        BY <3>1 DEF Hooks!Stopped, Hooks!None, HooksCount
    <3>3. d \in Hooks!Dispatchers => Counted(queue[d], 0, n)
        BY DEF HooksCount, Counted
    <3>. HIDE DEF n
    <3>. QED
        BY <1>0, <2>1, <2>3, <3>2, <3>3, OneCounts
  <2>6. CASE c.what = "put"
    <3>. DEFINE d == c.of
                e == c.event
    <3>1. Hooks!Put(d, e) /\ e \in Nat \ {0}
        BY <1>5, <2>2, <2>3, <2>6 DEF Hooks!Callback, HookCall
    <3>2. posting' = [posting EXCEPT ![d] = posting[d]]
        BY <3>1 DEF Hooks!Put, HooksCount
    <3>3. CASE Len(queue[d]) >= QueueSize
      <4>1. /\ queue' = [queue EXCEPT ![d] = Append(Tail(queue[d]), e)]
            /\ unfinished' = [unfinished EXCEPT ![d] = unfinished[d]]
          BY <3>1, <3>3 DEF Hooks!Put, Hooks!OldestOut, HooksCount
      <4>2. d \in Hooks!Dispatchers => Counted(Append(Tail(queue[d]), e), posting[d], unfinished[d])
          BY <3>1, <3>3, PutCounts DEF HooksCount
      <4>. QED
          BY <1>0, <2>1, <2>3, <3>2, <4>1, <4>2, OneCounts
    <3>4. CASE ~(Len(queue[d]) >= QueueSize)
      <4>1. /\ queue' = [queue EXCEPT ![d] = Append(queue[d], e)]
            /\ unfinished' = [unfinished EXCEPT ![d] = unfinished[d] + 1]
          BY <3>1, <3>4 DEF Hooks!Put
      <4>2. d \in Hooks!Dispatchers => Counted(Append(queue[d], e), posting[d], unfinished[d] + 1)
          BY <3>1, PutCounts DEF HooksCount
      <4>. QED
          BY <1>0, <2>1, <2>3, <3>2, <4>1, <4>2, OneCounts
    <3>. QED
        BY <3>3, <3>4
  <2>. QED
      BY <2>3, <2>4, <2>5, <2>6 DEF HookCall
<1>6. CASE Hooks!TokenRead
    BY <1>0, <1>6, NothingCounted DEF Hooks!TokenRead, Hooks!gtk
<1>7. CASE Hooks!Get
  <2>1. PICK d \in Hooks!Dispatchers :
          /\ posting[d] = 0 /\ queue[d] # <<>>
          /\ posting' = [posting EXCEPT ![d] = Head(queue[d])]
          /\ queue' = [queue EXCEPT ![d] = Tail(queue[d])]
      BY <1>7 DEF Hooks!Get, Hooks!None
  <2>2. unfinished' = [unfinished EXCEPT ![d] = unfinished[d]]
      BY <1>7 DEF Hooks!Get, HooksCount
  <2>3. Counted(queue[d], posting[d], unfinished[d])
      BY DEF HooksCount
  <2>4. /\ Head(queue[d]) \in Nat \ {0} /\ Tail(queue[d]) \in Seq(Nat \ {0})
        /\ Len(Tail(queue[d])) = Len(queue[d]) - 1 /\ Len(queue[d]) \in Nat
      BY <2>1, <2>3 DEF Counted
  <2>5. unfinished[d] = Len(queue[d])
      BY <2>1, <2>3, <2>4 DEF Counted
  <2>6. unfinished[d] = Len(Tail(queue[d])) + (IF Head(queue[d]) = 0 THEN 0 ELSE 1)
    <3>1. Head(queue[d]) # 0
        BY <2>4
    <3>2. PICK k, l : k = Len(queue[d]) /\ l = Len(Tail(queue[d]))
        OBVIOUS
    <3>3. unfinished[d] = l + 1
        BY <2>4, <2>5, <3>2
    <3>. QED
        BY <3>1, <3>2, <3>3, Zenon
  <2>7. Counted(Tail(queue[d]), Head(queue[d]), unfinished[d])
    <3>1. Head(queue[d]) \in Nat
        BY <2>4
    <3>. QED
        BY <2>4, <2>6, <3>1, Zenon DEF Counted
  <2>8. UNCHANGED <<dispatcher, started, emitted, calls>>
      BY <1>7 DEF Hooks!Get, Hooks!gtk
  <2>. QED
      BY <1>0, <2>1, <2>2, <2>7, <2>8, OneCounts
<1>8. CASE Hooks!Posted
  <2>1. PICK d \in Hooks!Dispatchers :
          /\ posting[d] # 0
          /\ unfinished' = [unfinished EXCEPT ![d] = unfinished[d] - 1]
          /\ posting' = [posting EXCEPT ![d] = 0]
      BY <1>8 DEF Hooks!Posted, Hooks!None
  <2>2. queue' = [queue EXCEPT ![d] = queue[d]]
      BY <1>8 DEF Hooks!Posted, HooksCount
  <2>3. Counted(queue[d], 0, unfinished[d] - 1)
      BY <2>1 DEF HooksCount, Counted
  <2>. QED
      BY <1>0, <1>8, <2>1, <2>2, <2>3, OneCounts DEF Hooks!Posted, Hooks!gtk
<1>9. CASE UNCHANGED hooksVars
    BY <1>0, <1>9, NothingCounted DEF hooksVars
<1>. QED
    BY <1>2, <1>3, <1>4, <1>5, <1>6, <1>7, <1>8, <1>9 DEF Hooks!Next
-----------------------------------------------------------------------------
(* The health monitor.                                                     *)

StallShown ==
    /\ restarts \in Nat
    /\ timer = "running" => (paused <=> layout)
    /\ timer = "running" /\ advancing => last
    /\ timer = "running" /\ advancing /\ ~layout /\ disturbed => frames = "more"

LEMMA InitStall == Rtsp!Init => StallShown
BY DEF Rtsp!Init, StallShown

LEMMA StepStall ==
    ASSUME StallShown, [Rtsp!Next]_rtspVars
    PROVE  StallShown' /\ Rtsp!CountsRealStall
<1>1. CASE Rtsp!Start
  <2>1. ~advancing'
      BY <1>1, Zenon DEF Rtsp!Start
  <2>2. restarts' = 0 /\ (paused' <=> layout')
      BY <1>1, Zenon DEF Rtsp!Start
  <2>. QED
      BY <2>1, <2>2 DEF StallShown, Rtsp!CountsRealStall
<1>2. CASE Rtsp!Stop
    BY <1>2 DEF Rtsp!Stop, StallShown, Rtsp!CountsRealStall
<1>3. CASE Rtsp!Frame
    BY <1>3 DEF Rtsp!Frame, Rtsp!monitor, StallShown, Rtsp!CountsRealStall
<1>4. CASE Rtsp!SourceChanges
    BY <1>4 DEF Rtsp!SourceChanges, Rtsp!monitor, StallShown, Rtsp!CountsRealStall
<1>5. CASE Rtsp!PauseToggled
  <2>1. restarts' = restarts /\ timer' = timer
      BY <1>5 DEF Rtsp!PauseToggled
  <2>2. CASE timer # "running"
      BY <2>1, <2>2 DEF StallShown, Rtsp!CountsRealStall
  <2>3. CASE timer = "running" /\ layout'
      <3>1. UNCHANGED <<advancing, last>>
          BY <1>5, <2>3, Zenon DEF Rtsp!PauseToggled
      <3>2. paused' <=> layout'
          BY <1>5, <2>3, Zenon DEF Rtsp!PauseToggled
      <3>. QED
          BY <2>1, <2>3, <3>1, <3>2 DEF StallShown, Rtsp!CountsRealStall
  <2>4. CASE timer = "running" /\ ~layout'
      <3>1. ~advancing'
          BY <1>5, <2>4, Zenon DEF Rtsp!PauseToggled, Rtsp!Resumed
      <3>2. paused' <=> layout'
          BY <1>5, <2>4, Zenon DEF Rtsp!PauseToggled
      <3>. QED
          BY <2>1, <2>4, <3>1, <3>2 DEF StallShown, Rtsp!CountsRealStall
  <2>. QED
      BY <2>2, <2>3, <2>4
<1>6. CASE Rtsp!Check
  <2>. DEFINE moved == last /\ frames = "more"
              again == ~moved /\ advancing /\ restarts + 1 < MaxRestarts
  <2>1. /\ timer = "running" /\ ~paused
        /\ CASE moved -> Rtsp!Advanced
             [] ~moved /\ ~advancing -> Rtsp!NotStarted
             [] OTHER -> Rtsp!Stalled
        /\ last' = (frames # "none" /\ ~again)
        /\ frames' = CASE again -> "none"
                       [] frames = "none" -> "none"
                       [] OTHER -> "same"
        /\ disturbed' = again
        /\ UNCHANGED <<layout, paused>>
      BY <1>6 DEF Rtsp!Check
  <2>2. ~layout' /\ ~paused' /\ restarts \in Nat
      BY <2>1 DEF StallShown
  <2>3. disturbed' <=> again
      BY <2>1, Zenon
  <2>4. last' <=> (frames # "none" /\ ~again)
      BY <2>1, Zenon
  <2>5. CASE moved
    <3>1. Rtsp!Advanced
        BY <2>1, <2>5, Zenon
    <3>. QED
        BY <2>2, <2>3, <2>4, <2>5, <3>1 DEF Rtsp!Advanced, StallShown,
           Rtsp!CountsRealStall
  <2>6. CASE ~moved /\ ~advancing
    <3>1. Rtsp!NotStarted
        BY <2>1, <2>6, Zenon
    <3>. QED
        BY <2>2, <2>3, <2>4, <2>6, <3>1 DEF Rtsp!NotStarted, StallShown,
           Rtsp!CountsRealStall
  <2>7. CASE ~moved /\ advancing
    <3>1. Rtsp!Stalled
        BY <2>1, <2>7, Zenon
    <3>2. ~disturbed
        BY <2>1, <2>7 DEF StallShown
    <3>3. restarts' = restarts + 1 /\ (restarts' >= MaxRestarts => timer' = "stalled")
        BY <2>2, <3>1, PartsAssumption DEF Rtsp!Stalled, Rtsp!LimitAssumption
    <3>4. restarts' < MaxRestarts => ~advancing'
        BY <2>2, <3>1, <3>3, PartsAssumption DEF Rtsp!Stalled, Rtsp!LimitAssumption
    <3>. QED
        BY <2>2, <2>3, <3>2, <3>3, <3>4, PartsAssumption DEF StallShown,
           Rtsp!CountsRealStall, Rtsp!LimitAssumption
  <2>. QED
      BY <2>5, <2>6, <2>7
<1>7. CASE UNCHANGED rtspVars
    BY <1>7 DEF rtspVars, StallShown, Rtsp!CountsRealStall
<1>. QED
    BY <1>1, <1>2, <1>3, <1>4, <1>5, <1>6, <1>7 DEF Rtsp!Next
-----------------------------------------------------------------------------
(* Push to talk.                                                           *)

(* A session that runs is the slot's, under a lit button, or has been told *)
(* to stop; a microphone is open only while its session runs or closes it. *)
Live == {"opening", "checking", "connecting", "sending"}
TalkShown ==
    /\ stage \in [Sessions -> Talk!Stages] /\ mic \subseteq Sessions
    /\ \A s \in Sessions :
          /\ stage[s] \in Live => s \in told \cup telling \/ (talking /\ own = s)
          /\ s \in mic => stage[s] \in Live \cup {"closing"}

LEMMA InitTalk == Talk!Init => TalkShown
BY DEF Talk!Init, TalkShown, Live, Talk!Stages

(* One session's step, which is not a step of the others.                  *)
LEMMA SessionMoves ==
    ASSUME TalkShown, NEW s \in Sessions, NEW next \in Talk!Stages, Talk!To(s, next)
    PROVE  /\ stage' \in [Sessions -> Talk!Stages] /\ stage'[s] = next
           /\ \A t \in Sessions : t # s => stage'[t] = stage[t]
BY DEF TalkShown, Talk!To

LEMMA StepTalk == ASSUME TalkShown, [Talk!Next]_talkVars PROVE TalkShown'
<1>. USE DEF Live, Talk!Stages
<1>1. CASE Talk!TalkOn
  <2>1. PICK s \in Talk!Unused : talking' = TRUE /\ own' = s /\ Talk!To(s, "opening")
      BY <1>1 DEF Talk!TalkOn
  <2>2. s \in Sessions /\ stage[s] = "new"
      BY <2>1 DEF Talk!Unused
  <2>3. /\ stage' \in [Sessions -> Talk!Stages] /\ stage'[s] = "opening"
        /\ \A t \in Sessions : t # s => stage'[t] = stage[t]
      BY <2>1, <2>2, SessionMoves
  <2>4. ~talking /\ UNCHANGED <<told, telling, mic>>
      BY <1>1 DEF Talk!TalkOn, Talk!audio
  <2>. QED
      BY <2>1, <2>2, <2>3, <2>4 DEF TalkShown
<1>2. CASE Talk!TalkOff
  <2>1. \A s \in Sessions : own = s => s \in telling'
      BY <1>2, PartsAssumption DEF Talk!TalkOff, Talk!None, Talk!SessionAssumption
  <2>2. telling \subseteq telling' /\ UNCHANGED <<stage, told, mic>>
      BY <1>2 DEF Talk!TalkOff, Talk!audio
  <2>. QED
      BY <2>1, <2>2 DEF TalkShown
<1>3. CASE Talk!Ended
    BY <1>3 DEF Talk!Ended, Talk!audio, Talk!slot, Talk!Owner, TalkShown
<1>4. CASE Talk!StopEvent
    BY <1>4 DEF Talk!StopEvent, Talk!audio, Talk!slot, TalkShown
<1>5. CASE Talk!Opened
  <2>1. PICK s \in Sessions, next \in {"checking", "closing"} :
          /\ stage[s] = "opening" /\ Talk!To(s, next)
          /\ mic' = mic \cup {s} \/ (next = "closing" /\ mic' = mic)
      BY <1>5 DEF Talk!Opened, Talk!Fails
  <2>2. /\ stage' \in [Sessions -> Talk!Stages] /\ stage'[s] = next
        /\ \A t \in Sessions : t # s => stage'[t] = stage[t]
      BY <2>1, SessionMoves
  <2>. QED
      BY <1>5, <2>1, <2>2 DEF Talk!Opened, Talk!slot, TalkShown
<1>6. CASE Talk!Record
    BY <1>6 DEF Talk!Record, Talk!slot, TalkShown
<1>7. CASE Talk!Checked \/ Talk!ConnectDone \/ Talk!SendChunk \/ Talk!StopSeen
  <2>1. CASE UNCHANGED stage
      BY <1>7, <2>1 DEF Talk!Checked, Talk!ConnectDone, Talk!SendChunk,
         Talk!StopSeen,
             Talk!slot, Talk!audio, TalkShown
  <2>2. ASSUME ~ UNCHANGED stage PROVE TalkShown'
    <3>1. PICK s \in Sessions, next \in {"connecting", "sending", "closing"} :
            stage[s] \in Live /\ Talk!To(s, next)
        BY <1>7, <2>2 DEF Talk!Checked, Talk!ConnectDone, Talk!SendChunk,
           Talk!StopSeen,
             Talk!Fails, Talk!Talking
    <3>2. /\ stage' \in [Sessions -> Talk!Stages] /\ stage'[s] = next
          /\ \A t \in Sessions : t # s => stage'[t] = stage[t]
        BY <3>1, SessionMoves
    <3>3. UNCHANGED <<talking, own, told, telling, mic>>
        BY <1>7 DEF Talk!Checked, Talk!ConnectDone, Talk!SendChunk, Talk!StopSeen,
             Talk!slot, Talk!audio
    <3>. QED
        BY <3>1, <3>2, <3>3 DEF TalkShown
  <2>. QED
      BY <2>1, <2>2
<1>8. CASE Talk!Closed
  <2>1. PICK s \in Sessions :
          stage[s] = "closing" /\ mic' = mic \ {s} /\ Talk!To(s, "ended")
      BY <1>8 DEF Talk!Closed
  <2>2. /\ stage' \in [Sessions -> Talk!Stages] /\ stage'[s] = "ended"
        /\ \A t \in Sessions : t # s => stage'[t] = stage[t]
      BY <2>1, SessionMoves
  <2>. QED
      BY <1>8, <2>1, <2>2 DEF Talk!Closed, Talk!slot, TalkShown
<1>9. CASE Talk!SomebodyElse
    BY <1>9 DEF Talk!SomebodyElse, Talk!slot, Talk!audio, TalkShown
<1>10. CASE UNCHANGED talkVars
    BY <1>10 DEF talkVars, TalkShown
<1>. QED
    BY <1>1, <1>2, <1>3, <1>4, <1>5, <1>6, <1>7, <1>8, <1>9, <1>10 DEF Talk!Next

(* The chunks a session has queued are the last it recorded, in order, all *)
(* newer than the last one sent.                                           *)
Recent(q, r, n) ==
    /\ q \in Seq(Nat) /\ r \in Nat /\ n \in Nat
    /\ Len(q) <= MaxQueued /\ n + Len(q) <= r
    /\ \A i \in 1 .. Len(q) : q[i] = (r - Len(q)) + i
TalkRecent ==
    /\ chunks = [s \in Sessions |-> chunks[s]]
    /\ recorded = [s \in Sessions |-> recorded[s]]
    /\ sent = [s \in Sessions |-> sent[s]]
    /\ \A s \in Sessions : Recent(chunks[s], recorded[s], sent[s])

LEMMA RecentHead ==
    ASSUME NEW q, NEW r, NEW n, Recent(q, r, n), q # <<>>
    PROVE  /\ Recent(Tail(q), r, Head(q)) /\ Recent(Tail(q), r, n)
           /\ Head(q) > n /\ r - Head(q) < MaxQueued
<1>1. /\ q \in Seq(Nat) /\ Len(q) \in Nat \ {0} /\ r \in Nat /\ n \in Nat
      /\ Len(q) <= MaxQueued /\ n + Len(q) <= r
    BY DEF Recent
<1>2. Head(q) = q[1] /\ q[1] = (r - Len(q)) + 1 /\ Head(q) \in Nat
    BY <1>1 DEF Recent
<1>3. /\ Tail(q) \in Seq(Nat) /\ Len(Tail(q)) = Len(q) - 1
      /\ \A i \in 1 .. Len(q) - 1 : Tail(q)[i] = q[i + 1]
    BY <1>1
<1>4. \A i \in 1 .. Len(q) - 1 : Tail(q)[i] = (r - (Len(q) - 1)) + i
    BY <1>1, <1>3 DEF Recent
<1>. QED
    BY <1>1, <1>2, <1>3, <1>4, PartsAssumption DEF Recent, Talk!QueueAssumption

LEMMA RecentMore ==
    ASSUME NEW q, NEW r, NEW n, Recent(q, r, n)
    PROVE  Recent(Talk!Enqueued(q, r + 1), r + 1, n)
<1>1. MaxQueued \in Nat \ {0}
    BY PartsAssumption DEF Talk!QueueAssumption
<1>2. ASSUME NEW p, Recent(p, r, n), Len(p) < MaxQueued
      PROVE  Recent(Append(p, r + 1), r + 1, n)
  <2>1. p \in Seq(Nat) /\ Len(p) \in Nat /\ r \in Nat /\ n \in Nat /\ n + Len(p) <= r
      BY <1>2 DEF Recent
  <2>2. /\ Append(p, r + 1) \in Seq(Nat) /\ Len(Append(p, r + 1)) = Len(p) + 1
        /\ \A i \in 1 .. Len(p) : Append(p, r + 1)[i] = p[i]
        /\ Append(p, r + 1)[Len(p) + 1] = r + 1
      BY <2>1
  <2>3. \A i \in 1 .. Len(p) + 1 : Append(p, r + 1)[i] = ((r + 1) - (Len(p) + 1)) + i
    <3>. SUFFICES ASSUME NEW i \in 1 .. Len(p) + 1
                  PROVE  Append(p, r + 1)[i] = ((r + 1) - (Len(p) + 1)) + i
        OBVIOUS
    <3>1. CASE i = Len(p) + 1
        BY <2>1, <2>2, <3>1
    <3>2. CASE i # Len(p) + 1
        BY <1>2, <2>1, <2>2, <3>2 DEF Recent
    <3>. QED
        BY <3>1, <3>2
  <2>. QED
      BY <1>1, <1>2, <2>1, <2>2, <2>3 DEF Recent
<1>3. CASE Len(q) >= MaxQueued
  <2>1. q # <<>>
      BY <1>1, <1>3
  <2>2. Recent(Tail(q), r, n) /\ Len(Tail(q)) < MaxQueued
      BY <1>1, <2>1, RecentHead DEF Recent
  <2>. QED
      BY <1>2, <1>3, <2>2 DEF Talk!Enqueued
<1>4. CASE ~(Len(q) >= MaxQueued)
  <2>1. Len(q) < MaxQueued
      BY <1>1, <1>4 DEF Recent
  <2>. QED
      BY <1>2, <1>4, <2>1 DEF Talk!Enqueued
<1>. QED
    BY <1>3, <1>4

LEMMA InitRecent == Talk!Init => TalkRecent
<1>1. MaxQueued \in Nat
    BY PartsAssumption DEF Talk!QueueAssumption
<1>2. Recent(<<>>, 0, 0)
    BY <1>1 DEF Recent
<1>. QED
    BY <1>2 DEF Talk!Init, TalkRecent

LEMMA StepRecent ==
    ASSUME TalkRecent, [Talk!Next]_talkVars
    PROVE  TalkRecent' /\ Talk!SendsRecent
<1>1. CASE UNCHANGED <<chunks, recorded, sent>>
    BY <1>1 DEF TalkRecent, Talk!SendsRecent
<1>2. CASE Talk!Record
  <2>1. PICK s \in mic :
          /\ recorded' = [recorded EXCEPT ![s] = @ + 1]
          /\ chunks' = [chunks EXCEPT ![s] = Talk!Enqueued(@, recorded'[s])]
      BY <1>2 DEF Talk!Record
  <2>2. sent' = sent
      BY <1>2 DEF Talk!Record
  <2>3. CASE s \notin Sessions
      BY <2>1, <2>2, <2>3 DEF TalkRecent, Talk!SendsRecent
  <2>4. CASE s \in Sessions
    <3>1. recorded'[s] = recorded[s] + 1
        BY <2>1, <2>4 DEF TalkRecent
    <3>2. chunks'[s] = Talk!Enqueued(chunks[s], recorded[s] + 1)
        BY <2>1, <2>4, <3>1 DEF TalkRecent
    <3>3. \A t \in Sessions : t # s => chunks'[t] = chunks[t] /\ recorded'[t] = recorded[t]
        BY <2>1 DEF TalkRecent
    <3>4. \A t \in Sessions : Recent(chunks'[t], recorded'[t], sent[t])
        BY <2>4, <3>1, <3>2, <3>3, RecentMore DEF TalkRecent
    <3>5. /\ chunks' = [t \in Sessions |-> chunks'[t]]
          /\ recorded' = [t \in Sessions |-> recorded'[t]]
        BY <2>1 DEF TalkRecent
    <3>. QED
        BY <2>2, <3>4, <3>5 DEF TalkRecent, Talk!SendsRecent
  <2>. QED
      BY <2>3, <2>4
<1>3. CASE Talk!SendChunk
  <2>1. PICK s \in Sessions :
          /\ chunks[s] # <<>> /\ chunks' = [chunks EXCEPT ![s] = Tail(@)]
          /\ sent' = sent \/ sent' = [sent EXCEPT ![s] = Head(chunks[s])]
      BY <1>3 DEF Talk!SendChunk, Talk!Talking
  <2>2. recorded' = recorded
      BY <1>3 DEF Talk!SendChunk
  <2>3. /\ Recent(Tail(chunks[s]), recorded[s], Head(chunks[s]))
        /\ Recent(Tail(chunks[s]), recorded[s], sent[s])
        /\ Head(chunks[s]) > sent[s] /\ recorded[s] - Head(chunks[s]) < MaxQueued
      BY <2>1, RecentHead DEF TalkRecent
  <2>4. /\ chunks'[s] = Tail(chunks[s]) /\ sent'[s] \in {sent[s], Head(chunks[s])}
        /\ \A t \in Sessions : t # s => chunks'[t] = chunks[t] /\ sent'[t] = sent[t]
      BY <2>1 DEF TalkRecent
  <2>5. \A t \in Sessions : Recent(chunks'[t], recorded[t], sent'[t])
      BY <2>3, <2>4 DEF TalkRecent
  <2>6. chunks' = [t \in Sessions |-> chunks'[t]] /\ sent' = [t \in Sessions |-> sent'[t]]
      BY <2>1 DEF TalkRecent
  <2>7. Talk!SendsRecent
      BY <2>3, <2>4 DEF Talk!SendsRecent
  <2>. QED
      BY <2>2, <2>5, <2>6, <2>7 DEF TalkRecent
<1>. QED
    BY <1>1, <1>2, <1>3 DEF Talk!Next, talkVars, Talk!TalkOn, Talk!TalkOff,
       Talk!Ended, Talk!StopEvent,
       Talk!Opened, Talk!Checked, Talk!ConnectDone, Talk!StopSeen, Talk!Closed,
       Talk!SomebodyElse, Talk!audio
-----------------------------------------------------------------------------
(* Saving.                                                                 *)

(* One writer's pieces, and how the next of them joins.                    *)
Copies(d, n) == [i \in 1 .. n |-> d]

LEMMA CopiesGrow ==
    ASSUME NEW d, NEW n \in Nat, NEW k \in Nat, n < k
    PROVE  Saving!Put(Copies(d, n), d, n + 1, k) = Copies(d, k)
<1>1. Len(Copies(d, n)) = n
    BY DEF Copies
<1>2. Saving!Put(Copies(d, n), d, n + 1, k) =
        [i \in 1 .. k |->
            IF i \in n + 1 .. k THEN d ELSE IF i <= n THEN Copies(d, n)[i] ELSE Saving!None]
    BY <1>1 DEF Saving!Put
<1>3. \A i \in 1 .. k :
        (IF i \in n + 1 .. k THEN d ELSE IF i <= n THEN Copies(d, n)[i] ELSE Saving!None) = d
    BY DEF Copies
<1>. QED
    BY <1>2, <1>3 DEF Copies

LEMMA CopiesBegin ==
    ASSUME NEW d, NEW k \in Nat, 0 < k
    PROVE  Saving!Put(<<>>, d, 1, k) = Copies(d, k)
<1>1. <<>> = Copies(d, 0) /\ 0 + 1 = 1 /\ 0 \in Nat
    BY DEF Copies
<1>2. Saving!Put(Copies(d, 0), d, 0 + 1, k) = Copies(d, k)
    BY <1>1, CopiesGrow
<1>. QED
    BY Zenon, <1>1, <1>2

Early == {"new", "mkdir", "checking"}
Writing == {"head", "body", "done"}

(* What a download that is on its own has of its file.                     *)
Holds(d) ==
    /\ download[d] \in Early => handle[d] = Saving!None /\ got[d] = 0
    /\ download[d] \in Writing => handle[d] = part /\ part # Saving!None
    /\ download[d] = "head" => data[part] = <<>> /\ got[d] \in Nat
    /\ download[d] = "body" =>
          data[part] = Copies(d, got[d]) /\ got[d] \in Nat \ {0} /\ body[d] = "media"
    /\ download[d] = "done" => data[part] = Saving!Whole(d) /\ body[d] = "media"

(* Unless two downloads ever were under way at once: one is, at most; the  *)
(* two names stand for different files, neither of a download that has not *)
(* opened its own; what is saved is whole and stays as it is.              *)
SavingShape ==
    /\ download = [d \in Loads |-> download[d]] /\ got = [d \in Loads |-> got[d]]
    /\ handle = [d \in Loads |-> handle[d]] /\ data = [d \in Loads |-> data[d]]
    /\ body = [d \in Loads |-> body[d]]
    /\ {part, out} \subseteq Loads \cup {Saving!None}
    /\ part # Saving!None => part # out /\ download[part] \notin Early
    /\ out # Saving!None => download[out] \notin Early
SavedWhole ==
    out # Saving!None =>
        \E d \in Loads :
            download[d] = "saved" /\ data[out] = Saving!Whole(d) /\ body[d] = "media"
PartOwned ==
    part # Saving!None =>
        \E d \in Loads :
            \/ download[d] = "dead"
            \/ handle[d] = part /\ (d \in Saving!Running \/ download[d] \in {"kept", "unflushed"})
Alone ==
    /\ SavingShape
    /\ \A d, e \in Saving!Running : d = e
    /\ \A d \in Loads : Holds(d)
    /\ SavedWhole /\ PartOwned
OneSaves == shared \/ Alone

LEMMA InitSaves == Saving!Init => OneSaves
BY PartsAssumption DEF Saving!Init, OneSaves, Alone, SavedWhole, PartOwned, SavingShape, Holds, Early,
   Writing, Saving!Running,
   Saving!None, Saving!Files, Saving!LoadAssumption

(* A step of one download is a step of no other.                           *)
LEMMA OneGoes ==
    ASSUME SavingShape, NEW d \in Loads, NEW next, Saving!To(d, next)
    PROVE  /\ download' = [e \in Loads |-> download'[e]] /\ download'[d] = next
           /\ \A e \in Loads : e # d => download'[e] = download[e]
BY DEF SavingShape, Saving!To

(* A download writes no more; the .part name is gone, or was not its own,  *)
(* or is left to the except clause or for good.                            *)
LEMMA WritesNoMore ==
    ASSUME Alone, NEW d \in Loads, d \in Saving!Running,
           NEW next \in {"failed", "broken", "unflushed", "kept"}, Saving!To(d, next),
           part' = Saving!None \/ (part' = part /\ (download[d] \in Early \/ next # "failed")),
           got' = [e \in Loads |-> got'[e]], \A e \in Loads : e # d => got'[e] = got[e],
           data' = [e \in Loads |-> data'[e]], \A f \in Loads : f # part => data'[f] = data[f],
           UNCHANGED <<handle, out, body>>
    PROVE  Alone'
<1>1. /\ download' = [e \in Loads |-> download'[e]] /\ download'[d] = next
      /\ \A e \in Loads : e # d => download'[e] = download[e]
    BY OneGoes DEF Alone
<1>2. SavingShape'
    BY <1>1 DEF Alone, SavingShape, Early
<1>3. \A e \in Loads : e \in Saving!Running' => e \in Saving!Running
    BY <1>1 DEF Saving!Running, Saving!Ends
<1>4. \A e \in Loads : e # d => download[e] \notin Writing
    BY DEF Alone, Saving!Running, Saving!Ends, Writing
<1>5. \A e \in Loads : Holds(e)'
    BY <1>1, <1>4 DEF Alone, Holds, Early, Writing
<1>6. SavedWhole'
    BY <1>1 DEF SavedWhole, Saving!Whole, Alone, Saving!Running, Saving!Ends, SavingShape
<1>7. PartOwned'
    BY <1>1 DEF PartOwned, Alone, Saving!Running, Saving!Ends, Holds, Early
<1>. QED
    BY <1>2, <1>3, <1>5, <1>6, <1>7 DEF Alone, Saving!Running, Saving!Whole

(* The one download under way goes on with its file.                       *)
LEMMA GoesOnAlone ==
    ASSUME Alone, NEW d \in Saving!Running, NEW next \in Writing \cup {"broken"},
           download' = [download EXCEPT ![d] = next],
           got' = [e \in Loads |-> got'[e]], \A e \in Loads : e # d => got'[e] = got[e],
           handle' = [e \in Loads |-> handle'[e]], \A e \in Loads : e # d => handle'[e] = handle[e],
           data' = [e \in Loads |-> data'[e]], \A f \in Loads : f # part' => data'[f] = data[f],
           part' = IF part = Saving!None THEN d ELSE part,
           download[d] \in Writing \/ part # Saving!None \/ (out # d),
           UNCHANGED <<out, body>>, Holds(d)', handle'[d] = part'
    PROVE  Alone'
<1>0. d \in Loads /\ d # Saving!None
    BY PartsAssumption DEF Saving!Running, Saving!LoadAssumption, Saving!None
<1>1. /\ download' = [e \in Loads |-> download'[e]] /\ download'[d] = next
      /\ \A e \in Loads : e # d => download'[e] = download[e]
    BY <1>0 DEF Alone, SavingShape
<1>2. part' \in Loads /\ part' # out /\ part' # Saving!None
    BY <1>0 DEF Alone, SavingShape, Holds, Writing
<1>3. SavingShape'
    BY <1>0, <1>1, <1>2 DEF Alone, SavingShape, Early, Writing
<1>4. \A e \in Loads : e # d => e \notin Saving!Running /\ e \notin Saving!Running'
    BY <1>1 DEF Alone, Saving!Running
<1>5. \A e \in Loads : e # d => Holds(e)'
    BY <1>1, <1>4 DEF Alone, Holds, Early, Writing, Saving!Running, Saving!Ends
<1>6. SavedWhole'
  <2>. SUFFICES ASSUME out # Saving!None PROVE SavedWhole'
      BY DEF SavedWhole
  <2>1. PICK e \in Loads : download[e] = "saved" /\ data[out] = Saving!Whole(e) /\ body[e] = "media"
      BY DEF SavedWhole, Alone
  <2>2. e # d /\ out \in Loads
      BY <2>1 DEF Saving!Running, Saving!Ends, Alone, SavingShape
  <2>3. download'[e] = "saved" /\ data'[out'] = data[out]
      BY <1>1, <1>2, <2>1, <2>2
  <2>. QED
      BY <2>1, <2>3 DEF SavedWhole, Saving!Whole
<1>7. d \in Saving!Running' /\ handle'[d] = part'
    BY <1>0, <1>1 DEF Saving!Running, Saving!Ends, Writing
<1>. QED
    BY <1>0, <1>3, <1>4, <1>5, <1>6, <1>7 DEF Alone, PartOwned, Saving!Running

(* A download that has its file open has the one under the .part name.     *)
LEMMA WritersFile ==
    ASSUME Alone, NEW d \in Loads, download[d] \in {"head", "body"}
    PROVE  /\ d \in Saving!Running /\ handle[d] = part /\ part # Saving!None /\ part \in Loads
           /\ got[d] \in Nat
<1>1. Holds(d) /\ part \in Loads \cup {Saving!None}
    BY DEF Alone, SavingShape
<1>2. handle[d] = part /\ part # Saving!None /\ got[d] \in Nat
    BY <1>1 DEF Holds, Writing
<1>. QED
    BY <1>1, <1>2 DEF Saving!Running, Saving!Ends

(* The head is told: the download goes on with what it held back, or ends. *)
LEMMA HeadTold ==
    ASSUME Alone, NEW d \in Loads, download[d] = "head", NEW n \in Nat, 0 < n, Saving!Told(d, n),
           got' = [e \in Loads |-> got'[e]], got'[d] = n,
           \A e \in Loads : e # d => got'[e] = got[e],
           UNCHANGED <<handle, part, out, body>>
    PROVE  Alone'
<1>1. /\ d \in Saving!Running /\ handle[d] = part /\ part # Saving!None /\ part \in Loads
      /\ data[part] = <<>>
    BY WritersFile DEF Alone, Holds
<1>2. CASE ~Saving!Checked(d) /\ Saving!To(d, "broken") /\ UNCHANGED data
    BY <1>1, <1>2, WritesNoMore DEF Alone, SavingShape
<1>3. CASE /\ Saving!Checked(d) /\ Saving!To(d, "body")
           /\ data' = [data EXCEPT ![handle[d]] = Saving!Put(@, d, 1, n)]
  <2>1. data' = [data EXCEPT ![part] = Copies(d, n)]
      BY <1>1, <1>3, CopiesBegin
  <2>2. /\ data' = [e \in Loads |-> data'[e]] /\ data'[part] = Copies(d, n)
        /\ \A f \in Loads : f # part => data'[f] = data[f]
      BY <1>1, <2>1 DEF Alone, SavingShape
  <2>3. download' = [download EXCEPT ![d] = "body"] /\ download'[d] = "body"
      BY <1>3 DEF Saving!To, Alone, SavingShape
  <2>4. Holds(d)'
      BY <1>1, <1>3, <2>2, <2>3 DEF Holds, Early, Writing, Saving!Checked
  <2>. QED
      BY <1>1, <2>2, <2>3, <2>4, GoesOnAlone DEF Writing, Alone, SavingShape
<1>. QED
    BY <1>2, <1>3 DEF Saving!Told

LEMMA StepSaves == ASSUME OneSaves, [Saving!Next]_savingVars PROVE OneSaves'
<1>1. CASE shared
  <2>1. shared'
      BY <1>1, Zenon DEF Saving!Next, Saving!Start, Saving!Opened, Saving!Piece,
         Saving!Aborted,
         Saving!ShortBody, Saving!CleanUp, Saving!BodyEnds, Saving!WriteAll, Saving!Replaced, Saving!Quit, savingVars
  <2>. QED
      BY <2>1 DEF OneSaves
<1>2. CASE ~shared
  <2>0. Alone
      BY <1>2 DEF OneSaves
  <2>1. CASE Saving!Start
    <3>1. PICK d \in Loads :
            /\ download[d] = "new"
            /\ Saving!To(d, IF d \in Streamed THEN "mkdir" ELSE "checking")
            /\ \E b \in {"media", "error"} : body' = [body EXCEPT ![d] = b]
        BY <2>1 DEF Saving!Start
    <3>2. PICK next \in {"mkdir", "checking"} : Saving!To(d, next)
        BY <3>1
    <3>3. /\ download' = [e \in Loads |-> download'[e]] /\ download'[d] = next
          /\ \A e \in Loads : e # d => download'[e] = download[e]
        BY <2>0, <3>2, OneGoes DEF Alone
    <3>4. UNCHANGED <<got, handle, part, out, data>>
        BY <2>1 DEF Saving!Start, Saving!names
    <3>5. body' = [e \in Loads |-> body'[e]] /\ \A e \in Loads : e # d => body'[e] = body[e]
        BY <2>0, <3>1 DEF Alone, SavingShape
    <3>6. CASE Saving!Running # {}
      <4>1. shared'
          BY <2>1, <3>6, Zenon DEF Saving!Start
      <4>. QED
          BY <4>1 DEF OneSaves
    <3>7. CASE Saving!Running = {}
      <4>1. SavingShape'
          BY <2>0, <3>1, <3>3, <3>4, <3>5 DEF Alone, SavingShape, Early
      <4>2. \A e \in Loads : e \in Saving!Running' => e = d
          BY <3>3, <3>7 DEF Saving!Running
      <4>3. \A e \in Loads : Holds(e)'
          BY <2>0, <3>1, <3>2, <3>3, <3>4, <3>5 DEF Alone, Holds, Early, Writing
      <4>4. SavedWhole'
          BY <2>0, <3>1, <3>3, <3>4, <3>5 DEF SavedWhole, PartOwned, Saving!Whole, Alone
      <4>5. PartOwned'
          BY <2>0, <3>1, <3>3, <3>4, <3>7 DEF SavedWhole, PartOwned, Saving!Whole, Alone
      <4>. QED
          BY <4>1, <4>2, <4>3, <4>4, <4>5 DEF Alone, OneSaves, Saving!Running,
             Saving!Whole
    <3>. QED
        BY <3>6, <3>7
  <2>2. CASE Saving!Opened
    <3>0. UNCHANGED <<got, out, body, shared>> /\ got' = [e \in Loads |-> got'[e]]
        BY <2>0, <2>2 DEF Saving!Opened, Alone, SavingShape
    <3>1. PICK d \in Loads :
            /\ download[d] = "mkdir"
            /\ \/ Saving!Filled(d, <<>>) /\ Saving!To(d, "head")
               \/ Saving!To(d, "failed") /\ UNCHANGED <<part, handle, data>>
        BY <2>2 DEF Saving!Opened
    <3>2. d \in Saving!Running
        BY <3>1 DEF Saving!Running, Saving!Ends
    <3>3. CASE Saving!To(d, "failed") /\ UNCHANGED <<part, handle, data>>
        BY <2>0, <3>0, <3>1, <3>2, <3>3, WritesNoMore DEF OneSaves, Early, Alone,
           SavingShape
    <3>4. CASE Saving!Filled(d, <<>>) /\ Saving!To(d, "head")
      <4>1. /\ part' = IF part = Saving!None THEN d ELSE part
            /\ handle' = [handle EXCEPT ![d] = part']
            /\ data' = [data EXCEPT ![part'] = <<>>]
            /\ download' = [download EXCEPT ![d] = "head"]
          BY <3>4 DEF Saving!Filled, Saving!To
      <4>2. d # Saving!None /\ part' \in Loads
          BY <2>0, <4>1, PartsAssumption DEF Saving!LoadAssumption, Saving!None,
             Alone, SavingShape
      <4>3. /\ handle' = [e \in Loads |-> handle'[e]] /\ handle'[d] = part'
            /\ \A e \in Loads : e # d => handle'[e] = handle[e]
            /\ data' = [e \in Loads |-> data'[e]] /\ data'[part'] = <<>>
            /\ \A f \in Loads : f # part' => data'[f] = data[f]
            /\ download'[d] = "head"
          BY <2>0, <4>1, <4>2 DEF Alone, SavingShape
      <4>4. got[d] = 0 /\ part' # Saving!None /\ out # d
          BY <2>0, <3>1, <4>1, <4>2 DEF Alone, Holds, Early, SavingShape
      <4>5. Holds(d)'
          BY <3>0, <4>3, <4>4 DEF Holds, Early, Writing
      <4>. QED
          BY <2>0, <3>0, <3>1, <3>2, <4>1, <4>3, <4>4, <4>5, GoesOnAlone
             DEF OneSaves, Writing
    <3>. QED
        BY <3>1, <3>3, <3>4
  <2>3. CASE Saving!Piece
    <3>0. UNCHANGED <<handle, part, out, body, shared>>
        BY <2>3 DEF Saving!Piece, Saving!names
    <3>1. PICK d \in Loads :
            /\ download[d] \in {"head", "body"} /\ got[d] < Chunks
            /\ got' = [got EXCEPT ![d] = @ + 1]
            /\ \/ download[d] = "head" /\ UNCHANGED <<download, data>>
               \/ download[d] = "head" /\ Saving!Told(d, got'[d])
               \/ /\ download[d] = "body" /\ UNCHANGED download
                  /\ data' = [data EXCEPT ![handle[d]] = Saving!Put(@, d, got'[d], got'[d])]
        BY <2>3 DEF Saving!Piece
    <3>2. /\ d \in Saving!Running /\ handle[d] = part /\ part # Saving!None /\ part \in Loads
          /\ got[d] \in Nat
        BY <2>0, <3>1, WritersFile
    <3>3. /\ got' = [e \in Loads |-> got'[e]] /\ got'[d] = got[d] + 1
          /\ \A e \in Loads : e # d => got'[e] = got[e]
        BY <2>0, <3>1 DEF Alone, SavingShape
    <3>4. CASE download[d] = "head" /\ UNCHANGED <<download, data>>
      <4>1. Holds(d)'
          BY <2>0, <3>0, <3>2, <3>3, <3>4 DEF Alone, Holds, Early, Writing
      <4>2. download' = [download EXCEPT ![d] = "head"]
          BY <2>0, <3>4 DEF Alone, SavingShape
      <4>. QED
          BY <2>0, <3>0, <3>2, <3>3, <3>4, <4>1, <4>2, GoesOnAlone DEF OneSaves,
             Writing, Alone, SavingShape
    <3>5. CASE download[d] = "head" /\ Saving!Told(d, got'[d])
      <4>1. got'[d] \in Nat /\ 0 < got'[d]
          BY <3>2, <3>3
      <4>. QED
          BY <2>0, <3>0, <3>3, <3>5, <4>1, HeadTold DEF OneSaves
    <3>6. CASE /\ download[d] = "body" /\ UNCHANGED download
               /\ data' = [data EXCEPT ![handle[d]] = Saving!Put(@, d, got'[d], got'[d])]
      <4>1. data[part] = Copies(d, got[d]) /\ body[d] = "media"
          BY <2>0, <3>6 DEF Alone, Holds
      <4>2. /\ data' = [e \in Loads |-> data'[e]] /\ data'[part] = Copies(d, got'[d])
            /\ \A f \in Loads : f # part => data'[f] = data[f]
        <5>1. Saving!Put(data[part], d, got'[d], got'[d]) = Copies(d, got'[d])
            BY <3>2, <3>3, <4>1, CopiesGrow
        <5>2. data' = [data EXCEPT ![part] = Copies(d, got'[d])]
            BY <3>2, <3>6, <5>1
        <5>. QED
            BY <2>0, <3>2, <5>2 DEF Alone, SavingShape
      <4>3. download' = [download EXCEPT ![d] = "body"] /\ download'[d] = "body"
          BY <2>0, <3>6 DEF Alone, SavingShape
      <4>4. Holds(d)'
          BY <3>0, <3>2, <3>3, <3>6, <4>1, <4>2, <4>3 DEF Holds, Early, Writing
      <4>. QED
          BY <2>0, <3>0, <3>2, <3>3, <3>6, <4>2, <4>3, <4>4, GoesOnAlone
             DEF OneSaves, Writing, Alone, SavingShape
    <3>. QED
        BY <3>1, <3>4, <3>5, <3>6
  <2>4. CASE Saving!ShortBody
    <3>1. PICK d \in Loads :
            download[d] = "head" /\ got[d] = Chunks /\ Saving!Told(d, Chunks)
        BY <2>4 DEF Saving!ShortBody
    <3>2. UNCHANGED <<got, handle, part, out, body, shared>>
        BY <2>4 DEF Saving!ShortBody, Saving!names
    <3>3. Chunks \in Nat /\ 0 < Chunks /\ got' = [e \in Loads |-> got'[e]]
        BY <2>0, <3>2, PartsAssumption DEF Saving!ChunkAssumption, Alone, SavingShape
    <3>. QED
        BY <2>0, <3>1, <3>2, <3>3, HeadTold DEF OneSaves
  <2>5. CASE Saving!Aborted
    <3>1. PICK d \in Loads :
            /\ download[d] \in {"head", "body"} /\ Saving!To(d, "broken")
            /\ \/ UNCHANGED data
               \/ data' = [data EXCEPT ![handle[d]] = Saving!Put(@, d, 1, got[d])]
        BY <2>5 DEF Saving!Aborted
    <3>2. UNCHANGED <<got, handle, part, out, body, shared>>
        BY <2>5 DEF Saving!Aborted, Saving!names
    <3>3. d \in Saving!Running /\ handle[d] = part
        BY <2>0, <3>1, WritersFile
    <3>4. data' = [e \in Loads |-> data'[e]] /\ \A f \in Loads : f # part => data'[f] = data[f]
        BY <2>0, <3>1, <3>3 DEF Alone, SavingShape
    <3>. QED
        BY <2>0, <3>1, <3>2, <3>3, <3>4, WritesNoMore DEF OneSaves, Alone, SavingShape
  <2>6. CASE Saving!CleanUp
    <3>1. PICK d \in Loads :
            /\ download[d] = "broken"
            /\ (Saving!To(d, "unflushed") /\ UNCHANGED part) \/ Saving!Removed(d)
        BY <2>6 DEF Saving!CleanUp
    <3>2. d \in Saving!Running /\ UNCHANGED <<got, handle, out, data, body, shared>>
        BY <2>6, <3>1 DEF Saving!CleanUp, Saving!Running, Saving!Ends
    <3>3. CASE Saving!To(d, "unflushed") /\ UNCHANGED part
        BY <2>0, <3>2, <3>3, WritesNoMore DEF OneSaves, Alone, SavingShape
    <3>4. CASE Saving!Removed(d)
        BY <2>0, <3>2, <3>4, WritesNoMore DEF OneSaves, Alone, SavingShape, Saving!Removed,
           Saving!Unlinked
    <3>. QED
        BY <3>1, <3>3, <3>4
  <2>7. CASE Saving!BodyEnds
    <3>1. PICK d \in Loads :
            /\ download[d] = "body" /\ got[d] = Chunks
            /\ Saving!To(d, "done") \/ Saving!To(d, "unflushed")
        BY <2>7 DEF Saving!BodyEnds
    <3>2. UNCHANGED <<got, handle, part, out, data, body, shared>>
        BY <2>7 DEF Saving!BodyEnds, Saving!names
    <3>3. d \in Saving!Running /\ handle[d] = part /\ part # Saving!None
        BY <2>0, <3>1, WritersFile
    <3>4. CASE Saving!To(d, "done")
      <4>1. download' = [download EXCEPT ![d] = "done"] /\ download'[d] = "done"
          BY <2>0, <3>4 DEF Saving!To, Alone, SavingShape
      <4>2. Holds(d)'
          BY <2>0, <3>1, <3>2, <3>3, <4>1 DEF Alone, Holds, Early, Writing, Copies,
             Saving!Whole
      <4>. QED
          BY <2>0, <3>1, <3>2, <3>3, <4>1, <4>2, GoesOnAlone DEF OneSaves, Writing, Alone,
             SavingShape
    <3>5. CASE Saving!To(d, "unflushed")
        BY <2>0, <3>2, <3>3, <3>5, WritesNoMore DEF OneSaves, Alone, SavingShape
    <3>. QED
        BY <3>1, <3>4, <3>5
  <2>8. CASE Saving!WriteAll
    <3>0. UNCHANGED <<got, out, body, shared>> /\ got' = [e \in Loads |-> got'[e]]
        BY <2>0, <2>8 DEF Saving!WriteAll, Alone, SavingShape
    <3>1. PICK d \in Loads :
            /\ download[d] = "checking"
            /\ \/ Saving!To(d, "failed") /\ UNCHANGED <<part, handle, data>>
               \/ Saving!Checked(d) /\ Saving!To(d, "done") /\ Saving!Filled(d, Saving!Whole(d))
               \/ /\ Saving!Checked(d) /\ Saving!To(d, "broken")
                  /\ Saving!Filled(d, <<>>) \/ UNCHANGED <<part, handle, data>>
        BY <2>8 DEF Saving!WriteAll
    <3>2. d \in Saving!Running
        BY <3>1 DEF Saving!Running, Saving!Ends
    <3>3. CASE /\ Saving!To(d, "failed") \/ Saving!To(d, "broken")
               /\ UNCHANGED <<part, handle, data>>
        BY <2>0, <3>0, <3>1, <3>2, <3>3, WritesNoMore DEF OneSaves, Early, Alone, SavingShape
    <3>4. ASSUME NEW next \in {"done", "broken"}, NEW pieces, Saving!To(d, next),
                 Saving!Filled(d, pieces),
                 next = "done" => Saving!Checked(d) /\ pieces = Saving!Whole(d)
          PROVE  OneSaves'
      <4>0. /\ part' = IF part = Saving!None THEN d ELSE part
            /\ handle' = [handle EXCEPT ![d] = part']
            /\ data' = [data EXCEPT ![part'] = pieces]
          BY <3>4 DEF Saving!Filled
      <4>1. d # Saving!None /\ part' \in Loads /\ download' = [download EXCEPT ![d] = next]
          BY <2>0, <3>4, <4>0, PartsAssumption DEF Saving!LoadAssumption, Saving!None,
             Alone, SavingShape, Saving!To
      <4>2. /\ handle' = [e \in Loads |-> handle'[e]] /\ handle'[d] = part'
            /\ \A e \in Loads : e # d => handle'[e] = handle[e]
            /\ data' = [e \in Loads |-> data'[e]] /\ data'[part'] = pieces
            /\ \A f \in Loads : f # part' => data'[f] = data[f]
            /\ download'[d] = next
          BY <2>0, <4>0, <4>1 DEF Alone, SavingShape
      <4>3. part' # Saving!None /\ out # d /\ (next = "done" => body[d] = "media")
          BY <2>0, <3>1, <3>4, <4>0, <4>1 DEF Alone, Early, SavingShape, Saving!Checked
      <4>4. Holds(d)'
          BY <3>0, <3>4, <4>2, <4>3 DEF Holds, Early, Writing, Saving!Whole
      <4>. QED
          BY <2>0, <3>0, <3>1, <3>2, <4>0, <4>1, <4>2, <4>3, <4>4, GoesOnAlone
             DEF OneSaves, Writing
    <3>. QED
        BY <3>1, <3>3, <3>4
  <2>9. CASE Saving!Replaced
    <3>0. UNCHANGED <<got, handle, data, body, shared>>
        BY <2>9 DEF Saving!Replaced
    <3>1. PICK d \in Loads :
            /\ download[d] = "done"
            /\ \/ part # Saving!None /\ out' = part /\ part' = Saving!None /\ Saving!To(d, "saved")
               \/ Saving!Removed(d) /\ UNCHANGED out
        BY <2>9 DEF Saving!Replaced
    <3>2. d \in Saving!Running
        BY <3>1 DEF Saving!Running, Saving!Ends
    <3>3. CASE Saving!Removed(d) /\ UNCHANGED out
        BY <2>0, <3>0, <3>1, <3>2, <3>3, WritesNoMore DEF OneSaves, Saving!Removed,
           Saving!Unlinked, Alone, SavingShape
    <3>4. CASE part # Saving!None /\ out' = part /\ part' = Saving!None /\ Saving!To(d, "saved")
      <4>1. /\ download' = [e \in Loads |-> download'[e]] /\ download'[d] = "saved"
            /\ \A e \in Loads : e # d => download'[e] = download[e]
          BY <2>0, <3>4, OneGoes DEF Alone
      <4>2. data[part] = Saving!Whole(d) /\ body[d] = "media"
          BY <2>0, <3>1 DEF Alone, Holds
      <4>3. SavingShape'
          BY <2>0, <3>0, <3>4, <4>1 DEF Alone, SavingShape, Early
      <4>4. \A e \in Loads : e \in Saving!Running' => e \in Saving!Running /\ e # d
          BY <4>1 DEF Saving!Running, Saving!Ends
      <4>5. \A e \in Loads : e # d => download[e] \notin Writing
          BY <2>0, <3>2 DEF Alone, Saving!Running, Saving!Ends, Writing
      <4>6. \A e \in Loads : Holds(e)'
          BY <2>0, <3>0, <4>1, <4>5 DEF Alone, Holds, Early, Writing
      <4>7. download'[d] = "saved" /\ data'[out'] = Saving!Whole(d) /\ body'[d] = "media"
          BY <3>0, <3>4, <4>1, <4>2
      <4>. QED
          BY <2>0, <3>4, <4>3, <4>4, <4>6, <4>7 DEF OneSaves, Alone, SavedWhole, PartOwned, Saving!Running,
             Saving!Whole
    <3>. QED
        BY <3>1, <3>3, <3>4
  <2>10. CASE Saving!Quit
    <3>1. /\ download' = [d \in Loads |-> IF d \in Saving!Running THEN "dead" ELSE download[d]]
          /\ UNCHANGED <<got, handle, part, out, data, body, shared>>
        BY <2>10 DEF Saving!Quit, Saving!names
    <3>2. SavingShape'
        BY <2>0, <3>1 DEF Alone, SavingShape, Early
    <3>3. \A d \in Loads : d \notin Saving!Running'
        BY <3>1 DEF Saving!Running, Saving!Ends
    <3>4. \A d \in Loads : Holds(d)'
        BY <2>0, <3>1 DEF Alone, Holds, Early, Writing, Saving!Running
    <3>5. SavedWhole'
        BY <2>0, <3>1 DEF SavedWhole, PartOwned, Saving!Whole, Alone, Saving!Running, Saving!Ends
    <3>6. PartOwned'
        BY <2>0, <3>1 DEF Alone, PartOwned, Saving!Running, Saving!Ends
    <3>. QED
        BY <3>2, <3>3, <3>4, <3>5, <3>6 DEF OneSaves, Alone, Saving!Running
  <2>11. CASE UNCHANGED savingVars
    <3>1. UNCHANGED <<download, got, handle, part, out, data, body>>
        BY <2>11 DEF savingVars
    <3>2. SavingShape' /\ Saving!Running' = Saving!Running
        BY <2>0, <3>1 DEF Alone, SavingShape, Saving!Running
    <3>3. \A d \in Loads : Holds(d)'
        BY <2>0, <3>1 DEF Alone, Holds, Saving!Whole
    <3>. QED
        BY <2>0, <3>1, <3>2, <3>3 DEF OneSaves, Alone, SavedWhole, PartOwned, Saving!Whole
  <2>. QED
      BY <2>1, <2>2, <2>3, <2>4, <2>5, <2>6, <2>7, <2>8, <2>9,
         <2>10, <2>11 DEF Saving!Next
<1>. QED
    BY <1>1, <1>2
-----------------------------------------------------------------------------
(* Receipts.                                                               *)

ReceiptShown ==
    /\ mode \in [Slots -> {"live", "history", "leaving"}]
    /\ slotCamera = [s \in Slots |-> slotCamera[s]]
    /\ receipt = [s \in Slots |-> receipt[s]]
    /\ \A s \in Slots : receipt[s] # Pos!NoReceipt =>
          /\ receipt[s].of = slotCamera[s]
          /\ mode[s] # "live" => receipt[s].over = "leaving"

LEMMA InitReceipts == Pos!Init => ReceiptShown
BY DEF Pos!Init, ReceiptShown

(* Receipts are hidden where the slot changes, and only there.             *)
LEMMA HiddenKeeps ==
    ASSUME ReceiptShown, NEW S, Pos!Hidden(S),
           slotCamera' = [s \in Slots |-> slotCamera'[s]],
           mode' \in [Slots -> {"live", "history", "leaving"}],
           \A s \in Slots : s \notin S =>
              /\ slotCamera'[s] = slotCamera[s]
              /\ mode'[s] = mode[s] \/ mode'[s] = "live" \/ mode[s] # "live"
    PROVE  ReceiptShown'
<1>1. /\ receipt' = [s \in Slots |-> receipt'[s]]
      /\ \A s \in Slots : receipt'[s] = IF s \in S THEN Pos!NoReceipt ELSE receipt[s]
    BY DEF Pos!Hidden
<1>. QED
    BY <1>1 DEF ReceiptShown, Pos!NoReceipt

LEMMA NothingHidden ==
    ASSUME ReceiptShown, UNCHANGED <<slotCamera, receipt>>,
           mode' \in [Slots -> {"live", "history", "leaving"}],
           \A s \in Slots : mode'[s] = mode[s] \/ mode'[s] = "live" \/ mode[s] # "live"
    PROVE  ReceiptShown'
BY DEF ReceiptShown, Pos!NoReceipt

LEMMA ShowKeeps ==
    ASSUME ReceiptShown, NEW c, NEW t, Pos!Show(c, t), UNCHANGED <<mode,
    slotCamera>>
    PROVE  ReceiptShown'
<1>1. receipt' = [s \in Slots |->
        IF s \in Pos!ShownSlots /\ slotCamera[s] = c /\ mode[s] # "history"
        THEN [of |-> c, text |-> t, over |-> mode[s]] ELSE receipt[s]]
    BY DEF Pos!Show
<1>2. receipt' = [s \in Slots |-> receipt'[s]]
    BY <1>1
<1>3. ASSUME NEW s \in Slots, receipt'[s] # Pos!NoReceipt
      PROVE  /\ receipt'[s].of = slotCamera[s]
             /\ mode[s] # "live" => receipt'[s].over = "leaving"
    BY <1>1, <1>3 DEF ReceiptShown
<1>. QED
    BY <1>2, <1>3 DEF ReceiptShown, Pos!NoReceipt

LEMMA StepReceipts == ASSUME ReceiptShown, [Pos!Next]_posVars PROVE ReceiptShown'
<1>0. CASE UNCHANGED <<slotCamera, mode, receipt>>
    BY <1>0, NothingHidden DEF ReceiptShown
<1>1. CASE \E p \in polls : Pos!Apply(p)
  <2>1. PICK p \in polls : Pos!Apply(p)
      BY <1>1
  <2>2. UNCHANGED <<slotCamera, mode>>
      BY <2>1 DEF Pos!Apply, Pos!screen
  <2>3. Pos!Show(paired', p.text) \/ UNCHANGED receipt
      BY <2>1 DEF Pos!Apply
  <2>. QED
      BY <1>0, <2>2, <2>3, ShowKeeps
<1>2. CASE \E s \in Slots : Pos!Timeout(s)
  <2>1. PICK s \in Slots :
          receipt' = [receipt EXCEPT ![s] = Pos!NoReceipt] /\ UNCHANGED <<slotCamera, mode>>
      BY <1>2 DEF Pos!Timeout, Pos!screen
  <2>2. /\ receipt' = [t \in Slots |-> receipt'[t]]
        /\ \A t \in Slots : receipt'[t] = receipt[t] \/ receipt'[t] = Pos!NoReceipt
      BY <2>1 DEF ReceiptShown
  <2>. QED
      BY <2>1, <2>2 DEF ReceiptShown, Pos!NoReceipt
<1>3. CASE \E s \in Slots, c \in Cams : Pos!Assign(s, c)
  <2>1. PICK s \in Slots, c \in Cams : Pos!Assign(s, c)
      BY <1>3
  <2>. DEFINE from == {t \in Slots : slotCamera[t] = c}
  <2>2. /\ slotCamera' = [t \in Slots |-> IF t = s THEN c
                                     ELSE IF t \in from THEN NoCam ELSE slotCamera[t]]
        /\ mode' = [t \in Slots |-> IF t \in {s} \cup from THEN "live" ELSE mode[t]]
        /\ Pos!Hidden({s} \cup from)
      BY <2>1 DEF Pos!Assign
  <2>3. /\ slotCamera' = [t \in Slots |-> slotCamera'[t]]
        /\ mode' \in [Slots -> {"live", "history", "leaving"}]
        /\ \A t \in Slots : t \notin ({s} \cup from) =>
              slotCamera'[t] = slotCamera[t] /\ mode'[t] = mode[t]
      BY <2>2 DEF ReceiptShown
  <2>. QED
      BY <2>2, <2>3, HiddenKeeps
<1>4. CASE \E s \in Slots : Pos!Clear(s)
  <2>1. PICK s \in Slots : Pos!Clear(s)
      BY <1>4
  <2>2. /\ slotCamera' = [slotCamera EXCEPT ![s] = NoCam]
        /\ mode' = [mode EXCEPT ![s] = "live"] /\ Pos!Hidden({s})
      BY <2>1 DEF Pos!Clear
  <2>3. /\ slotCamera' = [t \in Slots |-> slotCamera'[t]]
        /\ mode' \in [Slots -> {"live", "history", "leaving"}]
        /\ \A t \in Slots : t \notin {s} =>
              slotCamera'[t] = slotCamera[t] /\ mode'[t] = mode[t]
      BY <2>2 DEF ReceiptShown
  <2>. QED
      BY <2>2, <2>3, HiddenKeeps
<1>5. CASE \E s \in Slots : Pos!Seek(s)
  <2>1. PICK s \in Slots : Pos!Seek(s)
      BY <1>5
  <2>2. /\ mode' = [mode EXCEPT ![s] = "history"] /\ UNCHANGED slotCamera
        /\ IF mode[s] = "live" THEN Pos!Hidden({s}) ELSE UNCHANGED receipt
      BY <2>1 DEF Pos!Seek
  <2>3. /\ mode' \in [Slots -> {"live", "history", "leaving"}]
        /\ \A t \in Slots : t # s => mode'[t] = mode[t]
        /\ slotCamera' = [t \in Slots |-> slotCamera'[t]]
      BY <2>2 DEF ReceiptShown
  <2>. QED
      BY <2>2, <2>3, HiddenKeeps, NothingHidden
<1>6. CASE \E s \in Slots : Pos!Restart(s)
  <2>1. PICK s \in Slots :
          mode' = [mode EXCEPT ![s] = "live"] /\ UNCHANGED <<slotCamera, receipt>>
      BY <1>6 DEF Pos!Restart
  <2>2. /\ mode' \in [Slots -> {"live", "history", "leaving"}]
        /\ \A t \in Slots : mode'[t] = mode[t] \/ mode'[t] = "live"
      BY <2>1 DEF ReceiptShown
  <2>. QED
      BY <2>1, <2>2, NothingHidden
<1>7. /\ Pos!Left \in [Slots -> {"live", "history", "leaving"}]
      /\ \A s \in Slots : Pos!Left[s] = mode[s] \/ mode[s] # "live"
    BY DEF Pos!Left, Pos!Playing, ReceiptShown
<1>8. CASE Pos!GoLive
    BY <1>7, <1>8, NothingHidden DEF Pos!GoLive
<1>9. CASE \E A \in SUBSET Slots \ {{}} : Pos!SwitchLayout(A)
  <2>1. PICK A \in SUBSET Slots \ {{}} :
          /\ mode' = [s \in Slots |-> IF s \in A THEN Pos!Left[s] ELSE "live"]
          /\ UNCHANGED <<slotCamera, receipt>>
      BY <1>9 DEF Pos!SwitchLayout
  <2>2. /\ mode' \in [Slots -> {"live", "history", "leaving"}]
        /\ \A t \in Slots : mode'[t] = mode[t] \/ mode'[t] = "live" \/ mode[t] # "live"
      BY <1>7, <2>1
  <2>. QED
      BY <2>1, <2>2, NothingHidden
<1>10. CASE Pos!ReturnToPage
  <2>1. /\ mode' \in [Slots -> {"live", "history", "leaving"}]
        /\ \A t \in Slots : mode'[t] = "live"
        /\ UNCHANGED <<slotCamera, receipt>>
      BY <1>10 DEF Pos!ReturnToPage
  <2>. QED
      BY <2>1, NothingHidden
<1>11. CASE Pos!LeavePage \/ Pos!RingUp \/ Pos!GrowOld \/ Pos!Poll
             \/ (\E c \in Cams \cup {NoCam} : Pos!Pair(c)) \/ UNCHANGED posVars
    BY <1>0, <1>11 DEF Pos!LeavePage, Pos!RingUp, Pos!GrowOld, Pos!Poll, Pos!Pair,
       Pos!screen, posVars
<1>12. CASE \E p \in polls :
             Pos!DevicesRead(p) \/ Pos!SalesRead(p) \/ (\E off \in BOOLEAN : Pos!Fail(p, off))
    BY <1>0, <1>12 DEF Pos!DevicesRead, Pos!SalesRead, Pos!Fail, Pos!screen
<1>. QED
    BY <1>1, <1>2, <1>3, <1>4, <1>5, <1>6, <1>8, <1>9, <1>10, <1>11, <1>12
       DEF Pos!Next, Pos!SlotMoves
-----------------------------------------------------------------------------
(* The search for the next or previous event.                              *)

(* What the constants of a search are: times, with a camera and a step.   *)
SearchOK == Search!StepsAssumption /\ Search!StretchAssumption /\ Search!SearchAssumption

Below == {ss \in Nat \X Nat : ss[1] < ss[2]}

(* A set of natural numbers that is not empty has a least.                *)
LEMMA LeastNatural ==
  ASSUME NEW T, T \subseteq Nat, T # {}
  PROVE  \E n \in T : \A x \in T : n <= x
<1>1. IsWellFoundedOn({ss \in Nat \X Nat : ss[1] < ss[2]}, Nat)
  BY NatLessThanWellFounded, Zenon DEF OpToRel
<1>2. IsWellFoundedOn(Below, Nat)
  BY <1>1 DEF Below
<1>4. PICK n \in T : \A k \in T : <<k, n>> \notin Below
  BY <1>2, WFMin
<1>3. ASSUME NEW x \in T, x < n PROVE FALSE
  <2>1. <<x, n>> \in Below
    BY <1>3 DEF Below
  <2>. QED BY <2>1, <1>4
<1>5. \A x \in T : n <= x
  BY <1>3
<1>. QED BY <1>5

(* Induction over the natural numbers, for a set rather than a formula.    *)
LEMMA ByInduction ==
  ASSUME NEW S, 0 \in S, \A n \in Nat : n \in S => n + 1 \in S
  PROVE  Nat \subseteq S
<1>. DEFINE T == {n \in Nat : n \notin S}
<1>1. SUFFICES ASSUME T # {} PROVE FALSE
  OBVIOUS
<1>2. PICK n \in T : \A k \in T : n <= k
  <2>1. T \subseteq Nat
    OBVIOUS
  <2>. HIDE DEF T
  <2>. QED BY <1>1, <2>1, LeastNatural
<1>3. n \in Nat /\ n # 0 /\ n - 1 \in Nat
  OBVIOUS
<1>4. n - 1 \in T
  BY <1>3
<1>. QED BY <1>2, <1>3, <1>4

(* What Min and Max give: an element no other is beyond.                  *)
LEMMA MinOfNaturals ==
  ASSUME NEW T, T \subseteq Nat, T # {}
  PROVE  Search!Min(T) \in T /\ \A x \in T : Search!Min(T) <= x
BY LeastNatural DEF Search!Min

LEMMA MaxOfNaturals ==
  ASSUME NEW N \in Nat, NEW T, T \subseteq 0 .. N, T # {}
  PROVE  Search!Max(T) \in T /\ \A x \in T : x <= Search!Max(T)
<1>. DEFINE U == {N - x : x \in T}
<1>1. \A x \in T : x \in Nat /\ N - x \in Nat
  OBVIOUS
<1>2. PICK u \in U : \A x \in U : u <= x
  <2>1. U \subseteq Nat /\ U # {}
    BY <1>1
  <2>. HIDE DEF U
  <2>. QED BY <2>1, LeastNatural
<1>3. PICK m \in T : u = N - m
  OBVIOUS
<1>4. \A x \in T : x <= m
  <2>. SUFFICES ASSUME NEW x \in T PROVE x <= m
    OBVIOUS
  <2>1. N - m <= N - x
    BY <1>2, <1>3
  <2>. QED BY <2>1
<1>5. \E y \in T : \A x \in T : y >= x
  BY <1>3, <1>4
<1>6. Search!Max(T) \in T /\ \A x \in T : Search!Max(T) >= x
  BY <1>5 DEF Search!Max
<1>. QED BY <1>6

(* Of two integers.                                                       *)
LEMMA MinOfTwo ==
  ASSUME NEW a \in Int, NEW b \in Int
  PROVE  Search!Min({a, b}) = IF a <= b THEN a ELSE b
<1>1. \E x \in {a, b} : \A y \in {a, b} : x <= y
  OBVIOUS
<1>2. Search!Min({a, b}) \in {a, b} /\ \A y \in {a, b} : Search!Min({a, b}) <= y
  BY <1>1 DEF Search!Min
<1>. QED BY <1>2

LEMMA MaxOfTwo ==
  ASSUME NEW a \in Int, NEW b \in Int
  PROVE  Search!Max({a, b}) = IF a <= b THEN b ELSE a
<1>1. \E x \in {a, b} : \A y \in {a, b} : x >= y
  OBVIOUS
<1>2. Search!Max({a, b}) \in {a, b} /\ \A y \in {a, b} : Search!Max({a, b}) >= y
  BY <1>1 DEF Search!Max
<1>. QED BY <1>2

(* No time is taken for Nowhere.                                          *)
LEMMA NowhereIsNoTime == \A n \in Nat : n # Search!Nowhere
<1>1. \A n \in Nat : n # -1
  OBVIOUS
<1>. QED BY <1>1 DEF Search!Nowhere

(* Playing forward, pick_nav_target gives the start of an event it may go *)
(* to, with no such event nearer, or there is none.                       *)
LEMMA PickFacts ==
  ASSUME SearchOK, Search!Knowledge, ~reverse, NEW E, E \subseteq events
  PROVE  /\ Search!Pick(E) = Search!Nowhere => \A e \in E : ~Search!Eligible(e)
         /\ Search!Pick(E) # Search!Nowhere =>
              /\ Search!Pick(E) \in Nat
              /\ \E e \in E : Search!Eligible(e) /\ e.start = Search!Pick(E)
              /\ \A e \in E : Search!Eligible(e) =>
                   IF forward THEN Search!Pick(E) <= e.start ELSE e.start <= Search!Pick(E)
<1>. DEFINE at == {Search!Anchor(e) : e \in {x \in E : Search!Eligible(x)}}
<1>1. Now \in Nat /\ \A e \in E : e.start \in 0 .. Now /\ Search!Anchor(e) = e.start
  BY DEF SearchOK, Search!Knowledge, Search!StretchAssumption, Search!Anchor
<1>2. /\ at \subseteq 0 .. Now /\ at \subseteq Nat
      /\ \A e \in E : Search!Eligible(e) => e.start \in at
      /\ \A x \in at : \E e \in E : Search!Eligible(e) /\ e.start = x
  BY <1>1
<1>3. Search!Pick(E) = IF at = {} THEN Search!Nowhere
                        ELSE IF forward THEN Search!Min(at) ELSE Search!Max(at)
  BY DEF Search!Pick
<1>. HIDE DEF at
<1>4. CASE at = {}
  BY <1>4, <1>2, <1>3
<1>5. CASE at # {}
  <2>1. CASE forward
    <3>1. Search!Min(at) \in at /\ \A x \in at : Search!Min(at) <= x
      BY <1>2, <1>5, MinOfNaturals
    <3>2. Search!Pick(E) = Search!Min(at)
      BY <2>1, <1>3, <1>5
    <3>3. Search!Pick(E) \in Nat
      BY <1>2, <3>1, <3>2
    <3>4. Search!Pick(E) # Search!Nowhere
      BY <3>3, NowhereIsNoTime
    <3>. QED BY <1>2, <3>1, <3>2, <3>3, <3>4, <2>1
  <2>2. CASE ~forward
    <3>1. Search!Max(at) \in at /\ \A x \in at : x <= Search!Max(at)
      BY <1>1, <1>2, <1>5, MaxOfNaturals
    <3>2. Search!Pick(E) = Search!Max(at)
      BY <2>2, <1>3, <1>5
    <3>3. Search!Pick(E) \in Nat
      BY <1>2, <3>1, <3>2
    <3>4. Search!Pick(E) # Search!Nowhere
      BY <3>3, NowhereIsNoTime
    <3>. QED BY <1>2, <3>1, <3>2, <3>3, <3>4, <2>2
  <2>. QED BY <2>1, <2>2
<1>. QED BY <1>4, <1>5

(* The stretch all caches have lies in each of them.                      *)
LEMMA CoveredFacts ==
  ASSUME SearchOK, Search!Knowledge, Search!Cached
  PROVE  /\ Search!Covered[1] \in 0 .. Now /\ Search!Covered[2] \in 0 .. Now
         /\ \A c \in Cams : eventCache[c][1] <= Search!Covered[1] /\ Search!Covered[2] <= eventCache[c][2]
         /\ \A c \in Cams : eventCache[c][1] \in 0 .. Now /\ eventCache[c][2] \in 0 .. Now
<1>. DEFINE F == {eventCache[c][1] : c \in Cams}
           T == {eventCache[c][2] : c \in Cams}
<1>1. \A c \in Cams : eventCache[c] \in (0 .. Now) \X (0 .. Now)
  BY DEF SearchOK, Search!Knowledge, Search!Cached, Search!StretchAssumption
<1>2. Now \in Nat /\ Cams # {}
  BY DEF SearchOK, Search!StretchAssumption, Search!SearchAssumption
<1>3. F \subseteq 0 .. Now /\ T \subseteq 0 .. Now /\ T \subseteq Nat /\ F # {} /\ T # {}
  BY <1>1, <1>2
<1>4. \A c \in Cams : eventCache[c][1] \in F /\ eventCache[c][2] \in T
  OBVIOUS
<1>5. Search!Covered = <<Search!Max(F), Search!Min(T)>>
  BY DEF Search!Covered
<1>. HIDE DEF F, T
<1>6. Search!Max(F) \in F /\ \A x \in F : x <= Search!Max(F)
  BY <1>2, <1>3, MaxOfNaturals
<1>7. Search!Min(T) \in T /\ \A x \in T : Search!Min(T) <= x
  BY <1>3, MinOfNaturals
<1>. QED BY <1>1, <1>3, <1>4, <1>5, <1>6, <1>7

(* A search begins at a time.                                             *)
LEMMA EdgeIsTime == ASSUME SearchOK, Search!Knowledge PROVE Search!Edge0 \in Int
<1>1. reference \in Int
  BY DEF SearchOK, Search!Knowledge, Search!StretchAssumption, Search!SearchAssumption
<1>2. CASE Search!Within
  <2>1. Search!Covered[1] \in 0 .. Now /\ Search!Covered[2] \in 0 .. Now
    BY <1>2, CoveredFacts DEF Search!Within
  <2>. QED BY <1>1, <2>1 DEF Search!Edge0
<1>. QED BY <1>1, <1>2 DEF Search!Edge0

(* The caches that hold the position, and what is in no window for them.   *)
LEMMA EdgeFacts ==
  ASSUME SearchOK, Search!Knowledge, ~reverse,
         Search!Within => \A e \in events : Search!InCache(e) => ~Search!Eligible(e)
  PROVE  /\ reference \in Int /\ Search!Edge0 \in Int /\ Search!SearchedTo(Search!Edge0)
         /\ ~forward /\ Search!Edge0 # reference =>
              \A e \in events : Search!Eligible(e) => e.start < Search!Edge0
<1>1. /\ reference \in Int /\ grace \in Nat /\ Skip \in Nat
      /\ \A e \in events : e.start \in Nat /\ e.camera \in Cams /\ Search!Anchor(e) = e.start
  BY DEF SearchOK, Search!Knowledge, Search!StretchAssumption, Search!SearchAssumption, Search!Anchor
<1>2. \A e \in events : Search!Eligible(e) =>
        IF forward THEN e.start > reference ELSE e.start <= reference
  BY <1>1 DEF Search!Eligible, Search!Ahead
<1>3. CASE ~Search!Within
  <2>1. Search!Edge0 = reference
    BY <1>3 DEF Search!Edge0
  <2>. QED BY <2>1, <1>1, <1>2 DEF Search!SearchedTo
<1>4. CASE Search!Within
  <2>1. Search!Cached /\ Search!Covered[1] <= reference /\ reference <= Search!Covered[2]
    BY <1>4 DEF Search!Within
  <2>2. /\ Search!Covered[1] \in 0 .. Now /\ Search!Covered[2] \in 0 .. Now
        /\ \A c \in Cams : eventCache[c][1] <= Search!Covered[1] /\ Search!Covered[2] <= eventCache[c][2]
        /\ \A c \in Cams : eventCache[c][1] \in 0 .. Now /\ eventCache[c][2] \in 0 .. Now
    BY <2>1, CoveredFacts
  <2>3. Now \in Nat
    BY DEF SearchOK, Search!StretchAssumption
  <2>4. ASSUME NEW e \in events, Search!Eligible(e)
        PROVE  ~(Search!Covered[1] <= e.start /\ e.start <= Search!Covered[2])
    <3>1. SUFFICES ASSUME Search!Covered[1] <= e.start, e.start <= Search!Covered[2]
                 PROVE  Search!InCache(e)
      BY <1>4, <2>4
    <3>. DEFINE c == e.camera
    <3>2. c \in Cams /\ eventCache[c] # Search!NotCached
      BY <1>1, <2>1 DEF Search!Cached
    <3>3. eventCache[c][1] <= e.start /\ e.start <= eventCache[c][2]
      BY <1>1, <2>2, <2>3, <3>1, <3>2
    <3>. QED BY <3>2, <3>3 DEF Search!InCache, Search!Between
  <2>5. CASE forward
    <3>1. Search!Edge0 = Search!Covered[2]
      BY <1>4, <2>5 DEF Search!Edge0
    <3>2. ASSUME NEW e \in events, Search!Eligible(e) PROVE e.start > Search!Covered[2]
      BY <3>2, <1>1, <1>2, <2>1, <2>2, <2>3, <2>4, <2>5
    <3>. QED BY <3>1, <3>2, <1>1, <2>2, <2>5 DEF Search!SearchedTo
  <2>6. CASE ~forward
    <3>1. Search!Edge0 = Search!Covered[1]
      BY <1>4, <2>6 DEF Search!Edge0
    <3>2. ASSUME NEW e \in events, Search!Eligible(e) PROVE e.start < Search!Covered[1]
      BY <3>2, <1>1, <1>2, <2>1, <2>2, <2>3, <2>4, <2>6
    <3>. QED BY <3>1, <3>2, <1>1, <2>2, <2>3, <2>6 DEF Search!SearchedTo
  <2>. QED BY <2>5, <2>6
<1>. QED BY <1>3, <1>4

(* How far a step leads: never past the wall clock.                       *)
LEMMA FarFacts ==
  ASSUME SearchOK, Search!Knowledge, NEW i \in 1 .. Len(SearchSteps)
  PROVE  /\ Search!Far(i) \in Int /\ SearchSteps[i] \in Nat \ {0} /\ reference \in Int
         /\ Search!Far(i) = IF ~forward THEN reference - SearchSteps[i]
                     ELSE IF reference + SearchSteps[i] <= Now THEN reference + SearchSteps[i]
                     ELSE Now
<1>1. SearchSteps[i] \in Nat \ {0} /\ reference \in Int /\ Now \in Nat
  BY DEF SearchOK, Search!StepsAssumption, Search!StretchAssumption, Search!SearchAssumption, Search!Knowledge
<1>2. Search!Min({reference + SearchSteps[i], Now})
        = IF reference + SearchSteps[i] <= Now THEN reference + SearchSteps[i] ELSE Now
  BY <1>1, MinOfTwo
<1>. QED BY <1>1, <1>2 DEF Search!Far

(* What there is to know of a sequence with one more at its end, and of   *)
(* one without its head.                                                  *)
LEMMA AppendFacts ==
  ASSUME NEW X, NEW s \in Seq(X), NEW x \in X
  PROVE  /\ Append(s, x) \in Seq(X) /\ Len(Append(s, x)) = Len(s) + 1 /\ Append(s, x) # <<>>
         /\ Len(s) \in Nat /\ \A i \in 1 .. Len(s) : Append(s, x)[i] = s[i]
         /\ Append(s, x)[Len(s) + 1] = x /\ (s = <<>> <=> Len(s) = 0)
<1>1. Append(s, x) \in Seq(X) /\ Len(Append(s, x)) = Len(s) + 1 /\ Len(s) \in Nat
  OBVIOUS
<1>2. Append(s, x) # <<>>
  BY <1>1
<1>3. \A i \in 1 .. Len(s) : Append(s, x)[i] = s[i]
  OBVIOUS
<1>4. Append(s, x)[Len(s) + 1] = x
  OBVIOUS
<1>5. s = <<>> <=> Len(s) = 0
  BY EmptySeq
<1>. QED BY <1>1, <1>2, <1>3, <1>4, <1>5

LEMMA TailOfSeq ==
  ASSUME NEW X, NEW s \in Seq(X), s # <<>>
  PROVE  /\ Tail(s) \in Seq(X) /\ Len(Tail(s)) = Len(s) - 1 /\ Len(s) \in Nat /\ Len(s) >= 1
         /\ \A i \in 1 .. Len(Tail(s)) : Tail(s)[i] = s[i + 1]
         /\ (Tail(s) = <<>> <=> Len(Tail(s)) = 0) /\ s[1] \in X
<1>1. Tail(s) \in Seq(X) /\ Len(Tail(s)) = Len(s) - 1 /\ Len(s) \in Nat /\ Len(s) >= 1
  OBVIOUS
<1>2. \A i \in 1 .. Len(Tail(s)) : Tail(s)[i] = s[i + 1]
  OBVIOUS
<1>3. Tail(s) = <<>> <=> Len(Tail(s)) = 0
  BY <1>1, EmptySeq
<1>4. s[1] \in X
  BY <1>1
<1>. QED BY <1>1, <1>2, <1>3, <1>4

(* Stretches of time.                                                     *)
Pairs == Int \X Int

(* A window added where the last one ended leaves them adjoining.         *)
LEMMA AppendSpans ==
  ASSUME NEW ws \in Seq(Pairs), NEW from \in Int, NEW to \in Int, Search!Spans(from, ws, to),
         NEW w \in Pairs, w[1] < w[2], Search!Nearest(w) = to
  PROVE  Append(ws, w) \in Seq(Pairs) /\ Search!Spans(from, Append(ws, w), Search!Furthest(w))
<1>. DEFINE as == Append(ws, w)
           m == Len(ws)
<1>1. as \in Seq(Pairs) /\ as # <<>> /\ m \in Nat /\ Len(as) = m + 1
  BY AppendFacts
<1>2. as[m + 1] = w /\ \A i \in 1 .. m : as[i] = ws[i]
  BY AppendFacts
<1>3. ws = <<>> <=> m = 0
  BY AppendFacts
<1>. HIDE DEF as, m
<1>4. CASE ws = <<>>
  <2>1. from = to
    BY <1>4 DEF Search!Spans
  <2>2. m = 0
    BY <1>3, <1>4
  <2>3. Len(as) = 1
    BY <1>1, <2>2
  <2>4. as[1] = w
    <3>1. m + 1 = 1
      BY <2>2
    <3>. QED BY <3>1, <1>2
  <2>5. Search!Adjoining(as)
    <3>1. \A i \in 1 .. Len(as) : i = 1
      BY <2>3
    <3>2. 1 .. Len(as) - 1 = {}
      BY <2>3
    <3>3. \A i \in 1 .. Len(as) : as[i][1] < as[i][2]
      BY <3>1, <2>4
    <3>. QED BY <3>2, <3>3 DEF Search!Adjoining
  <2>. QED BY <2>1, <2>3, <2>4, <2>5, <1>1 DEF Search!Spans, as
<1>5. CASE ws # <<>>
  <2>1. Search!Adjoining(ws) /\ Search!Nearest(ws[1]) = from /\ Search!Furthest(ws[m]) = to
    BY <1>5 DEF Search!Spans, m
  <2>2. m >= 1 /\ as[1] = ws[1] /\ as[m] = ws[m]
    <3>1. m >= 1
      BY <1>1, <1>3, <1>5
    <3>2. 1 \in 1 .. m /\ m \in 1 .. m
      BY <3>1, <1>1
    <3>. QED BY <3>1, <3>2, <1>2
  <2>3. /\ \A i \in 1 .. m : ws[i][1] < ws[i][2]
        /\ \A i \in 1 .. m - 1 : Search!Furthest(ws[i]) = Search!Nearest(ws[i + 1])
    BY <2>1 DEF Search!Adjoining, m
  <2>4. ASSUME NEW i \in 1 .. m + 1 PROVE as[i][1] < as[i][2]
    <3>1. CASE i = m + 1
      BY <3>1, <1>2
    <3>2. CASE i # m + 1
      <4>1. i \in 1 .. m
        BY <3>2, <1>1
      <4>. QED BY <4>1, <1>2, <2>3
    <3>. QED BY <3>1, <3>2
  <2>5. ASSUME NEW i \in 1 .. m PROVE Search!Furthest(as[i]) = Search!Nearest(as[i + 1])
    <3>1. CASE i = m
      BY <3>1, <1>2, <2>1, <2>2
    <3>2. CASE i # m
      <4>1. i \in 1 .. m - 1 /\ i + 1 \in 1 .. m
        BY <3>2, <1>1
      <4>. QED BY <4>1, <1>2, <2>3
    <3>. QED BY <3>1, <3>2
  <2>6. Search!Adjoining(as)
    <3>1. Len(as) - 1 = m
      BY <1>1
    <3>. QED BY <1>1, <2>4, <2>5, <3>1 DEF Search!Adjoining
  <2>. QED BY <1>1, <1>2, <2>1, <2>2, <2>6 DEF Search!Spans, as
<1>. QED BY <1>4, <1>5

(* The windows after the first begin where the first ends.                *)
LEMMA TailFacts ==
  ASSUME NEW ws \in Seq(Pairs), ws # <<>>, Search!Adjoining(ws)
  PROVE  /\ Tail(ws) \in Seq(Pairs) /\ ws[1] \in Pairs /\ ws[1][1] < ws[1][2]
         /\ IF Tail(ws) = <<>> THEN ws[1] = ws[Len(ws)]
            ELSE /\ Search!Adjoining(Tail(ws)) /\ Search!Nearest(Tail(ws)[1]) = Search!Furthest(ws[1])
                 /\ Tail(ws)[Len(Tail(ws))] = ws[Len(ws)]
<1>. DEFINE t == Tail(ws)
<1>1. /\ t \in Seq(Pairs) /\ Len(t) = Len(ws) - 1 /\ Len(ws) \in Nat /\ Len(ws) >= 1
      /\ \A i \in 1 .. Len(t) : t[i] = ws[i + 1]
      /\ (t = <<>> <=> Len(t) = 0) /\ ws[1] \in Pairs
  BY TailOfSeq
<1>. HIDE DEF t
<1>2. ws[1][1] < ws[1][2]
  BY <1>1 DEF Search!Adjoining
<1>3. CASE t = <<>>
  BY <1>1, <1>2, <1>3 DEF t
<1>4. CASE t # <<>>
  <2>1. Len(t) >= 1 /\ t[1] = ws[2] /\ t[Len(t)] = ws[Len(ws)]
    BY <1>1, <1>4
  <2>2. Search!Nearest(t[1]) = Search!Furthest(ws[1])
    BY <1>1, <2>1 DEF Search!Adjoining
  <2>3. \A i \in 1 .. Len(t) : t[i][1] < t[i][2]
    BY <1>1 DEF Search!Adjoining
  <2>4. ASSUME NEW i \in 1 .. Len(t) - 1 PROVE Search!Furthest(t[i]) = Search!Nearest(t[i + 1])
    <3>1. i + 1 \in 1 .. Len(ws) - 1 /\ t[i] = ws[i + 1] /\ t[i + 1] = ws[(i + 1) + 1]
      BY <1>1
    <3>. QED BY <3>1 DEF Search!Adjoining
  <2>5. Search!Adjoining(t)
    BY <2>3, <2>4 DEF Search!Adjoining
  <2>. QED BY <1>1, <1>2, <1>4, <2>1, <2>2, <2>5 DEF t
<1>. QED BY <1>3, <1>4

(* How far the loop of event_nav_search_windows has come.                 *)
Searched == [edge : Int, found : Seq(Pairs)]

(* One turn of the loop: the windows still adjoin one another from where  *)
(* the search began, and reach at least as far as the step.               *)
LEMMA WidenedFacts ==
  ASSUME SearchOK, Search!Knowledge, NEW i \in 1 .. Len(SearchSteps), NEW from \in Int,
         NEW s \in Searched, Search!Spans(from, s.found, s.edge)
  PROVE  LET r == Search!Widened(s, i)
         IN  /\ r \in Searched /\ Search!Spans(from, r.found, r.edge)
             /\ IF forward THEN r.edge >= Search!Far(i) ELSE r.edge <= Search!Far(i)
<1>1. Search!Far(i) \in Int
  BY FarFacts
<1>2. s.edge \in Int /\ s.found \in Seq(Pairs)
  BY DEF Searched
<1>3. CASE forward /\ Search!Far(i) > s.edge
  <2>. DEFINE w == <<s.edge, Search!Far(i)>>
  <2>1. w \in Pairs /\ w[1] < w[2] /\ Search!Nearest(w) = s.edge /\ Search!Furthest(w) = Search!Far(i)
    BY <1>1, <1>2, <1>3 DEF Search!Nearest, Search!Furthest, Pairs
  <2>2. Search!Widened(s, i) = [edge |-> Search!Far(i), found |-> Append(s.found, w)]
    BY <1>3 DEF Search!Widened
  <2>. HIDE DEF w
  <2>3. Append(s.found, w) \in Seq(Pairs) /\ Search!Spans(from, Append(s.found, w), Search!Far(i))
    BY <1>2, <2>1, AppendSpans
  <2>. QED BY <1>1, <1>3, <2>2, <2>3 DEF Searched
<1>4. CASE ~forward /\ Search!Far(i) < s.edge
  <2>. DEFINE w == <<Search!Far(i), s.edge>>
  <2>1. w \in Pairs /\ w[1] < w[2] /\ Search!Nearest(w) = s.edge /\ Search!Furthest(w) = Search!Far(i)
    BY <1>1, <1>2, <1>4 DEF Search!Nearest, Search!Furthest, Pairs
  <2>2. Search!Widened(s, i) = [edge |-> Search!Far(i), found |-> Append(s.found, w)]
    BY <1>4 DEF Search!Widened
  <2>. HIDE DEF w
  <2>3. Append(s.found, w) \in Seq(Pairs) /\ Search!Spans(from, Append(s.found, w), Search!Far(i))
    BY <1>2, <2>1, AppendSpans
  <2>. QED BY <1>1, <1>4, <2>2, <2>3 DEF Searched
<1>5. CASE ~(forward /\ Search!Far(i) > s.edge) /\ ~(~forward /\ Search!Far(i) < s.edge)
  <2>1. Search!Widened(s, i) = s
    BY <1>5 DEF Search!Widened
  <2>. QED BY <1>1, <1>2, <1>5, <2>1
<1>. QED BY <1>3, <1>4, <1>5

(* The whole loop: the recursive function Windows takes its last value    *)
(* from exists (by induction over the steps), and every value of it spans *)
(* from where the search began; so the windows reach as far as the last   *)
(* step.                                                                  *)
LEMMA WindowsFacts ==
  ASSUME SearchOK, Search!Knowledge, Search!Edge0 \in Int
  PROVE  /\ Search!Windows \in Seq(Pairs)
         /\ \E edge \in Int : Search!Spans(Search!Edge0, Search!Windows, edge) /\ Search!OutOfReach(edge)
<1>. DEFINE n == Len(SearchSteps)
           start == [edge |-> Search!Edge0, found |-> <<>>]
           Is(g, k) == g = [i \in 0 .. k |-> IF i = 0 THEN start ELSE Search!Widened(g[i - 1], i)]
           Some == {k \in Nat : k <= n => \E g : Is(g, k)}
<1>1. n \in Nat /\ n >= 1
  BY DEF SearchOK, Search!StepsAssumption
<1>2. n \in Some
  <2>1. 0 \in Some
    <3>1. Is([i \in 0 .. 0 |-> start], 0)
      OBVIOUS
    <3>. QED BY <3>1
  <2>2. ASSUME NEW k \in Nat, k \in Some PROVE k + 1 \in Some
    <3>1. SUFFICES ASSUME k + 1 <= n PROVE \E g : Is(g, k + 1)
      OBVIOUS
    <3>2. PICK g : Is(g, k)
      BY <3>1, <2>2, <1>1
    <3>. DEFINE h == [i \in 0 .. k + 1 |-> IF i = k + 1 THEN Search!Widened(g[k], k + 1) ELSE g[i]]
    <3>3. \A i \in 0 .. k : h[i] = g[i]
      OBVIOUS
    <3>4. \A i \in 0 .. k : g[i] = IF i = 0 THEN start ELSE Search!Widened(g[i - 1], i)
      BY <3>2
    <3>5. h[k + 1] = Search!Widened(h[k], k + 1)
      OBVIOUS
    <3>. HIDE DEF start
    <3>6. \A i \in 0 .. k + 1 : h[i] = IF i = 0 THEN start ELSE Search!Widened(h[i - 1], i)
      <4>. SUFFICES ASSUME NEW i \in 0 .. k + 1
                   PROVE  h[i] = IF i = 0 THEN start ELSE Search!Widened(h[i - 1], i)
        OBVIOUS
      <4>1. CASE i = k + 1
        BY <4>1, <3>5
      <4>2. CASE i # k + 1
        <5>1. i \in 0 .. k /\ (i # 0 => i - 1 \in 0 .. k)
          BY <4>2
        <5>. HIDE DEF h
        <5>. QED BY <5>1, <3>3, <3>4
      <4>. QED BY <4>1, <4>2
    <3>7. h = [i \in 0 .. k + 1 |-> h[i]]
      OBVIOUS
    <3>. HIDE DEF h
    <3>8. Is(h, k + 1)
      BY <3>6, <3>7
    <3>. QED BY <3>8
  <2>. HIDE DEF Some
  <2>. QED BY <2>1, <2>2, <1>1, ByInduction
<1>. DEFINE upto == CHOOSE g : Is(g, n)
<1>3. Is(upto, n) /\ Search!Windows = upto[n].found
  <2>1. \E g : Is(g, n)
    BY <1>1, <1>2
  <2>2. Search!Windows = upto[n].found
    BY DEF Search!Windows
  <2>. HIDE DEF Is, upto
  <2>3. Is(upto, n)
    BY <2>1 DEF upto
  <2>. QED BY <2>2, <2>3
<1>. HIDE DEF upto
<1>4. upto[0] = start /\ \A i \in 1 .. n : upto[i] = Search!Widened(upto[i - 1], i)
  BY <1>1, <1>3
<1>. DEFINE Good(s) == s \in Searched /\ Search!Spans(Search!Edge0, s.found, s.edge)
           Kind == {k \in Nat : k <= n => Good(upto[k])}
<1>5. 0 \in Kind
  <2>1. start \in Searched /\ start.found = <<>> /\ start.edge = Search!Edge0
    BY DEF Searched
  <2>. HIDE DEF start
  <2>2. Good(start)
    BY <2>1 DEF Search!Spans
  <2>. QED BY <2>2, <1>4
<1>. HIDE DEF start
<1>6. ASSUME NEW k \in Nat, k \in Kind, k + 1 <= n
      PROVE  /\ Good(upto[k + 1])
             /\ IF forward THEN upto[k + 1].edge >= Search!Far(k + 1)
                ELSE upto[k + 1].edge <= Search!Far(k + 1)
  <2>1. k + 1 \in 1 .. n /\ k <= n /\ (k + 1) - 1 = k
    BY <1>1, <1>6
  <2>2. Good(upto[k]) /\ upto[k + 1] = Search!Widened(upto[k], k + 1)
    BY <2>1, <1>4, <1>6
  <2>. QED BY <2>1, <2>2, WidenedFacts
<1>7. Nat \subseteq Kind
  <2>1. \A k \in Nat : k \in Kind => k + 1 \in Kind
    BY <1>6
  <2>. HIDE DEF Kind
  <2>. QED BY <1>5, <2>1, ByInduction
<1>8. /\ Good(upto[n])
      /\ IF forward THEN upto[n].edge >= Search!Far(n) ELSE upto[n].edge <= Search!Far(n)
  <2>1. n - 1 \in Nat /\ n - 1 \in Kind /\ (n - 1) + 1 = n
    BY <1>1, <1>7
  <2>. HIDE DEF Kind, Good
  <2>. QED BY <2>1, <1>6, <1>1
<1>. QED BY <1>3, <1>8 DEF Searched, Search!OutOfReach

(* Before the click nothing is found or being searched.                   *)
LEMMA InitSearch == ASSUME SearchOK, Search!Init \/ Search!Quiet PROVE Search!IInv
<1>1. Search!Knowledge
  <2>1. CASE Search!Init
    <3>1. windows = <<>>
      BY <2>1 DEF Search!Init, Search!Idle
    <3>. QED BY <2>1, <3>1 DEF Search!Knowledge, Search!Init, Search!Happened
  <2>2. CASE Search!Quiet
    <3>1. events = {} /\ windows = <<>> /\ reference = Now /\ grace = 0
          /\ forward = FALSE /\ reverse = FALSE
      BY <2>2 DEF Search!Quiet
    <3>2. eventCache \in [Cams -> Stretches \cup {Search!NotCached}]
      BY <2>2 DEF Search!Quiet
    <3>3. windows \in Seq(Int \X Int) /\ events \subseteq [camera : Cams, start : 0 .. Now]
      BY <3>1
    <3>4. /\ reference \in References \cup {Now} /\ grace \in Graces \cup {0}
          /\ forward \in BOOLEAN /\ reverse \in BOOLEAN
      BY Zenon, <3>1
    <3>. QED BY <3>2, <3>3, <3>4 DEF Search!Knowledge
  <2>. QED BY <2>1, <2>2
<1>2. searching \in {"idle", "nothing"} /\ (searching = "nothing" => events = {})
  BY DEF Search!Init, Search!Idle, Search!Quiet
<1>. QED BY <1>1, <1>2 DEF Search!IInv, Search!SearchGoesOn, Search!NoEventSkipped

(* While what is asked and what is recorded stand still, so does what     *)
(* follows from them.                                                     *)
LEMMA AskedKept ==
  ASSUME UNCHANGED Search!asked, SearchOK, Search!Knowledge
  PROVE  /\ \A e : Search!Eligible(e)' = Search!Eligible(e) /\ Search!InCache(e)' = Search!InCache(e)
         /\ Search!AllKnowHere' = Search!AllKnowHere /\ Search!Reach' = Search!Reach
         /\ windows' \in Seq(Pairs) => Search!Knowledge'
         /\ \A ws : Search!Adjoining(ws)' = Search!Adjoining(ws)
         /\ \A w : Search!Nearest(w)' = Search!Nearest(w) /\ Search!Furthest(w)' = Search!Furthest(w)
         /\ \A edge : /\ Search!OutOfReach(edge)' = Search!OutOfReach(edge)
                      /\ Search!SearchedTo(edge)' = Search!SearchedTo(edge)
<1>. USE DEF Search!asked
<1>1. \A e : Search!Eligible(e)' = Search!Eligible(e)
  BY DEF Search!Eligible, Search!Ahead, Search!Anchor
<1>2. \A e : Search!InCache(e)' = Search!InCache(e)
  BY DEF Search!InCache, Search!Between
<1>3. Search!AllKnowHere' = Search!AllKnowHere /\ Search!Reach' = Search!Reach
  BY DEF Search!AllKnowHere, Search!Reach
<1>4. windows' \in Seq(Pairs) => Search!Knowledge'
  BY DEF Search!Knowledge, Pairs
<1>5. \A w : Search!Nearest(w)' = Search!Nearest(w) /\ Search!Furthest(w)' = Search!Furthest(w)
  BY DEF Search!Nearest, Search!Furthest
<1>6. \A ws : Search!Adjoining(ws)' = Search!Adjoining(ws)
  BY DEF Search!Adjoining, Search!Nearest, Search!Furthest
<1>7. \A edge : Search!OutOfReach(edge)' = Search!OutOfReach(edge)
  BY DEF Search!OutOfReach, Search!Far
<1>8. \A edge : Search!SearchedTo(edge)' = Search!SearchedTo(edge)
  BY <1>1 DEF Search!SearchedTo
<1>. QED BY <1>1, <1>2, <1>3, <1>4, <1>5, <1>6, <1>7, <1>8

(* A search that has come to its last window has looked as far as it may.  *)
LEMMA NothingInReach ==
  ASSUME SearchOK, Search!Knowledge, NEW edge \in Int, Search!OutOfReach(edge),
         \A e \in events : Search!Eligible(e) => IF forward THEN e.start > edge ELSE e.start < edge
  PROVE  \A e \in events :
           Search!Eligible(e) => e.start < Search!Min(Search!Reach) \/ e.start > Search!Max(Search!Reach)
<1>. DEFINE n == Len(SearchSteps)
           s == SearchSteps[n]
<1>1. n \in 1 .. Len(SearchSteps)
  <2>1. Len(SearchSteps) \in Nat \ {0}
    BY EmptySeq DEF SearchOK, Search!StepsAssumption
  <2>. QED BY <2>1
<1>2. /\ Search!Far(n) \in Int /\ s \in Nat \ {0} /\ reference \in Int
      /\ Search!Far(n) = IF ~forward THEN reference - s
                  ELSE IF reference + s <= Now THEN reference + s ELSE Now
  BY <1>1, FarFacts
<1>3. Search!Reach = {reference - s, reference + s}
  BY DEF Search!Reach
<1>4. IF forward THEN edge >= Search!Far(n) ELSE edge <= Search!Far(n)
  BY DEF Search!OutOfReach
<1>. HIDE DEF n, s
<1>5. reference - s \in Int /\ reference + s \in Int /\ reference - s <= reference + s
  BY <1>2
<1>6. Search!Min(Search!Reach) = reference - s /\ Search!Max(Search!Reach) = reference + s
  BY <1>3, <1>5, MinOfTwo, MaxOfTwo
<1>7. Now \in Nat /\ \A e \in events : e.start \in 0 .. Now
  BY DEF SearchOK, Search!StretchAssumption, Search!Knowledge
<1>. QED BY <1>2, <1>4, <1>5, <1>6, <1>7

(* Going to the event picked from E skips none: what may be gone to and   *)
(* is not in E is further, or in no cache while the caches were what was  *)
(* asked.                                                                 *)
LEMMA FoundNearest ==
  ASSUME SearchOK, Search!IInv, UNCHANGED Search!asked, NEW E, E \subseteq events,
         Search!Pick(E) # Search!Nowhere, Search!Found(Search!Pick(E)), forward \in BOOLEAN,
         ~reverse => \A e \in events \ E : Search!Eligible(e) =>
            \/ Search!AllKnowHere /\ ~Search!InCache(e)
            \/ \A x \in E : Search!Eligible(x) =>
                 IF forward THEN x.start <= e.start ELSE e.start <= x.start
  PROVE  Search!IInv'
<1>1. searching' = "found" /\ target' = Search!Pick(E) /\ windows' = <<>>
  BY DEF Search!Found
<1>2. Search!Knowledge'
  BY <1>1, AskedKept DEF Search!IInv
<1>3. Search!SearchGoesOn'
  BY <1>1 DEF Search!SearchGoesOn
<1>4. Search!NoEventSkipped'
  <2>. SUFFICES ASSUME ~reverse', NEW e \in events', Search!Eligible(e)', Search!Nearer(e)'
               PROVE  (Search!AllKnowHere /\ ~Search!InCache(e))'
    BY <1>1 DEF Search!NoEventSkipped
  <2>1. Search!Knowledge
    BY DEF Search!IInv
  <2>2. ~reverse /\ e \in events /\ Search!Eligible(e) /\ Search!Anchor(e)' = e.start /\ forward' = forward
    BY AskedKept, <2>1 DEF Search!asked, Search!Anchor
  <2>3. IF forward THEN e.start < Search!Pick(E) ELSE e.start > Search!Pick(E)
    BY <2>2, <1>1 DEF Search!Nearer
  <2>4. /\ Search!Pick(E) \in Nat
        /\ \A x \in E : Search!Eligible(x) =>
             IF forward THEN Search!Pick(E) <= x.start ELSE x.start <= Search!Pick(E)
    BY <2>1, <2>2, PickFacts
  <2>5. e.start \in Nat
    BY <2>1, <2>2 DEF Search!Knowledge, SearchOK, Search!StretchAssumption
  <2>6. e \notin E
    BY <2>2, <2>3, <2>4, <2>5
  <2>7. \E x \in E : Search!Eligible(x) /\ x.start = Search!Pick(E)
    BY <2>1, <2>2, PickFacts
  <2>8. Search!AllKnowHere /\ ~Search!InCache(e)
    BY <2>2, <2>3, <2>4, <2>5, <2>6, <2>7
  <2>. QED BY <2>1, <2>8, AskedKept
<1>. QED BY <1>2, <1>3, <1>4 DEF Search!IInv

(* Going on with the windows ws: they adjoin one another, reach far       *)
(* enough, and up to them there was nothing; or none are left, and there  *)
(* was nothing within reach.                                              *)
LEMMA SearchOn ==
  ASSUME SearchOK, Search!IInv, UNCHANGED Search!asked, NEW ws \in Seq(Pairs), Search!Search(ws),
         ws # <<>> => /\ Search!Adjoining(ws) /\ Search!OutOfReach(Search!Furthest(ws[Len(ws)]))
                      /\ ~reverse => Search!SearchedTo(Search!Nearest(ws[1])),
         ws = <<>> /\ ~reverse => \E edge \in Int :
            /\ Search!OutOfReach(edge)
            /\ \A e \in events : Search!Eligible(e) => IF forward THEN e.start > edge ELSE e.start < edge
  PROVE  Search!IInv'
<1>1. windows' = ws /\ searching' = IF ws = <<>> THEN "nothing" ELSE "searching"
  BY DEF Search!Search
<1>2. Search!Knowledge /\ Search!Knowledge' /\ reverse' = reverse /\ events' = events
  BY <1>1, AskedKept DEF Search!IInv, Search!asked
<1>3. Search!SearchGoesOn'
  <2>. SUFFICES ASSUME ws # <<>> PROVE Search!SearchGoesOn'
    BY <1>1 DEF Search!SearchGoesOn
  <2>1. /\ Search!Adjoining(ws)' /\ Search!OutOfReach(Search!Furthest(ws[Len(ws)]))'
        /\ (~reverse => Search!SearchedTo(Search!Nearest(ws[1]))')
    BY <1>2, AskedKept
  <2>. QED BY <1>1, <1>2, <2>1 DEF Search!SearchGoesOn
<1>4. Search!NoEventSkipped'
  <2>1. CASE ws # <<>>
    BY <2>1, <1>1 DEF Search!NoEventSkipped
  <2>2. CASE ws = <<>>
    <3>1. ~reverse => \A e \in events :
            Search!Eligible(e) => e.start < Search!Min(Search!Reach) \/ e.start > Search!Max(Search!Reach)
      BY <2>2, <1>2, NothingInReach
    <3>2. searching' = "nothing"
      BY <2>2, <1>1
    <3>. QED BY <1>2, <3>1, <3>2, AskedKept DEF Search!NoEventSkipped
  <2>. QED BY <2>1, <2>2
<1>. QED BY <1>2, <1>3, <1>4 DEF Search!IInv

(* A click is answered from the caches, or starts the windows where the   *)
(* caches end.                                                            *)
LEMMA ClickSearches == ASSUME SearchOK, Search!IInv, Search!Click PROVE Search!IInv'
<1>. DEFINE E == {e \in events : Search!InCache(e)}
           t == IF Search!Within THEN Search!Pick(E) ELSE Search!Nowhere
<1>1. Search!Knowledge /\ UNCHANGED Search!asked /\ E \subseteq events /\ forward \in BOOLEAN
  BY DEF Search!IInv, Search!Knowledge, Search!Click
<1>2. CASE t # Search!Nowhere
  <2>1. Search!Within /\ Search!Pick(E) # Search!Nowhere /\ Search!Found(Search!Pick(E))
    BY <1>2 DEF Search!Click
  <2>2. Search!Cached /\ Search!Covered[1] <= reference /\ reference <= Search!Covered[2]
    BY <2>1 DEF Search!Within
  <2>3. Search!AllKnowHere
    <3>1. /\ Search!Covered[1] \in 0 .. Now /\ Search!Covered[2] \in 0 .. Now
          /\ \A c \in Cams : eventCache[c][1] <= Search!Covered[1] /\ Search!Covered[2] <= eventCache[c][2]
          /\ \A c \in Cams : eventCache[c][1] \in 0 .. Now /\ eventCache[c][2] \in 0 .. Now
      BY <1>1, <2>2, CoveredFacts
    <3>2. Now \in Nat /\ reference \in Int
      BY <1>1 DEF SearchOK, Search!StretchAssumption, Search!SearchAssumption, Search!Knowledge
    <3>. QED BY <2>2, <3>1, <3>2 DEF Search!AllKnowHere, Search!Cached
  <2>4. \A e \in events \ E : Search!AllKnowHere /\ ~Search!InCache(e)
    BY <2>3
  <2>. HIDE DEF E
  <2>. QED BY <1>1, <2>1, <2>4, FoundNearest
<1>3. CASE t = Search!Nowhere
  <2>1. Search!Search(Search!Windows)
    BY <1>3 DEF Search!Click
  <2>2. ASSUME ~reverse, Search!Within PROVE \A e \in events : Search!InCache(e) => ~Search!Eligible(e)
    <3>1. Search!Pick(E) = Search!Nowhere
      BY <1>3, <2>2
    <3>2. \A e \in E : ~Search!Eligible(e)
      <4>. HIDE DEF E
      <4>. QED BY <1>1, <2>2, <3>1, PickFacts
    <3>. QED BY <3>2
  <2>3. Search!Edge0 \in Int
    BY <1>1, EdgeIsTime
  <2>4. PICK edge \in Int : Search!Spans(Search!Edge0, Search!Windows, edge) /\ Search!OutOfReach(edge)
    BY <1>1, <2>3, WindowsFacts
  <2>5. Search!Windows \in Seq(Pairs)
    BY <1>1, <2>3, WindowsFacts DEF Pairs
  <2>6. Search!Windows # <<>> =>
          /\ Search!Adjoining(Search!Windows)
          /\ Search!OutOfReach(Search!Furthest(Search!Windows[Len(Search!Windows)]))
          /\ ~reverse => Search!SearchedTo(Search!Nearest(Search!Windows[1]))
    <3>. SUFFICES ASSUME Search!Windows # <<>>
                 PROVE  /\ Search!Adjoining(Search!Windows)
                        /\ Search!OutOfReach(Search!Furthest(Search!Windows[Len(Search!Windows)]))
                        /\ ~reverse => Search!SearchedTo(Search!Nearest(Search!Windows[1]))
      OBVIOUS
    <3>1. /\ Search!Adjoining(Search!Windows) /\ Search!Nearest(Search!Windows[1]) = Search!Edge0
          /\ Search!Furthest(Search!Windows[Len(Search!Windows)]) = edge
      BY <2>4 DEF Search!Spans
    <3>2. ~reverse => Search!SearchedTo(Search!Edge0)
      BY <1>1, <2>2, EdgeFacts
    <3>. QED BY <2>4, <3>1, <3>2
  <2>7. ASSUME Search!Windows = <<>>, ~reverse
        PROVE  \E far \in Int : /\ Search!OutOfReach(far)
                                /\ \A e \in events : Search!Eligible(e) =>
                                     IF forward THEN e.start > far ELSE e.start < far
    <3>1. edge = Search!Edge0
      BY <2>4, <2>7 DEF Search!Spans
    <3>2. /\ reference \in Int /\ Search!SearchedTo(Search!Edge0)
          /\ ~forward /\ Search!Edge0 # reference =>
              \A e \in events : Search!Eligible(e) => e.start < Search!Edge0
      BY <1>1, <2>2, <2>7, EdgeFacts
    <3>3. ~forward => Search!Edge0 # reference
      <4>. DEFINE n == Len(SearchSteps)
      <4>1. n \in 1 .. Len(SearchSteps)
        <5>1. Len(SearchSteps) \in Nat \ {0}
          BY EmptySeq DEF SearchOK, Search!StepsAssumption
        <5>. QED BY <5>1
      <4>2. /\ SearchSteps[n] \in Nat \ {0}
            /\ ~forward => Search!Far(n) = reference - SearchSteps[n]
        BY <1>1, <4>1, FarFacts
      <4>3. ~forward => Search!Edge0 <= Search!Far(n)
        BY <2>4, <3>1 DEF Search!OutOfReach
      <4>. HIDE DEF n
      <4>. QED BY <2>3, <3>2, <4>2, <4>3
    <3>. QED BY <2>4, <3>1, <3>2, <3>3 DEF Search!SearchedTo
  <2>. HIDE DEF E, t
  <2>. QED BY <1>1, <2>1, <2>5, <2>6, <2>7, SearchOn
<1>. QED BY <1>2, <1>3

(* The NAS has listed a window: the search ends in it, or the next one    *)
(* begins where it ended.                                                 *)
LEMMA ListedSearches == ASSUME SearchOK, Search!IInv, Search!Listed PROVE Search!IInv'
<1>. DEFINE w == windows[1]
           E == Search!Between(w[1], w[2])
<1>1. /\ Search!Knowledge /\ UNCHANGED Search!asked /\ forward \in BOOLEAN
      /\ windows # <<>> /\ Search!Adjoining(windows) /\ windows \in Seq(Pairs)
      /\ Search!OutOfReach(Search!Furthest(windows[Len(windows)]))
      /\ ~reverse => Search!SearchedTo(Search!Nearest(w))
  BY DEF Search!IInv, Search!Knowledge, Search!Listed, Search!SearchGoesOn, Pairs
<1>2. E \subseteq events
  BY DEF Search!Between
<1>3. /\ Tail(windows) \in Seq(Pairs) /\ w \in Pairs /\ w[1] < w[2]
      /\ IF Tail(windows) = <<>> THEN w = windows[Len(windows)]
         ELSE /\ Search!Adjoining(Tail(windows)) /\ Search!Nearest(Tail(windows)[1]) = Search!Furthest(w)
              /\ Tail(windows)[Len(Tail(windows))] = windows[Len(windows)]
  BY <1>1, TailFacts
<1>4. \A e \in events : e.start \in Nat /\ (e \in E <=> w[1] <= e.start /\ e.start <= w[2])
  BY <1>1 DEF Search!Between, Search!Knowledge, SearchOK, Search!StretchAssumption
<1>5. w[1] \in Int /\ w[2] \in Int
  BY <1>3 DEF Pairs
<1>6. ~reverse => \A e \in events \ E : Search!Eligible(e) =>
                    IF forward THEN e.start > w[2] ELSE e.start < w[1]
  BY <1>1, <1>4, <1>5 DEF Search!SearchedTo, Search!Nearest
<1>7. Search!Furthest(w) = IF forward THEN w[2] ELSE w[1]
  BY DEF Search!Furthest
<1>8. CASE Search!Pick(E) # Search!Nowhere
  <2>1. Search!Found(Search!Pick(E))
    BY <1>8 DEF Search!Listed
  <2>2. ~reverse => \A e \in events \ E : Search!Eligible(e) => \A x \in E :
           IF forward THEN x.start <= e.start ELSE e.start <= x.start
    BY <1>2, <1>4, <1>5, <1>6
  <2>. HIDE DEF E
  <2>. QED BY <1>1, <1>2, <1>8, <2>1, <2>2, FoundNearest
<1>9. CASE Search!Pick(E) = Search!Nowhere
  <2>1. Search!Search(Tail(windows))
    BY <1>9 DEF Search!Listed
  <2>2. ~reverse => \A e \in E : ~Search!Eligible(e)
    <3>. HIDE DEF E
    <3>. QED BY <1>1, <1>2, <1>9, PickFacts
  <2>3. ~reverse => \A e \in events : Search!Eligible(e) =>
                      IF forward THEN e.start > Search!Furthest(w) ELSE e.start < Search!Furthest(w)
    BY <1>6, <1>7, <2>2
  <2>4. Search!Furthest(w) \in Int
    BY <1>5, <1>7
  <2>5. ~reverse => Search!SearchedTo(Search!Furthest(w))
    <3>. SUFFICES ASSUME ~reverse, NEW e \in events, Search!Eligible(e)
                 PROVE  IF forward THEN e.start > Search!Furthest(w) ELSE e.start <= Search!Furthest(w)
      BY DEF Search!SearchedTo
    <3>. QED BY <1>4, <2>3, <2>4
  <2>. HIDE DEF E, w
  <2>. QED BY <1>1, <1>3, <2>1, <2>3, <2>4, <2>5, SearchOn
<1>. QED BY <1>8, <1>9

(* Every step of a search.                                                *)
LEMMA StepSearch == ASSUME SearchOK, Search!IInv, [Search!Next]_searchVars PROVE Search!IInv'
<1>1. CASE Search!Click
  BY <1>1, ClickSearches
<1>2. CASE Search!Listed
  BY <1>2, ListedSearches
<1>3. CASE Search!Failed
  <2>1. UNCHANGED Search!asked /\ searching' = "failed" /\ windows' = <<>>
    BY <1>3 DEF Search!Failed
  <2>2. Search!Knowledge'
    BY <2>1, AskedKept DEF Search!IInv
  <2>. QED BY <2>1, <2>2 DEF Search!IInv, Search!SearchGoesOn, Search!NoEventSkipped
<1>4. CASE UNCHANGED searchVars
  <2>1. UNCHANGED Search!asked /\ UNCHANGED <<searching, windows, target>>
    BY <1>4 DEF searchVars, Search!asked
  <2>2. Search!Knowledge /\ Search!Knowledge'
    <3>1. Search!Knowledge
      BY DEF Search!IInv
    <3>2. windows' \in Seq(Pairs)
      BY <2>1, <3>1 DEF Search!Knowledge, Pairs
    <3>. QED BY <2>1, <3>1, <3>2, AskedKept
  <2>3. Search!SearchGoesOn'
    BY <2>1, <2>2, AskedKept DEF Search!IInv, Search!SearchGoesOn, Search!asked
  <2>4. Search!NoEventSkipped'
    <3>1. \A e : Search!Nearer(e)' = Search!Nearer(e)
      BY <2>1 DEF Search!asked, Search!Nearer, Search!Anchor
    <3>. QED BY <2>1, <2>2, <3>1, AskedKept DEF Search!IInv, Search!NoEventSkipped, Search!asked
  <2>. QED BY <2>2, <2>3, <2>4 DEF Search!IInv
<1>. QED BY <1>1, <1>2, <1>3, <1>4 DEF Search!Next

-----------------------------------------------------------------------------
(* The whole client, property by property.                                 *)

(* In the client, what is on the screen answers what is on the screen: at  *)
(* rest the timeline draws the layout and the view of now, no thumbnail    *)
(* outlives the pointer, the calendar offers days of its own month, the    *)
(* selected map is shown, a receipt lies over its own camera and not over  *)
(* recorded video (_settle_timeline_fetch, _on_timeline_hover_leave,       *)
(* _on_calendar_availability_fetched, _load_map, show_transaction).        *)
THEOREM ScreenIsAnswered == Spec => []AnswersFitScreen
<1>. DEFINE Inv == DataShown /\ PointerShown /\ MonthShown /\ MapInv /\ ReceiptShown
<1>1. Init => Inv
    BY InitData, InitPointer, InitMonth, InitPage, InitReceipts DEF Init
<1>2. Inv /\ [Next]_vars => Inv'
    BY DataStep, StepData, LookupsStep, StepPointer, StepMonth, MapPageStep,
       StepPage, PosStep, StepReceipts
<1>3. Inv => AnswersFitScreen
  <2>1. DataShown => Data!RestShowsView
      BY ShownAtRest
  <2>2. PointerShown => Lookups!NoGhostThumbnail
      BY DEF PointerShown, Lookups!NoGhostThumbnail
  <2>3. MonthShown => Lookups!JumpsWhereRecorded
      BY DEF MonthShown, Lookups!JumpsWhereRecorded, Lookups!JumpOffered
  <2>4. MapInv => MapPage!MapIsSelected
      BY DEF MapInv, MapPage!NewestIsSelected
  <2>5. ReceiptShown => Pos!ReceiptOfCamera /\ Pos!NotOverRecording
      BY DEF ReceiptShown, Pos!ReceiptOfCamera, Pos!NotOverRecording
  <2>. QED
      BY <2>1, <2>2, <2>3, <2>4, <2>5 DEF AnswersFitScreen
<1>. QED
    BY <1>1, <1>2, <1>3, PTL DEF Spec

(* In the client, a cache claims no more than was answered for, however    *)
(* requests overlap, fail and are given up and whichever NAS is logged in  *)
(* to, and the count wait_idle goes by is what is still to be sent         *)
(* (_on_timeline_data_fetched, _on_camera_event_types_scanned,             *)
(* _fetch_recording_thumbnail, WebhookDispatcher.put).                     *)
THEOREM ClaimsHold == Spec => []ClaimsAreBacked
<1>. DEFINE Inv == DataShown /\ HistoryKept /\ HooksCount
<1>1. Init => Inv
    BY InitData, InitHistory, InitHooks DEF Init
<1>2. Inv /\ [Next]_vars => Inv'
    BY DataStep, StepData, LookupsStep, StepHistory, HooksStep, StepHooks
<1>3. Inv /\ ImagesOfThisNas => ClaimsAreBacked
  <2>1. HooksCount => Hooks!IdleMeansSent
      BY DEF HooksCount, Counted, Hooks!IdleMeansSent, Hooks!None
  <2>. QED
      BY <2>1 DEF DataShown, HistoryKept, ClaimsAreBacked
<1>. QED
    BY <1>1, <1>2, <1>3, CacheIsOfThisNas, PTL DEF Spec

(* In the client, nothing half done stays behind: no torn file under the   *)
(* user's name; no .part of a failed download, but for one whose close     *)
(* raised or that the system would not remove; no open microphone without  *)
(* a lit button (stream_to_file, write_download, PttSession.run,           *)
(* _on_ptt_ended).                                                         *)
THEOREM NothingIsLeftHalfDone == Spec => []NothingHalfDone
<1>. DEFINE Inv == OneSaves /\ TalkShown
<1>1. Init => Inv
    BY InitSaves, InitTalk DEF Init
<1>2. Inv /\ [Next]_vars => Inv'
    BY SavingStep, StepSaves, TalkStep, StepTalk
<1>3. Inv => NothingHalfDone
  <2>1. OneSaves => Saving!SavedIsWhole /\ Saving!LeftoversExplained
      BY Zenon DEF OneSaves, Alone, SavedWhole, PartOwned, Saving!SavedIsWhole,
         Saving!LeftoversExplained, Saving!PartIs
  <2>2. TalkShown => Talk!MicIsShown
      BY DEF TalkShown, Live, Talk!MicIsShown
  <2>. QED
      BY <2>1, <2>2 DEF NothingHalfDone
<1>. QED
    BY <1>1, <1>2, <1>3, PTL DEF Spec

(* In the client, a stall is counted only against a camera silent for an   *)
(* interval the layout played, and the speaker hears recent speech in its  *)
(* order (RtspHealthMonitor._check, PttSession.enqueue).                   *)
THEOREM LateGoesUnused == Spec => LateIsNotUsed
<1>. DEFINE Inv == StallShown /\ TalkRecent
<1>1. Init => Inv
    BY InitStall, InitRecent DEF Init
<1>2. Inv /\ [Next]_vars => Inv' /\ Rtsp!CountsRealStall /\ Talk!SendsRecent
    BY RtspStep, StepStall, TalkStep, StepRecent
<1>. QED
    BY <1>1, <1>2, PTL DEF Spec, LateIsNotUsed

(* In the client, Next and Previous Event, playing forward, go past no     *)
(* event that passes the filter, but for one its own camera's cache does   *)
(* not hold when all caches hold the position; and say there is none only  *)
(* when none is within the reach of the search (_seek_to_nearest_event,    *)
(* pick_nav_target, event_nav_search_windows).                             *)
THEOREM NoEventIsSkipped == Spec => []NoEventSkipped
<1>1. SearchOK
    BY PartsAssumption DEF SearchOK
<1>2. Init => Search!IInv
    BY <1>1, InitSearch DEF Init
<1>3. Search!IInv /\ [Next]_vars => Search!IInv'
    BY <1>1, SearchStep, StepSearch
<1>4. Search!IInv => NoEventSkipped
    BY DEF Search!IInv, NoEventSkipped
<1>. QED
    BY <1>2, <1>3, <1>4, PTL DEF Spec
=============================================================================
