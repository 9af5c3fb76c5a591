---- MODULE TimelineNavProofs ----
(***************************************************************************)
(* Proofs about TimelineNav: the newest wish wins, for any slots, places,  *)
(* search windows and number of clicks.                                    *)
(***************************************************************************)
EXTENDS TimelineNav, TLAPS

Seeks == [at : Stages, slot : Slots, gen : Nat \ {0}, to : Int]
Searches == [gen : Nat, left : Int]

(* What is out are seeks and searches of generations that were given out.  *)
SeekTypes ==
    /\ pos \in [Slots -> Int] /\ goal \in [Slots -> Int] /\ focus \in Slots
    /\ gen \in Nat /\ slotGen \in [Slots -> 0..gen] /\ pend \in Int
    /\ out \subseteq Seeks /\ \A r \in out : r.gen <= gen

SearchTypes ==
    /\ navGen \in Nat /\ busy \in BOOLEAN
    /\ searches \subseteq Searches /\ \A s \in searches : s.gen <= navGen

OtherTypes ==
    sum \in Int /\ timers \in Nat /\ inFlight \in BOOLEAN /\ asked \in BOOLEAN

(* A batch asks once for each slot.                                        *)
OneSeek == \A r, q \in out : r.slot = q.slot /\ r.gen = q.gen => r = q

(* The seek a slot waits for is the one that its goal was set by.          *)
LeadsToGoal ==
    \A r \in out : ~Overtaken(r) /\ r.slot \notin Empty => goal[r.slot] = Clamp(r.to)

(* A slot without camera is never sought in and stays on Live.             *)
EmptyStaysLive ==
    /\ \A s \in Slots \cap Empty : pos[s] = Live /\ goal[s] = Live
    /\ \A r \in out : r.slot \in Empty => r.at = "staged"

(* Nothing plays from the future.                                          *)
NotAhead == \A s \in Slots : pos[s] <= Live /\ goal[s] <= Live

SeeksInv == SeekTypes /\ OneSeek /\ LeadsToGoal /\ EmptyStaysLive /\ NotAhead
              /\ SettlesOnNewest

(* After Live nothing waits, clicks included.                              *)
LiveIsFinal == ~asked => pend = 0 /\ \A s \in Slots : pos[s] = Live /\ Quiet(s)

(* One search has the newest generation, and it is what busy tells of.     *)
OneSearch == \A s, q \in searches : s.gen = q.gen => s = q
SearchInv == SearchTypes /\ OneSearch /\ BusyIsTrue

IInv == SeeksInv /\ OtherTypes /\ LiveIsFinal /\ SearchInv

---------------------------------------------------------------------------
(* What one step does to the seeks.                                        *)

LEMMA ClampFacts ==
    ASSUME NEW t \in Int
    PROVE  Clamp(t) \in Int /\ Clamp(t) <= Live
BY DEF Clamp, Now, Live

LEMMA ClampAgain ==
    ASSUME NEW t \in Int, t <= Live, t # Live
    PROVE  Clamp(t) = t
BY DEF Clamp, Now, Live

(* The slots may have moved to where their newest seek leads.              *)
Moved == \A s \in Slots : pos'[s] = pos[s] \/ (pos'[s] = goal[s] /\ s \notin Empty)

(* What is no longer out was overtaken or has moved its slot.              *)
Done(others) ==
    /\ others \subseteq out
    /\ \A r \in out : r \notin others => Overtaken(r) \/ pos'[r.slot] = goal[r.slot]

(* A batch: every slot waits for its own seek to the same place.           *)
LEMMA SeekKeeps ==
    ASSUME SeeksInv, NEW t \in Int, NEW others \in SUBSET out, Seek(t, others),
           pos' \in [Slots -> Int], \A s \in Slots : pos'[s] <= Live,
           \A s \in Slots \cap Empty : pos'[s] = Live,
           focus' \in Slots, pend' \in Int
    PROVE  SeeksInv'
<1> DEFINE new(s) == [at |-> IF s = First THEN "lookup" ELSE "staged",
                      slot |-> s, gen |-> gen + 1, to |-> t]
<1> DEFINE batch == {new(s) : s \in Slots}
<1>1. gen' = gen + 1 /\ slotGen' = [s \in Slots |-> gen + 1] /\ out' = others \cup batch
  BY DEF Seek
<1>2. goal' = [s \in Slots |-> IF s \in Empty THEN goal[s] ELSE Clamp(t)]
  BY DEF Seek
<1>3. gen \in Nat /\ goal \in [Slots -> Int] /\ out \subseteq Seeks
      /\ \A r \in others : r.gen <= gen /\ r \in out
  BY DEF SeeksInv, SeekTypes
<1>4. \A s \in Slots : new(s) \in Seeks /\ new(s).gen = gen + 1 /\ new(s).slot = s /\ new(s).to = t
  BY <1>3 DEF Seeks, Stages
<1>5. \A r \in batch : r \in Seeks /\ r.gen = gen + 1 /\ r.to = t /\ r = new(r.slot)
  <2> HIDE DEF new
  <2> QED BY <1>4
<1>6. \A s \in Slots : new(s) \in batch /\ new(s) \in out'
  BY <1>1
<1>7. \A r \in batch : r.slot \in Empty => r.at = "staged"
  <2>1. \A s \in Slots : s \in Empty => new(s).at = "staged" /\ new(s).slot = s
    BY SlotAssumption
  <2> HIDE DEF new
  <2> QED BY <2>1, <1>4
<1> HIDE DEF new, batch
<1>8. SeekTypes'
  <2>1. goal' \in [Slots -> Int]
    BY <1>2, <1>3, ClampFacts
  <2>2. gen' \in Nat /\ slotGen' \in [Slots -> 0..gen']
    BY <1>1, <1>3
  <2>3. out' \subseteq Seeks /\ \A r \in out' : r.gen <= gen'
    <3>1. \A r \in others : r.gen \in Nat
      BY <1>3 DEF Seeks
    <3> QED BY <1>1, <1>3, <1>5, <3>1
  <2> QED BY <2>1, <2>2, <2>3 DEF SeekTypes
<1>9. OneSeek'
  <2> SUFFICES ASSUME NEW r \in out', NEW q \in out', r.slot = q.slot, r.gen = q.gen
               PROVE  r = q
    BY DEF OneSeek
  <2>1. \A x \in others : x.gen # gen + 1
    <3>1. \A x \in others : x.gen \in Nat /\ x.gen <= gen
      BY <1>3 DEF Seeks
    <3> QED BY <3>1, <1>3
  <2>2. CASE r \in batch /\ q \in batch
    BY <2>2, <1>5
  <2>3. CASE r \in others /\ q \in others
    BY <2>3, <1>3 DEF SeeksInv, OneSeek
  <2> QED BY <1>1, <1>5, <2>1, <2>2, <2>3
<1>10. \A r \in out' : r.slot \in Slots /\ (r.gen = slotGen'[r.slot] => r \in batch)
  <2>1. \A r \in others : r.slot \in Slots /\ r.gen \in Nat /\ r.gen <= gen
    BY <1>3 DEF Seeks
  <2>2. \A r \in batch : r.slot \in Slots
    BY <1>5 DEF Seeks
  <2>3. \A s \in Slots : slotGen'[s] = gen + 1
    BY <1>1
  <2> QED BY <1>1, <1>3, <2>1, <2>2, <2>3
<1>11. LeadsToGoal'
  BY <1>10, <1>5, <1>2 DEF LeadsToGoal, Overtaken
<1>12. EmptyStaysLive'
  <2>1. \A s \in Slots \cap Empty : pos'[s] = Live /\ goal'[s] = Live
    BY <1>2 DEF SeeksInv, EmptyStaysLive
  <2>2. \A r \in others : r.slot \in Empty => r.at = "staged"
    BY <1>3 DEF SeeksInv, EmptyStaysLive
  <2> QED BY <2>1, <2>2, <1>1, <1>7 DEF EmptyStaysLive
<1>13. NotAhead'
  BY <1>2, ClampFacts DEF SeeksInv, NotAhead
<1>14. SettlesOnNewest'
  <2> SUFFICES ASSUME NEW s \in Slots, Quiet(s)'
               PROVE  pos'[s] = goal'[s]
    BY DEF SettlesOnNewest
  <2>1. new(s) \in out' /\ new(s).slot = s /\ new(s).gen = slotGen'[s]
    BY <1>1, <1>4, <1>6
  <2>2. FALSE
    BY <2>1 DEF Quiet, Mine
  <2> QED BY <2>2
<1> QED BY <1>8, <1>9, <1>11, <1>12, <1>13, <1>14 DEF SeeksInv

(* No new seek: what is done leaves its slot where its goal is.            *)
LEMMA NoSeekKeeps ==
    ASSUME SeeksInv, NEW others, NoSeek(others), Done(others), Moved,
           pos' \in [Slots -> Int], focus' \in Slots, pend' \in Int
    PROVE  SeeksInv'
<1>1. others \subseteq out /\ out' = others /\ gen' = gen /\ slotGen' = slotGen /\ goal' = goal
  BY DEF NoSeek, Done
<1>2. SeekTypes'
  BY <1>1 DEF SeeksInv, SeekTypes
<1>3. OneSeek'
  BY <1>1 DEF SeeksInv, OneSeek
<1>4. LeadsToGoal'
  BY <1>1 DEF SeeksInv, LeadsToGoal, Overtaken
<1>5. EmptyStaysLive'
  BY <1>1 DEF SeeksInv, EmptyStaysLive, Moved
<1>6. SettlesOnNewest'
  <2> SUFFICES ASSUME NEW s \in Slots, Quiet(s)'
               PROVE  pos'[s] = goal'[s]
    BY DEF SettlesOnNewest
  <2>1. CASE Quiet(s)
    BY <2>1, <1>1 DEF SeeksInv, SettlesOnNewest, Moved
  <2>2. CASE ~Quiet(s)
    <3>1. PICK r \in out : r.slot = s /\ r.gen = slotGen[s]
      BY <2>2 DEF Quiet, Mine
    <3>2. r \notin others
      BY <3>1, <1>1 DEF Quiet, Mine
    <3> QED BY <3>1, <3>2, <1>1 DEF Done, Overtaken
  <2> QED BY <2>1, <2>2
<1>7. NotAhead'
  BY <1>1 DEF SeeksInv, NotAhead, Moved
<1> QED BY <1>2, <1>3, <1>4, <1>5, <1>6, <1>7 DEF SeeksInv

LEMMA FlushKeeps ==
    ASSUME SeeksInv, NEW p \in Int, NEW q \in [Slots -> Int], NEW others,
           Flush(p, q, others), Done(others), Moved,
           pos' \in [Slots -> Int], focus' \in Slots
    PROVE  SeeksInv' /\ pend' = 0
<1>1. pend' = 0 /\ focus \in Slots
  BY DEF Flush, SeeksInv, SeekTypes
<1>2. CASE p = 0
  BY <1>1, <1>2, NoSeekKeeps DEF Flush
<1>3. CASE p # 0
  <2> DEFINE t == (IF q[focus] = Live THEN Now ELSE q[focus]) + p
  <2>1. t \in Int /\ Seek(t, others)
    BY <1>1, <1>3 DEF Flush, Now
  <2>2. \A s \in Slots : pos'[s] <= Live
    BY DEF SeeksInv, NotAhead, Moved
  <2>3. \A s \in Slots \cap Empty : pos'[s] = Live
    BY DEF SeeksInv, EmptyStaysLive, Moved
  <2> HIDE DEF t
  <2> QED BY <1>1, <2>1, <2>2, <2>3, SeekKeeps DEF Done
<1> QED BY <1>2, <1>3

LEMMA FinishKeeps ==
    ASSUME SeeksInv, NEW s, NEW q \in [Slots -> Int], NEW others,
           Finish(s, q, others), Done(others), Moved,
           pos' \in [Slots -> Int], focus' \in Slots
    PROVE  SeeksInv'
<1>1. pend \in Int
  BY DEF SeeksInv, SeekTypes
<1>2. CASE s = focus
  <2>1. Flush(pend, q, others)
    BY <1>2 DEF Finish
  <2> QED BY <1>1, <2>1, FlushKeeps
<1>3. CASE s # focus
  <2>1. NoSeek(others) /\ pend' \in Int
    BY <1>1, <1>3 DEF Finish
  <2> QED BY <2>1, NoSeekKeeps
<1> QED BY <1>2, <1>3

(* A seek goes from one stage to the next.                                 *)
LEMMA AdvanceKeeps ==
    ASSUME SeeksInv, NEW r \in out, NEW x \in Stages, r.slot \notin Empty,
           NoSeek((out \ {r}) \cup {[r EXCEPT !.at = x]}), UNCHANGED <<pos, focus, pend>>
    PROVE  SeeksInv'
<1> DEFINE next == [r EXCEPT !.at = x]
<1>1. out' = (out \ {r}) \cup {next} /\ gen' = gen /\ slotGen' = slotGen /\ goal' = goal
      /\ pos' = pos
  BY DEF NoSeek
<1>2. r \in Seeks /\ r.gen <= gen
  BY DEF SeeksInv, SeekTypes
<1>3. next \in Seeks /\ next.slot = r.slot /\ next.gen = r.gen /\ next.to = r.to
  BY <1>2 DEF Seeks
<1> HIDE DEF next
<1>4. SeekTypes'
  BY <1>1, <1>2, <1>3 DEF SeeksInv, SeekTypes
<1>5. OneSeek'
  <2>1. \A q \in out \ {r} : ~(q.slot = next.slot /\ q.gen = next.gen)
    BY <1>3 DEF SeeksInv, OneSeek
  <2>2. \A a, b \in out : a.slot = b.slot /\ a.gen = b.gen => a = b
    BY DEF SeeksInv, OneSeek
  <2>3. \A a, b \in out' : a.slot = b.slot /\ a.gen = b.gen => a = b
    BY <1>1, <2>1, <2>2
  <2> QED BY <2>3 DEF OneSeek
<1>6. LeadsToGoal'
  BY <1>1, <1>3 DEF SeeksInv, LeadsToGoal, Overtaken
<1>7. EmptyStaysLive'
  BY <1>1, <1>3 DEF SeeksInv, EmptyStaysLive
<1>8. NotAhead'
  BY <1>1 DEF SeeksInv, NotAhead
<1>9. SettlesOnNewest'
  <2> SUFFICES ASSUME NEW s \in Slots, Quiet(s)'
               PROVE  pos[s] = goal[s]
    BY <1>1 DEF SettlesOnNewest
  <2>1. \A q \in out : ~(q.slot = s /\ q.gen = slotGen[s])
    <3>1. \A q \in out' : ~(q.slot = s /\ q.gen = slotGen[s])
      BY <1>1 DEF Quiet, Mine
    <3> QED BY <3>1, <1>1, <1>3
  <2>2. Quiet(s)
    BY <2>1 DEF Quiet, Mine
  <2> QED BY <2>2 DEF SeeksInv, SettlesOnNewest
<1> QED BY <1>4, <1>5, <1>6, <1>7, <1>8, <1>9 DEF SeeksInv

(* A seek that found nothing makes the slot's place its goal.              *)
LEMMA FruitlessKeeps ==
    ASSUME SeeksInv, NEW r \in out, ~Overtaken(r), r.slot \notin Empty,
           Fruitless(r), UNCHANGED focus
    PROVE  SeeksInv'
<1>1. r \in Seeks /\ r.slot \in Slots /\ pos' = pos /\ focus' \in Slots
      /\ pos \in [Slots -> Int] /\ pend \in Int
  BY DEF SeeksInv, SeekTypes, Seeks, Fruitless
<1>2. CASE r.slot = focus /\ pend # 0
  <2>1. Flush(pend, pos, out \ {r})
    BY <1>2 DEF Fruitless
  <2> DEFINE t == (IF pos[focus] = Live THEN Now ELSE pos[focus]) + pend
  <2>2. pend' = 0 /\ Seek(t, out \ {r})
    BY <1>2, <2>1 DEF Flush
  <2>3. t \in Int /\ focus \in Slots
    BY <1>1 DEF Now, SeeksInv, SeekTypes
  <2>4. \A s \in Slots : pos'[s] <= Live
    BY <1>1 DEF SeeksInv, NotAhead
  <2>5. \A s \in Slots \cap Empty : pos'[s] = Live
    BY <1>1 DEF SeeksInv, EmptyStaysLive
  <2> HIDE DEF t
  <2> QED BY <1>1, <2>2, <2>3, <2>4, <2>5, SeekKeeps
<1>3. CASE ~(r.slot = focus /\ pend # 0)
  <2>1. out' = out \ {r} /\ goal' = [goal EXCEPT ![r.slot] = pos[r.slot]]
        /\ gen' = gen /\ slotGen' = slotGen /\ pend' = pend
    BY <1>3 DEF Fruitless
  <2>2. SeekTypes'
    BY <1>1, <2>1 DEF SeeksInv, SeekTypes
  <2>3. OneSeek'
    BY <2>1 DEF SeeksInv, OneSeek
  <2>4. LeadsToGoal'
    <3> SUFFICES ASSUME NEW q \in out', q.gen = slotGen[q.slot], q.slot \notin Empty
                 PROVE  goal'[q.slot] = Clamp(q.to)
      BY <2>1 DEF LeadsToGoal, Overtaken
    <3>1. q \in out /\ q # r
      BY <2>1
    <3>2. q.slot # r.slot
      BY <3>1 DEF SeeksInv, OneSeek, Overtaken
    <3>3. goal[q.slot] = Clamp(q.to) /\ q.slot \in Slots
      BY <3>1 DEF SeeksInv, LeadsToGoal, Overtaken, SeekTypes, Seeks
    <3> QED BY <2>1, <3>2, <3>3 DEF SeeksInv, SeekTypes
  <2>5. EmptyStaysLive'
    BY <1>1, <2>1 DEF SeeksInv, EmptyStaysLive, SeekTypes
  <2>6. NotAhead'
    BY <1>1, <2>1 DEF SeeksInv, NotAhead, SeekTypes
  <2>7. SettlesOnNewest'
    <3> SUFFICES ASSUME NEW s \in Slots, Quiet(s)'
                 PROVE  pos[s] = goal'[s]
      BY <1>1 DEF SettlesOnNewest
    <3>1. CASE s = r.slot
      BY <2>1, <3>1 DEF SeeksInv, SeekTypes
    <3>2. CASE s # r.slot
      <4>1. Quiet(s)
        BY <2>1, <3>2 DEF Quiet, Mine
      <4> QED BY <2>1, <3>2, <4>1 DEF SeeksInv, SeekTypes, SettlesOnNewest
    <3> QED BY <3>1, <3>2
  <2> QED BY <2>2, <2>3, <2>4, <2>5, <2>6, <2>7 DEF SeeksInv
<1> QED BY <1>2, <1>3

(* A seek that was applied leaves its slot at its goal.                    *)
LEMMA AppliedKeeps ==
    ASSUME SeeksInv, NEW r \in out, ~Overtaken(r), r.slot \notin Empty,
           Applied(r), UNCHANGED focus
    PROVE  SeeksInv'
<1>1. r.slot \in Slots /\ r.to \in Int /\ pos \in [Slots -> Int] /\ focus \in Slots
  BY DEF SeeksInv, SeekTypes, Seeks
<1>2. pos' = [pos EXCEPT ![r.slot] = Clamp(r.to)] /\ Finish(r.slot, pos', out \ {r})
  BY DEF Applied
<1>3. goal[r.slot] = Clamp(r.to)
  BY DEF SeeksInv, LeadsToGoal
<1>4. pos' \in [Slots -> Int]
  BY <1>1, <1>2, ClampFacts
<1>5. Done(out \ {r}) /\ Moved
  BY <1>1, <1>2, <1>3 DEF Done, Moved
<1> QED BY <1>1, <1>2, <1>4, <1>5, FinishKeeps

(* One that was overtaken leaves it where it is.                           *)
LEMMA StaleKeeps ==
    ASSUME SeeksInv, NEW r \in out, Overtaken(r), Stale(r), UNCHANGED focus
    PROVE  SeeksInv'
<1>1. Done(out \ {r}) /\ Moved /\ Finish(r.slot, pos, out \ {r}) /\ pos' = pos
  BY DEF Done, Moved, Stale
<1>2. pos \in [Slots -> Int] /\ focus \in Slots
  BY DEF SeeksInv, SeekTypes
<1> QED BY <1>1, <1>2, FinishKeeps

LEMMA ClickKeeps ==
    ASSUME SeeksInv, NEW t \in Places, Click(-t), UNCHANGED <<pos, focus, pend>>
    PROVE  SeeksInv'
<1>1. -t \in Int /\ Seek(-t, out)
  BY PlaceAssumption DEF Click
<1>2. pos' \in [Slots -> Int] /\ focus' \in Slots /\ pend' \in Int
  BY DEF SeeksInv, SeekTypes
<1>3. \A s \in Slots : pos'[s] <= Live
  BY DEF SeeksInv, NotAhead
<1>4. \A s \in Slots \cap Empty : pos'[s] = Live
  BY DEF SeeksInv, EmptyStaysLive
<1>5. PICK u : u = -t
  OBVIOUS
<1> QED BY <1>1, <1>2, <1>3, <1>4, <1>5, SeekKeeps

LEMMA SeeksUnchanged ==
    ASSUME SeeksInv, UNCHANGED <<pos, goal, gen, slotGen, out, pend>>, focus' \in Slots
    PROVE  SeeksInv'
BY DEF SeeksInv, SeekTypes, OneSeek, LeadsToGoal, Overtaken, EmptyStaysLive, NotAhead,
       SettlesOnNewest, Quiet, Mine

---------------------------------------------------------------------------
(* The actions and the seeks.                                              *)

LEMMA UserKeepsSeeks ==
    ASSUME SeeksInv, User
    PROVE  SeeksInv'
<1> USE DEF SeeksInv
<1>0. focus \in Slots /\ pend \in Int /\ pos \in [Slots -> Int]
  BY DEF SeekTypes
<1>1. CASE RulerClick
  BY <1>1, ClickKeeps DEF RulerClick
<1>2. CASE Nudge
  <2>1. PICK d \in {-1, 1} :
          IF inFlight
          THEN pend' = pend + d /\ NoSeek(out) /\ UNCHANGED <<inFlight, timers>>
          ELSE Flush(pend + d, pos, out)
    BY <1>2 DEF Nudge
  <2>2. pend + d \in Int /\ pos' = pos /\ focus' = focus
    BY <1>0, <1>2 DEF Nudge
  <2>3. Done(out) /\ Moved
    BY <2>2 DEF Done, Moved
  <2>4. CASE inFlight
    BY <1>0, <2>1, <2>2, <2>3, <2>4, NoSeekKeeps
  <2>5. CASE ~inFlight
    <3>1. Flush(pend + d, pos, out)
      BY <2>1, <2>5
    <3>2. PICK p : p = pend + d
      OBVIOUS
    <3> QED BY <1>0, <2>2, <2>3, <3>1, <3>2, FlushKeeps
  <2> QED BY <2>4, <2>5
<1>3. CASE LiveClicked \/ ApplyLayout
  <2>1. slotGen' = [s \in Slots |-> 0] /\ pend' = 0 /\ out' = out /\ gen' = gen
        /\ pos' = [s \in Slots |-> Live] /\ goal' = [s \in Slots |-> Live]
    BY <1>3 DEF LiveClicked, ApplyLayout, ReturnAllToLive, ForgetPendingLookups
  <2>2. focus' \in Slots
    BY <1>0, <1>3, SlotAssumption DEF LiveClicked, ApplyLayout
  <2>3. SeekTypes'
    BY <2>1, <2>2 DEF SeekTypes, Live
  <2>4. \A r \in out : r.slot \in Slots /\ r.gen # 0
    BY DEF SeekTypes, Seeks
  <2>5. LeadsToGoal' /\ OneSeek'
    BY <2>1, <2>4 DEF LeadsToGoal, Overtaken, OneSeek
  <2>6. EmptyStaysLive' /\ NotAhead' /\ SettlesOnNewest'
    BY <2>1 DEF EmptyStaysLive, NotAhead, SettlesOnNewest, Live
  <2> QED BY <2>3, <2>5, <2>6
<1>4. CASE SelectSlot
  BY <1>4, SeeksUnchanged DEF SelectSlot
<1>5. CASE AssignCamera
  <2>1. PICK s \in Slots :
          /\ pos[s] # Live
          /\ gen' = gen + 1 /\ slotGen' = [slotGen EXCEPT ![s] = gen + 1]
          /\ goal' = [goal EXCEPT ![s] = pos[s]]
          /\ out' = out \cup {[at |-> "lookup", slot |-> s, gen |-> gen + 1, to |-> pos[s]]}
    BY <1>5 DEF AssignCamera
  <2> DEFINE new == [at |-> "lookup", slot |-> s, gen |-> gen + 1, to |-> pos[s]]
  <2>2. UNCHANGED <<pos, focus, pend>> /\ s \notin Empty
    BY <1>5, <2>1 DEF AssignCamera, EmptyStaysLive
  <2>3. gen \in Nat /\ pos[s] \in Int /\ \A r \in out : r.slot \in Slots /\ r.gen \in Nat /\ r.gen <= gen
    BY <1>0 DEF SeekTypes, Seeks
  <2>4. new \in Seeks /\ new.slot = s /\ new.gen = gen + 1 /\ new.to = pos[s] /\ new.at = "lookup"
    BY <2>3 DEF Seeks, Stages
  <2>5. out' = out \cup {new}
    BY <2>1
  <2> HIDE DEF new
  <2>6. slotGen' \in [Slots -> 0..gen'] /\ goal' \in [Slots -> Int]
    BY <2>1, <2>3 DEF SeekTypes
  <2>7. SeekTypes'
    <3>1. \A r \in out' : r \in Seeks /\ r.gen <= gen'
      BY <2>1, <2>3, <2>4, <2>5 DEF SeekTypes
    <3> QED BY <2>1, <2>2, <2>3, <2>6, <3>1 DEF SeekTypes
  <2>8. OneSeek'
    <3>1. \A r \in out : r.gen # new.gen
      BY <2>3, <2>4
    <3> QED BY <2>5, <3>1 DEF OneSeek
  <2>9. \A r \in out : r.slot = s => r.gen # slotGen'[s]
    BY <2>1, <2>3 DEF SeekTypes
  <2>10. LeadsToGoal'
    <3>1. goal'[s] = Clamp(new.to)
      <4>1. Clamp(pos[s]) = pos[s]
        BY <2>1, <2>3, ClampAgain DEF NotAhead
      <4> QED BY <2>1, <2>4, <4>1 DEF SeekTypes
    <3>2. \A r \in out : r.slot # s => slotGen'[r.slot] = slotGen[r.slot]
                                       /\ goal'[r.slot] = goal[r.slot]
      BY <2>1, <2>3 DEF SeekTypes
    <3>3. \A r \in out : r.gen = slotGen'[r.slot] /\ r.slot \notin Empty => goal'[r.slot] = Clamp(r.to)
      BY <2>9, <3>2 DEF LeadsToGoal, Overtaken
    <3> QED BY <2>4, <2>5, <3>1, <3>3 DEF LeadsToGoal, Overtaken
  <2>11. EmptyStaysLive'
    BY <2>1, <2>2, <2>4, <2>5 DEF EmptyStaysLive, SeekTypes
  <2>12. NotAhead'
    BY <2>1, <2>2 DEF NotAhead, SeekTypes
  <2>13. SettlesOnNewest'
    <3> SUFFICES ASSUME NEW u \in Slots, Quiet(u)'
                 PROVE  pos[u] = goal'[u]
      BY <2>2 DEF SettlesOnNewest
    <3>1. CASE u = s
      BY <2>1, <3>1 DEF SeekTypes
    <3>2. CASE u # s
      <4>1. slotGen'[u] = slotGen[u] /\ goal'[u] = goal[u]
        BY <2>1, <3>2 DEF SeekTypes
      <4>2. Quiet(u)
        BY <2>5, <4>1 DEF Quiet, Mine
      <4> QED BY <4>1, <4>2 DEF SettlesOnNewest
    <3> QED BY <3>1, <3>2
  <2> QED BY <2>7, <2>8, <2>10, <2>11, <2>12, <2>13
<1>6. CASE EventClick
  <2>1. UNCHANGED <<pos, focus, pend>>
    BY <1>6 DEF EventClick
  <2>2. CASE \E t \in Places : Click(-t)
    BY <2>1, <2>2, ClickKeeps
  <2>3. CASE UNCHANGED <<gen, slotGen, out, history>>
    BY <1>0, <2>1, <2>3, SeeksUnchanged DEF history
  <2> QED BY <1>6, <2>2, <2>3 DEF EventClick
<1> QED BY <1>1, <1>2, <1>3, <1>4, <1>5, <1>6 DEF User

LEMMA AnswersKeepSeeks ==
    ASSUME SeeksInv, Answers \/ NudgeTimeout \/ SearchAnswered
    PROVE  SeeksInv'
<1>0. focus \in Slots /\ pend \in Int /\ pos \in [Slots -> Int] /\ focus' = focus
  BY DEF SeeksInv, SeekTypes, Answers, StaggeredSeek, RecordingResolved, LookupFailed,
         BridgeSeekDone, NudgeTimeout, SearchAnswered
<1>e. \A r \in out : r.slot \in Slots /\ (r.slot \in Empty => r.at = "staged")
  BY DEF SeeksInv, SeekTypes, Seeks, EmptyStaysLive
<1>1. CASE StaggeredSeek
  <2>0. pos' = pos
    BY <1>1 DEF StaggeredSeek
  <2>1. PICK r \in out :
          /\ r.at = "staged"
          /\ IF ~Overtaken(r)
             THEN /\ NoSeek(IF r.slot \in Empty THEN out \ {r}
                            ELSE (out \ {r}) \cup {[r EXCEPT !.at = "lookup"]})
                  /\ UNCHANGED <<pend, inFlight, timers>>
             ELSE Finish(r.slot, pos, out \ {r})
    BY <1>1 DEF StaggeredSeek
  <2>2. CASE Overtaken(r)
    <3>1. Done(out \ {r}) /\ Moved /\ Finish(r.slot, pos, out \ {r})
      BY <2>0, <2>1, <2>2 DEF Done, Moved
    <3> QED BY <1>0, <2>0, <3>1, FinishKeeps
  <2>3. CASE ~Overtaken(r) /\ r.slot \in Empty
    <3>1. NoSeek(out \ {r}) /\ pend' = pend
      BY <2>1, <2>3
    <3>2. pos[r.slot] = goal[r.slot]
      BY <1>e, <2>3 DEF SeeksInv, EmptyStaysLive
    <3>3. Done(out \ {r}) /\ Moved
      BY <2>0, <3>2 DEF Done, Moved
    <3> QED BY <1>0, <2>0, <3>1, <3>3, NoSeekKeeps
  <2>4. CASE ~Overtaken(r) /\ r.slot \notin Empty
    <3>1. NoSeek((out \ {r}) \cup {[r EXCEPT !.at = "lookup"]}) /\ pend' = pend
      BY <2>1, <2>4
    <3> QED BY <1>0, <2>0, <2>4, <3>1, AdvanceKeeps DEF Stages
  <2> QED BY <2>2, <2>3, <2>4
<1>2. CASE RecordingResolved
  <2>1. PICK r \in out :
          /\ r.at = "lookup"
          /\ \/ Overtaken(r) /\ Stale(r)
             \/ ~Overtaken(r) /\ Fruitless(r)
             \/ ~Overtaken(r) /\ pos[r.slot] = Live /\ Applied(r)
             \/ /\ ~Overtaken(r) /\ pos[r.slot] # Live
                /\ NoSeek((out \ {r}) \cup {[r EXCEPT !.at = "seek"]})
                /\ UNCHANGED <<pos, pend, inFlight, timers, sum>>
    BY <1>2 DEF RecordingResolved
  <2>2. r.slot \notin Empty
    BY <1>e, <2>1
  <2>3. CASE Overtaken(r) /\ Stale(r)
    BY <1>0, <2>3, StaleKeeps
  <2>4. CASE ~Overtaken(r) /\ Fruitless(r)
    BY <1>0, <2>2, <2>4, FruitlessKeeps
  <2>5. CASE ~Overtaken(r) /\ Applied(r)
    BY <1>0, <2>2, <2>5, AppliedKeeps
  <2>6. CASE NoSeek((out \ {r}) \cup {[r EXCEPT !.at = "seek"]}) /\ UNCHANGED <<pos, pend, inFlight, timers, sum>>
    BY <1>0, <2>2, <2>6, AdvanceKeeps DEF Stages
  <2> QED BY <2>1, <2>3, <2>4, <2>5, <2>6
<1>3. CASE LookupFailed
  <2>1. PICK r \in out : r.at = "lookup" /\ IF ~Overtaken(r) THEN Fruitless(r) ELSE Stale(r)
    BY <1>3 DEF LookupFailed
  <2>2. r.slot \notin Empty
    BY <1>e, <2>1
  <2> QED BY <1>0, <2>1, <2>2, StaleKeeps, FruitlessKeeps
<1>4. CASE BridgeSeekDone
  <2>1. PICK r \in out :
          /\ r.at = "seek"
          /\ \/ Overtaken(r) /\ Stale(r)
             \/ ~Overtaken(r) /\ (Applied(r) \/ Fruitless(r))
    BY <1>4 DEF BridgeSeekDone
  <2>2. r.slot \notin Empty
    BY <1>e, <2>1
  <2> QED BY <1>0, <2>1, <2>2, StaleKeeps, FruitlessKeeps, AppliedKeeps
<1>5. CASE NudgeTimeout
  <2>1. pos' = pos /\ Done(out) /\ Moved
    BY <1>5 DEF NudgeTimeout, Done, Moved
  <2>2. CASE inFlight /\ pend # 0
    <3> DEFINE t == Reference + pend
    <3>1. t \in Int /\ Seek(t, out) /\ pend' = 0
      BY <1>0, <1>5, <2>2 DEF NudgeTimeout, Reference, Now
    <3>2. \A s \in Slots : pos'[s] <= Live
      BY <2>1 DEF SeeksInv, NotAhead
    <3>3. \A s \in Slots \cap Empty : pos'[s] = Live
      BY <2>1 DEF SeeksInv, EmptyStaysLive
    <3> HIDE DEF t
    <3> QED BY <1>0, <2>1, <3>1, <3>2, <3>3, SeekKeeps
  <2>3. CASE ~(inFlight /\ pend # 0)
    <3>1. NoSeek(out) /\ pend' \in Int
      BY <1>0, <1>5, <2>3 DEF NudgeTimeout
    <3> QED BY <1>0, <2>1, <3>1, NoSeekKeeps
  <2> QED BY <2>2, <2>3
<1>6. CASE SearchAnswered
  <2>1. UNCHANGED <<pos, focus, pend>>
    BY <1>6 DEF SearchAnswered
  <2>2. CASE \E t \in Places : Click(-t)
    BY <2>1, <2>2, ClickKeeps
  <2>3. CASE UNCHANGED <<gen, slotGen, out, history>>
    BY <1>0, <2>1, <2>3, SeeksUnchanged DEF history
  <2> QED BY <1>6, <2>2, <2>3 DEF SearchAnswered
<1> QED BY <1>1, <1>2, <1>3, <1>4, <1>5, <1>6 DEF Answers

---------------------------------------------------------------------------
(* Types of the rest.                                                      *)

LEMMA FlushTypes ==
    ASSUME timers \in Nat, NEW p, NEW q, NEW others, Flush(p, q, others)
    PROVE  timers' \in Nat /\ inFlight' \in BOOLEAN
<1>1. timers' \in Nat
  BY DEF Flush
<1>2. inFlight' = FALSE \/ inFlight' = TRUE
  BY DEF Flush
<1> QED BY <1>1, <1>2, Zenon

LEMMA FinishTypes ==
    ASSUME timers \in Nat, inFlight \in BOOLEAN, NEW s, NEW q, NEW others, Finish(s, q, others)
    PROVE  timers' \in Nat /\ inFlight' \in BOOLEAN
<1>1. CASE s = focus
  BY <1>1, FlushTypes DEF Finish
<1>2. CASE s # focus
  BY <1>2, Zenon DEF Finish
<1> QED BY <1>1, <1>2

LEMMA AnswerTypes ==
    ASSUME OtherTypes, NEW r, Fruitless(r) \/ Applied(r) \/ Stale(r)
    PROVE  timers' \in Nat /\ inFlight' \in BOOLEAN /\ sum' \in Int
<1>1. CASE Fruitless(r)
  <2>1. CASE r.slot = focus /\ pend # 0
    BY <1>1, <2>1, FlushTypes DEF Fruitless, OtherTypes, None
  <2>2. CASE ~(r.slot = focus /\ pend # 0)
    <3>1. inFlight' = (inFlight /\ r.slot # focus) /\ UNCHANGED timers /\ sum' = None
      BY <1>1, <2>2, Zenon DEF Fruitless
    <3>2. inFlight' \in BOOLEAN
      BY <3>1, Zenon
    <3> QED BY <3>1, <3>2 DEF OtherTypes, None
  <2> QED BY <2>1, <2>2
<1>2. CASE Applied(r)
  <2>1. Finish(r.slot, pos', out \ {r}) /\ sum' = IF r.to > Now THEN None ELSE sum
    BY <1>2 DEF Applied
  <2>2. sum' \in Int
    BY <2>1 DEF OtherTypes, None
  <2> QED BY <2>1, <2>2, FinishTypes DEF OtherTypes
<1>3. CASE Stale(r)
  <2>1. Finish(r.slot, pos, out \ {r}) /\ sum' = sum
    BY <1>3 DEF Stale
  <2> QED BY <2>1, FinishTypes DEF OtherTypes
<1> QED BY <1>1, <1>2, <1>3

LEMMA OthersKept ==
    ASSUME SeeksInv, OtherTypes, [Next]_vars
    PROVE  OtherTypes'
<1>1. focus \in Slots /\ pos \in [Slots -> Int]
  BY DEF SeeksInv, SeekTypes
<1>2. asked' \in BOOLEAN
  <2>1. asked' = asked \/ asked' = TRUE \/ asked' = FALSE
    BY DEF Next, User, Answers, RulerClick, Click, Nudge, LiveClicked, ApplyLayout, ReturnAllToLive,
           SelectSlot, AssignCamera, EventClick, history, StaggeredSeek, RecordingResolved,
           LookupFailed, BridgeSeekDone, NudgeTimeout, SearchAnswered, vars
  <2> QED BY <2>1, Zenon DEF OtherTypes
<1>3. CASE User \/ SearchAnswered
  <2>1. CASE Nudge
    <3>1. sum' \in Int
      <4>1. PICK d \in {-1, 1} : sum' = IF AllQuiet THEN Reference + d
                                         ELSE IF sum # None THEN sum + d ELSE None
        BY <2>1 DEF Nudge
      <4>2. Reference \in Int /\ None \in Int /\ sum \in Int
        BY <1>1 DEF Reference, Now, None, OtherTypes
      <4>3. sum' = Reference + d \/ sum' = sum + d \/ sum' = None
        BY <4>1
      <4> QED BY <4>2, <4>3
    <3>2. timers' \in Nat /\ inFlight' \in BOOLEAN
      <4>1. PICK d \in {-1, 1} : IF inFlight
               THEN pend' = pend + d /\ NoSeek(out) /\ UNCHANGED <<inFlight, timers>>
               ELSE Flush(pend + d, pos, out)
        BY <2>1 DEF Nudge
      <4>2. CASE UNCHANGED <<inFlight, timers>>
        BY <4>2, Zenon DEF OtherTypes
      <4>3. CASE Flush(pend + d, pos, out)
        BY <4>3, FlushTypes DEF OtherTypes
      <4> QED BY <4>1, <4>2, <4>3
    <3> QED BY <1>2, <3>1, <3>2 DEF OtherTypes
  <2>2. CASE ~Nudge
    <3>1. sum' = None \/ sum' = sum
      BY <1>3, <2>2 DEF User, RulerClick, Click, LiveClicked, ApplyLayout, ReturnAllToLive,
            SelectSlot, AssignCamera, EventClick, history, SearchAnswered
    <3>2. inFlight' = inFlight /\ timers' = timers
      BY <1>3, <2>2 DEF User, RulerClick, LiveClicked, ApplyLayout, ReturnAllToLive,
            SelectSlot, AssignCamera, EventClick, SearchAnswered
    <3>3. inFlight' \in BOOLEAN /\ timers' \in Nat
      BY <3>2, Zenon DEF OtherTypes
    <3>4. sum' \in Int
      BY <3>1 DEF OtherTypes, None
    <3> QED BY <1>2, <3>3, <3>4 DEF OtherTypes
  <2> QED BY <2>1, <2>2
<1>4. CASE StaggeredSeek
  <2>1. PICK r \in out :
          IF ~Overtaken(r)
          THEN UNCHANGED <<pend, inFlight, timers>>
          ELSE Finish(r.slot, pos, out \ {r})
    BY <1>4 DEF StaggeredSeek
  <2>2. timers' \in Nat /\ inFlight' \in BOOLEAN
    <3>1. CASE Overtaken(r)
      BY <2>1, <3>1, FinishTypes DEF OtherTypes
    <3>2. CASE ~Overtaken(r)
      BY <2>1, <3>2, Zenon DEF OtherTypes
    <3> QED BY <3>1, <3>2
  <2>3. sum' = sum
    BY <1>4 DEF StaggeredSeek
  <2> QED BY <1>2, <2>2, <2>3 DEF OtherTypes
<1>5. CASE RecordingResolved \/ LookupFailed \/ BridgeSeekDone
  <2>1. \/ \E r \in out : Fruitless(r) \/ Applied(r) \/ Stale(r)
        \/ UNCHANGED <<inFlight, timers, sum>>
    BY <1>5 DEF RecordingResolved, LookupFailed, BridgeSeekDone
  <2>2. CASE \E r \in out : Fruitless(r) \/ Applied(r) \/ Stale(r)
    BY <1>2, <2>2, AnswerTypes DEF OtherTypes
  <2>3. CASE UNCHANGED <<inFlight, timers, sum>>
    BY <1>2, <2>3, Zenon DEF OtherTypes
  <2> QED BY <2>1, <2>2, <2>3
<1>6. CASE NudgeTimeout
  <2>1. timers' \in Nat
    BY <1>6 DEF NudgeTimeout, OtherTypes
  <2>2. inFlight' = (pend # 0) \/ inFlight' = inFlight
    BY <1>6, Zenon DEF NudgeTimeout
  <2>3. inFlight' \in BOOLEAN
    BY <2>2, Zenon DEF OtherTypes
  <2>4. sum' = sum
    BY <1>6 DEF NudgeTimeout
  <2> QED BY <1>2, <2>1, <2>3, <2>4 DEF OtherTypes
<1>7. CASE UNCHANGED vars
  BY <1>2, <1>7, Zenon DEF OtherTypes, vars, history
<1> QED BY <1>3, <1>4, <1>5, <1>6, <1>7 DEF Next, Answers

---------------------------------------------------------------------------
(* Live stays Live.                                                        *)

LEMMA LiveKept ==
    ASSUME SeeksInv, OtherTypes, LiveIsFinal, [Next]_vars
    PROVE  LiveIsFinal'
<1> SUFFICES ASSUME ~asked'
             PROVE  pend' = 0 /\ \A s \in Slots : pos'[s] = Live /\ Quiet(s)'
  BY DEF LiveIsFinal
<1>0. \A r \in out : r.slot \in Slots /\ r.gen # 0
  BY DEF SeeksInv, SeekTypes, Seeks
<1>1. CASE LiveClicked \/ ApplyLayout
  <2>1. slotGen' = [s \in Slots |-> 0] /\ pend' = 0 /\ out' = out /\ pos' = [s \in Slots |-> Live]
    BY <1>1 DEF LiveClicked, ApplyLayout, ReturnAllToLive, ForgetPendingLookups
  <2> QED BY <1>0, <2>1 DEF Quiet, Mine
<1>2. CASE ~(LiveClicked \/ ApplyLayout)
  <2>1. asked' = TRUE \/ asked' = asked
    BY <1>2 DEF Next, User, Answers, RulerClick, Click, Nudge,
           SelectSlot, AssignCamera, EventClick, history, StaggeredSeek, RecordingResolved,
           LookupFailed, BridgeSeekDone, NudgeTimeout, SearchAnswered, vars
  <2>2. ~asked
    BY <2>1, Zenon
  <2>3. pend = 0 /\ \A s \in Slots : pos[s] = Live /\ Quiet(s)
    BY <2>2 DEF LiveIsFinal
  <2>4. \A r \in out : Overtaken(r)
    BY <1>0, <2>3 DEF Quiet, Mine, Overtaken
  <2>5. ~\E t \in Places : Click(-t)
    <3>1. ~(asked' = TRUE)
      BY Zenon
    <3> QED BY <3>1 DEF Click
  <2>6. ~RulerClick /\ ~Nudge
    <3>1. ~(asked' = TRUE)
      BY Zenon
    <3> QED BY <2>5, <3>1 DEF RulerClick, Nudge
  <2>7. ~AssignCamera
    BY <2>3 DEF AssignCamera
  <2>8. pos' = pos /\ pend' = 0 /\ slotGen' = slotGen /\ out' \subseteq out
    <3>1. \A r \in out : ~(Overtaken(r) => FALSE) /\ (Stale(r) \/ Finish(r.slot, pos, out \ {r}) =>
             pend' = 0 /\ slotGen' = slotGen /\ out' \subseteq out)
      BY <2>3, <2>4 DEF Stale, Finish, Flush, NoSeek
    <3>2. CASE SelectSlot \/ UNCHANGED vars
      BY <2>3, <3>2 DEF SelectSlot, vars
    <3>3. CASE EventClick \/ SearchAnswered
      BY <2>3, <2>5, <3>3 DEF EventClick, SearchAnswered
    <3>4. CASE StaggeredSeek
      BY <2>4, <3>1, <3>4 DEF StaggeredSeek
    <3>5. CASE RecordingResolved \/ LookupFailed \/ BridgeSeekDone
      <4>1. PICK r \in out : Stale(r)
        BY <2>4, <3>5 DEF RecordingResolved, LookupFailed, BridgeSeekDone
      <4> QED BY <3>1, <4>1 DEF Stale
    <3>6. CASE NudgeTimeout
      BY <2>3, <3>6 DEF NudgeTimeout, NoSeek
    <3> QED BY <1>2, <2>6, <2>7, <3>2, <3>3, <3>4, <3>5, <3>6 DEF Next, User, Answers
  <2> QED BY <2>3, <2>8 DEF Quiet, Mine
<1> QED BY <1>1, <1>2

---------------------------------------------------------------------------
(* Event searches and the busy button.                                     *)

LEMMA SearchesKept ==
    ASSUME SearchInv, [Next]_vars
    PROVE  SearchInv'
<1>0. navGen \in Nat /\ searches \subseteq Searches
      /\ \A s \in searches : s.gen \in Nat /\ s.left \in Int /\ s.gen <= navGen
  BY DEF SearchInv, SearchTypes, Searches
<1>1. CASE LiveClicked \/ ApplyLayout
  <2>1. navGen' = navGen + 1 /\ searches' = searches /\ busy' = FALSE
    BY <1>1 DEF LiveClicked, ApplyLayout, ReturnAllToLive, ForgetPendingLookups
  <2>2. \A s \in searches' : s.gen # navGen' /\ s.gen <= navGen'
    BY <1>0, <2>1
  <2>3. ~busy' /\ busy' \in BOOLEAN
    BY <2>1, Zenon
  <2>4. SearchTypes'
    BY <1>0, <2>1, <2>2, <2>3 DEF SearchTypes
  <2>5. BusyIsTrue'
    BY <2>2, <2>3, Zenon DEF BusyIsTrue
  <2>6. OneSearch'
    BY <2>1 DEF SearchInv, OneSearch
  <2> QED BY <2>4, <2>5, <2>6 DEF SearchInv
<1>2. CASE EventClick
  <2>1. navGen' = navGen + 1
    BY <1>2 DEF EventClick
  <2>2. CASE busy' = FALSE /\ UNCHANGED searches
    <3>1. \A s \in searches' : s.gen # navGen' /\ s.gen <= navGen'
      BY <1>0, <2>1, <2>2
    <3>2. ~busy' /\ busy' \in BOOLEAN
      BY <2>2, Zenon
    <3>3. SearchTypes'
      BY <1>0, <2>1, <2>2, <3>1, <3>2 DEF SearchTypes
    <3>4. BusyIsTrue'
      BY <3>1, <3>2, Zenon DEF BusyIsTrue
    <3>5. OneSearch'
      BY <2>2 DEF SearchInv, OneSearch
    <3> QED BY <3>3, <3>4, <3>5 DEF SearchInv
  <2>3. CASE busy' = TRUE /\ searches' = searches \cup {[gen |-> navGen + 1, left |-> Windows]}
    <3>1. PICK new : new = [gen |-> navGen + 1, left |-> Windows]
      OBVIOUS
    <3>2. new \in Searches /\ new.gen = navGen'
      BY <1>0, <2>1, <3>1, WindowAssumption DEF Searches
    <3>3. searches' = searches \cup {new}
      BY <2>3, <3>1
    <3>4. \A s \in searches : s.gen # navGen' /\ s.gen <= navGen'
      BY <1>0, <2>1
    <3>5. busy' /\ busy' \in BOOLEAN
      BY <2>3, Zenon
    <3>6. SearchTypes'
      BY <1>0, <2>1, <3>2, <3>3, <3>4, <3>5 DEF SearchTypes
    <3>7. \E s \in searches' : s.gen = navGen'
      BY <3>2, <3>3
    <3>8. BusyIsTrue'
      BY <3>5, <3>7, Zenon DEF BusyIsTrue
    <3>9. OneSearch'
      BY <3>2, <3>3, <3>4 DEF SearchInv, OneSearch
    <3> QED BY <3>6, <3>8, <3>9 DEF SearchInv
  <2> QED BY <1>2, <2>2, <2>3 DEF EventClick
<1>3. CASE SearchAnswered
  <2>1. navGen' = navGen
    BY <1>3 DEF SearchAnswered
  <2>2. PICK s \in searches :
          \/ ~Heeded(s) /\ searches' = searches \ {s} /\ busy' = busy
          \/ Heeded(s) /\ s.left > 1 /\ busy' = busy
             /\ searches' = (searches \ {s}) \cup {[s EXCEPT !.left = @ - 1]}
          \/ Heeded(s) /\ searches' = searches \ {s} /\ busy' = FALSE
    BY <1>3 DEF SearchAnswered
  <2>3. \A q \in searches : q.gen = s.gen => q = s
    BY DEF SearchInv, OneSearch
  <2>4. CASE ~Heeded(s) /\ searches' = searches \ {s} /\ busy' = busy
    <3>1. (\E q \in searches' : q.gen = navGen') <=> (\E q \in searches : q.gen = navGen)
      BY <2>1, <2>4 DEF Heeded
    <3>2. BusyIsTrue' /\ busy' \in BOOLEAN
      BY <2>4, <3>1, Zenon DEF BusyIsTrue, SearchInv, SearchTypes
    <3>3. SearchTypes' /\ OneSearch'
      BY <2>1, <2>4, <3>2 DEF SearchInv, SearchTypes, OneSearch
    <3> QED BY <3>2, <3>3 DEF SearchInv
  <2>5. CASE Heeded(s) /\ searches' = searches \ {s} /\ busy' = FALSE
    <3>1. ~\E q \in searches' : q.gen = navGen'
      BY <2>1, <2>3, <2>5 DEF Heeded
    <3>2. BusyIsTrue' /\ busy' \in BOOLEAN
      BY <2>5, <3>1, Zenon DEF BusyIsTrue
    <3>3. SearchTypes' /\ OneSearch'
      BY <2>1, <2>5, <3>2 DEF SearchInv, SearchTypes, OneSearch
    <3> QED BY <3>2, <3>3 DEF SearchInv
  <2>6. CASE /\ Heeded(s) /\ busy' = busy
             /\ searches' = (searches \ {s}) \cup {[s EXCEPT !.left = @ - 1]}
    <3>1. PICK next : next = [s EXCEPT !.left = @ - 1]
      OBVIOUS
    <3>2. next \in Searches /\ next.gen = s.gen
      BY <1>0, <3>1 DEF Searches
    <3>3. searches' = (searches \ {s}) \cup {next}
      BY <2>6, <3>1
    <3>4. (\E q \in searches' : q.gen = navGen') /\ (\E q \in searches : q.gen = navGen)
      BY <2>1, <2>6, <3>2, <3>3 DEF Heeded
    <3>5. BusyIsTrue' /\ busy' \in BOOLEAN
      BY <2>6, <3>4, Zenon DEF BusyIsTrue, SearchInv, SearchTypes
    <3>6. SearchTypes'
      BY <1>0, <2>1, <3>2, <3>3, <3>5 DEF SearchTypes
    <3>7. OneSearch'
      BY <2>3, <3>2, <3>3 DEF SearchInv, OneSearch
    <3> QED BY <3>5, <3>6, <3>7 DEF SearchInv
  <2> QED BY <2>2, <2>4, <2>5, <2>6
<1>4. CASE UNCHANGED nav
  <2>1. navGen' = navGen /\ searches' = searches /\ busy' = busy
    BY <1>4 DEF nav
  <2> QED BY <2>1, Zenon DEF SearchInv, SearchTypes, OneSearch, BusyIsTrue
<1>5. LiveClicked \/ ApplyLayout \/ EventClick \/ SearchAnswered \/ UNCHANGED nav
  BY DEF Next, User, Answers, RulerClick, Nudge, SelectSlot, AssignCamera, StaggeredSeek,
         RecordingResolved, LookupFailed, BridgeSeekDone, NudgeTimeout, vars
<1> QED BY <1>1, <1>2, <1>3, <1>4, <1>5

---------------------------------------------------------------------------
LEMMA InitHolds == Init => IInv
<1> SUFFICES ASSUME Init
             PROVE  IInv
  OBVIOUS
<1>1. SeeksInv
  BY SlotAssumption DEF Init, SeeksInv, SeekTypes, OneSeek, LeadsToGoal, EmptyStaysLive, NotAhead,
        SettlesOnNewest, Live
<1>2. inFlight \in BOOLEAN /\ asked \in BOOLEAN /\ busy \in BOOLEAN /\ ~busy
  BY Zenon DEF Init
<1>3. OtherTypes
  BY <1>2 DEF Init, OtherTypes, None
<1>4. LiveIsFinal
  BY DEF Init, LiveIsFinal, Quiet, Mine
<1>5. searches = {} /\ navGen = 0
  BY DEF Init
<1>6. BusyIsTrue
  BY <1>2, <1>5, Zenon DEF BusyIsTrue
<1>7. SearchInv
  BY <1>2, <1>5, <1>6 DEF SearchInv, SearchTypes, OneSearch
<1> QED BY <1>1, <1>3, <1>4, <1>7 DEF IInv

LEMMA StepHolds == IInv /\ [Next]_vars => IInv'
<1> SUFFICES ASSUME IInv, [Next]_vars
             PROVE  IInv'
  OBVIOUS
<1>1. SeeksInv'
  <2>1. CASE Next
    BY <2>1, UserKeepsSeeks, AnswersKeepSeeks DEF IInv, Next
  <2>2. CASE UNCHANGED vars
    <3>1. focus' \in Slots
      BY <2>2 DEF IInv, SeeksInv, SeekTypes, vars
    <3> QED BY <2>2, <3>1, SeeksUnchanged DEF IInv, vars, history
  <2> QED BY <2>1, <2>2
<1>2. OtherTypes' /\ LiveIsFinal' /\ SearchInv'
  BY OthersKept, LiveKept, SearchesKept DEF IInv
<1> QED BY <1>1, <1>2 DEF IInv

(* Whatever the order of clicks, answers, timers and searches: each slot   *)
(* waits for at most one seek of the newest generation, whose place is the *)
(* goal the slot was given last, and at most one search is heeded.         *)
THEOREM NavInductive == Spec => []IInv
BY InitHolds, StepHolds, PTL DEF Spec

(* Seeks and searches carry generations that were given out, to any slots. *)
THEOREM NavTypes == Spec => []TypeOK
<1>1. IInv => TypeOK
  BY DEF IInv, SeeksInv, SeekTypes, OtherTypes, SearchInv, SearchTypes, Seeks, TypeOK
<1> QED BY <1>1, NavInductive, PTL

(* A slot with nothing left to wait for is where its newest seek led, Live *)
(* stays Live, and the busy button tells of the search that will be heeded *)
(* (_on_timeline_seek, _forget_pending_lookups, _search_event_window).    *)
THEOREM NewestWinsAlways == Spec => []NewestWins
<1>1. IInv => NewestWins
  BY DEF IInv, SeeksInv, LiveIsFinal, SearchInv, NewestWins, LiveStaysLive
<1> QED BY <1>1, NavInductive, PTL
====
