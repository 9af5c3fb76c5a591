------------------------------ MODULE PtzOrder ------------------------------
(***************************************************************************)
(* PTZ, zoom, focus, preset and patrol commands.  Each click is a          *)
(* coroutine of its own; a lock per camera keeps those of one camera in    *)
(* the order of the clicks, so that the Stop of a movement is its last     *)
(* word even when one of them has to log in again on its way.              *)
(***************************************************************************)
EXTENDS Naturals

CONSTANTS Cameras, MaxClicks

ClickAssumption == MaxClicks \in Nat /\ Cameras # {}

Commands == 1 .. MaxClicks
Nobody == 0

VARIABLES clicks,  \* commands given so far: 1 .. clicks
          camera,  \* per command
          stage,   \* per command: "none", "new", "waiting", "sending",
                   \* "login", "arrived" (at the NAS), "done", "failed"
          holder   \* per camera: which command holds its lock

vars == <<clicks, camera, stage, holder>>

Stages == {"none", "new", "waiting", "sending", "login", "arrived", "done", "failed"}

Init ==
    /\ clicks = 0
    /\ camera = [n \in Commands |-> CHOOSE c \in Cameras : TRUE]
    /\ stage = [n \in Commands |-> "none"]
    /\ holder = [c \in Cameras |-> Nobody]

To(n, next) == stage' = [stage EXCEPT ![n] = next]

(* A button of the slot's toolbar: run_async submits the coroutine.        *)
Click ==
    /\ clicks < MaxClicks /\ clicks' = clicks + 1 /\ To(clicks', "new")
    /\ \E c \in Cameras : camera' = [camera EXCEPT ![clicks'] = c]
    /\ UNCHANGED holder

(* Coroutines start in the order they were submitted.                      *)
Begin ==
    /\ \E n \in Commands :
          /\ stage[n] = "new" /\ \A m \in Commands : m < n => stage[m] # "new"
          /\ To(n, "waiting")
    /\ UNCHANGED <<clicks, camera, holder>>

(* A mutant: a task per command and no lock, as it once was.               *)
AnyTime(n) == TRUE

(* asyncio.Lock: free, and its waiters in the order they came.             *)
MyTurn(n) ==
    /\ holder[camera[n]] = Nobody
    /\ \A m \in Commands :
          m < n /\ camera[m] = camera[n] => stage[m] # "waiting"

Acquire ==
    /\ \E n \in Commands :
          /\ stage[n] = "waiting" /\ MyTurn(n)
          /\ To(n, "sending")
          /\ holder' = [holder EXCEPT ![camera[n]] = n]
    /\ UNCHANGED <<clicks, camera>>

Release(n) == holder' = [holder EXCEPT ![camera[n]] = Nobody]

(* The NAS takes the command, or wants a new session first.                *)
Sent ==
    /\ \E n \in Commands :
          \/ stage[n] = "sending" /\ \E next \in {"arrived", "login"} : To(n, next)
          \/ stage[n] = "login" /\ To(n, "arrived")
    /\ UNCHANGED <<clicks, camera, holder>>

(* Answered, refused or timed out: the lock is let go.                     *)
Over ==
    /\ \E n \in Commands :
          /\ stage[n] \in {"sending", "login", "arrived"}
          /\ \/ stage[n] = "arrived" /\ To(n, "done")
             \/ stage[n] # "arrived" /\ To(n, "failed")
          /\ Release(n)
    /\ UNCHANGED <<clicks, camera>>

Next == Click \/ Begin \/ Acquire \/ Sent \/ Over

Spec == Init /\ [][Next]_vars

TypeOK ==
    /\ clicks \in 0 .. MaxClicks
    /\ camera \in [Commands -> Cameras]
    /\ stage \in [Commands -> Stages]
    /\ holder \in [Cameras -> Commands \cup {Nobody}]

(* When a command reaches the NAS no earlier one for its camera is still   *)
(* on its way: the last to arrive is the last clicked (_ptz_in_order).     *)
LastClickLast ==
    \A n \in Commands : stage[n] \in {"arrived", "done"} =>
        \A m \in Commands :
            m < n /\ camera[m] = camera[n] => stage[m] \in {"arrived", "done", "failed"}

(* The inductive invariant behind it: only the holder is under way, those  *)
(* before it are settled, and the ones not begun are the last clicked.     *)
UnderWay == {"sending", "login", "arrived"}
Settled == {"done", "failed"}

InTurn ==
    /\ TypeOK
    /\ \A n \in Commands : stage[n] = "none" <=> n > clicks
    /\ \A n \in Commands : stage[n] \in UnderWay => holder[camera[n]] = n
    /\ \A n, m \in Commands : m < n /\ stage[m] = "new" => stage[n] \in {"new", "none"}
    /\ \A n, m \in Commands :
          /\ m < n /\ camera[m] = camera[n] /\ n <= clicks
          /\ stage[n] \notin {"new", "waiting"}
          => stage[m] \in Settled
=============================================================================
