------------------------------ MODULE Webhooks ------------------------------
(***************************************************************************)
(* Events of the client sent to a webhook target.  The GTK thread keeps    *)
(* one dispatcher per session and hands everything to the asyncio loop,    *)
(* where each target has a bounded queue and a worker.  One target is      *)
(* modelled: targets share nothing but the start and the stop.             *)
(***************************************************************************)
EXTENDS Naturals, Sequences

CONSTANTS QueueSize,   \* QUEUE_SIZE
          MaxEvents,   \* bound: events emitted
          MaxSessions  \* bound: logins, each with its own dispatcher

QueueAssumption == QueueSize \in Nat \ {0}

Dispatchers == 1 .. MaxSessions
Events == 1 .. MaxEvents
None == 0

VARIABLES dispatcher, logins,  \* GTK: the session's dispatcher, how many yet
          emitted,             \* GTK: events so far
          calls,               \* call_soon_threadsafe, first come first served
          worker,              \* per dispatcher: "none", "token" (keyring),
                               \* "running", "broken", "stopped"
          queue, posting,      \* per dispatcher: waiting, and being posted
          unfinished,          \* per dispatcher: the count queue.join() awaits
          settled              \* events posted, refused, dropped or stopped

gtk == <<dispatcher, logins, emitted>>
vars == <<gtk, calls, worker, queue, posting, unfinished, settled>>

Init ==
    /\ dispatcher = None /\ logins = 0 /\ emitted = 0 /\ calls = <<>>
    /\ worker = [d \in Dispatchers |-> "none"]
    /\ queue = [d \in Dispatchers |-> <<>>]
    /\ posting = [d \in Dispatchers |-> None]
    /\ unfinished = [d \in Dispatchers |-> 0]
    /\ settled = {}

Ask(what, e) == Append(calls, [what |-> what, of |-> dispatcher, event |-> e])

(* start(): after a login; the session before was stopped at its logout.   *)
Start ==
    /\ dispatcher = None /\ logins < MaxSessions
    /\ logins' = logins + 1 /\ dispatcher' = logins'
    /\ calls' = Append(calls, [what |-> "start", of |-> logins', event |-> None])
    /\ UNCHANGED <<emitted, worker, queue, posting, unfinished, settled>>

Stop ==
    /\ dispatcher # None /\ dispatcher' = None
    /\ calls' = Ask("stop", None)
    /\ UNCHANGED <<logins, emitted, worker, queue, posting, unfinished, settled>>

(* A snapshot was saved, or a note_ method saw a change.                   *)
Emit ==
    /\ dispatcher # None /\ emitted < MaxEvents
    /\ emitted' = emitted + 1 /\ calls' = Ask("put", emitted')
    /\ UNCHANGED <<dispatcher, logins, worker, queue, posting, unfinished, settled>>

(***************************************************************************)
(* The loop.                                                               *)
(***************************************************************************)
Started(d) ==
    /\ worker' = [worker EXCEPT ![d] = "token"]
    /\ UNCHANGED <<queue, posting, unfinished, settled>>

(* cancel(): the post under way is counted off, the queue forgotten.       *)
Stopped(d) ==
    /\ worker' = [worker EXCEPT ![d] = IF @ = "broken" THEN @ ELSE "stopped"]
    /\ settled' = settled \cup {queue[d][i] : i \in 1 .. Len(queue[d])}
                    \cup ({posting[d]} \ {None})
    /\ unfinished' = [unfinished EXCEPT ![d] = IF posting[d] = None THEN @ ELSE @ - 1]
    /\ posting' = [posting EXCEPT ![d] = None]
    /\ UNCHANGED queue

(* A mutant: the event thrown out is not counted off.                      *)
StillCounted(d, e) ==
    /\ queue' = [queue EXCEPT ![d] = Append(Tail(@), e)]
    /\ unfinished' = [unfinished EXCEPT ![d] = @ + 1]

OldestOut(d, e) ==
    /\ queue' = [queue EXCEPT ![d] = Append(Tail(@), e)]
    /\ UNCHANGED unfinished

Put(d, e) ==
    /\ UNCHANGED <<worker, posting>>
    /\ IF Len(queue[d]) >= QueueSize
       THEN OldestOut(d, e) /\ settled' = settled \cup {Head(queue[d])}
       ELSE /\ queue' = [queue EXCEPT ![d] = Append(@, e)]
            /\ unfinished' = [unfinished EXCEPT ![d] = @ + 1]
            /\ UNCHANGED settled

Callback ==
    /\ calls # <<>> /\ calls' = Tail(calls) /\ UNCHANGED gtk
    /\ LET c == Head(calls) IN
       CASE c.what = "start" -> Started(c.of)
         [] c.what = "stop" -> Stopped(c.of)
         [] c.what = "put" -> Put(c.of, c.event)

(* webhook_token for each target, on a worker thread; the keyring may fail.*)
TokenRead ==
    /\ \E d \in Dispatchers :
          /\ worker[d] = "token"
          /\ \E next \in {"running", "broken"} : worker' = [worker EXCEPT ![d] = next]
    /\ UNCHANGED <<gtk, calls, queue, posting, unfinished, settled>>

Get ==
    /\ \E d \in Dispatchers :
          /\ worker[d] = "running" /\ posting[d] = None /\ queue[d] # <<>>
          /\ posting' = [posting EXCEPT ![d] = Head(queue[d])]
          /\ queue' = [queue EXCEPT ![d] = Tail(@)]
    /\ UNCHANGED <<gtk, calls, worker, unfinished, settled>>

(* A mutant: a refused event ends the worker.                              *)
WorkerEnds(d) == worker' \in {worker, [worker EXCEPT ![d] = "ended"]}

GoesOn(d) == UNCHANGED worker

(* Accepted, refused or timed out: _post tells nobody but the log.         *)
Posted ==
    /\ \E d \in Dispatchers :
          /\ posting[d] # None
          /\ settled' = settled \cup {posting[d]}
          /\ unfinished' = [unfinished EXCEPT ![d] = @ - 1]
          /\ posting' = [posting EXCEPT ![d] = None]
          /\ GoesOn(d)
    /\ UNCHANGED <<gtk, calls, queue>>

Next ==
    \/ Start \/ Stop \/ Emit
    \/ Callback \/ TokenRead \/ Get \/ Posted

Spec == Init /\ [][Next]_vars

(* The loop runs its callbacks; the keyring answers, a post has a timeout. *)
WorkerSteps == TokenRead \/ Get \/ Posted
FairSpec == Spec /\ WF_vars(Callback) /\ WF_vars(WorkerSteps)

TypeOK ==
    /\ dispatcher \in Dispatchers \cup {None} /\ logins \in 0 .. MaxSessions
    /\ emitted \in 0 .. MaxEvents
    /\ calls \in Seq([what : {"start", "stop", "put"}, of : Dispatchers,
                      event : Events \cup {None}])
    /\ worker \in [Dispatchers -> {"none", "token", "running", "broken", "stopped"}]
    /\ queue \in [Dispatchers -> Seq(Events)]
    /\ posting \in [Dispatchers -> Events \cup {None}]
    /\ unfinished \in [Dispatchers -> Nat]
    /\ settled \subseteq Events

(* wait_idle returns when everything put is sent or thrown out: the count  *)
(* it waits for is what is queued and what is being posted, however events *)
(* were dropped and posts cancelled (put, run).                            *)
IdleMeansSent ==
    \A d \in Dispatchers :
        unfinished[d] = Len(queue[d]) + (IF posting[d] = None THEN 0 ELSE 1)

(* An event is sent in the end, however many posts before it failed,       *)
(* unless the session ends, newer ones push it out of the queue or the     *)
(* keyring broke the workers (run, _post).                                 *)
AllOut == 1 .. emitted \subseteq settled \/ \E d \in Dispatchers : worker[d] = "broken"
EventsGoOut == []<>AllOut
=============================================================================
