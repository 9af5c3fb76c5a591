----------------------------- MODULE ApiSession -----------------------------
(***************************************************************************)
(* The session a SurveillanceAPI client keeps with the NAS (api/client.py, *)
(* api/auth.py) while polls and downloads share it: each call carries the  *)
(* session id of the moment it is sent, a session error makes the call log *)
(* in again and ask once more, and a logout may come at any time.          *)
(*                                                                         *)
(* Callers are coroutines of one asyncio loop: they interleave at each     *)
(* message, a reply is handled in one step.  The NAS is external: it may   *)
(* drop a session, refuse the password from now on, be busy, or never be   *)
(* heard.                                                                  *)
(***************************************************************************)
EXTENDS Naturals

CONSTANTS
  Callers,     \* the polls and downloads that may be under way at once
  MaxKicks,    \* bound: sessions the NAS drops
  MaxErrors,   \* bound: answers that are an error, a proxy's page, or lost
  MaxSids      \* bound: sessions the NAS ever grants

SessionAssumption == MaxKicks \in Nat /\ MaxErrors \in Nat /\ MaxSids \in Nat \ {0}

VARIABLES
  sid,      \* api.sid, 0 for ""
  creds,    \* whether api.username and api.password are set
  refusal,  \* whether api._refusal is set
  closed,   \* api._closed
  at,       \* where each call is: idle, or waiting for the answer to what
  sent,     \* the session id its last message carried
  first,    \* the one its failed first attempt carried
  reply,    \* the answer on its way to it
  got,      \* the session id a granted login brings
  out,      \* the logout: "no", "asked", "answered" or "done"
  bye,      \* the session it names
  live,     \* the sessions the NAS knows
  made,     \* sessions granted so far
  takes,    \* whether the NAS takes the password
  kicks, errors,
  refused   \* (history variable) refused logins each caller has had

session == <<sid, creds, refusal, closed>>
calls   == <<at, sent, first, reply, got>>
leaving == <<out, bye>>
nas     == <<live, made, takes, kicks>>
vars    == <<session, calls, leaving, nas, errors, refused>>

Sids    == 0 .. MaxSids
Waiting == {"ask", "login", "again"}
Replies == {"none", "ok", "expired", "error", "lost", "granted", "refused", "busy"}

TypeOK ==
  /\ sid \in Sids /\ creds \in BOOLEAN /\ refusal \in BOOLEAN /\ closed \in BOOLEAN
  /\ at \in [Callers -> Waiting \cup {"idle"}]
  /\ sent \in [Callers -> Sids] /\ first \in [Callers -> Sids]
  /\ reply \in [Callers -> Replies] /\ got \in [Callers -> Sids]
  /\ out \in {"no", "asked", "answered", "done"} /\ bye \in Sids
  /\ live \in SUBSET Sids /\ made \in Sids /\ takes \in BOOLEAN
  /\ kicks \in 0 .. MaxKicks /\ errors \in Nat
  /\ refused \in [Callers -> Nat]

(* A client as the login dialog hands it over: logged in, nothing asked.   *)
Init ==
  /\ sid = 1 /\ creds = TRUE /\ refusal = FALSE /\ closed = FALSE
  /\ at = [c \in Callers |-> "idle"] /\ reply = [c \in Callers |-> "none"]
  /\ sent = [c \in Callers |-> 0] /\ first = [c \in Callers |-> 0]
  /\ got = [c \in Callers |-> 0]
  /\ out = "no" /\ bye = 0
  /\ live = {1} /\ made = 1 /\ takes = TRUE /\ kicks = 0 /\ errors = 0
  /\ refused = [c \in Callers |-> 0]

----------------------------------------------------------------------------
(* Sending.  The client property refuses once the client is closed, and a  *)
(* call that cannot send is over.                                          *)

PoolRebuilt == TRUE
Open == ~closed

StaleSid(s, c) == sent[c]
SidAtSend(s, c) == s

Send(c, what, s) ==
  /\ reply' = [reply EXCEPT ![c] = "none"]
  /\ IF Open THEN at' = [at EXCEPT ![c] = what] /\ sent' = [sent EXCEPT ![c] = s]
             ELSE at' = [at EXCEPT ![c] = "idle"] /\ UNCHANGED sent

End(c) ==
  /\ at' = [at EXCEPT ![c] = "idle"] /\ reply' = [reply EXCEPT ![c] = "none"]
  /\ UNCHANGED sent

(* request(), download() or stream_download(): the first attempt.          *)
Ask(c) ==
  /\ at[c] = "idle" /\ Open
  /\ Send(c, "ask", sid) /\ first' = [first EXCEPT ![c] = sid]
  /\ UNCHANGED <<session, got, leaving, nas, errors, refused>>

(* A session error, with the credentials to do something about it.         *)
AskFailed(c) ==
  /\ at[c] = "ask" /\ reply[c] = "expired"
  /\ IF creds /\ ~refusal THEN Send(c, "login", sid) ELSE End(c)
  /\ UNCHANGED <<session, first, got, leaving, nas, errors, refused>>

AskDone(c) ==
  /\ at[c] = "ask" /\ reply[c] \in {"ok", "error", "lost"} /\ End(c)
  /\ UNCHANGED <<session, first, got, leaving, nas, errors, refused>>

OldSid(s) == sid
NewSid(s) == s

(* login() stores what it logged in with, and the call is made once more.  *)
LoggedIn(c) ==
  /\ at[c] = "login" /\ reply[c] = "granted"
  /\ sid' = NewSid(got[c]) /\ creds' = TRUE
  /\ Send(c, "again", SidAtSend(got[c], c))
  /\ UNCHANGED <<refusal, closed, first, got, leaving, nas, errors, refused>>

Forgotten(r) == FALSE
Recorded(r) == r = "refused"

(* A refusal is recorded; a login unanswered or put off is not.            *)
LoginFailed(c) ==
  /\ at[c] = "login" /\ reply[c] \in {"refused", "busy", "lost"} /\ End(c)
  /\ refusal' = (refusal \/ Recorded(reply[c]))
  /\ refused' = IF reply[c] = "refused" THEN [refused EXCEPT ![c] = @ + 1] ELSE refused
  /\ UNCHANGED <<sid, creds, closed, first, got, leaving, nas, errors>>

AgainDone(c) ==
  /\ at[c] = "again" /\ reply[c] # "none" /\ End(c)
  /\ UNCHANGED <<session, first, got, leaving, nas, errors, refused>>

----------------------------------------------------------------------------
(* Logging out (SurveillanceApp._on_logout): the session in use is named   *)
(* as the request is sent; the credentials go when it has been answered,   *)
(* or has failed, and the client closes in the same step.                  *)

LogOut ==
  /\ out = "no" /\ out' = "asked" /\ bye' = sid
  /\ UNCHANGED <<session, calls, nas, errors, refused>>

NasLogsOut ==
  /\ out = "asked" /\ out' = "answered" /\ live' = live \ {bye}
  /\ UNCHANGED <<session, calls, bye, made, takes, kicks, errors, refused>>

LoggedOut ==
  /\ out \in {"asked", "answered"} /\ out' = "done"
  /\ out = "asked" => errors < MaxErrors
  /\ errors' = IF out = "asked" THEN errors + 1 ELSE errors
  /\ sid' = 0 /\ creds' = FALSE /\ closed' = TRUE
  /\ UNCHANGED <<refusal, calls, bye, nas, refused>>

----------------------------------------------------------------------------
(* The NAS.                                                                *)

NasAnswers(c) ==
  /\ at[c] \in {"ask", "again"} /\ reply[c] = "none"
  /\ \/ /\ reply' = [reply EXCEPT ![c] = IF sent[c] \in live THEN "ok" ELSE "expired"]
        /\ UNCHANGED errors
     \/ /\ errors < MaxErrors /\ errors' = errors + 1
        /\ \E r \in {"error", "expired"} : reply' = [reply EXCEPT ![c] = r]
  /\ UNCHANGED <<session, at, sent, first, got, leaving, nas, refused>>

NasGrants(c) ==
  /\ at[c] = "login" /\ reply[c] = "none" /\ takes /\ made < MaxSids
  /\ made' = made + 1 /\ live' = live \cup {made + 1}
  /\ reply' = [reply EXCEPT ![c] = "granted"] /\ got' = [got EXCEPT ![c] = made + 1]
  /\ UNCHANGED <<session, at, sent, first, leaving, takes, kicks, errors, refused>>

NasTurnsAway(c) ==
  /\ at[c] = "login" /\ reply[c] = "none"
  /\ \/ /\ ~takes
        /\ reply' = [reply EXCEPT ![c] = "refused"] /\ UNCHANGED errors
     \/ /\ errors < MaxErrors /\ errors' = errors + 1
        /\ reply' = [reply EXCEPT ![c] = "busy"]
  /\ UNCHANGED <<session, at, sent, first, got, leaving, nas, refused>>

(* A timeout or a transport error; or the pool was closed under the call.  *)
Lost(c) ==
  /\ at[c] \in Waiting /\ reply[c] # "lost"
  /\ \/ errors < MaxErrors /\ errors' = errors + 1
     \/ closed /\ UNCHANGED errors
  /\ reply' = [reply EXCEPT ![c] = "lost"]
  /\ UNCHANGED <<session, at, sent, first, got, leaving, nas, refused>>

Kick ==
  /\ kicks < MaxKicks /\ kicks' = kicks + 1
  /\ \E s \in live : live' = live \ {s}
  /\ UNCHANGED <<session, calls, leaving, made, takes, errors, refused>>

ChangePassword ==
  /\ takes /\ takes' = FALSE
  /\ UNCHANGED <<session, calls, leaving, live, made, kicks, errors, refused>>

----------------------------------------------------------------------------
Handle(c) ==
  AskFailed(c) \/ AskDone(c) \/ LoggedIn(c) \/ LoginFailed(c) \/ AgainDone(c)

Serve(c) == NasAnswers(c) \/ NasGrants(c) \/ NasTurnsAway(c)

Next ==
  \/ \E c \in Callers : Ask(c) \/ Handle(c) \/ Serve(c) \/ Lost(c)
  \/ LogOut \/ NasLogsOut \/ LoggedOut \/ Kick \/ ChangePassword

Spec == Init /\ [][Next]_vars

(* The polls keep asking; what is asked is answered, or times out; what is *)
(* answered is handled.                                                    *)
FairSpec ==
  /\ Spec
  /\ \A c \in Callers : WF_vars(Ask(c)) /\ WF_vars(Handle(c)) /\ WF_vars(Serve(c))

----------------------------------------------------------------------------
(* A wrong password is sent until the NAS has been heard to refuse it, and *)
(* then by no call that has not sent it already: each caller hears at most *)
(* one refusal, however long the client runs on (DSM's auto block).        *)
RefusedOnce == \A c \in Callers : refused[c] <= 1

(* The second attempt never carries the session the first one failed with, *)
(* nor an older one, whatever the other callers have logged in to or the   *)
(* order in which their logins are answered.                               *)
FreshRetry == \A c \in Callers : at[c] = "again" => sent[c] > first[c]

(* What a proof of the two needs: a call that logs in has no refusal       *)
(* behind it, and sessions are granted in increasing order.                *)
Unrefused == \A c \in Callers :
  refused[c] > 0 => refused[c] = 1 /\ refusal /\ at[c] # "login"
Ordered ==
  /\ sid <= made
  /\ \A c \in Callers :
       /\ at[c] \in Waiting => first[c] <= made
       /\ at[c] = "login" /\ reply[c] = "granted" => first[c] < got[c] /\ got[c] <= made

(* Their conjunction, with the types, is inductive.                        *)
IInv == TypeOK /\ Unrefused /\ Ordered /\ FreshRetry

Sends(c) == at'[c] \in Waiting /\ at'[c] # at[c]

(* A call that outlives the client sends nothing more: no poll, download   *)
(* or re-login of an old session reaches the NAS after it is closed.       *)
ClosedSendsNothing == [][closed => \A c \in Callers : ~Sends(c)]_vars

(* A session the NAS drops is replaced by the polls themselves, unless the *)
(* password is refused or the user logs out.                               *)
PollsRestoreSession ==
  sid \notin live ~> sid \in live \/ refusal \/ out # "no"

(* The docstring of logout(): no call in flight opens a session once the   *)
(* user has logged out.                                                    *)
NoLoginAfterLogout ==
  [][out # "no" => \A c \in Callers : ~(Sends(c) /\ at'[c] = "login")]_vars

============================================================================
