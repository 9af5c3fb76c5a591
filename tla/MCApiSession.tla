---------------------------- MODULE MCApiSession ----------------------------
(* A client's session, with what TLC checks of it under the names by which *)
(* SessionProofs states it beside the main window's properties.            *)
CONSTANTS Callers, MaxKicks, MaxErrors, MaxSids
VARIABLES sid, creds, refusal, closed, at, sent, first, reply, got, out, bye,
          live, made, takes, kicks, errors, refused

Api == INSTANCE ApiSession

ASSUME ApiAssumption == Api!SessionAssumption

ApiSpec == Api!Spec
ApiFairSpec == Api!FairSpec

(* Each caller hears at most one refusal of the password, however long the *)
(* client runs on (_relogin).                                              *)
RefusedOnce == Api!RefusedOnce

(* A second attempt carries a newer session than the first one failed      *)
(* with, in whichever order the logins of other callers are answered       *)
(* (request).                                                              *)
FreshRetry == Api!FreshRetry

(* Once the client is closed no call moves on to a new message (close).    *)
ClosedSendsNothing == Api!ClosedSendsNothing

(* A session the NAS drops is replaced by the polls themselves, unless the *)
(* password is refused or the user logs out (_relogin).                    *)
PollsRestoreSession == Api!PollsRestoreSession
=============================================================================
