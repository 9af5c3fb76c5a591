---- MODULE LatestList ----
(***************************************************************************)
(* What a page of the program promises of a list it fetches: whatever the  *)
(* user asks for meanwhile and however late the answers come, the list on  *)
(* display only ever changes to the one wanted at that moment, to its      *)
(* absence, or to another page of itself.                                  *)
(***************************************************************************)
CONSTANT Wants, Nothing  \* what may be asked for; nothing on display

VARIABLES want,          \* what the user has chosen
          have           \* what the list on display was fetched for

Init == want \in Wants /\ have = Nothing

(* The user chooses; what is on display stays until an answer replaces it. *)
Ask == want' \in Wants /\ have' = have

(* An answer replaces it: with what is wanted now, or with nothing.        *)
Show == have' \in {want, Nothing} /\ want' = want

Next == Ask \/ Show

Spec == Init /\ [][Next]_<<want, have>>
====
