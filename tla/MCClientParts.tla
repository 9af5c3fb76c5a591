--------------------------- MODULE MCClientParts ---------------------------
(* Two cameras, each with recordings on one day of another month; events   *)
(* searched for in two windows, cached for two stretches that overlap.     *)
EXTENDS ClientParts

CONSTANTS c1, c2

OneDayEach == {<<c1, 1, 1>>, <<c2, 2, 2>>}
TwoSteps == <<1, 3>>
TwoStretches == {<<0, 3>>, <<2, 4>>}

(* "the nearest one on either side of the current position, across every   *)
(* camera in the layout" (README): not so when one camera's cache reaches  *)
(* further than another's (_seek_to_nearest_event).                        *)
NearestOfAll == Search!NearestOfAll
=============================================================================
