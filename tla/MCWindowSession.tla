--------------------------- MODULE MCWindowSession ---------------------------
(* Two profiles, each with a camera of the same id; 1x1 and a layout of two *)
(* slots.                                                                   *)
EXTENDS WindowSession

NasOfBoth == <<"a", "b">>
SameIds == <<1, 1>>
Grids == [l \in Layouts |-> IF l = Solo THEN {Focus} ELSE Slots]
=============================================================================
