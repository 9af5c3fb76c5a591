----------------------------- MODULE MCPipeFds -----------------------------
(* Two bridges on one slot: a restart reuses the numbers of the bridge it *)
(* replaces, which is still being stopped.                                 *)
EXTENDS PipeFds, TLC

CONSTANTS b1, b2, s1

OneSlot  == [b \in Bridges |-> s1]
FewFds   == 0 .. 5
MoreFds  == 0 .. 8
============================================================================
