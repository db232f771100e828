--------------------------- MODULE MCCycleBarrier ---------------------------
(* TLC instances of CycleBarrier: core 0 syncs every cycle, the others     *)
(* need two local cycles.                                                  *)
EXTENDS CycleBarrier

MCPeriod == [c \in Cores |-> IF c = 0 THEN 2 ELSE 1]
=============================================================================
