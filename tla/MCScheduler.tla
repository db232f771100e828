--------------------------- MODULE MCScheduler ---------------------------
(* TLC instances of Scheduler.                                             *)
EXTENDS Scheduler

CONSTANTS t1, t2, t3

(* Two processes; the ranges of cores they are pinned to overlap at core 1 *)
(* when there are two cores.                                               *)
TwoProcesses == [t \in Threads |-> IF t = t3 THEN 1 ELSE 0]
OneProcess == [t \in Threads |-> 0]
(* t1 does everything, t2 is pinned once it is scheduled, t3 only exits.   *)
Mixed == [t \in Threads |-> CASE t = t1 -> {"kill", "leave", "affinity"}
                              [] t = t2 -> {"kill", "leave"}
                              [] OTHER  -> {"kill"}]
ExitOnly == [t \in Threads |-> {"kill"}]
OneJoin == {<<t1, t2>>}
=============================================================================
