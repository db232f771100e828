------------------------------- MODULE MCCache -------------------------------
(***************************************************************************)
(* Instances of CacheHierarchy: values for its functions of the cache.     *)
(***************************************************************************)
EXTENDS CacheHierarchy

CONSTANTS c1, c2

Each(v) == [c \in {c1, c2, "LLC"} |-> v]
Zero == Each(0)
One == Each(1)
AtL1 == [Zero EXCEPT ![c1] = 1]
TwoAtLLC == [One EXCEPT !["LLC"] = 2]
Three == Each(3)
Yes == Each(TRUE)
WriteThroughC2 == [Yes EXCEPT ![c2] = FALSE]
AllLRU == Each("LRU")
LineCycles == [b \in {"LLC_bus", "FSB"} |-> 1]
NextLine == [a \in Blocks |-> {a + 1} \cap Blocks]
Shared == {<<c1, "READ", 0>>, <<c1, "READ", 1>>, <<c1, "WRITE", 1>>, <<c2, "WRITE", 0>>, <<c2, "WRITE", 1>>}
ByCommand == <<{"READ"}, {"WRITE"}, {"PREFETCH"}, {"WRITEBACK"}>>

(* The instance is one of those the theorems are about.                    *)
ASSUME InstanceAssumption == Configured
=============================================================================
