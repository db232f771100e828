------------------------------ MODULE Lockstep ------------------------------
(***************************************************************************)
(* What the cycle barrier of sim-loop.cpp promises: the uncore advances    *)
(* only when every active core has finished its own cycle, and a core that *)
(* has finished its cycle waits for that.  "Cycle lock is used to          *)
(* synchronize global state (cycle counter) and not let a core advance in  *)
(* time without increasing cycle" (sim-loop.cpp:44).                       *)
(***************************************************************************)
EXTENDS Naturals

CONSTANT Cores

VARIABLES
    running,    \* the active cores
    arrived,    \* the active cores that have finished their cycle
    clock       \* uncore->sim_cycle, modulo 2

vars == <<running, arrived, clock>>

Init == running = {} /\ arrived = {} /\ clock = 0

(* A core finishes its cycle and waits.                                    *)
Arrive(c) ==
    /\ c \in running \ arrived
    /\ arrived' = arrived \cup {c}
    /\ UNCHANGED <<running, clock>>

(* The uncore advances; everyone is let go.  The core that makes the       *)
(* gathering complete may do so as it arrives.                             *)
Advance ==
    /\ \E c \in running : running \subseteq arrived \cup {c}
    /\ arrived' = {}
    /\ clock' = (clock + 1) % 2
    /\ UNCHANGED running

(* A core joins; it has not finished the current cycle.                    *)
Join(c) ==
    /\ c \notin running
    /\ running' = running \cup {c}
    /\ UNCHANGED <<arrived, clock>>

(* A core leaves, and it is not one that waits.                            *)
Quit(c) ==
    /\ c \in running \ arrived
    /\ running' = running \ {c}
    /\ UNCHANGED <<arrived, clock>>

Next == Advance \/ \E c \in Cores : Arrive(c) \/ Join(c) \/ Quit(c)

Spec == Init /\ [][Next]_vars
=============================================================================
