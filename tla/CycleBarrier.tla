---------------------------- MODULE CycleBarrier ----------------------------
(***************************************************************************)
(* The per-cycle barrier between the simulated cores and the uncore        *)
(* (sim-loop.cpp).  Each core has a sim thread; when its local time        *)
(* reaches the synchronization interval it waits in sim_main_slave_pre_pin *)
(* until the active core with the smallest id has run global_step().       *)
(* Sim threads join and quit the barrier with activate_core and            *)
(* deactivate_core.                                                        *)
(*                                                                         *)
(* Every step below is one critical section of cycle_lock, or the local    *)
(* work between two of them.  The pipeline stages, and what global_step    *)
(* does to caches and DRAM, touch none of this state and are left out.     *)
(***************************************************************************)
EXTENDS Integers, FiniteSets

CONSTANTS
    NumCores,       \* system_knobs.num_cores
    Period,         \* 1e-3 / cpu_speed of each core
    SyncInterval,   \* sync_interval
    (* The environment, that is, the scheduler and the workload:           *)
    FirstCores,     \* cores that may be the first one ever activated
    Leavers,        \* cores whose threads give them up
    Reactivates     \* may activate_core hit a core that is active already?

Cores == 0 .. NumCores - 1
MAX_CORES == NumCores

ASSUME BarrierAssumption ==
    /\ NumCores \in Nat \ {0}
    /\ Period \in [Cores -> Nat \ {0}]
    /\ SyncInterval \in Nat \ {0}
    /\ FirstCores \subseteq Cores
    /\ Leavers \subseteq Cores
    /\ Reactivates \in BOOLEAN

VARIABLES
    active, finished_cycle, ns_passed,  \* fields of cores[c]
    min_coreID,
    sim_cycle,      \* uncore->sim_cycle, modulo 2
    started,        \* some core has been activated
    pc              \* what the sim thread of each core is doing

vars == <<active, finished_cycle, ns_passed, min_coreID, sim_cycle, started, pc>>

(* "idle": in SimulatorLoop; "cycle": in simulate_handshake; "sync": about *)
(* to take cycle_lock to join the serial region; "master" and "wait": in   *)
(* the spin loops of the master core and of the others.                    *)
Labels == {"idle", "cycle", "sync", "master", "wait"}

Init ==
    /\ active = [c \in Cores |-> FALSE]
    /\ finished_cycle = [c \in Cores |-> FALSE]
    /\ ns_passed = [c \in Cores |-> 0]
    /\ min_coreID = 0
    /\ sim_cycle = 0
    /\ started = FALSE
    /\ pc = [c \in Cores |-> "idle"]

Goto(c, label) == pc' = [pc EXCEPT ![c] = label]

-----------------------------------------------------------------------------
(* SimulatorLoop and simulate_handshake.                                   *)

(* A handshake is there for an active core; an inactive one drops it,      *)
(* unless it is the first of a slice.                                      *)
BeginHandshake(c) ==
    /\ pc[c] = "idle"
    /\ Goto(c, "cycle")
    /\ UNCHANGED <<active, finished_cycle, ns_passed, min_coreID, sim_cycle, started>>

(* The oracle wants another handshake: return.                             *)
EndHandshake(c) ==
    /\ pc[c] = "cycle"
    /\ Goto(c, "idle")
    /\ UNCHANGED <<active, finished_cycle, ns_passed, min_coreID, sim_cycle, started>>

ResetAtSync(ns) == IF ns >= SyncInterval THEN 0 ELSE ns

(* Nothing more to fetch, the cycle is over: step local time, and find out *)
(* if it is time to sync with the uncore.                                  *)
NextCycle(c) ==
    LET ns == ns_passed[c] + (IF active[c] THEN Period[c] ELSE 0)
    IN  /\ pc[c] = "cycle"
        /\ ns_passed' = [ns_passed EXCEPT ![c] = ResetAtSync(ns)]
        /\ Goto(c, IF ns >= SyncInterval THEN "sync" ELSE "cycle")
        /\ UNCHANGED <<active, finished_cycle, min_coreID, sim_cycle, started>>

-----------------------------------------------------------------------------
(* sim_main_slave_pre_pin under cycle_lock.                                *)

(* Mutant: the master does not count itself as active.                     *)
MostGathered(fin) ==
    Cardinality({d \in Cores : fin[d]}) >=
        Cardinality({d \in Cores : active[d]}) - 1

(* Mutant: the master waits for more cores than there are.                 *)
MoreGathered(fin) ==
    Cardinality({d \in Cores : fin[d]}) >
        Cardinality({d \in Cores : active[d]})

(* "Re-check if all cores finished this cycle."                            *)
Gathered(fin) ==
    Cardinality({d \in Cores : fin[d]}) >=
        Cardinality({d \in Cores : active[d]})

(* From label master_core on, fin being finished_cycle so far: wait, or    *)
(* run global_step and let every core go.                                  *)
MasterCore(c, fin) ==
    IF Gathered(fin)
    THEN /\ finished_cycle' = [d \in Cores |-> FALSE]
         /\ sim_cycle' = (sim_cycle + 1) % 2
         /\ Goto(c, "cycle")
    ELSE /\ finished_cycle' = fin
         /\ Goto(c, "master")
         /\ UNCHANGED sim_cycle

(* Mark this core as finished and wait, as the master or not.              *)
FinishCycle(c) ==
    LET fin == [finished_cycle EXCEPT ![c] = TRUE]
    IN  /\ pc[c] = "sync"
        /\ IF c = min_coreID THEN MasterCore(c, fin)
           ELSE /\ finished_cycle' = fin
                /\ Goto(c, IF min_coreID = MAX_CORES THEN "cycle" ELSE "wait")
                /\ UNCHANGED sim_cycle
        /\ UNCHANGED <<active, ns_passed, min_coreID, started>>

(* The spin loop of the master, until there is a core with a smaller id.   *)
SpinMaster(c) ==
    /\ pc[c] = "master"
    /\ IF c = min_coreID THEN MasterCore(c, finished_cycle)
       ELSE Goto(c, "wait") /\ UNCHANGED <<finished_cycle, sim_cycle>>
    /\ UNCHANGED <<active, ns_passed, min_coreID, started>>

(* The spin loop of the others: return when the master is done, become the *)
(* master, or return because all cores got deactivated.                    *)
SpinWait(c) ==
    /\ pc[c] = "wait"
    /\ IF finished_cycle[c] /\ c = min_coreID
       THEN MasterCore(c, finished_cycle)
       ELSE /\ Goto(c, IF finished_cycle[c] /\ min_coreID # MAX_CORES
                       THEN "wait" ELSE "cycle")
            /\ UNCHANGED <<finished_cycle, sim_cycle>>
    /\ UNCHANGED <<active, ns_passed, min_coreID, started>>

-----------------------------------------------------------------------------

(* "Make sure master core will wait."                                      *)
FinishedWhenActivated == FALSE

(* activate_core, called by the sim thread of any core d from its          *)
(* SimulatorLoop.                                                          *)
ActivateCore(d, c) ==
    /\ pc[d] = "idle"
    /\ Reactivates \/ ~active[c]
    /\ started \/ c \in FirstCores
    /\ finished_cycle' = [finished_cycle EXCEPT ![c] = FinishedWhenActivated]
    /\ active' = [active EXCEPT ![c] = TRUE]
    /\ min_coreID' = IF c < min_coreID THEN c ELSE min_coreID
    /\ started' = TRUE
    /\ UNCHANGED <<ns_passed, sim_cycle, pc>>

(* Mutant: the search for the least active core starts at core 1.          *)
LeastAboveZero(S) ==
    IF S \subseteq {0} THEN MAX_CORES
    ELSE CHOOSE c \in S \ {0} : \A d \in S \ {0} : c <= d

(* The least member of S, MAX_CORES if there is none.                      *)
LeastCore(S) ==
    IF S = {} THEN MAX_CORES ELSE CHOOSE c \in S : \A d \in S : c <= d

(* deactivate_core, called by the core's own sim thread only.              *)
DeactivateCore(c) ==
    /\ pc[c] = "idle"
    /\ active[c] /\ c \in Leavers
    /\ active' = [active EXCEPT ![c] = FALSE]
    /\ min_coreID' = LeastCore({d \in Cores : active'[d]})
    /\ UNCHANGED <<finished_cycle, ns_passed, sim_cycle, started, pc>>

-----------------------------------------------------------------------------
SimThread(c) ==
    \/ BeginHandshake(c) \/ EndHandshake(c) \/ NextCycle(c)
    \/ FinishCycle(c) \/ SpinMaster(c) \/ SpinWait(c)

Next ==
    \/ \E c \in Cores : SimThread(c) \/ DeactivateCore(c)
    \/ \E d, c \in Cores : ActivateCore(d, c)

Spec == Init /\ [][Next]_vars

(* Sim threads keep running and an active core keeps getting handshakes.   *)
(* The fetch width is finite, so a core cannot fetch in one cycle for ever *)
(* (strong fairness of NextCycle).                                         *)
Fairness ==
    \A c \in Cores :
        /\ WF_vars(BeginHandshake(c) /\ active[c])
        /\ SF_vars(NextCycle(c))
        /\ WF_vars(FinishCycle(c) \/ SpinMaster(c) \/ SpinWait(c))

(* A workload is finite: its threads give up their cores finitely often.   *)
FiniteWorkload == <>[][\A c \in Cores : ~DeactivateCore(c)]_vars

FairSpec == Spec /\ Fairness /\ FiniteWorkload

-----------------------------------------------------------------------------
(* Local time stays below the synchronization interval, and every core is  *)
(* in one of the states named in Labels.                                   *)
TypeOK ==
    /\ active \in [Cores -> BOOLEAN]
    /\ finished_cycle \in [Cores -> BOOLEAN]
    /\ ns_passed \in [Cores -> 0 .. SyncInterval - 1]
    /\ min_coreID \in 0 .. MAX_CORES
    /\ sim_cycle \in {0, 1}
    /\ started \in BOOLEAN
    /\ pc \in [Cores -> Labels]

(* Only an active core is in the barrier, and only a core in the barrier   *)
(* has finished its cycle: then counting, as the master does, is as good   *)
(* as comparing the two sets.                                              *)
FinishedInBarrier ==
    \A c \in Cores :
        /\ finished_cycle[c] => pc[c] \in {"master", "wait"}
        /\ pc[c] \in {"sync", "master", "wait"} => active[c]

(* The barrier implements Lockstep.                                        *)
ActiveCores == {c \in Cores : active[c]}
FinishedCores == {c \in Cores : finished_cycle[c]}
Barrier == INSTANCE Lockstep
    WITH running <- ActiveCores, arrived <- FinishedCores, clock <- sim_cycle
ImplementsLockstep == Barrier!Spec

(* sim-loop.cpp:41: "Minimum ID of an active core."                        *)
MinIsLeastActive ==
    started => /\ \A c \in ActiveCores : min_coreID <= c
               /\ min_coreID \in ActiveCores \cup {MAX_CORES}

(* While core 0, the first to be activated, keeps its core, every core     *)
(* that waits in the barrier gets out of it.                               *)
BarrierOpens ==
    [](started => active[0]) =>
        \A c \in Cores : pc[c] \in {"sync", "master", "wait"} ~> pc[c] = "cycle"

=============================================================================
