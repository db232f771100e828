------------------------- MODULE CycleBarrierProofs -------------------------
(* Proofs about CycleBarrier for every number of cores, every core speed   *)
(* and every synchronization interval.                                     *)
EXTENDS CycleBarrier, FiniteSetTheorems, WellFoundedInduction, TLAPS

(* The search loop of deactivate_core finds the least active core.         *)
LEMMA LeastCoreIsLeast ==
    ASSUME NEW S \in SUBSET Cores
    PROVE  /\ S = {} => LeastCore(S) = MAX_CORES
           /\ S # {} => LeastCore(S) \in S /\ \A d \in S : LeastCore(S) <= d
<1>1. CASE S = {}
    BY <1>1 DEF LeastCore
<1>2. CASE S # {}
    <2>1. S \subseteq Nat
        BY BarrierAssumption DEF Cores
    <2> DEFINE R == {ss \in Nat \X Nat : ss[1] < ss[2]}
    <2>2. IsWellFoundedOn(R, Nat)
        BY NatLessThanWellFounded, Zenon DEF OpToRel
    <2> HIDE DEF R
    <2>3. PICK x \in S : \A y \in S : ~(<<y, x>> \in R)
        BY <1>2, <2>1, <2>2, WFMin
    <2>4. ASSUME NEW y \in S PROVE x <= y
        <3>1. x \in Nat /\ y \in Nat /\ <<y, x>> \notin R
            BY <2>1, <2>3
        <3>2. ~(y < x)
            BY <3>1, Zenon DEF R
        <3> QED
            BY <3>1, <3>2
    <2> QED
        BY <1>2, <2>4 DEF LeastCore
<1> QED
    BY <1>1, <1>2

(* The state of the barrier keeps its type; in particular the local time   *)
(* of a core never reaches the synchronization interval between cycles.    *)
THEOREM TypeCorrect == Spec => []TypeOK
<1>1. Init => TypeOK
    <2> SUFFICES ASSUME Init PROVE TypeOK
        OBVIOUS
    <2>1. 0 \in 0 .. SyncInterval - 1 /\ 0 \in 0 .. MAX_CORES
        BY BarrierAssumption DEF MAX_CORES
    <2> QED
        BY <2>1 DEF Init, TypeOK, Labels
<1>2. TypeOK /\ [Next]_vars => TypeOK'
    <2> SUFFICES ASSUME TypeOK, [Next]_vars PROVE TypeOK'
        OBVIOUS
    <2> USE DEF TypeOK, Labels
    <2>1. ASSUME NEW c \in Cores, BeginHandshake(c) \/ EndHandshake(c)
          PROVE  TypeOK'
        BY <2>1 DEF BeginHandshake, EndHandshake, Goto
    <2>2. ASSUME NEW c \in Cores, NextCycle(c) PROVE TypeOK'
        <3> DEFINE ns == ns_passed[c] + (IF active[c] THEN Period[c] ELSE 0)
        <3>0. ns \in Nat
            BY BarrierAssumption
        <3>a. ResetAtSync(ns) \in 0 .. SyncInterval - 1
            BY <3>0, BarrierAssumption DEF ResetAtSync
        <3>1. ns_passed' \in [Cores -> 0 .. SyncInterval - 1]
            BY <2>2, <3>a DEF NextCycle
        <3> QED
            BY <2>2, <3>1 DEF NextCycle, Goto
    <2>3. ASSUME NEW c \in Cores, NEW fin \in [Cores -> BOOLEAN],
                 MasterCore(c, fin)
          PROVE  /\ finished_cycle' \in [Cores -> BOOLEAN]
                 /\ sim_cycle' \in {0, 1}
                 /\ pc' \in [Cores -> Labels]
        <3>1. (0 + 1) % 2 = 1 /\ (1 + 1) % 2 = 0
            OBVIOUS
        <3>2. (sim_cycle + 1) % 2 \in {0, 1}
            BY <3>1
        <3> QED
            BY <2>3, <3>2 DEF MasterCore, Goto
    <2>4. ASSUME NEW c \in Cores, FinishCycle(c) PROVE TypeOK'
        BY <2>3, <2>4 DEF FinishCycle, Goto
    <2>5. ASSUME NEW c \in Cores, SpinMaster(c) PROVE TypeOK'
        BY <2>3, <2>5 DEF SpinMaster, Goto
    <2>6. ASSUME NEW c \in Cores, SpinWait(c) PROVE TypeOK'
        BY <2>3, <2>6 DEF SpinWait, Goto
    <2>7. ASSUME NEW d \in Cores, NEW c \in Cores, ActivateCore(d, c)
          PROVE  TypeOK'
        <3>1. min_coreID' \in 0 .. MAX_CORES
            BY <2>7, BarrierAssumption DEF ActivateCore, Cores, MAX_CORES
        <3> QED
            BY <2>7, <3>1 DEF ActivateCore, FinishedWhenActivated
    <2>8. ASSUME NEW c \in Cores, DeactivateCore(c) PROVE TypeOK'
        <3>1. min_coreID' \in 0 .. MAX_CORES
            <4> DEFINE S == {d \in Cores : active'[d]}
            <4>1. LeastCore(S) \in Cores \cup {MAX_CORES}
                BY LeastCoreIsLeast
            <4> QED
                BY <2>8, <4>1, BarrierAssumption
                DEF DeactivateCore, Cores, MAX_CORES
        <3> QED
            BY <2>8, <3>1 DEF DeactivateCore
    <2>9. CASE UNCHANGED vars
        BY <2>9 DEF vars
    <2> QED
        BY <2>1, <2>2, <2>4, <2>5, <2>6, <2>7, <2>8, <2>9 DEF Next, SimThread
<1> QED
    BY <1>1, <1>2, PTL DEF Spec

-----------------------------------------------------------------------------
(* While a core is active there is a master.                               *)
HasMaster == \A c \in Cores : active[c] => min_coreID # MAX_CORES

(* The inductive invariant.                                                *)
Inv == FinishedInBarrier /\ HasMaster

(* What a core does at label master_core keeps FinishedInBarrier.          *)
LEMMA MasterKeeps ==
    ASSUME TypeOK, FinishedInBarrier, NEW c \in Cores, active[c],
           NEW fin \in [Cores -> BOOLEAN],
           \A d \in Cores : d # c /\ fin[d] => finished_cycle[d],
           MasterCore(c, fin), UNCHANGED active
    PROVE  FinishedInBarrier'
BY DEF MasterCore, FinishedInBarrier, TypeOK, Goto

(* Inv is kept by every step, if activate_core is only called for cores    *)
(* that are not active.                                                    *)
LEMMA InvKept ==
    ASSUME ~Reactivates, TypeOK, Inv, [Next]_vars
    PROVE  Inv'
<1> USE DEF Inv
<1>1. ASSUME NEW c \in Cores, SimThread(c) PROVE HasMaster'
    BY <1>1 DEF SimThread, BeginHandshake, EndHandshake, NextCycle,
                FinishCycle, SpinMaster, SpinWait, HasMaster
<1>2. ASSUME NEW c \in Cores, BeginHandshake(c) \/ EndHandshake(c)
      PROVE  FinishedInBarrier'
    BY <1>2 DEF BeginHandshake, EndHandshake, FinishedInBarrier, Goto, TypeOK
<1>3. ASSUME NEW c \in Cores, NextCycle(c) PROVE FinishedInBarrier'
    <2>1. pc'[c] = "sync" => active[c]
        BY <1>3, BarrierAssumption DEF NextCycle, Goto, TypeOK
    <2> QED
        BY <1>3, <2>1 DEF NextCycle, FinishedInBarrier, Goto, TypeOK
<1>4. ASSUME NEW c \in Cores, FinishCycle(c) PROVE FinishedInBarrier'
    <2> DEFINE fin == [finished_cycle EXCEPT ![c] = TRUE]
    <2>1. active[c] /\ min_coreID # MAX_CORES
        BY <1>4 DEF FinishCycle, FinishedInBarrier, HasMaster
    <2>2. CASE c = min_coreID
        <3>1. MasterCore(c, fin) /\ UNCHANGED active
            BY <1>4, <2>2 DEF FinishCycle
        <3>2. /\ fin \in [Cores -> BOOLEAN]
              /\ \A d \in Cores : d # c /\ fin[d] => finished_cycle[d]
            BY DEF TypeOK
        <3> QED
            BY <2>1, <3>1, <3>2, MasterKeeps
    <2>3. CASE c # min_coreID
        BY <1>4, <2>1, <2>3 DEF FinishCycle, FinishedInBarrier, Goto, TypeOK
    <2> QED
        BY <2>2, <2>3
<1>5. ASSUME NEW c \in Cores, SpinMaster(c) PROVE FinishedInBarrier'
    <2>1. CASE c = min_coreID
        <3>1. MasterCore(c, finished_cycle) /\ UNCHANGED active /\ active[c]
            BY <1>5, <2>1 DEF SpinMaster, FinishedInBarrier
        <3> QED
            BY <3>1, MasterKeeps DEF TypeOK
    <2>2. CASE c # min_coreID
        BY <1>5, <2>2 DEF SpinMaster, FinishedInBarrier, Goto, TypeOK
    <2> QED
        BY <2>1, <2>2
<1>6. ASSUME NEW c \in Cores, SpinWait(c) PROVE FinishedInBarrier'
    <2>1. active[c] /\ min_coreID # MAX_CORES
        BY <1>6 DEF SpinWait, FinishedInBarrier, HasMaster
    <2>2. CASE finished_cycle[c] /\ c = min_coreID
        <3>1. MasterCore(c, finished_cycle) /\ UNCHANGED active
            BY <1>6, <2>2 DEF SpinWait
        <3> QED
            BY <2>1, <3>1, MasterKeeps DEF TypeOK
    <2>3. CASE ~(finished_cycle[c] /\ c = min_coreID)
        BY <1>6, <2>1, <2>3 DEF SpinWait, FinishedInBarrier, Goto, TypeOK
    <2> QED
        BY <2>2, <2>3
<1>7. ASSUME NEW d \in Cores, NEW c \in Cores, ActivateCore(d, c) PROVE Inv'
    <2>1. FinishedInBarrier'
        BY <1>7 DEF ActivateCore, FinishedInBarrier, FinishedWhenActivated,
                    TypeOK
    <2>2. HasMaster'
        BY <1>7, BarrierAssumption
        DEF ActivateCore, HasMaster, Cores, MAX_CORES, TypeOK
    <2> QED
        BY <2>1, <2>2
<1>8. ASSUME NEW c \in Cores, DeactivateCore(c) PROVE Inv'
    <2>1. FinishedInBarrier'
        BY <1>8 DEF DeactivateCore, FinishedInBarrier, TypeOK
    <2>2. HasMaster'
        <3> DEFINE S == {d \in Cores : active'[d]}
        <3>1. S # {} => LeastCore(S) \in Cores
            BY LeastCoreIsLeast
        <3>2. MAX_CORES \notin Cores
            BY BarrierAssumption DEF Cores, MAX_CORES
        <3>3. min_coreID' = LeastCore(S)
            BY <1>8 DEF DeactivateCore
        <3> HIDE DEF S
        <3>4. S # {} => min_coreID' # MAX_CORES
            BY <3>1, <3>2, <3>3
        <3> QED
            BY <3>4 DEF HasMaster, S, MAX_CORES
    <2> QED
        BY <2>1, <2>2
<1>9. CASE UNCHANGED vars
    BY <1>9 DEF vars, FinishedInBarrier, HasMaster
<1> QED
    BY <1>1, <1>2, <1>3, <1>4, <1>5, <1>6, <1>7, <1>8, <1>9 DEF Next, SimThread

(* Inv holds in every reachable state.                                     *)
LEMMA InvInvariant == ASSUME ~Reactivates PROVE Spec => []Inv
<1>1. Init => Inv
    BY BarrierAssumption DEF Init, Inv, FinishedInBarrier, HasMaster
<1>2. TypeOK /\ Inv /\ [Next]_vars => Inv'
    BY InvKept
<1> QED
    BY <1>1, <1>2, TypeCorrect, PTL DEF Spec

(* Only active cores wait in the barrier of sim_main_slave_pre_pin, and    *)
(* finished_cycle is set for waiting cores only, however cores come and go.*)
THEOREM FinishedInBarrierInvariant ==
    ASSUME ~Reactivates PROVE Spec => []FinishedInBarrier
<1>1. Inv => FinishedInBarrier
    BY DEF Inv
<1> QED
    BY <1>1, InvInvariant, PTL

-----------------------------------------------------------------------------
(* The master's count is right: it opens the barrier only when the cores   *)
(* in it are exactly the active ones.                                      *)
LEMMA CountIsExact ==
    ASSUME NEW A \in SUBSET Cores, NEW F \in SUBSET A,
           Cardinality(F) >= Cardinality(A)
    PROVE  F = A
<1>1. IsFiniteSet(Cores)
    BY FS_Interval, BarrierAssumption DEF Cores
<1>2. IsFiniteSet(A)
    BY <1>1, FS_Subset
<1>3. IsFiniteSet(F) /\ Cardinality(F) <= Cardinality(A)
    BY <1>2, FS_Subset
<1>4. Cardinality(F) \in Nat /\ Cardinality(A) \in Nat
    BY <1>2, <1>3, FS_CardinalityType
<1>5. Cardinality(A) = Cardinality(F)
    BY <1>3, <1>4
<1> QED
    BY <1>2, <1>5, FS_Subset

(* What a core does at label master_core is an Advance, or it only records *)
(* the arrivals in fin.                                                    *)
LEMMA MasterAdvances ==
    ASSUME TypeOK, Inv, NEW c \in Cores, active[c], UNCHANGED active,
           NEW fin \in [Cores -> BOOLEAN],
           \A d \in Cores : d # c /\ fin[d] => finished_cycle[d],
           MasterCore(c, fin)
    PROVE  \/ Barrier!Advance
           \/ finished_cycle' = fin /\ UNCHANGED sim_cycle
<1> DEFINE F == {d \in Cores : fin[d]}
<1>1. CASE ~Gathered(fin)
    BY <1>1 DEF MasterCore
<1>2. CASE Gathered(fin)
    <2>1. F \subseteq ActiveCores
        BY DEF Inv, FinishedInBarrier, ActiveCores
    <2>2. Cardinality(F) >= Cardinality(ActiveCores)
        BY <1>2 DEF Gathered, ActiveCores
    <2>3. F = ActiveCores
        BY <2>1, <2>2, CountIsExact DEF ActiveCores
    <2>4. c \in ActiveCores /\ ActiveCores \subseteq FinishedCores \cup {c}
        BY <2>3 DEF ActiveCores, FinishedCores
    <2>5. /\ FinishedCores' = {}
          /\ sim_cycle' = (sim_cycle + 1) % 2
          /\ UNCHANGED ActiveCores
        BY <1>2 DEF MasterCore, FinishedCores, ActiveCores
    <2> QED
        BY <2>4, <2>5 DEF Barrier!Advance
<1> QED
    BY <1>1, <1>2

(* Every step of the barrier is a step of Lockstep or a stutter.           *)
LEMMA StepSimulation ==
    ASSUME ~Reactivates, TypeOK, Inv, [Next]_vars
    PROVE  [Barrier!Next]_(Barrier!vars)
<1> USE DEF Barrier!vars
<1>1. ASSUME UNCHANGED <<active, finished_cycle, sim_cycle>>
      PROVE  UNCHANGED Barrier!vars
    BY <1>1 DEF ActiveCores, FinishedCores
<1>2. ASSUME NEW c \in Cores,
             BeginHandshake(c) \/ EndHandshake(c) \/ NextCycle(c)
      PROVE  UNCHANGED Barrier!vars
    BY <1>1, <1>2 DEF BeginHandshake, EndHandshake, NextCycle
<1>3. ASSUME NEW c \in Cores, FinishCycle(c)
      PROVE  Barrier!Advance \/ Barrier!Arrive(c)
    <2> DEFINE fin == [finished_cycle EXCEPT ![c] = TRUE]
    <2>1. active[c] /\ ~finished_cycle[c] /\ UNCHANGED active
        BY <1>3 DEF FinishCycle, Inv, FinishedInBarrier
    <2>2. /\ fin \in [Cores -> BOOLEAN]
          /\ \A d \in Cores : d # c /\ fin[d] => finished_cycle[d]
        BY DEF TypeOK
    <2>3. \/ Barrier!Advance
          \/ finished_cycle' = fin /\ UNCHANGED sim_cycle
        BY <1>3, <2>1, <2>2, MasterAdvances DEF FinishCycle
    <2>4. ASSUME finished_cycle' = fin, UNCHANGED sim_cycle
          PROVE  Barrier!Arrive(c)
        BY <2>1, <2>4 DEF Barrier!Arrive, ActiveCores, FinishedCores, TypeOK
    <2> QED
        BY <2>3, <2>4
<1>4. ASSUME NEW c \in Cores, SpinMaster(c) \/ SpinWait(c)
      PROVE  Barrier!Advance \/ UNCHANGED Barrier!vars
    <2>1. active[c] /\ UNCHANGED active
        BY <1>4 DEF SpinMaster, SpinWait, Inv, FinishedInBarrier
    <2>2. CASE MasterCore(c, finished_cycle)
        BY <1>1, <2>1, <2>2, MasterAdvances DEF TypeOK
    <2>3. CASE ~MasterCore(c, finished_cycle)
        BY <1>1, <1>4, <2>1, <2>3 DEF SpinMaster, SpinWait
    <2> QED
        BY <2>2, <2>3
<1>5. ASSUME NEW d \in Cores, NEW c \in Cores, ActivateCore(d, c)
      PROVE  Barrier!Join(c)
    <2>1. ~active[c] /\ ~finished_cycle[c]
        BY <1>5 DEF ActivateCore, Inv, FinishedInBarrier
    <2>2. c \notin ActiveCores /\ ActiveCores' = ActiveCores \cup {c}
        BY <1>5, <2>1 DEF ActivateCore, ActiveCores, TypeOK
    <2>3. UNCHANGED <<FinishedCores, sim_cycle>>
        BY <1>5, <2>1
        DEF ActivateCore, FinishedCores, FinishedWhenActivated, TypeOK
    <2> QED
        BY <2>2, <2>3 DEF Barrier!Join
<1>6. ASSUME NEW c \in Cores, DeactivateCore(c) PROVE Barrier!Quit(c)
    <2>1. active[c] /\ ~finished_cycle[c]
        BY <1>6 DEF DeactivateCore, Inv, FinishedInBarrier
    <2>2. ActiveCores' = ActiveCores \ {c}
        BY <1>6 DEF DeactivateCore, ActiveCores, TypeOK
    <2> QED
        BY <1>6, <2>1, <2>2
        DEF DeactivateCore, Barrier!Quit, ActiveCores, FinishedCores
<1>7. CASE UNCHANGED vars
    BY <1>1, <1>7 DEF vars
<1> QED
    BY <1>2, <1>3, <1>4, <1>5, <1>6, <1>7 DEF Next, SimThread, Barrier!Next

(* The counting barrier of sim-loop.cpp implements Lockstep: with any      *)
(* number of cores of any speeds, coming and going at any time, the uncore *)
(* advances only when all active cores have finished their cycle, and no   *)
(* core leaves before.                                                     *)
THEOREM Refinement == ASSUME ~Reactivates PROVE Spec => ImplementsLockstep
<1>1. Init => Barrier!Init
    BY DEF Init, Barrier!Init, ActiveCores, FinishedCores
<1>2. TypeOK /\ Inv /\ [Next]_vars => [Barrier!Next]_(Barrier!vars)
    BY StepSimulation
<1> QED
    BY <1>1, <1>2, TypeCorrect, InvInvariant, PTL
    DEF Spec, ImplementsLockstep, Barrier!Spec

-----------------------------------------------------------------------------
(* min_coreID is the least active core if core 0 is the first one that is  *)
(* ever activated.                                                         *)
THEOREM MinInvariant ==
    ASSUME FirstCores \subseteq {0} PROVE Spec => []MinIsLeastActive
<1> DEFINE MinInv == /\ MinIsLeastActive
                     /\ ~started => min_coreID = 0 /\ ActiveCores = {}
<1>1. Init => MinInv
    BY DEF Init, MinIsLeastActive, ActiveCores
<1>2. TypeOK /\ MinInv /\ [Next]_vars => MinInv'
    <2> SUFFICES ASSUME TypeOK, MinInv, [Next]_vars PROVE MinInv'
        OBVIOUS
    <2>1. ASSUME NEW d \in Cores, NEW c \in Cores, ActivateCore(d, c)
          PROVE  MinInv'
        <3>1. ActiveCores' = ActiveCores \cup {c}
            BY <2>1 DEF ActivateCore, ActiveCores, TypeOK
        <3>2. CASE started
            BY <2>1, <3>1, <3>2, BarrierAssumption
            DEF ActivateCore, MinIsLeastActive, ActiveCores, Cores, MAX_CORES,
                TypeOK
        <3>3. CASE ~started
            <4>1. c = 0 /\ min_coreID' = 0 /\ started'
                BY <2>1, <3>3 DEF ActivateCore
            <4> QED
                BY <3>1, <4>1, BarrierAssumption
                DEF MinIsLeastActive, ActiveCores, Cores
        <3> QED
            BY <3>2, <3>3
    <2>2. ASSUME NEW c \in Cores, DeactivateCore(c) PROVE MinInv'
        <3>1. ActiveCores' \in SUBSET Cores
            BY DEF ActiveCores
        <3>2. min_coreID' = LeastCore(ActiveCores')
            BY <2>2 DEF DeactivateCore, ActiveCores
        <3>3. started /\ started'
            BY <2>2 DEF DeactivateCore, ActiveCores
        <3> QED
            BY <3>1, <3>2, <3>3, LeastCoreIsLeast
            DEF DeactivateCore, MinIsLeastActive, MAX_CORES
    <2>3. CASE UNCHANGED <<active, min_coreID, started>>
        BY <2>3 DEF MinIsLeastActive, ActiveCores
    <2>4. ASSUME NEW c \in Cores, SimThread(c)
          PROVE  UNCHANGED <<active, min_coreID, started>>
        BY <2>4 DEF SimThread, BeginHandshake, EndHandshake, NextCycle,
                    FinishCycle, SpinMaster, SpinWait
    <2>5. CASE UNCHANGED vars
        BY <2>3, <2>5 DEF vars
    <2> QED
        BY <2>1, <2>2, <2>3, <2>4, <2>5 DEF Next
<1>3. MinInv => MinIsLeastActive
    OBVIOUS
<1> QED
    BY <1>1, <1>2, <1>3, TypeCorrect, PTL DEF Spec
=============================================================================
