------------------------------ MODULE Scheduler ------------------------------
(***************************************************************************)
(* The scheduler that maps application threads to simulated cores          *)
(* (pintool/scheduler.cpp), driven by the sim threads of timing_sim, one   *)
(* per core (SimulatorLoop and CheckIPCMessageQueue in                     *)
(* pintool/timing_sim.cpp), and watched by the feeder threads, which poll  *)
(* the shared map threadCores.                                             *)
(*                                                                         *)
(* Grain of atomicity: one step per critical section.  A section of a run  *)
(* queue's lock that takes inner locks is one step too, except in          *)
(* GiveUpCore and DescheduleActiveThread, which publish the departure of a *)
(* thread to the feeders while they still have to update or erase the      *)
(* thread's control block.                                                 *)
(*                                                                         *)
(* The handshakes of a thread are chosen when the core consumes them: a    *)
(* feeder runs ahead of the simulator and only waits where it polls        *)
(* threadCores (fstate).  NeedsReschedule compares cycle counts; here the  *)
(* scheduler tick may expire after any instruction.                        *)
(***************************************************************************)
EXTENDS Integers, Sequences, FiniteSets

CONSTANTS
    NumCores,           \* num_cores
    NumProcesses,       \* *num_processes
    Threads,            \* pids of the application threads
    Process,            \* threadProcess: the asid of each thread
    Joins,              \* <<t, u>>: thread t calls pthread_join on u
    Resumes,            \* processes that pause and resume all their threads
    Emits,              \* the kinds of control handshake each thread emits
    LateErase,          \* may a process resume before a TCB of it is erased?
    INVALID_THREADID

INVALID_CORE == -1
NoEntry == -2           \* threadCores has no entry for the thread

Cores == 0 .. NumCores - 1
Asids == 0 .. NumProcesses - 1
ThreadOrNone == Threads \cup {INVALID_THREADID}
CoreOrNone == Cores \cup {INVALID_CORE}

ASSUME CoresAssumption == NumCores \in Nat \ {0}
ASSUME ProcessAssumption ==
    NumProcesses \in Nat \ {0} /\ Process \in [Threads -> Asids]
ASSUME ThreadsAssumption ==
    IsFiniteSet(Threads) /\ INVALID_THREADID \notin Threads

(* At most one thread joins any thread (POSIX leaves anything else         *)
(* undefined), and no thread joins itself.                                 *)
ASSUME JoinsAssumption ==
    /\ Joins \subseteq Threads \X Threads
    /\ \A j, k \in Joins : j[2] = k[2] => j = k
    /\ \A j \in Joins : j[1] # j[2]

ASSUME WorkloadAssumption ==
    /\ Emits \in [Threads -> SUBSET {"kill", "leave", "affinity"}]
    /\ Resumes \subseteq Asids
    /\ LateErase \in BOOLEAN

(* First core of the contiguous range of process a.                        *)
Offset(a) == a * (NumCores \div NumProcesses)

(* The assert of ScheduleProcessThreads, as the demand it makes of a       *)
(* workload: all threads of a process that resumes fit on the cores from   *)
(* the first one of its range on.                                          *)
ASSUME PinnedAssumption ==
    \A a \in Resumes :
        Offset(a) + Cardinality({t \in Threads : Process[t] = a}) <= NumCores

VARIABLES
    q,                  \* run_queues[c].q
    last_coreID, affinity, processCoreSet,
    tcb,                \* threads: the control block of each thread
    blocked_thread_map, \* from blocker to blocked
    active,             \* cores[c]->active
    coreThreads, threadCores,
    msgs,               \* ipcEarlyMessageQueue (scheduling messages)
    op,                 \* what the sim thread of each core is doing
    fstate,             \* what each application thread's feeder waits for
    exited,             \* threads whose killThread handshake was consumed
    joined              \* the joins already issued

placeVars == <<last_coreID, affinity, processCoreSet>>
blockVars == <<tcb, blocked_thread_map>>
coreVars == <<active, coreThreads, threadCores>>
feederVars == <<fstate, exited, joined>>
vars == <<q, placeVars, blockVars, coreVars, msgs, op, feederVars>>

(* A thread without a TCB is represented by NoTCB.                         *)
TCB == [exists : BOOLEAN, blocked_on : ThreadOrNone, run_queue_ID : CoreOrNone]
NoTCB == [exists |-> FALSE, blocked_on |-> INVALID_THREADID,
          run_queue_ID |-> INVALID_CORE]

(* SCHEDULE_NEW_THREAD, or SCHEDULE_PROCESS_THREADS if pinned.             *)
Message == [pinned : BOOLEAN, asid : Asids, tids : Seq(Threads)]

(* A sim thread: the point it is at, the threads its scheduling call still *)
(* has to enqueue, the thread and the run queue it acts on.                *)
Labels == {"loop", "drained", "check", "affinity", "tcb", "enqueue", "front",
           "map", "giveup", "forget", "erase", "unblock", "wake", "activate",
           "abort"}
Op == [at : Labels, todo : Seq(Threads), tid : ThreadOrNone, core : CoreOrNone]
Idle == [at |-> "loop", todo |-> <<>>, tid |-> INVALID_THREADID,
         core |-> INVALID_CORE]
Scheduling(label, s) == [Idle EXCEPT !.at = label, !.todo = s]
ActingOn(label, t) == [Idle EXCEPT !.at = label, !.tid = t]

Goto(c, o) == op' = [op EXCEPT ![c] = o]

Init ==
    /\ q = [c \in Cores |-> <<>>]
    /\ last_coreID = 0
    /\ affinity = [t \in Threads |-> INVALID_CORE]
    /\ processCoreSet = [a \in Asids |-> {}]
    /\ tcb = [t \in Threads |-> NoTCB]
    /\ blocked_thread_map = [t \in Threads |-> INVALID_THREADID]
    /\ active = [c \in Cores |-> FALSE]
    /\ coreThreads = [c \in Cores |-> INVALID_THREADID]
    /\ threadCores = [t \in Threads |-> NoEntry]
    /\ msgs = <<>>
    /\ op = [c \in Cores |-> Idle]
    /\ fstate = [t \in Threads |-> "off"]
    /\ exited = {}
    /\ joined = {}

(* run_queues[c].lk is held between two steps only inside GiveUpCore and   *)
(* DescheduleActiveThread.                                                 *)
Unlocked(c) == op[c].at \notin {"forget", "erase"}

IsThreadBlocked(t) == tcb[t].blocked_on # INVALID_THREADID

-----------------------------------------------------------------------------
(* The feeders.                                                            *)

(* ScheduleThread: send the message, then poll IsSHMThreadSimulatingMaybe. *)
ScheduleThread(t) ==
    /\ fstate[t] = "off" /\ t \notin exited
    /\ msgs' = Append(msgs, [pinned |-> FALSE, asid |-> Process[t],
                             tids |-> <<t>>])
    /\ fstate' = [fstate EXCEPT ![t] = "waiting"]
    /\ UNCHANGED <<q, placeVars, blockVars, coreVars, op, exited, joined>>

(* The orders in which GetAffineThreads may list the threads of S.         *)
Orders(S) == {s \in [1 .. Cardinality(S) -> S] :
                  \A i, j \in DOMAIN s : i # j => s[i] # s[j]}

(* ResumeSimulation, when PauseSimulation has taken all threads of process *)
(* a off their cores: one message schedules them all.  No thread is ever   *)
(* removed from thread_list, so the exited ones are scheduled again.  The  *)
(* control block of an exited one may still be there, about to be erased   *)
(* by the sim thread that took it off its core; LateErase lets that in.    *)
ResumeSimulation(a) ==
    LET S == {t \in Threads : Process[t] = a}
    IN  /\ S \ exited # {}
        /\ \A t \in S : fstate[t] = "off"
        /\ LateErase \/ \A c \in Cores : op[c].at = "erase" => op[c].tid \notin S
        /\ \E s \in Orders(S) :
              msgs' = Append(msgs, [pinned |-> TRUE, asid |-> a, tids |-> s])
        /\ fstate' = [t \in Threads |->
                         IF t \in S THEN "waiting" ELSE fstate[t]]
        /\ UNCHANGED <<q, placeVars, blockVars, coreVars, op, exited, joined>>

(* The polling loops of ScheduleThread and ResumeSimulation end.           *)
SeesScheduled(t) ==
    /\ fstate[t] = "waiting"
    /\ threadCores[t] # NoEntry
    /\ fstate' = [fstate EXCEPT ![t] = "on"]
    /\ UNCHANGED <<q, placeVars, blockVars, coreVars, msgs, op, exited, joined>>

(* The polling loops of SyncWithTimingSim and PauseSimulation end.         *)
SeesDescheduled(t) ==
    /\ fstate[t] = "leaving"
    /\ threadCores[t] = NoEntry
    /\ fstate' = [fstate EXCEPT ![t] = "off"]
    /\ UNCHANGED <<q, placeVars, blockVars, coreVars, msgs, op, exited, joined>>

-----------------------------------------------------------------------------
(* CheckIPCMessageQueue and ScheduleNewThread.                             *)

(* A SCHEDULE_NEW_THREAD message is taken off the queue.                   *)
ReceiveNewThread(c) ==
    /\ op[c].at = "loop"
    /\ msgs # <<>> /\ ~Head(msgs).pinned
    /\ msgs' = Tail(msgs)
    /\ Goto(c, Scheduling("check", Head(msgs).tids))
    /\ UNCHANGED <<q, placeVars, blockVars, coreVars, feederVars>>

(* A SCHEDULE_PROCESS_THREADS message: ScheduleProcessThreads pins the     *)
(* threads to consecutive cores, each of which it asserts to exist.        *)
ReceiveProcessThreads(c) ==
    LET m == Head(msgs)
        core(i) == Offset(m.asid) + i - 1
    IN  /\ op[c].at = "loop"
        /\ msgs # <<>> /\ m.pinned
        /\ msgs' = Tail(msgs)
        /\ IF \A i \in DOMAIN m.tids : core(i) < NumCores
           THEN /\ affinity' = [t \in Threads |->
                       IF \E i \in DOMAIN m.tids : m.tids[i] = t
                       THEN core(CHOOSE i \in DOMAIN m.tids : m.tids[i] = t)
                       ELSE affinity[t]]
                /\ processCoreSet' = [processCoreSet EXCEPT
                       ![m.asid] = {core(i) : i \in DOMAIN m.tids}]
                /\ Goto(c, Scheduling("check", m.tids))
           ELSE /\ Goto(c, Scheduling("abort", m.tids))
                /\ UNCHANGED <<affinity, processCoreSet>>
        /\ UNCHANGED <<q, last_coreID, blockVars, coreVars, feederVars>>

(* The message queue is seen empty.                                        *)
QueueEmpty(c) ==
    /\ op[c].at = "loop"
    /\ msgs = <<>>
    /\ Goto(c, [Idle EXCEPT !.at = "drained"])
    /\ UNCHANGED <<q, placeVars, blockVars, coreVars, msgs, feederVars>>

(* What a sim thread does when it is done with the first thread of s.      *)
NextTodo(s) == IF Len(s) = 1 THEN Idle ELSE Scheduling("check", Tail(s))

IsScheduled(t) == threadCores[t] # NoEntry

(* ScheduleNewThread: "Make sure thread is queued at one and only one      *)
(* runqueue."                                                              *)
CheckScheduled(c) ==
    /\ op[c].at = "check"
    /\ Goto(c, IF IsScheduled(Head(op[c].todo))
               THEN NextTodo(op[c].todo)
               ELSE Scheduling("affinity", op[c].todo))
    /\ UNCHANGED <<q, placeVars, blockVars, coreVars, msgs, feederVars>>

NextCore == (last_coreID + 1) % NumCores

(* The thread's affinity, or else round-robin over the cores.              *)
ChooseCore(c) ==
    LET t == Head(op[c].todo)
        pinned == affinity[t] # INVALID_CORE
    IN  /\ op[c].at = "affinity"
        /\ last_coreID' = IF pinned THEN last_coreID ELSE NextCore
        /\ Goto(c, [op[c] EXCEPT !.at = "tcb",
                       !.core = IF pinned THEN affinity[t] ELSE last_coreID])
        /\ UNCHANGED <<q, affinity, processCoreSet, blockVars, coreVars, msgs,
                       feederVars>>

(* Under tcb_lk: create the TCB if need be and set its run queue.          *)
SetRunQueue(c) ==
    /\ op[c].at = "tcb"
    /\ tcb' = [tcb EXCEPT ![Head(op[c].todo)] =
                  [@ EXCEPT !.exists = TRUE, !.run_queue_ID = op[c].core]]
    /\ Goto(c, [op[c] EXCEPT !.at = "enqueue"])
    /\ UNCHANGED <<q, placeVars, blocked_thread_map, coreVars, msgs, feederVars>>

IsIdle(r) == q[r] = <<>> /\ ~active[r]

(* Under the run queue's lock: take an idle core at once, or wait in line. *)
Enqueue(c) ==
    LET t == Head(op[c].todo)
        r == op[c].core
        idle == IsIdle(r)
    IN  /\ op[c].at = "enqueue"
        /\ Unlocked(r)
        /\ active' = [active EXCEPT ![r] = @ \/ idle]
        /\ threadCores' = [threadCores EXCEPT
                              ![t] = IF idle THEN r ELSE INVALID_CORE]
        /\ coreThreads' = [coreThreads EXCEPT ![r] = IF idle THEN t ELSE @]
        /\ q' = [q EXCEPT ![r] = Append(@, t)]
        /\ Goto(c, NextTodo(op[c].todo))
        /\ UNCHANGED <<placeVars, blockVars, msgs, feederVars>>

-----------------------------------------------------------------------------
(* Picking the next thread of a run queue.                                 *)

Runnable(s) == {i \in DOMAIN s : ~IsThreadBlocked(s[i])}

(* RequeueSleepers: rotate blocked threads to the back until a runnable    *)
(* one is at the head; a full circle leaves the queue as it was.           *)
RequeueSleepers(s) ==
    IF Runnable(s) = {} THEN s
    ELSE LET k == CHOOSE i \in Runnable(s) : \A j \in Runnable(s) : i <= j
         IN  SubSeq(s, k, Len(s)) \o SubSeq(s, 1, k - 1)

GetRealRunQHead(s) ==
    IF Runnable(s) = {} THEN INVALID_THREADID ELSE Head(RequeueSleepers(s))

(* q.pop().                                                                *)
PopHead(s) == Tail(s)

(* ScheduleNextUnblockedThread, with s the queue after the head is popped. *)
ScheduleNextUnblockedThread(c, s) ==
    LET n == GetRealRunQHead(s)
    IN  /\ q' = [q EXCEPT ![c] = RequeueSleepers(s)]
        /\ coreThreads' = [coreThreads EXCEPT ![c] = n]
        /\ active' = [active EXCEPT ![c] = @ /\ n # INVALID_THREADID]
        /\ threadCores' = [t \in Threads |-> IF t = n THEN c ELSE threadCores[t]]

(* GetCoreThread: the thread whose handshakes the sim thread consumes.     *)
GetCoreThread(c) ==
    /\ op[c].at = "drained"
    /\ Unlocked(c)
    /\ Goto(c, IF q[c] # <<>> /\ ~IsThreadBlocked(Head(q[c]))
               THEN ActingOn("front", Head(q[c])) ELSE Idle)
    /\ UNCHANGED <<q, placeVars, blockVars, coreVars, msgs, feederVars>>

-----------------------------------------------------------------------------
(* Handshakes.                                                             *)

(* The feeder of the thread produces: it is neither waiting nor gone.      *)
HasHandshake(c) ==
    op[c].at = "front" /\ fstate[op[c].tid] = "on" /\ op[c].tid \notin exited
HasControl(c, kind) == HasHandshake(c) /\ kind \in Emits[op[c].tid]

(* An instruction, simulate_handshake; the sim thread may look at its      *)
(* messages and its queue again afterwards (a batch has ended).            *)
SimulateInsn(c) ==
    /\ HasHandshake(c)
    /\ Goto(c, Idle)
    /\ UNCHANGED <<q, placeVars, blockVars, coreVars, msgs, feederVars>>

(* killThread: DescheduleActiveThread up to RemoveSHMThread, which tells   *)
(* the feeders that the thread is gone.                                    *)
DescheduleActiveThread(c) ==
    LET t == Head(q[c])
    IN  /\ HasControl(c, "kill")
        /\ q' = [q EXCEPT ![c] = PopHead(@)]
        /\ threadCores' = [threadCores EXCEPT ![t] = NoEntry]
        /\ fstate' = [fstate EXCEPT ![op[c].tid] = "off"]
        /\ exited' = exited \cup {op[c].tid}
        /\ Goto(c, ActingOn("erase", t))
        /\ UNCHANGED <<placeVars, blockVars, active, coreThreads, msgs, joined>>

(* The rest of it up to the release of the lock.                           *)
EraseThread(c) ==
    /\ op[c].at = "erase"
    /\ tcb' = [tcb EXCEPT ![op[c].tid] = NoTCB]
    /\ ScheduleNextUnblockedThread(c, q[c])
    /\ Goto(c, ActingOn("unblock", op[c].tid))
    /\ UNCHANGED <<placeVars, blocked_thread_map, msgs, feederVars>>

(* Mutant: a thread that is put back on the queue keeps the core.          *)
SelfishSuccessor(t, s, resched) == IF resched THEN t ELSE GetRealRunQHead(s)

(* Who runs on a core after its thread t has given it up, s being the rest *)
(* of the queue.                                                           *)
Successor(t, s, resched) ==
    IF Runnable(s) # {} THEN GetRealRunQHead(s)
    ELSE IF resched /\ ~IsThreadBlocked(t) THEN t
    ELSE INVALID_THREADID

(* GiveUpCore, up to RemoveSHMThread when the thread is not requeued.      *)
GiveUpCore(c, resched) ==
    LET t == Head(q[c])
        s == PopHead(q[c])
        n == Successor(t, s, resched)
        switch == n \notin {t, INVALID_THREADID}
    IN  /\ active' = [active EXCEPT ![c] = @ /\ n # INVALID_THREADID]
        /\ coreThreads' = [coreThreads EXCEPT ![c] = n]
        /\ q' = [q EXCEPT ![c] = RequeueSleepers(s) \o
                                 (IF resched THEN <<t>> ELSE <<>>)]
        /\ threadCores' = [u \in Threads |->
              CASE u = t /\ ~resched -> NoEntry
                [] u = t /\ resched /\ switch -> INVALID_CORE
                [] u = n /\ switch -> c
                [] OTHER -> threadCores[u]]
        /\ Goto(c, IF resched THEN Idle ELSE ActingOn("forget", t))
        /\ UNCHANGED <<placeVars, blockVars, msgs, exited, joined>>

(* giveCoreUp with giveUpReschedule, or the scheduler tick has expired.    *)
Yield(c) == HasHandshake(c) /\ GiveUpCore(c, TRUE) /\ UNCHANGED fstate

(* giveCoreUp without giveUpReschedule: the feeder waits for it.  The only *)
(* handshakes of an exited thread are those of PauseSimulation.            *)
Leave(c) ==
    /\ \/ HasControl(c, "leave")
       \/ op[c].at = "front" /\ fstate[op[c].tid] = "on" /\ op[c].tid \in exited
    /\ GiveUpCore(c, FALSE)
    /\ fstate' = [fstate EXCEPT ![op[c].tid] = "leaving"]

(* Mutant: a thread that leaves its core wakes its sleepers, as in         *)
(* DescheduleActiveThread.                                                 *)
ForgetAndUnblock(c) ==
    /\ op[c].at = "forget"
    /\ tcb' = [tcb EXCEPT ![op[c].tid].run_queue_ID = INVALID_CORE]
    /\ Goto(c, ActingOn("unblock", op[c].tid))
    /\ UNCHANGED <<q, placeVars, blocked_thread_map, coreVars, msgs, feederVars>>

(* The rest of GiveUpCore, still under the run queue's lock.               *)
ForgetRunQueue(c) ==
    /\ op[c].at = "forget"
    /\ tcb' = [tcb EXCEPT ![op[c].tid].run_queue_ID = INVALID_CORE]
    /\ Goto(c, Idle)
    /\ UNCHANGED <<q, placeVars, blocked_thread_map, coreVars, msgs, feederVars>>

(* blockThread: BlockThread, three critical sections.                      *)
BlockThread(c, u) ==
    LET t == op[c].tid
    IN  /\ HasHandshake(c)
        /\ <<t, u>> \in Joins \ joined
        /\ joined' = joined \cup {<<t, u>>}
        /\ tcb' = [tcb EXCEPT ![t].blocked_on = u]
        /\ Goto(c, ActingOn("map", t))
        /\ UNCHANGED <<q, placeVars, blocked_thread_map, coreVars, msgs, fstate, exited>>

RecordSleeper(c) ==
    LET t == op[c].tid
        u == tcb[t].blocked_on
        vacant == blocked_thread_map[u] = INVALID_THREADID
    IN  /\ op[c].at = "map"
        /\ blocked_thread_map' = [blocked_thread_map EXCEPT
                                     ![u] = IF vacant THEN t ELSE @]
        /\ Goto(c, ActingOn(IF vacant THEN "giveup" ELSE "abort", t))
        /\ UNCHANGED <<q, placeVars, tcb, coreVars, msgs, feederVars>>

GiveUpBlocked(c) ==
    op[c].at = "giveup" /\ GiveUpCore(c, TRUE) /\ UNCHANGED fstate

(* setThreadAffinity: SetThreadAffinity, then MigrateThread, whose last    *)
(* call is ScheduleNewThread without the check.                            *)
MigrateThread(c, k) ==
    LET t == op[c].tid
    IN  /\ HasControl(c, "affinity")
        /\ affinity' = [affinity EXCEPT ![t] = k]
        /\ IF Head(q[c]) = t
           THEN /\ ScheduleNextUnblockedThread(c, PopHead(q[c]))
                /\ Goto(c, Scheduling("affinity", <<t>>))
           ELSE Goto(c, ActingOn("abort", t)) /\ UNCHANGED <<q, coreVars>>
        /\ UNCHANGED <<last_coreID, processCoreSet, blockVars, msgs, feederVars>>

-----------------------------------------------------------------------------
(* UnblockSleepers, three critical sections.                               *)

(* Mutant: the entry of blocked_thread_map is read but not erased.         *)
PeekSleeper(c) ==
    LET b == blocked_thread_map[op[c].tid]
    IN  /\ op[c].at = "unblock"
        /\ Goto(c, IF b = INVALID_THREADID THEN Idle ELSE ActingOn("wake", b))
        /\ UNCHANGED <<q, placeVars, blockVars, coreVars, msgs, feederVars>>

TakeSleeper(c) ==
    LET t == op[c].tid
        b == blocked_thread_map[t]
    IN  /\ op[c].at = "unblock"
        /\ blocked_thread_map' =
              [blocked_thread_map EXCEPT ![t] = INVALID_THREADID]
        /\ Goto(c, IF b = INVALID_THREADID THEN Idle ELSE ActingOn("wake", b))
        /\ UNCHANGED <<q, placeVars, tcb, coreVars, msgs, feederVars>>

(* threads.at throws if the sleeper has no TCB.                            *)
WakeSleeper(c) ==
    LET b == op[c].tid
        r == tcb[b].run_queue_ID
    IN  /\ op[c].at = "wake"
        /\ tcb' = [tcb EXCEPT ![b].blocked_on = INVALID_THREADID]
        /\ Goto(c, IF ~tcb[b].exists THEN ActingOn("abort", b)
                   ELSE IF r = INVALID_CORE THEN Idle
                   ELSE [ActingOn("activate", b) EXCEPT !.core = r])
        /\ UNCHANGED <<q, placeVars, blocked_thread_map, coreVars, msgs,
                       feederVars>>

(* front() of an empty std::queue is undefined: the comparison may come    *)
(* out either way.                                                         *)
FrontMayBe(s, t) == IF s = <<>> THEN BOOLEAN ELSE {Head(s) = t}

ActivateSleeper(c) ==
    LET b == op[c].tid
        r == op[c].core
    IN  /\ op[c].at = "activate"
        /\ Unlocked(r)
        /\ \E wake \in FrontMayBe(q[r], b) :
              /\ active' = [active EXCEPT ![r] = @ \/ wake]
              /\ threadCores' = [threadCores EXCEPT ![b] = IF wake THEN r ELSE @]
              /\ coreThreads' = [coreThreads EXCEPT ![r] = IF wake THEN b ELSE @]
        /\ Goto(c, Idle)
        /\ UNCHANGED <<q, placeVars, blockVars, msgs, feederVars>>

-----------------------------------------------------------------------------
SimThread(c) ==
    \/ ReceiveNewThread(c) \/ ReceiveProcessThreads(c) \/ QueueEmpty(c)
    \/ CheckScheduled(c) \/ ChooseCore(c) \/ SetRunQueue(c) \/ Enqueue(c)
    \/ GetCoreThread(c) \/ ForgetRunQueue(c) \/ EraseThread(c)
    \/ RecordSleeper(c) \/ GiveUpBlocked(c)
    \/ TakeSleeper(c) \/ WakeSleeper(c) \/ ActivateSleeper(c)

Handshake(c) ==
    \/ SimulateInsn(c) \/ Yield(c) \/ Leave(c) \/ DescheduleActiveThread(c)
    \/ \E u \in Threads : BlockThread(c, u)
    \/ \E k \in Cores : MigrateThread(c, k)

Feeder ==
    \/ \E t \in Threads :
          ScheduleThread(t) \/ SeesScheduled(t) \/ SeesDescheduled(t)
    \/ \E a \in Resumes : ResumeSimulation(a)

(* A failed assert kills the whole timing simulator.                       *)
Aborted == \E c \in Cores : op[c].at = "abort"

Next == ~Aborted /\ (Feeder \/ \E c \in Cores : SimThread(c) \/ Handshake(c))

Spec == Init /\ [][Next]_vars

(* Sim threads and polling feeders keep running.  A sim thread that waits  *)
(* for the lock of a run queue gets it, however often others take it: the  *)
(* lock is first come, first served (TicketLock).  A thread at the head of *)
(* a queue does not keep the core for ever: the scheduler tick expires     *)
(* (knob scheduler_tick > 0) if it does not leave or exit before.          *)
Fairness ==
    /\ \A c \in Cores :
          /\ WF_vars(~Aborted /\ SimThread(c))
          /\ SF_vars(~Aborted /\ (Enqueue(c) \/ ActivateSleeper(c)))
          /\ SF_vars(~Aborted /\ (Yield(c) \/ Leave(c)
                                  \/ DescheduleActiveThread(c)))
    /\ \A t \in Threads :
          WF_vars(~Aborted /\ (SeesScheduled(t) \/ SeesDescheduled(t)))

FairSpec == Spec /\ Fairness

-----------------------------------------------------------------------------
(* Queues, control blocks, maps and sim threads have the shapes the code   *)
(* gives them; last_coreID in particular stays the number of a core.       *)
TypeOK ==
    /\ q \in [Cores -> Seq(Threads)]
    /\ last_coreID \in Cores
    /\ affinity \in [Threads -> CoreOrNone]
    /\ processCoreSet \in [Asids -> SUBSET Cores]
    /\ tcb \in [Threads -> TCB]
    /\ blocked_thread_map \in [Threads -> ThreadOrNone]
    /\ active \in [Cores -> BOOLEAN]
    /\ coreThreads \in [Cores -> ThreadOrNone]
    /\ threadCores \in [Threads -> CoreOrNone \cup {NoEntry}]
    /\ msgs \in Seq(Message)
    /\ op \in [Cores -> Op]
    /\ fstate \in [Threads -> {"off", "waiting", "on", "leaving"}]
    /\ exited \subseteq Threads
    /\ joined \subseteq Joins

(* "Make sure thread is queued at one and only one runqueue."              *)
OneRunQueue ==
    \A c, d \in Cores : \A i \in DOMAIN q[c], j \in DOMAIN q[d] :
        q[c][i] = q[d][j] => c = d /\ i = j

(* No assert of the scheduler fails and no threads.at throws.              *)
NoAbort ==
    /\ ~Aborted
    /\ \A c \in Cores : \A i \in DOMAIN q[c] : tcb[q[c][i]].exists

(* A sim thread about to act on its thread still finds it at the head of   *)
(* its core's queue: DescheduleActiveThread and GiveUpCore pop the head    *)
(* without looking.                                                        *)
ActsOnHead ==
    \A c \in Cores : op[c].at \in {"front", "map", "giveup"} =>
        q[c] # <<>> /\ Head(q[c]) = op[c].tid

(* Until a thread blocks, the three views of a core agree: it is active    *)
(* exactly if its queue is not empty, and the shared maps name the head of *)
(* the queue and nobody else.  They differ only while a sim thread that    *)
(* holds the queue's lock has popped a dead thread and not yet scheduled   *)
(* the next one.                                                           *)
ViewsAgree ==
    joined = {} => \A c \in {d \in Cores : op[d].at # "erase"} :
        /\ active[c] <=> q[c] # <<>>
        /\ coreThreads[c] = IF q[c] = <<>> THEN INVALID_THREADID ELSE Head(q[c])
        /\ \A i \in DOMAIN q[c] :
              threadCores[q[c][i]] = IF i = 1 THEN c ELSE INVALID_CORE

(* What the sim threads rely on when they share run queues, maps and locks. *)
RunQueuesSound == TypeOK /\ OneRunQueue /\ NoAbort /\ ActsOnHead /\ ViewsAgree

(* A blocked thread is known to its blocker's entry of blocked_thread_map, *)
(* or a sim thread is on its way to make or to honour that entry; and an   *)
(* entry always names a thread blocked on its key.                         *)
SleepersAccounted ==
    \A t, u \in Threads :
        /\ blocked_thread_map[u] = t => tcb[t].blocked_on = u
        /\ tcb[t].blocked_on = u =>
              \/ blocked_thread_map[u] = t
              \/ \E c \in Cores : op[c].at \in {"map", "wake"} /\ op[c].tid = t

(* pthread_join as simulated: a joiner goes on only when the joined thread *)
(* has exited.                                                             *)
JoinReturnsAfterExit ==
    [][\A t, u \in Threads :
          tcb[t].blocked_on = u /\ tcb'[t].blocked_on # u
              => u \in exited]_vars

-----------------------------------------------------------------------------
(* What a comment in the code says and the code does not do.               *)

(* scheduler.h:56, of BlockThread: "block until thread @blocked_on exits". *)
BlockedUntilExit ==
    \A t, u \in Threads :
        tcb[t].blocked_on = u /\ u \in exited ~> tcb[t].blocked_on # u
=============================================================================
